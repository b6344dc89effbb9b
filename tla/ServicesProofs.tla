--------------------------- MODULE ServicesProofs ---------------------------
(***************************************************************************)
(* Proofs about the services of a node that share no state: network time,  *)
(* software cryptography, managed variables, the calendar, the hash, and   *)
(* the schema with the packet codec, for every value of their constants,   *)
(* the bounds of the model checker included.                               *)
(***************************************************************************)
EXTENDS Services, FiniteSetTheorems, SequenceTheorems, NaturalsInduction,
        WellFoundedInduction, TLAPS

-----------------------------------------------------------------------------
(* Network time *)

SourceEntries == [priority : Nat, seen : Int, time : Int]

(***************************************************************************)
(* The source map: none of its entries is ahead of the network, also not   *)
(* one that a lookup added for a source that never announced anything.     *)
(***************************************************************************)
SourceMaps ==
    {f \in UNION {[D -> SourceEntries] : D \in SUBSET (Names \cup {NoSource})} :
        \A s \in DOMAIN f : f[s].time <= f[s].seen + Epoch}

TimeRecords ==
    [enabled : BOOLEAN, role : {0, 1, 2}, has : BOOLEAN,
     anchor_local : Int, anchor_unix : Int,
     source : Names \cup {NoSource}, priority : Nat,
     sources : SourceMaps, last_announce : Int, last_request : Int]

TimeTypeOK ==
    /\ now \in Nat /\ requestedAt \in Int /\ invented \in BOOLEAN
    /\ timesync \in TimeRecords

(* The inductive invariant behind TimeWithinDelay. *)
TimeInv == TimeTypeOK /\ TimeWithinDelay

(* The source map starts empty. *)
LEMMA NoSources == << >> \in SourceMaps
  <1>1. DOMAIN << >> = {} /\ << >> \in [{} -> SourceEntries]
    OBVIOUS
  <1> QED
    BY <1>1 DEF SourceMaps

(* A new entry keeps the map a map when it is not ahead itself. *)
LEMMA WithSourceType ==
  ASSUME NEW f \in SourceMaps, NEW s \in Names \cup {NoSource}, NEW e \in SourceEntries,
         e.time <= e.seen + Epoch
  PROVE  WithSource(f, s, e) \in SourceMaps
  <1>1. PICK D \in SUBSET (Names \cup {NoSource}) : f \in [D -> SourceEntries]
    BY DEF SourceMaps
  <1>2. WithSource(f, s, e) \in [D \cup {s} -> SourceEntries]
    BY <1>1 DEF WithSource
  <1>3. \A n \in D \cup {s} : WithSource(f, s, e)[n].time <= WithSource(f, s, e)[n].seen + Epoch
    BY <1>1 DEF WithSource, SourceMaps
  <1> QED
    BY <1>1, <1>2, <1>3 DEF SourceMaps

(* So does dropping entries. *)
LEMMA RestrictType ==
  ASSUME NEW f \in SourceMaps, NEW S \in SUBSET DOMAIN f
  PROVE  Restrict(f, S) \in SourceMaps
  <1>1. PICK D \in SUBSET (Names \cup {NoSource}) : f \in [D -> SourceEntries]
    BY DEF SourceMaps
  <1>2. Restrict(f, S) \in [S -> SourceEntries] /\ S \in SUBSET (Names \cup {NoSource})
    BY <1>1 DEF Restrict
  <1>3. \A n \in S : Restrict(f, S)[n].time <= Restrict(f, S)[n].seen + Epoch
    BY <1>1 DEF Restrict, SourceMaps
  <1> QED
    BY <1>2, <1>3 DEF SourceMaps

LEMMA TimeInvInit == TimeInit => TimeInv
  <1> SUFFICES ASSUME TimeInit
               PROVE  TimeInv
    OBVIOUS
  <1>1. TimeTypeOK
    <2>1. now \in Nat /\ requestedAt \in Int
      BY DEF TimeInit
    <2>2. invented \in BOOLEAN
      BY DEF TimeInit
    <2>3. timesync \in TimeRecords
      BY NoSources DEF TimeInit, TimeRecords, Worst
    <2> QED
      BY <2>1, <2>2, <2>3 DEF TimeTypeOK
  <1>2. TimeWithinDelay
    BY TimeAssumption DEF TimeInit, TimeWithinDelay
  <1> QED
    BY <1>1, <1>2 DEF TimeInv

(* An anchor set from a packet that was d under way is d behind. *)
LEMMA AnchoredDelay ==
  ASSUME TimeTypeOK, NEW d \in 0 .. MaxDelay, timesync'.anchor_local = now,
         timesync'.anchor_unix = TrueTime - d, now' = now, answer' = answer,
         TimeWithinDelay
  PROVE  TimeWithinDelay'
  <1>1. NetworkTime(timesync', now) = TrueTime - d
    BY TimeAssumption DEF NetworkTime, TimeTypeOK, TrueTime
  <1>2. TrueTime - NetworkTime(timesync', now) = d
    BY <1>1, TimeAssumption DEF TrueTime, TimeTypeOK
  <1> QED
    BY <1>2 DEF TimeWithinDelay, TrueTime, NetworkTime

(***************************************************************************)
(* A failover never moves the time back, and never past the network: the   *)
(* new source's time is not ahead, and the later of the two is taken.      *)
(***************************************************************************)
LEMMA FailedOverBetween ==
  ASSUME TimeTypeOK, NEW s \in DOMAIN timesync.sources, timesync' = FailedOver(timesync, s)
  PROVE  /\ timesync' \in TimeRecords /\ timesync'.has = TRUE
         /\ NetworkTime(timesync', now) >= NetworkTime(timesync, now)
         /\ \/ NetworkTime(timesync', now) = NetworkTime(timesync, now)
            \/ NetworkTime(timesync', now) <= TrueTime
  <1> DEFINE src == timesync.sources[s]
             candidate == src.time + (now - src.seen)
             current == NetworkTime(timesync, now)
             unix == Max({candidate, current})
  <1>1. /\ src \in SourceEntries /\ src.time <= src.seen + Epoch
        /\ s \in Names \cup {NoSource}
    BY DEF TimeTypeOK, TimeRecords, SourceMaps
  <1> HIDE DEF src
  <1>2. candidate \in Int /\ candidate <= TrueTime /\ src.priority \in Nat
    BY <1>1, TimeAssumption DEF TimeTypeOK, SourceEntries, TrueTime
  <1>3. current \in Int
    BY DEF TimeTypeOK, TimeRecords, NetworkTime
  <1> HIDE DEF candidate, current
  <1>4. unix \in Int /\ unix >= candidate /\ unix >= current /\ unix \in {candidate, current}
    BY <1>2, <1>3 DEF Max
  <1>5. timesync' = [Anchored(timesync, unix) EXCEPT !.source = s, !.priority = src.priority]
    BY DEF FailedOver, src, candidate, current
  <1> HIDE DEF unix
  <1>6. /\ timesync' \in TimeRecords /\ timesync'.has = TRUE
        /\ timesync'.anchor_local = now /\ timesync'.anchor_unix = unix
    <2>1. now \in Int /\ timesync \in TimeRecords
      BY DEF TimeTypeOK
    <2>2. Anchored(timesync, unix) \in TimeRecords
      BY <1>4, <2>1 DEF Anchored, TimeRecords
    <2>3. /\ Anchored(timesync, unix).has = TRUE
          /\ Anchored(timesync, unix).anchor_local = now
          /\ Anchored(timesync, unix).anchor_unix = unix
      BY <2>1 DEF Anchored, TimeRecords
    <2> QED
      BY <1>1, <1>2, <1>5, <2>2, <2>3 DEF TimeRecords
  <1>7. NetworkTime(timesync', now) = unix
    BY <1>4, <1>6 DEF NetworkTime, TimeTypeOK
  <1> QED
    BY <1>2, <1>3, <1>4, <1>6, <1>7 DEF current

(* Every step keeps a time that was not made up within a packet delay. *)
LEMMA TimeInvNext == TimeInv /\ [TimeNext]_timeVars => TimeInv'
  <1> SUFFICES ASSUME TimeInv, [TimeNext]_timeVars
               PROVE  TimeInv'
    OBVIOUS
  <1>0. TimeTypeOK /\ TimeWithinDelay
    BY DEF TimeInv
  <1>a. ASSUME TimeTypeOK', now' = now, answer' = answer, invented' = invented,
               timesync'.has = timesync.has,
               timesync'.anchor_local = timesync.anchor_local,
               timesync'.anchor_unix = timesync.anchor_unix
        PROVE  TimeInv'
    BY <1>0, <1>a DEF TimeInv, TimeWithinDelay, NetworkTime, TrueTime
  <1>1. ASSUME NEW d \in 0 .. MaxDelay, NEW s \in TimeSources, HandleAnnounce(s, d)
        PROVE  TimeInv'
    <2> DEFINE entry == [priority |-> TimePriority[s], seen |-> now, time |-> TrueTime - d]
               heard == [timesync EXCEPT !.sources = WithSource(@, s, entry)]
               looked == ~(~heard.has \/ TimePriority[s] < heard.priority
                           \/ heard.source = NoSource)
               known == IF looked /\ heard.source \notin DOMAIN heard.sources
                        THEN [heard EXCEPT !.sources = WithSource(@, heard.source, Unheard)]
                        ELSE heard
               follow == ~looked \/ TimedOut(known.sources[known.source])
    <2>1. /\ timesync' = IF follow
                         THEN [Anchored(known, TrueTime - d)
                                 EXCEPT !.source = s, !.priority = TimePriority[s]]
                         ELSE known
          /\ invented' = (invented /\ ~follow)
          /\ UNCHANGED <<now, requestedAt, answer, timeCalls>>
      BY <1>1 DEF HandleAnnounce
    <2>2. entry \in SourceEntries /\ entry.time <= entry.seen + Epoch
      BY <1>0, TimeAssumption DEF SourceEntries, TrueTime, TimeTypeOK
    <2>3. s \in Names \cup {NoSource} /\ timesync.sources \in SourceMaps
      BY <1>0 DEF Names, TimeTypeOK, TimeRecords
    <2>4. WithSource(timesync.sources, s, entry) \in SourceMaps
      BY <2>2, <2>3, WithSourceType
    <2> HIDE DEF entry
    <2>5. heard \in TimeRecords
      BY <1>0, <2>4 DEF TimeTypeOK, TimeRecords
    <2>6. /\ heard.has = timesync.has
          /\ heard.anchor_local = timesync.anchor_local
          /\ heard.anchor_unix = timesync.anchor_unix
      BY <1>0 DEF TimeTypeOK, TimeRecords
    <2> HIDE DEF heard
    <2>7. Unheard \in SourceEntries /\ Unheard.time <= Unheard.seen + Epoch
      BY TimeAssumption DEF Unheard, SourceEntries
    <2>8. WithSource(heard.sources, heard.source, Unheard) \in SourceMaps
      BY <2>5, <2>7, WithSourceType DEF TimeRecords
    <2>9. known \in TimeRecords
      BY <2>5, <2>8 DEF TimeRecords
    <2>10. /\ known.has = timesync.has
           /\ known.anchor_local = timesync.anchor_local
           /\ known.anchor_unix = timesync.anchor_unix
      BY <2>5, <2>6 DEF TimeRecords
    <2> HIDE DEF known, looked
    <2>11. CASE follow
      <3>1. timesync' = [Anchored(known, TrueTime - d)
                           EXCEPT !.source = s, !.priority = TimePriority[s]]
        BY <2>1, <2>11
      <3>2. TrueTime - d \in Int /\ now \in Int /\ TimePriority[s] \in Nat
        BY <1>0, TimeAssumption DEF TrueTime, TimeTypeOK
      <3>3. /\ timesync' \in TimeRecords
            /\ timesync'.anchor_local = now /\ timesync'.anchor_unix = TrueTime - d
        BY <2>3, <2>9, <3>1, <3>2 DEF Anchored, TimeRecords
      <3>4. TimeTypeOK'
        BY <1>0, <2>1, <3>3 DEF TimeTypeOK
      <3> QED
        BY <1>0, <2>1, <3>3, <3>4, AnchoredDelay DEF TimeInv
    <2>12. CASE ~follow
      <3>1. timesync' = known /\ invented' = invented
        BY <1>0, <2>1, <2>12 DEF TimeTypeOK
      <3>2. TimeTypeOK'
        BY <1>0, <2>1, <2>9, <3>1 DEF TimeTypeOK
      <3> QED
        BY <1>a, <2>1, <2>10, <3>1, <3>2
    <2> QED
      BY <2>11, <2>12

  <1>2. ASSUME NEW d \in 0 .. MaxDelay, HandleResponse(d)
        PROVE  TimeInv'
    <2>1. /\ timesync' = Anchored(timesync, TrueTime - d) /\ invented' = FALSE
          /\ UNCHANGED <<now, requestedAt, answer, timeCalls>>
      BY <1>2 DEF HandleResponse
    <2>2. TrueTime - d \in Int /\ now \in Int
      BY <1>0, TimeAssumption DEF TrueTime, TimeTypeOK
    <2>3. /\ timesync' \in TimeRecords
          /\ timesync'.anchor_local = now /\ timesync'.anchor_unix = TrueTime - d
      BY <1>0, <2>1, <2>2 DEF Anchored, TimeTypeOK, TimeRecords
    <2>4. TimeTypeOK'
      BY <1>0, <2>1, <2>3 DEF TimeTypeOK
    <2> QED
      BY <1>0, <2>1, <2>3, <2>4, AnchoredDelay DEF TimeInv
  <1>3. CASE HandleRequest
    <2>1. timesync.has /\ UNCHANGED <<now, timesync, requestedAt, invented>>
      BY <1>3 DEF HandleRequest
    <2>2. answer' \in 0 .. MaxDelay
      BY <1>0, <1>3 DEF HandleRequest, TimeWithinDelay
    <2> QED
      BY <1>0, <2>1, <2>2 DEF TimeInv, TimeTypeOK, TimeWithinDelay, NetworkTime, TrueTime
  <1>4. ASSUME NEW c \in TimeConfigs, Configure(c[1], c[2])
        PROVE  TimeInv'
    <2> DEFINE ts == [timesync EXCEPT !.enabled = c[1], !.role = c[2]]
               invent == c[1] /\ c[2] = 1 /\ ~ts.has
    <2>1. /\ timesync' = IF invent THEN Anchored(ts, InventedEpoch + now) ELSE ts
          /\ invented' = (invented \/ invent)
          /\ UNCHANGED <<now, requestedAt, answer>>
      BY <1>4 DEF Configure
    <2>2. c[1] \in BOOLEAN /\ c[2] \in {0, 1, 2}
      BY TimeAssumption
    <2>3. ts \in TimeRecords
      BY <1>0, <2>2 DEF TimeTypeOK, TimeRecords
    <2>4. /\ ts.has = timesync.has /\ ts.anchor_local = timesync.anchor_local
          /\ ts.anchor_unix = timesync.anchor_unix
      BY <1>0 DEF TimeTypeOK, TimeRecords
    <2> HIDE DEF ts
    <2>5. CASE invent
      <3>1. InventedEpoch + now \in Int /\ now \in Int
        BY <1>0, TimeAssumption DEF TimeTypeOK
      <3>2. timesync' \in TimeRecords
        BY <2>1, <2>3, <2>5, <3>1 DEF Anchored, TimeRecords
      <3>3. invented' = TRUE
        BY <2>1, <2>5
      <3> QED
        BY <1>0, <2>1, <3>2, <3>3 DEF TimeInv, TimeTypeOK, TimeWithinDelay
    <2>6. CASE ~invent
      <3>1. timesync' = ts /\ invented' = invented
        BY <1>0, <2>1, <2>6 DEF TimeTypeOK
      <3>2. TimeTypeOK'
        BY <1>0, <2>1, <2>3, <3>1 DEF TimeTypeOK
      <3> QED
        BY <1>a, <2>1, <2>4, <3>1, <3>2
    <2> QED
      BY <2>5, <2>6
  <1>5. CASE SetLocalTime
    <2> DEFINE ts == Anchored(timesync, TrueTime)
    <2>1. /\ timesync' = IF ts.source = NoSource
                         THEN [ts EXCEPT !.source = "local", !.priority = OwnPriority] ELSE ts
          /\ invented' = FALSE /\ UNCHANGED <<now, requestedAt, answer>>
      BY <1>5 DEF SetLocalTime
    <2>2. TrueTime \in Int /\ now \in Int /\ OwnPriority \in Nat /\ "local" \in Names
          /\ 0 \in 0 .. MaxDelay /\ TrueTime = TrueTime - 0
      BY <1>0, TimeAssumption DEF TrueTime, TimeTypeOK, Names
    <2>3. ts \in TimeRecords /\ ts.anchor_local = now /\ ts.anchor_unix = TrueTime
      BY <1>0, <2>2 DEF Anchored, TimeTypeOK, TimeRecords
    <2> HIDE DEF ts
    <2>4. /\ timesync' \in TimeRecords
          /\ timesync'.anchor_local = now /\ timesync'.anchor_unix = TrueTime
      BY <2>1, <2>2, <2>3 DEF TimeRecords
    <2>5. TimeTypeOK'
      BY <1>0, <2>1, <2>4 DEF TimeTypeOK
    <2> QED
      BY <1>0, <2>1, <2>2, <2>4, <2>5, AnchoredDelay DEF TimeInv
  <1>6. CASE ClearLocalTime
    <2>1. /\ timesync' = [timesync EXCEPT !.has = FALSE, !.source = NoSource, !.priority = Worst]
          /\ invented' = FALSE /\ UNCHANGED <<now, requestedAt, answer>>
      BY <1>6 DEF ClearLocalTime
    <2>a. Worst \in Nat
      BY DEF Worst
    <2>2. timesync' \in TimeRecords /\ timesync'.has = FALSE
      BY <1>0, <2>1, <2>a DEF TimeTypeOK, TimeRecords
    <2> QED
      BY <1>0, <2>1, <2>2 DEF TimeInv, TimeTypeOK, TimeWithinDelay
  <1>7. ASSUME NEW s \in Names, ClearTimeSource(s)
        PROVE  TimeInv'
    <2> DEFINE ts == [timesync EXCEPT !.sources = Restrict(@, DOMAIN @ \ {s})]
    <2>1. /\ timesync' = IF ts.source = s
                         THEN [ts EXCEPT !.source = NoSource, !.priority = Worst] ELSE ts
          /\ UNCHANGED <<now, requestedAt, invented, answer>>
      BY <1>7 DEF ClearTimeSource
    <2>2. Restrict(timesync.sources, DOMAIN timesync.sources \ {s}) \in SourceMaps
      BY <1>0, RestrictType DEF TimeTypeOK, TimeRecords
    <2>3. /\ ts \in TimeRecords
          /\ ts.has = timesync.has /\ ts.anchor_local = timesync.anchor_local
          /\ ts.anchor_unix = timesync.anchor_unix
      BY <1>0, <2>2 DEF TimeTypeOK, TimeRecords
    <2> HIDE DEF ts
    <2>a. Worst \in Nat
      BY DEF Worst
    <2>4. /\ timesync' \in TimeRecords
          /\ timesync'.has = ts.has /\ timesync'.anchor_local = ts.anchor_local
          /\ timesync'.anchor_unix = ts.anchor_unix
      BY <2>1, <2>3, <2>a DEF TimeRecords
    <2>5. TimeTypeOK'
      BY <1>0, <2>1, <2>4 DEF TimeTypeOK
    <2> QED
      BY <1>a, <2>1, <2>3, <2>4, <2>5
  <1>8. CASE GetNetworkTime
    <2>0. timesync.has /\ UNCHANGED <<now, requestedAt, invented, answer, timeCalls>>
      BY <1>8 DEF GetNetworkTime
    <2>1. CASE timesync' = timesync
      BY <1>0, <1>a, <2>0, <2>1 DEF TimeTypeOK
    <2>2. CASE timesync' # timesync
      <3>1. PICK s \in DOMAIN timesync.sources : timesync' = FailedOver(timesync, s)
        BY <1>8, <2>2 DEF GetNetworkTime
      <3>2. /\ timesync' \in TimeRecords /\ timesync'.has = TRUE
            /\ NetworkTime(timesync', now) >= NetworkTime(timesync, now)
            /\ \/ NetworkTime(timesync', now) = NetworkTime(timesync, now)
               \/ NetworkTime(timesync', now) <= TrueTime
        BY <1>0, <3>1, FailedOverBetween
      <3>3. TimeTypeOK'
        BY <1>0, <2>0, <3>2 DEF TimeTypeOK
      <3>4. /\ NetworkTime(timesync, now) \in Int /\ NetworkTime(timesync', now) \in Int
            /\ TrueTime \in Int
        BY <1>0, <3>2, TimeAssumption DEF NetworkTime, TimeTypeOK, TimeRecords, TrueTime
      <3>5. ~invented => TrueTime - NetworkTime(timesync', now) \in 0 .. MaxDelay
        BY <1>0, <2>0, <3>2, <3>4, TimeAssumption DEF TimeWithinDelay
      <3>6. TrueTime' = TrueTime /\ NetworkTime(timesync, now)' = NetworkTime(timesync', now)
        BY <2>0 DEF TrueTime, NetworkTime
      <3> QED
        BY <1>0, <2>0, <3>3, <3>5, <3>6 DEF TimeInv, TimeWithinDelay
    <2> QED
      BY <2>1, <2>2

  <1>9. ASSUME NEW told \in TimeSources \cup {NoSource}, PollTimeSync(told)
        PROVE  TimeInv'
    <2> DEFINE rest == {s \in DOMAIN timesync.sources : ~TimedOut(timesync.sources[s])}
               gone == timesync.source \in DOMAIN timesync.sources \ rest
               ts   == [timesync EXCEPT
                          !.sources = Restrict(@, rest),
                          !.source = IF gone THEN NoSource ELSE @,
                          !.priority = IF gone THEN Worst ELSE @]
               source == IF ts.source = NoSource THEN told ELSE ts.source
    <2>1. /\ \/ timesync' = [ts EXCEPT !.last_announce = now] /\ UNCHANGED requestedAt
             \/ /\ timesync' = [ts EXCEPT !.source = source, !.last_request = now]
                /\ requestedAt' = IF requestedAt = -1 THEN now ELSE requestedAt
             \/ timesync' = ts /\ UNCHANGED requestedAt
          /\ UNCHANGED <<now, invented, answer>>
      BY <1>9 DEF PollTimeSync
    <2>2. Restrict(timesync.sources, rest) \in SourceMaps
      BY <1>0, RestrictType DEF TimeTypeOK, TimeRecords
    <2> HIDE DEF rest
    <2>3. Worst \in Nat
      BY DEF Worst
    <2>4. /\ ts \in TimeRecords
          /\ ts.has = timesync.has /\ ts.anchor_local = timesync.anchor_local
          /\ ts.anchor_unix = timesync.anchor_unix
      BY <1>0, <2>2, <2>3 DEF TimeTypeOK, TimeRecords
    <2> HIDE DEF ts
    <2>5. source \in Names \cup {NoSource}
      BY <2>4 DEF TimeRecords, Names
    <2> HIDE DEF source
    <2>6. now \in Int
      BY <1>0 DEF TimeTypeOK
    <2>7. /\ timesync' \in TimeRecords
          /\ timesync'.has = ts.has /\ timesync'.anchor_local = ts.anchor_local
          /\ timesync'.anchor_unix = ts.anchor_unix
      <3>1. CASE timesync' = [ts EXCEPT !.last_announce = now]
        BY <2>4, <2>6, <3>1 DEF TimeRecords
      <3>2. CASE timesync' = [ts EXCEPT !.source = source, !.last_request = now]
        BY <2>4, <2>5, <2>6, <3>2 DEF TimeRecords
      <3> QED
        BY <2>1, <2>4, <3>1, <3>2
    <2>8. requestedAt' \in Int
      BY <1>0, <2>1 DEF TimeTypeOK
    <2>9. TimeTypeOK'
      BY <1>0, <2>1, <2>7, <2>8 DEF TimeTypeOK
    <2> QED
      BY <1>a, <2>1, <2>4, <2>7, <2>9
  <1>10. CASE Pass
    <2>1. now' = now + 1 /\ UNCHANGED <<timesync, requestedAt, invented, answer>>
      BY <1>10 DEF Pass
    <2>2. TrueTime' - NetworkTime(timesync, now)' = TrueTime - NetworkTime(timesync, now)
      BY <1>0, <2>1, TimeAssumption DEF TrueTime, NetworkTime, TimeTypeOK, TimeRecords
    <2>3. TimeTypeOK'
      BY <1>0, <2>1 DEF TimeTypeOK
    <2> QED
      BY <1>0, <2>1, <2>2, <2>3 DEF TimeInv, TimeWithinDelay
  <1>11. CASE UNCHANGED timeVars
    BY <1>0, <1>11 DEF timeVars, TimeInv, TimeTypeOK, TimeWithinDelay, TrueTime, NetworkTime
  <1> QED
    BY <1>1, <1>2, <1>3, <1>4, <1>5, <1>6, <1>7, <1>8, <1>9, <1>10, <1>11 DEF TimeNext

(***************************************************************************)
(* handle_timesync_packet, seds_router_get_network_time_ms and             *)
(* seds_router_poll_timesync keep a time that was not made up within one   *)
(* packet delay behind the network, for every number of sources, all       *)
(* priorities, timeouts and intervals.                                     *)
(***************************************************************************)
THEOREM TimeTheorem == TimeSpec => []TimeWithinDelay
  <1>1. TimeInv => TimeWithinDelay
    BY DEF TimeInv
  <1> QED
    BY <1>1, TimeInvInit, TimeInvNext, PTL DEF TimeSpec

(* seds_router_get_network_time_ms never moves the time back. *)
THEOREM ReadTheorem == TimeSpec => ReadNeverGoesBack
  <1>1. TimeInv /\ [TimeNext]_timeVars =>
          [GetNetworkTime => NetworkTime(timesync', now) >= NetworkTime(timesync, now)]_timeVars
    <2> SUFFICES ASSUME TimeInv, GetNetworkTime
                 PROVE  NetworkTime(timesync', now) >= NetworkTime(timesync, now)
      OBVIOUS
    <2>1. TimeTypeOK
      BY DEF TimeInv
    <2>2. CASE timesync' = timesync
      <3>1. NetworkTime(timesync, now) \in Int
        BY <2>1 DEF NetworkTime, TimeTypeOK, TimeRecords
      <3> QED
        BY <2>2, <3>1
    <2>3. CASE timesync' # timesync
      <3>1. PICK s \in DOMAIN timesync.sources : timesync' = FailedOver(timesync, s)
        BY <2>3 DEF GetNetworkTime
      <3> QED
        BY <2>1, <3>1, FailedOverBetween
    <2> QED
      BY <2>2, <2>3
  <1> QED
    BY <1>1, TimeInvInit, TimeInvNext, PTL DEF TimeSpec, ReadNeverGoesBack

-----------------------------------------------------------------------------
(* Software cryptography *)

(***************************************************************************)
(* Every sealed message has the tag of its own ciphertext and additional   *)
(* data under some key, and one key stream on its text.                    *)
(***************************************************************************)
SealedOK ==
    \A m \in sealed :
        \E key : LET c == [text |-> m.text, under |-> {<<key, m.kid, m.aad>>}]
                 IN  m.ciphertext = c /\ m.tag = <<key, m.kid, m.aad, c>>

(* The inductive invariant behind OpensToWhatWasSealed. *)
CryptoInv == SealedOK /\ OpensToWhatWasSealed

LEMMA CryptoInvNext == CryptoInv /\ [CryptoNext]_cryptoVars => CryptoInv'
  <1> SUFFICES ASSUME CryptoInv, [CryptoNext]_cryptoVars
               PROVE  CryptoInv'
    OBVIOUS
  <1>a. ASSUME UNCHANGED <<sealed, opened>>
        PROVE  CryptoInv'
    BY <1>a DEF CryptoInv, SealedOK, OpensToWhatWasSealed
  <1>1. ASSUME NEW kid \in KeyIds, NEW key \in Keys, RegisterKey(kid, key)
        PROVE  CryptoInv'
    BY <1>1, <1>a DEF RegisterKey
  <1>2. CASE ClearKeys
    BY <1>2, <1>a DEF ClearKeys
  <1>3. ASSUME NEW on \in BOOLEAN, SetProvider(on)
        PROVE  CryptoInv'
    BY <1>3, <1>a DEF SetProvider
  <1>4. ASSUME NEW kid \in KeyIds, NEW aad \in Aads, NEW text \in Texts, Seal(kid, aad, text)
        PROVE  CryptoInv'
    <2> DEFINE key == IF provider THEN "provider" ELSE keys[kid]
               c   == [text |-> text, under |-> {<<key, kid, aad>>}]
               m   == [kid |-> kid, aad |-> aad, text |-> text, ciphertext |-> c,
                       tag |-> <<key, kid, aad, c>>]
    <2>1. ApplyStream(key, kid, aad, [text |-> text, under |-> {}]) = c
      BY DEF ApplyStream, SymDiff
    <2>2. sealed' = sealed \cup {m} /\ opened' = opened
      BY <1>4, <2>1 DEF Seal, SoftwareTag
    <2>3. ASSUME NEW n \in sealed'
          PROVE  \E k : LET d == [text |-> n.text, under |-> {<<k, n.kid, n.aad>>}]
                        IN  n.ciphertext = d /\ n.tag = <<k, n.kid, n.aad, d>>
      <3>1. CASE n \in sealed
        BY <3>1 DEF CryptoInv, SealedOK
      <3>2. CASE n = m
        <4>1. LET d == [text |-> n.text, under |-> {<<key, n.kid, n.aad>>}]
              IN  n.ciphertext = d /\ n.tag = <<key, n.kid, n.aad, d>>
          BY <3>2
        <4> QED
          BY <4>1
      <3> QED
        BY <2>2, <3>1, <3>2
    <2> QED
      BY <2>2, <2>3 DEF CryptoInv, SealedOK, OpensToWhatWasSealed
  <1>5. ASSUME NEW m \in sealed, NEW aad \in Aads, Open(m, aad)
        PROVE  CryptoInv'
    <2> DEFINE key == IF provider THEN "provider" ELSE keys[m.kid]
    <2>1. /\ m.tag = <<key, m.kid, aad, m.ciphertext>> /\ sealed' = sealed
          /\ opened' = [result |-> ApplyStream(key, m.kid, aad, m.ciphertext),
                        message |-> m, aad |-> aad]
      BY <1>5 DEF Open, SoftwareTag
    <2>2. PICK k : LET c == [text |-> m.text, under |-> {<<k, m.kid, m.aad>>}]
                   IN  m.ciphertext = c /\ m.tag = <<k, m.kid, m.aad, c>>
      BY DEF CryptoInv, SealedOK
    <2> HIDE DEF key
    <2>3. k = key /\ aad = m.aad
      BY <2>1, <2>2
    <2>4. ApplyStream(key, m.kid, aad, m.ciphertext) = [text |-> m.text, under |-> {}]
      BY <2>2, <2>3 DEF ApplyStream, SymDiff
    <2> QED
      BY <2>1, <2>3, <2>4 DEF CryptoInv, SealedOK, OpensToWhatWasSealed
  <1>6. CASE UNCHANGED cryptoVars
    BY <1>6, <1>a DEF cryptoVars
  <1> QED
    BY <1>1, <1>2, <1>3, <1>4, <1>5, <1>6 DEF CryptoNext

(***************************************************************************)
(* seds_crypto_open returns the text that was sealed, under the additional *)
(* data it was sealed with, whatever happened to the keys and the provider *)
(* in between, for all key ids, keys, texts and additional data.           *)
(***************************************************************************)
THEOREM OpenTheorem == CryptoSpec => []OpensToWhatWasSealed
  <1>1. CryptoInit => CryptoInv
    BY DEF CryptoInit, CryptoInv, SealedOK, OpensToWhatWasSealed
  <1>2. CryptoInv => OpensToWhatWasSealed
    BY DEF CryptoInv
  <1> QED
    BY <1>1, <1>2, CryptoInvNext, PTL DEF CryptoSpec

-----------------------------------------------------------------------------
(* Managed variables *)

VarTypeOK ==
    /\ varLatest \in [VarNodes -> Nat] /\ varSeen \in [VarNodes -> SUBSET Nat]
    /\ varValues \in [VarLinks -> Seq(Nat)] /\ varVersion \in Nat

(* There is one writer, w, and one reader, r. *)
OneReader(w, r) == w # r /\ VarNodes = {w, r} /\ VarWriters = {w}

(***************************************************************************)
(* What travels to a reader that has seen `seen': a version it has not     *)
(* seen is newer than all it has, and newer than every version before it   *)
(* in the queue, unless it is there already.                               *)
(***************************************************************************)
NewerComesLater(seen, queue) ==
    /\ \A j \in DOMAIN queue : queue[j] \in seen \/ \A v \in seen : v < queue[j]
    /\ \A i, j \in DOMAIN queue :
          i < j => \/ queue[i] < queue[j] \/ queue[j] \in seen
                   \/ \E k \in 1 .. i : queue[k] = queue[j]

(* A version that may be sent next. *)
MayFollow(version, seen, queue) ==
    \/ version \in seen
    \/ \E k \in DOMAIN queue : queue[k] = version
    \/ (\A v \in seen : v < version) /\ (\A k \in DOMAIN queue : queue[k] < version)

(* No version is newer than the last one written. *)
VersionsWritten(w, r) ==
    /\ \A v \in varSeen[r] : v <= varVersion
    /\ \A k \in DOMAIN varValues[<<w, r>>] : varValues[<<w, r>>][k] <= varVersion
    /\ varLatest[w] <= varVersion

(* The inductive invariant behind ReaderNeverGoesBack. *)
VarInv(w, r) ==
    /\ VarTypeOK /\ VersionsWritten(w, r)
    /\ NewerComesLater(varSeen[r], varValues[<<w, r>>])
    /\ varLatest[r] # 0 => varLatest[r] \in varSeen[r]
    /\ \A k \in DOMAIN varValues[<<r, w>>] : varValues[<<r, w>>][k] \in varSeen[r]
    /\ varLatest[w] # 0 => MayFollow(varLatest[w], varSeen[r], varValues[<<w, r>>])

(* The first of the queue arrives. *)
LEMMA NewerAfterReceive ==
  ASSUME NEW seen \in SUBSET Nat, NEW queue \in Seq(Nat), queue # << >>,
         NewerComesLater(seen, queue)
  PROVE  /\ NewerComesLater(seen \cup {Head(queue)}, Tail(queue))
         /\ \A version \in Nat : MayFollow(version, seen, queue) =>
               MayFollow(version, seen \cup {Head(queue)}, Tail(queue))
         /\ Head(queue) \in seen \/ \A v \in seen : v < Head(queue)
  <1> DEFINE rest == Tail(queue)
             more == seen \cup {Head(queue)}
             n    == Len(queue)
  <1>1. /\ rest \in Seq(Nat) /\ DOMAIN rest = 1 .. n - 1
        /\ DOMAIN queue = 1 .. n /\ n \in Nat /\ n >= 1
        /\ \A j \in 1 .. n - 1 : rest[j] = queue[j + 1]
        /\ Head(queue) = queue[1]
    OBVIOUS
  <1>2. \A j \in 1 .. n : queue[j] \in Nat
    OBVIOUS
  <1> HIDE DEF rest, n
  <1>3. \A j \in DOMAIN rest : rest[j] \in more \/ \A v \in more : v < rest[j]
    <2> SUFFICES ASSUME NEW j \in 1 .. n - 1, queue[j + 1] \notin more,
                        NEW v \in more
                 PROVE  v < queue[j + 1]
      BY <1>1
    <2>1. j + 1 \in DOMAIN queue /\ 1 \in DOMAIN queue /\ 1 < j + 1
      BY <1>1
    <2>2. queue[1] < queue[j + 1]
      <3>1. \A k \in 1 .. 1 : queue[k] # queue[j + 1]
        BY <1>1
      <3> QED
        BY <2>1, <3>1 DEF NewerComesLater
    <2> QED
      BY <1>1, <2>1, <2>2 DEF NewerComesLater
  <1>4. ASSUME NEW i \in DOMAIN rest, NEW j \in DOMAIN rest, i < j
        PROVE  \/ rest[i] < rest[j] \/ rest[j] \in more
               \/ \E k \in 1 .. i : rest[k] = rest[j]
    <2>0. i \in 1 .. n - 1 /\ j \in 1 .. n - 1
      BY <1>1
    <2>a. i + 1 \in 1 .. n /\ j + 1 \in 1 .. n /\ i + 1 < j + 1
      <3>1. n \in Nat
        BY <1>1
      <3> QED
        BY <1>4, <2>0, <3>1
    <2>1. /\ i + 1 \in DOMAIN queue /\ j + 1 \in DOMAIN queue /\ i + 1 < j + 1
          /\ rest[i] = queue[i + 1] /\ rest[j] = queue[j + 1]
      BY <1>1, <2>0, <2>a
    <2>2. CASE \E k \in 1 .. i + 1 : queue[k] = queue[j + 1]
      <3>1. PICK k \in 1 .. i + 1 : queue[k] = queue[j + 1]
        BY <2>2
      <3>2. CASE k = 1
        BY <1>1, <2>1, <3>1, <3>2
      <3>3. CASE k # 1
        <4>1. k - 1 \in 1 .. i /\ k - 1 \in 1 .. n - 1 /\ (k - 1) + 1 = k
          BY <1>1, <2>0, <3>3
        <4>2. rest[k - 1] = queue[k]
          BY <1>1, <4>1
        <4> QED
          BY <2>1, <3>1, <4>1, <4>2
      <3> QED
        BY <3>2, <3>3
    <2>3. CASE queue[i + 1] < queue[j + 1] \/ queue[j + 1] \in seen
      BY <2>1, <2>3
    <2> QED
      BY <2>1, <2>2, <2>3 DEF NewerComesLater
  <1>5. ASSUME NEW version \in Nat, MayFollow(version, seen, queue)
        PROVE  MayFollow(version, more, rest)
    <2>1. CASE \E k \in DOMAIN queue : queue[k] = version
      <3>1. PICK k \in DOMAIN queue : queue[k] = version
        BY <2>1
      <3>2. CASE k = 1
        BY <1>1, <3>1, <3>2 DEF MayFollow
      <3>3. CASE k # 1
        <4>1. k - 1 \in DOMAIN rest /\ rest[k - 1] = version
          BY <1>1, <3>1, <3>3
        <4> QED
          BY <4>1 DEF MayFollow
      <3> QED
        BY <3>2, <3>3
    <2>2. CASE (\A v \in seen : v < version) /\ (\A k \in DOMAIN queue : queue[k] < version)
      <3>1. \A v \in more : v < version
        BY <1>1, <2>2
      <3>2. ASSUME NEW k \in DOMAIN rest
            PROVE  rest[k] < version
        <4>1. k + 1 \in DOMAIN queue /\ rest[k] = queue[k + 1]
          BY <1>1
        <4> QED
          BY <2>2, <4>1
      <3> QED
        BY <3>1, <3>2 DEF MayFollow
    <2> QED
      BY <1>5, <2>1, <2>2 DEF MayFollow
  <1>6. queue[1] \in seen \/ \A v \in seen : v < queue[1]
    <2>1. 1 \in DOMAIN queue
      BY <1>1
    <2> QED
      BY <2>1 DEF NewerComesLater
  <1> QED
    BY <1>1, <1>3, <1>4, <1>5, <1>6 DEF NewerComesLater, rest

(* A version that may follow is appended. *)
LEMMA NewerAfterSend ==
  ASSUME NEW seen \in SUBSET Nat, NEW queue \in Seq(Nat), NEW version \in Nat,
         NewerComesLater(seen, queue), MayFollow(version, seen, queue)
  PROVE  /\ NewerComesLater(seen, Append(queue, version))
         /\ MayFollow(version, seen, Append(queue, version))
  <1> DEFINE more == Append(queue, version)
             n    == Len(queue)
  <1>1. /\ more \in Seq(Nat) /\ DOMAIN more = 1 .. n + 1 /\ n \in Nat
        /\ DOMAIN queue = 1 .. n /\ more[n + 1] = version
        /\ \A j \in 1 .. n : more[j] = queue[j]
    OBVIOUS
  <1>2. \A j \in 1 .. n : queue[j] \in Nat
    OBVIOUS
  <1> HIDE DEF more, n
  <1>3. ASSUME NEW j \in DOMAIN more
        PROVE  more[j] \in seen \/ \A v \in seen : v < more[j]
    <2>1. CASE j = n + 1
      BY <1>1, <2>1 DEF NewerComesLater, MayFollow
    <2>2. CASE j # n + 1
      <3>1. j \in 1 .. n
        BY <1>1, <2>2
      <3> QED
        BY <1>1, <3>1 DEF NewerComesLater
    <2> QED
      BY <2>1, <2>2
  <1>4. ASSUME NEW i \in DOMAIN more, NEW j \in DOMAIN more, i < j
        PROVE  \/ more[i] < more[j] \/ more[j] \in seen
               \/ \E k \in 1 .. i : more[k] = more[j]
    <2>0. i \in 1 .. n /\ more[i] = queue[i] /\ \A k \in 1 .. i : more[k] = queue[k]
      BY <1>1, <1>4
    <2>1. CASE j \in 1 .. n
      BY <1>1, <1>4, <2>0, <2>1 DEF NewerComesLater
    <2>2. CASE j = n + 1
      <3>1. more[j] = version
        BY <1>1, <2>2
      <3>2. CASE \E k \in DOMAIN queue : queue[k] = version
        <4>1. PICK k \in 1 .. n : queue[k] = version
          BY <1>1, <3>2
        <4>2. CASE k <= i
          <5>1. k \in 1 .. i
            BY <1>1, <2>0, <4>2
          <5> QED
            BY <2>0, <3>1, <4>1, <5>1
        <4>3. CASE i < k
          <5>1. \/ queue[i] < queue[k] \/ queue[k] \in seen
                \/ \E l \in 1 .. i : queue[l] = queue[k]
            BY <1>1, <2>0, <4>3 DEF NewerComesLater
          <5> QED
            BY <2>0, <3>1, <4>1, <5>1
        <4> QED
          BY <1>1, <2>0, <4>2, <4>3
      <3> QED
        BY <1>1, <2>0, <3>1, <3>2 DEF MayFollow
    <2> QED
      BY <1>1, <2>1, <2>2
  <1>5. MayFollow(version, seen, more)
    BY <1>1 DEF MayFollow
  <1> QED
    BY <1>3, <1>4, <1>5 DEF NewerComesLater, more

(* Initially nothing was written. *)
LEMMA VarInvInit ==
  ASSUME NEW w, NEW r, OneReader(w, r), VarInit
  PROVE  VarInv(w, r)
  <1>1. w \in VarNodes /\ r \in VarNodes /\ <<w, r>> \in VarLinks /\ <<r, w>> \in VarLinks
    BY DEF OneReader, VarLinks
  <1>2. /\ varValues[<<w, r>>] = << >> /\ varValues[<<r, w>>] = << >>
        /\ varSeen[r] = {} /\ varLatest[r] = 0 /\ varLatest[w] = 0
    BY <1>1 DEF VarInit
  <1>3. VarTypeOK
    BY DEF VarInit, VarTypeOK
  <1>4. DOMAIN << >> = {} /\ 0 <= varVersion
    BY DEF VarInit
  <1>5. VersionsWritten(w, r)
    BY <1>2, <1>4 DEF VersionsWritten
  <1> QED
    BY <1>2, <1>3, <1>4, <1>5 DEF VarInv, NewerComesLater

(* Every step keeps the types. *)
LEMMA VarTypeNext == VarTypeOK /\ [VarNext]_varVars => VarTypeOK'
  <1> SUFFICES ASSUME VarTypeOK, [VarNext]_varVars
               PROVE  VarTypeOK'
    OBVIOUS
  <1> USE VarAssumption DEF VarTypeOK
  <1>1. ASSUME NEW n \in VarNodes, NEW rd \in BOOLEAN, NEW wr \in BOOLEAN,
               EnableVariable(n, rd, wr)
        PROVE  VarTypeOK'
    BY <1>1 DEF EnableVariable
  <1>2. ASSUME NEW n \in VarNodes, DisableVariable(n) \/ RequestVariable(n) \/ GetVariable(n)
        PROVE  VarTypeOK'
    BY <1>2 DEF DisableVariable, RequestVariable, GetVariable
  <1>3. ASSUME NEW n \in VarWriters, SetVariable(n)
        PROVE  VarTypeOK'
    <2>1. n \in VarNodes /\ varVersion + 1 \in Nat
      OBVIOUS
    <2>2. \A l \in VarLinks : Append(varValues[l], varVersion + 1) \in Seq(Nat)
      BY <2>1
    <2> QED
      BY <1>3, <2>1, <2>2 DEF SetVariable, Remembered
  <1>4. ASSUME NEW n \in VarWriters, SeedVariable(n)
        PROVE  VarTypeOK'
    BY <1>4 DEF SeedVariable, Remembered
  <1>5. ASSUME NEW l \in VarLinks, ReceiveRequest(l[2], l[1])
        PROVE  VarTypeOK'
    <2>1. l[1] \in VarNodes /\ l[2] \in VarNodes /\ <<l[2], l[1]>> \in VarLinks
      BY DEF VarLinks
    <2>2. Append(varValues[<<l[2], l[1]>>], varLatest[l[2]]) \in Seq(Nat)
      BY <2>1
    <2> QED
      BY <1>5, <2>1, <2>2 DEF ReceiveRequest
  <1>6. ASSUME NEW l \in VarLinks, ReceiveValue(l[2], l[1])
        PROVE  VarTypeOK'
    <2>1. l[1] \in VarNodes /\ l[2] \in VarNodes /\ <<l[1], l[2]>> \in VarLinks
      BY DEF VarLinks
    <2>2. varValues[<<l[1], l[2]>>] # << >>
      BY <1>6 DEF ReceiveValue
    <2>3. /\ Head(varValues[<<l[1], l[2]>>]) \in Nat
          /\ Tail(varValues[<<l[1], l[2]>>]) \in Seq(Nat)
      BY <2>1, <2>2
    <2> QED
      BY <1>6, <2>1, <2>3 DEF ReceiveValue
  <1>7. CASE UNCHANGED varVars
    BY <1>7 DEF varVars
  <1> QED
    BY <1>1, <1>2, <1>3, <1>4, <1>5, <1>6, <1>7 DEF VarNext

(* Every step keeps what travels to the reader in order. *)
LEMMA VarInvNext ==
  ASSUME NEW w, NEW r, OneReader(w, r), VarInv(w, r), [VarNext]_varVars
  PROVE  /\ VarInv(w, r)'
         /\ varLatest'[r] >= varLatest[r] \/ varLatest'[r] = 0
  <1> DEFINE queue == varValues[<<w, r>>]
             back  == varValues[<<r, w>>]
             seen  == varSeen[r]
  <1>1. /\ w \in VarNodes /\ r \in VarNodes /\ w # r /\ VarWriters = {w}
        /\ <<w, r>> \in VarLinks /\ <<r, w>> \in VarLinks /\ <<w, r>> # <<r, w>>
        /\ \A l \in VarLinks : l = <<w, r>> \/ l = <<r, w>>
    BY DEF OneReader, VarLinks
  <1>2. VarTypeOK'
    BY VarTypeNext DEF VarInv
  <1>3. VarTypeOK
    BY DEF VarInv
  <1>4. /\ queue \in Seq(Nat) /\ back \in Seq(Nat) /\ seen \in SUBSET Nat
        /\ varLatest[r] \in Nat /\ varLatest[w] \in Nat /\ varVersion \in Nat
    BY <1>1, <1>3 DEF VarTypeOK
  <1>5. /\ \A v \in seen : v <= varVersion
        /\ \A k \in DOMAIN queue : queue[k] <= varVersion
        /\ varLatest[w] <= varVersion
        /\ NewerComesLater(seen, queue)
        /\ varLatest[r] # 0 => varLatest[r] \in seen
        /\ \A k \in DOMAIN back : back[k] \in seen
        /\ varLatest[w] # 0 => MayFollow(varLatest[w], seen, queue)
    BY DEF VarInv, VersionsWritten
  <1>6. \A k \in DOMAIN queue : queue[k] \in Nat
    BY <1>4
  <1> DEFINE queue1 == varValues'[<<w, r>>]
             back1  == varValues'[<<r, w>>]
             seen1  == varSeen'[r]
             Kept == /\ \A v \in seen1 : v <= varVersion'
                     /\ \A k \in DOMAIN queue1 : queue1[k] <= varVersion'
                     /\ varLatest'[w] <= varVersion'
                     /\ NewerComesLater(seen1, queue1)
                     /\ varLatest'[r] # 0 => varLatest'[r] \in seen1
                     /\ \A k \in DOMAIN back1 : back1[k] \in seen1
                     /\ varLatest'[w] # 0 => MayFollow(varLatest'[w], seen1, queue1)
                     /\ varLatest'[r] >= varLatest[r] \/ varLatest'[r] = 0
  <1> SUFFICES Kept
    BY <1>2 DEF VarInv, VersionsWritten, NewerComesLater, MayFollow
  <1> HIDE DEF queue, back, seen
  <1>7. varLatest[r] >= varLatest[r]
    BY <1>4
  <1>8. ASSUME UNCHANGED <<varSeen, varValues, varLatest, varVersion>>
        PROVE  Kept
    <2>1. queue1 = queue /\ back1 = back /\ seen1 = seen
      BY <1>8 DEF queue, back, seen
    <2> QED
      BY <1>5, <1>7, <1>8, <2>1
  <1>9. ASSUME NEW n \in VarNodes, NEW rd \in BOOLEAN, NEW wr \in BOOLEAN,
               EnableVariable(n, rd, wr)
        PROVE  Kept
    BY <1>8, <1>9 DEF EnableVariable
  <1>10. ASSUME NEW n \in VarNodes, RequestVariable(n) \/ GetVariable(n)
         PROVE  Kept
    BY <1>8, <1>10 DEF RequestVariable, GetVariable
  <1>11. ASSUME NEW n \in VarNodes, DisableVariable(n)
         PROVE  Kept
    <2>1. /\ queue1 = queue /\ back1 = back /\ seen1 = seen /\ varVersion' = varVersion
          /\ varLatest'[r] = 0 \/ varLatest'[r] = varLatest[r]
          /\ varLatest'[w] = 0 \/ varLatest'[w] = varLatest[w]
      BY <1>1, <1>3, <1>11 DEF DisableVariable, VarTypeOK, queue, back, seen
    <2>2. 0 <= varVersion
      BY <1>4
    <2> QED
      BY <1>5, <1>7, <2>1, <2>2
  <1>12. ASSUME NEW n \in VarWriters, SetVariable(n)
         PROVE  Kept
    <2> DEFINE new == varVersion + 1
    <2>1. /\ back1 = back /\ seen1 = seen /\ varVersion' = new
          /\ queue1 = Append(queue, new)
          /\ varLatest'[w] = new /\ varLatest'[r] = varLatest[r]
      BY <1>1, <1>3, <1>12 DEF SetVariable, Remembered, VarTypeOK, queue, back, seen
    <2>2. /\ new \in Nat /\ \A v \in seen : v < new
          /\ \A k \in DOMAIN queue : queue[k] < new
      BY <1>4, <1>5, <1>6
    <2> HIDE DEF new
    <2>3. MayFollow(new, seen, queue)
      BY <2>2 DEF MayFollow
    <2>4. /\ NewerComesLater(seen, Append(queue, new))
          /\ MayFollow(new, seen, Append(queue, new))
      BY <1>4, <1>5, <2>2, <2>3, NewerAfterSend
    <2>5. \A k \in DOMAIN Append(queue, new) : Append(queue, new)[k] \in
              {queue[j] : j \in DOMAIN queue} \cup {new}
      BY <1>4, <2>2
    <2>6. /\ \A k \in DOMAIN queue1 : queue1[k] <= new
          /\ \A v \in seen : v <= new
          /\ new <= new
      BY <1>4, <1>6, <2>1, <2>2, <2>5
    <2> QED
      BY <1>5, <1>7, <2>1, <2>4, <2>6
  <1>13. ASSUME NEW n \in VarWriters, SeedVariable(n)
         PROVE  Kept
    <2> DEFINE new == varVersion + 1
    <2>1. /\ queue1 = queue /\ back1 = back /\ seen1 = seen /\ varVersion' = new
          /\ varLatest'[w] = new /\ varLatest'[r] = varLatest[r]
      BY <1>1, <1>3, <1>13 DEF SeedVariable, Remembered, VarTypeOK, queue, back, seen
    <2>2. /\ new \in Nat /\ new <= new /\ \A v \in seen : v < new /\ v <= new
          /\ \A k \in DOMAIN queue : queue[k] < new /\ queue[k] <= new
      BY <1>4, <1>5, <1>6
    <2> HIDE DEF new
    <2>3. MayFollow(new, seen, queue)
      BY <2>2 DEF MayFollow
    <2> QED
      BY <1>5, <1>7, <2>1, <2>2, <2>3
  <1>14. ASSUME NEW l \in VarLinks, ReceiveRequest(l[2], l[1])
         PROVE  Kept
    <2>0. UNCHANGED <<varLatest, varSeen, varVersion>> /\ seen1 = seen
      BY <1>14 DEF ReceiveRequest, seen
    <2>1. CASE varLatest[l[2]] = 0
      BY <1>8, <1>14, <2>0, <2>1 DEF ReceiveRequest
    <2>2. CASE varLatest[l[2]] # 0 /\ l = <<w, r>>
      <3>1. back1 = Append(back, varLatest[r]) /\ queue1 = queue
        BY <1>1, <1>3, <1>14, <2>2 DEF ReceiveRequest, VarTypeOK, queue, back
      <3>2. varLatest[r] \in seen
        BY <1>5, <2>2
      <3>3. \A k \in DOMAIN Append(back, varLatest[r]) : Append(back, varLatest[r])[k] \in
                {back[j] : j \in DOMAIN back} \cup {varLatest[r]}
        BY <1>4
      <3>4. \A k \in DOMAIN back1 : back1[k] \in seen
        BY <1>5, <3>1, <3>2, <3>3
      <3> QED
        BY <1>5, <1>7, <2>0, <3>1, <3>4
    <2>3. CASE varLatest[l[2]] # 0 /\ l = <<r, w>>
      <3> DEFINE old == varLatest[w]
      <3>1. queue1 = Append(queue, old) /\ back1 = back
        BY <1>1, <1>3, <1>14, <2>3 DEF ReceiveRequest, VarTypeOK, queue, back
      <3>2. MayFollow(old, seen, queue) /\ old \in Nat
        BY <1>4, <1>5, <2>3
      <3>3. old <= varVersion
        BY <1>5
      <3> HIDE DEF old
      <3>4. NewerComesLater(seen, queue1) /\ MayFollow(old, seen, queue1)
        BY <1>4, <1>5, <3>1, <3>2, NewerAfterSend
      <3>5. \A k \in DOMAIN Append(queue, old) : Append(queue, old)[k] \in
                {queue[j] : j \in DOMAIN queue} \cup {old}
        BY <1>4, <3>2
      <3>6. \A k \in DOMAIN queue1 : queue1[k] <= varVersion
        BY <1>5, <3>1, <3>3, <3>5
      <3> QED
        BY <1>5, <1>7, <2>0, <3>1, <3>4, <3>6 DEF old
    <2> QED
      BY <1>1, <2>1, <2>2, <2>3
  <1>15. ASSUME NEW l \in VarLinks, ReceiveValue(l[2], l[1])
         PROVE  Kept
    <2>1. CASE l = <<w, r>>
      <3> DEFINE new == Head(queue)
      <3>1. /\ queue # << >> /\ queue1 = Tail(queue) /\ back1 = back
            /\ seen1 = seen \cup {new} /\ varLatest'[w] = varLatest[w]
            /\ varLatest'[r] = varLatest[r] \/ (new \notin seen /\ varLatest'[r] = new)
            /\ varVersion' = varVersion
        BY <1>1, <1>3, <1>15, <2>1 DEF ReceiveValue, VarTypeOK, queue, back, seen
      <3>2. /\ new \in Nat /\ new <= varVersion
            /\ \A k \in DOMAIN Tail(queue) : Tail(queue)[k] \in {queue[j] : j \in DOMAIN queue}
        BY <1>4, <1>5, <3>1
      <3>3. /\ NewerComesLater(seen1, queue1)
            /\ varLatest[w] # 0 => MayFollow(varLatest[w], seen1, queue1)
            /\ new \in seen \/ \A v \in seen : v < new
        BY <1>4, <1>5, <3>1, NewerAfterReceive
      <3> HIDE DEF new
      <3>4. varLatest'[r] >= varLatest[r]
        BY <1>4, <1>5, <1>7, <3>1, <3>2, <3>3
      <3>5. \A k \in DOMAIN queue1 : queue1[k] <= varVersion
        BY <1>5, <3>1, <3>2
      <3> QED
        BY <1>5, <3>1, <3>2, <3>3, <3>4, <3>5
    <2>2. CASE l = <<r, w>>
      <3> DEFINE new == Head(back)
      <3>1. /\ back # << >> /\ back1 = Tail(back) /\ queue1 = queue /\ seen1 = seen
            /\ varLatest'[r] = varLatest[r] /\ varVersion' = varVersion
            /\ varLatest'[w] = varLatest[w] \/ varLatest'[w] = new
        BY <1>1, <1>3, <1>15, <2>2 DEF ReceiveValue, VarTypeOK, queue, back, seen
      <3>2. /\ new \in seen /\ new <= varVersion
            /\ \A k \in DOMAIN Tail(back) : Tail(back)[k] \in {back[j] : j \in DOMAIN back}
        BY <1>4, <1>5, <3>1
      <3> HIDE DEF new
      <3>3. MayFollow(new, seen, queue)
        BY <3>2 DEF MayFollow
      <3> QED
        BY <1>5, <1>7, <3>1, <3>2, <3>3
    <2> QED
      BY <1>1, <2>1, <2>2
  <1>16. CASE UNCHANGED varVars
    BY <1>8, <1>16 DEF varVars
  <1> QED
    BY <1>9, <1>10, <1>11, <1>12, <1>13, <1>14, <1>15, <1>16 DEF VarNext

(***************************************************************************)
(* Between one writer and one reader, remember_managed_variable_packet     *)
(* never takes the reader back to an older value, however long both run.   *)
(***************************************************************************)
THEOREM ReaderTheorem ==
  ASSUME NEW w, NEW r, OneReader(w, r)
  PROVE  VarSpec => ReaderNeverGoesBack
  <1>1. VarInit => VarInv(w, r)
    BY VarInvInit
  <1>2. VarInv(w, r) /\ [VarNext]_varVars => VarInv(w, r)'
    BY VarInvNext
  <1>3. VarInv(w, r) /\ [VarNext]_varVars =>
          [\A n \in VarNodes \ VarWriters :
             varLatest'[n] >= varLatest[n] \/ varLatest'[n] = 0]_varVars
    <2> SUFFICES ASSUME VarInv(w, r), [VarNext]_varVars, NEW n \in VarNodes \ VarWriters
                 PROVE  varLatest'[n] >= varLatest[n] \/ varLatest'[n] = 0
      OBVIOUS
    <2>1. n = r
      BY DEF OneReader
    <2> QED
      BY <2>1, VarInvNext
  <1> QED
    BY <1>1, <1>2, <1>3, PTL DEF VarSpec, ReaderNeverGoesBack

-----------------------------------------------------------------------------
(* Calendar *)

(* Years of an era start in March: the day of the era on which year y starts,
   and its length.  Its last day is the leap day of the civil year after it. *)
YearStart(y) == 365 * y + y \div 4 - y \div 100
YearDays(y) == IF y % 4 = 3 /\ (y % 100 # 99 \/ y = 399) THEN 366 ELSE 365

(* Year y is the k-th of the q-th four years of century c of its era. *)
Parts(y, c, q, k) ==
    /\ y \in Int /\ c \in Int /\ q \in Int /\ k \in Int
    /\ 0 <= c /\ c <= 3 /\ 0 <= q /\ q <= 24 /\ 0 <= k /\ k <= 3
    /\ y = 100 * c + 4 * q + k

(* Start and length of a year, from its parts *)
LEMMA YearParts ==
  ASSUME NEW y, NEW c, NEW q, NEW k, Parts(y, c, q, k)
  PROVE  /\ YearStart(y) = 36524 * c + 1461 * q + 365 * k
         /\ YearDays(y) = IF k = 3 /\ (q # 24 \/ c = 3) THEN 366 ELSE 365
  <1>1. y \div 4 = 25 * c + q /\ y % 4 = k
    BY SMT DEF Parts
  <1>2. y \div 100 = c /\ y % 100 = 4 * q + k
    BY SMT DEF Parts
  <1>3. YearStart(y) = 36524 * c + 1461 * q + 365 * k
    BY <1>1, <1>2, SMT DEF YearStart, Parts
  <1> QED
    BY <1>1, <1>2, <1>3, SMT DEF YearDays, Parts

(* The divisions of split_unix_ms find the year of every day of an era: the
   corrections by days div 1460, 36524 and 146096 are off at no end of a year. *)
LEMMA YearFound ==
  ASSUME NEW y, NEW c, NEW q, NEW k, Parts(y, c, q, k), NEW d \in Int, 0 <= d, d < YearDays(y)
  PROVE  YearOfEra(YearStart(y) + d) = y
  <1>0. /\ YearStart(y) = 36524 * c + 1461 * q + 365 * k
        /\ YearDays(y) = IF k = 3 /\ (q # 24 \/ c = 3) THEN 366 ELSE 365
    BY YearParts
  <1>2. PICK doe \in Int : doe = YearStart(y) + d
    BY <1>0, SMT DEF Parts
  <1>1. /\ doe = 36524 * c + 1461 * q + 365 * k + d
        /\ 0 <= d /\ d <= 365 /\ (d = 365 => k = 3 /\ (q # 24 \/ c = 3))
    BY <1>0, <1>2, SMT DEF Parts
  <1>3. PICK d1 \in Int, d2 \in Int, d3 \in Int :
           d1 = doe \div 1460 /\ d2 = doe \div 36524 /\ d3 = doe \div 146096
    BY SMT
  <1>4. d3 = IF y = 399 /\ d = 365 THEN 1 ELSE 0
    BY <1>1, <1>3, SMT DEF Parts
  <1>5. d2 = IF y = 399 /\ d = 365 THEN 4 ELSE c
    BY <1>1, <1>3, SMT DEF Parts
  <1>6. 1460 * d1 <= doe /\ doe < 1460 * d1 + 1460
    BY <1>3, SMT
  <1>7. doe - d1 + d2 - d3 >= 365 * y /\ doe - d1 + d2 - d3 < 365 * y + 365
    BY <1>1, <1>4, <1>5, <1>6, SMTT(60) DEF Parts
  <1>8. (doe - d1 + d2 - d3) \div 365 = y
    BY <1>7, SMT DEF Parts
  <1>9. YearOfEra(doe) = (doe - d1 + d2 - d3) \div 365
    BY <1>3 DEF YearOfEra
  <1> QED
    BY <1>2, <1>8, <1>9

(* Every day of an era is in one of its years. *)
LEMMA YearExists ==
  ASSUME NEW doe \in Int, 0 <= doe, doe <= 146096
  PROVE  \E y, c, q, k, d \in Int :
            Parts(y, c, q, k) /\ 0 <= d /\ d < YearDays(y) /\ doe = YearStart(y) + d
  <1>1. PICK c \in Int, r \in Int :
            /\ doe = 36524 * c + r /\ 0 <= c /\ c <= 3 /\ 0 <= r /\ r <= 36524
            /\ c < 3 => r < 36524
    <2>1. CASE doe < 109572
      <3>1. /\ doe = 36524 * (doe \div 36524) + (doe % 36524)
            /\ 0 <= doe \div 36524 /\ doe \div 36524 < 3 /\ 0 <= doe % 36524 /\ doe % 36524 < 36524
        BY <2>1, SMT
      <3> QED
        BY <3>1, SMT
    <2>2. CASE doe >= 109572
      <3>1. doe = 36524 * 3 + (doe - 109572)
        BY SMT
      <3> QED
        BY <2>2, <3>1, SMT
    <2> QED
      BY <2>1, <2>2, SMT
  <1>2. PICK q \in Int, s \in Int : r = 1461 * q + s /\ 0 <= q /\ q <= 24 /\ 0 <= s /\ s <= 1460
    <2>1. /\ r = 1461 * (r \div 1461) + (r % 1461) /\ 0 <= r \div 1461
          /\ r \div 1461 <= 24 /\ 0 <= r % 1461 /\ r % 1461 <= 1460
      BY <1>1, SMT
    <2> QED
      BY <2>1, SMT
  <1>3. PICK k \in Int, d \in Int :
            s = 365 * k + d /\ 0 <= k /\ k <= 3 /\ 0 <= d /\ d <= 365 /\ (k < 3 => d < 365)
    <2>1. CASE s < 1095
      <3>1. /\ s = 365 * (s \div 365) + (s % 365) /\ 0 <= s \div 365
            /\ s \div 365 < 3 /\ 0 <= s % 365 /\ s % 365 < 365
        BY <1>2, <2>1, SMT
      <3> QED
        BY <3>1, SMT
    <2>2. CASE s >= 1095
      <3>1. s = 365 * 3 + (s - 1095)
        BY SMT
      <3> QED
        BY <1>2, <2>2, <3>1, SMT
    <2> QED
      BY <2>1, <2>2, SMT
  <1>4. PICK y \in Int : y = 100 * c + 4 * q + k
    BY SMT
  <1>5. Parts(y, c, q, k)
    BY <1>1, <1>2, <1>3, <1>4 DEF Parts
  <1>6. /\ YearStart(y) = 36524 * c + 1461 * q + 365 * k
        /\ YearDays(y) = IF k = 3 /\ (q # 24 \/ c = 3) THEN 366 ELSE 365
    BY <1>5, YearParts
  <1>7. d < YearDays(y) /\ doe = YearStart(y) + d
    BY <1>1, <1>2, <1>3, <1>6, SMT
  <1> QED
    BY <1>3, <1>5, <1>7

(* A year ends where the next one starts. *)
LEMMA NextYear ==
  ASSUME NEW y \in Int, 0 <= y, y < 399
  PROVE  YearStart(y + 1) = YearStart(y) + YearDays(y)
  <1>1. PICK a \in Int, b \in Int : y = 4 * a + b /\ 0 <= b /\ b < 4
    <2>1. y = 4 * (y \div 4) + (y % 4)  /\ 0 <= y % 4 /\ y % 4 < 4
      BY SMT
    <2> QED
      BY <2>1, SMT
  <1>2. PICK c \in Int, e \in Int : y = 100 * c + e /\ 0 <= e /\ e < 100
    <2>1. y = 100 * (y \div 100) + (y % 100)  /\ 0 <= y % 100 /\ y % 100 < 100
      BY SMT
    <2> QED
      BY <2>1, SMT
  <1>3. y \div 4 = a /\ y % 4 = b /\ (y + 1) \div 4 = (IF b = 3 THEN a + 1 ELSE a)
    BY <1>1, SMT
  <1>4. y \div 100 = c /\ y % 100 = e /\ (y + 1) \div 100 = (IF e = 99 THEN c + 1 ELSE c)
    BY <1>2, SMT
  <1>5. e = 99 => b = 3
    BY <1>1, <1>2, SMT
  <1> QED
    BY <1>3, <1>4, <1>5, SMT DEF YearStart, YearDays

(* Months counted from March *)
MonthStart(mp) == (153 * mp + 2) \div 5
MonthDays(y, mp) ==
    IF mp \in {1, 3, 6, 8} THEN 30
    ELSE IF mp = 11 THEN (IF YearDays(y) = 366 THEN 29 ELSE 28) ELSE 31

(* The days of the year on which (153 mp + 2) / 5 lets the months start *)
LEMMA MonthStarts ==
    /\ MonthStart(0) = 0 /\ MonthStart(1) = 31 /\ MonthStart(2) = 61
    /\ MonthStart(3) = 92 /\ MonthStart(4) = 122 /\ MonthStart(5) = 153
    /\ MonthStart(6) = 184 /\ MonthStart(7) = 214 /\ MonthStart(8) = 245
    /\ MonthStart(9) = 275 /\ MonthStart(10) = 306 /\ MonthStart(11) = 337
  BY SMT DEF MonthStart

(* Every day of a month is found in that month. *)
LEMMA MonthFound ==
  ASSUME NEW y, NEW mp \in 0 .. 11, NEW e \in Int, 0 <= e, e < MonthDays(y, mp)
  PROVE  /\ MonthStart(mp) \in Int /\ 0 <= MonthStart(mp) + e
         /\ MonthStart(mp) + e < YearDays(y)
         /\ (5 * (MonthStart(mp) + e) + 2) \div 153 = mp
  <1>1. YearDays(y) \in {365, 366}
    BY DEF YearDays
  <1>2. PICK days \in {365, 366} : days = YearDays(y)
    BY <1>1
  <1>3. PICK s \in Int : s = MonthStart(mp)
    BY MonthStarts, SMT
  <1>4. e <= 30 /\ (mp \in {1, 3, 6, 8} => e <= 29) /\ (mp = 11 => e <= days - 338)
    BY <1>2, SMT DEF MonthDays
  <1>5. 0 <= s /\ s + e < days
    BY <1>2, <1>3, <1>4, MonthStarts, SMT
  <1>6. 153 * mp <= 5 * (s + e) + 2 /\ 5 * (s + e) + 2 < 153 * mp + 153
    BY <1>2, <1>3, <1>4, MonthStarts, SMT
  <1>7. (5 * (s + e) + 2) \div 153 = mp
    BY <1>6, SMT
  <1> QED
    BY <1>2, <1>3, <1>5, <1>7, SMT

(* Every day of a year is in one of its months. *)
LEMMA MonthExists ==
  ASSUME NEW y, NEW d \in Int, 0 <= d, d < YearDays(y)
  PROVE  \E mp \in 0 .. 11 : \E e \in Int : 0 <= e /\ e < MonthDays(y, mp) /\ d = MonthStart(mp) + e
  <1>1. YearDays(y) \in {365, 366}
    BY DEF YearDays
  <1>2. PICK mp \in 0 .. 11 : /\ MonthStart(mp) <= d
                              /\ mp < 11 => d < MonthStart(mp + 1)
    BY <1>1, MonthStarts, SMT
  <1>3. MonthStart(mp) \in Int
    BY MonthStarts, SMT
  <1>4. d - MonthStart(mp) < MonthDays(y, mp)
    BY <1>1, <1>2, MonthStarts, SMT DEF MonthDays
  <1>5. PICK e \in Int : e = d - MonthStart(mp)
    BY <1>3, SMT
  <1> QED
    BY <1>2, <1>3, <1>4, <1>5, SMT

(* Day e of month mp of year y of an era, as a day of Unix time *)
On(day, era, y, c, q, k, mp, e) ==
    /\ era \in Int /\ Parts(y, c, q, k) /\ mp \in 0 .. 11
    /\ e \in Int /\ 0 <= e /\ e < MonthDays(y, mp)
    /\ day = 146097 * era + YearStart(y) + MonthStart(mp) + e - 719468

(* Every day of Unix time has a place in the calendar. *)
LEMMA OnExists ==
  ASSUME NEW day \in Int
  PROVE  \E era, y, c, q, k, mp, e \in Int : On(day, era, y, c, q, k, mp, e)
  <1>1. PICK era \in Int, doe \in Int :
           day + 719468 = 146097 * era + doe /\ 0 <= doe /\ doe <= 146096
    <2>1. PICK z \in Int : z = day + 719468
      BY SMT
    <2>2. z = 146097 * (z \div 146097) + (z % 146097) /\ 0 <= z % 146097 /\ z % 146097 <= 146096
      BY SMT
    <2>3. PICK era \in Int, doe \in Int : era = z \div 146097 /\ doe = z % 146097
      BY SMT
    <2>4. day + 719468 = 146097 * era + doe /\ 0 <= doe /\ doe <= 146096
      BY <2>1, <2>2, <2>3
    <2> QED
      BY <2>4
  <1>2. PICK y, c, q, k, d \in Int :
            Parts(y, c, q, k) /\ 0 <= d /\ d < YearDays(y) /\ doe = YearStart(y) + d
    BY <1>1, YearExists
  <1>3. PICK mp \in 0 .. 11 :
           \E e \in Int : 0 <= e /\ e < MonthDays(y, mp) /\ d = MonthStart(mp) + e
    BY <1>2, MonthExists
  <1>4. PICK e \in Int : 0 <= e /\ e < MonthDays(y, mp) /\ d = MonthStart(mp) + e
    BY <1>3
  <1>5. YearStart(y) \in Int
    <2>1. YearStart(y) = 36524 * c + 1461 * q + 365 * k
      BY <1>2, YearParts
    <2> QED
      BY <1>2, <2>1, SMT DEF Parts
  <1>6. MonthStart(mp) \in Int
    BY <1>4, MonthFound
  <1>7. day = 146097 * era + YearStart(y) + MonthStart(mp) + e - 719468
    BY <1>1, <1>2, <1>4, <1>5, <1>6, SMT
  <1>8. On(day, era, y, c, q, k, mp, e)
    BY <1>2, <1>4, <1>7 DEF On
  <1>9. mp \in Int
    BY SMT
  <1> QED
    BY <1>2, <1>8, <1>9

(* The civil month and year of a month counted from March *)
CivilMonth(mp) == IF mp < 10 THEN mp + 3 ELSE mp - 9
CivilYear(era, y, mp) == y + era * 400 + (IF CivilMonth(mp) <= 2 THEN 1 ELSE 0)

(* The fields of a day and a time of day *)
Fields(era, y, mp, e, sod) ==
    [year |-> CivilYear(era, y, mp), month |-> CivilMonth(mp), day |-> e + 1,
     hour |-> sod \div 3600, minute |-> (sod % 3600) \div 60, second |-> sod % 60]

(* split_unix_ms finds that place. *)
LEMMA Splits ==
  ASSUME NEW day \in Int, NEW sod, NEW era, NEW y, NEW c, NEW q, NEW k, NEW mp, NEW e,
         On(day, era, y, c, q, k, mp, e)
  PROVE  SplitUnix([day |-> day, sod |-> sod]) = Fields(era, y, mp, e, sod)
  <1>1. era \in Int /\ y \in Int /\ e \in Int /\ mp \in Int /\ 0 <= y /\ y <= 399
    BY SMT DEF On, Parts
  <1>2. /\ MonthStart(mp) \in Int /\ 0 <= MonthStart(mp) + e
        /\ MonthStart(mp) + e < YearDays(y)
        /\ (5 * (MonthStart(mp) + e) + 2) \div 153 = mp
    BY MonthFound DEF On
  <1>3. PICK ys \in Int : ys = YearStart(y) /\ 0 <= ys /\ ys + YearDays(y) <= 146097
    <2>1. /\ YearStart(y) = 36524 * c + 1461 * q + 365 * k
          /\ YearDays(y) = IF k = 3 /\ (q # 24 \/ c = 3) THEN 366 ELSE 365
      BY YearParts DEF On
    <2> QED
      BY <2>1, SMT DEF On, Parts
  <1>4. PICK d \in Int : d = MonthStart(mp) + e
    BY <1>1, <1>2, SMT
  <1>5. PICK doe \in Int : doe = ys + d
    BY SMT
  <1>6. YearDays(y) \in {365, 366}
    BY DEF YearDays
  <1>7. 0 <= doe /\ doe < 146097 /\ day + 719468 = 146097 * era + doe
    <2>1. day = 146097 * era + ys + MonthStart(mp) + e - 719468
      BY <1>3 DEF On
    <2> QED
      BY <1>1, <1>2, <1>3, <1>4, <1>5, <1>6, <2>1, SMT
  <1>8. (day + 719468) \div 146097 = era /\ (day + 719468) - era * 146097 = doe
    BY <1>1, <1>7, SMT
  <1>9. YearOfEra(doe) = y
    BY <1>1, <1>2, <1>3, <1>4, <1>5, YearFound DEF On
  <1>10. doe - (365 * y + y \div 4 - y \div 100) = d
    <2>1. 365 * y + y \div 4 - y \div 100 = ys
      BY <1>3 DEF YearStart
    <2> QED
      BY <1>5, <2>1, SMT
  <1>11. (5 * d + 2) \div 153 = mp
    BY <1>2, <1>4
  <1>12. d - (153 * mp + 2) \div 5 + 1 = e + 1
    <2>1. (153 * mp + 2) \div 5 = MonthStart(mp)
      BY DEF MonthStart
    <2> QED
      BY <1>1, <1>2, <1>4, <2>1, SMT
  <1> QED
    BY <1>8, <1>9, <1>10, <1>11, <1>12 DEF SplitUnix, Fields, CivilMonth, CivilYear

(* A month of an era *)
Place(era, y, mp) == era \in Int /\ y \in Int /\ 0 <= y /\ y <= 399 /\ mp \in 0 .. 11

(* days_in_month and the calendar agree on the length of every month, with
   leap years counted in civil years by both. *)
LEMMA MonthLengthIs ==
  ASSUME NEW era, NEW y, NEW mp, Place(era, y, mp)
  PROVE  /\ CivilMonth(mp) \in 1 .. 12 /\ CivilYear(era, y, mp) \in Int
         /\ DaysInMonth(CivilYear(era, y, mp), CivilMonth(mp)) = MonthDays(y, mp)
         /\ MonthLengths(CivilYear(era, y, mp))[CivilMonth(mp)] = MonthDays(y, mp)
  <1> era \in Int /\ y \in Int /\ 0 <= y /\ y <= 399 /\ mp \in 0 .. 11
    BY DEF Place
  <1>0. CivilMonth(mp) \in 1 .. 12 /\ CivilYear(era, y, mp) \in Int
    BY SMT DEF CivilMonth, CivilYear
  <1>1. ASSUME mp # 11
        PROVE  /\ DaysInMonth(CivilYear(era, y, mp), CivilMonth(mp)) = MonthDays(y, mp)
               /\ MonthLengths(CivilYear(era, y, mp))[CivilMonth(mp)] = MonthDays(y, mp)
    BY <1>1, SMT DEF CivilMonth, MonthDays, DaysInMonth, MonthLengths
  <1>2. ASSUME mp = 11
        PROVE  /\ DaysInMonth(CivilYear(era, y, mp), CivilMonth(mp)) = MonthDays(y, mp)
               /\ MonthLengths(CivilYear(era, y, mp))[CivilMonth(mp)] = MonthDays(y, mp)
    <2>1. PICK year \in Int : year = CivilYear(era, y, mp) /\ year = y + 1 + 400 * era
      BY <1>2, SMT DEF CivilYear, CivilMonth
    <2>2. /\ year % 4 = 0 <=> y % 4 = 3
          /\ year % 100 = 0 <=> y % 100 = 99
          /\ year % 400 = 0 <=> y = 399
      <3>1. PICK a \in Int, b \in Int : y = 4 * a + b /\ 0 <= b /\ b < 4 /\ b = y % 4
        <4>1. y = 4 * (y \div 4) + (y % 4)  /\ 0 <= y % 4 /\ y % 4 < 4
          BY SMT
        <4> QED
          BY <4>1, SMT
      <3>2. PICK g \in Int, h \in Int : y = 100 * g + h /\ 0 <= h /\ h < 100 /\ h = y % 100
        <4>1. y = 100 * (y \div 100) + (y % 100)  /\ 0 <= y % 100 /\ y % 100 < 100
          BY SMT
        <4> QED
          BY <4>1, SMT
      <3>3. year % 4 = IF b = 3 THEN 0 ELSE b + 1
        BY <2>1, <3>1, SMT
      <3>4. year % 100 = IF h = 99 THEN 0 ELSE h + 1
        BY <2>1, <3>2, SMT
      <3>5. year % 400 = IF y = 399 THEN 0 ELSE y + 1
        BY <2>1, SMT
      <3> QED
        BY <3>1, <3>2, <3>3, <3>4, <3>5, SMT
    <2>3. IsLeapYear(year) <=> YearDays(y) = 366
      BY <2>2, SMT DEF IsLeapYear, YearDays
    <2>4. CivilMonth(mp) = 2
      BY <1>2, SMT DEF CivilMonth
    <2>5. DaysInMonth(year, 2) = MonthDays(y, mp)
      BY <1>2, <2>3, SMT DEF DaysInMonth, MonthDays
    <2>6. MonthLengths(year)[2] = MonthDays(y, mp)
      BY <1>2, <2>3, SMT DEF MonthLengths, MonthDays, IsLeapYear
    <2> QED
      BY <2>1, <2>4, <2>5, <2>6
  <1> QED
    BY <1>0, <1>1, <1>2

(* A month has 28 to 31 days. *)
LEMMA MonthDaysIs ==
  ASSUME NEW y, NEW mp \in 0 .. 11
  PROVE  MonthDays(y, mp) \in 28 .. 31
  BY SMT DEF MonthDays

(* A month ends where the next month or year starts. *)
LEMMA MonthEnds ==
  ASSUME NEW y, NEW mp \in 0 .. 11
  PROVE  /\ mp < 11 => MonthStart(mp + 1) = MonthStart(mp) + MonthDays(y, mp)
         /\ mp = 11 => YearDays(y) = MonthStart(mp) + MonthDays(y, mp)
  <1>1. YearDays(y) \in {365, 366}
    BY DEF YearDays
  <1> QED
    BY <1>1, MonthStarts, SMT DEF MonthDays

(* Every year of an era has its parts. *)
LEMMA PartsExist ==
  ASSUME NEW y \in Int, 0 <= y, y <= 399
  PROVE  \E c, q, k \in Int : Parts(y, c, q, k)
  <1>1. PICK c \in Int, r \in Int : c = y \div 100 /\ r = y % 100
    BY SMT
  <1>2. y = 100 * c + r /\ 0 <= r /\ r <= 99 /\ 0 <= c /\ c <= 3
    BY <1>1, SMT
  <1>3. PICK q \in Int, k \in Int : q = r \div 4 /\ k = r % 4
    BY SMT
  <1>4. r = 4 * q + k /\ 0 <= k /\ k <= 3 /\ 0 <= q /\ q <= 24
    BY <1>2, <1>3, SMT
  <1>5. Parts(y, c, q, k)
    BY <1>2, <1>4, SMT DEF Parts
  <1> QED
    BY <1>5, SMT

(* Fields with other values *)
FieldsIn(S) == [year : S, month : S, day : S, hour : S, minute : S, second : S]

Moved(f, Y, M, D) == [f EXCEPT !.year = Y, !.month = M, !.day = D]
MovedInYear(f, M, D) == [f EXCEPT !.month = M, !.day = D]

(* What an update of the date leaves of the fields *)
LEMMA FieldsExcept ==
  ASSUME NEW S, NEW f \in FieldsIn(S), NEW Y \in S, NEW M \in S, NEW D \in S
  PROVE  /\ Moved(f, Y, M, D)
              = [year |-> Y, month |-> M, day |-> D,
                 hour |-> f.hour, minute |-> f.minute, second |-> f.second]
         /\ MovedInYear(f, M, D)
              = [year |-> f.year, month |-> M, day |-> D,
                 hour |-> f.hour, minute |-> f.minute, second |-> f.second]
  <1>1. PICK g : g = [f EXCEPT !.year = Y, !.month = M, !.day = D]
    OBVIOUS
  <1>2. PICK h : h = [f EXCEPT !.month = M, !.day = D]
    OBVIOUS
  <1>3. g = [year |-> Y, month |-> M, day |-> D,
             hour |-> f.hour, minute |-> f.minute, second |-> f.second]
    BY <1>1 DEF FieldsIn
  <1>4. h = [year |-> f.year, month |-> M, day |-> D,
             hour |-> f.hour, minute |-> f.minute, second |-> f.second]
    BY <1>2 DEF FieldsIn
  <1> QED
    BY <1>1, <1>2, <1>3, <1>4 DEF Moved, MovedInYear

(* The first day of a month, as an update of any earlier fields *)
LEMMA OnFirst ==
  ASSUME NEW era, NEW y, NEW mp, NEW e, NEW sod, NEW era1, NEW y1, NEW mp1, NEW f,
         f = Fields(era, y, mp, e, sod)
  PROVE  /\ Moved(f, CivilYear(era1, y1, mp1), CivilMonth(mp1), 1)
              = Fields(era1, y1, mp1, 0, sod)
         /\ CivilYear(era1, y1, mp1) = CivilYear(era, y, mp) =>
              MovedInYear(f, CivilMonth(mp1), 1) = Fields(era1, y1, mp1, 0, sod)
  <1>1. PICK S : S = {f.year, f.month, f.day, f.hour, f.minute, f.second,
                      CivilYear(era1, y1, mp1), CivilMonth(mp1), 1}
    OBVIOUS
  <1>2. f \in FieldsIn(S)
    BY <1>1 DEF FieldsIn, Fields
  <1>3. 0 + 1 = 1
    BY SMT
  <1>4. Fields(era1, y1, mp1, 0, sod)
          = [year |-> CivilYear(era1, y1, mp1), month |-> CivilMonth(mp1), day |-> 1,
             hour |-> f.hour, minute |-> f.minute, second |-> f.second]
    BY <1>3 DEF Fields
  <1>5. f.year = CivilYear(era, y, mp)
    BY DEF Fields
  <1>6. CivilYear(era1, y1, mp1) \in S /\ CivilMonth(mp1) \in S /\ 1 \in S
    BY <1>1
  <1> QED
    BY <1>2, <1>4, <1>5, <1>6, FieldsExcept

(* The day after: in the month, in the year, in the era or in the next era, the
   fields of the next day are those the calendar shows. *)
LEMMA DayFollows ==
  ASSUME NEW day \in Int, NEW sod, NEW era, NEW y, NEW c, NEW q, NEW k, NEW mp, NEW e,
         On(day, era, y, c, q, k, mp, e)
  PROVE  SplitUnix([day |-> day + 1, sod |-> sod]) = DayAfter(Fields(era, y, mp, e, sod))
  <1>0. /\ era \in Int /\ y \in Int /\ 0 <= y /\ y <= 399 /\ mp \in 0 .. 11
        /\ e \in Int /\ 0 <= e /\ e < MonthDays(y, mp) /\ Parts(y, c, q, k)
    BY SMT DEF On, Parts
  <1>10. day = 146097 * era + YearStart(y) + MonthStart(mp) + e - 719468
    BY SMT DEF On
  <1>1. MonthDays(y, mp) \in Int /\ MonthDays(y, mp) > 0
    BY <1>0, MonthDaysIs, SMT
  <1>2. PICK ys \in Int, ms \in Int : ys = YearStart(y) /\ ms = MonthStart(mp)
    <2>1. YearStart(y) = 36524 * c + 1461 * q + 365 * k
      BY <1>0, YearParts, SMT
    <2>2. YearStart(y) \in Int
      BY <1>0, <2>1, SMT DEF Parts
    <2>3. MonthStart(mp) \in Int
      BY <1>0, MonthFound, SMT
    <2> QED
      BY <2>2, <2>3, SMT
  <1>3. day + 1 \in Int
    BY SMT
  <1>4. PICK f : f = Fields(era, y, mp, e, sod)
    OBVIOUS
  <1>5. MonthLengths(f.year)[f.month] = MonthDays(y, mp) /\ f.month = CivilMonth(mp)
    <2>1. f.year = CivilYear(era, y, mp) /\ f.month = CivilMonth(mp)
      BY <1>4, SMT DEF Fields
    <2> QED
      <3>1. Place(era, y, mp)
        BY <1>0 DEF Place
      <3>2. MonthLengths(CivilYear(era, y, mp))[CivilMonth(mp)] = MonthDays(y, mp)
        BY <3>1, MonthLengthIs
      <3> QED
        BY <2>1, <3>2
  <1>6. CASE e + 1 < MonthDays(y, mp)
    <2>1. On(day + 1, era, y, c, q, k, mp, e + 1)
      BY <1>0, <1>10, <1>2, <1>6, SMT DEF On
    <2>2. SplitUnix([day |-> day + 1, sod |-> sod]) = Fields(era, y, mp, e + 1, sod)
      BY <1>3, <2>1, Splits, SMT
    <2>3. DayAfter(f) = [f EXCEPT !.day = @ + 1]
      BY <1>4, <1>5, <1>6, SMT DEF DayAfter, Fields
    <2>4. [f EXCEPT !.day = @ + 1] = Fields(era, y, mp, e + 1, sod)
      BY <1>4, SMT DEF Fields
    <2> QED
      BY <1>4, <2>2, <2>3, <2>4, SMT
  <1>7. CASE e + 1 = MonthDays(y, mp) /\ mp < 11
    <2>0. mp + 1 \in 0 .. 11 /\ mp \in Int
      BY <1>0, <1>7, SMT
    <2>1. MonthStart(mp + 1) = ms + MonthDays(y, mp) /\ 0 < MonthDays(y, mp + 1)
      <3>1. MonthDays(y, mp + 1) \in 28 .. 31
        BY <2>0, MonthDaysIs, SMT
      <3> QED
        BY <1>0, <1>2, <1>7, <3>1, MonthEnds, SMT
    <2>2. day + 1 = 146097 * era + YearStart(y) + MonthStart(mp + 1) + 0 - 719468
      BY <1>0, <1>10, <1>1, <1>2, <1>7, <2>1, SMT
    <2>3. On(day + 1, era, y, c, q, k, mp + 1, 0)
      BY <1>0, <2>0, <2>1, <2>2, SMT DEF On
    <2>4. SplitUnix([day |-> day + 1, sod |-> sod]) = Fields(era, y, mp + 1, 0, sod)
      BY <1>3, <2>3, Splits, SMT
    <2>5. ~(f.day < MonthLengths(f.year)[f.month])
      BY <1>0, <1>1, <1>4, <1>5, <1>7, SMT DEF Fields
    <2>8. f.year = CivilYear(era, y, mp) /\ f.month = CivilMonth(mp)
      BY <1>4, SMT DEF Fields
    <2>6. CASE mp = 9
      <3>1. f.month = 12
        BY <1>5, <2>6, SMT DEF CivilMonth
      <3>2. DayAfter(f) = Moved(f, f.year + 1, 1, 1)
        BY <2>5, <3>1, SMT DEF DayAfter, Moved
      <3>3. CivilMonth(mp + 1) = 1 /\ CivilYear(era, y, mp + 1) = CivilYear(era, y, mp) + 1
        BY <1>0, <2>6, SMT DEF CivilMonth, CivilYear
      <3>4. Moved(f, f.year + 1, 1, 1) = Fields(era, y, mp + 1, 0, sod)
        BY <1>4, <2>8, <3>3, OnFirst
      <3> QED
        BY <1>4, <2>4, <3>2, <3>4, SMT
    <2>7. CASE mp # 9
      <3>1. f.month < 12
        BY <1>0, <1>5, <1>7, <2>7, SMT DEF CivilMonth
      <3>2. DayAfter(f) = MovedInYear(f, f.month + 1, 1)
        BY <2>5, <3>1, SMT DEF DayAfter, MovedInYear
      <3>3. /\ CivilMonth(mp + 1) = CivilMonth(mp) + 1
            /\ CivilYear(era, y, mp + 1) = CivilYear(era, y, mp)
        BY <1>0, <1>7, <2>7, SMT DEF CivilMonth, CivilYear
      <3>4. MovedInYear(f, f.month + 1, 1) = Fields(era, y, mp + 1, 0, sod)
        BY <1>4, <2>8, <3>3, OnFirst
      <3> QED
        BY <1>4, <2>4, <3>2, <3>4, SMT
    <2> QED
      BY <2>6, <2>7, SMT
  <1>8. CASE e + 1 = MonthDays(y, mp) /\ mp = 11
    <2>1. ~(f.day < MonthLengths(f.year)[f.month]) /\ f.month = 2
      BY <1>0, <1>1, <1>4, <1>5, <1>8, SMT DEF Fields, CivilMonth
    <2>2. DayAfter(f) = MovedInYear(f, 3, 1)
      BY <2>1, SMT DEF DayAfter, MovedInYear
    <2>3. DayAfter(f) = MovedInYear(f, 3, 1) /\ CivilMonth(0) = 3
      BY <2>2, SMT DEF CivilMonth
    <2>4. YearDays(y) = ms + MonthDays(y, mp) /\ MonthStart(0) = 0
      BY <1>0, <1>2, <1>8, MonthEnds, MonthStarts, SMT
    <2>5. day + 1 = 146097 * era + ys + YearDays(y) - 719468
      BY <1>0, <1>10, <1>1, <1>2, <1>8, <2>4, SMT
    <2>6. YearDays(y) \in Int
      BY <1>1, <1>2, <2>4, SMT
    <2>7. CASE y < 399
      <3>1. PICK c1, q1, k1 \in Int : Parts(y + 1, c1, q1, k1)
        <4>1. y + 1 \in Int /\ 0 <= y + 1 /\ y + 1 <= 399
          BY <1>0, <2>7, SMT
        <4> QED
          BY <4>1, PartsExist, SMT
      <3>2. YearStart(y + 1) = ys + YearDays(y)
        BY <1>0, <1>2, <2>7, NextYear, SMT
      <3>3. day + 1 = 146097 * era + YearStart(y + 1) + MonthStart(0) + 0 - 719468
        BY <1>0, <1>10, <2>4, <2>5, <2>6, <3>2, SMT
      <3>4. 0 \in 0 .. 11 /\ 0 \in Int /\ 0 <= 0 /\ 0 < MonthDays(y + 1, 0)
        BY SMT DEF MonthDays
      <3>5. On(day + 1, era, y + 1, c1, q1, k1, 0, 0)
        BY <1>0, <3>1, <3>3, <3>4, SMT DEF On
      <3>6. SplitUnix([day |-> day + 1, sod |-> sod]) = Fields(era, y + 1, 0, 0, sod)
        BY <1>3, <3>5, Splits, SMT
      <3>7. CivilYear(era, y + 1, 0) = CivilYear(era, y, mp)
        BY <1>0, <1>8, SMT DEF CivilYear, CivilMonth
      <3>8. MovedInYear(f, 3, 1) = Fields(era, y + 1, 0, 0, sod)
        BY <1>4, <2>3, <3>7, OnFirst
      <3> QED
        BY <1>4, <2>2, <3>6, <3>8, SMT
    <2>8. CASE y = 399
      <3>1. Parts(0, 0, 0, 0) /\ era + 1 \in Int
        BY <1>0, SMT DEF Parts
      <3>2. YearStart(399) + YearDays(399) = 146097 /\ YearStart(0) = 0
        BY SMT DEF YearStart, YearDays
      <3>3. ys + YearDays(y) = 146097
        BY <1>2, <2>8, <3>2, SMT
      <3>4. day + 1 = 146097 * (era + 1) + YearStart(0) + MonthStart(0) + 0 - 719468
        BY <1>0, <1>10, <2>4, <2>5, <2>6, <3>2, <3>3, SMT
      <3>5. 0 \in 0 .. 11 /\ 0 \in Int /\ 0 <= 0 /\ 0 < MonthDays(0, 0)
        BY SMT DEF MonthDays
      <3>6. On(day + 1, era + 1, 0, 0, 0, 0, 0, 0)
        BY <3>1, <3>4, <3>5, SMT DEF On
      <3>7. SplitUnix([day |-> day + 1, sod |-> sod]) = Fields(era + 1, 0, 0, 0, sod)
        BY <1>3, <3>6, Splits, SMT
      <3>8. CivilYear(era + 1, 0, 0) = CivilYear(era, y, mp)
        BY <1>0, <1>8, <2>8, SMT DEF CivilYear, CivilMonth
      <3>9. MovedInYear(f, 3, 1) = Fields(era + 1, 0, 0, 0, sod)
        BY <1>4, <2>3, <3>8, OnFirst
      <3> QED
        BY <1>4, <2>2, <3>7, <3>9, SMT
    <2> QED
      BY <1>0, <2>7, <2>8, SMT
  <1> QED
    BY <1>0, <1>1, <1>6, <1>7, <1>8, SMT

(* network_time_to_unix_ms accepts the fields and takes them back. *)
LEMMA ConvertsBack ==
  ASSUME NEW day \in Int, NEW sod \in Int, 0 <= sod, sod < 86400, NEW era, NEW y, NEW c,
         NEW q, NEW k, NEW mp, NEW e, On(day, era, y, c, q, k, mp, e)
  PROVE  LET f == Fields(era, y, mp, e, sod)
         IN  FieldsFit(f) /\ ToUnix(f) = [day |-> day, sod |-> sod]
  <1> DEFINE f == Fields(era, y, mp, e, sod)
  <1>0. /\ era \in Int /\ y \in Int /\ 0 <= y /\ y <= 399 /\ mp \in 0 .. 11
        /\ e \in Int /\ 0 <= e /\ e < MonthDays(y, mp)
    BY SMT DEF On, Parts
  <1>10. day = 146097 * era + YearStart(y) + MonthStart(mp) + e - 719468
    BY SMT DEF On
  <1>1. /\ CivilMonth(mp) \in 1 .. 12 /\ CivilYear(era, y, mp) \in Int
        /\ DaysInMonth(CivilYear(era, y, mp), CivilMonth(mp)) = MonthDays(y, mp)
    <2>1. Place(era, y, mp)
      BY <1>0 DEF Place
    <2> QED
      BY <2>1, MonthLengthIs
  <1>2. MonthDays(y, mp) \in 28 .. 31
    BY <1>0, MonthDaysIs, SMT
  <1>3. e + 1 \in 1 .. MonthDays(y, mp)
    BY <1>0, <1>2, SMT
  <1>4. PICK h \in Int, m \in Int, s \in Int :
           h = sod \div 3600 /\ m = (sod % 3600) \div 60 /\ s = sod % 60
    BY SMT
  <1>5. 0 <= h /\ h <= 23 /\ m <= 59 /\ s <= 59 /\ h * 3600 + m * 60 + s = sod
    <2>1. PICK r \in Int : r = sod % 3600
      BY SMT
    <2>2. sod = 3600 * h + r /\ 0 <= r /\ r < 3600
      BY <1>4, <2>1, SMT
    <2>3. r = 60 * m + (r % 60) /\ 0 <= r % 60 /\ r % 60 < 60
      BY <1>4, <2>1, <2>2, SMT
    <2>4. PICK t \in Int : t = r % 60
      BY <2>2, SMT
    <2>5. r = 60 * m + t /\ 0 <= t /\ t < 60
      BY <2>3, <2>4, SMT
    <2>6. sod = 60 * (60 * h + m) + t
      BY <2>2, <2>5, SMT
    <2>7. s = t
      BY <1>4, <2>5, <2>6, SMT
    <2> QED
      BY <2>2, <2>5, <2>7, SMT
  <1>6. FieldsFit(f)
    BY <1>1, <1>3, <1>4, <1>5, SMT DEF FieldsFit, Fields
  <1>7. DaysFromCivil(CivilYear(era, y, mp), CivilMonth(mp), e + 1) = day
    <2>1. PICK year \in Int : year = y + 400 * era
      BY <1>0, SMT
    <2>2. (IF CivilMonth(mp) <= 2 THEN CivilYear(era, y, mp) - 1 ELSE CivilYear(era, y, mp)) = year
      BY <1>0, <2>1, SMT DEF CivilMonth, CivilYear
    <2>3. year \div 400 = era /\ year - era * 400 = y
      BY <1>0, <2>1, SMT
    <2>4. (IF CivilMonth(mp) > 2 THEN CivilMonth(mp) - 3 ELSE CivilMonth(mp) + 9) = mp
      BY <1>0, SMT DEF CivilMonth
    <2>5. DaysFromCivil(CivilYear(era, y, mp), CivilMonth(mp), e + 1)
            = era * 146097 + y * 365 + y \div 4 - y \div 100
                + (MonthStart(mp) + (e + 1) - 1) - 719468
      BY <2>2, <2>3, <2>4, SMT DEF DaysFromCivil, MonthStart
    <2>6. PICK ys \in Int : ys = YearStart(y) /\ ys = 365 * y + y \div 4 - y \div 100
      BY <1>0, SMT DEF YearStart
    <2>7. MonthStart(mp) \in Int
      BY <1>0, MonthFound, SMT
    <2>8. y * 365 = 365 * y /\ y \div 4 \in Int /\ y \div 100 \in Int
      BY <1>0, SMT
    <2> QED
      BY <1>0, <1>10, <2>5, <2>6, <2>7, <2>8, SMT
  <1>8. ToUnix(f) = [day |-> day, sod |-> sod]
    BY <1>4, <1>5, <1>7, SMT DEF ToUnix, Fields
  <1> QED
    BY <1>6, <1>8, SMT

(* A time of the clock, which holds no time before 1970; any such time is the
   invariant behind CalendarIsExact. *)
Clocked(day, sod) == day \in Int /\ 0 <= day /\ sod \in Int /\ 0 <= sod /\ sod < 86400

CalendarInv == \E day, sod : Clocked(day, sod) /\ clock = [day |-> day, sod |-> sod]

(* 1970-01-01 is day 0: month 10 of year 369 of era 4. *)
LEMMA Epoch1970 == On(0, 4, 369, 3, 17, 1, 10, 0)
  <1>1. YearStart(369) = 134774 /\ MonthStart(10) = 306
    BY SMT DEF YearStart, MonthStart
  <1>2. Parts(369, 3, 17, 1) /\ 0 < MonthDays(369, 10)
    BY SMT DEF Parts, MonthDays
  <1> QED
    BY <1>1, <1>2, SMT DEF On

(* The conversions are exact on every day, not only within an era. *)
LEMMA ExactAnyDay ==
  ASSUME CalendarInv
  PROVE  CalendarIsExact
  <1>1. PICK day, sod : Clocked(day, sod) /\ clock = [day |-> day, sod |-> sod]
    BY DEF CalendarInv
  <1>2. day \in Int /\ sod \in Int /\ 0 <= sod /\ sod < 86400
    BY <1>1 DEF Clocked
  <1>3. PICK era, y, c, q, k, mp, e \in Int : On(day, era, y, c, q, k, mp, e)
    <2>1. day \in Int
      BY <1>2
    <2> QED
      BY <2>1, OnExists
  <1>4. PICK f : f = Fields(era, y, mp, e, sod)
    OBVIOUS
  <1>5. SplitUnix(clock) = f
    BY <1>1, <1>2, <1>3, <1>4, Splits
  <1>6. SplitUnix([clock EXCEPT !.day = @ + 1]) = DayAfter(f)
    <2>1. [clock EXCEPT !.day = @ + 1] = [day |-> day + 1, sod |-> sod]
      BY <1>1
    <2> QED
      BY <1>2, <1>3, <1>4, <2>1, DayFollows
  <1>7. FieldsFit(f) /\ ToUnix(f) = clock
    BY <1>1, <1>2, <1>3, <1>4, ConvertsBack
  <1>8. ~FieldsFit([f EXCEPT !.day = MonthLengths(f.year)[f.month] + 1])
    <2>1. Place(era, y, mp)
      BY <1>3, SMT DEF On, Place, Parts
    <2>2. f.year = CivilYear(era, y, mp) /\ f.month = CivilMonth(mp)
      BY <1>4 DEF Fields
    <2>3. /\ DaysInMonth(f.year, f.month) = MonthDays(y, mp)
          /\ MonthLengths(f.year)[f.month] = MonthDays(y, mp)
      BY <2>1, <2>2, MonthLengthIs
    <2>4. MonthDays(y, mp) \in Int
      <3>1. mp \in 0 .. 11
        BY <2>1 DEF Place
      <3>2. MonthDays(y, mp) \in 28 .. 31
        BY <3>1, MonthDaysIs
      <3> QED
        BY <3>2
    <2>5. PICK g : g = [f EXCEPT !.day = MonthLengths(f.year)[f.month] + 1]
      OBVIOUS
    <2>6. g.day = MonthDays(y, mp) + 1 /\ g.year = f.year /\ g.month = f.month
      BY <1>4, <2>3, <2>5 DEF Fields
    <2>7. ~FieldsFit(g)
      BY <2>3, <2>4, <2>6, SMT DEF FieldsFit
    <2> QED
      BY <2>5, <2>7
  <1>9. clock.day = 0 => <<f.year, f.month, f.day>> = <<1970, 1, 1>>
    <2> SUFFICES ASSUME clock.day = 0 PROVE f.year = 1970 /\ f.month = 1 /\ f.day = 1
      OBVIOUS
    <2>1. clock = [day |-> 0, sod |-> sod]
      BY <1>1
    <2>2. SplitUnix(clock) = Fields(4, 369, 10, 0, sod)
      BY <2>1, Epoch1970, Splits
    <2>3. f = Fields(4, 369, 10, 0, sod)
      BY <1>5, <2>2
    <2>4. CivilYear(4, 369, 10) = 1970 /\ CivilMonth(10) = 1 /\ 0 + 1 = 1
      BY SMT DEF CivilYear, CivilMonth
    <2> QED
      BY <2>3, <2>4, SMT DEF Fields
  <1> QED
    BY <1>5, <1>6, <1>7, <1>8, <1>9, SMT DEF CalendarIsExact

(* Setting fields that exist sets a time of the clock. *)
LEMMA SetFieldsInv ==
  ASSUME NEW f, SetFields(f), f.hour \in Nat, f.minute \in Nat, f.second \in Nat
  PROVE  CalendarInv'
  <1>1. FieldsFit(f) /\ ToUnix(f).day \in 0 .. MaxDay /\ clock' = ToUnix(f)
    BY DEF SetFields
  <1>2. PICK d, s : d = DaysFromCivil(f.year, f.month, f.day)
                    /\ s = f.hour * 3600 + f.minute * 60 + f.second
    OBVIOUS
  <1>3. ToUnix(f) = [day |-> d, sod |-> s]
    BY <1>2, SMT DEF ToUnix
  <1>4. d \in 0 .. MaxDay
    BY <1>1, <1>3
  <1>5. f.hour <= 23 /\ f.minute <= 59 /\ f.second <= 59
    BY <1>1 DEF FieldsFit
  <1>6. Clocked(d, s)
    BY <1>2, <1>4, <1>5, CalendarAssumption, SMT DEF Clocked
  <1>7. clock' = [day |-> d, sod |-> s]
    BY <1>1, <1>3
  <1> QED
    BY <1>6, <1>7 DEF CalendarInv

(* So does every step. *)
LEMMA CalendarStep == CalendarInv /\ [CalendarNext]_clock => CalendarInv'
  <1> SUFFICES ASSUME CalendarInv, [CalendarNext]_clock PROVE CalendarInv'
    OBVIOUS
  <1>1. PICK day, sod : Clocked(day, sod) /\ clock = [day |-> day, sod |-> sod]
    BY DEF CalendarInv
  <1>2. PICK f : f = SplitUnix(clock)
    OBVIOUS
  <1>3. f.hour \in Nat /\ f.minute \in Nat /\ f.second \in Nat
    <2>1. /\ f.hour = sod \div 3600 /\ f.minute = (sod % 3600) \div 60
          /\ f.second = sod % 60
      BY <1>1, <1>2, SMT DEF SplitUnix
    <2>2. sod \in Int /\ 0 <= sod
      BY <1>1 DEF Clocked
    <2> QED
      BY <2>1, <2>2, SMT
  <1>4. ASSUME NEW d \in Dates, SetDate(d) PROVE CalendarInv'
    <2>1. PICK g : g = [f EXCEPT !.year = d[1], !.month = d[2], !.day = d[3]]
      OBVIOUS
    <2>2. g.hour = f.hour /\ g.minute = f.minute /\ g.second = f.second
      BY <1>2, <2>1, SMT DEF SplitUnix
    <2>3. SetFields(g)
      BY <1>2, <1>4, <2>1 DEF SetDate
    <2> QED
      BY <1>3, <2>2, <2>3, SetFieldsInv
  <1>5. ASSUME NEW t \in Times, SetTime(t) PROVE CalendarInv'
    <2>1. PICK g : g = [f EXCEPT !.hour = t[1], !.minute = t[2], !.second = t[3]]
      OBVIOUS
    <2>2. g.hour = t[1] /\ g.minute = t[2] /\ g.second = t[3]
      BY <1>2, <2>1, SMT DEF SplitUnix
    <2>3. t[1] \in Nat /\ t[2] \in Nat /\ t[3] \in Nat
      BY CalendarAssumption
    <2>4. SetFields(g)
      BY <1>2, <1>5, <2>1 DEF SetTime
    <2> QED
      BY <2>2, <2>3, <2>4, SetFieldsInv
  <1>6. ASSUME DayPasses PROVE CalendarInv'
    <2>1. clock' = [day |-> day + 1, sod |-> sod]
      BY <1>1, <1>6 DEF DayPasses
    <2>2. Clocked(day + 1, sod)
      BY <1>1, SMT DEF Clocked
    <2> QED
      BY <2>1, <2>2 DEF CalendarInv
  <1>7. CASE UNCHANGED clock
    BY <1>1, <1>7 DEF CalendarInv
  <1> QED
    BY <1>4, <1>5, <1>6, <1>7 DEF CalendarNext

(***************************************************************************)
(* The conversions of the network clock are exact on every day from 1970   *)
(* on, for all dates and times that are set: the date is the one a         *)
(* calendar kept day by day shows, it converts back, and no day past the   *)
(* end of a month is accepted.                                             *)
(***************************************************************************)
THEOREM CalendarTheorem == CalendarSpec => []CalendarIsExact
  <1>1. CalendarInit => CalendarInv
    <2>1. Clocked(0, 0)
      BY SMT DEF Clocked
    <2> QED
      BY <2>1 DEF CalendarInit, CalendarInv
  <1>2. CalendarInv => CalendarIsExact
    BY ExactAnyDay
  <1> QED
    BY <1>1, <1>2, CalendarStep, PTL DEF CalendarSpec

-----------------------------------------------------------------------------
(* Hash *)

(* A block of the input, and its first n blocks *)
BlockAt(start) == [i \in 1 .. BlockLen |-> start + i]
Plain(n) == [b \in 1 .. n |-> BlockAt((b - 1) * BlockLen)]

(* A hash that has compressed the first n blocks of its input and holds the rest
   in its buffer *)
HashOk(blocks, buffer, used, len, n) ==
    /\ n \in Nat /\ used \in Nat /\ used < BlockLen
    /\ len = n * BlockLen + used
    /\ blocks = Plain(n)
    /\ buffer \in [1 .. BlockLen -> Int]
    /\ \A i \in 1 .. used : buffer[i] = n * BlockLen + i

(* The inductive invariant behind ChunksDoNotMatter *)
ShaInv ==
    /\ sha = [blocks |-> sha.blocks, buffer |-> sha.buffer, buffer_len |-> sha.buffer_len,
              len |-> sha.len, done |-> sha.done]
    /\ ~sha.done => \E n : HashOk(sha.blocks, sha.buffer, sha.buffer_len, sha.len, n)
    /\ ChunksDoNotMatter

(* What a quotient is *)
LEMMA DivIs ==
  ASSUME NEW a \in Int, NEW b \in Int, NEW q \in Int, NEW r \in Int,
         0 < b, 0 <= r, r < b, a = q * b + r
  PROVE  a \div b = q
  BY SMT

(* A product with a sum *)
LEMMA TimesSum ==
  ASSUME NEW a \in Int, NEW b \in Int, NEW c \in Int
  PROVE  (a + b) * c = a * c + b * c /\ (a + 1) * c = a * c + c
  BY SMT

(* A block is an array of bytes. *)
LEMMA BlockAtType ==
  ASSUME NEW start \in Int
  PROVE  BlockAt(start) \in [1 .. BlockLen -> Int]
  BY DEF BlockAt

(* The first n blocks are a sequence of n blocks. *)
LEMMA PlainSeq ==
  ASSUME NEW n \in Nat
  PROVE  Plain(n) \in Seq([1 .. BlockLen -> Int]) /\ Len(Plain(n)) = n
  <1>1. BlockLen \in Nat
    BY BlockAssumption
  <1>2. ASSUME NEW b \in 1 .. n PROVE BlockAt((b - 1) * BlockLen) \in [1 .. BlockLen -> Int]
    BY <1>1 DEF BlockAt
  <1> QED
    BY <1>2 DEF Plain

(* The elements of two sequences put together *)
LEMMA ConcatAt ==
  ASSUME NEW S, NEW p \in Seq(S), NEW t \in Seq(S), NEW n, NEW d, n = Len(p), d = Len(t),
         NEW b \in 1 .. n + d
  PROVE  /\ b <= n => (p \o t)[b] = p[b]
         /\ b > n => (p \o t)[b] = t[b - n]
  BY ConcatProperties

(* Whole blocks that go past the buffer continue the sequence. *)
LEMMA PlainAppend ==
  ASSUME NEW n \in Nat, NEW d \in Nat, NEW start, start = n * BlockLen
  PROVE  Plain(n) \o [b \in 1 .. d |-> [i \in 1 .. BlockLen |-> start + (b - 1) * BlockLen + i]]
            = Plain(n + d)
  <1>1. BlockLen \in Nat
    BY BlockAssumption
  <1>2. PICK t : t = [b \in 1 .. d |-> [i \in 1 .. BlockLen |-> start + (b - 1) * BlockLen + i]]
    OBVIOUS
  <1>3. start \in Int
    BY <1>1
  <1>4. ASSUME NEW b \in 1 .. d PROVE t[b] = BlockAt((n + b - 1) * BlockLen)
    <2>1. (n + (b - 1)) * BlockLen = start + (b - 1) * BlockLen
      BY <1>1, TimesSum
    <2>2. n + (b - 1) = n + b - 1
      OBVIOUS
    <2> QED
      BY <1>2, <2>1, <2>2 DEF BlockAt
  <1>5. \A b \in 1 .. d : t[b] \in [1 .. BlockLen -> Int]
    <2> TAKE b \in 1 .. d
    <2>1. (n + b - 1) * BlockLen \in Int
      BY <1>1
    <2> QED
      BY <1>4, <2>1, BlockAtType
  <1>6. t \in Seq([1 .. BlockLen -> Int]) /\ Len(t) = d
    BY <1>2, <1>5
  <1>7. Plain(n) \in Seq([1 .. BlockLen -> Int]) /\ Len(Plain(n)) = n
    BY PlainSeq
  <1>8. Plain(n + d) \in Seq([1 .. BlockLen -> Int]) /\ Len(Plain(n + d)) = n + d
    BY PlainSeq
  <1>9. PICK p, w : p = Plain(n) /\ w = Plain(n + d)
    OBVIOUS
  <1>12. PICK S : p \in Seq(S) /\ t \in Seq(S) /\ Len(p) = n /\ Len(t) = d
    <2>1. PICK S : S = [1 .. BlockLen -> Int]
      OBVIOUS
    <2> QED
      BY <1>6, <1>7, <1>9, <2>1
  <1>10. \A b \in 1 .. n + d : (p \o t)[b] = w[b]
    <2> TAKE b \in 1 .. n + d
    <2>1. w[b] = BlockAt((b - 1) * BlockLen)
      BY <1>9 DEF Plain
    <2>2. CASE b <= n
      <3>1. p[b] = BlockAt((b - 1) * BlockLen)
        BY <1>9, <2>2 DEF Plain
      <3>2. (p \o t)[b] = p[b]
        BY <1>12, <2>2, ConcatAt
      <3> QED
        BY <2>1, <3>1, <3>2
    <2>3. CASE b > n
      <3>1. b - n \in 1 .. d /\ n + (b - n) - 1 = b - 1
        BY <2>3
      <3>2. t[b - n] = BlockAt((b - 1) * BlockLen)
        BY <1>4, <3>1
      <3>3. (p \o t)[b] = t[b - n]
        BY <1>12, <2>3, ConcatAt
      <3> QED
        BY <2>1, <3>2, <3>3
    <2>4. b <= n \/ b > n
      OBVIOUS
    <2> QED
      BY <2>2, <2>3, <2>4, Zenon
  <1>11. p \o t = w
    <2>1. PICK v : v = p \o t
      OBVIOUS
    <2>2. v \in Seq([1 .. BlockLen -> Int]) /\ Len(v) = n + d
      <3>1. PICK B : B = [1 .. BlockLen -> Int]
        OBVIOUS
      <3>2. p \in Seq(B) /\ t \in Seq(B) /\ Len(p) = n /\ Len(t) = d
        BY <1>6, <1>7, <1>9, <3>1
      <3>3. v \in Seq(B) /\ Len(v) = n + d
        BY <2>1, <3>2, ConcatProperties
      <3> QED
        BY <3>1, <3>3
    <2>3. w \in Seq([1 .. BlockLen -> Int]) /\ Len(w) = n + d
      BY <1>8, <1>9
    <2>4. \A b \in 1 .. n + d : v[b] = w[b]
      BY <1>10, <2>1, Zenon
    <2>5. v = w
      BY <2>2, <2>3, <2>4
    <2> QED
      BY <2>1, <2>5
  <1> QED
    BY <1>2, <1>9, <1>11

(* So does a block from the buffer. *)
LEMMA PlainOneMore ==
  ASSUME NEW n \in Nat
  PROVE  Plain(n) \o <<BlockAt(n * BlockLen)>> = Plain(n + 1)
  <1>1. BlockLen \in Nat
    BY BlockAssumption
  <1>2. PICK S : Plain(n) \in Seq(S) /\ Len(Plain(n)) = n /\ BlockAt(n * BlockLen) \in S
    <2>1. BlockAt(n * BlockLen) \in [1 .. BlockLen -> Int]
      BY <1>1 DEF BlockAt
    <2> QED
      BY <2>1, PlainSeq
  <1>3. Len(Plain(n + 1)) = n + 1 /\ \E T : Plain(n + 1) \in Seq(T)
    BY PlainSeq
  <1>4. PICK p, w : p = Plain(n) /\ w = Plain(n + 1)
    OBVIOUS
  <1>5. PICK x : x = BlockAt(n * BlockLen)
    OBVIOUS
  <1>6. \A b \in 1 .. n : p[b] = w[b]
    BY <1>4 DEF Plain
  <1>7. w[n + 1] = x
    <2>1. n + 1 - 1 = n
      OBVIOUS
    <2> QED
      BY <1>4, <1>5, <2>1 DEF Plain
  <1>8. p \o <<x>> = w
    BY <1>2, <1>3, <1>4, <1>5, <1>6, <1>7
  <1> QED
    BY <1>4, <1>5, <1>8

(* Filling the buffer from its place `at' with k bytes that follow the first `base' *)
Fill(buffer, at, base, k) == Copied(buffer, at, base + 1, base + k)

(* Only the bytes filled in change. *)
FilledIs(filled, buffer, at, base, k) ==
    /\ filled \in [1 .. BlockLen -> Int]
    /\ \A i \in 1 .. BlockLen :
          filled[i] = IF at < i /\ i <= at + k THEN base + i - at ELSE buffer[i]

(* Copied is that. *)
LEMMA CopiedIs ==
  ASSUME NEW buffer \in [1 .. BlockLen -> Int], NEW at \in Nat, NEW base \in Int, NEW k \in Nat
  PROVE  FilledIs(Fill(buffer, at, base, k), buffer, at, base, k)
  <1>0. PICK filled : filled = Fill(buffer, at, base, k)
    OBVIOUS
  <1>1. BlockLen \in Nat
    BY BlockAssumption
  <1>2. (base + k) - (base + 1) + 1 = k
    OBVIOUS
  <1>3. ASSUME NEW i \in 1 .. BlockLen
        PROVE  /\ filled[i] \in Int
               /\ filled[i] = IF at < i /\ i <= at + k THEN base + i - at ELSE buffer[i]
    <2>1. filled[i] = IF i \in at + 1 .. at + k THEN base + 1 + (i - at - 1) ELSE buffer[i]
      BY <1>0, <1>2 DEF Copied, Fill
    <2>2. buffer[i] \in Int
      OBVIOUS
    <2>3. i \in at + 1 .. at + k <=> at < i /\ i <= at + k
      BY <1>1
    <2>4. base + 1 + (i - at - 1) = base + i - at /\ base + i - at \in Int
      BY <1>1
    <2> QED
      BY <2>1, <2>2, <2>3, <2>4
  <1>4. filled = [i \in 1 .. BlockLen |-> filled[i]]
    BY <1>0 DEF Copied, Fill
  <1>5. FilledIs(filled, buffer, at, base, k)
    BY <1>3, <1>4 DEF FilledIs
  <1> QED
    BY <1>0, <1>5

(* d whole blocks go past the buffer and `rest' bytes into it. *)
Passed(start, d) ==
    [b \in 1 .. d |-> [i \in 1 .. BlockLen |-> start + (b - 1) * BlockLen + i]]
Buffered(buffer, base, rest) ==
    IF rest = 0 THEN buffer ELSE Copied(buffer, 0, base + 1, base + rest)
MultipleOf(start, n) == start = n * BlockLen

(* A quotient of naturals is one. *)
LEMMA QuotientNat ==
  ASSUME NEW b \in Nat, NEW q \in Int, NEW r \in Int, NEW a \in Nat, a = b * q + r, r < b
  PROVE  q >= 0
  <1> SUFFICES ASSUME q < 0 PROVE FALSE
    OBVIOUS
  <1>1. PICK j \in Nat : q = -1 - j
    <2>1. -1 - q \in Nat /\ q = -1 - (-1 - q)
      OBVIOUS
    <2> QED
      BY <2>1
  <1>2. b * j \in Nat
    OBVIOUS
  <1>3. b * q = -b - b * j
    BY <1>1
  <1> QED
    BY <1>2, <1>3

(* Multiples of the block length add up. *)
LEMMA MultipleSum ==
  ASSUME NEW n \in Nat, NEW d \in Nat, NEW start, NEW more,
         MultipleOf(start, n), MultipleOf(more, d)
  PROVE  MultipleOf(start + more, n + d) /\ start \in Nat /\ more \in Nat
  <1>1. BlockLen \in Nat
    BY BlockAssumption
  <1> QED
    BY <1>1, TimesSum DEF MultipleOf

(* What is left of a chunk after its whole blocks is at the front of the buffer. *)
LEMMA BufferedIs ==
  ASSUME NEW buffer \in [1 .. BlockLen -> Int], NEW base \in Int, NEW rest \in Nat,
         rest < BlockLen, NEW next, next = Buffered(buffer, base, rest)
  PROVE  next \in [1 .. BlockLen -> Int] /\ \A i \in 1 .. rest : next[i] = base + i
  <1>1. BlockLen \in Nat
    BY BlockAssumption
  <1>2. CASE rest = 0
    <2>1. next = buffer
      BY <1>2 DEF Buffered
    <2>2. \A i \in 1 .. rest : FALSE
      BY <1>2
    <2> QED
      BY <2>1, <2>2
  <1>3. CASE rest # 0
    <2>1. next = Fill(buffer, 0, base, rest)
      BY <1>3 DEF Buffered, Fill
    <2>2. /\ next \in [1 .. BlockLen -> Int]
          /\ \A i \in 1 .. BlockLen :
               next[i] = IF 0 < i /\ i <= 0 + rest THEN base + i - 0 ELSE buffer[i]
      <3>1. FilledIs(Fill(buffer, 0, base, rest), buffer, 0, base, rest)
        BY CopiedIs
      <3> QED
        BY <2>1, <3>1 DEF FilledIs
    <2>3. ASSUME NEW i \in 1 .. rest PROVE next[i] = base + i
      <3>1. i \in 1 .. BlockLen /\ 0 < i /\ i <= 0 + rest /\ base + i - 0 = base + i
        BY <1>1
      <3> QED
        BY <2>2, <3>1
    <2> QED
      BY <2>2, <2>3
  <1> QED
    BY <1>2, <1>3

(* From a block boundary on, whole blocks and a rest leave a hash in order. *)
LEMMA RestOk ==
  ASSUME NEW n \in Nat, NEW d \in Nat, NEW start, NEW more, NEW rest \in Nat, rest < BlockLen,
         MultipleOf(start, n), MultipleOf(more, d),
         NEW buffer \in [1 .. BlockLen -> Int], NEW blocks, NEW next,
         blocks = Plain(n) \o Passed(start, d), next = Buffered(buffer, start + more, rest)
  PROVE  HashOk(blocks, next, rest, start + more + rest, n + d)
  <1>1. MultipleOf(start + more, n + d) /\ start \in Nat /\ more \in Nat
    BY MultipleSum
  <1>2. blocks = Plain(n + d)
    BY PlainAppend DEF Passed, MultipleOf
  <1>3. PICK base \in Int : base = start + more
    BY <1>1
  <1>4. next \in [1 .. BlockLen -> Int] /\ \A i \in 1 .. rest : next[i] = base + i
    BY <1>3, BufferedIs
  <1>5. n + d \in Nat
    OBVIOUS
  <1> QED
    BY <1>1, <1>2, <1>3, <1>4, <1>5 DEF HashOk, MultipleOf

(* Sha256::update keeps the hash in order, whether the chunk fits into the
   buffer, fills it up or finds it empty. *)
LEMMA UpdateOk ==
  ASSUME NEW size \in Nat, NEW n, ~sha.done, Update(size),
         sha = [blocks |-> sha.blocks, buffer |-> sha.buffer, buffer_len |-> sha.buffer_len,
                len |-> sha.len, done |-> sha.done],
         HashOk(sha.blocks, sha.buffer, sha.buffer_len, sha.len, n)
  PROVE  /\ \E m : HashOk(sha'.blocks, sha'.buffer, sha'.buffer_len, sha'.len, m)
         /\ sha' = [blocks |-> sha'.blocks, buffer |-> sha'.buffer,
                    buffer_len |-> sha'.buffer_len, len |-> sha'.len, done |-> sha'.done]
         /\ sha'.done = sha.done
  <1>0. BlockLen \in Nat /\ BlockLen > 0
    BY BlockAssumption
  <1>1. PICK used, len, buffer, blocks :
           used = sha.buffer_len /\ len = sha.len /\ buffer = sha.buffer /\ blocks = sha.blocks
    OBVIOUS
  <1>2. /\ n \in Nat /\ used \in Nat /\ used < BlockLen
        /\ blocks = Plain(n) /\ buffer \in [1 .. BlockLen -> Int]
    BY <1>1 DEF HashOk
  <1>3. PICK N \in Nat : /\ MultipleOf(N, n) /\ len = N + used
                         /\ \A i \in 1 .. used : buffer[i] = N + i
    <2>1. PICK N : MultipleOf(N, n)
      BY DEF MultipleOf
    <2>2. N \in Nat
      BY <1>0, <1>2, <2>1 DEF MultipleOf
    <2> QED
      BY <1>1, <2>1, <2>2 DEF MultipleOf, HashOk
  <1>4. PICK take \in Nat : take = IF used = 0 THEN 0 ELSE IF size < BlockLen - used THEN size
                                   ELSE BlockLen - used
    <2>1. BlockLen - used \in Nat
      BY <1>0, <1>2
    <2> QED
      BY <2>1
  <1>5. take <= size /\ used + take <= BlockLen
    BY <1>0, <1>2, <1>4
  <1>6. PICK filled : filled = Fill(buffer, used, len, take)
    OBVIOUS
  <1>7. PICK left \in Nat : left = size - take
    BY <1>5
  <1>8. PICK direct \in Nat, more \in Nat, rest \in Nat :
           /\ direct = left \div BlockLen /\ MultipleOf(more, direct)
           /\ left = more + rest /\ rest < BlockLen
    <2>1. PICK q \in Int, r \in Int : q = left \div BlockLen /\ r = left % BlockLen
      BY <1>0
    <2>2. left = BlockLen * q + r /\ 0 <= r /\ r < BlockLen
      BY <1>0, <2>1
    <2>3. q >= 0
      BY <1>0, <2>2, QuotientNat
    <2>4. PICK m \in Int : m = q * BlockLen
      BY <1>0
    <2>5. m >= 0 /\ left = m + r
      BY <1>0, <2>2, <2>3, <2>4
    <2>6. MultipleOf(m, q)
      BY <2>4 DEF MultipleOf
    <2> QED
      BY <2>1, <2>2, <2>3, <2>5, <2>6
  <1>9. PICK from \in Nat : from = len + take
    BY <1>2, <1>3, <1>5
  <1>10. /\ len + size - (from + direct * BlockLen) = rest
         /\ len + size - rest = from + more /\ len + size = from + more + rest
    <2>1. direct * BlockLen = more
      BY <1>8 DEF MultipleOf
    <2>2. len \in Nat
      BY <1>2, <1>3
    <2>3. more \in Nat /\ rest \in Nat /\ left \in Nat /\ left = more + rest
      BY <1>8
    <2>4. len + size = from + more + rest
      BY <1>7, <1>9, <2>2, <2>3
    <2>5. len + size - (from + more) = rest /\ len + size - rest = from + more
      BY <2>2, <2>3, <2>4
    <2> QED
      BY <2>1, <2>4, <2>5
  <1>11. PICK blocks1, buffer1, used1 :
           /\ blocks1 = blocks \o (IF used + take = BlockLen THEN <<filled>> ELSE << >>)
                               \o Passed(from, direct)
           /\ buffer1 = Buffered(filled, from + more, rest)
           /\ used1 = IF rest # 0 THEN rest ELSE IF used + take = BlockLen THEN 0 ELSE used + take
    OBVIOUS
  <1>12. sha' = [sha EXCEPT !.blocks = blocks1, !.len = len + size, !.buffer = buffer1,
                            !.buffer_len = used1]
    <2> DEFINE take0 == IF sha.buffer_len = 0 THEN 0
                        ELSE IF size < BlockLen - sha.buffer_len THEN size
                        ELSE BlockLen - sha.buffer_len
               filled0 == Copied(sha.buffer, sha.buffer_len, sha.len + 1, sha.len + take0)
               full0   == sha.buffer_len + take0 = BlockLen
               direct0 == (size - take0) \div BlockLen
               from0   == sha.len + take0
               rest0   == sha.len + size - (from0 + direct0 * BlockLen)
               blocks0 == sha.blocks \o (IF full0 THEN <<filled0>> ELSE << >>)
                            \o [b \in 1 .. direct0 |->
                                  [i \in 1 .. BlockLen |-> from0 + (b - 1) * BlockLen + i]]
               buffer0 == IF rest0 = 0 THEN filled0
                          ELSE Copied(filled0, 0, sha.len + size - rest0 + 1, sha.len + size)
               used0   == IF rest0 # 0 THEN rest0 ELSE IF full0 THEN 0
                          ELSE sha.buffer_len + take0
    <2>1. sha' = [sha EXCEPT !.blocks = blocks0, !.len = sha.len + size, !.buffer = buffer0,
                             !.buffer_len = used0]
      BY Zenon DEF Update
    <2>2. take0 = take
      BY <1>1, <1>4
    <2> HIDE DEF take0
    <2>3. filled0 = filled /\ from0 = from /\ direct0 = direct
      BY <1>1, <1>6, <1>7, <1>8, <1>9, <2>2 DEF Fill
    <2>4. full0 <=> used + take = BlockLen
      BY <1>1, <2>2
    <2> HIDE DEF filled0, from0, direct0, full0
    <2>5. rest0 = rest
      BY <1>1, <1>10, <2>3
    <2> HIDE DEF rest0
    <2>6. blocks0 = blocks1
      BY <1>1, <1>11, <2>3, <2>4 DEF Passed
    <2>7. buffer0 = buffer1
      BY <1>1, <1>10, <1>11, <2>3, <2>5 DEF Buffered
    <2>8. used0 = used1
      BY <1>1, <1>11, <2>2, <2>4, <2>5
    <2> HIDE DEF blocks0, buffer0, used0
    <2> QED
      BY <1>1, <2>1, <2>6, <2>7, <2>8
  <1>13. /\ sha'.blocks = blocks1 /\ sha'.buffer = buffer1 /\ sha'.buffer_len = used1
         /\ sha'.len = len + size
    BY <1>12
  <1>18. /\ sha' = [blocks |-> sha'.blocks, buffer |-> sha'.buffer,
                    buffer_len |-> sha'.buffer_len, len |-> sha'.len, done |-> sha'.done]
         /\ sha'.done = sha.done
    BY <1>12
  <1>14. /\ filled \in [1 .. BlockLen -> Int]
         /\ \A i \in 1 .. BlockLen :
               filled[i] = IF used < i /\ i <= used + take THEN N + i ELSE buffer[i]
    <2>1. len \in Int
      BY <1>2, <1>3
    <2>2. /\ filled \in [1 .. BlockLen -> Int]
          /\ \A i \in 1 .. BlockLen :
               filled[i] = IF used < i /\ i <= used + take THEN len + i - used ELSE buffer[i]
      <3>1. FilledIs(Fill(buffer, used, len, take), buffer, used, len, take)
        BY <1>2, <2>1, CopiedIs
      <3> QED
        BY <1>6, <3>1 DEF FilledIs
    <2>3. \A i \in 1 .. BlockLen : len + i - used = N + i
      BY <1>0, <1>2, <1>3
    <2> QED
      BY <2>2, <2>3
  <1>15. CASE used = 0
    <2>1. take = 0 /\ from = N /\ used + take # BlockLen
      BY <1>0, <1>2, <1>3, <1>4, <1>9, <1>15
    <2>2. blocks1 = Plain(n) \o Passed(from, direct)
      BY <1>2, <1>11, <2>1, PlainSeq
    <2>3. used1 = rest
      BY <1>11, <1>15, <2>1
    <2>4. HashOk(blocks1, buffer1, rest, from + more + rest, n + direct)
      BY <1>2, <1>3, <1>8, <1>11, <1>14, <2>1, <2>2, RestOk
    <2> QED
      BY <1>10, <1>13, <1>18, <2>3, <2>4
  <1>16. CASE used # 0 /\ size < BlockLen - used
    <2>1. take = size /\ left = 0 /\ used + take # BlockLen
      BY <1>0, <1>2, <1>4, <1>7, <1>16
    <2>2. direct = 0 /\ rest = 0
      BY <1>0, <1>8, <2>1
    <2>3. Passed(from, direct) = << >>
      BY <2>2 DEF Passed
    <2>4. blocks1 = Plain(n)
      BY <1>2, <1>11, <2>1, <2>3, PlainSeq
    <2>5. buffer1 = filled /\ used1 = used + size
      BY <1>11, <2>1, <2>2 DEF Buffered
    <2>6. \A i \in 1 .. used + size : filled[i] = N + i
      <3> SUFFICES ASSUME NEW i \in 1 .. used + size PROVE filled[i] = N + i
        OBVIOUS
      <3>1. i \in 1 .. BlockLen /\ i <= used + take /\ (~(used < i) => i \in 1 .. used)
        BY <1>0, <1>2, <1>16, <2>1
      <3> QED
        BY <1>3, <1>14, <3>1
    <2>7. used + size \in Nat /\ used + size < BlockLen /\ len + size = N + (used + size)
      BY <1>0, <1>2, <1>3, <1>16
    <2>8. HashOk(blocks1, buffer1, used1, len + size, n)
      BY <1>2, <1>3, <1>14, <2>4, <2>5, <2>6, <2>7 DEF HashOk, MultipleOf
    <2> QED
      BY <1>13, <1>18, <2>8
  <1>17. CASE used # 0 /\ ~(size < BlockLen - used)
    <2>1. take = BlockLen - used /\ used + take = BlockLen
      BY <1>0, <1>2, <1>4, <1>17
    <2>2. from = N + BlockLen /\ n + 1 \in Nat
      BY <1>0, <1>2, <1>3, <1>9, <2>1
    <2>3. MultipleOf(from, n + 1)
      BY <1>0, <1>2, <1>3, <2>2, TimesSum DEF MultipleOf
    <2>4. filled = BlockAt(N)
      <3>1. \A i \in 1 .. BlockLen : filled[i] = N + i
        <4> SUFFICES ASSUME NEW i \in 1 .. BlockLen PROVE filled[i] = N + i
          OBVIOUS
        <4>1. i <= used + take /\ (~(used < i) => i \in 1 .. used)
          BY <1>0, <1>2, <2>1
        <4> QED
          BY <1>3, <1>14, <4>1
      <3> QED
        BY <1>14, <3>1 DEF BlockAt
    <2>5. Plain(n) \o <<filled>> = Plain(n + 1)
      BY <1>2, <1>3, <2>4, PlainOneMore DEF MultipleOf
    <2>6. blocks1 = Plain(n + 1) \o Passed(from, direct)
      BY <1>2, <1>11, <2>1, <2>5
    <2>7. used1 = rest
      BY <1>11, <2>1
    <2>8. HashOk(blocks1, buffer1, rest, from + more + rest, (n + 1) + direct)
      BY <1>8, <1>11, <1>14, <2>2, <2>3, <2>6, RestOk
    <2> QED
      BY <1>10, <1>13, <1>18, <2>7, <2>8
  <1> QED
    BY <1>15, <1>16, <1>17

(* One byte of the padded input, and a block of it from byte `start' on *)
PadByte(len, total, i) ==
    IF i <= len THEN i
    ELSE IF i = len + 1 THEN Mark
    ELSE IF i > total - LengthLen THEN LengthByte(len) ELSE 0
PadBlock(len, total, start) == [i \in 1 .. BlockLen |-> PadByte(len, total, start + i)]

(* The padded input is cut at multiples of the block length. *)
LEMMA PaddedIs ==
  ASSUME NEW len \in Nat, NEW m \in Nat, NEW total \in Nat, MultipleOf(total, m),
         total - BlockLen < len + 1 + LengthLen, len + 1 + LengthLen <= total
  PROVE  Padded(len) = [b \in 1 .. m |-> PadBlock(len, total, (b - 1) * BlockLen)]
  <1>1. BlockLen \in Nat /\ BlockLen > 0 /\ LengthLen \in Nat
    BY BlockAssumption
  <1>2. (len + 1 + LengthLen + BlockLen - 1) \div BlockLen = m
    <2>1. PICK a \in Int, r \in Int : /\ a = len + 1 + LengthLen + BlockLen - 1
                                      /\ a = total + r /\ 0 <= r /\ r < BlockLen
      <3>1. PICK a \in Int : a = len + 1 + LengthLen + BlockLen - 1
        BY <1>1
      <3>2. PICK r \in Int : r = a - total
        BY <3>1
      <3>3. a = total + r /\ 0 <= r /\ r < BlockLen
        BY <1>1, <3>1, <3>2
      <3> QED
        BY <3>1, <3>3
    <2>2. a = m * BlockLen + r
      BY <2>1 DEF MultipleOf
    <2>3. a \div BlockLen = m
      BY <1>1, <2>1, <2>2, DivIs
    <2> QED
      BY <2>1, <2>3
  <1>3. m * BlockLen = total
    BY DEF MultipleOf
  <1>4. total \div BlockLen = m
    <2>1. total = m * BlockLen + 0
      BY <1>3
    <2> QED
      BY <1>1, <2>1, DivIs
  <1> QED
    BY <1>2, <1>3, <1>4 DEF Padded, PadBlock, PadByte

(* The blocks before the last byte of the input are the input itself. *)
LEMMA PadBlockIs ==
  ASSUME NEW n \in Nat, NEW b \in 1 .. n, NEW N \in Nat, MultipleOf(N, n), NEW len \in Nat,
         N <= len, NEW total
  PROVE  PadBlock(len, total, (b - 1) * BlockLen) = BlockAt((b - 1) * BlockLen)
  <1>1. BlockLen \in Nat
    BY BlockAssumption
  <1>2. PICK s \in Nat : s = (b - 1) * BlockLen
    BY <1>1
  <1>3. s + BlockLen <= N
    <2>1. PICK j \in Nat : n = (b - 1) + 1 + j
      <3>1. n - b \in Nat /\ n = (b - 1) + 1 + (n - b)
        OBVIOUS
      <3> QED
        BY <3>1
    <2>2. j * BlockLen \in Nat
      BY <1>1
    <2>3. n * BlockLen = (b - 1) * BlockLen + BlockLen + j * BlockLen
      BY <1>1, <2>1
    <2> QED
      BY <1>1, <1>2, <2>2, <2>3 DEF MultipleOf
  <1>4. ASSUME NEW i \in 1 .. BlockLen PROVE PadByte(len, total, s + i) = s + i
    <2>1. s + i <= len
      BY <1>1, <1>2, <1>3
    <2> QED
      BY <2>1 DEF PadByte
  <1> QED
    BY <1>2, <1>4 DEF PadBlock, BlockAt

(* A sequence that starts with the first n blocks of the input *)
StartsPlain(w, n) == \A b \in 1 .. n : w[b] = BlockAt((b - 1) * BlockLen)

(* One block after n blocks of the input *)
LEMMA PlainThen ==
  ASSUME NEW n \in Nat, NEW F, NEW w, w = [b \in 1 .. n + 1 |-> w[b]],
         StartsPlain(w, n), w[n + 1] = F
  PROVE  Plain(n) \o <<F>> = w
  <1>1. PICK p : p = Plain(n)
    OBVIOUS
  <1>2. PICK T : p \in Seq(T) /\ Len(p) = n
    BY <1>1, PlainSeq
  <1>3. \A b \in 1 .. n : p[b] = w[b]
    BY <1>1 DEF Plain, StartsPlain
  <1>4. p \o <<F>> = w
    <2>1. PICK v : v = p \o <<F>>
      OBVIOUS
    <2>2. PICK U : U = T \cup {F}
      OBVIOUS
    <2>3. p \in Seq(U) /\ <<F>> \in Seq(U) /\ Len(<<F>>) = 1
      BY <1>2, <2>2
    <2>4. v \in Seq(U) /\ Len(v) = n + 1
      BY <1>2, <2>1, <2>3, ConcatProperties
    <2>5. \A b \in 1 .. n + 1 : v[b] = w[b]
      <3> SUFFICES ASSUME NEW b \in 1 .. n + 1 PROVE v[b] = w[b]
        OBVIOUS
      <3>1. CASE b = n + 1
        <4>1. v[n + 1] = F
          BY <1>2, <2>1, <2>3
        <4> QED
          BY <3>1, <4>1
      <3>2. CASE b # n + 1
        <4>1. b \in 1 .. n
          BY <3>2
        <4>2. v[b] = p[b]
          BY <1>2, <2>1, <2>3, <4>1
        <4> QED
          BY <1>3, <4>1, <4>2
      <3> QED
        BY <3>1, <3>2
    <2>6. v = [b \in 1 .. n + 1 |-> v[b]]
      BY <2>4
    <2>7. v = w
      BY <2>5, <2>6
    <2> QED
      BY <2>1, <2>7
  <1> QED
    BY <1>1, <1>4

(* Two blocks after n blocks of the input *)
LEMMA PlainThenTwo ==
  ASSUME NEW n \in Nat, NEW G, NEW F, NEW w, w = [b \in 1 .. n + 2 |-> w[b]],
         StartsPlain(w, n), w[n + 1] = G, w[n + 2] = F
  PROVE  Plain(n) \o <<G>> \o <<F>> = w
  <1>1. PICK x : x = [b \in 1 .. n + 1 |-> w[b]]
    OBVIOUS
  <1>2. Plain(n) \o <<G>> = x
    <2>1. x = [b \in 1 .. n + 1 |-> x[b]]
      BY <1>1
    <2>2. StartsPlain(x, n)
      <3>1. \A b \in 1 .. n : b \in 1 .. n + 1
        OBVIOUS
      <3> QED
        BY <1>1, <3>1 DEF StartsPlain
    <2>3. x[n + 1] = G
      BY <1>1
    <2> QED
      BY <2>1, <2>2, <2>3, PlainThen
  <1>3. PICK T : T = {w[b] : b \in 1 .. n + 2}
    OBVIOUS
  <1>4. x \in Seq(T) /\ Len(x) = n + 1 /\ F \in T
    <2>1. \A b \in 1 .. n + 1 : x[b] \in T
      BY <1>1, <1>3
    <2>2. n + 2 \in 1 .. n + 2
      OBVIOUS
    <2>3. F \in T
      BY <1>3, <2>2
    <2>4. x = [b \in 1 .. n + 1 |-> x[b]] /\ n + 1 \in Nat
      BY <1>1
    <2> QED
      BY <2>1, <2>3, <2>4
  <1>5. x \o <<F>> = w
    <2>1. PICK v : v = x \o <<F>>
      OBVIOUS
    <2>2. <<F>> \in Seq(T) /\ Len(<<F>>) = 1
      BY <1>4
    <2>3. v \in Seq(T) /\ Len(v) = n + 1 + 1
      BY <1>4, <2>1, <2>2, ConcatProperties
    <2>4. \A b \in 1 .. n + 1 : v[b] = w[b]
      BY <1>1, <1>4, <2>1, <2>2
    <2>5. v[n + 2] = w[n + 2]
      BY <1>4, <2>1, <2>2
    <2>6. v = [b \in 1 .. n + 2 |-> v[b]]
      BY <2>3
    <2>7. \A b \in 1 .. n + 2 : v[b] = w[b]
      <3> SUFFICES ASSUME NEW b \in 1 .. n + 2 PROVE v[b] = w[b]
        OBVIOUS
      <3>1. b = n + 2 \/ b \in 1 .. n + 1
        OBVIOUS
      <3> QED
        BY <2>4, <2>5, <3>1
    <2>8. v = w
      BY <2>6, <2>7
    <2> QED
      BY <2>1, <2>8
  <1> QED
    BY <1>2, <1>5

(* The bytes of the buffer after the mark was set, zeros and the length written *)
ClosedIs(marked, used, N, len) ==
    /\ \A i \in 1 .. BlockLen : Zeroed(marked, used, BlockLen)[i] =
          IF i < used THEN N + i ELSE IF i = used THEN Mark ELSE 0
    /\ \A i \in 1 .. BlockLen :
          WithLength(Zeroed(marked, 0, BlockLen - LengthLen), len)[i] =
             IF i > BlockLen - LengthLen THEN LengthByte(len) ELSE 0
    /\ used <= BlockLen - LengthLen =>
         \A i \in 1 .. BlockLen :
          WithLength(Zeroed(marked, used, BlockLen - LengthLen), len)[i] =
             IF i < used THEN N + i ELSE IF i = used THEN Mark
             ELSE IF i > BlockLen - LengthLen THEN LengthByte(len) ELSE 0

(* Sha256::finalize writes these bytes. *)
LEMMA ClosedBlocks ==
  ASSUME NEW buffer \in [1 .. BlockLen -> Int], NEW used \in 1 .. BlockLen, NEW N \in Nat,
         \A i \in 1 .. used - 1 : buffer[i] = N + i, NEW len, NEW marked,
         marked = [buffer EXCEPT ![used] = Mark]
  PROVE  ClosedIs(marked, used, N, len)
  <1>1. BlockLen \in Nat /\ LengthLen \in Nat /\ LengthLen < BlockLen
    BY BlockAssumption
  <1>2. ASSUME NEW i \in 1 .. BlockLen
        PROVE  marked[i] = IF i = used THEN Mark ELSE buffer[i]
    OBVIOUS
  <1>3. ASSUME NEW i \in 1 .. BlockLen, i < used PROVE marked[i] = N + i
    <2>1. i \in 1 .. used - 1 /\ i # used
      BY <1>1, <1>3
    <2> QED
      BY <1>2, <2>1
  <1>4. ASSUME NEW i \in 1 .. BlockLen
        PROVE  Zeroed(marked, used, BlockLen)[i] =
                 IF i < used THEN N + i ELSE IF i = used THEN Mark ELSE 0
    <2>1. Zeroed(marked, used, BlockLen)[i] =
            IF i \in used + 1 .. BlockLen THEN 0 ELSE marked[i]
      BY DEF Zeroed
    <2> QED
      BY <1>1, <1>2, <1>3, <2>1
  <1>5. ASSUME NEW i \in 1 .. BlockLen
        PROVE  WithLength(Zeroed(marked, 0, BlockLen - LengthLen), len)[i] =
                 IF i > BlockLen - LengthLen THEN LengthByte(len) ELSE 0
    <2>1. Zeroed(marked, 0, BlockLen - LengthLen)[i] =
            IF i \in 0 + 1 .. BlockLen - LengthLen THEN 0 ELSE marked[i]
      BY DEF Zeroed
    <2>2. PICK z : z = Zeroed(marked, 0, BlockLen - LengthLen)
      OBVIOUS
    <2>3. WithLength(z, len)[i] = IF i > BlockLen - LengthLen THEN LengthByte(len) ELSE z[i]
      BY DEF WithLength
    <2> QED
      BY <1>1, <2>1, <2>2, <2>3
  <1>6. ASSUME NEW i \in 1 .. BlockLen, used <= BlockLen - LengthLen
        PROVE  WithLength(Zeroed(marked, used, BlockLen - LengthLen), len)[i] =
                 IF i < used THEN N + i ELSE IF i = used THEN Mark
                 ELSE IF i > BlockLen - LengthLen THEN LengthByte(len) ELSE 0
    <2>1. PICK z : z = Zeroed(marked, used, BlockLen - LengthLen)
      OBVIOUS
    <2>2. z[i] = IF i \in used + 1 .. BlockLen - LengthLen THEN 0 ELSE marked[i]
      BY <2>1 DEF Zeroed
    <2>3. WithLength(z, len)[i] = IF i > BlockLen - LengthLen THEN LengthByte(len) ELSE z[i]
      BY DEF WithLength
    <2>4. WithLength(z, len)[i] =
                 IF i < used THEN N + i ELSE IF i = used THEN Mark
                 ELSE IF i > BlockLen - LengthLen THEN LengthByte(len) ELSE 0
      BY <1>1, <1>2, <1>3, <1>6, <2>2, <2>3
    <2> QED
      BY <2>1, <2>4
  <1> QED
    BY <1>4, <1>5, <1>6 DEF ClosedIs

(* Sha256::finalize compresses the blocks of the padded input, in one block or
   in two. *)
LEMMA FinalizeOk ==
  ASSUME NEW n, Finalize,
         sha = [blocks |-> sha.blocks, buffer |-> sha.buffer, buffer_len |-> sha.buffer_len,
                len |-> sha.len, done |-> sha.done],
         HashOk(sha.blocks, sha.buffer, sha.buffer_len, sha.len, n)
  PROVE  sha'.blocks = Padded(sha'.len)
  <1>0. BlockLen \in Nat /\ LengthLen \in Nat /\ 0 < LengthLen /\ LengthLen < BlockLen
    BY BlockAssumption
  <1>1. PICK len, buffer : len = sha.len /\ buffer = sha.buffer
    OBVIOUS
  <1>2. n \in Nat /\ sha.blocks = Plain(n) /\ buffer \in [1 .. BlockLen -> Int]
    BY <1>1 DEF HashOk
  <1>3. PICK used \in 1 .. BlockLen : used = sha.buffer_len + 1
    BY <1>0 DEF HashOk
  <1>4. PICK N \in Nat : /\ MultipleOf(N, n) /\ len = N + (used - 1)
                         /\ \A i \in 1 .. used - 1 : buffer[i] = N + i
    <2>1. PICK N : MultipleOf(N, n)
      BY DEF MultipleOf
    <2>2. N \in Nat
      BY <1>0, <1>2, <2>1 DEF MultipleOf
    <2>3. sha.buffer_len = used - 1
      BY <1>3 DEF HashOk
    <2> QED
      BY <1>1, <2>1, <2>2, <2>3 DEF MultipleOf, HashOk
  <1>5. len \in Nat /\ N <= len /\ used \in Int /\ 1 <= used /\ used <= BlockLen
    BY <1>0, <1>4
  <1>6. PICK marked : marked = [buffer EXCEPT ![used] = Mark]
    OBVIOUS
  <1>7. PICK last : last = IF Closes(used) THEN Zeroed(marked, 0, BlockLen - LengthLen)
                           ELSE Zeroed(marked, used, BlockLen - LengthLen)
    OBVIOUS
  <1>8. PICK G, F : G = Zeroed(marked, used, BlockLen) /\ F = WithLength(last, len)
    OBVIOUS
  <1>9. PICK blocks1 : blocks1 = sha.blocks \o (IF Closes(used) THEN <<G>> ELSE << >>) \o <<F>>
    OBVIOUS
  <1>10. sha' = [sha EXCEPT !.done = TRUE, !.blocks = blocks1]
    BY <1>1, <1>3, <1>6, <1>7, <1>8, <1>9 DEF Finalize
  <1>11. sha'.blocks = blocks1 /\ sha'.len = len
    BY <1>1, <1>10
  <1>12. ClosedIs(marked, used, N, len)
    BY <1>2, <1>4, <1>6, ClosedBlocks
  <1>13. F = [i \in 1 .. BlockLen |-> F[i]] /\ G = [i \in 1 .. BlockLen |-> G[i]]
    BY <1>8 DEF WithLength, Zeroed
  <1>14. PICK w : w = Padded(len)
    OBVIOUS
  <1>15. CASE ~Closes(used)
    <2>1. used <= BlockLen - LengthLen
      BY <1>0, <1>5, <1>15 DEF Closes
    <2>2. blocks1 = Plain(n) \o <<F>>
      BY <1>2, <1>9, <1>15, PlainSeq
    <2>3. PICK total \in Nat : total = N + BlockLen /\ MultipleOf(total, n + 1)
      <3>1. N + BlockLen \in Nat /\ (n + 1) * BlockLen = n * BlockLen + BlockLen
        BY <1>0, <1>2
      <3>2. MultipleOf(N + BlockLen, n + 1)
        BY <1>4, <3>1 DEF MultipleOf
      <3> QED
        BY <3>1, <3>2
    <2>4. total - BlockLen < len + 1 + LengthLen /\ len + 1 + LengthLen <= total /\ n + 1 \in Nat
      <3>1. len = N + (used - 1)
        BY <1>4
      <3>2. BlockLen \in Int /\ LengthLen \in Int /\ 0 < LengthLen /\ LengthLen < BlockLen
        BY <1>0
      <3>3. total - BlockLen < len + 1 + LengthLen
        BY <1>5, <2>1, <2>3, <3>1, <3>2
      <3>4. len + 1 + LengthLen <= total
        BY <1>5, <2>1, <2>3, <3>1, <3>2
      <3> QED
        BY <1>2, <3>3, <3>4
    <2>5. w = [b \in 1 .. n + 1 |-> PadBlock(len, total, (b - 1) * BlockLen)]
      BY <1>5, <1>14, <2>3, <2>4, PaddedIs
    <2>6. StartsPlain(w, n)
      <3> SUFFICES ASSUME NEW b \in 1 .. n PROVE w[b] = BlockAt((b - 1) * BlockLen)
        BY DEF StartsPlain
      <3>1. PadBlock(len, total, (b - 1) * BlockLen) = BlockAt((b - 1) * BlockLen)
        BY <1>2, <1>4, <1>5, PadBlockIs
      <3>2. b \in 1 .. n + 1
        BY <1>2
      <3> QED
        BY <2>5, <3>1, <3>2
    <2>7. w[n + 1] = F
      <3>1. n + 1 - 1 = n /\ n + 1 \in 1 .. n + 1
        BY <1>2
      <3>2. n * BlockLen = N
        BY <1>4 DEF MultipleOf
      <3>3. w[n + 1] = PadBlock(len, total, N)
        <4>0. \A b \in 1 .. n + 1 : w[b] = PadBlock(len, total, (b - 1) * BlockLen)
          BY <2>5
        <4>1. PICK x : x = n + 1
          OBVIOUS
        <4>2. x \in 1 .. n + 1 /\ x - 1 = n
          BY <1>2, <4>1
        <4>3. w[x] = PadBlock(len, total, (x - 1) * BlockLen)
          BY <4>0, <4>2, Zenon
        <4>4. (x - 1) * BlockLen = N
          BY <3>2, <4>2, Zenon
        <4> QED
          BY <4>1, <4>3, <4>4, Zenon
      <3>4. ASSUME NEW i \in 1 .. BlockLen PROVE F[i] = PadByte(len, total, N + i)
        <4>1. F[i] = IF i < used THEN N + i ELSE IF i = used THEN Mark
                     ELSE IF i > BlockLen - LengthLen THEN LengthByte(len) ELSE 0
          BY <1>7, <1>8, <1>12, <1>15, <2>1 DEF ClosedIs
        <4>2. /\ N + i <= len <=> i < used
              /\ N + i = len + 1 <=> i = used
              /\ N + i > total - LengthLen <=> i > BlockLen - LengthLen
          BY <1>0, <1>4, <1>5, <2>3
        <4> QED
          BY <4>1, <4>2 DEF PadByte
      <3> QED
        BY <1>13, <3>3, <3>4 DEF PadBlock
    <2>8. w = [b \in 1 .. n + 1 |-> w[b]]
      BY <2>5
    <2>9. blocks1 = w
      BY <1>2, <2>2, <2>6, <2>7, <2>8, PlainThen
    <2> QED
      BY <1>11, <1>14, <2>9
  <1>16. CASE Closes(used)
    <2>1. used > BlockLen - LengthLen
      BY <1>16 DEF Closes
    <2>2. blocks1 = Plain(n) \o <<G>> \o <<F>>
      BY <1>2, <1>9, <1>16
    <2>3. PICK total \in Nat : total = N + 2 * BlockLen /\ MultipleOf(total, n + 2)
      <3>1. N + 2 * BlockLen \in Nat /\ (n + 2) * BlockLen = n * BlockLen + 2 * BlockLen
        BY <1>0, <1>2
      <3>2. MultipleOf(N + 2 * BlockLen, n + 2)
        BY <1>4, <3>1 DEF MultipleOf
      <3> QED
        BY <3>1, <3>2
    <2>4. total - BlockLen < len + 1 + LengthLen /\ len + 1 + LengthLen <= total /\ n + 2 \in Nat
      <3>1. len = N + (used - 1)
        BY <1>4
      <3>2. BlockLen \in Int /\ LengthLen \in Int /\ 0 < LengthLen /\ LengthLen < BlockLen
        BY <1>0
      <3>3. total - BlockLen < len + 1 + LengthLen
        BY <1>5, <2>1, <2>3, <3>1, <3>2
      <3>4. len + 1 + LengthLen <= total
        BY <1>5, <2>1, <2>3, <3>1, <3>2
      <3> QED
        BY <1>2, <3>3, <3>4
    <2>5. w = [b \in 1 .. n + 2 |-> PadBlock(len, total, (b - 1) * BlockLen)]
      BY <1>5, <1>14, <2>3, <2>4, PaddedIs
    <2>6. StartsPlain(w, n)
      <3> SUFFICES ASSUME NEW b \in 1 .. n PROVE w[b] = BlockAt((b - 1) * BlockLen)
        BY DEF StartsPlain
      <3>1. PadBlock(len, total, (b - 1) * BlockLen) = BlockAt((b - 1) * BlockLen)
        BY <1>2, <1>4, <1>5, PadBlockIs
      <3>2. b \in 1 .. n + 2
        BY <1>2
      <3> QED
        BY <2>5, <3>1, <3>2
    <2>7. w[n + 1] = G
      <3>1. n + 1 - 1 = n /\ n + 1 \in 1 .. n + 2
        BY <1>2
      <3>2. n * BlockLen = N
        BY <1>4 DEF MultipleOf
      <3>3. w[n + 1] = PadBlock(len, total, N)
        <4>0. \A b \in 1 .. n + 2 : w[b] = PadBlock(len, total, (b - 1) * BlockLen)
          BY <2>5
        <4>1. PICK x : x = n + 1
          OBVIOUS
        <4>2. x \in 1 .. n + 2 /\ x - 1 = n
          BY <1>2, <4>1
        <4>3. w[x] = PadBlock(len, total, (x - 1) * BlockLen)
          BY <4>0, <4>2, Zenon
        <4>4. (x - 1) * BlockLen = N
          BY <3>2, <4>2, Zenon
        <4> QED
          BY <4>1, <4>3, <4>4, Zenon
      <3>4. ASSUME NEW i \in 1 .. BlockLen PROVE G[i] = PadByte(len, total, N + i)
        <4>1. G[i] = IF i < used THEN N + i ELSE IF i = used THEN Mark ELSE 0
          BY <1>8, <1>12 DEF ClosedIs
        <4>2. /\ N + i <= len <=> i < used
              /\ N + i = len + 1 <=> i = used
              /\ ~(N + i > total - LengthLen)
          BY <1>0, <1>4, <1>5, <2>3
        <4> QED
          BY <4>1, <4>2 DEF PadByte
      <3> QED
        BY <1>13, <3>3, <3>4 DEF PadBlock
    <2>8. w[n + 2] = F
      <3>1. n + 2 - 1 = n + 1 /\ n + 2 \in 1 .. n + 2
        BY <1>2
      <3>2. (n + 1) * BlockLen = N + BlockLen
        BY <1>0, <1>2, <1>4, TimesSum DEF MultipleOf
      <3>3. w[n + 2] = PadBlock(len, total, N + BlockLen)
        <4>0. \A b \in 1 .. n + 2 : w[b] = PadBlock(len, total, (b - 1) * BlockLen)
          BY <2>5
        <4>1. PICK x : x = n + 2
          OBVIOUS
        <4>2. x \in 1 .. n + 2 /\ x - 1 = n + 1
          BY <1>2, <4>1
        <4>3. w[x] = PadBlock(len, total, (x - 1) * BlockLen)
          BY <4>0, <4>2, Zenon
        <4>4. (x - 1) * BlockLen = N + BlockLen
          BY <3>2, <4>2, Zenon
        <4> QED
          BY <4>1, <4>3, <4>4, Zenon
      <3>4. ASSUME NEW i \in 1 .. BlockLen PROVE F[i] = PadByte(len, total, N + BlockLen + i)
        <4>1. F[i] = IF i > BlockLen - LengthLen THEN LengthByte(len) ELSE 0
          BY <1>7, <1>8, <1>12, <1>16 DEF ClosedIs
        <4>2. /\ ~(N + BlockLen + i <= len) /\ N + BlockLen + i # len + 1
              /\ N + BlockLen + i > total - LengthLen <=> i > BlockLen - LengthLen
          BY <1>0, <1>4, <1>5, <2>3
        <4> QED
          BY <4>1, <4>2 DEF PadByte
      <3> QED
        BY <1>13, <3>3, <3>4 DEF PadBlock
    <2>9. w = [b \in 1 .. n + 2 |-> w[b]]
      BY <2>5
    <2>10. blocks1 = w
      BY <1>2, <2>2, <2>6, <2>7, <2>8, <2>9, PlainThenTwo
    <2> QED
      BY <1>11, <1>14, <2>10
  <1> QED
    BY <1>15, <1>16

(* The invariant is kept by every step. *)
LEMMA ShaStep == ShaInv /\ [ShaNext]_sha => ShaInv'
  <1> SUFFICES ASSUME ShaInv, [ShaNext]_sha PROVE ShaInv'
    OBVIOUS
  <1>0. sha = [blocks |-> sha.blocks, buffer |-> sha.buffer, buffer_len |-> sha.buffer_len,
               len |-> sha.len, done |-> sha.done]
    BY DEF ShaInv
  <1>1. ASSUME NEW size \in 0 .. MaxInput, Update(size) PROVE ShaInv'
    <2>1. ~sha.done /\ size \in Nat
      BY <1>1, BlockAssumption DEF Update
    <2>2. PICK n : HashOk(sha.blocks, sha.buffer, sha.buffer_len, sha.len, n)
      BY <2>1 DEF ShaInv
    <2>3. /\ \E m : HashOk(sha'.blocks, sha'.buffer, sha'.buffer_len, sha'.len, m)
          /\ sha' = [blocks |-> sha'.blocks, buffer |-> sha'.buffer,
                     buffer_len |-> sha'.buffer_len, len |-> sha'.len, done |-> sha'.done]
          /\ sha'.done = sha.done
      BY <1>0, <1>1, <2>1, <2>2, UpdateOk
    <2> QED
      BY <2>1, <2>3 DEF ShaInv, ChunksDoNotMatter, HashOk, Plain, BlockAt
  <1>2. ASSUME Finalize PROVE ShaInv'
    <2>1. ~sha.done
      BY <1>2 DEF Finalize
    <2>2. PICK n : HashOk(sha.blocks, sha.buffer, sha.buffer_len, sha.len, n)
      BY <2>1 DEF ShaInv
    <2>3. sha'.blocks = Padded(sha'.len)
      BY <1>0, <1>2, <2>2, FinalizeOk
    <2>4. \E b : sha' = [sha EXCEPT !.done = TRUE, !.blocks = b]
      BY <1>2 DEF Finalize
    <2>5. PICK b : sha' = [sha EXCEPT !.done = TRUE, !.blocks = b]
      BY <2>4
    <2>6. /\ sha' = [blocks |-> sha'.blocks, buffer |-> sha'.buffer, buffer_len |-> sha'.buffer_len,
                     len |-> sha'.len, done |-> sha'.done]
          /\ sha'.done = TRUE
      BY <1>0, <2>5
    <2> QED
      BY <2>3, <2>6 DEF ShaInv, ChunksDoNotMatter, Padded, LengthByte, Mark
  <1>3. CASE UNCHANGED sha
    BY <1>3 DEF ShaInv, ChunksDoNotMatter, Padded, LengthByte, Mark, HashOk, Plain, BlockAt
  <1> QED
    BY <1>1, <1>2, <1>3 DEF ShaNext

(***************************************************************************)
(* For every block length and length field, and any chunks given to        *)
(* Sha256::update, the blocks compressed are those of the padded input.    *)
(***************************************************************************)
THEOREM ChunksTheorem == ShaSpec => []ChunksDoNotMatter
  <1>1. ShaInit => ShaInv
    <2> SUFFICES ASSUME ShaInit PROVE ShaInv
      OBVIOUS
    <2>1. PICK buffer : buffer = [i \in 1 .. BlockLen |-> 0]
      OBVIOUS
    <2>2. /\ sha.blocks = << >> /\ sha.buffer = buffer /\ sha.buffer_len = 0
          /\ sha.len = 0 /\ sha.done = FALSE
      BY <2>1 DEF ShaInit
    <2>3. BlockLen \in Nat /\ BlockLen > 0
      BY BlockAssumption
    <2>4. HashOk(<< >>, buffer, 0, 0, 0)
      <3>1. Plain(0) = << >>
        BY DEF Plain
      <3>2. buffer \in [1 .. BlockLen -> Int] /\ \A i \in 1 .. 0 : FALSE
        BY <2>1
      <3>3. 0 = 0 * BlockLen + 0
        BY <2>3
      <3> QED
        BY <2>3, <3>1, <3>2, <3>3 DEF HashOk
    <2>5. sha = [blocks |-> sha.blocks, buffer |-> sha.buffer, buffer_len |-> sha.buffer_len,
                 len |-> sha.len, done |-> sha.done]
      BY DEF ShaInit
    <2> QED
      BY <2>2, <2>4, <2>5 DEF ShaInv, ChunksDoNotMatter
  <1>2. ShaInv => ChunksDoNotMatter
    BY DEF ShaInv
  <1> QED
    BY <1>1, <1>2, ShaStep, PTL DEF ShaSpec

-----------------------------------------------------------------------------
(* Numbers on the wire *)

(* A set of natural numbers that is not empty has a least member. *)
LEMMA MinIs ==
  ASSUME NEW S \in SUBSET Nat, S # {}
  PROVE  Min(S) \in S /\ \A y \in S : Min(S) <= y
  <1>1. \E m \in S : \A y \in S : ~(<<y, m>> \in OpToRel(<, Nat))
    BY NatLessThanWellFounded, WFMin
  <1>2. PICK m \in S : \A y \in S : ~(<<y, m>> \in OpToRel(<, Nat))
    BY <1>1
  <1>3. \A y \in S : ~(y < m)
    BY <1>2 DEF OpToRel
  <1>4. \A y \in S : m <= y
    BY <1>3
  <1> QED
    BY <1>4 DEF Min

(* Induction up to n, for a set of numbers. *)
LEMMA InductTo ==
  ASSUME NEW n \in Nat, NEW S, 0 \in S, \A k \in 0 .. n : k \in S /\ k < n => k + 1 \in S
  PROVE  \A k \in 0 .. n : k \in S
  <1> DEFINE Left == {k \in 0 .. n : k \notin S}
  <1> SUFFICES ASSUME Left # {} PROVE FALSE
    OBVIOUS
  <1>1. Left \in SUBSET Nat
    OBVIOUS
  <1>2. PICK m \in Left : \A y \in Left : m <= y
    BY <1>1, MinIs
  <1>3. m \in 0 .. n /\ m # 0 /\ m - 1 \in 0 .. n /\ ~(m <= m - 1)
    OBVIOUS
  <1>4. m - 1 \in S /\ m - 1 < n /\ (m - 1) + 1 = m
    BY <1>2, <1>3
  <1> QED
    BY <1>3, <1>4

(* The numbers of a loop that starts with a and turns x into g[<<k, x>>]. *)
NumbersFrom(f, a, g, n) ==
    f \in [0 .. n -> Nat] /\ f = [k \in 0 .. n |-> IF k = 0 THEN a ELSE g[<<k, f[k - 1]>>]]

(* Every such loop can be run. *)
LEMMA NumbersExist ==
  ASSUME NEW n \in Nat, NEW a \in Nat, NEW g \in [Nat \X Nat -> Nat]
  PROVE  \E f : NumbersFrom(f, a, g, n)
  <1> DEFINE S == {m \in Nat : \E f : NumbersFrom(f, a, g, m)}
  <1>1. 0 \in S
    <2> DEFINE f == [k \in 0 .. 0 |-> a]
    <2>1. \A k \in 0 .. 0 : k = 0
      OBVIOUS
    <2>2. NumbersFrom(f, a, g, 0)
      BY <2>1 DEF NumbersFrom
    <2> QED
      BY <2>2
  <1>2. ASSUME NEW m \in S PROVE m + 1 \in S
    <2>1. PICK f : NumbersFrom(f, a, g, m)
      OBVIOUS
    <2>2. PICK y \in Nat : y = g[<<m + 1, f[m]>>]
      <3>1. f[m] \in Nat
        BY <2>1 DEF NumbersFrom
      <3>2. <<m + 1, f[m]>> \in Nat \X Nat
        BY <3>1
      <3> QED
        BY <3>2
    <2> DEFINE h == [k \in 0 .. m + 1 |-> IF k = m + 1 THEN y ELSE f[k]]
    <2>3. h \in [0 .. m + 1 -> Nat]
      <3>1. \A k \in 0 .. m + 1 : k # m + 1 => k \in 0 .. m
        OBVIOUS
      <3> QED
        BY <2>1, <3>1 DEF NumbersFrom
    <2>4. \A k \in 0 .. m + 1 : h[k] = IF k = 0 THEN a ELSE g[<<k, h[k - 1]>>]
      <3> TAKE k \in 0 .. m + 1
      <3>1. CASE k = m + 1
        <4>1. m \in 0 .. m + 1 /\ m # m + 1 /\ k # 0 /\ k - 1 = m
          BY <3>1
        <4> QED
          BY <2>2, <3>1, <4>1
      <3>2. CASE k # m + 1 /\ k # 0
        <4>1. k \in 0 .. m /\ k - 1 \in 0 .. m + 1 /\ k - 1 # m + 1
          BY <3>2
        <4>2. h[k] = f[k] /\ h[k - 1] = f[k - 1]
          BY <3>2, <4>1
        <4>3. f[k] = g[<<k, f[k - 1]>>]
          BY <2>1, <3>2, <4>1 DEF NumbersFrom
        <4> QED
          BY <3>2, <4>2, <4>3
      <3>3. CASE k = 0
        <4>1. k # m + 1 /\ k \in 0 .. m
          BY <3>3
        <4>2. f[k] = a
          BY <2>1, <3>3, <4>1 DEF NumbersFrom
        <4> QED
          BY <3>3, <4>1, <4>2
      <3> QED
        BY <3>1, <3>2, <3>3
    <2>5. NumbersFrom(h, a, g, m + 1)
      BY <2>3, <2>4 DEF NumbersFrom
    <2>6. m + 1 \in Nat
      OBVIOUS
    <2> HIDE DEF h
    <2> QED
      BY <2>5, <2>6
  <1>3. n \in S
    <2> HIDE DEF S
    <2>1. \A k \in 0 .. n : k \in S
      BY <1>1, <1>2, InductTo
    <2> QED
      BY <2>1
  <1> QED
    BY <1>3

(* A number is what is left of it times the base plus the digit shifted out. *)
LEMMA Digits ==
  ASSUME NEW x \in Nat
  PROVE  /\ x \div Digit \in Nat /\ x % Digit \in Nat
         /\ x = (x \div Digit) * Digit + (x % Digit)
         /\ x # 0 => x \div Digit < x
  <1>1. Digit \in Nat /\ Digit >= 2
    BY CodecAssumption
  <1>2. PICK q \in Int : q = x \div Digit
    BY <1>1
  <1>3. PICK r \in Int : r = x % Digit
    BY <1>1
  <1>4. x = Digit * q + r /\ 0 <= r /\ r < Digit
    BY <1>1, <1>2, <1>3
  <1>5. q * Digit = Digit * q
    BY <1>1
  <1>6. q >= 0
    BY <1>1, <1>4, SMT
  <1>7. x # 0 => q < x
    BY <1>1, <1>4, <1>6, SMT
  <1>8. q \in Nat /\ r \in Nat /\ x = q * Digit + r
    BY <1>4, <1>5, <1>6
  <1> QED
    BY <1>2, <1>3, <1>7, <1>8

(* The loop of write_uleb128. *)
LEMMA ShiftedIs ==
  ASSUME NEW v \in Nat
  PROVE  /\ Shifted(v) \in [0 .. v + 1 -> Nat]
         /\ Shifted(v)[0] = v
         /\ \A k \in 0 .. v : Shifted(v)[k + 1] = Shifted(v)[k] \div Digit
  <1> DEFINE g == [p \in Nat \X Nat |-> p[2] \div Digit]
  <1>1. g \in [Nat \X Nat -> Nat]
    BY Digits
  <1> DEFINE rest == CHOOSE f : f = [k \in 0 .. v + 1 |-> IF k = 0 THEN v ELSE f[k - 1] \div Digit]
  <1>2. Shifted(v) = rest
    BY DEF Shifted
  <1>3. PICK f : NumbersFrom(f, v, g, v + 1)
    BY <1>1, NumbersExist
  <1>4. \A k \in 0 .. v + 1 : k # 0 => g[<<k, f[k - 1]>>] = f[k - 1] \div Digit
    <2> TAKE k \in 0 .. v + 1
    <2> HAVE k # 0
    <2>1. k - 1 \in 0 .. v + 1
      OBVIOUS
    <2>2. f[k - 1] \in Nat
      BY <1>3, <2>1 DEF NumbersFrom
    <2>3. <<k, f[k - 1]>> \in Nat \X Nat
      BY <2>2
    <2> QED
      BY <2>3
  <1>5. f = [k \in 0 .. v + 1 |-> IF k = 0 THEN v ELSE f[k - 1] \div Digit]
    BY <1>3, <1>4 DEF NumbersFrom
  <1>6. rest = [k \in 0 .. v + 1 |-> IF k = 0 THEN v ELSE rest[k - 1] \div Digit]
    BY <1>5
  <1> HIDE DEF rest
  <1>7. \A k \in 0 .. v + 1 : rest[k] \in Nat
    <2> DEFINE S == {k \in 0 .. v + 1 : rest[k] \in Nat}
    <2>1. 0 \in S
      BY <1>6
    <2>2. ASSUME NEW k \in 0 .. v + 1, k \in S, k < v + 1 PROVE k + 1 \in S
      <3>1. k + 1 \in 0 .. v + 1 /\ k + 1 # 0 /\ (k + 1) - 1 = k
        BY <2>2
      <3>2. rest[k + 1] = rest[k] \div Digit
        BY <1>6, <3>1
      <3> QED
        BY <2>2, <3>1, <3>2, Digits
    <2> HIDE DEF S
    <2>3. \A k \in 0 .. v + 1 : k \in S
      BY <2>1, <2>2, InductTo
    <2> QED
      BY <2>3 DEF S
  <1>8. \A k \in 0 .. v : rest[k + 1] = rest[k] \div Digit
    <2> TAKE k \in 0 .. v
    <2>1. k + 1 \in 0 .. v + 1 /\ k + 1 # 0 /\ (k + 1) - 1 = k
      OBVIOUS
    <2> QED
      BY <1>6, <2>1
  <1>9. rest[0] = v
    BY <1>6
  <1>10. rest \in [0 .. v + 1 -> Nat]
    BY <1>6, <1>7
  <1> QED
    BY <1>2, <1>8, <1>9, <1>10

(* The powers of the base. *)
LEMMA PowerIs ==
  ASSUME NEW n \in Nat
  PROVE  \E p : /\ p \in [0 .. n -> Nat] /\ p[0] = 1 /\ p[n] = Power(n)
                /\ \A k \in 0 .. n : k < n => p[k + 1] = p[k] * Digit
  <1> DEFINE g == [x \in Nat \X Nat |-> x[2] * Digit]
  <1>1. g \in [Nat \X Nat -> Nat]
    <2>1. Digit \in Nat
      BY CodecAssumption
    <2>2. \A x \in Nat \X Nat : x[2] * Digit \in Nat
      BY <2>1
    <2> QED
      BY <2>2
  <1> DEFINE p == CHOOSE f : f = [i \in 0 .. n |-> IF i = 0 THEN 1 ELSE f[i - 1] * Digit]
  <1>2. Power(n) = p[n]
    BY DEF Power
  <1>3. PICK f : NumbersFrom(f, 1, g, n)
    BY <1>1, NumbersExist
  <1>4. \A k \in 0 .. n : k # 0 => g[<<k, f[k - 1]>>] = f[k - 1] * Digit
    <2> TAKE k \in 0 .. n
    <2> HAVE k # 0
    <2>1. k - 1 \in 0 .. n
      OBVIOUS
    <2>2. f[k - 1] \in Nat
      BY <1>3, <2>1 DEF NumbersFrom
    <2>3. <<k, f[k - 1]>> \in Nat \X Nat
      BY <2>2
    <2> QED
      BY <2>3
  <1>5. f = [i \in 0 .. n |-> IF i = 0 THEN 1 ELSE f[i - 1] * Digit]
    BY <1>3, <1>4 DEF NumbersFrom
  <1>6. p = [i \in 0 .. n |-> IF i = 0 THEN 1 ELSE p[i - 1] * Digit]
    BY <1>5
  <1> HIDE DEF p
  <1>7. \A k \in 0 .. n : p[k] \in Nat
    <2> DEFINE S == {k \in 0 .. n : p[k] \in Nat}
    <2>1. 0 \in S
      BY <1>6
    <2>2. ASSUME NEW k \in 0 .. n, k \in S, k < n PROVE k + 1 \in S
      <3>1. k + 1 \in 0 .. n /\ k + 1 # 0 /\ (k + 1) - 1 = k
        BY <2>2
      <3>2. p[k + 1] = p[k] * Digit
        BY <1>6, <3>1
      <3>3. Digit \in Nat /\ p[k] \in Nat
        BY <2>2, CodecAssumption
      <3> QED
        BY <3>1, <3>2, <3>3
    <2> HIDE DEF S
    <2>3. \A k \in 0 .. n : k \in S
      BY <2>1, <2>2, InductTo
    <2> QED
      BY <2>3 DEF S
  <1>8. \A k \in 0 .. n : k < n => p[k + 1] = p[k] * Digit
    <2> TAKE k \in 0 .. n
    <2> HAVE k < n
    <2>1. k + 1 \in 0 .. n /\ k + 1 # 0 /\ (k + 1) - 1 = k
      OBVIOUS
    <2> QED
      BY <1>6, <2>1
  <1>9. p[0] = 1
    BY <1>6
  <1>10. p \in [0 .. n -> Nat]
    BY <1>6, <1>7
  <1> QED
    BY <1>2, <1>8, <1>9, <1>10

(* A number below m times the base is below m without its last digit. *)
LEMMA DigitLess ==
  ASSUME NEW x \in Nat, NEW m \in Nat, x < m * Digit
  PROVE  x \div Digit < m
  <1>1. Digit \in Nat /\ Digit >= 2
    BY CodecAssumption
  <1>2. PICK q \in Nat : q = x \div Digit
    BY Digits
  <1>3. PICK r \in Nat : r = x % Digit
    BY Digits
  <1>4. x = q * Digit + r
    BY <1>2, <1>3, Digits
  <1>5. ASSUME q >= m PROVE FALSE
    <2>1. PICK d \in Nat : q = m + d
      BY <1>5
    <2>2. q * Digit = m * Digit + d * Digit
      BY <1>1, <2>1
    <2>3. d * Digit \in Nat /\ m * Digit \in Nat
      BY <1>1
    <2> QED
      BY <1>4, <2>2, <2>3
  <1> QED
    BY <1>2, <1>5

(* The loop of write_uleb128 ends, with no more bytes than read_uleb128 reads. *)
LEMMA ShiftedEnds ==
  ASSUME NEW v \in Nat, v < Power(MaxDigits)
  PROVE  \E n \in 1 .. v + 1 : /\ n = Min({k \in 1 .. v + 1 : Shifted(v)[k] = 0})
                               /\ Shifted(v)[n] = 0 /\ n <= MaxDigits
  <1>0. PICK rest : rest = Shifted(v)
    OBVIOUS
  <1>1. /\ rest = Shifted(v) /\ rest \in [0 .. v + 1 -> Nat] /\ rest[0] = v
        /\ \A k \in 0 .. v : rest[k + 1] = rest[k] \div Digit
    BY <1>0, ShiftedIs, Zenon
  <1>2. \A k \in 0 .. v + 1 : rest[k] = 0 \/ rest[k] + k <= v
    <2> DEFINE S == {k \in 0 .. v + 1 : rest[k] = 0 \/ rest[k] + k <= v}
    <2>1. 0 \in S
      BY <1>1
    <2>2. ASSUME NEW k \in 0 .. v + 1, k \in S, k < v + 1 PROVE k + 1 \in S
      <3>1. k + 1 \in 0 .. v + 1 /\ k \in 0 .. v
        BY <2>2
      <3>2. PICK x \in Nat : x = rest[k]
        BY <1>1
      <3>3. rest[k + 1] = x \div Digit
        BY <1>1, <3>1, <3>2
      <3>4. PICK y \in Nat : y = x \div Digit
        BY Digits
      <3>5. CASE x = 0
        <4>1. y = 0
          <5>1. Digit \in Nat /\ Digit >= 2
            BY CodecAssumption
          <5>2. y * Digit \in Nat /\ (x % Digit) \in Nat /\ x = y * Digit + (x % Digit)
            BY <3>4, <5>1, Digits
          <5>3. y * Digit = 0
            BY <3>5, <5>2
          <5> QED
            BY <5>1, <5>3
        <4> QED
          BY <3>1, <3>3, <3>4, <4>1
      <3>6. CASE x # 0
        <4>1. y < x
          BY <3>4, <3>6, Digits
        <4>2. x + k <= v
          BY <2>2, <3>2, <3>6
        <4>3. y + (k + 1) <= v
          BY <4>1, <4>2
        <4> QED
          BY <3>1, <3>3, <3>4, <4>3
      <3> QED
        BY <3>5, <3>6
    <2> HIDE DEF S
    <2>3. v + 1 \in Nat
      OBVIOUS
    <2>4. \A k \in 0 .. v + 1 : k \in S
      BY <2>1, <2>2, <2>3, InductTo
    <2> QED
      BY <2>4 DEF S
  <1> DEFINE Ends == {k \in 1 .. v + 1 : rest[k] = 0}
  <1>3. v + 1 \in Ends
    <2>1. v + 1 \in 0 .. v + 1 /\ v + 1 \in 1 .. v + 1
      OBVIOUS
    <2>2. rest[v + 1] = 0 \/ rest[v + 1] + (v + 1) <= v
      BY <1>2, <2>1
    <2>3. rest[v + 1] \in Nat
      BY <1>1, <2>1
    <2> QED
      BY <2>1, <2>2, <2>3
  <1>4. PICK n \in Ends : n = Min(Ends) /\ \A k \in Ends : n <= k
    <2>1. Ends \in SUBSET Nat /\ Ends # {}
      BY <1>3
    <2> HIDE DEF Ends
    <2> QED
      BY <2>1, MinIs
  <1>5. n <= MaxDigits
    <2>1. MaxDigits \in Nat /\ MaxDigits # 0
      BY CodecAssumption
    <2>2. PICK p : /\ p \in [0 .. MaxDigits -> Nat] /\ p[0] = 1 /\ p[MaxDigits] = Power(MaxDigits)
                   /\ \A k \in 0 .. MaxDigits : k < MaxDigits => p[k + 1] = p[k] * Digit
      BY <2>1, PowerIs
    <2> DEFINE S == {k \in 0 .. MaxDigits : k <= v + 1 => rest[k] < p[MaxDigits - k]}
    <2>3. 0 \in S
      BY <1>1, <2>1, <2>2
    <2>4. ASSUME NEW k \in 0 .. MaxDigits, k \in S, k < MaxDigits PROVE k + 1 \in S
      <3>1. k + 1 \in 0 .. MaxDigits
        BY <2>1, <2>4
      <3>2. CASE ~(k + 1 <= v + 1)
        BY <3>1, <3>2
      <3>3. CASE k + 1 <= v + 1
        <4>1. k \in 0 .. v /\ k \in 0 .. v + 1
          BY <3>3
        <4>2. PICK j \in 0 .. MaxDigits : j = MaxDigits - (k + 1)
          BY <2>1, <2>4
        <4>3. MaxDigits - k = j + 1 /\ j < MaxDigits
          BY <2>1, <4>2
        <4>4. PICK x \in Nat : x = rest[k]
          BY <1>1, <4>1
        <4>5. PICK m \in Nat : m = p[j]
          BY <2>2
        <4>6. p[j + 1] = m * Digit
          BY <2>2, <4>3, <4>5
        <4>7. x < m * Digit
          BY <2>4, <4>1, <4>3, <4>4, <4>6
        <4>8. x \div Digit < m
          BY <4>7, DigitLess
        <4>9. rest[k + 1] = x \div Digit
          BY <1>1, <4>1, <4>4
        <4> QED
          BY <3>1, <4>2, <4>5, <4>8, <4>9
      <3> QED
        BY <3>2, <3>3
    <2> HIDE DEF S
    <2>5. \A k \in 0 .. MaxDigits : k \in S
      BY <2>1, <2>3, <2>4, InductTo
    <2>6. MaxDigits \in S
      BY <2>1, <2>5
    <2>7. CASE MaxDigits <= v + 1
      <3>1. MaxDigits - MaxDigits = 0 /\ MaxDigits \in 1 .. v + 1 /\ MaxDigits \in 0 .. v + 1
        BY <2>1, <2>7
      <3>2. rest[MaxDigits] < 1
        BY <2>2, <2>6, <2>7, <3>1 DEF S
      <3>3. rest[MaxDigits] \in Nat
        BY <1>1, <3>1
      <3>4. rest[MaxDigits] = 0
        BY <3>2, <3>3
      <3>5. MaxDigits \in Ends
        BY <3>1, <3>4
      <3> QED
        BY <1>4, <3>5
    <2>8. CASE ~(MaxDigits <= v + 1)
      BY <1>4, <2>1, <2>8
    <2> QED
      BY <2>7, <2>8
  <1> QED
    BY <1>1, <1>4, <1>5

(* The bytes of a number. *)
LEMMA UlebIs ==
  ASSUME NEW v \in Nat, v < Power(MaxDigits)
  PROVE  \E n \in 1 .. v + 1 :
            /\ Shifted(v)[n] = 0 /\ n <= MaxDigits
            /\ Uleb(v) \in [1 .. n -> Nat \X BOOLEAN]
            /\ Uleb(v)[n][2] = FALSE
            /\ \A i \in 1 .. n : Uleb(v)[i][1] = Shifted(v)[i - 1] % Digit
  <1>1. PICK n \in 1 .. v + 1 : /\ n = Min({k \in 1 .. v + 1 : Shifted(v)[k] = 0})
                                /\ Shifted(v)[n] = 0 /\ n <= MaxDigits
    BY ShiftedEnds
  <1>2. PICK rest : rest = Shifted(v)
    OBVIOUS
  <1>3. rest \in [0 .. v + 1 -> Nat]
    BY <1>2, ShiftedIs, Zenon
  <1>4. Uleb(v) = [i \in 1 .. n |-> <<rest[i - 1] % Digit, rest[i] # 0>>]
    BY <1>1, <1>2, Zenon DEF Uleb
  <1>5. \A i \in 1 .. n : rest[i - 1] % Digit \in Nat
    <2> TAKE i \in 1 .. n
    <2>1. i - 1 \in 0 .. v + 1
      OBVIOUS
    <2>2. rest[i - 1] \in Nat
      BY <1>3, <2>1
    <2> QED
      BY <2>2, Digits
  <1>6. Uleb(v) \in [1 .. n -> Nat \X BOOLEAN]
    <2>1. \A i \in 1 .. n : (rest[i] # 0) \in BOOLEAN
      BY Zenon
    <2>2. \A i \in 1 .. n : <<rest[i - 1] % Digit, rest[i] # 0>> \in Nat \X BOOLEAN
      BY <1>5, <2>1, Zenon
    <2> QED
      BY <1>4, <2>2, Zenon
  <1>7. n \in 1 .. n
    OBVIOUS
  <1>8. Uleb(v)[n][2] = FALSE
    <2>1. Uleb(v)[n] = <<rest[n - 1] % Digit, rest[n] # 0>>
      BY <1>4, <1>7, Zenon
    <2>2. (rest[n] # 0) = FALSE
      BY <1>1, <1>2, Zenon
    <2>3. Uleb(v)[n] = <<rest[n - 1] % Digit, FALSE>>
      BY <2>1, <2>2, Zenon
    <2> QED
      BY <2>3
  <1>9. \A i \in 1 .. n : Uleb(v)[i][1] = rest[i - 1] % Digit
    BY <1>4
  <1> QED
    BY <1>1, <1>2, <1>6, <1>8, <1>9

(***************************************************************************)
(* read_uleb128 reads back what write_uleb128 wrote, for every number that *)
(* fits into the bytes it reads.                                           *)
(***************************************************************************)
LEMMA UlebRoundTrip ==
  ASSUME NEW v \in Nat, v < Power(MaxDigits)
  PROVE  ReadUleb(Uleb(v)) = v
  <1>1. PICK n \in 1 .. v + 1 :
            /\ Shifted(v)[n] = 0 /\ n <= MaxDigits
            /\ Uleb(v) \in [1 .. n -> Nat \X BOOLEAN]
            /\ Uleb(v)[n][2] = FALSE
            /\ \A i \in 1 .. n : Uleb(v)[i][1] = Shifted(v)[i - 1] % Digit
    BY UlebIs
  <1>2. PICK rest : rest = Shifted(v)
    OBVIOUS
  <1>3. /\ rest \in [0 .. v + 1 -> Nat] /\ rest[0] = v
        /\ \A k \in 0 .. v : rest[k + 1] = rest[k] \div Digit
    BY <1>2, ShiftedIs, Zenon
  <1>4. PICK b : b = Uleb(v)
    OBVIOUS
  <1>5. b \in [1 .. n -> Nat \X BOOLEAN] /\ b[n][2] = FALSE /\ rest[n] = 0
    BY <1>1, <1>2, <1>4
  <1>6. \A i \in 1 .. n : b[i][1] = rest[i - 1] % Digit
    BY <1>1, <1>2, <1>4
  <1>7. Len(b) = n
    BY <1>5
  <1> DEFINE high == CHOOSE f : f = [k \in 0 .. n |->
                        IF k = 0 THEN 0 ELSE f[k - 1] * Digit + b[(n - k) + 1][1]]
  <1>8. ReadUleb(b) = high[n]
    <2>1. ~(n > MaxDigits \/ b[n][2])
      <3>1. MaxDigits \in Nat
        BY CodecAssumption
      <3> QED
        BY <1>1, <1>5, <3>1
    <2> QED
      BY <1>7, <2>1 DEF ReadUleb
  <1> DEFINE g == [x \in Nat \X Nat |->
                     IF x[1] \in 1 .. n THEN x[2] * Digit + b[(n - x[1]) + 1][1] ELSE 0]
  <1>9. g \in [Nat \X Nat -> Nat]
    <2>1. Digit \in Nat
      BY CodecAssumption
    <2>2. ASSUME NEW x \in Nat \X Nat, x[1] \in 1 .. n
          PROVE  x[2] * Digit + b[(n - x[1]) + 1][1] \in Nat
      <3>1. (n - x[1]) + 1 \in 1 .. n
        BY <2>2
      <3>2. b[(n - x[1]) + 1][1] \in Nat
        BY <1>5, <3>1
      <3>3. x[2] * Digit \in Nat
        BY <2>1
      <3> QED
        BY <3>2, <3>3
    <2> QED
      BY <2>2
  <1>10. PICK f : NumbersFrom(f, 0, g, n)
    <2>1. n \in Nat
      OBVIOUS
    <2> QED
      BY <1>9, <2>1, NumbersExist
  <1>11. \A k \in 0 .. n : k # 0 => g[<<k, f[k - 1]>>] = f[k - 1] * Digit + b[(n - k) + 1][1]
    <2> TAKE k \in 0 .. n
    <2> HAVE k # 0
    <2>1. k - 1 \in 0 .. n /\ k \in 1 .. n
      OBVIOUS
    <2>2. f[k - 1] \in Nat
      BY <1>10, <2>1 DEF NumbersFrom
    <2>3. <<k, f[k - 1]>> \in Nat \X Nat
      BY <2>2
    <2> QED
      BY <2>1, <2>3
  <1>12. f = [k \in 0 .. n |-> IF k = 0 THEN 0 ELSE f[k - 1] * Digit + b[(n - k) + 1][1]]
    BY <1>10, <1>11 DEF NumbersFrom
  <1>13. high = [k \in 0 .. n |-> IF k = 0 THEN 0 ELSE high[k - 1] * Digit + b[(n - k) + 1][1]]
    BY <1>12
  <1> HIDE DEF high
  <1>14. \A k \in 0 .. n : high[k] = rest[n - k]
    <2> DEFINE S == {k \in 0 .. n : high[k] = rest[n - k]}
    <2>1. 0 \in S
      <3>1. n - 0 = n /\ 0 \in 0 .. n
        OBVIOUS
      <3> QED
        BY <1>5, <1>13, <3>1
    <2>2. ASSUME NEW k \in 0 .. n, k \in S, k < n PROVE k + 1 \in S
      <3>1. /\ k + 1 \in 0 .. n /\ k + 1 # 0 /\ (k + 1) - 1 = k
            /\ (n - (k + 1)) + 1 = n - k /\ n - k \in 1 .. n
        BY <2>2
      <3>2. PICK j \in 0 .. v : j = n - (k + 1)
        BY <2>2
      <3>3. n - k = j + 1 /\ (n - k) - 1 = j /\ j \in 0 .. v + 1
        BY <3>2
      <3>4. PICK x \in Nat : x = rest[j]
        BY <1>3, <3>3
      <3>5. high[k] = x \div Digit
        BY <1>3, <2>2, <3>2, <3>3, <3>4
      <3>6. b[n - k][1] = x % Digit
        BY <1>6, <3>1, <3>3, <3>4
      <3>7. high[k + 1] = high[k] * Digit + b[n - k][1]
        BY <1>13, <3>1
      <3>8. high[k + 1] = x
        BY <3>5, <3>6, <3>7, Digits
      <3> QED
        BY <3>1, <3>2, <3>4, <3>8
    <2> HIDE DEF S
    <2>3. n \in Nat
      OBVIOUS
    <2>4. \A k \in 0 .. n : k \in S
      BY <2>1, <2>2, <2>3, InductTo
    <2> QED
      BY <2>4 DEF S
  <1>15. high[n] = rest[0]
    <2>1. n \in 0 .. n /\ n - n = 0
      OBVIOUS
    <2> QED
      BY <1>14, <2>1
  <1> QED
    BY <1>3, <1>4, <1>8, <1>15

-----------------------------------------------------------------------------
(* The tables of the schema *)

(* The endpoints of a type are registered, each under one id. *)
OneIdEach(eps, e) ==
    /\ eps \subseteq DOMAIN e
    /\ \A a, b \in eps : e[a] = e[b] => a = b

(* Types that go by the same name are equally reliable. *)
EquallyReliable(t) ==
    \A a, b \in DOMAIN t : t[a].name = t[b].name => t[a].reliable = t[b].reliable

(* No built-in type has an id that an old id becomes on the wire. *)
BuiltinsApart(t) ==
    \A ty \in DOMAIN t, w \in DOMAIN BuiltinType :
        t[ty].name = BuiltinType[w] => ty < Base \/ ty >= 2 * Base

(* Every built-in type is there, for endpoints that cannot be removed. *)
BuiltinsStay(t) ==
    \A w \in DOMAIN BuiltinType : \E ty \in DOMAIN t :
        t[ty].name = BuiltinType[w] /\ t[ty].eps \subseteq DOMAIN BuiltinEndpoint

(* The inductive invariant behind DecodesToWhatWasSent. *)
TablesOk(t, e) ==
    /\ DOMAIN t \subseteq 0 .. MaxId
    /\ DOMAIN e \subseteq Nat /\ IsFiniteSet(DOMAIN e)
    /\ \A ty \in DOMAIN t : OneIdEach(t[ty].eps, e)
    /\ EquallyReliable(t) /\ BuiltinsApart(t) /\ BuiltinsStay(t)

(* The compiled schema is in order. *)
LEMMA CompiledOk == TablesOk(InitialTypes, InitialEndpoints)
  BY CompiledAssumption DEF TablesOk, OneIdEach, EquallyReliable, BuiltinsApart, BuiltinsStay

(* An endpoint under a new id disturbs nothing, whatever its name. *)
LEMMA WithEndpointOk ==
  ASSUME NEW s, TablesOk(s.types, s.endpoints), NEW id \in Nat, id \notin DOMAIN s.endpoints,
         NEW name
  PROVE  TablesOk(WithEndpoint(s, id, name).types, WithEndpoint(s, id, name).endpoints)
  <1>1. PICK t : t = s.types
    OBVIOUS
  <1>2. PICK e : e = s.endpoints
    OBVIOUS
  <1>3. PICK f : f = Registered(e, id, name)
    OBVIOUS
  <1>4. DOMAIN f = DOMAIN e \cup {id} /\ \A x \in DOMAIN e : f[x] = e[x]
    BY <1>2, <1>3 DEF Registered
  <1>5. WithEndpoint(s, id, name).types = t /\ WithEndpoint(s, id, name).endpoints = f
    BY <1>1, <1>2, <1>3 DEF WithEndpoint
  <1>6. TablesOk(t, e)
    BY <1>1, <1>2
  <1>7. IsFiniteSet(DOMAIN f)
    BY <1>4, <1>6, FS_AddElement DEF TablesOk
  <1>8. \A ty \in DOMAIN t : OneIdEach(t[ty].eps, f)
    BY <1>4, <1>6 DEF TablesOk, OneIdEach
  <1>9. TablesOk(t, f)
    BY <1>4, <1>6, <1>7, <1>8 DEF TablesOk
  <1> QED
    BY <1>5, <1>9

(***************************************************************************)
(* A type that fits has a name of its own: not a built-in one, as those    *)
(* types are all there.                                                    *)
(***************************************************************************)
LEMMA WithTypeOk ==
  ASSUME NEW s, TablesOk(s.types, s.endpoints), NEW id \in Nat, NEW info,
         TypeFits(s, id, info), OneIdEach(info.eps, s.endpoints)
  PROVE  TablesOk(WithType(s, id, info).types, WithType(s, id, info).endpoints)
  <1>1. PICK t : t = s.types
    OBVIOUS
  <1>2. PICK e : e = s.endpoints
    OBVIOUS
  <1>3. PICK u : u = Registered(t, id, info)
    OBVIOUS
  <1>4. id \notin DOMAIN t /\ id <= MaxId /\ \A ty \in DOMAIN t : t[ty].name # info.name
    BY <1>1 DEF TypeFits
  <1>5. DOMAIN u = DOMAIN t \cup {id} /\ u[id] = info /\ \A x \in DOMAIN t : u[x] = t[x]
    BY <1>3, <1>4 DEF Registered
  <1>6. WithType(s, id, info).types = u /\ WithType(s, id, info).endpoints = e
    BY <1>1, <1>2, <1>3 DEF WithType
  <1>7. TablesOk(t, e) /\ OneIdEach(info.eps, e)
    BY <1>1, <1>2
  <1>8. \A w \in DOMAIN BuiltinType : info.name # BuiltinType[w]
    BY <1>4, <1>7 DEF TablesOk, BuiltinsStay
  <1>9. DOMAIN u \subseteq 0 .. MaxId
    <2>1. MaxId \in Nat
      BY IdsAssumption
    <2> QED
      BY <1>4, <1>5, <1>7, <2>1 DEF TablesOk
  <1>10. \A ty \in DOMAIN u : OneIdEach(u[ty].eps, e)
    BY <1>5, <1>7 DEF TablesOk
  <1>11. EquallyReliable(u)
    BY <1>4, <1>5, <1>7 DEF TablesOk, EquallyReliable
  <1>12. BuiltinsApart(u)
    BY <1>5, <1>7, <1>8 DEF TablesOk, BuiltinsApart
  <1>13. BuiltinsStay(u)
    BY <1>4, <1>5, <1>7 DEF TablesOk, BuiltinsStay
  <1>14. TablesOk(u, e)
    BY <1>7, <1>9, <1>10, <1>11, <1>12, <1>13 DEF TablesOk
  <1> QED
    BY <1>6, <1>14

(* Types that are not built in may be removed. *)
LEMMA FewerTypesOk ==
  ASSUME NEW t, NEW e, TablesOk(t, e), NEW S \in SUBSET DOMAIN t, BuiltinsStay(Restrict(t, S))
  PROVE  TablesOk(Restrict(t, S), e)
  <1>1. PICK u : u = Restrict(t, S)
    OBVIOUS
  <1>2. DOMAIN u = S /\ \A x \in S : u[x] = t[x]
    BY <1>1 DEF Restrict
  <1>3. DOMAIN u \subseteq 0 .. MaxId /\ \A ty \in DOMAIN u : OneIdEach(u[ty].eps, e)
    BY <1>2 DEF TablesOk
  <1>4. EquallyReliable(u) /\ BuiltinsApart(u)
    BY <1>2 DEF TablesOk, EquallyReliable, BuiltinsApart
  <1>5. TablesOk(u, e)
    BY <1>1, <1>3, <1>4 DEF TablesOk
  <1> QED
    BY <1>1, <1>5

(* An endpoint goes with its types; the built-in types have none that goes. *)
LEMMA WithoutEndpointOk ==
  ASSUME NEW s, TablesOk(s.types, s.endpoints), NEW id, id \notin DOMAIN BuiltinEndpoint
  PROVE  TablesOk(WithoutEndpoint(s, id).types, WithoutEndpoint(s, id).endpoints)
  <1>1. PICK t : t = s.types
    OBVIOUS
  <1>2. PICK e : e = s.endpoints
    OBVIOUS
  <1>3. TablesOk(t, e)
    BY <1>1, <1>2
  <1>4. PICK S : S = {ty \in DOMAIN t : id \notin t[ty].eps}
    OBVIOUS
  <1>5. PICK u : u = Restrict(t, S)
    OBVIOUS
  <1>6. PICK f : f = Restrict(e, DOMAIN e \ {id})
    OBVIOUS
  <1>7. WithoutEndpoint(s, id).types = u /\ WithoutEndpoint(s, id).endpoints = f
    BY <1>1, <1>2, <1>4, <1>5, <1>6 DEF WithoutEndpoint
  <1>8. DOMAIN u = S /\ \A x \in S : u[x] = t[x]
    BY <1>5 DEF Restrict
  <1>9. DOMAIN f = DOMAIN e \ {id} /\ \A x \in DOMAIN f : f[x] = e[x]
    BY <1>6 DEF Restrict
  <1>10. BuiltinsStay(u)
    BY <1>3, <1>4, <1>8 DEF TablesOk, BuiltinsStay
  <1>11. TablesOk(u, e)
    BY <1>3, <1>4, <1>5, <1>10, FewerTypesOk
  <1>12. IsFiniteSet(DOMAIN f)
    BY <1>9, <1>11, FS_RemoveElement DEF TablesOk
  <1>13. \A ty \in DOMAIN u : OneIdEach(u[ty].eps, f)
    <2> TAKE ty \in DOMAIN u
    <2>1. OneIdEach(u[ty].eps, e)
      BY <1>11 DEF TablesOk
    <2>2. id \notin u[ty].eps
      BY <1>4, <1>8
    <2>3. u[ty].eps \subseteq DOMAIN f
      BY <1>9, <2>1, <2>2 DEF OneIdEach
    <2> QED
      BY <1>9, <2>1, <2>3 DEF OneIdEach
  <1>14. TablesOk(u, f)
    BY <1>9, <1>11, <1>12, <1>13 DEF TablesOk
  <1> QED
    BY <1>7, <1>14

(* There is a free id among as many and one more from Base on. *)
LEMMA FirstFreeIs ==
  ASSUME NEW used, IsFiniteSet(used)
  PROVE  FirstFree(used) \in Nat
  <1>1. Base \in Nat
    BY IdsAssumption
  <1>2. PICK n \in Nat : n = Cardinality(used)
    BY FS_CardinalityType
  <1> DEFINE I == Base .. Base + n
             free == {i \in I : i \notin used}
  <1>3. IsFiniteSet(I) /\ Cardinality(I) = n + 1
    <2>1. Base + n \in Int /\ Base \in Int /\ ~(Base > Base + n) /\ (Base + n) - Base + 1 = n + 1
      BY <1>1
    <2> QED
      BY <2>1, FS_Interval
  <1>4. free # {}
    <2>1. SUFFICES ASSUME I \subseteq used PROVE FALSE
      OBVIOUS
    <2>2. Cardinality(I) <= Cardinality(used)
      <3> HIDE DEF I
      <3> QED
        BY <2>1, FS_Subset
    <2> QED
      BY <1>2, <1>3, <2>2
  <1>5. free \in SUBSET Nat
    BY <1>1
  <1>6. FirstFree(used) = Min(free)
    BY <1>2 DEF FirstFree
  <1> HIDE DEF free
  <1> QED
    BY <1>4, <1>5, <1>6, MinIs

(* A document that is being loaded: its endpoints go by the names they have. *)
LoadOk(l) ==
    /\ TablesOk(l.s.types, l.s.endpoints)
    /\ \A x \in DOMAIN l.ids : l.ids[x] \in DOMAIN l.s.endpoints /\ l.s.endpoints[l.ids[x]] = x

(* An endpoint of a document keeps it so, also when it does not fit. *)
LEMMA LoadEndpointOk ==
  ASSUME NEW l, LoadOk(l), NEW name
  PROVE  LoadOk(LoadEndpoint(l, name))
  <1>1. PICK s : s = l.s
    OBVIOUS
  <1>2. PICK ids : ids = l.ids
    OBVIOUS
  <1>3. PICK id : id = FirstFree(DOMAIN s.endpoints)
    OBVIOUS
  <1>4. /\ TablesOk(s.types, s.endpoints)
        /\ \A x \in DOMAIN ids : ids[x] \in DOMAIN s.endpoints /\ s.endpoints[ids[x]] = x
    BY <1>1, <1>2 DEF LoadOk
  <1>5. id \in Nat
    BY <1>3, <1>4, FirstFreeIs DEF TablesOk
  <1>6. CASE ~l.ok \/ ~EndpointFits(s, id, name)
    <2>1. LoadEndpoint(l, name) = [s |-> s, ok |-> FALSE, ids |-> ids]
      BY <1>1, <1>2, <1>3, <1>6 DEF LoadEndpoint
    <2> QED
      BY <1>4, <2>1 DEF LoadOk
  <1>7. CASE ~(~l.ok \/ ~EndpointFits(s, id, name))
    <2>1. PICK r : r = WithEndpoint(s, id, name)
      OBVIOUS
    <2>2. PICK j : j = Registered(ids, name, id)
      OBVIOUS
    <2>3. LoadEndpoint(l, name) = [s |-> r, ok |-> TRUE, ids |-> j]
      BY <1>1, <1>2, <1>3, <1>7, <2>1, <2>2 DEF LoadEndpoint
    <2>4. id \notin DOMAIN s.endpoints
      BY <1>7 DEF EndpointFits
    <2>5. TablesOk(r.types, r.endpoints)
      BY <1>4, <1>5, <2>1, <2>4, WithEndpointOk
    <2>6. /\ DOMAIN r.endpoints = DOMAIN s.endpoints \cup {id} /\ r.endpoints[id] = name
          /\ \A x \in DOMAIN s.endpoints : r.endpoints[x] = s.endpoints[x]
      BY <2>1, <2>4 DEF WithEndpoint, Registered
    <2>7. /\ DOMAIN j = DOMAIN ids \cup {name} /\ j[name] = id
          /\ \A x \in DOMAIN ids : x # name => j[x] = ids[x]
      BY <2>2 DEF Registered
    <2>8. \A x \in DOMAIN j : j[x] \in DOMAIN r.endpoints /\ r.endpoints[j[x]] = x
      BY <1>4, <2>6, <2>7
    <2> QED
      BY <2>3, <2>5, <2>8 DEF LoadOk
  <1> QED
    BY <1>6, <1>7

(* So does a type. *)
LEMMA LoadTypeOk ==
  ASSUME NEW l, LoadOk(l), NEW decl
  PROVE  LoadOk(LoadType(l, decl))
  <1>1. PICK s : s = l.s
    OBVIOUS
  <1>2. PICK ids : ids = l.ids
    OBVIOUS
  <1>3. PICK id : id = FirstFree(DOMAIN s.types)
    OBVIOUS
  <1>4. PICK info : info = [name |-> decl.name, reliable |-> decl.reliable,
                            eps |-> {ids[x] : x \in decl.eps \cap DOMAIN ids}]
    OBVIOUS
  <1>5. /\ TablesOk(s.types, s.endpoints)
        /\ \A x \in DOMAIN ids : ids[x] \in DOMAIN s.endpoints /\ s.endpoints[ids[x]] = x
    BY <1>1, <1>2 DEF LoadOk
  <1>6. id \in Nat
    <2>1. MaxId \in Int /\ 0 \in Int
      BY IdsAssumption
    <2>2. IsFiniteSet(0 .. MaxId)
      BY <2>1, FS_Interval
    <2>3. DOMAIN s.types \in SUBSET (0 .. MaxId)
      BY <1>5 DEF TablesOk
    <2>4. IsFiniteSet(DOMAIN s.types)
      BY <2>2, <2>3, FS_Subset
    <2> QED
      BY <1>3, <2>4, FirstFreeIs
  <1>7. CASE ~l.ok \/ info.eps = {} \/ ~TypeFits(s, id, info)
    <2>1. LoadType(l, decl) = [s |-> s, ok |-> FALSE, ids |-> ids]
      BY <1>1, <1>2, <1>3, <1>4, <1>7 DEF LoadType
    <2> QED
      BY <1>5, <2>1 DEF LoadOk
  <1>8. CASE ~(~l.ok \/ info.eps = {} \/ ~TypeFits(s, id, info))
    <2>1. PICK r : r = WithType(s, id, info)
      OBVIOUS
    <2>2. LoadType(l, decl) = [s |-> r, ok |-> TRUE, ids |-> ids]
      BY <1>1, <1>2, <1>3, <1>4, <1>8, <2>1 DEF LoadType
    <2>3. info.eps = {ids[x] : x \in decl.eps \cap DOMAIN ids}
      BY <1>4
    <2>4. OneIdEach(info.eps, s.endpoints)
      <3>1. \A a \in info.eps : \E x \in DOMAIN ids : a = ids[x]
        BY <2>3
      <3> QED
        BY <1>5, <3>1 DEF OneIdEach
    <2>5. TypeFits(s, id, info)
      BY <1>8
    <2>6. TablesOk(r.types, r.endpoints)
      BY <1>5, <1>6, <2>1, <2>4, <2>5, WithTypeOk
    <2>7. r.endpoints = s.endpoints
      BY <2>1 DEF WithType
    <2> QED
      BY <1>5, <2>2, <2>6, <2>7 DEF LoadOk
  <1> QED
    BY <1>7, <1>8

(* The loops over the declarations of a document, from a load l on. *)
EndpointLoop(f, l, decls, n) ==
    f = [k \in 0 .. n |-> IF k = 0 THEN l ELSE LoadEndpoint(f[k - 1], decls[k])]
TypeLoop(f, l, decls, n) ==
    f = [k \in 0 .. n |-> IF k = 0 THEN l ELSE LoadType(f[k - 1], decls[k])]

(* Both can be run. *)
LEMMA EndpointLoopExists ==
  ASSUME NEW l, NEW decls, NEW n \in Nat
  PROVE  \E f : EndpointLoop(f, l, decls, n)
  <1> DEFINE S == {m \in Nat : \E f : EndpointLoop(f, l, decls, m)}
  <1>1. 0 \in S
    <2> DEFINE f == [k \in 0 .. 0 |-> l]
    <2>1. \A k \in 0 .. 0 : k = 0
      OBVIOUS
    <2>2. EndpointLoop(f, l, decls, 0)
      BY <2>1 DEF EndpointLoop
    <2> QED
      BY <2>2
  <1>2. ASSUME NEW m \in S PROVE m + 1 \in S
    <2>1. PICK f : EndpointLoop(f, l, decls, m)
      OBVIOUS
    <2> DEFINE g == [k \in 0 .. m + 1 |-> IF k = m + 1 THEN LoadEndpoint(f[m], decls[m + 1]) ELSE f[k]]
    <2>2. \A k \in 0 .. m + 1 : g[k] = IF k = 0 THEN l ELSE LoadEndpoint(g[k - 1], decls[k])
      <3> TAKE k \in 0 .. m + 1
      <3>1. CASE k = m + 1
        <4>1. m \in 0 .. m + 1 /\ m # m + 1 /\ k # 0 /\ k - 1 = m
          BY <3>1
        <4> QED
          BY <3>1, <4>1
      <3>2. CASE k # m + 1 /\ k # 0
        <4>1. k \in 0 .. m /\ k - 1 \in 0 .. m + 1 /\ k - 1 # m + 1
          BY <3>2
        <4>2. g[k] = f[k] /\ g[k - 1] = f[k - 1]
          BY <3>2, <4>1
        <4>3. f[k] = LoadEndpoint(f[k - 1], decls[k])
          BY <2>1, <3>2, <4>1 DEF EndpointLoop
        <4> QED
          BY <3>2, <4>2, <4>3
      <3>3. CASE k = 0
        <4>1. k # m + 1 /\ k \in 0 .. m
          BY <3>3
        <4>2. f[k] = l
          BY <2>1, <3>3, <4>1 DEF EndpointLoop
        <4> QED
          BY <3>3, <4>1, <4>2
      <3> QED
        BY <3>1, <3>2, <3>3
    <2>3. EndpointLoop(g, l, decls, m + 1)
      BY <2>2 DEF EndpointLoop
    <2>4. m + 1 \in Nat
      OBVIOUS
    <2> HIDE DEF g
    <2> QED
      BY <2>3, <2>4
  <1>3. n \in S
    <2> HIDE DEF S
    <2>1. \A k \in 0 .. n : k \in S
      BY <1>1, <1>2, InductTo
    <2> QED
      BY <2>1
  <1> QED
    BY <1>3

(* The loop over the types. *)
LEMMA TypeLoopExists ==
  ASSUME NEW l, NEW decls, NEW n \in Nat
  PROVE  \E f : TypeLoop(f, l, decls, n)
  <1> DEFINE S == {m \in Nat : \E f : TypeLoop(f, l, decls, m)}
  <1>1. 0 \in S
    <2> DEFINE f == [k \in 0 .. 0 |-> l]
    <2>1. \A k \in 0 .. 0 : k = 0
      OBVIOUS
    <2>2. TypeLoop(f, l, decls, 0)
      BY <2>1 DEF TypeLoop
    <2> QED
      BY <2>2
  <1>2. ASSUME NEW m \in S PROVE m + 1 \in S
    <2>1. PICK f : TypeLoop(f, l, decls, m)
      OBVIOUS
    <2> DEFINE g == [k \in 0 .. m + 1 |-> IF k = m + 1 THEN LoadType(f[m], decls[m + 1]) ELSE f[k]]
    <2>2. \A k \in 0 .. m + 1 : g[k] = IF k = 0 THEN l ELSE LoadType(g[k - 1], decls[k])
      <3> TAKE k \in 0 .. m + 1
      <3>1. CASE k = m + 1
        <4>1. m \in 0 .. m + 1 /\ m # m + 1 /\ k # 0 /\ k - 1 = m
          BY <3>1
        <4> QED
          BY <3>1, <4>1
      <3>2. CASE k # m + 1 /\ k # 0
        <4>1. k \in 0 .. m /\ k - 1 \in 0 .. m + 1 /\ k - 1 # m + 1
          BY <3>2
        <4>2. g[k] = f[k] /\ g[k - 1] = f[k - 1]
          BY <3>2, <4>1
        <4>3. f[k] = LoadType(f[k - 1], decls[k])
          BY <2>1, <3>2, <4>1 DEF TypeLoop
        <4> QED
          BY <3>2, <4>2, <4>3
      <3>3. CASE k = 0
        <4>1. k # m + 1 /\ k \in 0 .. m
          BY <3>3
        <4>2. f[k] = l
          BY <2>1, <3>3, <4>1 DEF TypeLoop
        <4> QED
          BY <3>3, <4>1, <4>2
      <3> QED
        BY <3>1, <3>2, <3>3
    <2>3. TypeLoop(g, l, decls, m + 1)
      BY <2>2 DEF TypeLoop
    <2>4. m + 1 \in Nat
      OBVIOUS
    <2> HIDE DEF g
    <2> QED
      BY <2>3, <2>4
  <1>3. n \in S
    <2> HIDE DEF S
    <2>1. \A k \in 0 .. n : k \in S
      BY <1>1, <1>2, InductTo
    <2> QED
      BY <2>1
  <1> QED
    BY <1>3

(* And keep the tables in order. *)
LEMMA EndpointLoopOk ==
  ASSUME NEW l, LoadOk(l), NEW decls, NEW n \in Nat, NEW f, EndpointLoop(f, l, decls, n)
  PROVE  LoadOk(f[n])
  <1> DEFINE S == {k \in 0 .. n : LoadOk(f[k])}
  <1>1. \A k \in 0 .. n : f[k] = IF k = 0 THEN l ELSE LoadEndpoint(f[k - 1], decls[k])
    BY DEF EndpointLoop
  <1>2. 0 \in S
    BY <1>1
  <1>3. ASSUME NEW k \in 0 .. n, k \in S, k < n PROVE k + 1 \in S
    <2>1. k + 1 \in 0 .. n /\ k + 1 # 0 /\ (k + 1) - 1 = k
      BY <1>3
    <2>2. f[k + 1] = LoadEndpoint(f[k], decls[k + 1])
      BY <1>1, <2>1
    <2>3. LoadOk(f[k])
      BY <1>3
    <2> QED
      BY <2>1, <2>2, <2>3, LoadEndpointOk
  <1> HIDE DEF S
  <1>4. \A k \in 0 .. n : k \in S
    BY <1>2, <1>3, InductTo
  <1>5. n \in S
    BY <1>4
  <1> QED
    BY <1>5 DEF S

(* Likewise for the types. *)
LEMMA TypeLoopOk ==
  ASSUME NEW l, LoadOk(l), NEW decls, NEW n \in Nat, NEW f, TypeLoop(f, l, decls, n)
  PROVE  LoadOk(f[n])
  <1> DEFINE S == {k \in 0 .. n : LoadOk(f[k])}
  <1>1. \A k \in 0 .. n : f[k] = IF k = 0 THEN l ELSE LoadType(f[k - 1], decls[k])
    BY DEF TypeLoop
  <1>2. 0 \in S
    BY <1>1
  <1>3. ASSUME NEW k \in 0 .. n, k \in S, k < n PROVE k + 1 \in S
    <2>1. k + 1 \in 0 .. n /\ k + 1 # 0 /\ (k + 1) - 1 = k
      BY <1>3
    <2>2. f[k + 1] = LoadType(f[k], decls[k + 1])
      BY <1>1, <2>1
    <2>3. LoadOk(f[k])
      BY <1>3
    <2> QED
      BY <2>1, <2>2, <2>3, LoadTypeOk
  <1> HIDE DEF S
  <1>4. \A k \in 0 .. n : k \in S
    BY <1>2, <1>3, InductTo
  <1>5. n \in S
    BY <1>4
  <1> QED
    BY <1>5 DEF S

(* A document leaves the tables in order, loaded in part or as a whole. *)
LEMMA LoadedOk ==
  ASSUME NEW s, TablesOk(s.types, s.endpoints), NEW doc \in SchemaDocs
  PROVE  TablesOk(Loaded(s, doc).types, Loaded(s, doc).endpoints)
  <1>1. PICK n \in Nat : n = Len(doc.endpoints)
    BY IdsAssumption
  <1>2. PICK m \in Nat : m = Len(doc.types)
    BY IdsAssumption
  <1>3. PICK l : l = [s |-> s, ok |-> TRUE, ids |-> << >>]
    OBVIOUS
  <1>4. LoadOk(l)
    <2>1. l.s = s /\ l.ids = << >> /\ DOMAIN << >> = {}
      BY <1>3
    <2> QED
      BY <2>1 DEF LoadOk
  <1>5. PICK ds : ds = doc.endpoints
    OBVIOUS
  <1>6. PICK ts : ts = doc.types
    OBVIOUS
  <1> DEFINE eloop == CHOOSE f : f = [k \in 0 .. n |->
                          IF k = 0 THEN l ELSE LoadEndpoint(f[k - 1], ds[k])]
  <1>7. LoadedEndpoints(s, ds) = eloop[n]
    BY <1>1, <1>3, <1>5 DEF LoadedEndpoints
  <1>8. EndpointLoop(eloop, l, ds, n)
    <2>1. \E f : EndpointLoop(f, l, ds, n)
      BY EndpointLoopExists
    <2> QED
      BY <2>1 DEF EndpointLoop
  <1>9. PICK mid : mid = LoadedEndpoints(s, ds)
    OBVIOUS
  <1>10. LoadOk(mid)
    <2> HIDE DEF eloop
    <2> QED
      BY <1>4, <1>7, <1>8, <1>9, EndpointLoopOk
  <1> DEFINE tloop == CHOOSE f : f = [k \in 0 .. m |->
                          IF k = 0 THEN mid ELSE LoadType(f[k - 1], ts[k])]
  <1>11. Loaded(s, doc) = tloop[m].s
    BY <1>2, <1>5, <1>6, <1>9 DEF Loaded
  <1>12. TypeLoop(tloop, mid, ts, m)
    <2>1. \E f : TypeLoop(f, mid, ts, m)
      BY TypeLoopExists
    <2> QED
      BY <2>1 DEF TypeLoop
  <1>13. LoadOk(tloop[m])
    <2> HIDE DEF tloop
    <2> QED
      BY <1>10, <1>12, TypeLoopOk
  <1> HIDE DEF tloop
  <1> QED
    BY <1>11, <1>13 DEF LoadOk

(* c_api_type_id never turns an id that is free into another free one. *)
LEMMA CApiTypeIdIs ==
  ASSUME TablesOk(types, endpoints), NEW ty
  PROVE  CApiTypeId(ty) = ty \/ CApiTypeId(ty) \in DOMAIN types
  <1>1. CASE ValidType(ty) \/ ty \notin DOMAIN BuiltinType \/ TypesNamed(BuiltinType[ty]) = {}
    BY <1>1 DEF CApiTypeId
  <1>2. CASE ~(ValidType(ty) \/ ty \notin DOMAIN BuiltinType \/ TypesNamed(BuiltinType[ty]) = {})
    <2>1. PICK S : S = TypesNamed(BuiltinType[ty])
      OBVIOUS
    <2>2. CApiTypeId(ty) = Min(S) /\ S # {}
      BY <1>2, <2>1 DEF CApiTypeId
    <2>3. S \subseteq DOMAIN types /\ S \in SUBSET Nat
      BY <2>1 DEF TypesNamed, TablesOk
    <2> QED
      BY <2>2, <2>3, MinIs
  <1> QED
    BY <1>1, <1>2

(* What a call makes of the tables, it makes of types and endpoints. *)
LEMMA BecomesOk ==
  ASSUME NEW s, TablesOk(s.types, s.endpoints), Becomes(s)
  PROVE  TablesOk(types', endpoints')
  BY DEF Becomes

(* seds_endpoint_remove, by id or by name *)
LEMMA RemoveEndpointOk ==
  ASSUME TablesOk(types, endpoints), NEW id, RemoveEndpoint(id)
  PROVE  TablesOk(types', endpoints')
  <1>1. TablesOk(Tables.types, Tables.endpoints)
    BY DEF Tables
  <1>2. id \notin DOMAIN BuiltinEndpoint /\ Becomes(WithoutEndpoint(Tables, id))
    BY DEF RemoveEndpoint
  <1> QED
    BY <1>1, <1>2, WithoutEndpointOk, BecomesOk

(* seds_dtype_remove, by id or by name *)
LEMMA RemoveTypeOk ==
  ASSUME TablesOk(types, endpoints), NEW ty, RemoveType(ty)
  PROVE  TablesOk(types', endpoints')
  <1>1. PICK id : id = CApiTypeId(ty)
    OBVIOUS
  <1>2. /\ id \in DOMAIN types /\ types[id].name \notin Range(BuiltinType)
        /\ types' = Restrict(types, DOMAIN types \ {id}) /\ endpoints' = endpoints
    BY <1>1 DEF RemoveType, ValidType, IsInternalType
  <1>3. PICK S : S = DOMAIN types \ {id}
    OBVIOUS
  <1>4. DOMAIN types' = S /\ \A x \in S : types'[x] = types[x]
    BY <1>2, <1>3 DEF Restrict
  <1>5. \A w \in DOMAIN BuiltinType : types[id].name # BuiltinType[w]
    BY <1>2 DEF Range
  <1>6. BuiltinsStay(types')
    BY <1>3, <1>4, <1>5 DEF BuiltinsStay, TablesOk
  <1> QED
    BY <1>2, <1>3, <1>6, FewerTypesOk

(* Every call keeps the tables in order. *)
LEMMA TablesNext ==
  TablesOk(types, endpoints) /\ [SchemaNext]_schemaVars => TablesOk(types', endpoints')
  <1> SUFFICES ASSUME TablesOk(types, endpoints), [SchemaNext]_schemaVars
               PROVE  TablesOk(types', endpoints')
    OBVIOUS
  <1>1. TablesOk(Tables.types, Tables.endpoints)
    BY DEF Tables
  <1>2. Tables.types = types /\ Tables.endpoints = endpoints
    BY DEF Tables
  <1>3. ASSUME NEW id \in UserEndpointIds, NEW name \in UserEndpointNames, RegisterEndpoint(id, name)
        PROVE  TablesOk(types', endpoints')
    <2>1. id \in Nat /\ id \notin DOMAIN Tables.endpoints
      BY <1>3, IdsAssumption DEF RegisterEndpoint, EndpointFits
    <2>2. Becomes(WithEndpoint(Tables, id, name))
      BY <1>3 DEF RegisterEndpoint
    <2> QED
      BY <1>1, <2>1, <2>2, WithEndpointOk, BecomesOk
  <1>4. ASSUME NEW ty \in UserTypeIds, NEW name \in UserTypeNames, NEW ep \in DOMAIN endpoints,
               NEW reliable \in BOOLEAN,
               RegisterType(ty, [name |-> name, eps |-> {ep}, reliable |-> reliable])
        PROVE  TablesOk(types', endpoints')
    <2>1. PICK info : info = [name |-> name, eps |-> {ep}, reliable |-> reliable]
      OBVIOUS
    <2>2. PICK id : id = CApiTypeId(ty)
      OBVIOUS
    <2>3. TypeFits(Tables, id, info) /\ Becomes(WithType(Tables, id, info))
      BY <1>4, <2>1, <2>2 DEF RegisterType
    <2>4. id \notin DOMAIN types
      BY <1>2, <2>3 DEF TypeFits
    <2>5. id \in Nat
      BY <2>2, <2>4, CApiTypeIdIs, IdsAssumption
    <2>6. info.eps = {ep}
      BY <2>1
    <2>7. OneIdEach(info.eps, Tables.endpoints)
      BY <1>2, <2>6 DEF OneIdEach
    <2> QED
      BY <1>1, <2>3, <2>5, <2>7, WithTypeOk, BecomesOk
  <1>5. ASSUME NEW doc \in SchemaDocs, LoadSchema(doc)
        PROVE  TablesOk(types', endpoints')
    BY <1>1, <1>5, LoadedOk, BecomesOk DEF LoadSchema
  <1>6. ASSUME NEW id \in UserEndpointIds, NewRouter(id)
        PROVE  TablesOk(types', endpoints')
    <2>1. PICK name : name = "ENDPOINT_" \o ToString(id)
      OBVIOUS
    <2>2. Becomes(WithEndpoint(Tables, id, name))
      BY <1>6, <2>1 DEF NewRouter
    <2>3. id \in Nat /\ id \notin DOMAIN Tables.endpoints
      BY <1>2, <1>6, IdsAssumption DEF NewRouter, ValidEndpoint
    <2> QED
      BY <1>1, <2>2, <2>3, WithEndpointOk, BecomesOk
  <1>7. CASE UNCHANGED schemaVars
    BY <1>7 DEF schemaVars
  <1>8. \A id : RemoveEndpoint(id) => TablesOk(types', endpoints')
    BY RemoveEndpointOk
  <1>9. \A ty : RemoveType(ty) => TablesOk(types', endpoints')
    BY RemoveTypeOk
  <1> QED
    BY <1>3, <1>4, <1>5, <1>6, <1>7, <1>8, <1>9
       DEF SchemaNext, RemoveEndpointByName, RemoveTypeByName

-----------------------------------------------------------------------------
(* Frames *)

(* The wire id of a type fits into a frame. *)
LEMMA WireTypeIdIs ==
  ASSUME TablesOk(types, endpoints), NEW ty \in DOMAIN types
  PROVE  ReadUleb(Uleb(WireTypeId(ty))) = WireTypeId(ty)
  <1>1. /\ Base \in Nat /\ MaxId \in Nat /\ 2 * Base <= MaxId
        /\ DOMAIN BuiltinType \subseteq 0 .. Base - 1
    BY IdsAssumption
  <1>2. ty \in 0 .. MaxId
    BY DEF TablesOk
  <1>3. PICK fixed : fixed = {w \in DOMAIN BuiltinType : BuiltinType[w] = types[ty].name}
    OBVIOUS
  <1>4. WireTypeId(ty) = IF fixed # {} THEN Min(fixed) ELSE IF ty >= Base THEN ty ELSE Base + ty
    BY <1>3 DEF WireTypeId
  <1>5. fixed # {} => Min(fixed) \in 0 .. Base - 1
    <2>1. fixed \in SUBSET Nat /\ fixed \subseteq 0 .. Base - 1
      BY <1>1, <1>3
    <2> QED
      BY <2>1, MinIs
  <1>6. WireTypeId(ty) \in 0 .. MaxId
    BY <1>1, <1>2, <1>4, <1>5
  <1>7. MaxId < Power(MaxDigits)
    BY CodecAssumption
  <1>8. PICK p \in Nat : p = Power(MaxDigits)
    <2>1. MaxDigits \in Nat
      BY CodecAssumption
    <2>2. \E p : p \in [0 .. MaxDigits -> Nat] /\ p[MaxDigits] = Power(MaxDigits)
      BY <2>1, PowerIs
    <2> QED
      BY <2>1, <2>2
  <1>9. WireTypeId(ty) \in Nat /\ WireTypeId(ty) < Power(MaxDigits)
    BY <1>1, <1>6, <1>7, <1>8
  <1> QED
    BY <1>9, UlebRoundTrip

(***************************************************************************)
(* The receiver finds a type of the same name.  Where the new id that an   *)
(* old one becomes is another type's, the two collide.                     *)
(***************************************************************************)
LEMMA TypeDecodes ==
  ASSUME TablesOk(types, endpoints), ~Collide, NEW ty \in DOMAIN types
  PROVE  /\ LocalTypeId(WireTypeId(ty)) \in DOMAIN types
         /\ types[LocalTypeId(WireTypeId(ty))].name = types[ty].name
  <1>1. Base \in Nat /\ DOMAIN BuiltinType \subseteq 0 .. Base - 1
    BY IdsAssumption
  <1>2. ty \in Nat /\ DOMAIN types \in SUBSET Nat
    BY DEF TablesOk
  <1>3. PICK fixed : fixed = {w \in DOMAIN BuiltinType : BuiltinType[w] = types[ty].name}
    OBVIOUS
  <1>4. WireTypeId(ty) = IF fixed # {} THEN Min(fixed) ELSE IF ty >= Base THEN ty ELSE Base + ty
    BY <1>3 DEF WireTypeId
  <1>5. CASE fixed # {}
    <2>1. PICK w : w = Min(fixed)
      OBVIOUS
    <2>2. fixed \in SUBSET Nat
      BY <1>1, <1>3
    <2>3. w \in DOMAIN BuiltinType /\ BuiltinType[w] = types[ty].name
      BY <1>3, <1>5, <2>1, <2>2, MinIs
    <2>4. PICK S : S = TypesNamed(BuiltinType[w])
      OBVIOUS
    <2>5. ty \in S /\ S \in SUBSET Nat /\ \A x \in S : x \in DOMAIN types /\ types[x].name = types[ty].name
      BY <1>2, <2>3, <2>4 DEF TypesNamed
    <2>6. LocalTypeId(w) = Min(S)
      BY <2>3, <2>4, <2>5 DEF LocalTypeId
    <2>7. Min(S) \in S
      BY <2>5, MinIs
    <2> QED
      BY <1>4, <1>5, <2>1, <2>5, <2>6, <2>7
  <1>6. CASE fixed = {} /\ ty >= Base
    <2>1. WireTypeId(ty) = ty /\ ty \notin DOMAIN BuiltinType
      BY <1>1, <1>2, <1>4, <1>6
    <2>2. LocalTypeId(ty) = ty
      BY <1>6, <2>1 DEF LocalTypeId, ValidType
    <2> QED
      BY <2>1, <2>2
  <1>7. CASE fixed = {} /\ ~(ty >= Base)
    <2>1. PICK w \in Nat : w = Base + ty
      BY <1>1, <1>2
    <2>2. WireTypeId(ty) = w /\ w \notin DOMAIN BuiltinType /\ w >= Base /\ w < 2 * Base /\ w - Base = ty
      BY <1>1, <1>2, <1>4, <1>7, <2>1
    <2>3. CASE w \in DOMAIN types
      <3>1. LocalTypeId(w) = w
        BY <2>2, <2>3 DEF LocalTypeId, ValidType
      <3>2. \A b \in DOMAIN BuiltinType : types[w].name # BuiltinType[b]
        <4>1. ~(w < Base \/ w >= 2 * Base)
          BY <1>1, <2>1, <2>2
        <4> QED
          BY <2>3, <4>1 DEF TablesOk, BuiltinsApart
      <3>3. PICK none : none = {b \in DOMAIN BuiltinType : BuiltinType[b] = types[w].name}
        OBVIOUS
      <3>4. none = {}
        BY <3>2, <3>3
      <3>5. WireTypeId(w) = w
        BY <2>2, <3>3, <3>4 DEF WireTypeId
      <3>6. types[w].name = types[ty].name
        BY <2>2, <2>3, <3>5 DEF Collide
      <3> QED
        BY <2>2, <2>3, <3>1, <3>6
    <2>4. CASE w \notin DOMAIN types
      <3>1. LocalTypeId(w) = ty
        BY <2>2, <2>4 DEF LocalTypeId, ValidType
      <3> QED
        BY <2>2, <3>1
    <2> QED
      BY <2>3, <2>4
  <1> QED
    BY <1>5, <1>6, <1>7

(* The wire id of an endpoint names it, and it alone. *)
LEMMA EndpointDecodes ==
  ASSUME TablesOk(types, endpoints), NEW eps \in SUBSET DOMAIN endpoints,
         ~CollideEndpoints(eps), NEW ep \in eps
  PROVE  /\ WireEndpointId(ep) \in Nat
         /\ LocalEndpointIds(WireEndpointId(ep)) # {}
         /\ LocalEndpointIds(WireEndpointId(ep)) \subseteq DOMAIN endpoints
         /\ \A x \in LocalEndpointIds(WireEndpointId(ep)) : endpoints[x] = endpoints[ep]
  <1>1. Base \in Nat /\ \A x \in DOMAIN BuiltinEndpoint : x \in Nat /\ x >= 2 * Base
    BY IdsAssumption
  <1>2. ep \in DOMAIN endpoints /\ ep \in Nat /\ DOMAIN endpoints \in SUBSET Nat
    BY DEF TablesOk
  <1>3. PICK fixed : fixed = {w \in DOMAIN BuiltinEndpoint : BuiltinEndpoint[w] = endpoints[ep]}
    OBVIOUS
  <1>4. PICK w : w = WireEndpointId(ep)
    OBVIOUS
  <1>5. w = IF ep >= Base THEN ep ELSE IF fixed # {} THEN Min(fixed) ELSE Base + ep
    BY <1>3, <1>4 DEF WireEndpointId
  <1>6. ASSUME w \in DOMAIN endpoints, w >= Base
        PROVE  LocalEndpointIds(w) = {w} /\ endpoints[w] = endpoints[ep]
    <2>1. WireEndpointId(w) = w
      BY <1>6 DEF WireEndpointId
    <2>2. LocalEndpointIds(w) = {w}
      BY <1>6 DEF LocalEndpointIds, ValidEndpoint
    <2> QED
      BY <1>4, <1>6, <2>1, <2>2 DEF CollideEndpoints
  <1>7. CASE ep >= Base
    BY <1>2, <1>4, <1>5, <1>6, <1>7
  <1>8. CASE ~(ep >= Base) /\ fixed # {}
    <2>1. fixed \in SUBSET Nat
      BY <1>1, <1>3
    <2>2. w \in DOMAIN BuiltinEndpoint /\ BuiltinEndpoint[w] = endpoints[ep]
      BY <1>3, <1>5, <1>8, <2>1, MinIs
    <2>3. w \in Nat /\ w >= Base
      BY <1>1, <2>2
    <2>4. CASE w \in DOMAIN endpoints
      BY <1>4, <1>6, <2>3, <2>4
    <2>5. CASE w \notin DOMAIN endpoints
      <3>1. PICK S : S = EndpointsNamed(endpoints[ep])
        OBVIOUS
      <3>2. ep \in S /\ S \in SUBSET Nat /\ \A x \in S : x \in DOMAIN endpoints /\ endpoints[x] = endpoints[ep]
        BY <1>2, <3>1 DEF EndpointsNamed
      <3>3. LocalEndpointIds(w) = {x \in S : \A o \in S : x <= o}
        BY <2>2, <2>5, <3>1 DEF LocalEndpointIds, ValidEndpoint
      <3>4. Min(S) \in LocalEndpointIds(w)
        BY <3>2, <3>3, MinIs
      <3> QED
        BY <1>4, <2>3, <3>2, <3>3, <3>4
    <2> QED
      BY <2>4, <2>5
  <1>9. CASE ~(ep >= Base) /\ fixed = {}
    <2>1. w \in Nat /\ w >= Base /\ w - Base = ep /\ w \notin DOMAIN BuiltinEndpoint
      BY <1>1, <1>2, <1>5, <1>9
    <2>2. CASE w \in DOMAIN endpoints
      BY <1>4, <1>6, <2>1, <2>2
    <2>3. CASE w \notin DOMAIN endpoints
      <3>1. LocalEndpointIds(w) = {ep}
        BY <1>2, <2>1, <2>3 DEF LocalEndpointIds, ValidEndpoint
      <3> QED
        BY <1>2, <1>4, <2>1, <3>1
    <2> QED
      BY <2>2, <2>3
  <1> QED
    BY <1>7, <1>8, <1>9

(* No two endpoints of a packet share a bit. *)
LEMMA BitsApart ==
  ASSUME TablesOk(types, endpoints), NEW eps, OneIdEach(eps, endpoints), ~CollideEndpoints(eps)
  PROVE  /\ IsFiniteSet({WireEndpointId(ep) : ep \in eps})
         /\ Cardinality({WireEndpointId(ep) : ep \in eps}) = Cardinality(eps)
  <1>1. eps \in SUBSET DOMAIN endpoints /\ IsFiniteSet(DOMAIN endpoints)
    BY DEF OneIdEach, TablesOk
  <1>2. IsFiniteSet(eps)
    BY <1>1, FS_Subset
  <1>3. PICK wires : wires = {WireEndpointId(ep) : ep \in eps}
    OBVIOUS
  <1>4. PICK f : f = [ep \in eps |-> WireEndpointId(ep)]
    OBVIOUS
  <1>5. f \in [eps -> wires] /\ \A w \in wires : \E ep \in eps : f[ep] = w
    BY <1>3, <1>4
  <1>6. ASSUME NEW a \in eps, NEW b \in eps, f[a] = f[b] PROVE a = b
    <2>1. WireEndpointId(a) = WireEndpointId(b)
      BY <1>4, <1>6
    <2>2. endpoints[a] = endpoints[b]
      BY <1>1, <2>1 DEF CollideEndpoints
    <2> QED
      BY <2>2 DEF OneIdEach
  <1>7. f \in Surjection(eps, wires) /\ f \in Injection(eps, wires)
    BY <1>5, <1>6 DEF Surjection, Injection, IsInjective
  <1>8. IsFiniteSet(wires) /\ Cardinality(wires) = Cardinality(eps)
    BY <1>2, <1>7, FS_Surjection
  <1> QED
    BY <1>3, <1>8

(* The endpoints that a frame names: all that its bitmap holds. *)
Named(bitmap) == {w \in bitmap : LocalEndpointIds(w) # {}}

(* The bitmap names as many endpoints as the frame counts unless one is beyond it. *)
LEMMA BitmapCounts ==
  ASSUME TablesOk(types, endpoints), NEW eps, OneIdEach(eps, endpoints), ~CollideEndpoints(eps)
  PROVE  IF \E ep \in eps : WireEndpointId(ep) >= BitmapBits
         THEN Cardinality(Named(Bitmap(eps))) # Cardinality(eps)
         ELSE /\ Cardinality(Named(Bitmap(eps))) = Cardinality(eps)
              /\ EndpointNames(ParseBitmap(Bitmap(eps))) = EndpointNames(eps)
  <1>1. eps \in SUBSET DOMAIN endpoints
    BY DEF OneIdEach
  <1>2. PICK wires : wires = {WireEndpointId(ep) : ep \in eps}
    OBVIOUS
  <1>3. IsFiniteSet(wires) /\ Cardinality(wires) = Cardinality(eps)
    BY <1>2, BitsApart
  <1>4. PICK bits : bits = Bitmap(eps)
    OBVIOUS
  <1>5. BitmapBits \in Nat
    BY CodecAssumption
  <1>6. bits = {w \in wires : w \in 0 .. BitmapBits - 1}
    BY <1>2, <1>4 DEF Bitmap
  <1>7. \A ep \in eps : /\ WireEndpointId(ep) \in Nat
                        /\ LocalEndpointIds(WireEndpointId(ep)) # {}
                        /\ LocalEndpointIds(WireEndpointId(ep)) \subseteq DOMAIN endpoints
                        /\ \A x \in LocalEndpointIds(WireEndpointId(ep)) : endpoints[x] = endpoints[ep]
    BY <1>1, EndpointDecodes
  <1>8. Named(bits) = bits
    BY <1>2, <1>6, <1>7 DEF Named
  <1>9. CASE \E ep \in eps : WireEndpointId(ep) >= BitmapBits
    <2>1. bits \in SUBSET wires /\ bits # wires
      BY <1>2, <1>5, <1>6, <1>7, <1>9
    <2>2. Cardinality(wires) # Cardinality(bits)
      BY <1>3, <2>1, FS_Subset
    <2> QED
      BY <1>3, <1>4, <1>8, <1>9, <2>2
  <1>10. CASE ~(\E ep \in eps : WireEndpointId(ep) >= BitmapBits)
    <2>1. bits = wires
      BY <1>2, <1>5, <1>6, <1>7, <1>10
    <2>2. EndpointNames(ParseBitmap(bits)) = EndpointNames(eps)
      <3>1. ParseBitmap(bits) = UNION {LocalEndpointIds(w) : w \in wires}
        BY <2>1 DEF ParseBitmap
      <3>2. \A x \in ParseBitmap(bits) : \E ep \in eps : endpoints[x] = endpoints[ep]
        BY <1>2, <1>7, <3>1
      <3>3. \A ep \in eps : \E x \in ParseBitmap(bits) : endpoints[x] = endpoints[ep]
        <4> TAKE ep \in eps
        <4>1. WireEndpointId(ep) \in wires
          BY <1>2
        <4>2. PICK x \in LocalEndpointIds(WireEndpointId(ep)) : endpoints[x] = endpoints[ep]
          BY <1>7
        <4>3. x \in ParseBitmap(bits)
          BY <3>1, <4>1
        <4> QED
          BY <4>2, <4>3
      <3> QED
        BY <3>2, <3>3 DEF EndpointNames
    <2> QED
      BY <1>3, <1>4, <1>8, <1>10, <2>1, <2>2
  <1> QED
    BY <1>9, <1>10

(* A reliable header is read as it was written, compact or not. *)
LEMMA HeaderDecodes ==
  ASSUME NEW h \in Headers
  PROVE  ReadHeader(WriteHeader(h), Compacts(h)) = h /\ "AckOnly" \notin h.flags
  <1>1. PICK flags \in {{}, {"Unsequenced"}, {"Unordered"}}, seq \in Seqs, ack \in Seqs :
           h = [flags |-> flags, seq |-> seq, ack |-> ack]
    BY DEF Headers
  <1>2. h.flags = flags /\ h.seq = seq /\ h.ack = ack
    BY <1>1
  <1>3. "AckOnly" \notin flags /\ "Seq" \notin flags /\ "Ack" \notin flags
    OBVIOUS
  <1>4. ReadUleb(Uleb(seq)) = seq /\ ReadUleb(Uleb(ack)) = ack
    BY CodecAssumption, UlebRoundTrip
  <1>5. CASE ~Compacts(h)
    <2>1. WriteHeader(h) = [flags |-> flags, seq |-> << <<seq, FALSE>> >>, ack |-> << <<ack, FALSE>> >>]
      BY <1>2, <1>5 DEF WriteHeader
    <2>2. ReadHeader(WriteHeader(h), Compacts(h)) = [flags |-> flags, seq |-> seq, ack |-> ack]
      BY <1>5, <2>1 DEF ReadHeader
    <2> QED
      BY <1>1, <1>2, <1>3, <2>2
  <1>6. CASE Compacts(h)
    <2>1. SeqPresent(h)
      BY <1>2, <1>3 DEF SeqPresent
    <2>2. CASE ack # 0
      <3>1. AckPresent(h)
        BY <1>2, <2>2 DEF AckPresent
      <3>2. WriteHeader(h) = [flags |-> (flags \cup {"Seq"}) \cup {"Ack"}, seq |-> Uleb(seq), ack |-> Uleb(ack)]
        BY <1>2, <1>6, <2>1, <3>1 DEF WriteHeader
      <3>3. ((flags \cup {"Seq"}) \cup {"Ack"}) \ {"Seq", "Ack"} = flags
        BY <1>3
      <3>4. ReadHeader(WriteHeader(h), Compacts(h)) = [flags |-> flags, seq |-> seq, ack |-> ack]
        BY <1>4, <1>6, <3>2, <3>3 DEF ReadHeader
      <3> QED
        BY <1>1, <1>2, <1>3, <3>4
    <2>3. CASE ack = 0
      <3>1. ~AckPresent(h)
        BY <1>2, <1>3, <2>3 DEF AckPresent
      <3>2. WriteHeader(h) = [flags |-> (flags \cup {"Seq"}) \cup {}, seq |-> Uleb(seq), ack |-> << >>]
        BY <1>2, <1>6, <2>1, <3>1 DEF WriteHeader
      <3>3. ((flags \cup {"Seq"}) \cup {}) \ {"Seq", "Ack"} = flags
        BY <1>3
      <3>4. ReadHeader(WriteHeader(h), Compacts(h)) = [flags |-> flags, seq |-> seq, ack |-> 0]
        <4>1. PICK w : w = WriteHeader(h)
          OBVIOUS
        <4>2. w.flags = (flags \cup {"Seq"}) \cup {} /\ w.seq = Uleb(seq)
          BY <3>2, <4>1
        <4>3. "Seq" \in w.flags /\ "Ack" \notin w.flags /\ w.flags \ {"Seq", "Ack"} = flags
          BY <1>3, <3>3, <4>2
        <4> QED
          BY <1>4, <1>6, <4>1, <4>2, <4>3 DEF ReadHeader
      <3> QED
        BY <1>1, <1>2, <1>3, <2>3, <3>4
    <2> QED
      BY <2>2, <2>3
  <1> QED
    BY <1>5, <1>6

(* The type of a frame decides whether it has a reliable header. *)
LEMMA SameHeader ==
  ASSUME TablesOk(types, endpoints), NEW a \in DOMAIN types, NEW b \in DOMAIN types,
         types[a].name = types[b].name
  PROVE  HasReliableHeader(a) <=> HasReliableHeader(b)
  BY DEF TablesOk, EquallyReliable, HasReliableHeader

(* What peek_frame_info reads of a frame of a type. *)
LEMMA PeekIs ==
  ASSUME TablesOk(types, endpoints), ~Collide, NEW ty \in DOMAIN types, NEW frame,
         frame.type = Uleb(WireTypeId(ty)), "EndpointBitmap" \in frame.flags,
         Cardinality(Named(frame.bitmap)) = frame.nep
  PROVE  \E got \in DOMAIN types :
            /\ types[got].name = types[ty].name
            /\ PeekFrameInfo(frame) =
                  [ok |-> TRUE, ty |-> got, eps |-> ParseBitmap(frame.bitmap),
                   header |-> IF HasReliableHeader(ty)
                              THEN ReadHeader(frame.header, "CompactHeader" \in frame.flags)
                              ELSE NoHeader]
  <1>1. PICK got : got = LocalTypeId(WireTypeId(ty))
    OBVIOUS
  <1>2. got \in DOMAIN types /\ types[got].name = types[ty].name
    BY <1>1, TypeDecodes
  <1>3. LocalTypeId(ReadUleb(frame.type)) = got
    BY <1>1, WireTypeIdIs
  <1>4. HasReliableHeader(got) <=> HasReliableHeader(ty)
    BY <1>2, SameHeader
  <1>5. ValidType(got) /\ IsV4(frame.flags)
    BY <1>2 DEF ValidType, IsV4
  <1>6. Cardinality({w \in frame.bitmap : LocalEndpointIds(w) # {}}) = frame.nep
    BY DEF Named
  <1>7. PeekFrameInfo(frame) =
            [ok |-> TRUE, ty |-> got, eps |-> ParseBitmap(frame.bitmap),
             header |-> IF HasReliableHeader(got)
                        THEN ReadHeader(frame.header, "CompactHeader" \in frame.flags)
                        ELSE NoHeader]
    BY <1>3, <1>5, <1>6, Zenon DEF PeekFrameInfo
  <1>8. CASE HasReliableHeader(ty)
    BY <1>2, <1>4, <1>7, <1>8
  <1>9. CASE ~HasReliableHeader(ty)
    BY <1>2, <1>4, <1>7, <1>9
  <1> QED
    BY <1>8, <1>9

(* What DecodesToWhatWasSent says of a packet that was received. *)
ArrivesAs(got, ty, eps, h) ==
    IF \E ep \in eps : WireEndpointId(ep) >= BitmapBits THEN got = Rejected
    ELSE /\ got.ok
         /\ types[got.ty].name = types[ty].name
         /\ EndpointNames(got.eps) = EndpointNames(eps)
         /\ HasReliableHeader(ty) => got.header = h

(* A packet arrives as what was sent, or not at all. *)
LEMMA PacketDecodes ==
  ASSUME TablesOk(types, endpoints), ~Collide, NEW ty \in DOMAIN types,
         NEW eps, OneIdEach(eps, endpoints), ~CollideEndpoints(eps),
         Cardinality(eps) < CountLimit, NEW h \in Headers
  PROVE  ArrivesAs(Deserialize(Serialize(ty, eps, h)), ty, eps, h)
  <1>1. PICK frame : frame = Serialize(ty, eps, h)
    OBVIOUS
  <1>2. /\ frame.flags = {"EndpointBitmap"} \cup (IF Compacts(h) THEN {"CompactHeader"} ELSE {})
        /\ frame.nep = Cardinality(eps) /\ frame.type = Uleb(WireTypeId(ty))
        /\ frame.bitmap = Bitmap(eps)
        /\ frame.header = IF HasReliableHeader(ty) THEN WriteHeader(h) ELSE NoHeader
    <2>1. eps \in SUBSET DOMAIN endpoints /\ IsFiniteSet(DOMAIN endpoints)
      BY DEF OneIdEach, TablesOk
    <2>2. PICK n \in Nat : n = Cardinality(eps)
      BY <2>1, FS_Subset, FS_CardinalityType
    <2>3. CountLimit \in Nat /\ CountLimit # 0
      BY CodecAssumption
    <2>4. n % CountLimit = n
      BY <2>2, <2>3
    <2>5. Cardinality(eps) % CountLimit = Cardinality(eps)
      BY <2>2, <2>4, Zenon
    <2> QED
      BY <1>1, <2>5, Zenon DEF Serialize
  <1>3. "EndpointBitmap" \in frame.flags
    BY <1>2
  <1>4. CASE \E ep \in eps : WireEndpointId(ep) >= BitmapBits
    <2>1. Cardinality(Named(frame.bitmap)) # frame.nep
      BY <1>2, <1>4, BitmapCounts
    <2>2. PeekFrameInfo(frame) = Rejected
      BY <2>1, Zenon DEF PeekFrameInfo, Named
    <2>3. Rejected.ok = FALSE
      BY DEF Rejected
    <2>4. Deserialize(frame) = Rejected
      BY <2>2, <2>3 DEF Deserialize
    <2> QED
      BY <1>1, <1>4, <2>4 DEF ArrivesAs
  <1>5. CASE ~(\E ep \in eps : WireEndpointId(ep) >= BitmapBits)
    <2>1. /\ Cardinality(Named(frame.bitmap)) = frame.nep
          /\ EndpointNames(ParseBitmap(frame.bitmap)) = EndpointNames(eps)
      BY <1>2, <1>5, BitmapCounts
    <2>2. PICK got \in DOMAIN types :
            /\ types[got].name = types[ty].name
            /\ PeekFrameInfo(frame) =
                  [ok |-> TRUE, ty |-> got, eps |-> ParseBitmap(frame.bitmap),
                   header |-> IF HasReliableHeader(ty)
                              THEN ReadHeader(frame.header, "CompactHeader" \in frame.flags)
                              ELSE NoHeader]
      BY <1>2, <1>3, <2>1, PeekIs
    <2>3. PICK info : info = PeekFrameInfo(frame)
      OBVIOUS
    <2>4. PICK hd : hd = IF HasReliableHeader(ty)
                         THEN ReadHeader(frame.header, "CompactHeader" \in frame.flags)
                         ELSE NoHeader
      BY Zenon
    <2>5. /\ info = [ok |-> TRUE, ty |-> got, eps |-> ParseBitmap(frame.bitmap), header |-> hd]
          /\ info.ok = TRUE /\ info.ty = got /\ info.eps = ParseBitmap(frame.bitmap)
          /\ info.header = hd
      <3>1. info = [ok |-> TRUE, ty |-> got, eps |-> ParseBitmap(frame.bitmap), header |-> hd]
        BY <2>2, <2>3, <2>4, Zenon
      <3> QED
        BY <3>1
    <2>6. HasReliableHeader(ty) => info.header = h
      <3> HAVE HasReliableHeader(ty)
      <3>1. hd = ReadHeader(WriteHeader(h), "CompactHeader" \in frame.flags)
        BY <1>2, <2>4, Zenon
      <3>2. CASE Compacts(h)
        <4>1. "CompactHeader" \in frame.flags
          BY <1>2, <3>2
        <4>2. hd = ReadHeader(WriteHeader(h), Compacts(h))
          BY <3>1, <3>2, <4>1, Zenon DEF ReadHeader
        <4> QED
          BY <2>5, <4>2, HeaderDecodes
      <3>3. CASE ~Compacts(h)
        <4>1. "CompactHeader" \notin frame.flags
          BY <1>2, <3>3
        <4>2. hd = ReadHeader(WriteHeader(h), Compacts(h))
          BY <3>1, <3>3, <4>1, Zenon DEF ReadHeader
        <4> QED
          BY <2>5, <4>2, HeaderDecodes
      <3> QED
        BY <3>2, <3>3
    <2>7. "AckOnly" \notin info.header.flags
      <3>1. CASE HasReliableHeader(ty)
        BY <2>6, <3>1, HeaderDecodes
      <3>2. CASE ~HasReliableHeader(ty)
        <4>1. hd = NoHeader
          BY <2>4, <3>2, Zenon
        <4> QED
          BY <2>5, <4>1 DEF NoHeader
      <3> QED
        BY <3>1, <3>2
    <2>8. Deserialize(frame) = info
      BY <2>3, <2>5, <2>7 DEF Deserialize
    <2> QED
      BY <1>1, <1>5, <2>1, <2>2, <2>5, <2>6, <2>8 DEF ArrivesAs
  <1> QED
    BY <1>4, <1>5

(* An acknowledgement arrives as one. *)
LEMMA AckDecodes ==
  ASSUME TablesOk(types, endpoints), ~Collide, NEW ty \in DOMAIN types, HasReliableHeader(ty),
         NEW ack \in Seqs
  PROVE  /\ PeekFrameInfo(SerializeAck(ty, ack)).header.ack = ack
         /\ Deserialize(SerializeAck(ty, ack)) = Rejected
  <1>1. PICK frame : frame = SerializeAck(ty, ack)
    OBVIOUS
  <1>2. PICK h : h = [flags |-> {"AckOnly"}, seq |-> 0, ack |-> ack]
    OBVIOUS
  <1>3. /\ frame.flags = {"EndpointBitmap", "CompactHeader"} /\ frame.nep = 0
        /\ frame.type = Uleb(WireTypeId(ty)) /\ frame.bitmap = {}
        /\ frame.header = WriteHeader(h)
    BY <1>1, <1>2 DEF SerializeAck
  <1>4. Named(frame.bitmap) = {} /\ Cardinality({}) = 0
    BY <1>3, FS_EmptySet DEF Named
  <1>5. Cardinality(Named(frame.bitmap)) = frame.nep
    BY <1>3, <1>4
  <1>6. "EndpointBitmap" \in frame.flags /\ "CompactHeader" \in frame.flags
    BY <1>3
  <1>7. PICK got \in DOMAIN types :
            /\ types[got].name = types[ty].name
            /\ PeekFrameInfo(frame) =
                  [ok |-> TRUE, ty |-> got, eps |-> ParseBitmap(frame.bitmap),
                   header |-> IF HasReliableHeader(ty)
                              THEN ReadHeader(frame.header, "CompactHeader" \in frame.flags)
                              ELSE NoHeader]
    BY <1>3, <1>5, <1>6, PeekIs
  <1>8. PICK info : info = PeekFrameInfo(frame)
    OBVIOUS
  <1>9. info.header = ReadHeader(frame.header, TRUE)
    <2>1. PICK hd : hd = ReadHeader(frame.header, "CompactHeader" \in frame.flags)
      BY Zenon
    <2>2. info = [ok |-> TRUE, ty |-> got, eps |-> ParseBitmap(frame.bitmap), header |-> hd]
      BY <1>7, <1>8, <2>1, Zenon
    <2>3. info.header = hd
      BY <2>2
    <2>4. hd = ReadHeader(frame.header, TRUE)
      BY <1>6, <2>1, Zenon DEF ReadHeader
    <2> QED
      BY <2>3, <2>4
  <1>10. /\ h.flags = {"AckOnly"} /\ h.seq = 0 /\ h.ack = ack
         /\ Compacts(h) /\ AckPresent(h) /\ ~SeqPresent(h)
    BY <1>2 DEF Compacts, AckPresent, SeqPresent
  <1>11. PICK w : w = WriteHeader(h)
    OBVIOUS
  <1>12. w = [flags |-> ({"AckOnly"} \cup {}) \cup {"Ack"}, seq |-> << >>, ack |-> Uleb(ack)]
    BY <1>10, <1>11 DEF WriteHeader
  <1>13. w.flags = ({"AckOnly"} \cup {}) \cup {"Ack"} /\ w.ack = Uleb(ack)
    BY <1>12
  <1>14. "Ack" \in w.flags /\ "AckOnly" \in w.flags \ {"Seq", "Ack"}
    BY <1>13
  <1>15. ReadUleb(Uleb(ack)) = ack
    BY CodecAssumption, UlebRoundTrip
  <1>16. info.header.ack = ack /\ "AckOnly" \in info.header.flags
    BY <1>3, <1>9, <1>11, <1>13, <1>14, <1>15 DEF ReadHeader
  <1>17. Deserialize(frame) = Rejected
    BY <1>8, <1>16 DEF Deserialize
  <1> QED
    BY <1>1, <1>8, <1>16, <1>17

(* With its tables in order, a process is understood. *)
LEMMA TablesDecode ==
  ASSUME TablesOk(types, endpoints)
  PROVE  DecodesToWhatWasSent
  <1>1. ASSUME NEW ty \in DOMAIN types, NEW eps \in EndpointSets(ty)
        PROVE  OneIdEach(eps, endpoints)
    <2>1. PICK own : own = types[ty].eps
      OBVIOUS
    <2>2. OneIdEach(own, endpoints)
      BY <2>1 DEF TablesOk
    <2>3. \/ eps = own
          \/ \E x \in DOMAIN endpoints : endpoints[x] \notin EndpointNames(own) /\ eps = own \cup {x}
      BY <1>1, <2>1 DEF EndpointSets
    <2> QED
      BY <2>2, <2>3 DEF OneIdEach, EndpointNames
  <1>2. ASSUME NEW ty \in DOMAIN types
        PROVE  types[ty].eps \subseteq DOMAIN endpoints
    BY DEF TablesOk, OneIdEach
  <1>3. ASSUME NEW ty \in DOMAIN types, ~Collide, NEW eps \in EndpointSets(ty), NEW h \in Headers,
               ~CollideEndpoints(eps), Cardinality(eps) < CountLimit
        PROVE  ArrivesAs(Deserialize(Serialize(ty, eps, h)), ty, eps, h)
    BY <1>1, <1>3, PacketDecodes
  <1>4. ASSUME NEW ty \in DOMAIN types, ~Collide, HasReliableHeader(ty), NEW ack \in Seqs
        PROVE  /\ PeekFrameInfo(SerializeAck(ty, ack)).header.ack = ack
               /\ Deserialize(SerializeAck(ty, ack)) = Rejected
    BY <1>4, AckDecodes
  <1> QED
    BY <1>2, <1>3, <1>4, Zenon DEF DecodesToWhatWasSent, ArrivesAs

(* The tables of a schema are in order in every reachable state. *)
THEOREM TablesTheorem == SchemaSpec => []TablesOk(types, endpoints)
  <1>1. SchemaInit => TablesOk(types, endpoints)
    BY CompiledOk DEF SchemaInit
  <1>2. TablesOk(types, endpoints) /\ [SchemaNext]_schemaVars => TablesOk(types, endpoints)'
    BY TablesNext
  <1> QED
    BY <1>1, <1>2, PTL DEF SchemaSpec

(***************************************************************************)
(* However types and endpoints are registered, loaded and removed, a       *)
(* packet is decoded as what was sent, or rejected when an endpoint is     *)
(* beyond the bitmap, and an acknowledgement is never taken for a packet:  *)
(* for every compiled schema, all ids and names and all sequence numbers   *)
(* that fit into the bytes read_uleb128 reads.                             *)
(***************************************************************************)
THEOREM SchemaTheorem == ServicesSpec => []SchemaDecodes
  <1>1. ServicesInit => SchemaInit
    BY DEF ServicesInit
  <1>2. [ServicesNext]_serviceVars => [SchemaNext]_schemaVars
    BY DEF ServicesNext, serviceVars, schemaVars, Queues, Time, Civil, P2p, Variables, Schema,
           Ciphers, Hash
  <1>3. SchemaSpec => []TablesOk(types, endpoints)
    BY TablesTheorem
  <1>4. TablesOk(types, endpoints) => SchemaDecodes
    BY TablesDecode DEF SchemaDecodes
  <1> QED
    BY <1>1, <1>2, <1>3, <1>4, PTL DEF ServicesSpec, SchemaSpec
=============================================================================
