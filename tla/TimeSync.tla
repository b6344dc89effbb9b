------------------------------ MODULE TimeSync ------------------------------
(***************************************************************************)
(* The network time of one router: src/timesync.cpp and the time calls of  *)
(* src/router_api.cpp.  The router keeps an anchor (network time at a      *)
(* local time), the source it follows and what it last heard from every    *)
(* source.  The other routers are external: they have the true network     *)
(* time, now + Epoch, and what they send arrives up to MaxDelay later, in  *)
(* any order.                                                              *)
(***************************************************************************)
EXTENDS Integers, FiniteSets, FiniteSetsExt, Functions

CONSTANTS
    TimeSources,      \* names of the other routers that announce time
    TimePriority,     \* name -> announced priority, a lower value is better
    OwnPriority,
    Epoch,            \* true network time at local time 0
    InventedEpoch,    \* the 1'700'000'000'000 of seds_router_configure_timesync
    SourceTimeout, AnnounceInterval, RequestInterval,
    TimeConfigs,      \* the <<enabled, role>> pairs the application configures
    MaxDelay,         \* bound: how long a packet is on its way
    MaxNow,           \* bound: the local clock
    MaxTimeCalls      \* bound: calls that set, clear or configure

VARIABLES
    now,              \* now_ms()
    timesync,         \* TimeSyncRuntime
    requestedAt,      \* ghost: when the first request was sent, -1 when none was
    invented,         \* ghost: the anchor stems from InventedEpoch
    answer,           \* ghost: how far the last time answered was behind the truth
    timeCalls

timeVars == <<now, timesync, requestedAt, invented, answer, timeCalls>>

NoSource == ""
Worst    == 999       \* UINT64_MAX
Names    == TimeSources \cup {"local"}
Unheard  == [priority |-> 0, seen |-> 0, time |-> 0]  \* a new map entry

ASSUME TimeAssumption ==
    /\ TimePriority \in [TimeSources -> Nat] /\ OwnPriority \in Nat
    /\ {Epoch, InventedEpoch, MaxDelay} \subseteq Nat
    /\ TimeConfigs \subseteq BOOLEAN \X {0, 1, 2}

TimeInit ==
    /\ now = 0
    /\ timesync = [enabled |-> TRUE, role |-> 0, has |-> FALSE,
                   anchor_local |-> 0, anchor_unix |-> 0,
                   source |-> NoSource, priority |-> Worst, sources |-> << >>,
                   last_announce |-> 0, last_request |-> 0]
    /\ requestedAt = -1 /\ invented = FALSE /\ answer = 0 /\ timeCalls = 0

(* current_network_ms *)
NetworkTime(ts, at) == ts.anchor_unix + (at - ts.anchor_local)
TrueTime == now + Epoch
TimedOut(src) == now - src.seen > SourceTimeout

Anchored(ts, unix) ==
    [ts EXCEPT !.has = TRUE, !.anchor_local = now, !.anchor_unix = unix]

(* The source map with an entry for s *)
WithSource(sources, s, entry) ==
    [n \in DOMAIN sources \cup {s} |-> IF n = s THEN entry ELSE sources[n]]

-----------------------------------------------------------------------------
(* handle_timesync_packet *)

(***************************************************************************)
(* The condition under which an announcement is followed.  Its last        *)
(* disjunct indexes the source map with the current source, so that a      *)
(* source that is not in the map ("local", or one only discovery told of)  *)
(* is added to it as last seen at time 0.                                  *)
(***************************************************************************)
HandleAnnounce(s, delay) ==
    LET heard == [timesync EXCEPT !.sources =
                    WithSource(@, s, [priority |-> TimePriority[s], seen |-> now,
                                      time |-> TrueTime - delay])]
        looked == ~(~heard.has \/ TimePriority[s] < heard.priority
                    \/ heard.source = NoSource)
        known == IF looked /\ heard.source \notin DOMAIN heard.sources
                 THEN [heard EXCEPT !.sources = WithSource(@, heard.source, Unheard)] ELSE heard
        follow == ~looked \/ TimedOut(known.sources[known.source])
    IN  /\ delay <= now
        /\ timesync' = IF follow
                       THEN [Anchored(known, TrueTime - delay)
                               EXCEPT !.source = s, !.priority = TimePriority[s]]
                       ELSE known
        /\ invented' = (invented /\ ~follow)
        /\ UNCHANGED <<now, requestedAt, answer, timeCalls>>

(* A request of another router: only a source or an automatic role answers. *)
HandleRequest ==
    /\ timesync.enabled /\ timesync.role \in {1, 2} /\ timesync.has
    /\ answer' = IF invented THEN answer ELSE TrueTime - NetworkTime(timesync, now)
    /\ UNCHANGED <<now, timesync, requestedAt, invented, timeCalls>>

(* Mutant: the local half of the anchor is left as it was. *)
HandleResponseHalf(delay) ==
    /\ requestedAt # -1 /\ requestedAt <= now - delay
    /\ timesync' = [timesync EXCEPT !.has = TRUE, !.anchor_unix = TrueTime - delay]
    /\ invented' = FALSE
    /\ UNCHANGED <<now, requestedAt, answer, timeCalls>>

(* A response, also a late one and one from another source, sets the anchor. *)
HandleResponse(delay) ==
    /\ requestedAt # -1 /\ requestedAt <= now - delay
    /\ timesync' = Anchored(timesync, TrueTime - delay)
    /\ invented' = FALSE
    /\ UNCHANGED <<now, requestedAt, answer, timeCalls>>

-----------------------------------------------------------------------------
(* The calls of src/router_api.cpp and src/router.cpp *)

(* seds_router_configure_timesync: a source without a time makes one up. *)
Configure(enabled, role) ==
    /\ timeCalls < MaxTimeCalls /\ timeCalls' = timeCalls + 1
    /\ LET ts == [timesync EXCEPT !.enabled = enabled, !.role = role]
           invent == enabled /\ role = 1 /\ ~ts.has
       IN  /\ timesync' = IF invent THEN Anchored(ts, InventedEpoch + now) ELSE ts
           /\ invented' = (invented \/ invent)
    /\ UNCHANGED <<now, requestedAt, answer>>

(* set_network_time_from_fields, called with the true time *)
SetLocalTime ==
    /\ timeCalls < MaxTimeCalls /\ timeCalls' = timeCalls + 1
    /\ LET ts == Anchored(timesync, TrueTime)
       IN  timesync' = IF ts.source = NoSource
                       THEN [ts EXCEPT !.source = "local", !.priority = OwnPriority] ELSE ts
    /\ invented' = FALSE
    /\ UNCHANGED <<now, requestedAt, answer>>

(* Router::clear_local_network_time *)
ClearLocalTime ==
    /\ timeCalls < MaxTimeCalls /\ timeCalls' = timeCalls + 1
    /\ timesync' = [timesync EXCEPT !.has = FALSE, !.source = NoSource, !.priority = Worst]
    /\ invented' = FALSE
    /\ UNCHANGED <<now, requestedAt, answer>>

(* Router::clear_network_time_source *)
ClearTimeSource(s) ==
    /\ timeCalls < MaxTimeCalls /\ timeCalls' = timeCalls + 1
    /\ LET ts == [timesync EXCEPT !.sources = Restrict(@, DOMAIN @ \ {s})]
       IN  timesync' = IF ts.source = s
                       THEN [ts EXCEPT !.source = NoSource, !.priority = Worst] ELSE ts
    /\ UNCHANGED <<now, requestedAt, invented, answer>>

(* The live source get_network_time_ms fails over to: the first with the   *)
(* best priority and, among those, the latest announcement.                *)
IsBest(s, sources) ==
    /\ ~TimedOut(sources[s]) /\ sources[s].priority < Worst
    /\ \A o \in DOMAIN sources :
          \/ TimedOut(sources[o])
          \/ sources[s].priority < sources[o].priority
          \/ /\ sources[s].priority = sources[o].priority
             /\ sources[s].seen >= sources[o].seen

(* Mutant: the source's time is taken even when it is behind. *)
FailedOverBack(ts, s) ==
    LET candidate == ts.sources[s].time + (now - ts.sources[s].seen)
    IN  [Anchored(ts, candidate) EXCEPT !.source = s, !.priority = ts.sources[s].priority]

FailedOver(ts, s) ==
    LET candidate == ts.sources[s].time + (now - ts.sources[s].seen)
    IN  [Anchored(ts, Max({candidate, NetworkTime(ts, now)}))
           EXCEPT !.source = s, !.priority = ts.sources[s].priority]

(* seds_router_get_network_time_ms, which also switches sources *)
GetNetworkTime ==
    /\ timesync.has
    /\ LET silent == /\ timesync.source # NoSource
                     /\ timesync.source \in DOMAIN timesync.sources =>
                           TimedOut(timesync.sources[timesync.source])
           best == {s \in DOMAIN timesync.sources : IsBest(s, timesync.sources)}
       IN  \/ /\ silent
              /\ \E s \in best : timesync' = FailedOver(timesync, s)
           \/ /\ ~silent \/ best = {}
              /\ UNCHANGED timesync
    /\ UNCHANGED <<now, requestedAt, invented, answer, timeCalls>>

(***************************************************************************)
(* seds_router_poll_timesync: silent sources are dropped, then a source    *)
(* announces itself and a consumer asks.  `told' is the source discovery   *)
(* names for a consumer that has none, if any.                             *)
(***************************************************************************)
PollTimeSync(told) ==
    LET rest  == {s \in DOMAIN timesync.sources : ~TimedOut(timesync.sources[s])}
        gone  == timesync.source \in DOMAIN timesync.sources \ rest
        ts    == [timesync EXCEPT
                    !.sources = Restrict(@, rest),
                    !.source = IF gone THEN NoSource ELSE @,
                    !.priority = IF gone THEN Worst ELSE @]
        announce == /\ ts.role = 1 \/ (ts.role = 2 /\ rest = {})
                    /\ now >= ts.last_announce + AnnounceInterval
        ask      == ts.role = 0 /\ now >= ts.last_request + RequestInterval
        source   == IF ts.source = NoSource THEN told ELSE ts.source
    IN  /\ timesync.enabled
        /\ \/ announce /\ timesync' = [ts EXCEPT !.last_announce = now]
                       /\ UNCHANGED requestedAt
           \/ /\ ask /\ source # NoSource
              /\ timesync' = [ts EXCEPT !.source = source, !.last_request = now]
              /\ requestedAt' = IF requestedAt = -1 THEN now ELSE requestedAt
           \/ /\ ~announce /\ (ask => source = NoSource)
              /\ timesync' = ts /\ UNCHANGED requestedAt
        /\ UNCHANGED <<now, invented, answer, timeCalls>>

Pass ==
    /\ now < MaxNow /\ now' = now + 1
    /\ UNCHANGED <<timesync, requestedAt, invented, answer, timeCalls>>

TimeNext ==
    \/ \E d \in 0 .. MaxDelay : (\E s \in TimeSources : HandleAnnounce(s, d)) \/ HandleResponse(d)
    \/ HandleRequest
    \/ \E c \in TimeConfigs : Configure(c[1], c[2])
    \/ SetLocalTime \/ ClearLocalTime
    \/ \E s \in Names : ClearTimeSource(s)
    \/ GetNetworkTime
    \/ \E told \in TimeSources \cup {NoSource} : PollTimeSync(told)
    \/ Pass

TimeSpec == TimeInit /\ [][TimeNext]_timeVars

-----------------------------------------------------------------------------
(* Properties *)

(***************************************************************************)
(* However announcements, late responses, failovers and the application's  *)
(* own settings follow each other, a router with a time that was not made  *)
(* up is never ahead of the network and at most one packet delay behind,   *)
(* and so is every time it answers with.                                  *)
(***************************************************************************)
TimeWithinDelay ==
    /\ timesync.has /\ ~invented =>
          TrueTime - NetworkTime(timesync, now) \in 0 .. MaxDelay
    /\ answer \in 0 .. MaxDelay

(***************************************************************************)
(* Reading the time never moves it back, although the read may switch to   *)
(* another source: to one whose announcement was longer on its way, or to  *)
(* an entry of the source map that never announced anything.               *)
(***************************************************************************)
ReadNeverGoesBack ==
    [][GetNetworkTime => NetworkTime(timesync', now) >= NetworkTime(timesync, now)]_timeVars
=============================================================================
