--------------------------- MODULE EndToEndProofs ---------------------------
(***************************************************************************)
(* Proofs about EndToEnd for every set of packets and holders, every       *)
(* topology, every cap and every choice of faults.                         *)
(***************************************************************************)
EXTENDS EndToEnd, FiniteSetTheorems, TLAPS

-----------------------------------------------------------------------------
(* The order lists *)

(* No element of a list occurs twice. *)
Once(list) == \A i, j \in DOMAIN list : list[i] = list[j] => i = j

(* Removing an element of a list that holds it at most once leaves exactly *)
(* the others, each still once.                                            *)
LEMMA RemoveFirstOthers ==
  ASSUME NEW S, NEW list \in Seq(S), NEW p, Once(list)
  PROVE  /\ RemoveFirst(list, p) \in Seq(S)
         /\ Once(RemoveFirst(list, p))
         /\ \A i \in DOMAIN RemoveFirst(list, p) : RemoveFirst(list, p)[i] # p
  <1>1. CASE ~ \E i \in 1 .. Len(list) : list[i] = p
    <2>1. RemoveFirst(list, p) = list
      BY <1>1 DEF RemoveFirst
    <2> QED
      BY <2>1, <1>1
  <1>2. CASE \E i \in 1 .. Len(list) : list[i] = p
    <2> DEFINE k == SelectInSeq(list, LAMBDA v : v = p)
    <2>1. PICK i \in 1 .. Len(list) : list[i] = p
      BY <1>2
    <2>2. {j \in 1 .. Len(list) : list[j] = p} = {i}
      BY <2>1 DEF Once
    <2>3. k = i
      BY <2>2 DEF SelectInSeq, Min
    <2> DEFINE before == SubSeq(list, 1, i - 1)
               after  == SubSeq(list, i + 1, Len(list))
               new    == before \o after
    <2>4. RemoveFirst(list, p) = new
      BY <1>2, <2>3 DEF RemoveFirst, RemoveAt
    <2>a. /\ before \in Seq(S) /\ Len(before) = i - 1
          /\ \A j \in 1 .. i - 1 : before[j] = list[j]
      OBVIOUS
    <2>b. /\ after \in Seq(S) /\ Len(after) = Len(list) - i
          /\ \A j \in 1 .. Len(list) - i : after[j] = list[j + i]
      OBVIOUS
    <2> HIDE DEF before, after
    <2>5. new \in Seq(S) /\ Len(new) = Len(list) - 1
      BY <2>a, <2>b
    <2>6. \A j \in 1 .. Len(list) - 1 : new[j] = IF j < i THEN list[j] ELSE list[j + 1]
      BY <2>a, <2>b
    <2> HIDE DEF new
    <2>7. DOMAIN new = 1 .. Len(list) - 1
      BY <2>5
    <2>8. Once(new)
      BY <2>6, <2>7 DEF Once
    <2>9. \A j \in DOMAIN new : new[j] # p
      BY <2>1, <2>6, <2>7 DEF Once
    <2> QED
      BY <2>4, <2>5, <2>8, <2>9 DEF new
  <1> QED
    BY <1>1, <1>2

(***************************************************************************)
(* Remember keeps a list within its cap, with every packet once and with   *)
(* the remembered packet in it.                                            *)
(***************************************************************************)
LEMMA RememberBounds ==
  ASSUME NEW list \in Seq(Packets), NEW p \in Packets, NEW cap \in Nat \ {0},
         Once(list)
  PROVE  /\ Remember(list, p, cap) \in Seq(Packets)
         /\ Once(Remember(list, p, cap))
         /\ Len(Remember(list, p, cap)) <= cap
         /\ p \in Range(Remember(list, p, cap))
  <1> DEFINE others == RemoveFirst(list, p)
             excess == IF Len(others) >= cap THEN Len(others) - cap + 1 ELSE 0
             rest   == SubSeq(others, excess + 1, Len(others))
  <1>1. /\ others \in Seq(Packets) /\ Once(others)
        /\ \A i \in DOMAIN others : others[i] # p
    BY RemoveFirstOthers
  <1>2. Remember(list, p, cap) = Append(rest, p)
    BY DEF Remember
  <1> HIDE DEF others
  <1>3. excess \in 0 .. Len(others) /\ Len(others) - excess <= cap - 1
    BY <1>1
  <1> HIDE DEF excess
  <1>4. /\ rest \in Seq(Packets) /\ Len(rest) = Len(others) - excess
        /\ \A i \in 1 .. Len(rest) : rest[i] = others[i + excess] /\ i + excess \in DOMAIN others
    BY <1>1, <1>3
  <1> HIDE DEF rest
  <1>5. Once(rest) /\ \A i \in DOMAIN rest : rest[i] # p
    <2>1. DOMAIN rest = 1 .. Len(rest) /\ excess \in Int
      BY <1>3, <1>4
    <2>2. \A i \in DOMAIN rest : rest[i] # p
      BY <2>1, <1>1, <1>4
    <2>3. ASSUME NEW i \in DOMAIN rest, NEW j \in DOMAIN rest, rest[i] = rest[j]
          PROVE  i = j
      <3>1. i + excess = j + excess
        BY <2>1, <2>3, <1>1, <1>4 DEF Once
      <3> QED
        BY <2>1, <3>1
    <2> QED
      BY <2>2, <2>3 DEF Once
  <1>6. Append(rest, p) \in Seq(Packets) /\ Len(Append(rest, p)) = Len(rest) + 1
    BY <1>4
  <1>7. \A i \in 1 .. Len(rest) + 1 : Append(rest, p)[i] = IF i <= Len(rest) THEN rest[i] ELSE p
    BY <1>4
  <1>8. Once(Append(rest, p))
    BY <1>4, <1>5, <1>6, <1>7 DEF Once
  <1>9. p \in Range(Append(rest, p))
    BY <1>4, <1>6, <1>7 DEF Range
  <1> QED
    BY <1>2, <1>3, <1>4, <1>6, <1>8, <1>9

-----------------------------------------------------------------------------
(* The inductive invariants *)

Entries == [pending : SUBSET Holders, retries : Nat]

(* The types of the source's state and of what is under way. *)
TypeOK ==
    /\ anonymous \subseteq Holders /\ known \subseteq Holders
    /\ sent \subseteq Packets /\ requeued \subseteq Packets
    /\ data \subseteq Packets /\ relay_q \subseteq Packets
    /\ tracked \in [DOMAIN tracked -> Entries] /\ DOMAIN tracked \subseteq Packets
    /\ acked \in [DOMAIN acked -> SUBSET Holders] /\ DOMAIN acked \subseteq Packets
    /\ delivered \in [Holders -> SUBSET Packets]
    /\ owed \in [Packets -> SUBSET Holders]
    /\ fanned \subseteq Packets \X Holders
    /\ acks \subseteq Packets \X Holders
    /\ returned \subseteq Packets \X Holders
    /\ routes \subseteq Packets

(* The order lists hold packets, each once. *)
OrderOK ==
    /\ order \in Seq(Packets) /\ Once(order)
    /\ route_order \in Seq(Packets) /\ Once(route_order)
    /\ ack_order \in Seq(Packets) /\ Once(ack_order)

(* The inductive invariant behind CachesAreBounded. *)
CacheInv == TypeOK /\ OrderOK /\ CachesAreBounded

(***************************************************************************)
(* What an ACK says is true wherever it is: on its way to the relay, in    *)
(* the relay's cache, on its way to the source.                            *)
(***************************************************************************)
AcksAreTrue ==
    /\ \A m \in acks \cup returned : m[1] \in delivered[m[2]]
    /\ \A p \in DOMAIN acked : \A h \in acked[p] : p \in delivered[h]

(* Only packets the application has logged are tracked, sent again or owed. *)
OnlySentIsOwed ==
    /\ DOMAIN tracked \cup requeued \subseteq sent
    /\ \A p \in Packets \ sent : owed[p] = {}

(* The inductive invariant behind SettledIsDelivered. *)
SettleInv == TypeOK /\ AcksAreTrue /\ OnlySentIsOwed /\ SettledIsDelivered

-----------------------------------------------------------------------------
(* Type correctness *)

LEMMA TypeInit == Init => TypeOK
  BY TopologyAssumption DEF Init, TypeOK, Nothing, Entries

(* Tracking a packet gives it an entry and owes it to known holders only. *)
LEMMA TrackType ==
  ASSUME TypeOK, NEW p \in Packets, Track(p)
  PROVE  /\ tracked' \in [DOMAIN tracked' -> Entries]
         /\ DOMAIN tracked' \subseteq DOMAIN tracked \cup {p}
         /\ owed' \in [Packets -> SUBSET Holders]
         /\ \A q \in Packets \ {p} : owed'[q] = owed[q]
  <1>1. CASE known = {}
    BY <1>1 DEF Track, TypeOK
  <1>2. CASE known # {}
    <2> DEFINE evicted == Dropped(order, p, MaxE2E)
    <2>1. PICK X \in Expected :
              /\ tracked' = [q \in (DOMAIN tracked \ evicted) \cup {p} |->
                                IF q = p THEN [pending |-> X, retries |-> 0]
                                ELSE tracked[q]]
              /\ owed' = [owed EXCEPT ![p] = (@ \cap known) \cup X]
      BY <1>2 DEF Track
    <2>2. X \in SUBSET Holders
      BY DEF Expected, TypeOK
    <2>3. [pending |-> X, retries |-> 0] \in Entries
      BY <2>2 DEF Entries
    <2> HIDE DEF evicted
    <2>4. DOMAIN tracked' = (DOMAIN tracked \ evicted) \cup {p}
      BY <2>1
    <2>5. \A q \in DOMAIN tracked' : tracked'[q] \in Entries
      BY <2>1, <2>3 DEF TypeOK
    <2>6. tracked' \in [DOMAIN tracked' -> Entries]
      BY <2>1, <2>3 DEF TypeOK
    <2> QED
      BY <2>1, <2>2, <2>4, <2>6 DEF TypeOK
  <1> QED
    BY <1>1, <1>2

(* Every step keeps the state type correct. *)
LEMMA TypeNext == TypeOK /\ [Next]_vars => TypeOK'
  <1> SUFFICES ASSUME TypeOK, [Next]_vars
               PROVE  TypeOK'
    OBVIOUS
  <1> USE DEF TypeOK, sourceVars, relayVars, netVars
  <1>1. ASSUME NEW p \in Packets, Log(p)
        PROVE  TypeOK'
    BY <1>1, TrackType DEF Log
  <1>2. ASSUME NEW p \in Packets, TransmitRetry(p)
        PROVE  TypeOK'
    BY <1>2, TrackType DEF TransmitRetry
  <1>3. ASSUME NEW p \in Packets, EvictRetry(p)
        PROVE  TypeOK'
    BY <1>3 DEF EvictRetry
  <1>4. ASSUME NEW p \in Packets, RelayRx(p)
        PROVE  TypeOK'
    <2>1. data' \subseteq data
      BY <1>4 DEF RelayRx, Taken
    <2> QED
      BY <1>4, <2>1 DEF RelayRx
  <1>5. ASSUME NEW p \in Packets, RelayTx(p)
        PROVE  TypeOK'
    BY <1>5 DEF RelayTx
  <1>6. ASSUME NEW due \in SUBSET DOMAIN tracked, Timeouts(due)
        PROVE  TypeOK'
    <2> DEFINE kept  == {q \in DOMAIN tracked : Reconciled(q) # {}}
               spent == {q \in due : tracked[q].retries >= MaxRetries}
               Retried(q) == [pending |-> Reconciled(q),
                              retries |-> IF q \in due THEN tracked[q].retries + 1
                                                       ELSE tracked[q].retries]
    <2>1. tracked' = [q \in kept \ spent |-> Retried(q)]
      BY <1>6 DEF Timeouts
    <2>2. ASSUME NEW q \in DOMAIN tracked
          PROVE  Retried(q) \in Entries
      <3>1. tracked[q] \in Entries
        OBVIOUS
      <3>2. tracked[q].pending \subseteq Holders /\ tracked[q].retries \in Nat
        BY <3>1 DEF Entries
      <3> QED
        BY <3>2 DEF Reconciled, Entries
    <2>3. kept \ spent \subseteq DOMAIN tracked
      OBVIOUS
    <2> HIDE DEF Retried
    <2>4. tracked' \in [DOMAIN tracked' -> Entries] /\ DOMAIN tracked' \subseteq Packets
      BY <2>1, <2>2, <2>3
    <2>5. owed' \in [Packets -> SUBSET Holders]
      BY <1>6 DEF Timeouts
    <2> QED
      BY <1>6, <2>4, <2>5 DEF Timeouts
  <1>7. ASSUME NEW p \in Packets, NEW h \in Holders, HolderRx(p, h)
        PROVE  TypeOK'
    <2>1. fanned' \subseteq fanned
      BY <1>7 DEF HolderRx, Taken
    <2> QED
      BY <1>7, <2>1 DEF HolderRx
  <1>8. ASSUME NEW p \in Packets, NEW h \in Holders, RelayAck(p, h)
        PROVE  TypeOK'
    <2>1. acked' \in [DOMAIN acked' -> SUBSET Holders] /\ DOMAIN acked' \subseteq Packets
      <3>1. CASE h \in anonymous
        BY <1>8, <3>1 DEF RelayAck
      <3>2. CASE h \notin anonymous
        <4> DEFINE rest == DOMAIN acked \ Dropped(ack_order, p, MaxAckCache)
                   old  == IF p \in rest THEN acked[p] ELSE {}
                   new  == IF Cardinality(old) < MaxE2E THEN old \cup {h} ELSE old
        <4>1. acked' = [q \in rest \cup {p} |-> IF q = p THEN new ELSE acked[q]]
          BY <1>8, <3>2 DEF RelayAck
        <4>2. rest \subseteq DOMAIN acked
          OBVIOUS
        <4> HIDE DEF rest
        <4>3. new \subseteq Holders
          BY <4>2
        <4> HIDE DEF new
        <4> QED
          BY <4>1, <4>2, <4>3
      <3> QED
        BY <3>1, <3>2
    <2> QED
      BY <1>8, <2>1 DEF RelayAck
  <1>9. ASSUME NEW p \in Packets, NEW h \in Holders, SourceAck(p, h)
        PROVE  TypeOK'
    <2> DEFINE left == IF h \in anonymous THEN {} ELSE Pending(p) \ {h}
               rest == DOMAIN tracked \ {r \in {p} : left = {}}
    <2>1. tracked' = [q \in rest |-> IF q = p THEN [tracked[p] EXCEPT !.pending = left]
                                     ELSE tracked[q]]
      BY <1>9 DEF SourceAck, Settle
    <2>2. left \subseteq Holders
      BY DEF Pending, Entries
    <2>3. rest \subseteq DOMAIN tracked
      OBVIOUS
    <2> HIDE DEF left, rest
    <2>4. p \in rest => [tracked[p] EXCEPT !.pending = left] \in Entries
      BY <2>2, <2>3 DEF Entries
    <2>5. tracked' \in [DOMAIN tracked' -> Entries] /\ DOMAIN tracked' \subseteq Packets
      BY <2>1, <2>3, <2>4
    <2> QED
      BY <1>9, <2>5 DEF SourceAck, Settle
  <1>10. CASE Lose
    BY <1>10 DEF Lose
  <1>11. ASSUME NEW h \in Holders, DiscoveryChanges(h)
         PROVE  TypeOK'
    BY <1>11 DEF DiscoveryChanges
  <1>12. CASE UNCHANGED vars
    BY <1>12 DEF vars
  <1> QED
    BY <1>1, <1>2, <1>3, <1>4, <1>5, <1>6, <1>7, <1>8, <1>9, <1>10, <1>11,
       <1>12 DEF Next

-----------------------------------------------------------------------------
(* The caches are bounded *)

LEMMA CacheInit == Init => CacheInv
  <1> SUFFICES ASSUME Init
               PROVE  CacheInv
    OBVIOUS
  <1>1. Once(<< >>) /\ << >> \in Seq(Packets) /\ Len(<< >>) = 0
    BY DEF Once
  <1>2. OrderOK
    BY <1>1 DEF Init, OrderOK
  <1>3. CachesAreBounded
    BY <1>1, CapAssumption DEF Init, Nothing, CachesAreBounded
  <1> QED
    BY <1>2, <1>3, TypeInit DEF CacheInv

(***************************************************************************)
(* Remembering keeps a cache inside its order list: an entry outside the   *)
(* new list was dropped, and the caller erases what was dropped.           *)
(***************************************************************************)
LEMMA RememberCovers ==
  ASSUME NEW list, NEW p, NEW cap, NEW entries, entries \subseteq Range(list),
         p \in Range(Remember(list, p, cap))
  PROVE  (entries \ Dropped(list, p, cap)) \cup {p} \subseteq Range(Remember(list, p, cap))
  BY DEF Dropped

(* A transmission keeps the source's cache inside its list and its cap. *)
LEMMA TrackCache ==
  ASSUME CacheInv, NEW p \in Packets, Track(p)
  PROVE  /\ order' \in Seq(Packets) /\ Once(order')
         /\ DOMAIN tracked' \subseteq Range(order') /\ Len(order') <= MaxE2E
  <1>1. CASE known = {}
    BY <1>1 DEF Track, CacheInv, OrderOK, CachesAreBounded
  <1>2. CASE known # {}
    <2> DEFINE evicted == Dropped(order, p, MaxE2E)
    <2>1. order' = Remember(order, p, MaxE2E)
      BY <1>2 DEF Track
    <2>2. DOMAIN tracked' = (DOMAIN tracked \ evicted) \cup {p}
      BY <1>2 DEF Track
    <2>3. MaxE2E \in Nat \ {0}
      BY CapAssumption
    <2>4. /\ order' \in Seq(Packets) /\ Once(order')
          /\ Len(order') <= MaxE2E /\ p \in Range(order')
      BY <2>1, <2>3, RememberBounds DEF CacheInv, OrderOK
    <2>5. DOMAIN tracked' \subseteq Range(order')
      BY <2>1, <2>2, <2>4, RememberCovers DEF CacheInv, CachesAreBounded
    <2> QED
      BY <2>4, <2>5
  <1> QED
    BY <1>1, <1>2

(* Every step keeps the three caches inside their lists and their caps. *)
LEMMA CacheNext == CacheInv /\ [Next]_vars => CacheInv'
  <1> SUFFICES ASSUME CacheInv, [Next]_vars
               PROVE  CacheInv'
    OBVIOUS
  <1>0. TypeOK'
    BY TypeNext DEF CacheInv
  <1> SUFFICES OrderOK' /\ CachesAreBounded'
    BY <1>0 DEF CacheInv
  <1> USE DEF sourceVars, relayVars, netVars
  <1>a. OrderOK /\ CachesAreBounded
    BY DEF CacheInv
  <1>b. ASSUME UNCHANGED <<order, route_order, ack_order>>, routes' = routes, acked' = acked,
               DOMAIN tracked' \subseteq DOMAIN tracked
        PROVE  OrderOK' /\ CachesAreBounded'
    BY <1>a, <1>b DEF OrderOK, CachesAreBounded
  <1>c. ASSUME NEW p \in Packets, Track(p), UNCHANGED relayVars
        PROVE  OrderOK' /\ CachesAreBounded'
    BY <1>a, <1>c, TrackCache DEF OrderOK, CachesAreBounded
  <1>1. ASSUME NEW p \in Packets, Log(p) \/ TransmitRetry(p)
        PROVE  OrderOK' /\ CachesAreBounded'
    BY <1>1, <1>c DEF Log, TransmitRetry
  <1>2. ASSUME NEW p \in Packets, EvictRetry(p) \/ RelayTx(p)
        PROVE  OrderOK' /\ CachesAreBounded'
    BY <1>2, <1>b DEF EvictRetry, RelayTx
  <1>3. ASSUME NEW p \in Packets, RelayRx(p)
        PROVE  OrderOK' /\ CachesAreBounded'
    <2>1. /\ route_order' = Remember(route_order, p, MaxRoutes)
          /\ routes' = (routes \ Dropped(route_order, p, MaxRoutes)) \cup {p}
          /\ UNCHANGED <<order, tracked, acked, ack_order>>
      BY <1>3 DEF RelayRx
    <2>2. /\ route_order' \in Seq(Packets) /\ Once(route_order')
          /\ Len(route_order') <= MaxRoutes /\ p \in Range(route_order')
      BY <2>1, <1>a, CapAssumption, RememberBounds DEF OrderOK
    <2>3. routes' \subseteq Range(route_order')
      BY <2>1, <2>2, <1>a, RememberCovers DEF CachesAreBounded
    <2> QED
      BY <1>a, <2>1, <2>2, <2>3 DEF OrderOK, CachesAreBounded
  <1>4. ASSUME NEW due \in SUBSET DOMAIN tracked, Timeouts(due)
        PROVE  OrderOK' /\ CachesAreBounded'
    <2>1. DOMAIN tracked' \subseteq DOMAIN tracked
      BY <1>4 DEF Timeouts
    <2> QED
      BY <1>4, <2>1, <1>b DEF Timeouts
  <1>5. ASSUME NEW p \in Packets, NEW h \in Holders, HolderRx(p, h)
        PROVE  OrderOK' /\ CachesAreBounded'
    BY <1>5, <1>b DEF HolderRx
  <1>6. ASSUME NEW p \in Packets, NEW h \in Holders, RelayAck(p, h)
        PROVE  OrderOK' /\ CachesAreBounded'
    <2>1. CASE h \in anonymous
      BY <1>6, <2>1, <1>b DEF RelayAck
    <2>2. CASE h \notin anonymous
      <3>1. /\ ack_order' = Remember(ack_order, p, MaxAckCache)
            /\ DOMAIN acked' = (DOMAIN acked \ Dropped(ack_order, p, MaxAckCache)) \cup {p}
            /\ UNCHANGED <<order, tracked, routes, route_order>>
        BY <1>6, <2>2 DEF RelayAck
      <3>2. /\ ack_order' \in Seq(Packets) /\ Once(ack_order')
            /\ Len(ack_order') <= MaxAckCache /\ p \in Range(ack_order')
        BY <3>1, <1>a, CapAssumption, RememberBounds DEF OrderOK
      <3>3. DOMAIN acked' \subseteq Range(ack_order')
        BY <3>1, <3>2, <1>a, RememberCovers DEF CachesAreBounded
      <3> QED
        BY <1>a, <3>1, <3>2, <3>3 DEF OrderOK, CachesAreBounded
    <2> QED
      BY <2>1, <2>2
  <1>7. ASSUME NEW p \in Packets, NEW h \in Holders, SourceAck(p, h)
        PROVE  OrderOK' /\ CachesAreBounded'
    <2>1. DOMAIN tracked' \subseteq DOMAIN tracked
      BY <1>7 DEF SourceAck, Settle
    <2> QED
      BY <1>7, <2>1, <1>b DEF SourceAck, Settle
  <1>8. CASE Lose
    BY <1>8, <1>b DEF Lose
  <1>9. ASSUME NEW h \in Holders, DiscoveryChanges(h)
        PROVE  OrderOK' /\ CachesAreBounded'
    BY <1>9, <1>b DEF DiscoveryChanges
  <1>10. CASE UNCHANGED vars
    BY <1>10, <1>b DEF vars
  <1> QED
    BY <1>1, <1>2, <1>3, <1>4, <1>5, <1>6, <1>7, <1>8, <1>9, <1>10 DEF Next

(***************************************************************************)
(* remember_end_to_end_reliable_tx, remember_reliable_return_route and     *)
(* note_end_to_end_acked_destination keep their caches within the caps,    *)
(* whatever else erases entries, for every number of packets and holders.  *)
(***************************************************************************)
THEOREM CacheTheorem == Spec => []CachesAreBounded
  <1>1. CacheInv => CachesAreBounded
    BY DEF CacheInv
  <1> QED
    BY <1>1, CacheInit, CacheNext, PTL DEF Spec

-----------------------------------------------------------------------------
(* Settled packets are delivered *)

(* Every holder names itself, and a packet's entry has room for all of them. *)
Plain == anonymous = {} /\ Cardinality(Holders) <= MaxE2E

(* A holder of p that p is owed to and has not delivered it is waited for. *)
Served(p, h) ==
    p \in delivered[h] \/ (p \in DOMAIN tracked /\ h \in tracked[p].pending)

LEMMA SettleInit == Init => SettleInv
  BY TypeInit
  DEF Init, SettleInv, AcksAreTrue, OnlySentIsOwed, SettledIsDelivered, Nothing

(* With room for all holders a packet is tracked for every known one. *)
LEMMA AllAreExpected ==
  ASSUME TypeOK, Plain, NEW X \in Expected
  PROVE  X = known
  <1>1. IsFiniteSet(Holders) /\ known \subseteq Holders
    BY TopologyAssumption DEF TypeOK
  <1>2. IsFiniteSet(known) /\ Cardinality(known) <= Cardinality(Holders)
    BY <1>1, FS_Subset
  <1>3. Cardinality(known) \in Nat /\ Cardinality(Holders) \in Nat /\ MaxE2E \in Nat
    BY <1>1, <1>2, FS_CardinalityType, CapAssumption
  <1>4. X \subseteq known /\ Cardinality(X) = Cardinality(known)
    BY <1>2, <1>3 DEF Expected, Plain
  <1> QED
    BY <1>2, <1>4, FS_Subset

(* No step takes back a delivery, and no ACK appears for an undelivered     *)
(* packet.                                                                  *)
LEMMA AcksNext == TypeOK /\ AcksAreTrue /\ [Next]_vars => AcksAreTrue'
  <1> SUFFICES ASSUME TypeOK, AcksAreTrue, [Next]_vars
               PROVE  AcksAreTrue'
    OBVIOUS
  <1> USE DEF sourceVars, relayVars, netVars
  <1>a. ASSUME delivered' = delivered, acked' = acked,
               acks' \subseteq acks, returned' \subseteq returned
        PROVE  AcksAreTrue'
    BY <1>a DEF AcksAreTrue
  <1>1. ASSUME NEW p \in Packets,
               Log(p) \/ TransmitRetry(p) \/ EvictRetry(p) \/ RelayRx(p) \/ RelayTx(p)
        PROVE  AcksAreTrue'
    BY <1>1, <1>a DEF Log, TransmitRetry, EvictRetry, RelayRx, RelayTx
  <1>2. ASSUME NEW due \in SUBSET DOMAIN tracked, Timeouts(due)
        PROVE  AcksAreTrue'
    BY <1>2, <1>a DEF Timeouts
  <1>3. ASSUME NEW p \in Packets, NEW h \in Holders, HolderRx(p, h)
        PROVE  AcksAreTrue'
    <2>1. /\ delivered' = [delivered EXCEPT ![h] = @ \cup {p}]
          /\ acks' = acks \cup {<<p, h>>} /\ UNCHANGED <<returned, acked>>
      BY <1>3 DEF HolderRx
    <2>2. p \in delivered'[h] /\ \A g \in Holders : delivered[g] \subseteq delivered'[g]
      BY <2>1 DEF TypeOK
    <2>3. \A m \in acks' \cup returned' : m[1] \in delivered'[m[2]]
      BY <2>1, <2>2 DEF AcksAreTrue, TypeOK
    <2>4. \A q \in DOMAIN acked' : \A g \in acked'[q] : q \in delivered'[g]
      BY <2>1, <2>2 DEF AcksAreTrue, TypeOK
    <2> QED
      BY <2>3, <2>4 DEF AcksAreTrue
  <1>4. ASSUME NEW p \in Packets, NEW h \in Holders, RelayAck(p, h)
        PROVE  AcksAreTrue'
    <2>1. /\ <<p, h>> \in acks /\ delivered' = delivered
          /\ acks' \subseteq acks /\ returned' \subseteq returned \cup {<<p, h>>}
      BY <1>4 DEF RelayAck
    <2>2. p \in delivered[h]
      BY <2>1 DEF AcksAreTrue
    <2>3. \A m \in acks' \cup returned' : m[1] \in delivered'[m[2]]
      BY <2>1, <2>2 DEF AcksAreTrue
    <2>4. ASSUME NEW q \in DOMAIN acked', NEW g \in acked'[q]
          PROVE  q \in delivered[g]
      <3>1. CASE h \in anonymous
        BY <1>4, <2>4, <3>1 DEF RelayAck, AcksAreTrue
      <3>2. CASE h \notin anonymous
        <4> DEFINE rest == DOMAIN acked \ Dropped(ack_order, p, MaxAckCache)
                   old  == IF p \in rest THEN acked[p] ELSE {}
                   new  == IF Cardinality(old) < MaxE2E THEN old \cup {h} ELSE old
        <4>1. acked' = [r \in rest \cup {p} |-> IF r = p THEN new ELSE acked[r]]
          BY <1>4, <3>2 DEF RelayAck
        <4>2. new \subseteq old \cup {h} /\ rest \subseteq DOMAIN acked
          OBVIOUS
        <4>3. old # {} => p \in DOMAIN acked /\ old = acked[p]
          OBVIOUS
        <4> HIDE DEF new, old, rest
        <4>4. CASE q = p
          BY <2>2, <2>4, <4>1, <4>2, <4>3, <4>4 DEF AcksAreTrue
        <4>5. CASE q # p
          BY <2>4, <4>1, <4>2, <4>5 DEF AcksAreTrue
        <4> QED
          BY <4>4, <4>5
      <3> QED
        BY <3>1, <3>2
    <2> QED
      BY <2>1, <2>3, <2>4 DEF AcksAreTrue
  <1>5. ASSUME NEW p \in Packets, NEW h \in Holders, SourceAck(p, h)
        PROVE  AcksAreTrue'
    BY <1>5, <1>a DEF SourceAck, Settle
  <1>6. CASE Lose
    BY <1>6, <1>a DEF Lose
  <1>7. ASSUME NEW h \in Holders, DiscoveryChanges(h)
        PROVE  AcksAreTrue'
    BY <1>7, <1>a DEF DiscoveryChanges
  <1>8. CASE UNCHANGED vars
    BY <1>8, <1>a DEF vars
  <1> QED
    BY <1>1, <1>2, <1>3, <1>4, <1>5, <1>6, <1>7, <1>8 DEF Next

(* Tracking, retries and debts stay with packets that were logged. *)
LEMMA SentNext == TypeOK /\ OnlySentIsOwed /\ [Next]_vars => OnlySentIsOwed'
  <1> SUFFICES ASSUME TypeOK, OnlySentIsOwed, [Next]_vars
               PROVE  OnlySentIsOwed'
    OBVIOUS
  <1> USE DEF sourceVars, relayVars, netVars
  <1>a. ASSUME sent' = sent, owed' = owed, requeued' \subseteq requeued,
               DOMAIN tracked' \subseteq DOMAIN tracked
        PROVE  OnlySentIsOwed'
    BY <1>a DEF OnlySentIsOwed
  <1>1. ASSUME NEW p \in Packets, Log(p)
        PROVE  OnlySentIsOwed'
    BY <1>1, TrackType DEF Log, OnlySentIsOwed
  <1>2. ASSUME NEW p \in Packets, TransmitRetry(p)
        PROVE  OnlySentIsOwed'
    BY <1>2, TrackType DEF TransmitRetry, OnlySentIsOwed
  <1>3. ASSUME NEW p \in Packets, EvictRetry(p) \/ RelayRx(p) \/ RelayTx(p)
        PROVE  OnlySentIsOwed'
    BY <1>3, <1>a DEF EvictRetry, RelayRx, RelayTx
  <1>4. ASSUME NEW due \in SUBSET DOMAIN tracked, Timeouts(due)
        PROVE  OnlySentIsOwed'
    <2>1. DOMAIN tracked' \subseteq DOMAIN tracked /\ requeued' \subseteq requeued \cup due
      BY <1>4 DEF Timeouts
    <2>2. sent' = sent /\ \A q \in Packets : owed'[q] \subseteq owed[q]
      BY <1>4 DEF Timeouts
    <2> QED
      BY <2>1, <2>2 DEF OnlySentIsOwed
  <1>5. ASSUME NEW p \in Packets, NEW h \in Holders,
               HolderRx(p, h) \/ RelayAck(p, h)
        PROVE  OnlySentIsOwed'
    BY <1>5, <1>a DEF HolderRx, RelayAck
  <1>6. ASSUME NEW p \in Packets, NEW h \in Holders, SourceAck(p, h)
        PROVE  OnlySentIsOwed'
    <2>1. DOMAIN tracked' \subseteq DOMAIN tracked
      BY <1>6 DEF SourceAck, Settle
    <2> QED
      BY <1>6, <2>1, <1>a DEF SourceAck, Settle
  <1>7. CASE Lose
    BY <1>7, <1>a DEF Lose
  <1>8. ASSUME NEW h \in Holders, DiscoveryChanges(h)
        PROVE  OnlySentIsOwed'
    BY <1>8, <1>a DEF DiscoveryChanges
  <1>9. CASE UNCHANGED vars
    BY <1>9, <1>a DEF vars
  <1> QED
    BY <1>1, <1>2, <1>3, <1>4, <1>5, <1>6, <1>7, <1>8, <1>9 DEF Next

(***************************************************************************)
(* A transmission: the packet is tracked for every known holder and owed   *)
(* to no other; an entry that has to make room counts as lost.             *)
(***************************************************************************)
LEMMA TrackSettles ==
  ASSUME SettleInv, Plain, NEW p \in Packets, Track(p), delivered' = delivered,
         sent' \subseteq sent \cup {p},
         NEW q \in Packets, q \in sent' \ lost', NEW h \in owed'[q]
  PROVE  Served(q, h)'
  <1> USE DEF SettleInv
  <1>a. q \in sent /\ q \notin lost /\ h \in owed[q] => Served(q, h)
    BY DEF SettledIsDelivered, Plain, Served
  <1>b. q \notin sent => owed[q] = {}
    BY DEF OnlySentIsOwed
  <1>1. CASE known = {}
    BY <1>1, <1>a, <1>b DEF Track, Served
  <1>2. CASE known # {}
    <2> DEFINE evicted == Dropped(order, p, MaxE2E)
    <2>1. PICK X \in Expected :
              /\ tracked' = [r \in (DOMAIN tracked \ evicted) \cup {p} |->
                                IF r = p THEN [pending |-> X, retries |-> 0]
                                ELSE tracked[r]]
              /\ owed' = [owed EXCEPT ![p] = (@ \cap known) \cup X]
              /\ lost' = lost \cup (evicted \cap DOMAIN tracked)
      BY <1>2 DEF Track
    <2> HIDE DEF evicted
    <2>2. X = known
      BY AllAreExpected
    <2>3. CASE q = p
      <3>1. h \in X
        BY <2>1, <2>2, <2>3 DEF TypeOK
      <3>2. tracked'[p] = [pending |-> X, retries |-> 0] /\ p \in DOMAIN tracked'
        BY <2>1
      <3> QED
        BY <2>3, <3>1, <3>2 DEF Served
    <2>4. CASE q # p
      <3>1. q \in sent /\ q \notin lost /\ h \in owed[q]
        BY <2>1, <2>4 DEF TypeOK
      <3>2. q \in DOMAIN tracked => q \in DOMAIN tracked' /\ tracked'[q] = tracked[q]
        BY <2>1, <2>4
      <3> QED
        BY <1>a, <3>1, <3>2 DEF Served
    <2> QED
      BY <2>3, <2>4
  <1> QED
    BY <1>1, <1>2

(* Every step keeps the promise to the holders a packet is owed to. *)
LEMMA SettleNext == SettleInv /\ [Next]_vars => SettleInv'
  <1> SUFFICES ASSUME SettleInv, [Next]_vars
               PROVE  SettleInv'
    OBVIOUS
  <1>0. TypeOK' /\ AcksAreTrue' /\ OnlySentIsOwed'
    BY TypeNext, AcksNext, SentNext DEF SettleInv
  <1> USE DEF sourceVars, relayVars, netVars
  <1>a. anonymous' = anonymous
    BY DEF Next, vars, Log, TransmitRetry, EvictRetry, RelayRx, RelayTx, Timeouts, HolderRx,
           RelayAck, SourceAck, Settle, Lose, DiscoveryChanges
  <1> SUFFICES ASSUME Plain,
                      NEW q \in sent' \ lost', NEW h \in owed'[q]
               PROVE  Served(q, h)'
    BY <1>0, <1>a DEF SettleInv, SettledIsDelivered, Plain, Served
  <1>b. TypeOK /\ AcksAreTrue /\ OnlySentIsOwed
    BY DEF SettleInv
  <1>c. q \in Packets
    BY <1>0 DEF TypeOK
  <1>d. q \in sent /\ q \notin lost /\ h \in owed[q] => Served(q, h)
    BY DEF SettleInv, SettledIsDelivered, Plain, Served
  <1>e. ASSUME delivered' = delivered, sent' = sent, lost' = lost, owed' = owed,
               tracked' = tracked
        PROVE  Served(q, h)'
    BY <1>d, <1>e DEF Served
  <1>1. ASSUME NEW p \in Packets, Log(p) \/ TransmitRetry(p)
        PROVE  Served(q, h)'
    <2>1. Track(p) /\ delivered' = delivered /\ sent' \subseteq sent \cup {p}
      BY <1>1 DEF Log, TransmitRetry
    <2> QED
      BY <1>c, <2>1, TrackSettles
  <1>2. ASSUME NEW p \in Packets, EvictRetry(p) \/ RelayRx(p) \/ RelayTx(p)
        PROVE  Served(q, h)'
    BY <1>2, <1>e DEF EvictRetry, RelayRx, RelayTx
  <1>3. ASSUME NEW due \in SUBSET DOMAIN tracked, Timeouts(due)
        PROVE  Served(q, h)'
    <2> DEFINE kept  == {r \in DOMAIN tracked : Reconciled(r) # {}}
               spent == {r \in due : tracked[r].retries >= MaxRetries}
    <2>1. /\ DOMAIN tracked' = kept \ spent
          /\ \A r \in kept \ spent : tracked'[r].pending = Reconciled(r)
      BY <1>3 DEF Timeouts
    <2>2. /\ owed'[q] = IF q \in DOMAIN tracked
                        THEN owed[q] \ (tracked[q].pending \ known) ELSE owed[q]
          /\ lost' = lost \cup spent /\ sent' = sent /\ delivered' = delivered
      BY <1>3, <1>c DEF Timeouts
    <2>3. Served(q, h)
      BY <1>d, <2>2
    <2>4. CASE q \in delivered[h]
      BY <2>2, <2>4 DEF Served
    <2>5. CASE q \in DOMAIN tracked /\ h \in tracked[q].pending
      <3>1. h \in Reconciled(q)
        BY <2>2, <2>5 DEF Reconciled
      <3>2. q \in kept \ spent
        BY <2>2, <2>5, <3>1
      <3> QED
        BY <2>1, <3>1, <3>2 DEF Served
    <2> QED
      BY <2>3, <2>4, <2>5 DEF Served
  <1>4. ASSUME NEW p \in Packets, NEW g \in Holders, HolderRx(p, g)
        PROVE  Served(q, h)'
    <2>1. UNCHANGED <<sent, lost, owed, tracked>>
          /\ delivered' = [delivered EXCEPT ![g] = @ \cup {p}]
      BY <1>4 DEF HolderRx
    <2>2. h \in Holders
      BY <1>0, <1>c DEF TypeOK
    <2>3. delivered[h] \subseteq delivered'[h]
      BY <2>1, <2>2, <1>b DEF TypeOK
    <2> QED
      BY <2>1, <2>3, <1>d DEF Served
  <1>5. ASSUME NEW p \in Packets, NEW g \in Holders, RelayAck(p, g)
        PROVE  Served(q, h)'
    BY <1>5, <1>e DEF RelayAck
  <1>6. ASSUME NEW p \in Packets, NEW g \in Holders, SourceAck(p, g)
        PROVE  Served(q, h)'
    <2> DEFINE left == Pending(p) \ {g}
               rest == DOMAIN tracked \ {r \in {p} : left = {}}
    <2>1. /\ tracked' = [r \in rest |-> IF r = p THEN [tracked[p] EXCEPT !.pending = left]
                                        ELSE tracked[r]]
          /\ UNCHANGED <<sent, lost, owed, delivered>> /\ <<p, g>> \in returned
      BY <1>6 DEF SourceAck, Settle, Plain
    <2>2. p \in delivered[g]
      BY <2>1, <1>b DEF AcksAreTrue
    <2>3. Served(q, h)
      BY <1>d, <2>1
    <2>4. CASE q \in delivered[h]
      BY <2>1, <2>4 DEF Served
    <2>5. CASE q \in DOMAIN tracked /\ h \in tracked[q].pending /\ q \notin delivered[h]
      <3>1. CASE q # p
        <4>1. q \in DOMAIN tracked' /\ tracked'[q] = tracked[q]
          BY <2>1, <2>5, <3>1
        <4> QED
          BY <2>5, <4>1 DEF Served
      <3>2. CASE q = p
        <4>1. h \in left
          BY <2>2, <2>5, <3>2 DEF Pending
        <4>2. p \in rest
          BY <2>5, <3>2, <4>1
        <4> HIDE DEF left, rest
        <4>3. tracked'[p] = [tracked[p] EXCEPT !.pending = left] /\ p \in DOMAIN tracked'
          BY <2>1, <4>2
        <4>4. tracked[p] \in Entries
          BY <1>b, <2>5, <3>2 DEF TypeOK
        <4>5. tracked'[p].pending = left
          BY <4>3, <4>4 DEF Entries
        <4> QED
          BY <3>2, <4>1, <4>3, <4>5 DEF Served
      <3> QED
        BY <3>1, <3>2
    <2> QED
      BY <2>3, <2>4, <2>5 DEF Served
  <1>7. CASE Lose
    BY <1>7, <1>e DEF Lose
  <1>8. ASSUME NEW g \in Holders, DiscoveryChanges(g)
        PROVE  Served(q, h)'
    BY <1>8, <1>e DEF DiscoveryChanges
  <1>9. CASE UNCHANGED vars
    BY <1>9, <1>e DEF vars
  <1> QED
    BY <1>1, <1>2, <1>3, <1>4, <1>5, <1>6, <1>7, <1>8, <1>9 DEF Next

(***************************************************************************)
(* router_receive_impl settles a packet only for holders that delivered    *)
(* it: over hops that lose and repeat, retries that overtake ACKs, evicted *)
(* entries and changing discovery, for every number of packets and of      *)
(* holders that fit into one entry.                                        *)
(***************************************************************************)
THEOREM SettleTheorem == Spec => []SettledIsDelivered
  <1>1. SettleInv => SettledIsDelivered
    BY DEF SettleInv
  <1> QED
    BY <1>1, SettleInit, SettleNext, PTL DEF Spec

(***************************************************************************)
(* filter_end_to_end_satisfied_sides withholds a packet from a side only   *)
(* if every holder behind it has delivered it: the cached ACKs are true.   *)
(***************************************************************************)
THEOREM WithheldTheorem == Spec => WithheldIsDelivered
  <1>1. SettleInv /\ [Next]_vars =>
          [HasBoard = Holders =>
             \A p \in relay_q \ relay_q' : \A h \in Holders :
                 p \in delivered[h] \/ <<p, h>> \in fanned']_vars
    <2> SUFFICES ASSUME SettleInv, Next, HasBoard = Holders,
                        NEW p \in relay_q \ relay_q', NEW h \in Holders
                 PROVE  p \in delivered[h] \/ <<p, h>> \in fanned'
      BY DEF vars, relayVars
    <2>1. RelayTx(p)
      BY DEF Next, vars, Log, TransmitRetry, EvictRetry, RelayRx, RelayTx, Timeouts, HolderRx,
             RelayAck, SourceAck, Settle, Lose, DiscoveryChanges, sourceVars, relayVars, netVars
    <2>2. CASE StillPending(p, SideOf[h])
      BY <2>1, <2>2 DEF RelayTx
    <2>3. CASE ~StillPending(p, SideOf[h])
      <3>1. p \in DOMAIN acked /\ h \in acked[p]
        BY <2>3 DEF StillPending, Behind
      <3> QED
        BY <3>1 DEF SettleInv, AcksAreTrue
    <2> QED
      BY <2>2, <2>3
  <1> QED
    BY <1>1, SettleInit, SettleNext, PTL DEF Spec, WithheldIsDelivered

=============================================================================
