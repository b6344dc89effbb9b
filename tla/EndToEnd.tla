------------------------------ MODULE EndToEnd ------------------------------
(***************************************************************************)
(* End-to-end reliability of src/router_core.cpp: a source router tracks,  *)
(* per reliable packet, the discovered holders of its endpoint that have   *)
(* not acknowledged it (end_to_end_reliable_tx) and sends it again; a      *)
(* relay forwards it, remembers the way back (reliable_return_routes) and  *)
(* which holders have acknowledged (end_to_end_acked_destinations); the    *)
(* holders deliver it, filter repetitions (recent_set) and acknowledge.    *)
(*                                                                         *)
(* A packet is its packet_id.  The hops below are lossy and may repeat a   *)
(* packet.  An ACK is not repeated: each has a time stamp and so an id of  *)
(* its own, and the source's recent_set drops a second copy of it.  Clocks *)
(* are abstracted: any tracked packet may be due.  The source has one      *)
(* side, to the relay; the relay's own routes do not change; a recent_set  *)
(* keeps every id.                                                         *)
(*                                                                         *)
(* Scope: hops on which a packet keeps its sender, and so its packet_id    *)
(* (frames of the older format, which deserialize_packet reads, and sides  *)
(* that hand over packet views).  The frames serialize_packet writes carry *)
(* a 32-bit address instead, the receiver's sender is "@addr:N", and       *)
(* neither the id nor the sender of an end-to-end ACK survives.            *)
(***************************************************************************)
EXTENDS Integers, Sequences, FiniteSets, SequencesExt

CONSTANTS
    Packets,       \* reliable packets the source logs
    Holders,       \* routers with a handler for the packets' endpoint
    SideOf,        \* the relay's side each holder is behind
    HasBoard,      \* holders announced in a topology, not by endpoint alone
    FirstOn,       \* per side, the first announcer in the relay's hash table
    Nameless,      \* holders that may have no sender name
    MaxRetries,    \* the 8 of process_end_to_end_reliable_timeouts
    MaxE2E,        \* runtime_reliable_max_end_to_end_pending()
    MaxRoutes,     \* runtime_reliable_max_return_routes()
    MaxAckCache,   \* runtime_reliable_max_end_to_end_ack_cache()
    Faults         \* the hops that lose messages, and what else may happen:
                   \* hops repeat packets, discovery changes, the queue budget
                   \* evicts a retry, a deferral leaves retries in the queue

Sides == {SideOf[h] : h \in Holders}
Behind(s) == {h \in Holders : SideOf[h] = s}

ASSUME TopologyAssumption ==
    /\ IsFiniteSet(Holders)
    /\ HasBoard \subseteq Holders
    /\ Nameless \subseteq Holders
    /\ \A s \in Sides : FirstOn[s] \in Behind(s)
ASSUME CapAssumption ==
    /\ MaxRetries \in Nat
    /\ {MaxE2E, MaxRoutes, MaxAckCache} \subseteq Nat \ {0}
ASSUME FaultsAssumption ==
    Faults \subseteq {"data", "fanned", "acks", "returned", "repeat",
                      "discovery", "queue", "deferral"}

VARIABLES
    anonymous,     \* holders whose acknowledgements name no sender
    sent,          \* packets the application has logged
    known,         \* holders in the source's discovery_routes
    tracked,       \* end_to_end_reliable_tx
    order,         \* end_to_end_reliable_tx_order
    requeued,      \* packets in the source's tx_queue to be sent again
    routes,        \* reliable_return_routes of the relay
    route_order,   \* reliable_return_route_order
    acked,         \* end_to_end_acked_destinations
    ack_order,     \* end_to_end_acked_destination_order
    relay_q,       \* packets in the relay's queues
    delivered,     \* recent_set of each holder: packets it has delivered
    data,          \* packets between source and relay
    fanned,        \* <<packet, holder>>, packets between relay and holders
    acks,          \* <<packet, holder>>, acknowledgements to the relay
    returned,      \* <<packet, holder>>, acknowledgements to the source
    owed,          \* ghost: holders the source has promised each packet
    lost           \* ghost: packets given up or evicted while tracked

sourceVars == <<anonymous, sent, known, tracked, order, requeued, owed, lost>>
relayVars  == <<routes, route_order, acked, ack_order, relay_q>>
netVars    == <<data, fanned, acks, returned>>
vars       == <<sourceVars, relayVars, delivered, netVars>>

Nothing == [p \in {} |-> {}]

Init ==
    /\ anonymous \in SUBSET Nameless
    /\ sent = {} /\ known = Holders /\ requeued = {}
    /\ tracked = Nothing /\ order = << >>
    /\ routes = {} /\ route_order = << >>
    /\ acked = Nothing /\ ack_order = << >> /\ relay_q = {}
    /\ delivered = [h \in Holders |-> {}]
    /\ data = {} /\ fanned = {} /\ acks = {} /\ returned = {}
    /\ owed = [p \in Packets |-> {}]
    /\ lost = {}

(* Mutant: the cap is tested with > in place of >=. *)
RememberOneMore(list, p, cap) ==
    LET others == RemoveFirst(list, p)
        excess == IF Len(others) > cap THEN Len(others) - cap ELSE 0
    IN  Append(SubSeq(others, excess + 1, Len(others)), p)

(***************************************************************************)
(* The shape of remember_end_to_end_reliable_tx,                           *)
(* remember_reliable_return_route and note_end_to_end_acked_destination:   *)
(* p moves to the back of the order list, which then drops its oldest      *)
(* entries down to the cap; the entries of the dropped ones are erased.    *)
(* A list has every packet at most once, so that std::erase removes one.   *)
(***************************************************************************)
Remember(list, p, cap) ==
    LET others == RemoveFirst(list, p)
        excess == IF Len(others) >= cap THEN Len(others) - cap + 1 ELSE 0
    IN  Append(SubSeq(others, excess + 1, Len(others)), p)

Dropped(list, p, cap) == Range(list) \ Range(Remember(list, p, cap))

-----------------------------------------------------------------------------
(* The source router *)

(***************************************************************************)
(* expected_end_to_end_destinations: the known holders, at most MaxE2E of  *)
(* them, in the order of a hash table.                                     *)
(***************************************************************************)
Expected ==
    {X \in SUBSET known :
        Cardinality(X) = IF Cardinality(known) < MaxE2E THEN Cardinality(known)
                         ELSE MaxE2E}

(***************************************************************************)
(* transmit_item, the part that tracks: the entry is made anew for every   *)
(* transmission, with no retries and all the expected holders.             *)
(***************************************************************************)
Track(p) ==
    IF known = {} THEN UNCHANGED <<tracked, order, owed, lost>>
    ELSE \E X \in Expected :
           LET evicted == Dropped(order, p, MaxE2E)
           IN  /\ order' = Remember(order, p, MaxE2E)
               /\ tracked' = [q \in (DOMAIN tracked \ evicted) \cup {p} |->
                                IF q = p THEN [pending |-> X, retries |-> 0]
                                ELSE tracked[q]]
               /\ owed' = [owed EXCEPT ![p] = (@ \cap known) \cup X]
               /\ lost' = lost \cup (evicted \cap DOMAIN tracked)

(***************************************************************************)
(* process_tx_queue queues the retries and sends them under one lock: no   *)
(* other source step comes between, unless a deferral or a driver error    *)
(* ends it early.                                                          *)
(***************************************************************************)
Drained == requeued = {} \/ "deferral" \in Faults

(* transmit_item of a packet the application logs *)
Log(p) ==
    /\ Drained
    /\ p \notin sent
    /\ sent' = sent \cup {p}
    /\ Track(p)
    /\ data' = data \cup {p}
    /\ UNCHANGED <<anonymous, known, requeued, fanned, acks, returned>>
    /\ UNCHANGED relayVars
    /\ UNCHANGED delivered

(* transmit_item of a packet queued by the retry timer *)
TransmitRetry(p) ==
    /\ p \in requeued
    /\ requeued' = requeued \ {p}
    /\ Track(p)
    /\ data' = data \cup {p}
    /\ UNCHANGED <<anonymous, sent, known, fanned, acks, returned>>
    /\ UNCHANGED relayVars
    /\ UNCHANGED delivered

(***************************************************************************)
(* reconcile_end_to_end_reliable_destinations: the holders of q that       *)
(* discovery still knows; a packet that has none left is forgotten.        *)
(***************************************************************************)
Reconciled(q) == tracked[q].pending \cap known

(***************************************************************************)
(* process_end_to_end_reliable_timeouts: after reconciling, the packets of *)
(* `due' are given up after MaxRetries or queued again.                    *)
(***************************************************************************)
Timeouts(due) ==
    LET kept    == {q \in DOMAIN tracked : Reconciled(q) # {}}
        spent   == {q \in due : tracked[q].retries >= MaxRetries}
    IN  /\ Drained
        /\ due \subseteq kept
        /\ tracked' = [q \in kept \ spent |->
                         [pending |-> Reconciled(q),
                          retries |-> IF q \in due THEN tracked[q].retries + 1
                                                   ELSE tracked[q].retries]]
        /\ requeued' = requeued \cup (due \ spent)
        /\ owed' = [q \in Packets |->
                      IF q \in DOMAIN tracked
                      THEN owed[q] \ (tracked[q].pending \ known) ELSE owed[q]]
        /\ lost' = lost \cup spent
        /\ UNCHANGED <<anonymous, sent, known, order>>
        /\ UNCHANGED relayVars
        /\ UNCHANGED delivered
        /\ UNCHANGED netVars

(***************************************************************************)
(* router_receive_impl takes the ACK of holder h for packet p; `left' are  *)
(* the holders the source still waits for.  Without any the entry goes,    *)
(* and an ACK for a packet without entry changes nothing.                  *)
(***************************************************************************)
Settle(p, h, left) ==
    /\ Drained
    /\ <<p, h>> \in returned
    /\ returned' = returned \ {<<p, h>>}
    /\ tracked' = [q \in DOMAIN tracked \ {r \in {p} : left = {}} |->
                      IF q = p THEN [tracked[p] EXCEPT !.pending = left]
                      ELSE tracked[q]]
    /\ UNCHANGED <<anonymous, sent, known, order, requeued, owed, lost>>
    /\ UNCHANGED <<data, fanned, acks>>
    /\ UNCHANGED relayVars
    /\ UNCHANGED delivered

Pending(p) == IF p \in DOMAIN tracked THEN tracked[p].pending ELSE {}

(* Mutant: any ACK settles the whole packet. *)
SourceAckSettlesAll(p, h) == Settle(p, h, {})

(***************************************************************************)
(* router_receive_impl on an end-to-end ACK: it settles the holder it      *)
(* names, or the whole packet if it names none.                            *)
(***************************************************************************)
SourceAck(p, h) ==
    Settle(p, h, IF h \in anonymous THEN {} ELSE Pending(p) \ {h})

-----------------------------------------------------------------------------
(* The relay *)

(* What a hop may hold after it has delivered m. *)
Taken(hop, m) == {hop \ {m}} \cup {X \in {hop} : "repeat" \in Faults}

(* relay_receive_impl on a packet: note_reliable_return_route, enqueue_tx *)
RelayRx(p) ==
    /\ p \in data
    /\ data' \in Taken(data, p)
    /\ route_order' = Remember(route_order, p, MaxRoutes)
    /\ routes' = (routes \ Dropped(route_order, p, MaxRoutes)) \cup {p}
    /\ relay_q' = relay_q \cup {p}
    /\ UNCHANGED <<acked, ack_order, fanned, acks, returned>>
    /\ UNCHANGED sourceVars
    /\ UNCHANGED delivered

(* Mutant: one ACK from behind a side is taken for all. *)
StillPendingNone(p, s) ==
    p \notin DOMAIN acked \/ Behind(s) \cap acked[p] = {}

(***************************************************************************)
(* filter_end_to_end_satisfied_sides: a side stays a target while a holder *)
(* with a board behind it has not acknowledged.  had_destination_board is  *)
(* not reset between announcers, so of the holders announced by endpoint   *)
(* alone only one that the loop meets first counts.                        *)
(***************************************************************************)
StillPending(p, s) ==
    \/ p \notin DOMAIN acked
    \/ \E h \in Behind(s) : h \in HasBoard /\ h \notin acked[p]
    \/ FirstOn[s] \notin HasBoard \cup acked[p]

(* transmit_item of the relay *)
RelayTx(p) ==
    /\ p \in relay_q
    /\ relay_q' = relay_q \ {p}
    /\ fanned' = fanned \cup {<<p, h>> : h \in {g \in Holders : StillPending(p, SideOf[g])}}
    /\ UNCHANGED <<routes, route_order, acked, ack_order, data, acks, returned>>
    /\ UNCHANGED sourceVars
    /\ UNCHANGED delivered

(***************************************************************************)
(* relay_receive_impl on an end-to-end ACK: remember the holder it names   *)
(* and pass it to where the packet came from, if that is still known.      *)
(***************************************************************************)
RelayAck(p, h) ==
    /\ <<p, h>> \in acks
    /\ acks' = acks \ {<<p, h>>}
    /\ IF h \in anonymous THEN UNCHANGED <<acked, ack_order>>
       ELSE LET rest == DOMAIN acked \ Dropped(ack_order, p, MaxAckCache)
                old  == IF p \in rest THEN acked[p] ELSE {}
                new  == IF Cardinality(old) < MaxE2E THEN old \cup {h} ELSE old
            IN  /\ ack_order' = Remember(ack_order, p, MaxAckCache)
                /\ acked' = [q \in rest \cup {p} |->
                               IF q = p THEN new ELSE acked[q]]
    /\ returned' = IF p \in routes THEN returned \cup {<<p, h>>} ELSE returned
    /\ UNCHANGED <<routes, route_order, relay_q, data, fanned>>
    /\ UNCHANGED sourceVars
    /\ UNCHANGED delivered

-----------------------------------------------------------------------------
(* The holders and the hops *)

(* Mutant: a repetition is dropped without an ACK. *)
HolderRxAcksOnce(p, h) ==
    /\ <<p, h>> \in fanned
    /\ fanned' \in Taken(fanned, <<p, h>>)
    /\ p \notin delivered[h]
    /\ delivered' = [delivered EXCEPT ![h] = @ \cup {p}]
    /\ acks' = acks \cup {<<p, h>>}
    /\ UNCHANGED <<data, returned>>
    /\ UNCHANGED sourceVars
    /\ UNCHANGED relayVars

(***************************************************************************)
(* router_receive_impl on a packet at a holder: a repetition is only       *)
(* acknowledged again (queue_end_to_end_ack).                              *)
(***************************************************************************)
HolderRx(p, h) ==
    /\ <<p, h>> \in fanned
    /\ fanned' \in Taken(fanned, <<p, h>>)
    /\ delivered' = [delivered EXCEPT ![h] = @ \cup {p}]
    /\ acks' = acks \cup {<<p, h>>}
    /\ UNCHANGED <<data, returned>>
    /\ UNCHANGED sourceVars
    /\ UNCHANGED relayVars

Lose ==
    /\ \/ /\ "data" \in Faults
          /\ \E m \in data : data' = data \ {m}
          /\ UNCHANGED <<fanned, acks, returned>>
       \/ /\ "fanned" \in Faults
          /\ \E m \in fanned : fanned' = fanned \ {m}
          /\ UNCHANGED <<data, acks, returned>>
       \/ /\ "acks" \in Faults
          /\ \E m \in acks : acks' = acks \ {m}
          /\ UNCHANGED <<data, fanned, returned>>
       \/ /\ "returned" \in Faults
          /\ \E m \in returned : returned' = returned \ {m}
          /\ UNCHANGED <<data, fanned, acks>>
    /\ UNCHANGED sourceVars
    /\ UNCHANGED relayVars
    /\ UNCHANGED delivered

(* Discovery expires or learns a holder. *)
DiscoveryChanges(h) ==
    /\ "discovery" \in Faults
    /\ Drained
    /\ known' = (known \ {h}) \cup ({h} \ known)
    /\ UNCHANGED <<anonymous, sent, tracked, order, requeued, owed, lost>>
    /\ UNCHANGED relayVars
    /\ UNCHANGED delivered
    /\ UNCHANGED netVars

(* The queue budget evicts a packet that waits to be sent again. *)
EvictRetry(p) ==
    /\ "queue" \in Faults
    /\ p \in requeued
    /\ requeued' = requeued \ {p}
    /\ UNCHANGED <<anonymous, sent, known, tracked, order, owed, lost>>
    /\ UNCHANGED relayVars
    /\ UNCHANGED delivered
    /\ UNCHANGED netVars

Next ==
    \/ \E p \in Packets : \/ Log(p) \/ TransmitRetry(p) \/ EvictRetry(p)
                          \/ RelayRx(p) \/ RelayTx(p)
    \/ \E due \in SUBSET DOMAIN tracked : Timeouts(due)
    \/ \E p \in Packets, h \in Holders : \/ HolderRx(p, h)
                                         \/ RelayAck(p, h)
                                         \/ SourceAck(p, h)
    \/ Lose
    \/ \E h \in Holders : DiscoveryChanges(h)

Spec == Init /\ [][Next]_vars

(***************************************************************************)
(* Fairness: every router and relay has its queues and timers processed    *)
(* again and again, and what is sent again and again arrives in the end.   *)
(***************************************************************************)
FairSpec ==
    /\ Spec
    /\ WF_vars(Timeouts({q \in DOMAIN tracked : Reconciled(q) # {}}))
    /\ \A p \in Packets : /\ WF_vars(TransmitRetry(p))
                          /\ WF_vars(RelayTx(p))
                          /\ SF_vars(RelayRx(p))
    /\ \A p \in Packets, h \in Holders : /\ SF_vars(HolderRx(p, h))
                                         /\ SF_vars(RelayAck(p, h))
                                         /\ SF_vars(SourceAck(p, h))

-----------------------------------------------------------------------------
(* Properties *)

(***************************************************************************)
(* The source settles a packet only when every discovered holder it was    *)
(* tracked for has delivered it, or discovery has lost the holder, or the  *)
(* packet was given up: late and repeated ACKs and retries that overtake   *)
(* an ACK do not settle a holder that has not delivered.  All holders name *)
(* themselves in their ACKs, and MaxE2E is enough for all of them.         *)
(***************************************************************************)
SettledIsDelivered ==
    anonymous = {} /\ Cardinality(Holders) <= MaxE2E =>
        \A p \in sent \ lost : \A h \in owed[p] :
            \/ p \in delivered[h]
            \/ p \in DOMAIN tracked /\ h \in tracked[p].pending

(***************************************************************************)
(* The three caches stay within their caps: every entry is in its order    *)
(* list, from which alone entries are evicted, and no list outgrows its    *)
(* cap, although entries are also erased by ACKs, by discovery and by the  *)
(* retry limit.                                                            *)
(***************************************************************************)
CachesAreBounded ==
    /\ DOMAIN tracked \subseteq Range(order) /\ Len(order) <= MaxE2E
    /\ routes \subseteq Range(route_order) /\ Len(route_order) <= MaxRoutes
    /\ DOMAIN acked \subseteq Range(ack_order) /\ Len(ack_order) <= MaxAckCache

(***************************************************************************)
(* When every holder is announced with a board, the relay withholds a      *)
(* packet from a side only if all the holders behind it have delivered it. *)
(***************************************************************************)
WithheldIsDelivered ==
    [][HasBoard = Holders =>
         \A p \in relay_q \ relay_q' : \A h \in Holders :
             p \in delivered[h] \/ <<p, h>> \in fanned']_vars

(***************************************************************************)
(* tests/tests.cpp, test_end_to_end_reliable_waits_for_all_discovered_     *)
(* holders: the source keeps a packet going until every discovered holder  *)
(* has delivered it, unless discovery loses the holder or the packet was   *)
(* given up.  (An ACK without a name settles all of them at once.)         *)
(***************************************************************************)
EveryHolderDelivers ==
    \A p \in Packets, h \in Holders :
        anonymous = {} /\ h \in owed[p] ~> p \in delivered[h] \/ p \in lost \/ h \notin owed[p]

(***************************************************************************)
(* Every tracked packet is settled or given up, in the two cases where an  *)
(* ACK finds its way back in the end: some holder's ACK names nobody, so   *)
(* that the relay never withholds a retry from it; or there is one holder, *)
(* and no ACK is lost or overtaken by a retry behind the relay.  (With     *)
(* several named holders a retry makes the source wait again for those     *)
(* that have acknowledged, and a relay that has seen all the ACKs does not *)
(* ask them again.)                                                        *)
(***************************************************************************)
AckReturns ==
    \/ anonymous # {}
    \/ Cardinality(Holders) = 1 /\ Faults \cap {"returned", "deferral"} = {}

TrackedIsSettled ==
    \A p \in Packets : AckReturns /\ p \in DOMAIN tracked ~> p \notin DOMAIN tracked

=============================================================================
