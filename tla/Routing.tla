------------------------------- MODULE Routing -------------------------------
(***************************************************************************)
(* Sides and routes of one router or relay: the management calls of        *)
(* src/router_api.cpp and src/relay_api.cpp, select_destinations and       *)
(* apply_policy, the place of local dispatch, the cache of                 *)
(* recently received ids, and transmit_item's loop over the selected       *)
(* sides.  The mutex is recursive, so a handler or a driver that is called *)
(* under it may manage the node: every management call may happen between  *)
(* two sides of one fan-out and between a handler and what follows it.     *)
(*                                                                         *)
(* Side ids start at 1 here; 0 stands for "no side".  A packet is its id;  *)
(* reliability, byte budgets and nested processing are in ReliableLink,    *)
(* EndToEnd and SharedQueues.  The error packets that dispatch and         *)
(* transmit_item hand to local handlers change no state of the node and    *)
(* are left out.                                                           *)
(***************************************************************************)
EXTENDS Integers, Sequences, FiniteSets, FiniteSetsExt, SequencesExt, Functions

CONSTANTS
    MaxSides,      \* bound: sides ever added
    StartSides,    \* sides added before the first packet
    TypeOf,        \* packet id -> data type
    EndpointsOf,   \* data type -> its endpoints
    LinkLocal,     \* endpoints for which endpoint_link_local_only is true
    Locals,        \* local endpoints of the router, all with packet handlers
    MaxRecent,     \* memory.max_recent_rx_ids
    RouteKeys,     \* the (source, side) pairs the route calls name
    Weights, Priorities, DefaultPriority,   \* DefaultPriority: UINT32_MAX / 2
    Advertised,    \* the endpoint sets discovery may learn for a side
    StartPolicies, \* the policies set up for every source before the first packet
    MaxCalls,      \* bound: management calls
    MaxEvents,     \* bound: management calls and packets logged or received
    MaxChanges     \* bound: discovery routes learned

Side     == 1 .. MaxSides
Source   == 0 .. MaxSides
Modes    == {"Fanout", "Weighted", "Failover"}
Policies == [mode : Modes, weights : [Side -> Nat], priorities : [Side -> Nat], rr : Nat]

ASSUME RoutingAssumption ==
    /\ MaxSides \in Nat /\ StartSides \in 0 .. MaxSides
    /\ MaxRecent \in Nat \ {0}
    /\ Range(TypeOf) \subseteq DOMAIN EndpointsOf
    /\ {DefaultPriority} \cup Weights \cup Priorities \subseteq Nat
    /\ RouteKeys \subseteq Source \X Side
    /\ StartPolicies \subseteq Policies

VARIABLES
    kind,                    \* "sink", "relaying" (a SedsRouter's modes) or "relay"
    sides,                   \* SedsRouter::sides
    discovery_routes,        \* side -> endpoints reached and whether within the TTL
    route_overrides,         \* (source, side) -> "unset", "on" or "off"
    typed_route_overrides,   \* (source, type, side) -> "unset", "on" or "off"
    policy,                  \* local_policy (source 0) and source_policy
    tx_queue, rx_queue,
    recent_ids,              \* recent_ids, recent_set
    in_tx,                   \* << >> or the item whose sides are being called
    in_rx,                   \* << >> or the item whose handlers are running
    events, calls, changes,  \* how much of the bounds is used up
    removed,                 \* ghost: removed sides no call has named since
    accepted,                \* ghost: the dedupe keys let through, in order
    called,                  \* ghost: removed sides whose driver was called since
    skipped,                 \* ghost: enabled targets dropped from a fan-out
    window                   \* ghost: last weighted picks of each source

sideVars   == <<sides, discovery_routes, route_overrides, typed_route_overrides>>
queueVars  == <<tx_queue, rx_queue, recent_ids, in_tx, in_rx>>
countVars  == <<events, calls, changes>>
ghostVars  == <<removed, accepted, called, skipped, window>>
vars == <<kind, sideVars, policy, queueVars, countVars, ghostVars>>

Override == {"unset", "on", "off"}
Types    == DOMAIN EndpointsOf
Packet   == DOMAIN TypeOf
Ty(p)    == TypeOf[p]
Eps(p)   == EndpointsOf[TypeOf[p]]

NoPolicy == [mode |-> "Fanout", weights |-> [s \in Side |-> 0],
             priorities |-> [s \in Side |-> DefaultPriority], rr |-> 0]
NewSide  == [ingress |-> TRUE, egress |-> TRUE, link_local |-> FALSE]
NoWindow == [over |-> << >>, picks |-> << >>]

Init ==
    /\ kind \in {"sink", "relaying", "relay"}
    /\ sides = [s \in 1 .. StartSides |-> NewSide]
    /\ discovery_routes = << >>
    /\ route_overrides = [k \in Source \X Side |-> "unset"]
    /\ typed_route_overrides = [k \in Source \X Types \X Side |-> "unset"]
    /\ \E pol \in StartPolicies \cup {NoPolicy} : policy = [s \in Source |-> pol]
    /\ tx_queue = << >> /\ rx_queue = << >> /\ recent_ids = << >>
    /\ in_tx = << >> /\ in_rx = << >>
    /\ events = 0 /\ calls = 0 /\ changes = 0
    /\ removed = {} /\ accepted = << >>
    /\ called = {} /\ skipped = {}
    /\ window = [s \in Source |-> NoWindow]

-----------------------------------------------------------------------------
(* select_destinations *)

LinkLocalOnly(p) == Eps(p) # {} /\ Eps(p) \subseteq LinkLocal

(* side_accepts_packet *)
SideAccepts(s, p) == LinkLocalOnly(p) => sides[s].link_local

(***************************************************************************)
(* default_candidates: the sides with a live route to one of the packet's  *)
(* endpoints, and every enabled side when there is none.                   *)
(***************************************************************************)
Candidates(p, src) ==
    LET routed == {s \in DOMAIN discovery_routes \ {src} :
                      /\ discovery_routes[s].live
                      /\ SideAccepts(s, p)
                      /\ discovery_routes[s].endpoints \cap Eps(p) # {}}
    IN  IF routed # {} THEN routed
        ELSE {s \in DOMAIN sides \ {src} : sides[s].egress /\ SideAccepts(s, p)}

(* Mutant: a typed route is looked at before the base route. *)
PermittedTypedFirst(p, src, s) ==
    IF \E d \in Side : typed_route_overrides[<<src, Ty(p), d>>] # "unset"
    THEN typed_route_overrides[<<src, Ty(p), s>>] = "on"
    ELSE route_overrides[<<src, s>>] # "off"

(***************************************************************************)
(* The override rules: a disabled base route always wins; once a source    *)
(* has a typed route for a type, only its enabled typed routes are used.   *)
(***************************************************************************)
Permitted(p, src, s) ==
    /\ route_overrides[<<src, s>>] # "off"
    /\ \/ typed_route_overrides[<<src, Ty(p), s>>] = "on"
       \/ \A d \in Side : typed_route_overrides[<<src, Ty(p), d>>] = "unset"

Eligible(p, src) ==
    {s \in Candidates(p, src) : sides[s].egress /\ SideAccepts(s, p) /\ Permitted(p, src, s)}

Weight(pol, s) == IF pol.weights[s] = 0 THEN 1 ELSE pol.weights[s]

(* The total weight: a side holds as many tickets as its weight. *)
Share(pol, S)  == [s \in S |-> Weight(pol, s)]
Tickets(share) == UNION {{s} \X (1 .. share[s]) : s \in DOMAIN share}
Total(pol, S)  == Cardinality(Tickets(Share(pol, S)))

(* Mutant: the pick is compared with <= instead of <. *)
PickOffByOne(pol, S) ==
    LET pick == pol.rr % Total(pol, S)
    IN  CHOOSE s \in S : LET below == Total(pol, {t \in S : t < s})
                         IN  (below < pick \/ below = 0) /\ pick <= below + Weight(pol, s)

(* the Weighted branch: the side whose share of the weights holds rr % total *)
Pick(pol, S) ==
    LET pick == pol.rr % Total(pol, S)
    IN  CHOOSE s \in S : LET below == Total(pol, {t \in S : t < s})
                         IN  below <= pick /\ pick < below + Weight(pol, s)

(* the Failover branch: the lowest priority value, the first side on a tie *)
First(pol, S) ==
    CHOOSE s \in S : \A t \in S : \/ pol.priorities[s] < pol.priorities[t]
                                  \/ pol.priorities[s] = pol.priorities[t] /\ s <= t

ApplyPolicy(pol, S) ==
    CASE S = {} \/ pol.mode = "Fanout" -> S
      [] S # {} /\ pol.mode = "Failover" -> {First(pol, S)}
      [] S # {} /\ pol.mode = "Weighted" -> {Pick(pol, S)}

-----------------------------------------------------------------------------
(* Receiving: push_recent, router_receive_impl, relay_receive_impl *)

Matching(p) == IF kind = "relay" THEN {} ELSE Locals \cap Eps(p)
Item(p, src, dst, own) == [pkt |-> p, src |-> src, dst |-> dst, own |-> own]

(* Mutant: a full cache takes no new id. *)
PushRecentWhenFree(key) ==
    recent_ids' = IF Len(recent_ids) >= MaxRecent THEN recent_ids ELSE Append(recent_ids, key)

(* push_recent for an id that is not in the cache: the oldest makes room *)
PushRecent(key) ==
    recent_ids' = Append(IF Len(recent_ids) >= MaxRecent
                         THEN Tail(recent_ids) ELSE recent_ids, key)

Seen(key)   == key \in Range(recent_ids)
Accept(key) == PushRecent(key) /\ accepted' = Append(accepted, key)

Idle == in_tx = << >> /\ in_rx = << >>

(* seds_router_rx_packet_to_queue and its relatives: a router dedupes later *)
RouterReceive(s, p) ==
    /\ Idle /\ kind # "relay" /\ events < MaxEvents
    /\ sides[s].ingress
    /\ events' = events + 1
    /\ rx_queue' = Append(rx_queue, [pkt |-> p, src |-> s])
    /\ UNCHANGED <<kind, sideVars, policy, tx_queue, recent_ids, in_tx, in_rx,
                   calls, changes, ghostVars>>

(* seds_relay_rx_packet_from_side does not look at the cache *)
RelayReceivePacket(s, p) ==
    /\ Idle /\ kind = "relay" /\ events < MaxEvents
    /\ sides[s].ingress
    /\ events' = events + 1
    /\ rx_queue' = Append(rx_queue, [pkt |-> p, src |-> s])
    /\ UNCHANGED <<kind, sideVars, policy, tx_queue, recent_ids, in_tx, in_rx,
                   calls, changes, ghostVars>>

(* seds_relay_rx_serialized_from_side, unreliable frames: keyed by id and side *)
RelayReceiveSerialized(s, p) ==
    /\ Idle /\ kind = "relay" /\ events < MaxEvents
    /\ sides[s].ingress
    /\ events' = events + 1
    /\ \/ /\ Seen(<<p, s>>)
          /\ UNCHANGED <<rx_queue, recent_ids, accepted>>
       \/ /\ ~Seen(<<p, s>>)
          /\ Accept(<<p, s>>)
          /\ rx_queue' = Append(rx_queue, [pkt |-> p, src |-> s])
    /\ UNCHANGED <<kind, sideVars, policy, tx_queue, in_tx, in_rx, calls, changes,
                   removed, called, skipped, window>>

(* router_receive_impl up to the local handlers *)
RouterRxStart ==
    /\ Idle /\ kind # "relay" /\ rx_queue # << >>
    /\ LET item == Head(rx_queue)
       IN  \/ /\ Seen(<<item.pkt, 0>>)
              /\ UNCHANGED <<in_rx, recent_ids, accepted>>
           \/ /\ ~Seen(<<item.pkt, 0>>)
              /\ Accept(<<item.pkt, 0>>)
              /\ in_rx' = <<item>>
    /\ rx_queue' = Tail(rx_queue)
    /\ UNCHANGED <<kind, sideVars, policy, tx_queue, in_tx, countVars,
                   removed, called, skipped, window>>

(***************************************************************************)
(* The rest of router_receive_impl, after the handlers: their result is    *)
(* ignored, a reliable packet with a local handler is acknowledged to its  *)
(* side (`acked'), and a relaying router forwards it.                      *)
(***************************************************************************)
RouterRxEnd ==
    /\ in_rx # << >>
    /\ LET p == in_rx[1].pkt   src == in_rx[1].src
       IN  \E acked \in BOOLEAN :
              /\ acked => Matching(p) # {} /\ src # 0
              /\ tx_queue' = tx_queue
                    \o (IF acked THEN <<Item(p, 0, src, FALSE)>> ELSE << >>)
                    \o (IF kind = "relaying" /\ src # 0
                        THEN <<Item(p, src, 0, FALSE)>> ELSE << >>)
    /\ in_rx' = << >>
    /\ UNCHANGED <<kind, sideVars, policy, rx_queue, recent_ids, in_tx, countVars, ghostVars>>

(* relay_receive_impl for an ordinary packet *)
RelayRx ==
    /\ Idle /\ kind = "relay" /\ rx_queue # << >>
    /\ tx_queue' = Append(tx_queue, Item(Head(rx_queue).pkt, Head(rx_queue).src, 0, FALSE))
    /\ rx_queue' = Tail(rx_queue)
    /\ UNCHANGED <<kind, sideVars, policy, recent_ids, in_tx, in_rx, countVars, ghostVars>>

-----------------------------------------------------------------------------
(* Sending: seds_router_transmit_message_queue and transmit_item *)

(* all_endpoints_local *)
AllLocal(p) == Eps(p) # {} /\ Eps(p) \subseteq Locals

(***************************************************************************)
(* dispatch_local_packet_handlers answers SEDS_HANDLER_ERROR when some     *)
(* handler of the packet's local endpoints fails all its attempts; the     *)
(* other handlers run all the same.  Any matching handler may fail.        *)
(***************************************************************************)
MayRefuse(p) == Matching(p) # {}

(* a packet that only local endpoints want goes to the receive queue *)
TransmitMessageQueue(p) ==
    /\ Idle /\ kind # "relay" /\ events < MaxEvents
    /\ events' = events + 1
    /\ \/ /\ AllLocal(p)
          /\ rx_queue' = Append(rx_queue, [pkt |-> p, src |-> 0])
          /\ UNCHANGED tx_queue
       \/ /\ ~AllLocal(p)
          /\ tx_queue' = Append(tx_queue, Item(p, 0, 0, TRUE))
          /\ UNCHANGED rx_queue
    /\ UNCHANGED <<kind, sideVars, policy, recent_ids, in_tx, in_rx, calls, changes, ghostVars>>

(***************************************************************************)
(* The ghost window: the picks the current weighted choice of a source     *)
(* made in a row among the same sides with the same weights.               *)
(***************************************************************************)
NextWindow(src, S) ==
    LET share == Share(policy[src], S)
        old   == IF window[src].over = share THEN window[src].picks ELSE << >>
        picks == Append(old, Pick(policy[src], S))
        total == Total(policy[src], S)
    IN  [over |-> share,
         picks |-> IF Len(picks) > total THEN Tail(picks) ELSE picks]

(***************************************************************************)
(* transmit_item up to the loop.  The router's own packet goes to its      *)
(* local handlers first, and nowhere else when one of them refuses it;     *)
(* then select_destinations.                                               *)
(***************************************************************************)
TxStart ==
    /\ Idle /\ tx_queue # << >>
    /\ tx_queue' = Tail(tx_queue)
    /\ LET item == Head(tx_queue)
           S == Eligible(item.pkt, item.src)
           weighted == item.dst = 0 /\ S # {} /\ policy[item.src].mode = "Weighted"
           targets == IF item.dst # 0 THEN {item.dst} ELSE ApplyPolicy(policy[item.src], S)
       IN  \/ /\ item.own /\ MayRefuse(item.pkt)
              /\ UNCHANGED <<policy, in_tx, window>>
           \/ /\ in_tx' = IF targets = {} THEN << >>
                          ELSE <<[item |-> item, todo |-> targets]>>
              /\ policy' = IF weighted THEN [policy EXCEPT ![item.src].rr = @ + 1] ELSE policy
              /\ window' = IF weighted THEN [window EXCEPT ![item.src] = NextWindow(item.src, S)]
                                       ELSE window
    /\ UNCHANGED <<kind, sideVars, rx_queue, recent_ids, in_rx, countVars,
                   removed, accepted, called, skipped>>

(* The loop visits the targets in ascending order. *)
Rest(todo) == LET others == todo \ {Min(todo)}
              IN  IF others = {} THEN << >> ELSE <<[in_tx[1] EXCEPT !.todo = others]>>

(* a target disabled since it was selected is passed over *)
TxSkip ==
    /\ in_tx # << >>
    /\ LET todo == in_tx[1].todo
       IN  ~sides[Min(todo)].egress /\ in_tx' = Rest(todo)
    /\ UNCHANGED <<kind, sideVars, policy, tx_queue, rx_queue, recent_ids, in_rx, countVars, ghostVars>>

(* Mutant: the router gives up at the first side that fails, as the relay does. *)
TxCallGivesUp(ok) ==
    /\ in_tx # << >>
    /\ LET todo == in_tx[1].todo   s == Min(todo)
       IN  /\ sides[s].egress
           /\ called' = called \cup ({s} \cap removed)
           /\ in_tx' = IF ok THEN Rest(todo) ELSE << >>
           /\ skipped' = IF ok THEN skipped ELSE skipped \cup {t \in todo \ {s} : sides[t].egress}
    /\ UNCHANGED <<kind, sideVars, policy, tx_queue, rx_queue, recent_ids, in_rx, countVars,
                   removed, accepted, window>>

(***************************************************************************)
(* One turn of transmit_item's loop: the driver of the next side is called *)
(* and may fail.  A router goes on to the next side, a relay gives up.     *)
(***************************************************************************)
TxCall(ok) ==
    /\ in_tx # << >>
    /\ LET todo == in_tx[1].todo   s == Min(todo)
       IN  /\ sides[s].egress
           /\ called' = called \cup ({s} \cap removed)
           /\ in_tx' = IF ok \/ kind # "relay" THEN Rest(todo) ELSE << >>
           /\ skipped' = IF ok \/ kind # "relay" THEN skipped
                         ELSE skipped \cup {t \in todo \ {s} : sides[t].egress}
    /\ UNCHANGED <<kind, sideVars, policy, tx_queue, rx_queue, recent_ids, in_rx, countVars,
                   removed, accepted, window>>

-----------------------------------------------------------------------------
(* What discovery does to the routes (module Discovery) *)

LearnRoute(s) ==
    /\ Idle /\ changes < MaxChanges /\ sides[s].ingress
    /\ \E eps \in Advertised :
          discovery_routes' = [t \in DOMAIN discovery_routes \cup {s} |->
              IF t = s THEN [endpoints |-> eps, live |-> TRUE] ELSE discovery_routes[t]]
    /\ changes' = changes + 1
    /\ UNCHANGED <<kind, sides, route_overrides, typed_route_overrides, policy,
                   queueVars, events, calls, ghostVars>>

ExpireRoute(s) ==
    /\ Idle /\ s \in DOMAIN discovery_routes /\ discovery_routes[s].live
    /\ discovery_routes' = [discovery_routes EXCEPT ![s].live = FALSE]
    /\ UNCHANGED <<kind, sides, route_overrides, typed_route_overrides, policy,
                   queueVars, countVars, ghostVars>>

-----------------------------------------------------------------------------
(***************************************************************************)
(* Management calls, from the application or from a callback under the     *)
(* lock.  Only removal and egress control can affect a fan-out that has    *)
(* begun; the other calls commute with it and are taken when it is over.   *)
(***************************************************************************)

Call ==
    /\ events < MaxEvents /\ events' = events + 1
    /\ calls < MaxCalls /\ calls' = calls + 1
ManageUnchanged == <<kind, recent_ids, in_tx, in_rx, changes,
                     accepted, called, skipped, window>>

AddSide ==
    /\ Idle /\ Call /\ Len(sides) < MaxSides
    /\ sides' = Append(sides, NewSide)
    /\ UNCHANGED <<discovery_routes, route_overrides, typed_route_overrides, policy,
                   tx_queue, rx_queue, removed, ManageUnchanged>>

(* What is left of a queue when only the positions I are kept: the n-th of *)
(* them is the one that n of them do not exceed.                           *)
Kept(queue, I) ==
    [n \in 1 .. Cardinality(I) |->
        queue[CHOOSE i \in I : Cardinality({j \in I : j <= i}) = n]]

(* Mutant: items queued for the side, rather than from it, are left behind. *)
WithoutTxFrom(s) == Kept(tx_queue, {i \in DOMAIN tx_queue : tx_queue[i].src # s})

(* erase_tx_items_for_side_locked, erase_rx_items_for_side_locked *)
WithoutTx(s) == Kept(tx_queue, {i \in DOMAIN tx_queue : s \notin {tx_queue[i].src, tx_queue[i].dst}})
WithoutRx(s) == Kept(rx_queue, {i \in DOMAIN rx_queue : rx_queue[i].src # s})

(***************************************************************************)
(* seds_router_remove_side, seds_relay_remove_side.  The slot stays, so    *)
(* other side ids keep their meaning.  A handler that removes the side its *)
(* own packet came in on is not counted in `removed': router_receive_impl  *)
(* queues the forwarded packet and the ACK after the handler returns.      *)
(***************************************************************************)
RemoveSide(s) ==
    /\ Call
    /\ sides' = [sides EXCEPT ![s].ingress = FALSE, ![s].egress = FALSE]
    /\ tx_queue' = WithoutTx(s)
    /\ rx_queue' = WithoutRx(s)
    /\ route_overrides' = [k \in Source \X Side |->
           IF s \in {k[1], k[2]} THEN "unset" ELSE route_overrides[k]]
    /\ typed_route_overrides' = [k \in Source \X Types \X Side |->
           IF s \in {k[1], k[3]} THEN "unset" ELSE typed_route_overrides[k]]
    /\ policy' = [q \in Source |-> IF q = s THEN NoPolicy
           ELSE [policy[q] EXCEPT !.weights[s] = 0, !.priorities[s] = DefaultPriority]]
    /\ discovery_routes' = Restrict(discovery_routes, DOMAIN discovery_routes \ {s})
    /\ removed' = IF in_rx # << >> /\ in_rx[1].src = s THEN removed ELSE removed \cup {s}
    /\ window' = [window EXCEPT ![s] = NoWindow]
    /\ UNCHANGED <<kind, recent_ids, in_tx, in_rx, changes, accepted, called, skipped>>

SetIngress(s) ==
    /\ Idle /\ Call
    /\ \E on \in BOOLEAN : sides' = [sides EXCEPT ![s].ingress = on]
    /\ removed' = removed \ {s}
    /\ UNCHANGED <<discovery_routes, route_overrides, typed_route_overrides, policy,
                   tx_queue, rx_queue, ManageUnchanged>>

SetEgress(s) ==
    /\ Call
    /\ \E on \in BOOLEAN :
          /\ sides' = [sides EXCEPT ![s].egress = on]
          /\ tx_queue' = IF on THEN tx_queue ELSE WithoutTx(s)
    /\ removed' = removed \ {s}
    /\ UNCHANGED <<discovery_routes, route_overrides, typed_route_overrides, policy,
                   rx_queue, ManageUnchanged>>

SetLinkLocal(s) ==
    /\ Idle /\ Call
    /\ \E on \in BOOLEAN : sides' = [sides EXCEPT ![s].link_local = on]
    /\ removed' = removed \ {s}
    /\ UNCHANGED <<discovery_routes, route_overrides, typed_route_overrides, policy,
                   tx_queue, rx_queue, ManageUnchanged>>

(* the route, typed route, mode, weight and priority calls, set and clear *)
SetRoute(src, dst) ==
    /\ \E o \in Override : route_overrides' = [route_overrides EXCEPT ![<<src, dst>>] = o]
    /\ UNCHANGED <<typed_route_overrides, policy>>
SetTypedRoute(src, dst) ==
    /\ \E ty \in Types, o \in Override :
          typed_route_overrides' = [typed_route_overrides EXCEPT ![<<src, ty, dst>>] = o]
    /\ UNCHANGED <<route_overrides, policy>>
SetPolicy(src, dst) ==
    /\ \/ \E m \in Modes : policy' = [policy EXCEPT ![src].mode = m]
       \/ \E w \in Weights \cup {0} : policy' = [policy EXCEPT ![src].weights[dst] = w]
       \/ \E n \in Priorities \cup {DefaultPriority} :
             policy' = [policy EXCEPT ![src].priorities[dst] = n]
    /\ UNCHANGED <<route_overrides, typed_route_overrides>>

RouteCall(src, dst) ==
    /\ Idle /\ Call
    /\ SetRoute(src, dst) \/ SetTypedRoute(src, dst) \/ SetPolicy(src, dst)
    /\ removed' = removed \ {src, dst}
    /\ UNCHANGED <<sides, discovery_routes, tx_queue, rx_queue, ManageUnchanged>>

-----------------------------------------------------------------------------

(***************************************************************************)
(* The two APIs.  The packed variants add a serialized side and then give  *)
(* it a transport profile, which routing does not read.                    *)
(***************************************************************************)
ManageSide(s) == RemoveSide(s) \/ SetIngress(s) \/ SetEgress(s) \/ SetLinkLocal(s)

RouterAddSide             == kind # "relay" /\ AddSide
RouterManageSide(s)       == kind # "relay" /\ ManageSide(s)
RouterRouteCall(src, dst) == kind # "relay" /\ RouteCall(src, dst)
RelayAddSide              == kind = "relay" /\ AddSide
RelayManageSide(s)        == kind = "relay" /\ ManageSide(s)
RelayRouteCall(src, dst)  == kind = "relay" /\ RouteCall(src, dst)

Next ==
    \/ \E s \in DOMAIN sides, p \in Packet :
          \/ RouterReceive(s, p)
          \/ RelayReceivePacket(s, p)
          \/ RelayReceiveSerialized(s, p)
    \/ \E p \in Packet : TransmitMessageQueue(p)
    \/ RouterRxStart \/ RouterRxEnd \/ RelayRx
    \/ TxStart \/ TxSkip
    \/ \E ok \in BOOLEAN : TxCall(ok)
    \/ \E s \in DOMAIN sides : LearnRoute(s) \/ ExpireRoute(s)
    \/ RouterAddSide \/ RelayAddSide
    \/ \E s \in DOMAIN sides : RouterManageSide(s) \/ RelayManageSide(s)
    \/ \E k \in RouteKeys : RouterRouteCall(k[1], k[2]) \/ RelayRouteCall(k[1], k[2])

Spec == Init /\ [][Next]_vars

-----------------------------------------------------------------------------

(***************************************************************************)
(* After remove_side nothing in the node refers to the side any more:      *)
(* nothing queued from or for it, no override, weight, priority or policy, *)
(* no discovery route, whatever was queued, configured or learned before,  *)
(* and its driver is never called again, not even for the rest of a        *)
(* fan-out that selected the side before a callback removed it.            *)
(***************************************************************************)
RemovedIsForgotten ==
    called = {} /\ \A s \in removed :
        /\ ~sides[s].ingress /\ ~sides[s].egress
        /\ \A item \in Range(tx_queue) : s \notin {item.src, item.dst}
        /\ \A item \in Range(rx_queue) : item.src # s
        /\ \A q \in Source : /\ route_overrides[<<q, s>>] = "unset"
                             /\ policy[q].weights[s] = 0
                             /\ policy[q].priorities[s] = DefaultPriority
        /\ \A d \in Side : route_overrides[<<s, d>>] = "unset"
        /\ \A d \in Side, ty \in Types : typed_route_overrides[<<s, ty, d>>] = "unset"
        /\ \A q \in Source, ty \in Types : typed_route_overrides[<<q, ty, s>>] = "unset"
        /\ policy[s].mode = "Fanout"
        /\ s \notin DOMAIN discovery_routes

(***************************************************************************)
(* The sides a routed packet is still to be sent on are never the one it   *)
(* came from, never one whose base route is disabled, typed route or not,  *)
(* and never a side outside the link for a link-local packet.              *)
(***************************************************************************)
RoutedWhereAllowed ==
    in_tx # << >> /\ in_tx[1].item.dst = 0 =>
        LET p == in_tx[1].item.pkt   src == in_tx[1].item.src
        IN  \A s \in in_tx[1].todo :
               /\ s # src
               /\ route_overrides[<<src, s>>] # "off"
               /\ LinkLocalOnly(p) => sides[s].link_local

(***************************************************************************)
(* In a router one side's failure costs no other side its copy             *)
(* (transmit_item keeps going); the relay's loop returns instead.          *)
(***************************************************************************)
FanoutSurvivesFailure == kind # "relay" => skipped = {}

(***************************************************************************)
(* Weighted selection: any `total weight' picks in a row among the same    *)
(* sides give each side exactly its weight, whatever rr_counter was when   *)
(* they began.  (remove_side starts the policy and its counter anew; the   *)
(* counter does not wrap.)                                                 *)
(***************************************************************************)
WeightedShare ==
    \A q \in Source :
        LET over == window[q].over   picks == window[q].picks
        IN  Len(picks) > 0 /\ Len(picks) = Cardinality(Tickets(over)) =>
               \A s \in DOMAIN over :
                  Cardinality({i \in DOMAIN picks : picks[i] = s}) = over[s]

(***************************************************************************)
(* A duplicate is let through only after max_recent_rx_ids other ids have  *)
(* been: between two equal keys at least MaxRecent different ones passed.  *)
(***************************************************************************)
SeenRecentlyIsDropped ==
    \A i, j \in DOMAIN accepted :
        i < j /\ accepted[i] = accepted[j] =>
            Cardinality({accepted[k] : k \in (i + 1) .. (j - 1)}) >= MaxRecent

=============================================================================
