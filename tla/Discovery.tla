------------------------------ MODULE Discovery ------------------------------
(***************************************************************************)
(* Discovery between routers and relays: src/discovery.cpp with the board  *)
(* helpers of Cpp-Headers/discovery_helpers.hpp.  Every node tells every   *)
(* neighbour, in three packets, which endpoints it reaches (ANNOUNCE),     *)
(* which time sources (TIMESYNC_SOURCES) and the whole graph of boards it  *)
(* has learned (TOPOLOGY); what is not refreshed within the TTL is pruned. *)
(*                                                                         *)
(* A tick is the kDiscoveryFastMs of the code.  Within a tick every packet *)
(* that was sent is received and every node is polled once, after it has   *)
(* handled what has arrived: an application that calls periodic more often *)
(* only refreshes more.  Ages stand for now_ms - last_seen_ms, so that a   *)
(* clock that steps back makes an age negative, which the unsigned         *)
(* difference turns into one far above the TTL.  A board or packet list is *)
(* sorted and has no duplicates in the code, hence the sets.  All sides    *)
(* have egress enabled; side removal is in Routing.  A leave packet comes  *)
(* from a node that runs another implementation of the protocol: this one  *)
(* handles it, but its own announce_leave sends nothing.                   *)
(***************************************************************************)
EXTENDS Integers, Sequences, FiniteSets, FiniteSetsExt, SequencesExt, Functions, TLC

CONSTANTS
    Nodes,
    Links,          \* the connected pairs, as ordered pairs in both directions
    LinkLocalSides, \* <<n, m>>: node n's side towards m has link_local_enabled
    LinkLocal,      \* the endpoints for which endpoint_link_local_only is true
    Networks,       \* the networks to look at: which nodes are relays, whether
                    \* packets are serialized between nodes, what each node hosts,
                    \* and a bound on the disturbances: packets lost, clocks stepped
                    \* back, nodes restarted, departures and announcements forced
    Sources,        \* node -> the time source ids it reports when it is a router
    Fast, Slow, Ttl,\* kDiscoveryFastMs, kDiscoverySlowMs, kDiscoveryTtlMs in ticks
    MayLeave        \* the nodes that may announce that they leave, and stop

ASSUME DiscoveryAssumption ==
    /\ Links \subseteq Nodes \X Nodes
    /\ \A l \in Links : <<l[2], l[1]>> \in Links
    /\ Fast \in Nat \ {0} /\ Slow \in Nat /\ Ttl \in Nat
    /\ Fast <= Slow /\ Slow < Ttl

VARIABLES
    net,        \* the network in use, one of Networks
    alive,      \* the nodes that have not left
    routes,     \* discovery_routes: node -> side -> announcer -> what it told
    interval,   \* discovery_interval_ms
    due,        \* discovery_next_ms - now_ms, at least 0
    wire,       \* the packets on each link
    handling,   \* the link a node is emptying, << >> when none
    polled,     \* the nodes polled in this tick
    faults, forced

vars == <<net, alive, routes, interval, due, wire, handling, polled, faults, forced>>

(* Another disturbance may happen. *)
Undisturbed == handling = << >> /\ faults + forced + Cardinality(Nodes \ alive) < net.disturbances

Neighbours(n) == {m \in Nodes : <<n, m>> \in Links}
IsRelay(n)    == n \in net.relays
Put(f, x, v)  == [y \in DOMAIN f \cup {x} |-> IF y = x THEN v ELSE f[y]]

(* SedsRouter::sender; every relay is called "RELAY". *)
Name(n) == IF IsRelay(n) THEN <<"RELAY">> ELSE <<n>>

(***************************************************************************)
(* The sender name a receiver sees.  A serialized packet carries only the  *)
(* hash of the name, so deserialize_packet makes up "@addr:<hash>", and a  *)
(* packet that is forwarded is hashed once more.                           *)
(***************************************************************************)
Received(name) == IF net.serialized THEN Append(name, "@addr") ELSE name

Init ==
    /\ net \in Networks
    /\ alive = Nodes
    /\ routes = [n \in Nodes |-> << >>]
    /\ interval = [n \in Nodes |-> Fast]
    /\ due = [n \in Nodes |-> 0]
    /\ wire = [l \in Links |-> << >>]
    /\ handling = << >> /\ polled = {} /\ faults = 0 /\ forced = 0

-----------------------------------------------------------------------------
(* Boards: functions from names to what is reached there *)

Board(eps, srcs, conns) == [eps |-> eps, srcs |-> srcs, conns |-> conns]
Endpoints(boards) == UNION {boards[b].eps : b \in DOMAIN boards}
TimeSources(boards) == UNION {boards[b].srcs : b \in DOMAIN boards}

(* remove_if(endpoint_link_local_only) unless the side has link_local_enabled *)
Filter(eps, side) == IF side \in LinkLocalSides THEN eps ELSE eps \ LinkLocal
FilterBoards(boards, side) ==
    [b \in DOMAIN boards |-> [boards[b] EXCEPT !.eps = Filter(@, side)]]

(* merge_topology_boards and normalize_topology_boards, for a set of graphs *)
Merged(graphs) ==
    [b \in UNION {DOMAIN g : g \in graphs} |->
        LET at == {g[b] : g \in {h \in graphs : b \in DOMAIN h}}
        IN  Board(UNION {x.eps : x \in at}, UNION {x.srcs : x \in at},
                  UNION {x.conns : x \in at} \ {b})]

Live(age) == 0 <= age /\ age <= Ttl

(* The announcers of node n heard within the TTL, with the side they are on *)
Announcers(n) ==
    {sa \in UNION {{s} \X DOMAIN routes[n][s] : s \in DOMAIN routes[n]} :
        Live(routes[n][sa[1]][sa[2]].age)}

(* local_router_topology_board, local_relay_topology_board *)
OwnBoard(n, side) ==
    [b \in {Name(n)} |-> Board(IF IsRelay(n) THEN {} ELSE Filter(net.hosts[n], side),
                               IF IsRelay(n) THEN {} ELSE Sources[n],
                               {sa[2] : sa \in Announcers(n)})]

(* Mutant: what was learned is not passed on. *)
AdvertisedOwnOnly(n, side) == Merged({OwnBoard(n, side)})

(* What an announcer told, with this node in the connections of its own board *)
PassedOn(n, side, s, a) ==
    LET told == routes[n][s][a].boards
    IN  FilterBoards(
           IF told = << >> THEN [b \in {a} |-> Board({}, {}, {Name(n)})]
           ELSE [b \in DOMAIN told |->
                   IF b = a THEN [told[b] EXCEPT !.conns = @ \cup {Name(n)}]
                   ELSE told[b]],
           side)

(***************************************************************************)
(* advertised_discovery_topology_for_side: the own board and the boards    *)
(* told by every announcer on every side, the one asked for included.      *)
(***************************************************************************)
Advertised(n, side) ==
    Merged({OwnBoard(n, side)} \cup
           {PassedOn(n, side, sa[1], sa[2]) : sa \in Announcers(n)})

(* The `routers' of export_topology_snapshot, which asks for side -1. *)
Snapshot(n) == Advertised(n, << >>)

-----------------------------------------------------------------------------
(* queue_discovery_packets *)

Pruned(n) ==
    LET heard(s) == {a \in DOMAIN routes[n][s] : Live(routes[n][s][a].age)}
    IN  [s \in {t \in DOMAIN routes[n] : heard(t) # {}} |->
            Restrict(routes[n][s], heard(s))]

NextInterval(i) == Min({2 * i, Slow})

(***************************************************************************)
(* The three packets a side gets: each is put at the front of the queue,   *)
(* so they leave in the reverse order.  No announcement is sent about time *)
(* sources when none is known.                                             *)
(***************************************************************************)
Packets(n, m) ==
    LET boards == Advertised(n, <<n, m>>)
        Pkt(ty, body) == [ty |-> ty, name |-> Received(Name(n)), body |-> body]
    IN  <<Pkt("ANNOUNCE", Filter(Endpoints(boards), <<n, m>>))>>
        \o (IF TimeSources(boards) = {} THEN << >>
            ELSE <<Pkt("TIMESYNC_SOURCES", TimeSources(boards))>>)
        \o <<Pkt("TOPOLOGY", boards)>>

(* Expired routes are gone before anything is advertised. *)
QueueDiscoveryPackets(n) ==
    LET i == IF Pruned(n) # routes[n] THEN Fast ELSE interval[n]
    IN  /\ routes' = [routes EXCEPT ![n] = Pruned(n)]
        /\ wire' = [l \in Links |-> IF l[1] = n THEN wire[l] \o Packets(n, l[2]) ELSE wire[l]]
        /\ due' = [due EXCEPT ![n] = i]
        /\ interval' = [interval EXCEPT ![n] = NextInterval(i)]

(* seds_router_poll_discovery, seds_relay_poll_discovery *)
PollDiscovery(n) ==
    /\ n \in alive \ polled
    /\ handling = << >> /\ \A m \in Neighbours(n) : wire[<<m, n>>] = << >>
    /\ polled' = polled \cup {n}
    /\ \/ due[n] = 0 /\ QueueDiscoveryPackets(n)
       \/ due[n] > 0 /\ UNCHANGED <<routes, interval, due, wire>>
    /\ UNCHANGED <<net, handling, alive, faults, forced>>

(* seds_router_announce_discovery, seds_relay_announce_discovery *)
AnnounceDiscovery(n) ==
    /\ n \in alive /\ Undisturbed
    /\ forced' = forced + 1
    /\ QueueDiscoveryPackets(n)
    /\ UNCHANGED <<net, handling, alive, polled, faults>>

-----------------------------------------------------------------------------
(* handle_discovery_packet *)

(* prune_leaving_discovery_sender *)
WithoutLeaving(rs, name) ==
    LET rest(s)   == DOMAIN rs[s] \ {name}
        clean(bs) == [b \in DOMAIN bs \ {name} |-> [bs[b] EXCEPT !.conns = @ \ {name}]]
    IN  [s \in {t \in DOMAIN rs : rest(t) # {}} |->
            [a \in rest(s) |-> [rs[s][a] EXCEPT !.boards = clean(@)]]]

(* Mutant: the receiver trusts the sender to have filtered. *)
ToldUnfiltered(boards, pkt, side) ==
    LET own == IF pkt.name \in DOMAIN boards THEN boards[pkt.name] ELSE Board({}, {}, {})
    IN  CASE pkt.ty = "ANNOUNCE" ->
                Put(boards, pkt.name, [own EXCEPT !.eps = pkt.body])
          [] pkt.ty = "TIMESYNC_SOURCES" ->
                Put(boards, pkt.name, [own EXCEPT !.srcs = pkt.body])
          [] pkt.ty = "TOPOLOGY" -> pkt.body

(* The boards of an announcer after one of its packets. *)
Told(boards, pkt, side) ==
    LET own == IF pkt.name \in DOMAIN boards THEN boards[pkt.name] ELSE Board({}, {}, {})
    IN  CASE pkt.ty = "ANNOUNCE" ->
                Put(boards, pkt.name, [own EXCEPT !.eps = Filter(pkt.body, side)])
          [] pkt.ty = "TIMESYNC_SOURCES" ->
                Put(boards, pkt.name, [own EXCEPT !.srcs = pkt.body])
          [] pkt.ty = "TOPOLOGY" -> FilterBoards(pkt.body, side)

(***************************************************************************)
(* Whether a packet says something new: an ANNOUNCE is compared before its *)
(* link-local endpoints are taken out, a TOPOLOGY after.                   *)
(***************************************************************************)
Changed(boards, pkt, side) ==
    LET own == IF pkt.name \in DOMAIN boards THEN boards[pkt.name] ELSE Board({}, {}, {})
    IN  CASE pkt.ty = "ANNOUNCE" -> own.eps # pkt.body
          [] pkt.ty = "TIMESYNC_SOURCES" -> own.srcs # pkt.body
          [] pkt.ty = "TOPOLOGY" -> boards # FilterBoards(pkt.body, side)

(* note_discovery_topology_change *)
NoteChange(n, changed) ==
    /\ interval' = [interval EXCEPT ![n] = IF changed THEN Fast ELSE @]
    /\ due' = [due EXCEPT ![n] = IF changed THEN 0 ELSE @]

HandleLeave(n, pkt) ==
    /\ routes' = [routes EXCEPT ![n] = WithoutLeaving(@, pkt.name)]
    /\ NoteChange(n, WithoutLeaving(routes[n], pkt.name) # routes[n])

(* Mutant: only a packet that changes something counts as being heard of. *)
HandleNewsIfChanged(n, m, pkt) ==
    LET side  == IF m \in DOMAIN routes[n] THEN routes[n][m] ELSE << >>
        known == IF pkt.name \in DOMAIN side THEN side[pkt.name].boards ELSE << >>
        news  == [boards |-> Told(known, pkt, <<n, m>>),
                  age |-> IF Changed(known, pkt, <<n, m>>) \/ pkt.name \notin DOMAIN side
                          THEN 0 ELSE side[pkt.name].age]
    IN  /\ routes' = [routes EXCEPT ![n] = Put(@, m, Put(side, pkt.name, news))]
        /\ NoteChange(n, Changed(known, pkt, <<n, m>>))

HandleNews(n, m, pkt) ==
    LET side  == IF m \in DOMAIN routes[n] THEN routes[n][m] ELSE << >>
        known == IF pkt.name \in DOMAIN side THEN side[pkt.name].boards ELSE << >>
        news  == [boards |-> Told(known, pkt, <<n, m>>), age |-> 0]
    IN  /\ routes' = [routes EXCEPT ![n] = Put(@, m, Put(side, pkt.name, news))]
        /\ NoteChange(n, Changed(known, pkt, <<n, m>>))

(* A router ignores what it sent itself; a relay looks at everything. *)
HandleDiscoveryPacket(n, m, pkt) ==
    \/ /\ ~IsRelay(n) /\ pkt.name = Name(n)
       /\ UNCHANGED <<routes, interval, due>>
    \/ /\ IsRelay(n) \/ pkt.name # Name(n)
       /\ IF pkt.ty = "LEAVE" THEN HandleLeave(n, pkt) ELSE HandleNews(n, m, pkt)

(* relay_receive_impl also forwards the packet, as it came, to its other sides. *)
Forwarded(n, m, pkt) ==
    [l \in Links |-> IF l[1] = n /\ l[2] # m /\ IsRelay(n)
                     THEN Append(wire[l], [pkt EXCEPT !.name = Received(@)])
                     ELSE wire[l]]

(* Node n, if it is still there, handles the next packet from m. *)
Deliver(m, n) ==
    /\ wire[<<m, n>>] # << >> /\ handling \in {<<m, n>>, << >>}
    /\ handling' = IF Len(wire[<<m, n>>]) > 1 THEN <<m, n>> ELSE << >>
    /\ \/ /\ n \in alive
          /\ HandleDiscoveryPacket(n, m, Head(wire[<<m, n>>]))
          /\ wire' = [Forwarded(n, m, Head(wire[<<m, n>>])) EXCEPT ![<<m, n>>] = Tail(@)]
       \/ /\ n \notin alive
          /\ wire' = [wire EXCEPT ![<<m, n>>] = Tail(@)]
          /\ UNCHANGED <<routes, interval, due>>
    /\ UNCHANGED <<net, alive, polled, faults, forced>>

-----------------------------------------------------------------------------
(* Time, faults and departures *)

Aged(rs, d) ==
    [s \in DOMAIN rs |-> [a \in DOMAIN rs[s] |->
        [rs[s][a] EXCEPT !.age = Min({@ + d, Ttl + 1})]]]

Tick ==
    /\ alive \subseteq polled
    /\ \A l \in Links : wire[l] = << >>
    /\ polled' = {}
    /\ routes' = [n \in Nodes |-> Aged(routes[n], 1)]
    /\ due' = [n \in Nodes |-> Max({due[n] - 1, 0})]
    /\ UNCHANGED <<net, handling, alive, interval, wire, faults, forced>>

(* One of the packets on a link is lost. *)
Lose(l, i) ==
    /\ Undisturbed
    /\ faults' = faults + 1
    /\ wire' = [wire EXCEPT ![l] = RemoveAt(@, i)]
    /\ UNCHANGED <<net, handling, alive, routes, interval, due, polled, forced>>

(* The clock callback of node n steps back by one tick. *)
StepBack(n) ==
    /\ Undisturbed /\ n \in alive
    /\ faults' = faults + 1
    /\ routes' = [routes EXCEPT ![n] = Aged(@, -1)]
    /\ due' = [due EXCEPT ![n] = @ + 1]
    /\ UNCHANGED <<net, handling, alive, interval, wire, polled, forced>>

(* Node n is freed and created again: nothing is kept. *)
Restart(n) ==
    /\ Undisturbed /\ n \in alive
    /\ faults' = faults + 1
    /\ routes' = [routes EXCEPT ![n] = << >>]
    /\ interval' = [interval EXCEPT ![n] = Fast]
    /\ due' = [due EXCEPT ![n] = 0]
    /\ UNCHANGED <<net, handling, alive, wire, polled, forced>>

(* Node n (external) sends a leave packet on all its sides and is heard of *)
(* no more.                                                                *)
Leave(n) ==
    /\ Undisturbed /\ n \in alive \cap MayLeave
    /\ alive' = alive \ {n}
    /\ wire' = [l \in Links |-> IF l[1] = n
                  THEN Append(wire[l], [ty |-> "LEAVE", name |-> Received(Name(n)), body |-> {}])
                  ELSE wire[l]]
    /\ UNCHANGED <<net, handling, routes, interval, due, polled, faults, forced>>

(* What the applications and their drivers keep doing. *)
Work ==
    \/ Tick
    \/ \E n \in Nodes : PollDiscovery(n)
    \/ \E l \in Links : Deliver(l[1], l[2])

Next ==
    \/ Work
    \/ \E n \in Nodes : \/ AnnounceDiscovery(n)
                        \/ StepBack(n)
                        \/ Restart(n)
                        \/ Leave(n)
    \/ \E l \in Links : \E i \in DOMAIN wire[l] : Lose(l, i)

Spec == Init /\ [][Next]_vars /\ WF_vars(Work)

-----------------------------------------------------------------------------
(* Properties *)

Reached(n) == UNION {Endpoints(routes[n][sa[1]][sa[2]].boards) :
                        sa \in Announcers(n)}

(***************************************************************************)
(* A link-local endpoint is known on a side only if that side is link-     *)
(* local-enabled and so is the side it was announced from: each end of a   *)
(* link filters for itself.  A relay's half does not count: it forwards    *)
(* the announcements of others without filtering them.                     *)
(***************************************************************************)
LinkLocalStaysOnLink ==
    \A n \in Nodes : \A s \in DOMAIN routes[n] : \A a \in DOMAIN routes[n][s] :
        Endpoints(routes[n][s][a].boards) \cap LinkLocal # {} =>
            /\ <<n, s>> \in LinkLocalSides
            /\ IsRelay(s) \/ <<s, n>> \in LinkLocalSides

(***************************************************************************)
(* As long as nothing is lost, no clock steps back and nobody leaves, a    *)
(* node that was heard is never forgotten: whatever the back-off has made  *)
(* of the announcement interval, the next announcement comes in time.      *)
(***************************************************************************)
HeardIsKept ==
    [][ faults' = 0 /\ alive' = Nodes =>
          \A n \in Nodes : \A s \in DOMAIN routes[n] : \A a \in DOMAIN routes[n][s] :
             /\ s \in DOMAIN routes'[n] /\ a \in DOMAIN routes'[n][s]
             /\ Live(routes'[n][s][a].age) ]_vars

(***************************************************************************)
(* Every node ends up, for good, with routes to the endpoints of all the   *)
(* nodes that stay, however packets were lost, clocks stepped back and     *)
(* nodes restarted on the way.                                             *)
(***************************************************************************)
Converges ==
    <>[](\A n, m \in alive :
            m # n /\ ~IsRelay(m) => net.hosts[m] \ LinkLocal \subseteq Reached(n))

(***************************************************************************)
(* Once a node has left, it disappears for good from the topology that     *)
(* the others export.                                                      *)
(***************************************************************************)
LeftIsForgotten ==
    \A m \in Nodes : [](m \notin alive =>
        <>[](\A n \in alive : Name(m) \notin DOMAIN Snapshot(n)))
=============================================================================
