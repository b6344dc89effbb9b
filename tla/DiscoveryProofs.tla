--------------------------- MODULE DiscoveryProofs ---------------------------
(***************************************************************************)
(* Proofs about Discovery, for every network, any choice of relays and     *)
(* link-local sides: link-local endpoints stay on their link whatever is   *)
(* lost, restarted, stepped back or left, and what was heard is kept as    *)
(* long as nothing of that happens.                                        *)
(***************************************************************************)
EXTENDS Discovery, SequenceTheorems, TLAPS

-----------------------------------------------------------------------------
(* Boards *)

IsBoard(x) == x = Board(x.eps, x.srcs, x.conns)
IsGraph(g) == \A b \in DOMAIN g : IsBoard(g[b])
Clean(g)   == \A b \in DOMAIN g : g[b].eps \cap LinkLocal = {}

(* A board has the endpoints it was made with. *)
LEMMA BoardIs ==
  ASSUME NEW eps, NEW srcs, NEW conns, NEW x, x = Board(eps, srcs, conns)
  PROVE  IsBoard(x) /\ x.eps = eps
  BY DEF IsBoard, Board

WithEps(x, v)   == [x EXCEPT !.eps = v]
WithSrcs(x, v)  == [x EXCEPT !.srcs = v]
WithConns(x, v) == [x EXCEPT !.conns = v]

(* A board with other endpoints, sources or connections is a board. *)
LEMMA BoardExcept ==
  ASSUME NEW x, IsBoard(x), NEW v
  PROVE  /\ IsBoard(WithEps(x, v)) /\ WithEps(x, v).eps = v
         /\ IsBoard(WithSrcs(x, v)) /\ WithSrcs(x, v).eps = x.eps
         /\ IsBoard(WithConns(x, v)) /\ WithConns(x, v).eps = x.eps
  <1>1. PICK e, s, c : x = [eps |-> e, srcs |-> s, conns |-> c]
    BY DEF IsBoard, Board
  <1>2. /\ WithEps(x, v) = Board(v, s, c)
        /\ WithSrcs(x, v) = Board(e, v, c)
        /\ WithConns(x, v) = Board(e, s, v)
    BY <1>1 DEF Board, WithEps, WithSrcs, WithConns
  <1>3. x.eps = e
    BY <1>1
  <1> QED
    BY <1>2, <1>3, BoardIs

(* A graph is clean when its endpoints are. *)
LEMMA CleanIs == \A g : Clean(g) <=> Endpoints(g) \cap LinkLocal = {}
  BY DEF Clean, Endpoints

(* The filter of a side that is not link-local takes link-local endpoints out. *)
LEMMA FilterIs ==
  ASSUME NEW eps, NEW side
  PROVE  /\ side \notin LinkLocalSides => Filter(eps, side) \cap LinkLocal = {}
         /\ eps \cap LinkLocal = {} => Filter(eps, side) \cap LinkLocal = {}
  BY DEF Filter

(* A filtered graph is one, and clean unless the side is link-local. *)
LEMMA FilterGraph ==
  ASSUME NEW g, IsGraph(g), NEW side
  PROVE  /\ IsGraph(FilterBoards(g, side))
         /\ side \notin LinkLocalSides => Clean(FilterBoards(g, side))
         /\ Clean(g) => Clean(FilterBoards(g, side))
  <1>1. PICK h : h = FilterBoards(g, side)
    OBVIOUS
  <1>2. DOMAIN h = DOMAIN g /\ \A b \in DOMAIN g : h[b] = [g[b] EXCEPT !.eps = Filter(g[b].eps, side)]
    BY <1>1 DEF FilterBoards
  <1>3. \A b \in DOMAIN g : IsBoard(h[b]) /\ h[b].eps = Filter(g[b].eps, side)
    <2> TAKE b \in DOMAIN g
    <2>1. IsBoard(g[b])
      BY DEF IsGraph
    <2>2. h[b] = WithEps(g[b], Filter(g[b].eps, side))
      BY <1>2 DEF WithEps
    <2> QED
      BY <2>1, <2>2, BoardExcept
  <1>4. IsGraph(h)
    BY <1>2, <1>3 DEF IsGraph
  <1>5. side \notin LinkLocalSides => Clean(h)
    BY <1>2, <1>3, FilterIs DEF Clean
  <1>6. Clean(g) => Clean(h)
    BY <1>2, <1>3, FilterIs DEF Clean
  <1> QED
    BY <1>1, <1>4, <1>5, <1>6

(* Merging clean graphs gives a clean graph. *)
LEMMA MergedGraph ==
  ASSUME NEW G
  PROVE  /\ IsGraph(Merged(G))
         /\ (\A g \in G : Clean(g)) => Clean(Merged(G))
  <1> DEFINE D == UNION {DOMAIN g : g \in G}
             at(b) == {g[b] : g \in {h \in G : b \in DOMAIN h}}
             eps(b) == UNION {x.eps : x \in at(b)}
             m == Merged(G)
  <1>1. m = [b \in D |-> Board(eps(b), UNION {x.srcs : x \in at(b)},
                               UNION {x.conns : x \in at(b)} \ {b})]
    BY DEF Merged
  <1>2. DOMAIN m = D /\ \A b \in D : IsBoard(m[b]) /\ m[b].eps = eps(b)
    <2>1. DOMAIN m = D
      BY <1>1
    <2>2. ASSUME NEW b \in D PROVE IsBoard(m[b]) /\ m[b].eps = eps(b)
      <3>1. m[b] = Board(eps(b), UNION {x.srcs : x \in at(b)},
                         UNION {x.conns : x \in at(b)} \ {b})
        BY <1>1
      <3> HIDE DEF m, eps, at
      <3> QED
        BY <3>1, BoardIs
    <2> HIDE DEF m, eps, D
    <2> QED
      BY <2>1, <2>2
  <1>3. IsGraph(m)
    <2> HIDE DEF m, eps, D
    <2> QED
      BY <1>2 DEF IsGraph
  <1>4. ASSUME \A g \in G : Clean(g) PROVE Clean(m)
    <2>1. \A b \in D : eps(b) \cap LinkLocal = {}
      BY <1>4 DEF Clean
    <2> HIDE DEF m, eps, D
    <2> QED
      BY <1>2, <2>1 DEF Clean
  <1> QED
    BY <1>3, <1>4

-----------------------------------------------------------------------------
(* The invariant *)

(* What is told on link l is fit for link-local endpoints, or has none. *)
MayTell(l) == l \in LinkLocalSides \/ IsRelay(l[1])
MayKnow(n, s) == <<n, s>> \in LinkLocalSides /\ MayTell(<<s, n>>)

PktOk(pkt, l) ==
    /\ pkt = [ty |-> pkt.ty, name |-> pkt.name, body |-> pkt.body]
    /\ pkt.ty \in {"ANNOUNCE", "TIMESYNC_SOURCES", "TOPOLOGY", "LEAVE"}
    /\ pkt.ty = "ANNOUNCE" => MayTell(l) \/ pkt.body \cap LinkLocal = {}
    /\ pkt.ty = "TOPOLOGY" => IsGraph(pkt.body) /\ (MayTell(l) \/ Clean(pkt.body))

(* The packets of a link: nothing link-local unless the link may carry it. *)
WireOk(w, l) == (\E S : w \in Seq(S)) /\ \A i \in DOMAIN w : PktOk(w[i], l)

EntryOk(e, n, s) ==
    /\ e = [boards |-> e.boards, age |-> e.age]
    /\ IsGraph(e.boards)
    /\ MayKnow(n, s) \/ Clean(e.boards)

(* What node n was told: nothing link-local unless the link may carry it. *)
RoutesOk(r, n) == \A s \in DOMAIN r : \A a \in DOMAIN r[s] : EntryOk(r[s][a], n, s)

LinkInv ==
    /\ wire = [l \in Links |-> wire[l]]
    /\ \A l \in Links : WireOk(wire[l], l)
    /\ routes = [n \in Nodes |-> routes[n]]
    /\ \A n \in Nodes : RoutesOk(routes[n], n)

(* Every packet a node announces itself is fit for the link it is sent on. *)
LEMMA AdvertisedIs ==
  ASSUME NEW n, RoutesOk(routes[n], n), NEW side
  PROVE  /\ IsGraph(Advertised(n, side))
         /\ side \notin LinkLocalSides => Clean(Advertised(n, side))
  <1>1. Clean(OwnBoard(n, side)) \/ side \in LinkLocalSides
    <2>1. \A eps, srcs, conns : Board(eps, srcs, conns).eps = eps
      BY DEF Board
    <2>2. ASSUME side \notin LinkLocalSides
          PROVE  Filter(net.hosts[n], side) \cap LinkLocal = {}
      BY <2>2, FilterIs
    <2> QED
      BY <2>1, <2>2 DEF Clean, OwnBoard
  <1>2. ASSUME NEW sa \in Announcers(n), side \notin LinkLocalSides
        PROVE  Clean(PassedOn(n, side, sa[1], sa[2]))
    <2>1. sa[1] \in DOMAIN routes[n] /\ sa[2] \in DOMAIN routes[n][sa[1]]
      BY DEF Announcers
    <2>2. PICK s : s = sa[1]
      OBVIOUS
    <2>3. PICK a : a = sa[2]
      OBVIOUS
    <2>4. PICK told : told = routes[n][s][a].boards
      OBVIOUS
    <2>5. IsGraph(told)
      BY <2>1, <2>2, <2>3, <2>4 DEF RoutesOk, EntryOk
    <2>6. PICK g : g = IF told = << >> THEN [b \in {a} |-> Board({}, {}, {Name(n)})]
                       ELSE [b \in DOMAIN told |->
                               IF b = a THEN WithConns(told[b], told[b].conns \cup {Name(n)})
                               ELSE told[b]]
      OBVIOUS
    <2>7. PassedOn(n, side, s, a) = FilterBoards(g, side)
      BY <2>4, <2>6 DEF PassedOn, WithConns
    <2>8. IsGraph(g)
      <3>1. CASE told = << >>
        <4>1. g = [b \in {a} |-> Board({}, {}, {Name(n)})]
          BY <2>6, <3>1
        <4>2. IsBoard(Board({}, {}, {Name(n)}))
          BY BoardIs
        <4> QED
          BY <4>1, <4>2 DEF IsGraph
      <3>2. CASE told # << >>
        <4>1. g = [b \in DOMAIN told |->
                     IF b = a THEN WithConns(told[b], told[b].conns \cup {Name(n)})
                     ELSE told[b]]
          BY <2>6, <3>2
        <4>2. \A b \in DOMAIN told : IsBoard(told[b]) /\ \A v : IsBoard(WithConns(told[b], v))
          BY <2>5, BoardExcept DEF IsGraph
        <4> QED
          BY <4>1, <4>2 DEF IsGraph
      <3> QED
        BY <3>1, <3>2
    <2>9. Clean(FilterBoards(g, side))
      BY <1>2, <2>8, FilterGraph
    <2> QED
      BY <2>2, <2>3, <2>7, <2>9
  <1>3. PICK G : G = {OwnBoard(n, side)} \cup
                     {PassedOn(n, side, sa[1], sa[2]) : sa \in Announcers(n)}
    OBVIOUS
  <1>4. Advertised(n, side) = Merged(G)
    BY <1>3 DEF Advertised
  <1>5. side \notin LinkLocalSides => \A g \in G : Clean(g)
    BY <1>1, <1>2, <1>3
  <1> QED
    BY <1>4, <1>5, MergedGraph

(* A packet is what it was made of. *)
LEMMA PktIs ==
  ASSUME NEW ty, NEW name, NEW body, NEW p, p = [ty |-> ty, name |-> name, body |-> body]
  PROVE  p.ty = ty /\ p.name = name /\ p.body = body /\ p = [ty |-> p.ty, name |-> p.name, body |-> p.body]
  OBVIOUS

(* One packet on a link, or none. *)
LEMMA OneOk ==
  ASSUME NEW l
  PROVE  WireOk(<< >>, l) /\ \A p : PktOk(p, l) => WireOk(<<p>>, l)
  <1>1. WireOk(<< >>, l)
    <2>1. << >> \in Seq({}) /\ DOMAIN << >> = {}
      OBVIOUS
    <2> QED
      BY <2>1 DEF WireOk
  <1>2. ASSUME NEW p, PktOk(p, l) PROVE WireOk(<<p>>, l)
    <2>1. <<p>> \in Seq({p}) /\ DOMAIN <<p>> = {1} /\ <<p>>[1] = p
      OBVIOUS
    <2> QED
      BY <1>2, <2>1 DEF WireOk
  <1> QED
    BY <1>1, <1>2

(* More packets on a link. *)
LEMMA ConcatOk ==
  ASSUME NEW a, NEW b, NEW l, WireOk(a, l), WireOk(b, l)
  PROVE  WireOk(a \o b, l)
  <1>1. PICK S : a \in Seq(S)
    BY DEF WireOk
  <1>2. PICK T : b \in Seq(T)
    BY DEF WireOk
  <1>3. PICK U : U = S \cup T
    OBVIOUS
  <1>4. a \in Seq(U) /\ b \in Seq(U)
    BY <1>1, <1>2, <1>3
  <1>5. a \o b \in Seq(U)
    BY <1>4
  <1>6. PICK c \in Seq(U) : c = a \o b
    BY <1>5
  <1>7. PICK n \in Nat : n = Len(a)
    BY <1>4
  <1>8. PICK k \in Nat : k = Len(b)
    BY <1>4
  <1>9. DOMAIN a = 1 .. n /\ DOMAIN b = 1 .. k /\ DOMAIN c = 1 .. n + k
    BY <1>4, <1>6, <1>7, <1>8
  <1>10. /\ \A i \in 1 .. n : c[i] = a[i]
         /\ \A i \in 1 .. n + k : i > n => c[i] = b[i - n]
    BY <1>4, <1>6, <1>7, <1>8
  <1>11. ASSUME NEW i \in DOMAIN c PROVE PktOk(c[i], l)
    <2>1. CASE i <= n
      <3>1. i \in DOMAIN a /\ c[i] = a[i]
        BY <1>9, <1>10, <2>1
      <3> QED
        BY <3>1 DEF WireOk
    <2>2. CASE i > n
      <3>1. i - n \in DOMAIN b /\ c[i] = b[i - n]
        BY <1>9, <1>10, <2>2
      <3> QED
        BY <3>1 DEF WireOk
    <2>3. i <= n \/ i > n
      BY <1>9
    <2> QED
      BY <2>1, <2>2, <2>3
  <1> QED
    BY <1>5, <1>6, <1>11 DEF WireOk

(* Fewer packets on a link. *)
LEMMA TailOk ==
  ASSUME NEW a, NEW l, WireOk(a, l), a # << >>
  PROVE  WireOk(Tail(a), l) /\ PktOk(Head(a), l)
  <1>1. PICK S : a \in Seq(S)
    BY DEF WireOk
  <1>2. Tail(a) \in Seq(S) /\ Head(a) = a[1] /\ 1 \in DOMAIN a
    BY <1>1
  <1>3. \A i \in DOMAIN Tail(a) : i + 1 \in DOMAIN a /\ Tail(a)[i] = a[i + 1]
    BY <1>1
  <1> QED
    BY <1>2, <1>3 DEF WireOk

(* One packet less on a link. *)
LEMMA LoseOk ==
  ASSUME NEW a, NEW l, WireOk(a, l), NEW i \in DOMAIN a
  PROVE  WireOk(RemoveAt(a, i), l)
  <1>1. PICK S : a \in Seq(S)
    BY DEF WireOk
  <1>2. PICK n \in Nat : n = Len(a)
    BY <1>1
  <1>3. DOMAIN a = 1 .. n /\ i \in 1 .. n
    BY <1>1, <1>2
  <1>4. PICK j : j = i - 1 /\ j \in 0 .. n
    BY <1>3
  <1>5. PICK k : k = i + 1 /\ k \in 2 .. n + 1
    BY <1>3
  <1>6. PICK b : b = SubSeq(a, 1, j)
    OBVIOUS
  <1>7. PICK c : c = SubSeq(a, k, n)
    OBVIOUS
  <1>8. RemoveAt(a, i) = b \o c
    BY <1>2, <1>4, <1>5, <1>6, <1>7 DEF RemoveAt
  <1>9. b \in Seq(S) /\ \A x \in DOMAIN b : x \in DOMAIN a /\ b[x] = a[x]
    <2>1. b \in Seq(S) /\ DOMAIN b = 1 .. j
      BY <1>1, <1>2, <1>3, <1>4, <1>6
    <2>2. \A x \in 1 .. j : b[x] = a[x]
      BY <1>1, <1>2, <1>3, <1>4, <1>6
    <2> QED
      BY <1>3, <1>4, <2>1, <2>2
  <1>10. c \in Seq(S) /\ \A x \in DOMAIN c : (x + k) - 1 \in DOMAIN a /\ c[x] = a[(x + k) - 1]
    <2>1. c \in Seq(S) /\ DOMAIN c = 1 .. (n + 1) - k
      BY <1>1, <1>2, <1>3, <1>5, <1>7
    <2>2. \A x \in 1 .. (n + 1) - k : c[x] = a[(x + k) - 1]
      BY <1>1, <1>2, <1>3, <1>5, <1>7
    <2>3. \A x \in 1 .. (n + 1) - k : (x + k) - 1 \in 1 .. n
      BY <1>5
    <2> QED
      BY <1>3, <2>1, <2>2, <2>3
  <1>11. WireOk(b, l) /\ WireOk(c, l)
    BY <1>9, <1>10 DEF WireOk
  <1> QED
    BY <1>8, <1>11, ConcatOk

(* The packets of queue_discovery_packets. *)
LEMMA PacketsOk ==
  ASSUME NEW n, RoutesOk(routes[n], n), NEW m
  PROVE  WireOk(Packets(n, m), <<n, m>>)
  <1>1. PICK boards : boards = Advertised(n, <<n, m>>)
    OBVIOUS
  <1>2. IsGraph(boards) /\ (<<n, m>> \notin LinkLocalSides => Clean(boards))
    BY <1>1, AdvertisedIs
  <1>3. PICK name : name = Received(Name(n))
    OBVIOUS
  <1>4. PICK p1 : p1 = [ty |-> "ANNOUNCE", name |-> name, body |-> Filter(Endpoints(boards), <<n, m>>)]
    OBVIOUS
  <1>5. PICK p2 : p2 = [ty |-> "TIMESYNC_SOURCES", name |-> name, body |-> TimeSources(boards)]
    OBVIOUS
  <1>6. PICK p3 : p3 = [ty |-> "TOPOLOGY", name |-> name, body |-> boards]
    OBVIOUS
  <1>7. PktOk(p1, <<n, m>>)
    <2>1. /\ p1.ty = "ANNOUNCE" /\ p1.body = Filter(Endpoints(boards), <<n, m>>)
          /\ p1 = [ty |-> p1.ty, name |-> p1.name, body |-> p1.body]
      BY <1>4, PktIs
    <2>2. <<n, m>> \notin LinkLocalSides => Filter(Endpoints(boards), <<n, m>>) \cap LinkLocal = {}
      BY FilterIs
    <2> QED
      BY <2>1, <2>2 DEF PktOk, MayTell
  <1>8. PktOk(p2, <<n, m>>)
    <2>1. /\ p2.ty = "TIMESYNC_SOURCES"
          /\ p2 = [ty |-> p2.ty, name |-> p2.name, body |-> p2.body]
      BY <1>5, PktIs
    <2> QED
      BY <2>1 DEF PktOk
  <1>9. PktOk(p3, <<n, m>>)
    <2>1. /\ p3.ty = "TOPOLOGY" /\ p3.body = boards
          /\ p3 = [ty |-> p3.ty, name |-> p3.name, body |-> p3.body]
      BY <1>6, PktIs
    <2> QED
      BY <1>2, <2>1 DEF PktOk, MayTell
  <1>10. Packets(n, m) = <<p1>> \o (IF TimeSources(boards) = {} THEN << >> ELSE <<p2>>) \o <<p3>>
    BY <1>1, <1>3, <1>4, <1>5, <1>6 DEF Packets
  <1>11. WireOk(<<p1>>, <<n, m>>) /\ WireOk(<<p2>>, <<n, m>>) /\ WireOk(<<p3>>, <<n, m>>)
         /\ WireOk(<< >>, <<n, m>>)
    BY <1>7, <1>8, <1>9, OneOk
  <1>12. PICK w : w = IF TimeSources(boards) = {} THEN << >> ELSE <<p2>>
    OBVIOUS
  <1>13. WireOk(w, <<n, m>>)
    BY <1>11, <1>12
  <1>14. WireOk(<<p1>> \o w, <<n, m>>)
    BY <1>11, <1>13, ConcatOk
  <1>15. WireOk((<<p1>> \o w) \o <<p3>>, <<n, m>>)
    BY <1>11, <1>14, ConcatOk
  <1> QED
    BY <1>10, <1>12, <1>15

-----------------------------------------------------------------------------
(* What a node learns *)

(* A graph with one more board. *)
LEMMA PutGraph ==
  ASSUME NEW g, IsGraph(g), NEW x, NEW v, IsBoard(v)
  PROVE  /\ IsGraph(Put(g, x, v))
         /\ Clean(g) /\ v.eps \cap LinkLocal = {} => Clean(Put(g, x, v))
  <1>1. PICK h : h = Put(g, x, v)
    OBVIOUS
  <1>2. /\ DOMAIN h = DOMAIN g \cup {x} /\ h[x] = v
        /\ \A y \in DOMAIN h : y # x => y \in DOMAIN g /\ h[y] = g[y]
    BY <1>1 DEF Put
  <1>3. IsGraph(h) /\ (Clean(g) /\ v.eps \cap LinkLocal = {} => Clean(h))
    BY <1>2 DEF IsGraph, Clean
  <1> QED
    BY <1>1, <1>3

(***************************************************************************)
(* handle_discovery_packet: what is kept of a packet is clean unless both  *)
(* ends of the link may carry link-local endpoints.                        *)
(***************************************************************************)
LEMMA ToldOk ==
  ASSUME NEW n, NEW m, NEW boards, IsGraph(boards), MayKnow(n, m) \/ Clean(boards),
         NEW pkt, PktOk(pkt, <<m, n>>), pkt.ty # "LEAVE"
  PROVE  LET told == Told(boards, pkt, <<n, m>>)
         IN  IsGraph(told) /\ (MayKnow(n, m) \/ Clean(told))
  <1>1. PICK side : side = <<n, m>>
    OBVIOUS
  <1>2. PICK own : own = IF pkt.name \in DOMAIN boards THEN boards[pkt.name] ELSE Board({}, {}, {})
    OBVIOUS
  <1>3. IsBoard(own) /\ (Clean(boards) => own.eps \cap LinkLocal = {})
    <2>1. \A x : x = Board({}, {}, {}) => IsBoard(x) /\ x.eps = {}
      BY BoardIs
    <2>2. CASE pkt.name \in DOMAIN boards
      BY <1>2, <2>2 DEF IsGraph, Clean
    <2>3. CASE pkt.name \notin DOMAIN boards
      BY <1>2, <2>1, <2>3
    <2> QED
      BY <2>2, <2>3
  <1>4. CASE pkt.ty = "ANNOUNCE"
    <2>1. PICK v : v = Filter(pkt.body, side)
      OBVIOUS
    <2>2. Told(boards, pkt, side) = Put(boards, pkt.name, WithEps(own, v))
      BY <1>2, <1>4, <2>1 DEF Told, WithEps
    <2>3. IsBoard(WithEps(own, v)) /\ WithEps(own, v).eps = v
      BY <1>3, BoardExcept
    <2>4. MayKnow(n, m) \/ v \cap LinkLocal = {}
      BY <1>1, <1>4, <2>1, FilterIs DEF PktOk, MayKnow
    <2> QED
      BY <1>1, <2>2, <2>3, <2>4, PutGraph
  <1>5. CASE pkt.ty = "TIMESYNC_SOURCES"
    <2>2. Told(boards, pkt, side) = Put(boards, pkt.name, WithSrcs(own, pkt.body))
      BY <1>2, <1>5 DEF Told, WithSrcs
    <2>3. IsBoard(WithSrcs(own, pkt.body)) /\ WithSrcs(own, pkt.body).eps = own.eps
      BY <1>3, BoardExcept
    <2> QED
      BY <1>1, <1>3, <2>2, <2>3, PutGraph
  <1>6. CASE pkt.ty = "TOPOLOGY"
    <2>1. Told(boards, pkt, side) = FilterBoards(pkt.body, side)
      BY <1>6 DEF Told
    <2>2. IsGraph(pkt.body) /\ (MayTell(<<m, n>>) \/ Clean(pkt.body))
      BY <1>6 DEF PktOk
    <2> QED
      BY <1>1, <2>1, <2>2, FilterGraph DEF MayKnow
  <1> QED
    BY <1>4, <1>5, <1>6 DEF PktOk

WithAge(e, v)    == [e EXCEPT !.age = v]
WithBoards(e, v) == [e EXCEPT !.boards = v]

(* An entry is what it was made of. *)
LEMMA NewEntry ==
  ASSUME NEW n, NEW s, NEW b, IsGraph(b), MayKnow(n, s) \/ Clean(b), NEW a,
         NEW e, e = [boards |-> b, age |-> a]
  PROVE  EntryOk(e, n, s)
  <1>1. e.boards = b /\ e.age = a
    OBVIOUS
  <1> QED
    BY <1>1 DEF EntryOk

(* An entry with another age or with other boards. *)
LEMMA EntryExcept ==
  ASSUME NEW e, NEW n, NEW s, EntryOk(e, n, s), NEW v
  PROVE  /\ EntryOk(WithAge(e, v), n, s)
         /\ IsGraph(v) /\ (MayKnow(n, s) \/ Clean(v)) => EntryOk(WithBoards(e, v), n, s)
  <1>1. PICK b, a : e = [boards |-> b, age |-> a]
    BY DEF EntryOk
  <1>2. WithAge(e, v) = [boards |-> b, age |-> v] /\ WithBoards(e, v) = [boards |-> v, age |-> a]
    BY <1>1 DEF WithAge, WithBoards
  <1>3. e.boards = b
    BY <1>1
  <1>4. IsGraph(b) /\ (MayKnow(n, s) \/ Clean(b))
    BY <1>3 DEF EntryOk
  <1> QED
    BY <1>2, <1>4, NewEntry

(* Time passing, or a clock stepping back, does not change what is known. *)
LEMMA AgedOk ==
  ASSUME NEW r, NEW n, RoutesOk(r, n), NEW d
  PROVE  RoutesOk(Aged(r, d), n)
  <1>1. PICK q : q = Aged(r, d)
    OBVIOUS
  <1>2. /\ DOMAIN q = DOMAIN r
        /\ \A s \in DOMAIN r : /\ DOMAIN q[s] = DOMAIN r[s]
                               /\ \A a \in DOMAIN r[s] : \E v : q[s][a] = WithAge(r[s][a], v)
    BY <1>1 DEF Aged, WithAge
  <1>3. RoutesOk(q, n)
    BY <1>2, EntryExcept DEF RoutesOk
  <1> QED
    BY <1>1, <1>3

(* prune_discovery_routes only forgets. *)
LEMMA PrunedOk ==
  ASSUME NEW n, RoutesOk(routes[n], n)
  PROVE  RoutesOk(Pruned(n), n)
  <1>1. PICK q : q = Pruned(n)
    OBVIOUS
  <1>2. \A s \in DOMAIN q : /\ s \in DOMAIN routes[n]
                            /\ \A a \in DOMAIN q[s] : a \in DOMAIN routes[n][s] /\ q[s][a] = routes[n][s][a]
    BY <1>1 DEF Pruned, Restrict
  <1>3. RoutesOk(q, n)
    BY <1>2 DEF RoutesOk
  <1> QED
    BY <1>1, <1>3

(* prune_leaving_discovery_sender only forgets. *)
LEMMA LeavingOk ==
  ASSUME NEW r, NEW n, RoutesOk(r, n), NEW name
  PROVE  RoutesOk(WithoutLeaving(r, name), n)
  <1> DEFINE clean(bs) == [b \in DOMAIN bs \ {name} |-> WithConns(bs[b], bs[b].conns \ {name})]
  <1>1. PICK q : q = WithoutLeaving(r, name)
    OBVIOUS
  <1>2. \A s \in DOMAIN q :
           /\ s \in DOMAIN r
           /\ \A a \in DOMAIN q[s] : /\ a \in DOMAIN r[s]
                                     /\ q[s][a] = WithBoards(r[s][a], clean(r[s][a].boards))
    BY <1>1 DEF WithoutLeaving, WithBoards, WithConns
  <1>3. \A g : IsGraph(g) => IsGraph(clean(g)) /\ (Clean(g) => Clean(clean(g)))
    <2> SUFFICES ASSUME NEW g, IsGraph(g) PROVE IsGraph(clean(g)) /\ (Clean(g) => Clean(clean(g)))
      OBVIOUS
    <2>1. \A b \in DOMAIN g : \A v : IsBoard(WithConns(g[b], v)) /\ WithConns(g[b], v).eps = g[b].eps
      BY BoardExcept DEF IsGraph
    <2>2. PICK h : h = clean(g)
      OBVIOUS
    <2>3. \A b \in DOMAIN h : b \in DOMAIN g /\ IsBoard(h[b]) /\ h[b].eps = g[b].eps
      BY <2>1, <2>2
    <2> HIDE DEF clean
    <2> QED
      BY <2>2, <2>3 DEF IsGraph, Clean
  <1>4. ASSUME NEW s \in DOMAIN q, NEW a \in DOMAIN q[s] PROVE EntryOk(q[s][a], n, s)
    <2>1. s \in DOMAIN r /\ a \in DOMAIN r[s]
      BY <1>2
    <2>2. EntryOk(r[s][a], n, s)
      BY <2>1 DEF RoutesOk
    <2>3. PICK e : e = r[s][a]
      OBVIOUS
    <2>4. PICK v : v = clean(e.boards)
      OBVIOUS
    <2>5. q[s][a] = WithBoards(e, v)
      BY <1>2, <2>3, <2>4
    <2>6. IsGraph(e.boards) /\ (MayKnow(n, s) \/ Clean(e.boards)) /\ EntryOk(e, n, s)
      BY <2>2, <2>3 DEF EntryOk
    <2> HIDE DEF clean
    <2>7. IsGraph(v) /\ (MayKnow(n, s) \/ Clean(v))
      BY <1>3, <2>4, <2>6
    <2> QED
      BY <2>5, <2>6, <2>7, EntryExcept
  <1>5. RoutesOk(q, n)
    BY <1>4 DEF RoutesOk
  <1> QED
    BY <1>1, <1>5

(* The news of a packet in the routes of a node. *)
LEMMA NewsOk ==
  ASSUME NEW r, NEW n, RoutesOk(r, n), NEW m, NEW pkt, PktOk(pkt, <<m, n>>), pkt.ty # "LEAVE",
         NEW side, side = IF m \in DOMAIN r THEN r[m] ELSE << >>,
         NEW known, known = IF pkt.name \in DOMAIN side THEN side[pkt.name].boards ELSE << >>,
         NEW news, news = [boards |-> Told(known, pkt, <<n, m>>), age |-> 0]
  PROVE  RoutesOk(Put(r, m, Put(side, pkt.name, news)), n)
  <1>1. \A a \in DOMAIN side : EntryOk(side[a], n, m)
    BY DEF RoutesOk
  <1>2. IsGraph(known) /\ (MayKnow(n, m) \/ Clean(known))
    <2>1. CASE pkt.name \in DOMAIN side
      BY <1>1, <2>1 DEF EntryOk
    <2>2. CASE pkt.name \notin DOMAIN side
      <3>1. known = << >>
        BY <2>2
      <3> QED
        BY <3>1 DEF IsGraph, Clean
    <2> QED
      BY <2>1, <2>2
  <1>3. PICK told : told = Told(known, pkt, <<n, m>>)
    OBVIOUS
  <1>4. IsGraph(told) /\ (MayKnow(n, m) \/ Clean(told))
    BY <1>2, <1>3, ToldOk
  <1>5. EntryOk(news, n, m)
    BY <1>3, <1>4, NewEntry
  <1>6. PICK p : p = Put(side, pkt.name, news)
    OBVIOUS
  <1>7. \A a \in DOMAIN p : EntryOk(p[a], n, m)
    <2>1. \A a \in DOMAIN p : p[a] = news \/ (a \in DOMAIN side /\ p[a] = side[a])
      BY <1>6 DEF Put
    <2> QED
      BY <1>1, <1>5, <2>1
  <1>8. PICK q : q = Put(r, m, p)
    OBVIOUS
  <1>9. \A s \in DOMAIN q : (s = m /\ q[s] = p) \/ (s \in DOMAIN r /\ q[s] = r[s])
    BY <1>8 DEF Put
  <1>10. RoutesOk(q, n)
    BY <1>7, <1>9 DEF RoutesOk
  <1> QED
    BY <1>6, <1>8, <1>10

(* handle_discovery_packet keeps what node n knows in order. *)
LEMMA HandleOk ==
  ASSUME NEW n \in Nodes, NEW m, NEW pkt, PktOk(pkt, <<m, n>>),
         routes = [k \in Nodes |-> routes[k]], \A k \in Nodes : RoutesOk(routes[k], k),
         HandleDiscoveryPacket(n, m, pkt)
  PROVE  /\ routes' = [k \in Nodes |-> routes'[k]]
         /\ \A k \in Nodes : RoutesOk(routes'[k], k)
  <1>0. ASSUME NEW v, RoutesOk(v, n), routes' = [routes EXCEPT ![n] = v]
        PROVE  /\ routes' = [k \in Nodes |-> routes'[k]]
               /\ \A k \in Nodes : RoutesOk(routes'[k], k)
    <2>1. \A k \in Nodes : routes'[k] = IF k = n THEN v ELSE routes[k]
      BY <1>0
    <2>2. routes' = [k \in Nodes |-> routes'[k]]
      BY <1>0
    <2> QED
      BY <1>0, <2>1, <2>2
  <1>1. CASE UNCHANGED routes
    BY <1>1
  <1>2. CASE pkt.ty = "LEAVE" /\ HandleLeave(n, pkt)
    <2>1. PICK v : v = WithoutLeaving(routes[n], pkt.name)
      OBVIOUS
    <2>2. RoutesOk(v, n)
      BY <2>1, LeavingOk
    <2>3. routes' = [routes EXCEPT ![n] = v]
      BY <1>2, <2>1 DEF HandleLeave
    <2> QED
      BY <1>0, <2>2, <2>3
  <1>3. CASE pkt.ty # "LEAVE" /\ HandleNews(n, m, pkt)
    <2>1. PICK side : side = IF m \in DOMAIN routes[n] THEN routes[n][m] ELSE << >>
      OBVIOUS
    <2>2. PICK known : known = IF pkt.name \in DOMAIN side THEN side[pkt.name].boards ELSE << >>
      OBVIOUS
    <2>3. PICK news : news = [boards |-> Told(known, pkt, <<n, m>>), age |-> 0]
      OBVIOUS
    <2>4. PICK v : v = Put(routes[n], m, Put(side, pkt.name, news))
      OBVIOUS
    <2>5. RoutesOk(v, n)
      <3>1. PICK r : r = routes[n] /\ RoutesOk(r, n)
        OBVIOUS
      <3>2. side = IF m \in DOMAIN r THEN r[m] ELSE << >>
        BY <2>1, <3>1
      <3>3. RoutesOk(Put(r, m, Put(side, pkt.name, news)), n)
        BY <1>3, <2>2, <2>3, <3>1, <3>2, NewsOk
      <3> QED
        BY <2>4, <3>1, <3>3
    <2>6. routes' = [routes EXCEPT ![n] = v]
      BY <1>3, <2>1, <2>2, <2>3, <2>4 DEF HandleNews
    <2> QED
      BY <1>0, <2>5, <2>6
  <1> QED
    BY <1>1, <1>2, <1>3 DEF HandleDiscoveryPacket

(* What a relay forwards may be told on its links. *)
LEMMA ForwardedOk ==
  ASSUME NEW pkt, NEW k, NEW l, PktOk(pkt, k), IsRelay(l[1]), NEW v
  PROVE  PktOk([pkt EXCEPT !.name = v], l)
  <1>1. PICK t, a, b : pkt = [ty |-> t, name |-> a, body |-> b]
    BY DEF PktOk
  <1>2. PICK p : p = [pkt EXCEPT !.name = v]
    OBVIOUS
  <1>3. p = [ty |-> t, name |-> v, body |-> b]
    BY <1>1, <1>2
  <1>4. p.ty = t /\ p.body = b /\ p = [ty |-> p.ty, name |-> p.name, body |-> p.body]
    BY <1>3, PktIs
  <1>5. pkt.ty = t /\ pkt.body = b
    BY <1>1
  <1>6. PktOk(p, l)
    BY <1>4, <1>5 DEF PktOk, MayTell
  <1> QED
    BY <1>2, <1>6

-----------------------------------------------------------------------------
(* The invariance proof *)

(* The invariant of the next state, in terms of that state. *)
LEMMA LinkInvPrime ==
  ASSUME net' = net,
         wire' = [l \in Links |-> wire'[l]], \A l \in Links : WireOk(wire'[l], l),
         routes' = [n \in Nodes |-> routes'[n]], \A n \in Nodes : RoutesOk(routes'[n], n)
  PROVE  LinkInv'
  <1>0. \A n : IsRelay(n)' <=> IsRelay(n)
    BY DEF IsRelay
  <1>1. \A l \in Links : WireOk(wire[l], l)'
    BY <1>0 DEF WireOk, PktOk, MayTell, IsGraph, IsBoard, Board, Clean, IsRelay
  <1>2. \A n \in Nodes : RoutesOk(routes[n], n)'
    <2> SUFFICES ASSUME NEW n \in Nodes, NEW s \in DOMAIN routes'[n],
                        NEW a \in DOMAIN routes'[n][s]
                 PROVE  EntryOk(routes[n][s][a], n, s)'
      BY DEF RoutesOk
    <2>1. EntryOk(routes'[n][s][a], n, s)
      BY DEF RoutesOk
    <2>2. MayKnow(n, s)' <=> MayKnow(n, s)
      BY DEF MayKnow, MayTell, IsRelay
    <2> QED
      BY <2>1, <2>2 DEF EntryOk, IsGraph, IsBoard, Board, Clean
  <1> QED
    BY <1>1, <1>2 DEF LinkInv

(* Initially nothing is known and nothing is on its way. *)
LEMMA LinkInitInv == Init => LinkInv
  <1> SUFFICES ASSUME Init PROVE LinkInv
    OBVIOUS
  <1>1. /\ wire = [l \in Links |-> << >>]
        /\ routes = [n \in Nodes |-> << >>]
    BY DEF Init
  <1>2. \A l \in Links : WireOk(wire[l], l)
    BY <1>1, OneOk
  <1>3. \A n \in Nodes : RoutesOk(routes[n], n)
    BY <1>1 DEF RoutesOk
  <1>4. wire = [l \in Links |-> wire[l]] /\ routes = [n \in Nodes |-> routes[n]]
    BY <1>1
  <1> QED
    BY <1>2, <1>3, <1>4 DEF LinkInv

(* queue_discovery_packets tells nothing link-local where it may not go. *)
LEMMA QueueOk ==
  ASSUME LinkInv, NEW n \in Nodes, QueueDiscoveryPackets(n), net' = net
  PROVE  LinkInv'
  <1>1. routes' = [routes EXCEPT ![n] = Pruned(n)]
    BY DEF QueueDiscoveryPackets
  <1>2. wire' = [l \in Links |-> IF l[1] = n THEN wire[l] \o Packets(n, l[2]) ELSE wire[l]]
    BY DEF QueueDiscoveryPackets
  <1>3. RoutesOk(routes[n], n)
    BY DEF LinkInv
  <1>4. \A k \in Nodes : RoutesOk(routes'[k], k)
    <2>1. PICK v : v = Pruned(n)
      OBVIOUS
    <2>2. RoutesOk(v, n)
      BY <1>3, <2>1, PrunedOk
    <2>3. \A k \in Nodes : routes'[k] = IF k = n THEN v ELSE routes[k]
      BY <1>1, <2>1 DEF LinkInv
    <2> QED
      BY <2>2, <2>3 DEF LinkInv
  <1>5. routes' = [k \in Nodes |-> routes'[k]]
    BY <1>1 DEF LinkInv
  <1>6. wire' = [l \in Links |-> wire'[l]]
    BY <1>2
  <1>7. ASSUME NEW l \in Links PROVE WireOk(wire'[l], l)
    <2>1. WireOk(wire[l], l)
      BY DEF LinkInv
    <2>2. CASE l[1] = n
      <3>1. l = <<n, l[2]>>
        BY <2>2, DiscoveryAssumption
      <3>2. WireOk(Packets(n, l[2]), <<n, l[2]>>)
        BY <1>3, PacketsOk
      <3>3. PICK w : w = Packets(n, l[2]) /\ WireOk(w, l)
        BY <3>1, <3>2
      <3>4. wire'[l] = wire[l] \o w
        BY <1>2, <2>2, <3>3
      <3> QED
        BY <2>1, <3>3, <3>4, ConcatOk
    <2>3. CASE l[1] # n
      BY <1>2, <2>1, <2>3
    <2> QED
      BY <2>2, <2>3
  <1> QED
    BY <1>4, <1>5, <1>6, <1>7, LinkInvPrime

(* A node handles a packet, and a relay forwards it. *)
LEMMA DeliverOk ==
  ASSUME LinkInv, NEW m \in Nodes, NEW n \in Nodes, <<m, n>> \in Links, Deliver(m, n)
  PROVE  LinkInv'
  <1>1. wire[<<m, n>>] # << >> /\ net' = net
    BY DEF Deliver
  <1>2. PICK w : w = wire[<<m, n>>]
    OBVIOUS
  <1>3. WireOk(w, <<m, n>>) /\ w # << >>
    BY <1>1, <1>2 DEF LinkInv
  <1>4. WireOk(Tail(w), <<m, n>>) /\ PktOk(Head(w), <<m, n>>)
    BY <1>3, TailOk
  <1>5. PICK pkt : pkt = Head(w) /\ PktOk(pkt, <<m, n>>)
    BY <1>4
  <1>6. CASE n \in alive /\ HandleDiscoveryPacket(n, m, Head(wire[<<m, n>>]))
             /\ wire' = [Forwarded(n, m, Head(wire[<<m, n>>])) EXCEPT ![<<m, n>>] = Tail(@)]
    <2>1. HandleDiscoveryPacket(n, m, pkt)
      BY <1>2, <1>5, <1>6
    <2>2. routes = [k \in Nodes |-> routes[k]] /\ \A k \in Nodes : RoutesOk(routes[k], k)
      BY DEF LinkInv
    <2>3. routes' = [k \in Nodes |-> routes'[k]] /\ \A k \in Nodes : RoutesOk(routes'[k], k)
      BY <1>5, <2>1, <2>2, HandleOk
    <2>4. PICK f : f = Forwarded(n, m, pkt)
      OBVIOUS
    <2>5. f = [l \in Links |-> IF l[1] = n /\ l[2] # m /\ IsRelay(n)
                               THEN Append(wire[l], [pkt EXCEPT !.name = Received(pkt.name)])
                               ELSE wire[l]]
      BY <2>4 DEF Forwarded
    <2>6. wire' = [f EXCEPT ![<<m, n>>] = Tail(f[<<m, n>>])]
      BY <1>2, <1>5, <1>6, <2>4
    <2>7. \A l \in Links : WireOk(f[l], l)
      <3> SUFFICES ASSUME NEW l \in Links PROVE WireOk(f[l], l)
        OBVIOUS
      <3>1. WireOk(wire[l], l)
        BY DEF LinkInv
      <3>2. CASE l[1] = n /\ l[2] # m /\ IsRelay(n)
        <4>1. PICK p : p = [pkt EXCEPT !.name = Received(pkt.name)]
          OBVIOUS
        <4>2. PktOk(p, l)
          BY <1>5, <3>2, <4>1, ForwardedOk
        <4>3. WireOk(<<p>>, l)
          BY <4>2, OneOk
        <4>4. f[l] = Append(wire[l], p)
          BY <2>5, <3>2, <4>1
        <4>5. PICK S : wire[l] \in Seq(S)
          BY <3>1 DEF WireOk
        <4>6. Append(wire[l], p) = wire[l] \o <<p>>
          BY <4>5
        <4> QED
          BY <3>1, <4>3, <4>4, <4>6, ConcatOk
      <3>3. CASE ~(l[1] = n /\ l[2] # m /\ IsRelay(n))
        BY <2>5, <3>1, <3>3
      <3> QED
        BY <3>2, <3>3
    <2>8. f[<<m, n>>] = w \/ f[<<m, n>>] # << >>
      <3>1. PICK S : w \in Seq(S)
        BY <1>3 DEF WireOk
      <3>2. CASE <<m, n>>[1] = n /\ <<m, n>>[2] # m /\ IsRelay(n)
        BY <3>2
      <3>3. CASE ~(<<m, n>>[1] = n /\ <<m, n>>[2] # m /\ IsRelay(n))
        BY <1>2, <2>5, <3>3
      <3> QED
        BY <3>2, <3>3
    <2>9. PICK g : g = f[<<m, n>>] /\ g # << >> /\ WireOk(g, <<m, n>>)
      BY <1>3, <2>7, <2>8
    <2>10. WireOk(Tail(g), <<m, n>>)
      BY <2>9, TailOk
    <2>11. \A l \in Links : wire'[l] = IF l = <<m, n>> THEN Tail(g) ELSE f[l]
      BY <2>5, <2>6, <2>9
    <2>12. \A l \in Links : WireOk(wire'[l], l)
      BY <2>7, <2>10, <2>11
    <2>13. wire' = [l \in Links |-> wire'[l]]
      BY <2>5, <2>6
    <2> QED
      BY <1>1, <2>3, <2>12, <2>13, LinkInvPrime
  <1>7. CASE UNCHANGED routes /\ wire' = [wire EXCEPT ![<<m, n>>] = Tail(@)]
    <2>1. wire' = [l \in Links |-> wire'[l]]
      BY <1>7 DEF LinkInv
    <2>2. \A l \in Links : wire'[l] = IF l = <<m, n>> THEN Tail(w) ELSE wire[l]
      BY <1>2, <1>7 DEF LinkInv
    <2>3. \A l \in Links : WireOk(wire'[l], l)
      BY <1>4, <2>2 DEF LinkInv
    <2>4. routes' = [k \in Nodes |-> routes'[k]] /\ \A k \in Nodes : RoutesOk(routes'[k], k)
      BY <1>7 DEF LinkInv
    <2> QED
      BY <1>1, <2>1, <2>3, <2>4, LinkInvPrime
  <1> QED
    BY <1>6, <1>7 DEF Deliver

(* Every step keeps the invariant. *)
LEMMA LinkStepInv == ASSUME LinkInv, [Next]_vars PROVE LinkInv'
  <1>0. /\ wire = [l \in Links |-> wire[l]] /\ \A l \in Links : WireOk(wire[l], l)
        /\ routes = [n \in Nodes |-> routes[n]] /\ \A n \in Nodes : RoutesOk(routes[n], n)
    BY DEF LinkInv
  <1>1. CASE Tick
    <2>1. net' = net /\ wire' = wire /\ routes' = [n \in Nodes |-> Aged(routes[n], 1)]
      BY <1>1 DEF Tick
    <2>2. \A n \in Nodes : RoutesOk(Aged(routes[n], 1), n)
      BY <1>0, AgedOk
    <2>3. routes' = [n \in Nodes |-> routes'[n]] /\ \A n \in Nodes : RoutesOk(routes'[n], n)
      BY <2>1, <2>2
    <2> QED
      BY <1>0, <2>1, <2>3, LinkInvPrime
  <1>2. ASSUME NEW n \in Nodes, PollDiscovery(n) PROVE LinkInv'
    <2>1. net' = net
      BY <1>2 DEF PollDiscovery
    <2>2. CASE QueueDiscoveryPackets(n)
      BY <2>1, <2>2, QueueOk
    <2>3. CASE UNCHANGED <<routes, interval, due, wire>>
      BY <1>0, <2>1, <2>3, LinkInvPrime
    <2> QED
      BY <1>2, <2>2, <2>3 DEF PollDiscovery
  <1>3. ASSUME NEW l \in Links, Deliver(l[1], l[2]) PROVE LinkInv'
    <2>1. l[1] \in Nodes /\ l[2] \in Nodes /\ <<l[1], l[2]>> \in Links
      BY DiscoveryAssumption
    <2> QED
      BY <1>3, <2>1, DeliverOk
  <1>4. ASSUME NEW n \in Nodes, AnnounceDiscovery(n) PROVE LinkInv'
    <2>1. net' = net /\ QueueDiscoveryPackets(n)
      BY <1>4 DEF AnnounceDiscovery
    <2> QED
      BY <2>1, QueueOk
  <1>5. ASSUME NEW n \in Nodes, NEW v, RoutesOk(v, n),
               net' = net, wire' = wire, routes' = [routes EXCEPT ![n] = v]
        PROVE  LinkInv'
    <2>1. \A k \in Nodes : routes'[k] = IF k = n THEN v ELSE routes[k]
      BY <1>0, <1>5
    <2>2. routes' = [k \in Nodes |-> routes'[k]]
      BY <1>0, <1>5
    <2>3. \A k \in Nodes : RoutesOk(routes'[k], k)
      BY <1>0, <1>5, <2>1
    <2> QED
      BY <1>0, <1>5, <2>2, <2>3, LinkInvPrime
  <1>6. ASSUME NEW n \in Nodes, StepBack(n) PROVE LinkInv'
    <2>1. PICK v : v = Aged(routes[n], -1)
      OBVIOUS
    <2>2. RoutesOk(v, n)
      BY <1>0, <2>1, AgedOk
    <2>3. net' = net /\ wire' = wire /\ routes' = [routes EXCEPT ![n] = v]
      BY <1>6, <2>1 DEF StepBack
    <2> QED
      BY <1>5, <2>2, <2>3
  <1>7. ASSUME NEW n \in Nodes, Restart(n) PROVE LinkInv'
    <2>1. RoutesOk(<< >>, n)
      BY DEF RoutesOk
    <2>2. net' = net /\ wire' = wire /\ routes' = [routes EXCEPT ![n] = << >>]
      BY <1>7 DEF Restart
    <2> QED
      BY <1>5, <2>1, <2>2
  <1>8. ASSUME NEW n \in Nodes, Leave(n) PROVE LinkInv'
    <2>1. PICK p : p = [ty |-> "LEAVE", name |-> Received(Name(n)), body |-> {}]
      OBVIOUS
    <2>2. /\ net' = net /\ routes' = routes
          /\ wire' = [l \in Links |-> IF l[1] = n THEN Append(wire[l], p) ELSE wire[l]]
      BY <1>8, <2>1 DEF Leave
    <2>3. p.ty = "LEAVE" /\ p = [ty |-> p.ty, name |-> p.name, body |-> p.body]
      BY <2>1, PktIs
    <2>4. \A l : PktOk(p, l)
      BY <2>3 DEF PktOk
    <2>5. ASSUME NEW l \in Links PROVE WireOk(Append(wire[l], p), l)
      <3>1. WireOk(wire[l], l)
        BY <1>0
      <3>2. PICK S : wire[l] \in Seq(S)
        BY <3>1 DEF WireOk
      <3>3. Append(wire[l], p) = wire[l] \o <<p>>
        BY <3>2
      <3>4. WireOk(<<p>>, l)
        BY <2>4, OneOk
      <3> QED
        BY <3>1, <3>3, <3>4, ConcatOk
    <2>6. wire' = [l \in Links |-> wire'[l]] /\ \A l \in Links : WireOk(wire'[l], l)
      BY <1>0, <2>2, <2>5
    <2> QED
      BY <1>0, <2>2, <2>6, LinkInvPrime
  <1>9. ASSUME NEW l \in Links, NEW i \in DOMAIN wire[l], Lose(l, i) PROVE LinkInv'
    <2>1. PICK w : w = RemoveAt(wire[l], i)
      OBVIOUS
    <2>2. WireOk(w, l)
      BY <1>0, <2>1, LoseOk
    <2>3. net' = net /\ routes' = routes /\ wire' = [wire EXCEPT ![l] = w]
      BY <1>9, <2>1 DEF Lose
    <2>4. /\ wire' = [k \in Links |-> wire'[k]]
          /\ \A k \in Links : wire'[k] = IF k = l THEN w ELSE wire[k]
      BY <1>0, <2>3
    <2>5. \A k \in Links : WireOk(wire'[k], k)
      BY <1>0, <2>2, <2>4
    <2> QED
      BY <1>0, <2>3, <2>4, <2>5, LinkInvPrime
  <1>10. CASE UNCHANGED vars
    <2>1. net' = net /\ wire' = wire /\ routes' = routes
      BY <1>10 DEF vars
    <2> QED
      BY <1>0, <2>1, LinkInvPrime
  <1> QED
    BY <1>1, <1>2, <1>3, <1>4, <1>6, <1>7, <1>8, <1>9, <1>10 DEF Next, Work

(***************************************************************************)
(* A link-local endpoint is known on a side only if both ends of the link  *)
(* are link-local-enabled, or the far end is a relay and the near one is,  *)
(* in every network and whatever is lost, restarted, stepped back or left. *)
(***************************************************************************)
THEOREM LinkLocalTheorem == Spec => []LinkLocalStaysOnLink
  <1>1. ASSUME LinkInv PROVE LinkLocalStaysOnLink
    <2> SUFFICES ASSUME NEW n \in Nodes, NEW s \in DOMAIN routes[n],
                        NEW a \in DOMAIN routes[n][s],
                        Endpoints(routes[n][s][a].boards) \cap LinkLocal # {}
                 PROVE  /\ <<n, s>> \in LinkLocalSides
                        /\ IsRelay(s) \/ <<s, n>> \in LinkLocalSides
      BY DEF LinkLocalStaysOnLink
    <2>1. EntryOk(routes[n][s][a], n, s)
      BY <1>1 DEF LinkInv, RoutesOk
    <2>2. ~Clean(routes[n][s][a].boards)
      BY CleanIs
    <2>3. MayKnow(n, s)
      BY <2>1, <2>2 DEF EntryOk
    <2> QED
      BY <2>3 DEF MayKnow, MayTell
  <1> QED
    BY <1>1, LinkInitInv, LinkStepInv, PTL DEF Spec

-----------------------------------------------------------------------------
(* What was heard is kept *)

(***************************************************************************)
(* The way of an announcement from its origin o to the link l on which it  *)
(* is heard as a, as the set of links it takes, each with the name it has  *)
(* there: a relay forwards it to every side but the one it came from.      *)
(***************************************************************************)
Hop(x, y) ==
    /\ y[1][1] = x[1][2] /\ y[1][2] # x[1][1] /\ IsRelay(y[1][1])
    /\ y[2] = Received(x[2])

Path(F, o, l, a) ==
    /\ \A x \in F : x[1] \in Links
    /\ \E x \in F : x[1][1] = o /\ x[2] = Received(Name(o))
    /\ \A x \in F : x = <<l, a>> \/ \E y \in F : Hop(x, y)

Has(u, p) == \E i \in DOMAIN u : u[i] = p

(* An announcement is on its way along F. *)
Carried(F, w) == \E x \in F : \E p : Has(w[x[1]], p) /\ p.name = x[2]

(* The next announcement of o comes before something of that age expires. *)
Timely(age, o, d, P) == age + d[o] <= Slow /\ (o \in P => age + 1 <= Slow)

PktKept(p, l) == p.ty # "LEAVE" /\ \E o \in Nodes : \E F : Path(F, o, l, p.name)

EntryKept(age, n, s, a, w, d, P) ==
    /\ age \in 0 .. Slow
    /\ IsRelay(n) \/ a # Name(n)
    /\ \E o \in Nodes : \E F : Path(F, o, <<s, n>>, a) /\ (Carried(F, w) \/ Timely(age, o, d, P))

KeptOk ==
    /\ interval \in [Nodes -> Fast .. Slow]
    /\ due \in [Nodes -> 0 .. Slow]
    /\ \A l \in Links : \A p : Has(wire[l], p) => PktKept(p, l)
    /\ \A n \in Nodes : \A s \in DOMAIN routes[n] : \A a \in DOMAIN routes[n][s] :
          EntryKept(routes[n][s][a].age, n, s, a, wire, due, polled)

(* As long as nothing is lost, no clock steps back and nobody leaves. *)
KeptInv ==
    /\ faults \in Nat /\ alive \subseteq Nodes
    /\ faults = 0 /\ alive = Nodes => KeptOk

(* No entry of a node disappears in a step. *)
Grows ==
    \A n \in Nodes : \A s \in DOMAIN routes[n] : \A a \in DOMAIN routes[n][s] :
        s \in DOMAIN routes'[n] /\ a \in DOMAIN routes'[n][s]

(* The smaller and the larger of two numbers. *)
LEMMA MinMaxTwo ==
  ASSUME NEW a \in Int, NEW b \in Int
  PROVE  /\ Min({a, b}) \in {a, b} /\ Min({a, b}) <= a /\ Min({a, b}) <= b
         /\ Max({a, b}) \in {a, b} /\ Max({a, b}) >= a /\ Max({a, b}) >= b
  <1>1. PICK x \in {a, b} : \A y \in {a, b} : x <= y
    <2>1. CASE a <= b
      BY <2>1
    <2>2. CASE b <= a
      BY <2>2
    <2> QED
      BY <2>1, <2>2
  <1>2. PICK z \in {a, b} : \A y \in {a, b} : z >= y
    <2>1. CASE a <= b
      BY <2>1
    <2>2. CASE b <= a
      BY <2>2
    <2> QED
      BY <2>1, <2>2
  <1>3. Min({a, b}) \in {a, b} /\ \A y \in {a, b} : Min({a, b}) <= y
    BY <1>1 DEF Min
  <1>4. Max({a, b}) \in {a, b} /\ \A y \in {a, b} : Max({a, b}) >= y
    BY <1>2 DEF Max
  <1> QED
    BY <1>3, <1>4

(* A node's own announcement on one of its links. *)
LEMMA OwnPath ==
  ASSUME NEW n, NEW l \in Links, l[1] = n, NEW a, a = Received(Name(n))
  PROVE  Path({<<l, a>>}, n, l, a)
  <1>1. PICK x : x = <<l, a>>
    OBVIOUS
  <1>2. x[1] = l /\ x[2] = a
    BY <1>1
  <1> QED
    BY <1>1, <1>2 DEF Path

(* What a relay forwards goes one link further. *)
LEMMA MorePath ==
  ASSUME NEW F, NEW o, NEW l \in Links, NEW a, Path(F, o, l, a),
         NEW k \in Links, k[1] = l[2], k[2] # l[1], IsRelay(k[1]), NEW b, b = Received(a)
  PROVE  \E G : Path(G, o, k, b)
  <1>1. PICK x : x = <<l, a>>
    OBVIOUS
  <1>2. PICK y : y = <<k, b>>
    OBVIOUS
  <1>3. x[1] = l /\ x[2] = a /\ y[1] = k /\ y[2] = b
    BY <1>1, <1>2
  <1>4. Hop(x, y)
    BY <1>3 DEF Hop
  <1>5. PICK G : G = F \cup {y}
    OBVIOUS
  <1>6. \A z \in G : z[1] \in Links
    BY <1>3, <1>5 DEF Path
  <1>7. \E z \in G : z[1][1] = o /\ z[2] = Received(Name(o))
    BY <1>5 DEF Path
  <1>8. \A z \in G : z = y \/ \E v \in G : Hop(z, v)
    <2>1. \A z \in F : z = x \/ \E v \in F : Hop(z, v)
      BY <1>1 DEF Path
    <2> HIDE DEF Hop
    <2> QED
      BY <1>4, <1>5, <2>1
  <1> QED
    BY <1>2, <1>6, <1>7, <1>8 DEF Path

(* What is in a sequence that was put together or taken apart. *)
LEMMA HasConcat ==
  ASSUME NEW S, NEW T, NEW u \in Seq(S), NEW v \in Seq(T), NEW p
  PROVE  Has(u \o v, p) <=> Has(u, p) \/ Has(v, p)
  <1>1. PICK U : U = S \cup T
    OBVIOUS
  <1>2. u \in Seq(U) /\ v \in Seq(U)
    BY <1>1
  <1>0. u \o v \in Seq(U)
    BY <1>2
  <1>3. PICK c \in Seq(U) : c = u \o v
    BY <1>0
  <1>4. PICK n \in Nat : n = Len(u)
    OBVIOUS
  <1>5. PICK k \in Nat : k = Len(v)
    OBVIOUS
  <1>6. DOMAIN u = 1 .. n /\ DOMAIN v = 1 .. k /\ DOMAIN c = 1 .. n + k
    BY <1>2, <1>3, <1>4, <1>5
  <1>7. /\ \A i \in 1 .. n : c[i] = u[i]
        /\ \A i \in 1 .. n + k : i > n => c[i] = v[i - n]
    BY <1>2, <1>3, <1>4, <1>5
  <1>8. \A i \in 1 .. k : c[n + i] = v[i] /\ n + i \in 1 .. n + k
    BY <1>7
  <1>9. ASSUME Has(c, p) PROVE Has(u, p) \/ Has(v, p)
    <2>1. PICK i \in 1 .. n + k : c[i] = p
      BY <1>6, <1>9 DEF Has
    <2>2. CASE i <= n
      <3>1. i \in 1 .. n /\ u[i] = p
        BY <1>7, <2>1, <2>2
      <3> QED
        BY <1>6, <3>1 DEF Has
    <2>3. CASE i > n
      <3>1. i - n \in 1 .. k /\ v[i - n] = p
        BY <1>7, <2>1, <2>3
      <3> QED
        BY <1>6, <3>1 DEF Has
    <2> QED
      BY <2>2, <2>3
  <1>10. ASSUME Has(u, p) PROVE Has(c, p)
    <2>1. PICK i \in 1 .. n : u[i] = p
      BY <1>6, <1>10 DEF Has
    <2>2. i \in 1 .. n + k /\ c[i] = p
      BY <1>7, <2>1
    <2> QED
      BY <1>6, <2>2 DEF Has
  <1>11. ASSUME Has(v, p) PROVE Has(c, p)
    <2>1. PICK i \in 1 .. k : v[i] = p
      BY <1>6, <1>11 DEF Has
    <2> QED
      BY <1>6, <1>8, <2>1 DEF Has
  <1> QED
    BY <1>3, <1>9, <1>10, <1>11

(* The first packet and the others. *)
LEMMA HasTail ==
  ASSUME NEW S, NEW u \in Seq(S), u # << >>, NEW p
  PROVE  Has(u, p) <=> p = Head(u) \/ Has(Tail(u), p)
  <1>1. PICK n \in Nat : n = Len(u)
    OBVIOUS
  <1>0. Tail(u) \in Seq(S)
    OBVIOUS
  <1>2. PICK t \in Seq(S) : t = Tail(u)
    BY <1>0
  <1>3. n >= 1 /\ DOMAIN u = 1 .. n /\ DOMAIN t = 1 .. n - 1 /\ Head(u) = u[1]
    BY <1>1, <1>2
  <1>4. \A i \in 1 .. n - 1 : t[i] = u[i + 1] /\ i + 1 \in 1 .. n
    BY <1>1, <1>2, <1>3
  <1>5. ASSUME Has(u, p), p # Head(u) PROVE Has(t, p)
    <2>1. PICK i \in 1 .. n : u[i] = p
      BY <1>3, <1>5 DEF Has
    <2>2. i # 1
      BY <1>3, <1>5, <2>1
    <2>3. i - 1 \in 1 .. n - 1 /\ (i - 1) + 1 = i
      BY <2>2
    <2>4. t[i - 1] = p
      BY <1>4, <2>1, <2>3
    <2> QED
      BY <1>3, <2>3, <2>4 DEF Has
  <1>6. ASSUME Has(t, p) PROVE Has(u, p)
    <2>1. PICK i \in 1 .. n - 1 : t[i] = p
      BY <1>3, <1>6 DEF Has
    <2> QED
      BY <1>3, <1>4, <2>1 DEF Has
  <1>7. Has(u, Head(u))
    BY <1>3 DEF Has
  <1> QED
    BY <1>2, <1>5, <1>6, <1>7

(* One packet, and none. *)
LEMMA HasOne == \A p, q : (Has(<<q>>, p) <=> p = q) /\ ~Has(<< >>, p)
  <1>1. DOMAIN << >> = {} /\ \A q : DOMAIN <<q>> = {1} /\ <<q>>[1] = q
    OBVIOUS
  <1> QED
    BY <1>1 DEF Has

(* The invariant of the next state, in terms of that state. *)
LEMMA KeptPrime ==
  ASSUME net' = net, interval' \in [Nodes -> Fast .. Slow], due' \in [Nodes -> 0 .. Slow],
         \A l \in Links : \A p : Has(wire'[l], p) => PktKept(p, l),
         \A n \in Nodes : \A s \in DOMAIN routes'[n] : \A a \in DOMAIN routes'[n][s] :
            EntryKept(routes'[n][s][a].age, n, s, a, wire', due', polled')
  PROVE  KeptOk'
  <1>1. /\ \A n : IsRelay(n)' <=> IsRelay(n)
        /\ \A n : Name(n)' = Name(n)
        /\ \A x : Received(x)' = Received(x)
    BY DEF IsRelay, Name, Received
  <1>2. \A F, o, l, a : Path(F, o, l, a)' <=> Path(F, o, l, a)
    BY <1>1 DEF Path, Hop
  <1>3. \A l \in Links : \A p : Has(wire'[l], p) => PktKept(p, l)'
    BY <1>2 DEF PktKept
  <1>4. ASSUME NEW n \in Nodes, NEW s \in DOMAIN routes'[n], NEW a \in DOMAIN routes'[n][s]
        PROVE  EntryKept(routes[n][s][a].age, n, s, a, wire, due, polled)'
    <2>1. EntryKept(routes'[n][s][a].age, n, s, a, wire', due', polled')
      OBVIOUS
    <2> QED
      BY <1>1, <1>2, <2>1 DEF EntryKept, Carried, Timely, Has
  <1>5. \A l \in Links : \A p : Has(wire[l], p)' => PktKept(p, l)'
    BY <1>3 DEF Has
  <1> QED
    BY <1>4, <1>5 DEF KeptOk

(* The packets of queue_discovery_packets carry the name of their sender. *)
LEMMA PacketsHave ==
  ASSUME NEW n, NEW m, NEW a, a = Received(Name(n))
  PROVE  /\ \A p : Has(Packets(n, m), p) => p.ty # "LEAVE" /\ p.name = a
         /\ \E p : Has(Packets(n, m), p)
  <1>1. PICK boards : boards = Advertised(n, <<n, m>>)
    OBVIOUS
  <1>2. PICK p1 : p1 = [ty |-> "ANNOUNCE", name |-> a, body |-> Filter(Endpoints(boards), <<n, m>>)]
    OBVIOUS
  <1>3. PICK p2 : p2 = [ty |-> "TIMESYNC_SOURCES", name |-> a, body |-> TimeSources(boards)]
    OBVIOUS
  <1>4. PICK p3 : p3 = [ty |-> "TOPOLOGY", name |-> a, body |-> boards]
    OBVIOUS
  <1>5. PICK w : w = IF TimeSources(boards) = {} THEN << >> ELSE <<p2>>
    OBVIOUS
  <1>6. Packets(n, m) = (<<p1>> \o w) \o <<p3>>
    BY <1>1, <1>2, <1>3, <1>4, <1>5 DEF Packets
  <1>7. PICK S : S = {p1, p2, p3}
    OBVIOUS
  <1>20. p1 \in S /\ p2 \in S /\ p3 \in S
    BY <1>7
  <1>21. <<p1>> \in Seq(S) /\ <<p3>> \in Seq(S)
    BY <1>20
  <1>8. PICK u : u = <<p1>> /\ u \in Seq(S)
    BY <1>21
  <1>17. PICK z : z = <<p3>> /\ z \in Seq(S)
    BY <1>21
  <1>18. w \in Seq(S)
    <2>1. << >> \in Seq(S) /\ <<p2>> \in Seq(S)
      BY <1>20
    <2> QED
      BY <1>5, <2>1
  <1>19. u \o w \in Seq(S)
    BY <1>8, <1>18
  <1>9. PICK v : v = u \o w /\ v \in Seq(S)
    BY <1>19
  <1>10. Packets(n, m) = v \o z
    BY <1>6, <1>8, <1>9, <1>17
  <1>11. \A p : Has(Packets(n, m), p) <=> Has(v, p) \/ Has(<<p3>>, p)
    <2>1. \A p : Has(v \o z, p) <=> Has(v, p) \/ Has(z, p)
      BY <1>9, <1>17, HasConcat
    <2> QED
      BY <1>10, <1>17, <2>1
  <1>12. \A p : Has(v, p) <=> Has(<<p1>>, p) \/ Has(w, p)
    BY <1>8, <1>9, <1>18, HasConcat
  <1>13. \A p : Has(w, p) => p = p2
    <2>1. CASE TimeSources(boards) = {}
      BY <1>5, <2>1, HasOne
    <2>2. CASE TimeSources(boards) # {}
      BY <1>5, <2>2, HasOne
    <2> QED
      BY <2>1, <2>2
  <1>14. \A p : Has(Packets(n, m), p) => p \in {p1, p2, p3}
    BY <1>11, <1>12, <1>13, HasOne
  <1>15. Has(Packets(n, m), p1)
    BY <1>11, <1>12, HasOne
  <1>16. /\ p1.ty = "ANNOUNCE" /\ p1.name = a
         /\ p2.ty = "TIMESYNC_SOURCES" /\ p2.name = a
         /\ p3.ty = "TOPOLOGY" /\ p3.name = a
    BY <1>2, <1>3, <1>4, PktIs
  <1> QED
    BY <1>14, <1>15, <1>16

(* queue_discovery_packets: what it prunes is none of what was heard, and *)
(* whoever has heard of this node is about to hear of it again.           *)
LEMMA KeptQueue ==
  ASSUME LinkInv, KeptOk, NEW n \in Nodes, QueueDiscoveryPackets(n), net' = net,
         \A o \in polled' : o \in polled \/ o = n
  PROVE  KeptOk' /\ Grows
  <1>0. /\ Fast \in Nat \ {0} /\ Slow \in Nat /\ Ttl \in Nat /\ Fast <= Slow /\ Slow < Ttl
        /\ Links \subseteq Nodes \X Nodes
    BY DiscoveryAssumption
  <1>1. PICK q : q = Pruned(n)
    OBVIOUS
  <1>2. routes' = [routes EXCEPT ![n] = q]
    BY <1>1 DEF QueueDiscoveryPackets
  <1>3. wire' = [l \in Links |-> IF l[1] = n THEN wire[l] \o Packets(n, l[2]) ELSE wire[l]]
    BY DEF QueueDiscoveryPackets
  <1>4. PICK i : i = IF q # routes[n] THEN Fast ELSE interval[n]
    OBVIOUS
  <1>5. i \in Fast .. Slow
    BY <1>0, <1>4 DEF KeptOk
  <1>6. due' = [due EXCEPT ![n] = i] /\ interval' = [interval EXCEPT ![n] = NextInterval(i)]
    BY <1>1, <1>4 DEF QueueDiscoveryPackets
  <1>7. NextInterval(i) \in Fast .. Slow
    <2>1. PICK j \in Int : j = 2 * i
      BY <1>0, <1>5
    <2>5. Slow \in Int
      BY <1>0
    <2>2. Min({j, Slow}) \in {j, Slow} /\ Min({j, Slow}) <= Slow
      BY <2>5, MinMaxTwo
    <2>3. NextInterval(i) = Min({j, Slow})
      BY <2>1 DEF NextInterval
    <2>4. j >= Fast
      BY <1>0, <1>5, <2>1
    <2> QED
      BY <1>0, <2>1, <2>2, <2>3, <2>4
  <1>8. interval' \in [Nodes -> Fast .. Slow]
    BY <1>6, <1>7 DEF KeptOk
  <1>9. due' \in [Nodes -> 0 .. Slow] /\ \A o \in Nodes : o # n => due'[o] = due[o]
    <2>1. i \in 0 .. Slow
      BY <1>0, <1>5
    <2> QED
      BY <1>6, <2>1 DEF KeptOk
  <1>10. PICK a0 : a0 = Received(Name(n))
    OBVIOUS
  <1>11. ASSUME NEW l \in Links, l[1] = n, NEW p
         PROVE  Has(wire'[l], p) <=> Has(wire[l], p) \/ Has(Packets(n, l[2]), p)
    <2>1. PICK S : wire[l] \in Seq(S)
      BY DEF LinkInv, WireOk
    <2>2. RoutesOk(routes[n], n)
      BY DEF LinkInv
    <2>3. PICK w : w = Packets(n, l[2])
      OBVIOUS
    <2>4. WireOk(w, <<n, l[2]>>)
      BY <2>2, <2>3, PacketsOk
    <2>5. PICK T : w \in Seq(T)
      BY <2>4 DEF WireOk
    <2>6. wire'[l] = wire[l] \o w
      BY <1>3, <1>11, <2>3
    <2> QED
      BY <2>1, <2>3, <2>5, <2>6, HasConcat
  <1>12. \A l \in Links : l[1] # n => wire'[l] = wire[l]
    BY <1>3
  <1>13. ASSUME NEW l \in Links, NEW p, Has(wire'[l], p) PROVE PktKept(p, l)
    <2>1. CASE Has(wire[l], p)
      BY <2>1 DEF KeptOk
    <2>2. CASE l[1] = n /\ Has(Packets(n, l[2]), p)
      <3>1. p.ty # "LEAVE" /\ p.name = a0
        BY <1>10, <2>2, PacketsHave
      <3>2. \E F : Path(F, n, l, a0)
        BY <1>10, <2>2, OwnPath
      <3> QED
        BY <3>1, <3>2 DEF PktKept
    <2> QED
      BY <1>11, <1>12, <1>13, <2>1, <2>2
  <1>14. \A l \in Links : \A p : Has(wire[l], p) => Has(wire'[l], p)
    BY <1>11, <1>12
  <1>15. /\ \A s \in DOMAIN q : /\ s \in DOMAIN routes[n]
                                /\ \A a \in DOMAIN q[s] : a \in DOMAIN routes[n][s] /\ q[s][a] = routes[n][s][a]
         /\ \A s \in DOMAIN routes[n] : \A a \in DOMAIN routes[n][s] :
               Live(routes[n][s][a].age) => s \in DOMAIN q /\ a \in DOMAIN q[s]
    BY <1>1 DEF Pruned, Restrict
  <1>16. \A k \in Nodes : routes'[k] = IF k = n THEN q ELSE routes[k]
    BY <1>2 DEF LinkInv
  <1>17. ASSUME NEW k \in Nodes, NEW s \in DOMAIN routes'[k], NEW a \in DOMAIN routes'[k][s]
         PROVE  EntryKept(routes'[k][s][a].age, k, s, a, wire', due', polled')
    <2>1. s \in DOMAIN routes[k] /\ a \in DOMAIN routes[k][s] /\ routes'[k][s][a] = routes[k][s][a]
      BY <1>15, <1>16
    <2>2. PICK age : age = routes'[k][s][a].age
      OBVIOUS
    <2>3. EntryKept(age, k, s, a, wire, due, polled)
      BY <2>1, <2>2 DEF KeptOk
    <2>9. PICK o \in Nodes : \E F : Path(F, o, <<s, k>>, a) /\ (Carried(F, wire) \/ Timely(age, o, due, polled))
      BY <2>3 DEF EntryKept
    <2>4. PICK F : Path(F, o, <<s, k>>, a) /\ (Carried(F, wire) \/ Timely(age, o, due, polled))
      BY <2>9
    <2>5. \A x \in F : x[1] \in Links
      BY <2>4 DEF Path
    <2>6. CASE Carried(F, wire)
      <3>1. Carried(F, wire')
        BY <1>14, <2>5, <2>6 DEF Carried
      <3> QED
        BY <2>2, <2>3, <2>4, <3>1 DEF EntryKept
    <2>7. CASE o = n
      <3>1. PICK x \in F : x[1][1] = o /\ x[2] = Received(Name(o))
        BY <2>4 DEF Path
      <3>2. PICK p : Has(Packets(n, x[1][2]), p) /\ p.name = a0
        BY <1>10, PacketsHave
      <3>3. Has(wire'[x[1]], p) /\ p.name = x[2]
        BY <1>10, <1>11, <2>5, <2>7, <3>1, <3>2
      <3>4. Carried(F, wire')
        BY <3>3 DEF Carried
      <3> QED
        BY <2>2, <2>3, <2>4, <3>4 DEF EntryKept
    <2>8. CASE o # n /\ Timely(age, o, due, polled)
      <3>1. Timely(age, o, due', polled')
        BY <1>9, <2>8 DEF Timely
      <3> QED
        BY <2>2, <2>3, <2>4, <3>1 DEF EntryKept
    <2> QED
      BY <2>4, <2>6, <2>7, <2>8
  <1>18. Grows
    <2> SUFFICES ASSUME NEW k \in Nodes, NEW s \in DOMAIN routes[k], NEW a \in DOMAIN routes[k][s]
                 PROVE  s \in DOMAIN routes'[k] /\ a \in DOMAIN routes'[k][s]
      BY DEF Grows
    <2>1. routes[k][s][a].age \in 0 .. Slow
      BY DEF KeptOk, EntryKept
    <2>2. Live(routes[k][s][a].age)
      BY <1>0, <2>1 DEF Live
    <2> QED
      BY <1>15, <1>16, <2>2
  <1> QED
    BY <1>8, <1>9, <1>13, <1>17, <1>18, KeptPrime

(* The packet pkt is taken from its link, and a relay sends it once more. *)
Again(pkt) == [pkt EXCEPT !.name = Received(@)]
Moved(m, n, pkt) ==
    /\ wire[<<m, n>>] # << >> /\ pkt = Head(wire[<<m, n>>])
    /\ wire' = [Forwarded(n, m, pkt) EXCEPT ![<<m, n>>] = Tail(@)]

(* The links after a packet is handled: it is gone from its link, and a    *)
(* relay has put it on all its others.                                     *)
LEMMA ForwardedHas ==
  ASSUME LinkInv, NEW m \in Nodes, NEW n \in Nodes, <<m, n>> \in Links,
         NEW pkt, Moved(m, n, pkt), NEW fwd, fwd = Again(pkt),
         NEW l \in Links, NEW p
  PROVE  /\ Has(wire'[l], p) =>
               Has(wire[l], p) \/ (l[1] = n /\ l[2] # m /\ IsRelay(n) /\ p = fwd)
         /\ l[1] = n /\ l[2] # m /\ IsRelay(n) => Has(wire'[l], fwd)
         /\ Has(wire[l], p) /\ (l # <<m, n>> \/ p # pkt) => Has(wire'[l], p)
  <1>1. PICK f : f = Forwarded(n, m, pkt)
    OBVIOUS
  <1>2. f = [k \in Links |-> IF k[1] = n /\ k[2] # m /\ IsRelay(n)
                             THEN Append(wire[k], fwd) ELSE wire[k]]
    BY <1>1 DEF Forwarded, Again
  <1>3. f[<<m, n>>] = wire[<<m, n>>]
    BY <1>2
  <1>4. /\ wire' = [f EXCEPT ![<<m, n>>] = Tail(wire[<<m, n>>])]
        /\ wire[<<m, n>>] # << >> /\ pkt = Head(wire[<<m, n>>])
    BY <1>1, <1>3 DEF Moved
  <1>5. PICK S : wire[l] \in Seq(S)
    BY DEF LinkInv, WireOk
  <1>6. CASE l = <<m, n>>
    <2>1. wire'[l] = Tail(wire[l])
      BY <1>2, <1>4, <1>6
    <2>2. Has(wire[l], p) <=> p = pkt \/ Has(Tail(wire[l]), p)
      BY <1>4, <1>5, <1>6, HasTail
    <2>3. ~(l[1] = n /\ l[2] # m)
      BY <1>6
    <2> QED
      BY <1>6, <2>1, <2>2, <2>3
  <1>7. CASE l # <<m, n>> /\ l[1] = n /\ l[2] # m /\ IsRelay(n)
    <2>1. wire'[l] = Append(wire[l], fwd)
      BY <1>2, <1>4, <1>7
    <2>2. Append(wire[l], fwd) = wire[l] \o <<fwd>>
      BY <1>5
    <2>3. <<fwd>> \in Seq({fwd})
      OBVIOUS
    <2>4. PICK u : u = <<fwd>> /\ u \in Seq({fwd})
      BY <2>3
    <2>5. \A r : Has(wire[l] \o u, r) <=> Has(wire[l], r) \/ Has(u, r)
      BY <1>5, <2>4, HasConcat
    <2>6. \A r : Has(wire'[l], r) <=> Has(wire[l], r) \/ r = fwd
      BY <2>1, <2>2, <2>4, <2>5, HasOne
    <2> QED
      BY <1>7, <2>6
  <1>8. CASE l # <<m, n>> /\ ~(l[1] = n /\ l[2] # m /\ IsRelay(n))
    <2>1. wire'[l] = wire[l]
      BY <1>2, <1>4, <1>8
    <2> QED
      BY <1>8, <2>1
  <1> QED
    BY <1>6, <1>7, <1>8

(* What node n knows after handle_discovery_packet: the sender is as good *)
(* as new, the others are as they were.                                   *)
LEMMA HandledEntries ==
  ASSUME LinkInv, NEW m \in Nodes, NEW n \in Nodes, NEW pkt, pkt.ty # "LEAVE",
         HandleDiscoveryPacket(n, m, pkt), NEW ignored,
         ignored <=> ~IsRelay(n) /\ pkt.name = Name(n),
         NEW k \in Nodes, NEW s, NEW a
  PROVE  /\ s \in DOMAIN routes[k] /\ a \in DOMAIN routes[k][s] =>
               s \in DOMAIN routes'[k] /\ a \in DOMAIN routes'[k][s]
         /\ s \in DOMAIN routes'[k] /\ a \in DOMAIN routes'[k][s] =>
               \/ ~ignored /\ k = n /\ s = m /\ a = pkt.name /\ routes'[k][s][a].age = 0
               \/ /\ s \in DOMAIN routes[k] /\ a \in DOMAIN routes[k][s]
                  /\ routes'[k][s][a] = routes[k][s][a]
                  /\ ignored \/ ~(k = n /\ s = m /\ a = pkt.name)
  <1>1. CASE ignored
    <2>1. UNCHANGED routes
      BY <1>1 DEF HandleDiscoveryPacket
    <2> QED
      BY <1>1, <2>1
  <1>2. CASE ~ignored
    <2>1. HandleNews(n, m, pkt)
      BY <1>2 DEF HandleDiscoveryPacket
    <2>2. PICK side : side = IF m \in DOMAIN routes[n] THEN routes[n][m] ELSE << >>
      OBVIOUS
    <2>3. PICK known : known = IF pkt.name \in DOMAIN side THEN side[pkt.name].boards ELSE << >>
      OBVIOUS
    <2>4. PICK told : told = Told(known, pkt, <<n, m>>)
      OBVIOUS
    <2>5. PICK news : news = [boards |-> told, age |-> 0]
      OBVIOUS
    <2>6. PICK u : u = Put(side, pkt.name, news)
      OBVIOUS
    <2>7. PICK v : v = Put(routes[n], m, u)
      OBVIOUS
    <2>8. routes' = [routes EXCEPT ![n] = v]
      BY <2>1, <2>2, <2>3, <2>4, <2>5, <2>6, <2>7 DEF HandleNews
    <2>9. routes'[k] = IF k = n THEN v ELSE routes[k]
      BY <2>8 DEF LinkInv
    <2>10. /\ DOMAIN u = DOMAIN side \cup {pkt.name} /\ u[pkt.name] = news
           /\ \A y \in DOMAIN side : y # pkt.name => u[y] = side[y]
      BY <2>6 DEF Put
    <2>11. /\ DOMAIN v = DOMAIN routes[n] \cup {m} /\ v[m] = u
           /\ \A y \in DOMAIN routes[n] : y # m => v[y] = routes[n][y]
      BY <2>7 DEF Put
    <2>12. news.age = 0
      BY <2>5
    <2>13. CASE k # n
      BY <1>2, <2>9, <2>13
    <2>14. CASE k = n /\ s # m
      BY <1>2, <2>9, <2>11, <2>14
    <2>15. CASE k = n /\ s = m
      <3>1. s \in DOMAIN routes'[k] /\ routes'[k][s] = u
        BY <2>9, <2>11, <2>15
      <3>2. m \in DOMAIN routes[n] => side = routes[n][m]
        BY <2>2
      <3>3. m \notin DOMAIN routes[n] => DOMAIN side = {}
        <4>1. DOMAIN << >> = {}
          OBVIOUS
        <4> QED
          BY <2>2, <4>1
      <3> QED
        BY <1>2, <2>10, <2>12, <2>15, <3>1, <3>2, <3>3
    <2> QED
      BY <2>13, <2>14, <2>15
  <1> QED
    BY <1>1, <1>2

(* note_discovery_topology_change only brings an announcement forward. *)
LEMMA HandledTimes ==
  ASSUME KeptOk, NEW m \in Nodes, NEW n \in Nodes, NEW pkt,
         HandleDiscoveryPacket(n, m, pkt)
  PROVE  /\ interval' \in [Nodes -> Fast .. Slow] /\ due' \in [Nodes -> 0 .. Slow]
         /\ \A o \in Nodes : due'[o] <= due[o]
  <1>0. Fast \in Nat \ {0} /\ Slow \in Nat /\ Fast <= Slow
    BY DiscoveryAssumption
  <1>1. interval \in [Nodes -> Fast .. Slow] /\ due \in [Nodes -> 0 .. Slow]
    BY DEF KeptOk
  <1>2. CASE UNCHANGED <<interval, due>>
    BY <1>0, <1>1, <1>2
  <1>3. ASSUME NEW changed, NoteChange(n, changed)
        PROVE  /\ interval' \in [Nodes -> Fast .. Slow] /\ due' \in [Nodes -> 0 .. Slow]
               /\ \A o \in Nodes : due'[o] <= due[o]
    <2>1. PICK i : i = IF changed THEN Fast ELSE interval[n]
      OBVIOUS
    <2>2. PICK d : d = IF changed THEN 0 ELSE due[n]
      OBVIOUS
    <2>3. i \in Fast .. Slow /\ d \in 0 .. Slow /\ d <= due[n]
      BY <1>0, <1>1, <2>1, <2>2
    <2>4. interval' = [interval EXCEPT ![n] = i] /\ due' = [due EXCEPT ![n] = d]
      BY <1>3, <2>1, <2>2 DEF NoteChange
    <2>5. interval' \in [Nodes -> Fast .. Slow] /\ due' \in [Nodes -> 0 .. Slow]
      BY <1>1, <2>3, <2>4
    <2>6. \A o \in Nodes : due'[o] <= due[o]
      BY <1>0, <1>1, <2>3, <2>4
    <2> QED
      BY <2>5, <2>6
  <1>4. UNCHANGED <<interval, due>> \/ \E changed : NoteChange(n, changed)
    BY DEF HandleDiscoveryPacket, HandleLeave, HandleNews
  <1> QED
    BY <1>2, <1>3, <1>4

(***************************************************************************)
(* A node handles a packet: the announcement has reached the one it was    *)
(* on its way to, or a relay has sent it on along the same way.            *)
(***************************************************************************)
LEMMA KeptDeliver ==
  ASSUME LinkInv, KeptOk, NEW m \in Nodes, NEW n \in Nodes, <<m, n>> \in Links,
         Deliver(m, n), n \in alive
  PROVE  KeptOk' /\ Grows
  <1>0. /\ Fast \in Nat \ {0} /\ Slow \in Nat /\ Fast <= Slow
        /\ \A l \in Links : l = <<l[1], l[2]>> /\ l[1] \in Nodes /\ l[2] \in Nodes
    BY DiscoveryAssumption
  <1>1. PICK pkt : pkt = Head(wire[<<m, n>>])
    OBVIOUS
  <1>2. /\ Moved(m, n, pkt) /\ HandleDiscoveryPacket(n, m, pkt)
        /\ net' = net /\ polled' = polled
    BY <1>1 DEF Deliver, Moved
  <1>3. Has(wire[<<m, n>>], pkt)
    <2>1. PICK S : wire[<<m, n>>] \in Seq(S)
      BY DEF LinkInv, WireOk
    <2>2. wire[<<m, n>>] # << >>
      BY <1>2 DEF Moved
    <2> QED
      BY <1>1, <2>1, <2>2, HasTail
  <1>4. PktKept(pkt, <<m, n>>)
    BY <1>3 DEF KeptOk
  <1>5. pkt.ty # "LEAVE"
    BY <1>4 DEF PktKept
  <1>6. PICK fwd : fwd = Again(pkt)
    OBVIOUS
  <1>7. fwd.ty = pkt.ty /\ fwd.name = Received(pkt.name)
    <2>1. PktOk(pkt, <<m, n>>)
      <3>1. WireOk(wire[<<m, n>>], <<m, n>>)
        BY DEF LinkInv
      <3> QED
        BY <1>3, <3>1 DEF WireOk, Has
    <2>2. PICK ty, name, body : pkt = [ty |-> ty, name |-> name, body |-> body]
      BY <2>1 DEF PktOk
    <2>3. fwd = [ty |-> ty, name |-> Received(name), body |-> body]
      BY <1>6, <2>2 DEF Again
    <2> QED
      BY <2>2, <2>3
  <1>8. /\ interval' \in [Nodes -> Fast .. Slow] /\ due' \in [Nodes -> 0 .. Slow]
        /\ \A o \in Nodes : due'[o] <= due[o]
    BY <1>2, HandledTimes
  <1>9. \A l \in Links : \A p :
          /\ Has(wire'[l], p) =>
               Has(wire[l], p) \/ (l[1] = n /\ l[2] # m /\ IsRelay(n) /\ p = fwd)
          /\ l[1] = n /\ l[2] # m /\ IsRelay(n) => Has(wire'[l], fwd)
          /\ Has(wire[l], p) /\ (l # <<m, n>> \/ p # pkt) => Has(wire'[l], p)
    BY <1>2, <1>6, ForwardedHas
  <1>10. ASSUME NEW l \in Links, NEW p, Has(wire'[l], p) PROVE PktKept(p, l)
    <2>1. CASE Has(wire[l], p)
      BY <2>1 DEF KeptOk
    <2>2. CASE l[1] = n /\ l[2] # m /\ IsRelay(n) /\ p = fwd
      <3>1. PICK o \in Nodes : \E F : Path(F, o, <<m, n>>, pkt.name)
        BY <1>4 DEF PktKept
      <3>2. PICK F : Path(F, o, <<m, n>>, pkt.name)
        BY <3>1
      <3>3. PICK k \in Links : k = <<m, n>> /\ k[1] = m /\ k[2] = n
        OBVIOUS
      <3>4. l[1] = k[2] /\ l[2] # k[1] /\ IsRelay(l[1]) /\ Path(F, o, k, pkt.name)
        BY <2>2, <3>2, <3>3
      <3>5. \E G : Path(G, o, l, fwd.name)
        BY <1>7, <3>4, MorePath
      <3> QED
        BY <1>5, <1>7, <2>2, <3>5 DEF PktKept
    <2> QED
      BY <1>9, <1>10, <2>1, <2>2
  <1>11. PICK ignored : ignored <=> ~IsRelay(n) /\ pkt.name = Name(n)
    OBVIOUS
  <1>12. \A k \in Nodes : \A s, a :
         /\ s \in DOMAIN routes[k] /\ a \in DOMAIN routes[k][s] =>
               s \in DOMAIN routes'[k] /\ a \in DOMAIN routes'[k][s]
         /\ s \in DOMAIN routes'[k] /\ a \in DOMAIN routes'[k][s] =>
               \/ ~ignored /\ k = n /\ s = m /\ a = pkt.name /\ routes'[k][s][a].age = 0
               \/ /\ s \in DOMAIN routes[k] /\ a \in DOMAIN routes[k][s]
                  /\ routes'[k][s][a] = routes[k][s][a]
                  /\ ignored \/ ~(k = n /\ s = m /\ a = pkt.name)
    BY <1>2, <1>5, <1>11, HandledEntries
  <1>13. ASSUME NEW k \in Nodes, NEW s \in DOMAIN routes'[k], NEW a \in DOMAIN routes'[k][s]
         PROVE  EntryKept(routes'[k][s][a].age, k, s, a, wire', due', polled')
    <2>1. CASE ~ignored /\ k = n /\ s = m /\ a = pkt.name /\ routes'[k][s][a].age = 0
      <3>1. PICK o \in Nodes : \E F : Path(F, o, <<m, n>>, pkt.name)
        BY <1>4 DEF PktKept
      <3>2. Timely(0, o, due', polled')
        <4>1. due'[o] \in 0 .. Slow
          BY <1>8
        <4> QED
          BY <1>0, <4>1 DEF Timely
      <3>3. IsRelay(k) \/ a # Name(k)
        BY <1>11, <2>1
      <3>4. 0 \in 0 .. Slow
        BY <1>0
      <3>5. EntryKept(0, k, s, a, wire', due', polled')
        BY <2>1, <3>1, <3>2, <3>3, <3>4 DEF EntryKept
      <3> QED
        BY <2>1, <3>5
    <2>2. CASE /\ s \in DOMAIN routes[k] /\ a \in DOMAIN routes[k][s]
               /\ routes'[k][s][a] = routes[k][s][a]
               /\ ignored \/ ~(k = n /\ s = m /\ a = pkt.name)
      <3>1. PICK age : age = routes'[k][s][a].age
        OBVIOUS
      <3>2. EntryKept(age, k, s, a, wire, due, polled)
        BY <2>2, <3>1 DEF KeptOk
      <3>3. age \in 0 .. Slow /\ (IsRelay(k) \/ a # Name(k))
        BY <3>2 DEF EntryKept
      <3>4. ~(k = n /\ s = m /\ a = pkt.name)
        BY <1>11, <2>2, <3>3
      <3>5. PICK o \in Nodes : \E F : Path(F, o, <<s, k>>, a) /\ (Carried(F, wire) \/ Timely(age, o, due, polled))
        BY <3>2 DEF EntryKept
      <3>6. PICK F : Path(F, o, <<s, k>>, a) /\ (Carried(F, wire) \/ Timely(age, o, due, polled))
        BY <3>5
      <3>7. \A x \in F : x[1] \in Links
        BY <3>6 DEF Path
      <3>8. CASE Timely(age, o, due, polled)
        <4>1. due'[o] <= due[o] /\ due'[o] \in 0 .. Slow /\ due[o] \in 0 .. Slow
          BY <1>8 DEF KeptOk
        <4>2. Timely(age, o, due', polled')
          BY <1>0, <1>2, <3>3, <3>8, <4>1 DEF Timely
        <4> QED
          BY <3>1, <3>3, <3>6, <4>2 DEF EntryKept
      <3>9. CASE Carried(F, wire)
        <4>1. PICK x \in F : \E p : Has(wire[x[1]], p) /\ p.name = x[2]
          BY <3>9 DEF Carried
        <4>2. PICK p : Has(wire[x[1]], p) /\ p.name = x[2]
          BY <4>1
        <4>3. CASE x[1] # <<m, n>> \/ p # pkt
          <5>1. Has(wire'[x[1]], p)
            BY <1>9, <3>7, <4>2, <4>3
          <5>2. Carried(F, wire')
            BY <4>2, <5>1 DEF Carried
          <5> QED
            BY <3>1, <3>3, <3>6, <5>2 DEF EntryKept
        <4>4. CASE x[1] = <<m, n>> /\ p = pkt
          <5>1. x # <<<<s, k>>, a>>
            <6> SUFFICES ASSUME x = <<<<s, k>>, a>> PROVE FALSE
              OBVIOUS
            <6>1. x[1] = <<s, k>> /\ x[2] = a
              OBVIOUS
            <6> QED
              BY <3>4, <4>2, <4>4, <6>1
          <5>2. PICK y \in F : Hop(x, y)
            BY <3>6, <5>1 DEF Path
          <5>3. y[1] \in Links
            BY <3>7
          <5>4. /\ y[1][1] = n /\ y[1][2] # m /\ IsRelay(n)
                /\ y[2] = fwd.name
            <6>1. x[1][1] = m /\ x[1][2] = n /\ x[2] = pkt.name
              BY <4>2, <4>4
            <6> QED
              BY <1>7, <5>2, <6>1 DEF Hop
          <5>5. Has(wire'[y[1]], fwd)
            BY <1>9, <5>3, <5>4
          <5>6. Carried(F, wire')
            BY <5>4, <5>5 DEF Carried
          <5> QED
            BY <3>1, <3>3, <3>6, <5>6 DEF EntryKept
        <4> QED
          BY <4>3, <4>4
      <3> QED
        BY <3>6, <3>8, <3>9
    <2> QED
      BY <1>12, <2>1, <2>2
  <1>14. Grows
    BY <1>12 DEF Grows
  <1> QED
    BY <1>2, <1>8, <1>10, <1>13, <1>14, KeptPrime

(* A tick: everyone has been polled and nothing is on its way, so that    *)
(* whatever was not heard again is due no later than it expires.          *)
LEMMA KeptTick == ASSUME LinkInv, KeptOk, Tick, alive = Nodes PROVE KeptOk' /\ Grows
  <1>0. Fast \in Nat \ {0} /\ Slow \in Nat /\ Ttl \in Nat /\ Fast <= Slow /\ Slow < Ttl
    BY DiscoveryAssumption
  <1>1. /\ net' = net /\ wire' = wire /\ interval' = interval /\ polled' = {}
        /\ routes' = [n \in Nodes |-> Aged(routes[n], 1)]
        /\ due' = [n \in Nodes |-> Max({due[n] - 1, 0})]
        /\ \A l \in Links : wire[l] = << >>
        /\ \A n \in Nodes : n \in polled
    BY DEF Tick
  <1>2. \A n \in Nodes : due[n] \in 0 .. Slow
    BY DEF KeptOk
  <1>3. ASSUME NEW n \in Nodes
        PROVE  due'[n] \in 0 .. Slow /\ (due'[n] = due[n] - 1 \/ due'[n] = 0)
    <2>1. PICK d \in Int : d = due[n] - 1
      BY <1>0, <1>2
    <2>2. due'[n] = Max({d, 0})
      BY <1>1, <2>1
    <2>3. Max({d, 0}) \in {d, 0} /\ Max({d, 0}) >= 0
      BY MinMaxTwo
    <2> QED
      BY <1>0, <1>2, <2>1, <2>2, <2>3
  <1>4. due' \in [Nodes -> 0 .. Slow]
    BY <1>1, <1>3
  <1>5. ASSUME NEW n \in Nodes
        PROVE  /\ DOMAIN routes'[n] = DOMAIN routes[n]
               /\ \A s \in DOMAIN routes[n] :
                     /\ DOMAIN routes'[n][s] = DOMAIN routes[n][s]
                     /\ \A a \in DOMAIN routes[n][s] :
                           routes'[n][s][a] = WithAge(routes[n][s][a], Min({routes[n][s][a].age + 1, Ttl + 1}))
    <2>1. routes'[n] = Aged(routes[n], 1)
      BY <1>1
    <2> QED
      BY <2>1 DEF Aged, WithAge
  <1>6. ASSUME NEW n \in Nodes, NEW s \in DOMAIN routes'[n], NEW a \in DOMAIN routes'[n][s]
        PROVE  EntryKept(routes'[n][s][a].age, n, s, a, wire', due', polled')
    <2>1. s \in DOMAIN routes[n] /\ a \in DOMAIN routes[n][s]
      BY <1>5
    <2>2. PICK e : e = routes[n][s][a]
      OBVIOUS
    <2>3. EntryKept(e.age, n, s, a, wire, due, polled)
      BY <2>1, <2>2 DEF KeptOk
    <2>4. PICK age : age = e.age /\ age \in 0 .. Slow
      BY <2>3 DEF EntryKept
    <2>5. PICK v : v = Min({age + 1, Ttl + 1})
      OBVIOUS
    <2>6. v = age + 1
      <3>1. PICK x \in Int : x = age + 1
        BY <1>0, <2>4
      <3>2. PICK y \in Int : y = Ttl + 1
        BY <1>0
      <3>3. v \in {x, y} /\ v <= x /\ v <= y
        <4>1. v = Min({x, y})
          BY <2>5, <3>1, <3>2
        <4> QED
          BY <4>1, MinMaxTwo
      <3> QED
        BY <1>0, <2>4, <3>1, <3>2, <3>3
    <2>7. routes'[n][s][a].age = v
      <3>1. routes'[n][s][a] = WithAge(e, v)
        BY <1>5, <2>1, <2>2, <2>4, <2>5
      <3>2. EntryOk(e, n, s)
        BY <2>1, <2>2 DEF LinkInv, RoutesOk
      <3>3. PICK b, g : e = [boards |-> b, age |-> g]
        BY <3>2 DEF EntryOk
      <3>4. WithAge(e, v) = [boards |-> b, age |-> v]
        BY <3>3 DEF WithAge
      <3> QED
        BY <3>1, <3>4
    <2>8. PICK o \in Nodes : \E F : Path(F, o, <<s, n>>, a) /\ (Carried(F, wire) \/ Timely(age, o, due, polled))
      BY <2>3, <2>4 DEF EntryKept
    <2>9. PICK F : Path(F, o, <<s, n>>, a) /\ (Carried(F, wire) \/ Timely(age, o, due, polled))
      BY <2>8
    <2>10. ~Carried(F, wire)
      <3>1. \A x \in F : x[1] \in Links
        BY <2>9 DEF Path
      <3> QED
        BY <1>1, <3>1, HasOne DEF Carried
    <2>11. age + due[o] <= Slow /\ age + 1 <= Slow
      BY <1>1, <2>9, <2>10 DEF Timely
    <2>12. v \in 0 .. Slow /\ v + due'[o] <= Slow
      BY <1>0, <1>2, <1>3, <2>4, <2>6, <2>11
    <2>13. Timely(v, o, due', polled')
      BY <1>1, <2>12 DEF Timely
    <2>14. EntryKept(v, n, s, a, wire', due', polled')
      BY <2>3, <2>9, <2>12, <2>13 DEF EntryKept
    <2> QED
      BY <2>7, <2>14
  <1>7. Grows
    BY <1>5 DEF Grows
  <1>8. interval' \in [Nodes -> Fast .. Slow] /\ \A l \in Links : \A p : Has(wire'[l], p) => PktKept(p, l)
    BY <1>1 DEF KeptOk
  <1> QED
    BY <1>1, <1>4, <1>6, <1>7, <1>8, KeptPrime

(* A poll before the next announcement is due. *)
LEMMA KeptIdle ==
  ASSUME KeptOk, NEW n \in Nodes, due[n] > 0, polled' = polled \cup {n},
         UNCHANGED <<net, routes, interval, due, wire>>
  PROVE  KeptOk' /\ Grows
  <1>1. ASSUME NEW k \in Nodes, NEW s \in DOMAIN routes'[k], NEW a \in DOMAIN routes'[k][s]
        PROVE  EntryKept(routes'[k][s][a].age, k, s, a, wire', due', polled')
    <2>1. PICK age : age = routes[k][s][a].age
      OBVIOUS
    <2>2. EntryKept(age, k, s, a, wire, due, polled)
      BY <2>1 DEF KeptOk
    <2>3. PICK o \in Nodes : \E F : Path(F, o, <<s, k>>, a) /\ (Carried(F, wire) \/ Timely(age, o, due, polled))
      BY <2>2 DEF EntryKept
    <2>4. Timely(age, o, due, polled) => Timely(age, o, due', polled')
      <3>1. age \in 0 .. Slow /\ due[o] \in 0 .. Slow /\ Slow \in Nat
        BY <2>2, DiscoveryAssumption DEF EntryKept, KeptOk
      <3> QED
        BY <3>1 DEF Timely
    <2>5. EntryKept(age, k, s, a, wire, due', polled')
      BY <2>2, <2>3, <2>4 DEF EntryKept
    <2> QED
      BY <2>1, <2>5
  <1>2. Grows
    BY DEF Grows
  <1>3. /\ interval' \in [Nodes -> Fast .. Slow] /\ due' \in [Nodes -> 0 .. Slow]
        /\ \A l \in Links : \A p : Has(wire'[l], p) => PktKept(p, l)
    BY DEF KeptOk
  <1> QED
    BY <1>1, <1>2, <1>3, KeptPrime

(* Every step that is no disturbance keeps what was heard. *)
LEMMA KeptStep ==
  ASSUME LinkInv, KeptInv, [Next]_vars
  PROVE  KeptInv' /\ (faults' = 0 /\ alive' = Nodes => KeptOk' /\ Grows)
  <1>0. faults \in Nat /\ alive \subseteq Nodes /\ (faults = 0 /\ alive = Nodes => KeptOk)
    BY DEF KeptInv
  <1>1. CASE faults' = faults + 1 /\ alive' = alive
    BY <1>0, <1>1 DEF KeptInv
  <1>2. ASSUME NEW n \in Nodes, Leave(n)
        PROVE  faults' = faults /\ alive' \subseteq Nodes /\ alive' # Nodes
    BY <1>0, <1>2 DEF Leave
  <1>3. ASSUME faults' = faults, alive' = alive, faults = 0 /\ alive = Nodes => KeptOk' /\ Grows
        PROVE  KeptInv' /\ (faults' = 0 /\ alive' = Nodes => KeptOk' /\ Grows)
    BY <1>0, <1>3 DEF KeptInv
  <1>4. CASE Tick
    <2>1. faults' = faults /\ alive' = alive
      BY <1>4 DEF Tick
    <2> QED
      BY <1>0, <1>3, <1>4, <2>1, KeptTick
  <1>5. ASSUME NEW n \in Nodes, PollDiscovery(n)
        PROVE  faults' = faults /\ alive' = alive /\ (faults = 0 /\ alive = Nodes => KeptOk' /\ Grows)
    <2>1. faults' = faults /\ alive' = alive /\ net' = net /\ polled' = polled \cup {n}
      BY <1>5 DEF PollDiscovery
    <2>2. CASE due[n] = 0 /\ QueueDiscoveryPackets(n)
      <3>1. \A o \in polled' : o \in polled \/ o = n
        BY <2>1
      <3> QED
        BY <1>0, <2>1, <2>2, <3>1, KeptQueue
    <2>3. CASE due[n] > 0 /\ UNCHANGED <<routes, interval, due, wire>>
      BY <1>0, <2>1, <2>3, KeptIdle
    <2> QED
      BY <1>5, <2>1, <2>2, <2>3 DEF PollDiscovery
  <1>6. ASSUME NEW l \in Links, Deliver(l[1], l[2])
        PROVE  faults' = faults /\ alive' = alive /\ (faults = 0 /\ alive = Nodes => KeptOk' /\ Grows)
    <2>1. l[1] \in Nodes /\ l[2] \in Nodes /\ <<l[1], l[2]>> \in Links
      BY DiscoveryAssumption
    <2>2. faults' = faults /\ alive' = alive
      BY <1>6 DEF Deliver
    <2> QED
      BY <1>0, <1>6, <2>1, <2>2, KeptDeliver
  <1>7. ASSUME NEW n \in Nodes, AnnounceDiscovery(n)
        PROVE  faults' = faults /\ alive' = alive /\ (faults = 0 /\ alive = Nodes => KeptOk' /\ Grows)
    <2>1. /\ faults' = faults /\ alive' = alive /\ net' = net /\ polled' = polled
          /\ QueueDiscoveryPackets(n)
      BY <1>7 DEF AnnounceDiscovery
    <2>2. \A o \in polled' : o \in polled \/ o = n
      BY <2>1
    <2> QED
      BY <1>0, <2>1, <2>2, KeptQueue
  <1>8. ASSUME NEW n \in Nodes, StepBack(n) \/ Restart(n)
        PROVE  faults' = faults + 1 /\ alive' = alive
    BY <1>8 DEF StepBack, Restart
  <1>9. ASSUME NEW l \in Links, NEW i \in DOMAIN wire[l], Lose(l, i)
        PROVE  faults' = faults + 1 /\ alive' = alive
    BY <1>9 DEF Lose
  <1>10. CASE UNCHANGED vars
    <2>1. UNCHANGED <<net, alive, routes, interval, due, wire, polled, faults>>
      BY <1>10 DEF vars
    <2>2. KeptOk => KeptOk'
      <3> SUFFICES ASSUME KeptOk PROVE KeptOk'
        OBVIOUS
      <3> QED
        BY <2>1, KeptPrime DEF KeptOk
    <2>3. Grows
      BY <2>1 DEF Grows
    <2> QED
      BY <1>0, <1>3, <2>1, <2>2, <2>3
  <1>11. ASSUME NEW n \in Nodes, Leave(n)
         PROVE  KeptInv' /\ (faults' = 0 /\ alive' = Nodes => KeptOk' /\ Grows)
    BY <1>0, <1>2, <1>11 DEF KeptInv
  <1> QED
    BY <1>1, <1>3, <1>4, <1>5, <1>6, <1>7, <1>8, <1>9, <1>10, <1>11 DEF Next, Work

(* Initially nothing was heard and every node is about to announce itself. *)
LEMMA KeptInit == Init => KeptInv
  <1> SUFFICES ASSUME Init PROVE KeptInv
    OBVIOUS
  <1>0. Fast \in Nat \ {0} /\ Slow \in Nat /\ Fast <= Slow
    BY DiscoveryAssumption
  <1>1. /\ alive = Nodes /\ faults = 0
        /\ routes = [n \in Nodes |-> << >>]
        /\ interval = [n \in Nodes |-> Fast] /\ due = [n \in Nodes |-> 0]
        /\ wire = [l \in Links |-> << >>]
    BY DEF Init
  <1>2. interval \in [Nodes -> Fast .. Slow] /\ due \in [Nodes -> 0 .. Slow]
    BY <1>0, <1>1
  <1>3. \A l \in Links : \A p : ~Has(wire[l], p)
    BY <1>1, HasOne
  <1>4. \A n \in Nodes : DOMAIN routes[n] = {}
    BY <1>1
  <1>5. KeptOk
    BY <1>2, <1>3, <1>4 DEF KeptOk
  <1> QED
    BY <1>1, <1>5 DEF KeptInv

(***************************************************************************)
(* As long as nothing is lost, no clock steps back and nobody leaves, what *)
(* a node has heard is never forgotten, in every network, with any chain   *)
(* of relays between the announcer and the node, and for any intervals and *)
(* TTL with Fast <= Slow < Ttl: the doubling of discovery_interval_ms      *)
(* never lets an entry grow older than the TTL.                            *)
(***************************************************************************)
THEOREM KeptTheorem == Spec => HeardIsKept
  <1> DEFINE Kept == faults' = 0 /\ alive' = Nodes =>
                \A n \in Nodes : \A s \in DOMAIN routes[n] : \A a \in DOMAIN routes[n][s] :
                   /\ s \in DOMAIN routes'[n] /\ a \in DOMAIN routes'[n][s]
                   /\ Live(routes'[n][s][a].age)
  <1>1. ASSUME LinkInv, KeptInv, [Next]_vars PROVE Kept
    <2> SUFFICES ASSUME faults' = 0, alive' = Nodes, NEW n \in Nodes,
                        NEW s \in DOMAIN routes[n], NEW a \in DOMAIN routes[n][s]
                 PROVE  /\ s \in DOMAIN routes'[n] /\ a \in DOMAIN routes'[n][s]
                        /\ Live(routes'[n][s][a].age)
      OBVIOUS
    <2>1. KeptOk' /\ Grows
      BY <1>1, KeptStep
    <2>2. s \in DOMAIN routes'[n] /\ a \in DOMAIN routes'[n][s]
      BY <2>1 DEF Grows
    <2>3. routes'[n][s][a].age \in 0 .. Slow
      BY <2>1, <2>2 DEF KeptOk, EntryKept
    <2>4. Live(routes'[n][s][a].age)
      BY <2>3, DiscoveryAssumption DEF Live
    <2> QED
      BY <2>2, <2>4
  <1>2. LinkInv /\ KeptInv /\ [Next]_vars => [Kept]_vars
    BY <1>1
  <1>3. LinkInv /\ KeptInv /\ [Next]_vars => LinkInv' /\ KeptInv'
    BY LinkStepInv, KeptStep
  <1>4. Init => LinkInv /\ KeptInv
    BY LinkInitInv, KeptInit
  <1> QED
    BY <1>2, <1>3, <1>4, PTL DEF Spec, HeardIsKept

=============================================================================
