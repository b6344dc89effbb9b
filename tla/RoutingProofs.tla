---------------------------- MODULE RoutingProofs ----------------------------
(***************************************************************************)
(* Proofs about Routing for any number of sides, types, endpoints, calls   *)
(* and packets, every policy and every capacity of the duplicate cache.    *)
(***************************************************************************)
EXTENDS Routing, FiniteSetTheorems, NaturalsInduction, WellFoundedInduction, TLAPS

-----------------------------------------------------------------------------
(* Filtering a queue *)

(* Of two positions the later one has more positions up to it. *)
LEMMA RankGrows ==
  ASSUME NEW I \in SUBSET Nat, IsFiniteSet(I), NEW a \in I, NEW b \in I, a < b
  PROVE  Cardinality({j \in I : j <= a}) < Cardinality({j \in I : j <= b})
  <1> DEFINE A == {j \in I : j <= a}
             B == {j \in I : j <= b}
  <1>1. IsFiniteSet(B) /\ A \in SUBSET B
    <2>1. \A j \in I : j <= a => j <= b
      OBVIOUS
    <2>2. B \in SUBSET I /\ A \in SUBSET B
      BY <2>1
    <2> HIDE DEF A, B
    <2> QED
      BY <2>2, FS_Subset
  <1>2. b \in B /\ b \notin A
    OBVIOUS
  <1> HIDE DEF A, B
  <1>3. Cardinality(A) <= Cardinality(B) /\ Cardinality(A) # Cardinality(B)
    BY <1>1, <1>2, FS_Subset
  <1>4. Cardinality(A) \in Nat /\ Cardinality(B) \in Nat
    BY <1>1, FS_Subset, FS_CardinalityType
  <1> QED
    BY <1>3, <1>4 DEF A, B

(* Every rank up to the number of positions is taken. *)
LEMMA RankExists ==
  ASSUME NEW I \in SUBSET Nat, IsFiniteSet(I), NEW n \in 1 .. Cardinality(I)
  PROVE  \E i \in I : Cardinality({j \in I : j <= i}) = n
  <1> DEFINE c == Cardinality(I)
             rank == [i \in I |-> Cardinality({j \in I : j <= i})]
  <1>1. c \in Nat /\ IsFiniteSet(1 .. c) /\ Cardinality(1 .. c) = c
    BY FS_CardinalityType, FS_Interval
  <1>2. ASSUME NEW i \in I
        PROVE  rank[i] \in 1 .. c
    <2> DEFINE A == {j \in I : j <= i}
    <2>1. A \in SUBSET I /\ i \in A
      OBVIOUS
    <2> HIDE DEF A
    <2>2. IsFiniteSet(A) /\ Cardinality(A) <= c /\ Cardinality(A) \in Nat
      BY <2>1, FS_Subset, FS_CardinalityType
    <2>3. Cardinality(A) # 0
      BY <2>1, <2>2, FS_EmptySet
    <2> QED
      BY <1>1, <2>2, <2>3 DEF A
  <1>3. ASSUME NEW a \in I, NEW b \in I, rank[a] = rank[b]
        PROVE  a = b
    <2>1. ~(a < b)
      BY <1>2, <1>3, RankGrows
    <2>2. ~(b < a)
      BY <1>2, <1>3, RankGrows
    <2> QED
      BY <2>1, <2>2
  <1>4. rank \in Injection(I, 1 .. c)
    BY <1>2, <1>3 DEF Injection, IsInjective
  <1>5. rank \in Surjection(I, 1 .. c)
    BY <1>1, <1>4, FS_Injection
  <1> QED
    BY <1>5 DEF Surjection

(* Kept keeps entries of the chosen positions only. *)
LEMMA KeptEntries ==
  ASSUME NEW S, NEW queue \in Seq(S), NEW I \in SUBSET DOMAIN queue
  PROVE  /\ Kept(queue, I) \in Seq(S)
         /\ \A n \in DOMAIN Kept(queue, I) : \E i \in I : Kept(queue, I)[n] = queue[i]
  <1>1. IsFiniteSet(I) /\ I \in SUBSET Nat
    <2>1. DOMAIN queue = 1 .. Len(queue) /\ Len(queue) \in Nat
      OBVIOUS
    <2>2. IsFiniteSet(1 .. Len(queue))
      BY <2>1, FS_Interval
    <2> QED
      BY <2>1, <2>2, FS_Subset
  <1> DEFINE At(n) == CHOOSE i \in I : Cardinality({j \in I : j <= i}) = n
             c == Cardinality(I)
  <1>2. \A n \in 1 .. c : At(n) \in I
    BY <1>1, RankExists
  <1>3. c \in Nat
    BY <1>1, FS_CardinalityType
  <1>4. Kept(queue, I) = [n \in 1 .. c |-> queue[At(n)]]
    BY DEF Kept
  <1> HIDE DEF At, c
  <1>5. \A n \in 1 .. c : queue[At(n)] \in S
    BY <1>2
  <1>6. Kept(queue, I) \in [1 .. c -> S]
    BY <1>4, <1>5
  <1>7. Kept(queue, I) \in Seq(S)
    BY <1>3, <1>6
  <1> QED
    BY <1>2, <1>4, <1>7

-----------------------------------------------------------------------------
(* Weighted and failover selection *)

(* A set of natural numbers has a smallest member. *)
LEMMA NatMin ==
  ASSUME NEW T \in SUBSET Nat, T # {}
  PROVE  \E x \in T : \A y \in T : x <= y
  <1>1. \E x \in T : \A y \in T : ~(<<y, x>> \in OpToRel(<, Nat))
    BY NatLessThanWellFounded, WFMin
  <1>2. PICK x \in T : \A y \in T : ~(<<y, x>> \in OpToRel(<, Nat))
    BY <1>1
  <1>3. \A y \in T : ~(y < x)
    BY <1>2 DEF OpToRel
  <1> QED
    BY <1>3

(* A finite, non-empty set of natural numbers has a largest member. *)
LEMMA NatMax ==
  ASSUME NEW T \in SUBSET Nat, IsFiniteSet(T), T # {}
  PROVE  \E x \in T : \A y \in T : y <= x
  <1>1. Cardinality(T) \in Nat /\ Cardinality(T) # 0
    BY FS_CardinalityType, FS_EmptySet
  <1>2. PICK x \in T : Cardinality({j \in T : j <= x}) = Cardinality(T)
    <2>1. Cardinality(T) \in 1 .. Cardinality(T)
      BY <1>1
    <2> QED
      BY <2>1, RankExists
  <1> DEFINE A == {j \in T : j <= x}
  <1>3. A \in SUBSET T /\ Cardinality(A) = Cardinality(T)
    BY <1>2
  <1>4. A = T
    <2> HIDE DEF A
    <2> QED
      BY <1>3, FS_Subset
  <1> QED
    BY <1>4

(* A side's tickets are as many as its weight. *)
LEMMA TicketsOfOne ==
  ASSUME NEW s, NEW w \in Nat
  PROVE  IsFiniteSet({s} \X (1 .. w)) /\ Cardinality({s} \X (1 .. w)) = w
  <1>1. IsFiniteSet({s}) /\ Cardinality({s}) = 1
    BY FS_Singleton
  <1>2. IsFiniteSet(1 .. w) /\ Cardinality(1 .. w) = w
    BY FS_Interval
  <1>3. /\ IsFiniteSet({s} \X (1 .. w))
        /\ Cardinality({s} \X (1 .. w)) = Cardinality({s}) * Cardinality(1 .. w)
    BY <1>1, <1>2, FS_Product
  <1> QED
    BY <1>1, <1>2, <1>3

(* The tickets of finitely many sides are finitely many. *)
LEMMA TicketsFinite ==
  ASSUME NEW D, IsFiniteSet(D), NEW share \in [D -> Nat]
  PROVE  IsFiniteSet(Tickets(share))
  <1> DEFINE T == {{s} \X (1 .. share[s]) : s \in D}
             f == [s \in D |-> {s} \X (1 .. share[s])]
  <1>1. f \in Surjection(D, T)
    BY DEF Surjection
  <1>2. IsFiniteSet(T)
    BY <1>1, FS_Surjection
  <1>3. \A t \in T : IsFiniteSet(t)
    <2>1. \A s \in D : IsFiniteSet({s} \X (1 .. share[s]))
      BY TicketsOfOne
    <2> QED
      BY <2>1
  <1>4. IsFiniteSet(UNION T)
    BY <1>2, <1>3, FS_UNION
  <1> QED
    BY <1>4 DEF Tickets

(* The sides before s in a choice, and their tickets. *)
Before(share, s)  == [t \in {u \in DOMAIN share : u < s} |-> share[t]]
UpTo(share, s)    == [t \in {u \in DOMAIN share : u <= s} |-> share[t]]
Running(share, s) == Cardinality(Tickets(Before(share, s)))

(* The running total of apply_policy grows by the weight of each side. *)
LEMMA RunningStep ==
  ASSUME NEW D \in SUBSET Nat, IsFiniteSet(D), NEW share \in [D -> Nat], NEW s \in D
  PROVE  /\ Running(share, s) \in Nat
         /\ Cardinality(Tickets(UpTo(share, s))) = Running(share, s) + share[s]
         /\ Cardinality(Tickets(UpTo(share, s))) <= Cardinality(Tickets(share))
  <1> DEFINE B == Tickets(Before(share, s))
             U == Tickets(UpTo(share, s))
             own == {s} \X (1 .. share[s])
  <1>1. IsFiniteSet({u \in D : u < s})
    BY FS_Subset
  <1>2. Before(share, s) \in [{u \in D : u < s} -> Nat]
    BY DEF Before
  <1>3. IsFiniteSet(B) /\ Cardinality(B) \in Nat
    BY <1>1, <1>2, TicketsFinite, FS_CardinalityType
  <1>4. IsFiniteSet(own) /\ Cardinality(own) = share[s]
    BY TicketsOfOne
  <1>5. U = B \cup own
    <2>1. \A x : x \in U <=> \E t \in D : t <= s /\ x \in {t} \X (1 .. share[t])
      BY DEF Tickets, UpTo
    <2>2. \A x : x \in B <=> \E t \in D : t < s /\ x \in {t} \X (1 .. share[t])
      BY DEF Tickets, Before
    <2>3. \A t \in D : t <= s <=> t < s \/ t = s
      OBVIOUS
    <2> HIDE DEF U, B
    <2> QED
      BY <2>1, <2>2, <2>3
  <1>6. B \cap own = {}
    <2>1. \A x \in B : x[1] # s
      BY DEF Tickets, Before
    <2> HIDE DEF B
    <2> QED
      BY <2>1
  <1>7. U \in SUBSET Tickets(share)
    BY DEF Tickets, UpTo
  <1>8. IsFiniteSet(Tickets(share))
    BY TicketsFinite
  <1> HIDE DEF B, U, own
  <1>9. Cardinality(U) = Cardinality(B) + Cardinality(own) - Cardinality(B \cap own)
    BY <1>3, <1>4, <1>5, FS_Union
  <1>10. Cardinality(B \cap own) = 0
    BY <1>6, FS_EmptySet
  <1>11. Cardinality(U) <= Cardinality(Tickets(share))
    BY <1>7, <1>8, FS_Subset
  <1> QED
    BY <1>3, <1>4, <1>9, <1>10, <1>11 DEF Running, B, U

(* Picking with counter c: the side in whose part of the running total the *)
(* number c % total lies.                                                  *)
Picks(share, c, s) ==
    LET pick == c % Cardinality(Tickets(share))
    IN  Running(share, s) <= pick /\ pick < Running(share, s) + share[s]

(* Some side is picked, and no other. *)
LEMMA PickExists ==
  ASSUME NEW D \in SUBSET Nat, IsFiniteSet(D), D # {},
         NEW share \in [D -> Nat \ {0}], NEW c \in Nat
  PROVE  /\ Cardinality(Tickets(share)) \in Nat \ {0}
         /\ \E s \in D : Picks(share, c, s)
         /\ \A s, t \in D : Picks(share, c, s) /\ Picks(share, c, t) => s = t
  <1> DEFINE total == Cardinality(Tickets(share))
             pick == c % total
  <1>0. share \in [D -> Nat]
    OBVIOUS
  <1>1. \A s \in D : /\ Running(share, s) \in Nat
                     /\ Cardinality(Tickets(UpTo(share, s))) = Running(share, s) + share[s]
                     /\ Cardinality(Tickets(UpTo(share, s))) <= total
    BY <1>0, RunningStep
  <1>2. IsFiniteSet(Tickets(share)) /\ total \in Nat
    BY <1>0, TicketsFinite, FS_CardinalityType
  <1>3. total # 0
    <2>1. PICK s \in D : TRUE
      OBVIOUS
    <2>2. share[s] \in Nat \ {0} /\ Running(share, s) \in Nat
          /\ Running(share, s) + share[s] <= total
      BY <1>1
    <2> HIDE DEF total
    <2> QED
      BY <1>2, <2>2
  <1>4. pick \in Nat /\ pick < total
    <2> HIDE DEF total
    <2> QED
      BY <1>2, <1>3
  <1>5. \E s \in D : Picks(share, c, s)
    <2> DEFINE Above == {s \in D : pick < Cardinality(Tickets(UpTo(share, s)))}
    <2>1. Above # {}
      <3>1. PICK m \in D : \A t \in D : t <= m
        BY NatMax
      <3>2. UpTo(share, m) = share
        BY <3>1 DEF UpTo
      <3> QED
        BY <1>4, <3>2
    <2>2. PICK s \in Above : \A t \in Above : s <= t
      BY <2>1, NatMin
    <2>3. pick < Running(share, s) + share[s]
      BY <1>1, <2>2
    <2>4. Running(share, s) <= pick
      <3>1. CASE \E t \in D : t < s
        <4>1. PICK t \in D : t < s /\ \A u \in D : u < s => u <= t
          <5> DEFINE L == {u \in D : u < s}
          <5>1. L \in SUBSET D /\ L \in SUBSET Nat /\ L # {}
            BY <3>1
          <5>2. \E t \in L : \A u \in L : u <= t
            <6> HIDE DEF L
            <6> QED
              BY <5>1, FS_Subset, NatMax
          <5> QED
            BY <5>2
        <4>2. Before(share, s) = UpTo(share, t)
          <5>1. \A u \in D : u < s <=> u <= t
            BY <2>2, <4>1
          <5>2. {u \in D : u < s} = {u \in D : u <= t}
            BY <5>1
          <5>3. DOMAIN share = D
            OBVIOUS
          <5> QED
            BY <5>2, <5>3 DEF Before, UpTo
        <4>3. t \notin Above
          BY <2>2, <4>1
        <4>4. Running(share, s) = Cardinality(Tickets(UpTo(share, t)))
          BY <4>2 DEF Running
        <4>5. Cardinality(Tickets(UpTo(share, t))) \in Nat
          BY <1>1
        <4> QED
          BY <1>4, <4>3, <4>4, <4>5
      <3>2. CASE ~ \E t \in D : t < s
        <4>1. Tickets(Before(share, s)) = {}
          BY <3>2 DEF Tickets, Before
        <4> QED
          BY <1>4, <4>1, FS_EmptySet DEF Running
      <3> QED
        BY <3>1, <3>2
    <2> QED
      BY <2>2, <2>3, <2>4 DEF Picks
  <1>6. ASSUME NEW s \in D, NEW t \in D, Picks(share, c, s), Picks(share, c, t), s < t
        PROVE  FALSE
    <2> DEFINE U == Tickets(UpTo(share, s))
               B == Tickets(Before(share, t))
    <2>1. U \in SUBSET B
      <3>1. \A u \in D : u <= s => u < t
        BY <1>6
      <3> QED
        BY <3>1 DEF Tickets, UpTo, Before
    <2>2. IsFiniteSet(B)
      <3>1. IsFiniteSet({u \in D : u < t})
        BY FS_Subset
      <3>2. Before(share, t) \in [{u \in D : u < t} -> Nat]
        BY DEF Before
      <3> QED
        BY <3>1, <3>2, TicketsFinite
    <2>3. Cardinality(U) <= Cardinality(B)
      <3> HIDE DEF U, B
      <3> QED
        BY <2>1, <2>2, FS_Subset
    <2>4. Running(share, s) + share[s] <= Running(share, t)
      BY <1>1, <2>3 DEF Running
    <2>5. pick < Running(share, s) + share[s] /\ Running(share, t) <= pick
      BY <1>6 DEF Picks
    <2>6. Running(share, s) + share[s] \in Nat /\ Running(share, t) \in Nat
      BY <1>1
    <2> HIDE DEF pick
    <2> QED
      BY <1>4, <2>4, <2>5, <2>6
  <1> QED
    BY <1>2, <1>3, <1>5, <1>6

(* Weight never gives a side nothing. *)
LEMMA ShareType ==
  ASSUME NEW pol \in Policies, NEW S \in SUBSET Side
  PROVE  Share(pol, S) \in [S -> Nat \ {0}] /\ IsFiniteSet(S) /\ S \in SUBSET Nat
  <1>1. MaxSides \in Nat
    BY RoutingAssumption
  <1>2. IsFiniteSet(Side) /\ Side \in SUBSET Nat
    BY <1>1, FS_Interval DEF Side
  <1>3. \A s \in S : Weight(pol, s) \in Nat \ {0}
    BY DEF Weight, Policies
  <1> QED
    BY <1>2, <1>3, FS_Subset DEF Share

(* The Weighted branch picks one of the sides it was given, the one the     *)
(* counter falls on.                                                        *)
LEMMA PickChooses ==
  ASSUME NEW pol \in Policies, NEW S \in SUBSET Side, S # {}
  PROVE  Pick(pol, S) \in S /\ Picks(Share(pol, S), pol.rr, Pick(pol, S))
  <1> DEFINE share == Share(pol, S)
  <1>1. /\ share \in [S -> Nat \ {0}] /\ IsFiniteSet(S) /\ S \in SUBSET Nat
        /\ pol.rr \in Nat
    BY ShareType DEF Policies
  <1>2. \A s \in S : Running(share, s) = Total(pol, {t \in S : t < s})
    <2> SUFFICES ASSUME NEW s \in S
                 PROVE  Before(share, s) = Share(pol, {t \in S : t < s})
      BY DEF Running, Total
    <2> QED
      BY DEF Before, Share
  <1>3. \A s \in S : share[s] = Weight(pol, s)
    BY DEF Share
  <1>4. \E s \in S : Picks(share, pol.rr, s)
    <2> HIDE DEF share
    <2> QED
      BY <1>1, PickExists
  <1> DEFINE P(s) == LET below == Total(pol, {t \in S : t < s})
                     IN  /\ below <= pol.rr % Total(pol, S)
                         /\ pol.rr % Total(pol, S) < below + Weight(pol, s)
  <1>5. \A s \in S : P(s) <=> Picks(share, pol.rr, s)
    <2>1. Total(pol, S) = Cardinality(Tickets(share))
      BY DEF Total
    <2> HIDE DEF share
    <2> QED
      BY <1>2, <1>3, <2>1 DEF Picks
  <1>6. Pick(pol, S) = CHOOSE s \in S : P(s)
    BY DEF Pick
  <1> HIDE DEF P, share
  <1>7. (CHOOSE s \in S : P(s)) \in S /\ P(CHOOSE s \in S : P(s))
    BY <1>4, <1>5
  <1> QED
    BY <1>5, <1>6, <1>7 DEF share

(* The Failover branch picks one of the sides it was given. *)
LEMMA FirstChooses ==
  ASSUME NEW pol \in Policies, NEW S \in SUBSET Side, S # {}
  PROVE  First(pol, S) \in S
  <1>1. /\ pol.priorities \in [Side -> Nat]
        /\ Side \in SUBSET Nat
    BY DEF Policies, Side
  <1> DEFINE V == {pol.priorities[s] : s \in S}
  <1>2. PICK v \in V : \A w \in V : v <= w
    <2>1. V \in SUBSET Nat /\ V # {}
      BY <1>1
    <2> HIDE DEF V
    <2> QED
      BY <2>1, NatMin
  <1> DEFINE B == {s \in S : pol.priorities[s] = v}
  <1>3. PICK b \in B : \A t \in B : b <= t
    <2>1. B \in SUBSET Nat /\ B # {}
      BY <1>1, <1>2
    <2> HIDE DEF B
    <2> QED
      BY <2>1, NatMin
  <1>4. \A t \in S : \/ pol.priorities[b] < pol.priorities[t]
                     \/ pol.priorities[b] = pol.priorities[t] /\ b <= t
    <2> SUFFICES ASSUME NEW t \in S
                 PROVE  \/ pol.priorities[b] < pol.priorities[t]
                        \/ pol.priorities[b] = pol.priorities[t] /\ b <= t
      OBVIOUS
    <2>1. pol.priorities[b] \in Nat /\ pol.priorities[t] \in Nat
      BY <1>1
    <2>2. pol.priorities[b] = v /\ pol.priorities[b] <= pol.priorities[t]
      BY <1>2
    <2>3. pol.priorities[b] = pol.priorities[t] => b <= t
      BY <1>3, <2>2
    <2> QED
      BY <2>1, <2>2, <2>3
  <1> QED
    BY <1>4 DEF First

(* A policy never adds a side. *)
LEMMA PolicyChooses ==
  ASSUME NEW pol \in Policies, NEW S \in SUBSET Side
  PROVE  ApplyPolicy(pol, S) \in SUBSET S
  <1>1. CASE S = {} \/ pol.mode = "Fanout"
    <2>1. ApplyPolicy(pol, S) = S
      BY <1>1 DEF ApplyPolicy
    <2> QED
      BY <2>1
  <1>2. CASE S # {} /\ pol.mode = "Failover"
    <2>1. ApplyPolicy(pol, S) = {First(pol, S)}
      BY <1>2 DEF ApplyPolicy
    <2> QED
      BY <1>2, <2>1, FirstChooses
  <1>3. CASE S # {} /\ pol.mode = "Weighted"
    <2>1. ApplyPolicy(pol, S) = {Pick(pol, S)}
      BY <1>3 DEF ApplyPolicy
    <2> QED
      BY <1>3, <2>1, PickChooses
  <1>4. pol.mode \in Modes
    BY DEF Policies
  <1> QED
    BY <1>1, <1>2, <1>3, <1>4 DEF Modes

-----------------------------------------------------------------------------
(* The types of the state *)

SideRecs == [ingress : BOOLEAN, egress : BOOLEAN, link_local : BOOLEAN]
TxItems  == [pkt : Packet, src : Source, dst : Source, own : BOOLEAN]
RxItems  == [pkt : Packet, src : Source]
Turns    == [item : TxItems, todo : SUBSET Side]
Keys     == Packet \X Source

(***************************************************************************)
(* Every side id in the node is that of a side that was added, or 0 where  *)
(* the code has "no side"; the other variables have their types.           *)
(***************************************************************************)
TypeOK ==
    /\ kind \in {"sink", "relaying", "relay"}
    /\ sides \in Seq(SideRecs) /\ Len(sides) <= MaxSides
    /\ DOMAIN discovery_routes \subseteq DOMAIN sides
    /\ route_overrides \in [Source \X Side -> Override]
    /\ typed_route_overrides \in [Source \X Types \X Side -> Override]
    /\ policy \in [Source -> Policies]
    /\ tx_queue \in Seq(TxItems) /\ rx_queue \in Seq(RxItems)
    /\ recent_ids \in Seq(Keys) /\ accepted \in Seq(Keys)
    /\ in_tx = << >> \/ \E t \in Turns : in_tx = <<t>>
    /\ in_rx = << >> \/ \E t \in RxItems : in_rx = <<t>>
    /\ removed \subseteq DOMAIN sides

(* Side ids are sources, and 0 is one of them but no side. *)
LEMMA SideIds ==
  /\ MaxSides \in Nat /\ Side \subseteq Source /\ 0 \in Source /\ 0 \notin Side
  /\ TypeOK => DOMAIN sides \subseteq Side
  <1>1. MaxSides \in Nat
    BY RoutingAssumption
  <1>2. TypeOK => DOMAIN sides = 1 .. Len(sides) /\ Len(sides) \in Nat /\ Len(sides) <= MaxSides
    BY DEF TypeOK
  <1> QED
    BY <1>1, <1>2 DEF Side, Source

(* Every fresh or set-up policy is a policy. *)
LEMMA NoPolicyType == NoPolicy \in Policies
  BY RoutingAssumption DEF NoPolicy, Policies, Modes

(* The node starts in a typed state. *)
LEMMA TypeInit == Init => TypeOK
  <1> SUFFICES ASSUME Init PROVE TypeOK
    OBVIOUS
  <1>1. sides \in Seq(SideRecs) /\ Len(sides) <= MaxSides
    <2>1. StartSides \in Nat /\ StartSides <= MaxSides /\ MaxSides \in Nat
      BY RoutingAssumption
    <2>2. sides \in [1 .. StartSides -> SideRecs]
      BY DEF Init, NewSide, SideRecs
    <2> QED
      BY <2>1, <2>2
  <1>2. policy \in [Source -> Policies]
    BY RoutingAssumption, NoPolicyType DEF Init
  <1>3. DOMAIN discovery_routes = {}
    BY DEF Init
  <1>4. /\ route_overrides \in [Source \X Side -> Override]
        /\ typed_route_overrides \in [Source \X Types \X Side -> Override]
    BY DEF Init, Override
  <1>5. /\ tx_queue \in Seq(TxItems) /\ rx_queue \in Seq(RxItems)
        /\ recent_ids \in Seq(Keys) /\ accepted \in Seq(Keys)
    BY DEF Init
  <1> QED
    BY <1>1, <1>2, <1>3, <1>4, <1>5 DEF Init, TypeOK

(* What is selected for a packet are sides of the node. *)
LEMMA EligibleSides ==
  ASSUME TypeOK, NEW p, NEW src
  PROVE  /\ Eligible(p, src) \in SUBSET (DOMAIN sides \ {src})
         /\ Eligible(p, src) \in SUBSET Side
  <1>1. Candidates(p, src) \in SUBSET (DOMAIN sides \ {src})
    BY DEF Candidates, TypeOK
  <1> QED
    BY <1>1, SideIds DEF Eligible

(* The queues a removal leaves hold what they held before, without what    *)
(* names the side.                                                         *)
LEMMA QueuesShrink ==
  ASSUME TypeOK, NEW s
  PROVE  /\ WithoutTx(s) \in Seq(TxItems) /\ WithoutRx(s) \in Seq(RxItems)
         /\ \A item \in Range(WithoutTx(s)) :
               item \in Range(tx_queue) /\ s \notin {item.src, item.dst}
         /\ \A item \in Range(WithoutRx(s)) : item \in Range(rx_queue) /\ item.src # s
  <1> DEFINE I == {i \in DOMAIN tx_queue : s \notin {tx_queue[i].src, tx_queue[i].dst}}
             J == {i \in DOMAIN rx_queue : rx_queue[i].src # s}
  <1>1. /\ WithoutTx(s) \in Seq(TxItems)
        /\ \A n \in DOMAIN WithoutTx(s) : \E i \in I : WithoutTx(s)[n] = tx_queue[i]
    <2>1. I \in SUBSET DOMAIN tx_queue /\ tx_queue \in Seq(TxItems)
      BY DEF TypeOK
    <2>2. WithoutTx(s) = Kept(tx_queue, I)
      BY DEF WithoutTx
    <2> HIDE DEF I
    <2> QED
      BY <2>1, <2>2, KeptEntries
  <1>2. /\ WithoutRx(s) \in Seq(RxItems)
        /\ \A n \in DOMAIN WithoutRx(s) : \E i \in J : WithoutRx(s)[n] = rx_queue[i]
    <2>1. J \in SUBSET DOMAIN rx_queue /\ rx_queue \in Seq(RxItems)
      BY DEF TypeOK
    <2>2. WithoutRx(s) = Kept(rx_queue, J)
      BY DEF WithoutRx
    <2> HIDE DEF J
    <2> QED
      BY <2>1, <2>2, KeptEntries
  <1> QED
    BY <1>1, <1>2 DEF Range

(* The rest of a fan-out is part of it. *)
LEMMA RestOfTurn ==
  ASSUME TypeOK, in_tx # << >>
  PROVE  \/ Rest(in_tx[1].todo) = << >>
         \/ \E t \in Turns : /\ Rest(in_tx[1].todo) = <<t>>
                             /\ t.item = in_tx[1].item
                             /\ t.todo \subseteq in_tx[1].todo
  <1>1. PICK u \in Turns : in_tx = <<u>>
    BY DEF TypeOK
  <1>2. in_tx[1] = u
    BY <1>1
  <1> DEFINE others == u.todo \ {Min(u.todo)}
             t == [u EXCEPT !.todo = others]
  <1>3. t \in Turns /\ t.item = u.item /\ t.todo = others
    BY DEF Turns
  <1>4. Rest(in_tx[1].todo) = IF others = {} THEN << >> ELSE <<t>>
    BY <1>2 DEF Rest
  <1>5. others \subseteq u.todo
    OBVIOUS
  <1> HIDE DEF others, t
  <1> QED
    BY <1>2, <1>3, <1>4, <1>5

(* The policy calls leave policies. *)
LEMMA PolicyUpdates ==
  ASSUME NEW pol \in Policies, NEW s \in Side, NEW n \in Nat, NEW m \in Modes
  PROVE  /\ [pol EXCEPT !.mode = m] \in Policies
         /\ [pol EXCEPT !.weights[s] = n] \in Policies
         /\ [pol EXCEPT !.priorities[s] = n] \in Policies
         /\ [pol EXCEPT !.rr = @ + 1] \in Policies
         /\ [pol EXCEPT !.weights[s] = 0, !.priorities[s] = DefaultPriority] \in Policies
  <1>1. /\ pol.mode \in Modes /\ pol.rr \in Nat /\ DefaultPriority \in Nat
        /\ pol.weights \in [Side -> Nat] /\ pol.priorities \in [Side -> Nat]
    BY RoutingAssumption DEF Policies
  <1>2. /\ [pol.weights EXCEPT ![s] = n] \in [Side -> Nat]
        /\ [pol.weights EXCEPT ![s] = 0] \in [Side -> Nat]
        /\ [pol.priorities EXCEPT ![s] = n] \in [Side -> Nat]
        /\ [pol.priorities EXCEPT ![s] = DefaultPriority] \in [Side -> Nat]
    BY <1>1
  <1>3. [pol EXCEPT !.mode = m] \in Policies /\ [pol EXCEPT !.rr = @ + 1] \in Policies
    BY <1>1 DEF Policies
  <1>4. /\ [pol EXCEPT !.weights = [pol.weights EXCEPT ![s] = n]] \in Policies
        /\ [pol EXCEPT !.priorities = [pol.priorities EXCEPT ![s] = n]] \in Policies
    BY <1>1, <1>2 DEF Policies
  <1>5. [pol EXCEPT !.weights[s] = n] \in Policies
    BY <1>1, <1>2 DEF Policies
  <1>6. [pol EXCEPT !.priorities[s] = n] \in Policies
    BY <1>1, <1>2 DEF Policies
  <1>7. [pol EXCEPT !.weights[s] = 0, !.priorities[s] = DefaultPriority] \in Policies
    BY <1>1, <1>2 DEF Policies
  <1> QED
    BY <1>3, <1>5, <1>6, <1>7

(* What the queue operations do to types. *)
LEMMA SeqTypes ==
  ASSUME NEW S, NEW q \in Seq(S), NEW x \in S
  PROVE  /\ Append(q, x) \in Seq(S) /\ q \o <<x>> \in Seq(S)
         /\ q # << >> => Head(q) \in S /\ Tail(q) \in Seq(S)
         /\ \A i \in DOMAIN q : /\ [q EXCEPT ![i] = x] \in Seq(S)
                               /\ Len([q EXCEPT ![i] = x]) = Len(q)
                               /\ DOMAIN [q EXCEPT ![i] = x] = DOMAIN q
  OBVIOUS

(* A sequence of one. *)
LEMMA SingletonType ==
  ASSUME NEW S, NEW x \in S
  PROVE  <<x>> \in Seq(S)
  OBVIOUS

(* Two sequences of one type, one after the other. *)
LEMMA ConcatType ==
  ASSUME NEW S, NEW q \in Seq(S), NEW r \in Seq(S)
  PROVE  q \o r \in Seq(S)
  OBVIOUS

(* The duplicate cache holds keys. *)
LEMMA AcceptTypes ==
  ASSUME TypeOK, NEW key \in Keys, Accept(key)
  PROVE  recent_ids' \in Seq(Keys) /\ accepted' \in Seq(Keys)
  <1>1. recent_ids \in Seq(Keys) /\ accepted \in Seq(Keys) /\ MaxRecent \in Nat \ {0}
    BY RoutingAssumption DEF TypeOK
  <1>2. accepted' = Append(accepted, key)
    BY DEF Accept
  <1>3. CASE Len(recent_ids) >= MaxRecent
    <2>1. recent_ids' = Append(Tail(recent_ids), key)
      BY <1>3 DEF Accept, PushRecent
    <2>2. recent_ids # << >>
      BY <1>1, <1>3
    <2> QED
      BY <1>1, <1>2, <2>1, <2>2, SeqTypes
  <1>4. CASE ~(Len(recent_ids) >= MaxRecent)
    <2>1. recent_ids' = Append(recent_ids, key)
      BY <1>4 DEF Accept, PushRecent
    <2> QED
      BY <1>1, <1>2, <2>1, SeqTypes
  <1> QED
    BY <1>3, <1>4

(* Every step keeps the types. *)
LEMMA TypeNext == TypeOK /\ [Next]_vars => TypeOK'
  <1> SUFFICES ASSUME TypeOK, [Next]_vars PROVE TypeOK'
    OBVIOUS
  <1> USE SideIds
  <1>1. ASSUME NEW s \in DOMAIN sides, NEW p \in Packet,
               RouterReceive(s, p) \/ RelayReceivePacket(s, p)
        PROVE  TypeOK'
    <2>1. [pkt |-> p, src |-> s] \in RxItems
      BY DEF RxItems
    <2>2. rx_queue' = Append(rx_queue, [pkt |-> p, src |-> s]) /\ rx_queue \in Seq(RxItems)
      BY <1>1 DEF RouterReceive, RelayReceivePacket, TypeOK
    <2>3. rx_queue' \in Seq(RxItems)
      BY <2>1, <2>2, SeqTypes
    <2> QED
      BY <1>1, <2>3 DEF RouterReceive, RelayReceivePacket, TypeOK, sideVars, ghostVars
  <1>2. ASSUME NEW s \in DOMAIN sides, NEW p \in Packet, RelayReceiveSerialized(s, p)
        PROVE  TypeOK'
    <2>1. [pkt |-> p, src |-> s] \in RxItems /\ <<p, s>> \in Keys
      BY DEF RxItems, Keys
    <2>2. /\ rx_queue' \in Seq(RxItems)
          /\ recent_ids' \in Seq(Keys) /\ accepted' \in Seq(Keys)
      <3>1. CASE Accept(<<p, s>>) /\ rx_queue' = Append(rx_queue, [pkt |-> p, src |-> s])
        <4>1. rx_queue \in Seq(RxItems)
          BY DEF TypeOK
        <4>2. rx_queue' \in Seq(RxItems)
          BY <2>1, <3>1, <4>1, SeqTypes
        <4> QED
          BY <2>1, <3>1, <4>2, AcceptTypes
      <3>2. CASE UNCHANGED <<rx_queue, recent_ids, accepted>>
        BY <3>2 DEF TypeOK
      <3> QED
        BY <1>2, <3>1, <3>2 DEF RelayReceiveSerialized
    <2> QED
      BY <1>2, <2>2 DEF RelayReceiveSerialized, TypeOK, sideVars
  <1>3. ASSUME NEW p \in Packet, TransmitMessageQueue(p)
        PROVE  TypeOK'
    <2>1. [pkt |-> p, src |-> 0] \in RxItems /\ Item(p, 0, 0, TRUE) \in TxItems
      BY DEF RxItems, TxItems, Item
    <2>2. rx_queue \in Seq(RxItems) /\ tx_queue \in Seq(TxItems)
      BY DEF TypeOK
    <2>3. /\ Append(rx_queue, [pkt |-> p, src |-> 0]) \in Seq(RxItems)
          /\ Append(tx_queue, Item(p, 0, 0, TRUE)) \in Seq(TxItems)
      BY <2>1, <2>2, SeqTypes
    <2>4. rx_queue' \in Seq(RxItems) /\ tx_queue' \in Seq(TxItems)
      BY <1>3, <2>2, <2>3 DEF TransmitMessageQueue
    <2> QED
      BY <1>3, <2>4 DEF TransmitMessageQueue, TypeOK, sideVars, ghostVars
  <1>4. CASE RouterRxStart
    <2>1. Head(rx_queue) \in RxItems /\ rx_queue' \in Seq(RxItems)
      BY <1>4 DEF RouterRxStart, TypeOK
    <2>2. <<Head(rx_queue).pkt, 0>> \in Keys
      BY <2>1 DEF RxItems, Keys
    <2>3. recent_ids' \in Seq(Keys) /\ accepted' \in Seq(Keys)
      <3>1. Accept(<<Head(rx_queue).pkt, 0>>) \/ UNCHANGED <<recent_ids, accepted>>
        BY <1>4 DEF RouterRxStart
      <3> QED
        BY <2>2, <3>1, AcceptTypes DEF TypeOK
    <2>4. in_rx' = << >> \/ \E t \in RxItems : in_rx' = <<t>>
      BY <1>4, <2>1 DEF RouterRxStart, TypeOK
    <2> QED
      BY <1>4, <2>1, <2>3, <2>4 DEF RouterRxStart, TypeOK, sideVars
  <1>5. CASE RouterRxEnd
    <2>1. PICK u \in RxItems : in_rx = <<u>>
      BY <1>5 DEF RouterRxEnd, TypeOK
    <2>2. Item(u.pkt, 0, u.src, FALSE) \in TxItems /\ Item(u.pkt, u.src, 0, FALSE) \in TxItems
      BY DEF Item, TxItems, RxItems
    <2>3. in_rx[1] = u
      BY <2>1
    <2>4. tx_queue' \in Seq(TxItems)
      <3> DEFINE ack == <<Item(u.pkt, 0, u.src, FALSE)>>
                 fwd == <<Item(u.pkt, u.src, 0, FALSE)>>
      <3>1. ack \in Seq(TxItems) /\ fwd \in Seq(TxItems) /\ tx_queue \in Seq(TxItems)
            /\ << >> \in Seq(TxItems)
        <4>1. tx_queue \in Seq(TxItems)
          BY DEF TypeOK
        <4>2. << >> \in Seq(TxItems)
          OBVIOUS
        <4>3. ack \in Seq(TxItems)
          BY <2>2, SingletonType
        <4>4. fwd \in Seq(TxItems)
          BY <2>2, SingletonType
        <4> QED
          BY <4>1, <4>2, <4>3, <4>4
      <3>2. \E a \in {ack, << >>}, g \in {fwd, << >>} : tx_queue' = tx_queue \o a \o g
        BY <1>5, <2>3 DEF RouterRxEnd
      <3> HIDE DEF ack, fwd
      <3>3. PICK a \in {ack, << >>}, g \in {fwd, << >>} : tx_queue' = (tx_queue \o a) \o g
        BY <3>2
      <3>4. a \in Seq(TxItems) /\ g \in Seq(TxItems) /\ tx_queue \in Seq(TxItems)
        BY <3>1
      <3>5. tx_queue \o a \in Seq(TxItems)
        BY <3>4, ConcatType
      <3> QED
        BY <3>3, <3>4, <3>5, ConcatType
    <2> QED
      BY <1>5, <2>4 DEF RouterRxEnd, TypeOK, sideVars, ghostVars
  <1>6. CASE RelayRx
    <2>1. Head(rx_queue) \in RxItems /\ rx_queue' \in Seq(RxItems)
      BY <1>6 DEF RelayRx, TypeOK
    <2>2. Item(Head(rx_queue).pkt, Head(rx_queue).src, 0, FALSE) \in TxItems
      BY <2>1 DEF Item, TxItems, RxItems
    <2>3. tx_queue' \in Seq(TxItems)
      <3>1. /\ tx_queue \in Seq(TxItems)
            /\ tx_queue' = Append(tx_queue, Item(Head(rx_queue).pkt, Head(rx_queue).src, 0, FALSE))
        BY <1>6 DEF RelayRx, TypeOK
      <3> QED
        BY <2>2, <3>1, SeqTypes
    <2> QED
      BY <1>6, <2>1, <2>3 DEF RelayRx, TypeOK, sideVars, ghostVars
  <1>7. CASE TxStart
    <2> DEFINE item == Head(tx_queue)
               S == Eligible(item.pkt, item.src)
               targets == IF item.dst # 0 THEN {item.dst} ELSE ApplyPolicy(policy[item.src], S)
    <2>1. item \in TxItems /\ tx_queue' \in Seq(TxItems)
      BY <1>7 DEF TxStart, TypeOK
    <2>2. item.src \in Source /\ item.dst \in Source /\ policy[item.src] \in Policies
      BY <2>1 DEF TypeOK, TxItems
    <2>3. S \in SUBSET Side
      BY EligibleSides
    <2>4. ApplyPolicy(policy[item.src], S) \in SUBSET Side
      <3> HIDE DEF S, item
      <3> QED
        BY <2>2, <2>3, PolicyChooses
    <2>5. targets \in SUBSET Side
      <3>1. item.dst # 0 => item.dst \in Side
        BY <2>2 DEF Side, Source
      <3> HIDE DEF S, item
      <3> QED
        BY <2>4, <3>1
    <2>6. in_tx' = << >> \/ in_tx' = <<[item |-> item, todo |-> targets]>>
      BY <1>7 DEF TxStart, Idle
    <2>7. [item |-> item, todo |-> targets] \in Turns
      <3> HIDE DEF item, targets
      <3> QED
        BY <2>1, <2>5 DEF Turns
    <2>8. policy' = policy \/ policy' = [policy EXCEPT ![item.src].rr = @ + 1]
      BY <1>7 DEF TxStart
    <2>9. policy' \in [Source -> Policies]
      <3>1. [policy[item.src] EXCEPT !.rr = @ + 1] \in Policies
        <4> HIDE DEF item
        <4> QED
          BY <2>2 DEF Policies
      <3> HIDE DEF item
      <3> QED
        BY <2>2, <2>8, <3>1 DEF TypeOK
    <2>10. UNCHANGED <<kind, sideVars, rx_queue, recent_ids, in_rx, removed, accepted>>
      BY <1>7 DEF TxStart
    <2> HIDE DEF item, targets, S
    <2> QED
      BY <2>1, <2>6, <2>7, <2>9, <2>10 DEF TypeOK, sideVars
  <1>8. ASSUME NEW ok \in BOOLEAN, TxSkip \/ TxCall(ok)
        PROVE  TypeOK'
    <2>1. in_tx # << >> /\ (in_tx' = << >> \/ in_tx' = Rest(in_tx[1].todo))
      BY <1>8 DEF TxSkip, TxCall
    <2>2. in_tx' = << >> \/ \E t \in Turns : in_tx' = <<t>>
      BY <2>1, RestOfTurn
    <2> QED
      BY <1>8, <2>2 DEF TxSkip, TxCall, TypeOK, sideVars, ghostVars
  <1>9. ASSUME NEW s \in DOMAIN sides, LearnRoute(s) \/ ExpireRoute(s)
        PROVE  TypeOK'
    <2>1. DOMAIN discovery_routes' \subseteq DOMAIN sides
      BY <1>9 DEF LearnRoute, ExpireRoute, TypeOK
    <2> QED
      BY <1>9, <2>1 DEF LearnRoute, ExpireRoute, TypeOK, queueVars, ghostVars
  <1>10. CASE AddSide
    <2>1. NewSide \in SideRecs
      BY DEF NewSide, SideRecs
    <2>2. /\ sides' \in Seq(SideRecs) /\ Len(sides') <= MaxSides
          /\ DOMAIN sides \subseteq DOMAIN sides'
      BY <1>10, <2>1 DEF AddSide, TypeOK
    <2> QED
      BY <1>10, <2>2 DEF AddSide, TypeOK, ManageUnchanged
  <1>11. ASSUME NEW s \in DOMAIN sides, RemoveSide(s)
         PROVE  TypeOK'
    <2>1. sides' \in Seq(SideRecs) /\ Len(sides') = Len(sides) /\ DOMAIN sides' = DOMAIN sides
      <3>1. sides \in Seq(SideRecs) /\ sides[s] \in SideRecs
        BY DEF TypeOK
      <3>2. [sides[s] EXCEPT !.ingress = FALSE, !.egress = FALSE] \in SideRecs
        BY <3>1 DEF SideRecs
      <3>3. sides' = [sides EXCEPT ![s] = [sides[s] EXCEPT !.ingress = FALSE, !.egress = FALSE]]
        BY <1>11, <3>1 DEF RemoveSide, SideRecs
      <3> QED
        BY <3>1, <3>2, <3>3, SeqTypes
    <2>2. tx_queue' \in Seq(TxItems) /\ rx_queue' \in Seq(RxItems)
      BY <1>11, QueuesShrink DEF RemoveSide
    <2>3. route_overrides' \in [Source \X Side -> Override]
      BY <1>11 DEF RemoveSide, TypeOK, Override
    <2>4. typed_route_overrides' \in [Source \X Types \X Side -> Override]
      BY <1>11 DEF RemoveSide, TypeOK, Override
    <2>5. policy' \in [Source -> Policies]
      <3>1. \A q \in Source : [policy[q] EXCEPT !.weights[s] = 0,
                                      !.priorities[s] = DefaultPriority] \in Policies
        BY PolicyUpdates DEF TypeOK, Modes
      <3> QED
        BY <1>11, <3>1, NoPolicyType DEF RemoveSide
    <2>6. DOMAIN discovery_routes' \subseteq DOMAIN sides'
      BY <1>11, <2>1 DEF RemoveSide, Restrict, TypeOK
    <2>7. removed' \subseteq DOMAIN sides'
      BY <1>11, <2>1 DEF RemoveSide, TypeOK
    <2>8. UNCHANGED <<kind, recent_ids, in_tx, in_rx, accepted>>
      BY <1>11 DEF RemoveSide
    <2> QED
      BY <2>1, <2>2, <2>3, <2>4, <2>5, <2>6, <2>7, <2>8 DEF TypeOK
  <1>12. ASSUME NEW s \in DOMAIN sides, SetIngress(s) \/ SetEgress(s) \/ SetLinkLocal(s)
         PROVE  TypeOK'
    <2>1. sides' \in Seq(SideRecs) /\ Len(sides') = Len(sides) /\ DOMAIN sides' = DOMAIN sides
      <3>1. sides \in Seq(SideRecs) /\ sides[s] \in SideRecs
        BY DEF TypeOK
      <3>2. PICK rec \in SideRecs : sides' = [sides EXCEPT ![s] = rec]
        BY <1>12, <3>1 DEF SetIngress, SetEgress, SetLinkLocal, SideRecs
      <3> QED
        BY <3>1, <3>2, SeqTypes
    <2>2. tx_queue' \in Seq(TxItems)
      BY <1>12, QueuesShrink DEF SetIngress, SetEgress, SetLinkLocal, TypeOK
    <2> QED
      BY <1>12, <2>1, <2>2 DEF SetIngress, SetEgress, SetLinkLocal, TypeOK, ManageUnchanged
  <1>13. ASSUME NEW k \in RouteKeys, RouteCall(k[1], k[2])
         PROVE  TypeOK'
    <2>1. k[1] \in Source /\ k[2] \in Side
      BY RoutingAssumption
    <2>2. CASE SetRoute(k[1], k[2])
      <3>1. route_overrides' \in [Source \X Side -> Override]
        BY <2>1, <2>2 DEF SetRoute, TypeOK
      <3> QED
        BY <1>13, <2>2, <3>1 DEF RouteCall, SetRoute, TypeOK, ManageUnchanged
    <2>3. CASE SetTypedRoute(k[1], k[2])
      <3>1. typed_route_overrides' \in [Source \X Types \X Side -> Override]
        BY <2>1, <2>3 DEF SetTypedRoute, TypeOK
      <3> QED
        BY <1>13, <2>3, <3>1 DEF RouteCall, SetTypedRoute, TypeOK, ManageUnchanged
    <2>4. CASE SetPolicy(k[1], k[2])
      <3>1. policy[k[1]] \in Policies
        BY <2>1 DEF TypeOK
      <3>2. PICK pol \in Policies : policy' = [policy EXCEPT ![k[1]] = pol]
        <4>1. ASSUME NEW m \in Modes, policy' = [policy EXCEPT ![k[1]].mode = m]
              PROVE  \E pol \in Policies : policy' = [policy EXCEPT ![k[1]] = pol]
          BY <2>1, <3>1, <4>1, PolicyUpdates
        <4>2. ASSUME NEW w \in Weights \cup {0}, policy' = [policy EXCEPT ![k[1]].weights[k[2]] = w]
              PROVE  \E pol \in Policies : policy' = [policy EXCEPT ![k[1]] = pol]
          <5>1. w \in Nat /\ "Fanout" \in Modes
            BY RoutingAssumption DEF Modes
          <5> QED
            BY <2>1, <3>1, <4>2, <5>1, PolicyUpdates
        <4>3. ASSUME NEW n \in Priorities \cup {DefaultPriority},
                     policy' = [policy EXCEPT ![k[1]].priorities[k[2]] = n]
              PROVE  \E pol \in Policies : policy' = [policy EXCEPT ![k[1]] = pol]
          <5>1. n \in Nat /\ "Fanout" \in Modes
            BY RoutingAssumption DEF Modes
          <5> QED
            BY <2>1, <3>1, <4>3, <5>1, PolicyUpdates
        <4> QED
          BY <2>4, <4>1, <4>2, <4>3 DEF SetPolicy
      <3>3. policy' \in [Source -> Policies]
        BY <2>1, <3>2 DEF TypeOK
      <3> QED
        BY <1>13, <2>4, <3>3 DEF RouteCall, SetPolicy, TypeOK, ManageUnchanged
    <2> QED
      BY <1>13, <2>2, <2>3, <2>4 DEF RouteCall
  <1>14. CASE UNCHANGED vars
    BY <1>14 DEF vars, TypeOK, sideVars, queueVars, ghostVars
  <1> QED
    BY <1>1, <1>2, <1>3, <1>4, <1>5, <1>6, <1>7, <1>8, <1>9, <1>10, <1>11, <1>12, <1>13, <1>14
       DEF Next, RouterAddSide, RelayAddSide, RouterManageSide, RelayManageSide, ManageSide,
           RouterRouteCall, RelayRouteCall

-----------------------------------------------------------------------------
(* A removed side is forgotten *)

(* A queue that grew by one entry. *)
LEMMA RangeAppend ==
  ASSUME NEW S, NEW q \in Seq(S), NEW x \in S
  PROVE  Range(Append(q, x)) = Range(q) \cup {x}
  <1>1. DOMAIN Append(q, x) = DOMAIN q \cup {Len(q) + 1}
    OBVIOUS
  <1>2. Append(q, x)[Len(q) + 1] = x /\ \A i \in DOMAIN q : Append(q, x)[i] = q[i]
    OBVIOUS
  <1> QED
    BY <1>1, <1>2 DEF Range

(* A queue that lost its first entry. *)
LEMMA RangeTail ==
  ASSUME NEW S, NEW q \in Seq(S), q # << >>
  PROVE  Head(q) \in Range(q) /\ Range(Tail(q)) \subseteq Range(q)
  <1>1. 1 \in DOMAIN q /\ Head(q) = q[1]
    OBVIOUS
  <1>2. \A i \in DOMAIN Tail(q) : i + 1 \in DOMAIN q /\ Tail(q)[i] = q[i + 1]
    OBVIOUS
  <1> QED
    BY <1>1, <1>2 DEF Range

(* A queue of one entry. *)
LEMMA RangeSingleton ==
  ASSUME NEW x
  PROVE  Range(<<x>>) = {x}
  <1>1. DOMAIN <<x>> = {1} /\ <<x>>[1] = x
    OBVIOUS
  <1> QED
    BY <1>1 DEF Range

(* Two queues, one after the other. *)
LEMMA RangeConcat ==
  ASSUME NEW S, NEW q \in Seq(S), NEW r \in Seq(S)
  PROVE  Range(q \o r) = Range(q) \cup Range(r)
  <1> DEFINE m == Len(q)
             n == Len(r)
             c == q \o r
  <1>1. /\ m \in Nat /\ n \in Nat
        /\ DOMAIN q = 1 .. m /\ DOMAIN r = 1 .. n /\ DOMAIN c = 1 .. (m + n)
    OBVIOUS
  <1>2. \A i \in 1 .. (m + n) : c[i] = IF i <= m THEN q[i] ELSE r[i - m]
    OBVIOUS
  <1> HIDE DEF m, n, c
  <1>3. \A i \in 1 .. m : i \in 1 .. (m + n) /\ c[i] = q[i]
    BY <1>1, <1>2
  <1>4. \A i \in 1 .. n : m + i \in 1 .. (m + n) /\ c[m + i] = r[i]
    BY <1>1, <1>2
  <1>5. \A i \in 1 .. (m + n) : \/ i \in 1 .. m /\ c[i] = q[i]
                                \/ i - m \in 1 .. n /\ c[i] = r[i - m]
    BY <1>1, <1>2
  <1>6. Range(q) \subseteq Range(c)
    BY <1>1, <1>3 DEF Range
  <1>7. Range(r) \subseteq Range(c)
    BY <1>1, <1>4 DEF Range
  <1>8. Range(c) \subseteq Range(q) \cup Range(r)
    BY <1>1, <1>5 DEF Range
  <1> QED
    BY <1>6, <1>7, <1>8 DEF c

Off(s) == ~sides[s].ingress /\ ~sides[s].egress

Unqueued(s) ==
    /\ \A item \in Range(tx_queue) : s \notin {item.src, item.dst}
    /\ \A item \in Range(rx_queue) : item.src # s

Unrouted(s) ==
    /\ \A q \in Source : route_overrides[<<q, s>>] = "unset"
    /\ \A d \in Side : route_overrides[<<s, d>>] = "unset"
    /\ \A d \in Side, ty \in Types : typed_route_overrides[<<s, ty, d>>] = "unset"
    /\ \A q \in Source, ty \in Types : typed_route_overrides[<<q, ty, s>>] = "unset"
    /\ s \notin DOMAIN discovery_routes

Unpreferred(s) ==
    /\ \A q \in Source : policy[q].weights[s] = 0 /\ policy[q].priorities[s] = DefaultPriority
    /\ policy[s].mode = "Fanout"

(***************************************************************************)
(* The strengthening: the item whose handlers are running did not come in  *)
(* on a removed side, since what follows the handlers names its side.      *)
(***************************************************************************)
HandledIsKnown == in_rx # << >> => in_rx[1].src \notin removed

ForgetInv == TypeOK /\ RemovedIsForgotten /\ HandledIsKnown

(* RemovedIsForgotten in its four parts. *)
LEMMA ForgottenParts ==
  RemovedIsForgotten <=>
      /\ called = {}
      /\ \A s \in removed : Off(s) /\ Unqueued(s) /\ Unrouted(s) /\ Unpreferred(s)
  BY DEF RemovedIsForgotten, Off, Unqueued, Unrouted, Unpreferred

(* The same after a step. *)
LEMMA ForgottenPartsNext ==
  RemovedIsForgotten' <=>
      /\ called' = {}
      /\ \A s \in removed' : Off(s)' /\ Unqueued(s)' /\ Unrouted(s)' /\ Unpreferred(s)'
  BY DEF RemovedIsForgotten, Off, Unqueued, Unrouted, Unpreferred

(* What the policy calls change in a policy, and nothing else. *)
LEMMA PolicyFields ==
  ASSUME NEW pol \in Policies, NEW s \in Side, NEW n, NEW m
  PROVE  /\ [pol EXCEPT !.rr = m].weights = pol.weights
         /\ [pol EXCEPT !.rr = m].priorities = pol.priorities
         /\ [pol EXCEPT !.rr = m].mode = pol.mode
         /\ [pol EXCEPT !.mode = m].weights = pol.weights
         /\ [pol EXCEPT !.mode = m].priorities = pol.priorities
         /\ [pol EXCEPT !.weights[s] = n].priorities = pol.priorities
         /\ [pol EXCEPT !.priorities[s] = n].weights = pol.weights
         /\ \A d \in Side \ {s} : [pol EXCEPT !.weights[s] = n].weights[d] = pol.weights[d]
         /\ \A d \in Side \ {s} : [pol EXCEPT !.priorities[s] = n].priorities[d] = pol.priorities[d]
         /\ [pol EXCEPT !.weights[s] = n, !.priorities[s] = m].mode = pol.mode
         /\ [pol EXCEPT !.weights[s] = n, !.priorities[s] = m].weights
               = [pol.weights EXCEPT ![s] = n]
         /\ [pol EXCEPT !.weights[s] = n, !.priorities[s] = m].priorities
               = [pol.priorities EXCEPT ![s] = m]
         /\ pol.weights \in [Side -> Nat] /\ pol.priorities \in [Side -> Nat]
  BY DEF Policies

(* No side is removed at first. *)
LEMMA ForgetInit == Init => ForgetInv
  BY TypeInit DEF Init, ForgetInv, RemovedIsForgotten, HandledIsKnown

(* Every step keeps the removed sides forgotten. *)
LEMMA ForgetNext == ForgetInv /\ [Next]_vars => ForgetInv'
  <1> SUFFICES ASSUME ForgetInv, [Next]_vars PROVE ForgetInv'
    OBVIOUS
  <1>t. TypeOK /\ TypeOK' /\ HandledIsKnown
    BY TypeNext DEF ForgetInv
  <1>f. called = {} /\ \A s \in removed : Off(s) /\ Unqueued(s) /\ Unrouted(s) /\ Unpreferred(s)
    BY ForgottenParts DEF ForgetInv
  <1>r. removed \subseteq DOMAIN sides /\ DOMAIN sides \subseteq Side /\ 0 \notin removed
    BY <1>t, SideIds DEF TypeOK
  <1>q. tx_queue \in Seq(TxItems) /\ rx_queue \in Seq(RxItems)
    BY <1>t DEF TypeOK
  <1> SUFFICES /\ called' = {} /\ HandledIsKnown'
               /\ \A s \in removed' : Off(s)' /\ Unqueued(s)' /\ Unrouted(s)' /\ Unpreferred(s)'
    BY <1>t, ForgottenPartsNext DEF ForgetInv
  <1>1. ASSUME NEW s \in DOMAIN sides, NEW p \in Packet,
               \/ RouterReceive(s, p) \/ RelayReceivePacket(s, p) \/ RelayReceiveSerialized(s, p)
        PROVE  /\ called' = {} /\ HandledIsKnown'
               /\ \A d \in removed' : Off(d)' /\ Unqueued(d)' /\ Unrouted(d)' /\ Unpreferred(d)'
    <2> DEFINE item == [pkt |-> p, src |-> s]
    <2>1. /\ UNCHANGED <<kind, sides, discovery_routes, route_overrides, typed_route_overrides,
                         policy, tx_queue, in_rx, removed, called>>
          /\ sides[s].ingress
          /\ rx_queue' = rx_queue \/ rx_queue' = Append(rx_queue, item)
      BY <1>1 DEF RouterReceive, RelayReceivePacket, RelayReceiveSerialized, sideVars, ghostVars
    <2>2. item \in RxItems /\ item.src = s
      BY <1>r, SideIds DEF RxItems
    <2> HIDE DEF item
    <2>3. \A i \in Range(rx_queue') : i \in Range(rx_queue) \/ i = item
      <3>1. Range(Append(rx_queue, item)) = Range(rx_queue) \cup {item}
        BY <1>q, <2>2, RangeAppend
      <3> QED
        BY <2>1, <3>1
    <2>4. s \notin removed
      BY <1>f, <2>1 DEF Off
    <2>5. \A d \in removed : Unqueued(d)'
      BY <1>f, <2>1, <2>2, <2>3, <2>4 DEF Unqueued
    <2> QED
      BY <1>f, <1>t, <2>1, <2>5 DEF Off, Unrouted, Unpreferred, HandledIsKnown
  <1>2. ASSUME NEW p \in Packet, TransmitMessageQueue(p)
        PROVE  /\ called' = {} /\ HandledIsKnown'
               /\ \A d \in removed' : Off(d)' /\ Unqueued(d)' /\ Unrouted(d)' /\ Unpreferred(d)'
    <2> DEFINE rx == [pkt |-> p, src |-> 0]
               tx == Item(p, 0, 0, TRUE)
    <2>1. /\ UNCHANGED <<kind, sides, discovery_routes, route_overrides, typed_route_overrides,
                         policy, in_rx, removed, called>>
          /\ rx_queue' = rx_queue \/ rx_queue' = Append(rx_queue, rx)
          /\ tx_queue' = tx_queue \/ tx_queue' = Append(tx_queue, tx)
      BY <1>2 DEF TransmitMessageQueue, sideVars, ghostVars
    <2>2. /\ rx \in RxItems /\ rx.src = 0
          /\ tx \in TxItems /\ tx.src = 0 /\ tx.dst = 0
      BY SideIds DEF RxItems, TxItems, Item
    <2> HIDE DEF rx, tx
    <2>3. /\ \A i \in Range(rx_queue') : i \in Range(rx_queue) \/ i = rx
          /\ \A i \in Range(tx_queue') : i \in Range(tx_queue) \/ i = tx
      <3>1. /\ Range(Append(rx_queue, rx)) = Range(rx_queue) \cup {rx}
            /\ Range(Append(tx_queue, tx)) = Range(tx_queue) \cup {tx}
        BY <1>q, <2>2, RangeAppend
      <3> QED
        BY <2>1, <3>1
    <2>4. \A d \in removed : Unqueued(d)'
      BY <1>f, <1>r, <2>1, <2>2, <2>3 DEF Unqueued
    <2> QED
      BY <1>f, <1>t, <2>1, <2>4 DEF Off, Unrouted, Unpreferred, HandledIsKnown
  <1>3. CASE RouterRxStart
    <2>1. /\ UNCHANGED <<kind, sides, discovery_routes, route_overrides, typed_route_overrides,
                         policy, tx_queue, removed, called>>
          /\ rx_queue # << >> /\ rx_queue' = Tail(rx_queue)
          /\ in_rx' = in_rx \/ in_rx' = <<Head(rx_queue)>>
      BY <1>3 DEF RouterRxStart, sideVars
    <2>2. Head(rx_queue) \in Range(rx_queue) /\ Range(rx_queue') \subseteq Range(rx_queue)
      BY <1>q, <2>1, RangeTail
    <2>3. \A d \in removed : Unqueued(d)' /\ Head(rx_queue).src # d
      BY <1>f, <2>1, <2>2 DEF Unqueued
    <2> QED
      BY <1>f, <1>t, <2>1, <2>3 DEF Off, Unrouted, Unpreferred, HandledIsKnown
  <1>4. CASE RouterRxEnd
    <2>1. PICK u \in RxItems : in_rx = <<u>>
      BY <1>4, <1>t DEF RouterRxEnd, TypeOK
    <2> DEFINE ack == Item(u.pkt, 0, u.src, FALSE)
               fwd == Item(u.pkt, u.src, 0, FALSE)
    <2>2. /\ in_rx[1] = u /\ u.src \notin removed
          /\ ack \in TxItems /\ ack.src = 0 /\ ack.dst = u.src
          /\ fwd \in TxItems /\ fwd.src = u.src /\ fwd.dst = 0
      BY <1>t, <2>1, SideIds DEF HandledIsKnown, Item, TxItems, RxItems
    <2>3. /\ UNCHANGED <<kind, sides, discovery_routes, route_overrides, typed_route_overrides,
                         policy, rx_queue, removed, called>>
          /\ in_rx' = << >>
          /\ \E a \in {<<ack>>, << >>}, g \in {<<fwd>>, << >>} : tx_queue' = (tx_queue \o a) \o g
      BY <1>4, <2>2 DEF RouterRxEnd, sideVars, ghostVars
    <2> HIDE DEF ack, fwd
    <2>4. PICK a \in {<<ack>>, << >>}, g \in {<<fwd>>, << >>} : tx_queue' = (tx_queue \o a) \o g
      BY <2>3
    <2>5. /\ a \in Seq(TxItems) /\ g \in Seq(TxItems)
          /\ Range(a) \subseteq {ack} /\ Range(g) \subseteq {fwd}
      <3>1. <<ack>> \in Seq(TxItems) /\ <<fwd>> \in Seq(TxItems)
        BY <2>2, SingletonType
      <3>2. << >> \in Seq(TxItems) /\ Range(<< >>) = {}
        BY DEF Range
      <3>3. Range(<<ack>>) = {ack} /\ Range(<<fwd>>) = {fwd}
        BY RangeSingleton
      <3> QED
        BY <3>1, <3>2, <3>3
    <2>6. Range(tx_queue') \subseteq Range(tx_queue) \cup {ack, fwd}
      <3> DEFINE b == tx_queue \o a
      <3>1. b \in Seq(TxItems) /\ tx_queue' = b \o g
        BY <1>q, <2>4, <2>5, ConcatType
      <3>2. Range(b) = Range(tx_queue) \cup Range(a)
        BY <1>q, <2>5, RangeConcat
      <3> HIDE DEF b
      <3>3. Range(tx_queue') = Range(b) \cup Range(g)
        BY <3>1, <2>5, RangeConcat
      <3> QED
        BY <2>4, <2>5, <3>2, <3>3
    <2>7. \A d \in removed : Unqueued(d)'
      BY <1>f, <1>r, <2>2, <2>3, <2>6 DEF Unqueued
    <2> QED
      BY <1>f, <1>t, <2>3, <2>7 DEF Off, Unrouted, Unpreferred, HandledIsKnown
  <1>5. CASE RelayRx
    <2> DEFINE h == Head(rx_queue)
               item == Item(h.pkt, h.src, 0, FALSE)
    <2>1. /\ UNCHANGED <<kind, sides, discovery_routes, route_overrides, typed_route_overrides,
                         policy, in_rx, removed, called>>
          /\ rx_queue # << >> /\ rx_queue' = Tail(rx_queue)
          /\ tx_queue' = Append(tx_queue, item)
      BY <1>5 DEF RelayRx, sideVars, ghostVars
    <2>2. h \in RxItems
      BY <1>q, <2>1
    <2>3. h \in Range(rx_queue) /\ Range(rx_queue') \subseteq Range(rx_queue)
      BY <1>q, <2>1, RangeTail
    <2>4. item \in TxItems /\ item.src = h.src /\ item.dst = 0
      BY <2>2, SideIds DEF Item, TxItems, RxItems
    <2> HIDE DEF h, item
    <2>5. Range(tx_queue') = Range(tx_queue) \cup {item}
      BY <1>q, <2>1, <2>4, RangeAppend
    <2>6. \A d \in removed : Unqueued(d)'
      BY <1>f, <1>r, <2>1, <2>3, <2>4, <2>5 DEF Unqueued
    <2> QED
      BY <1>f, <1>t, <2>1, <2>6 DEF Off, Unrouted, Unpreferred, HandledIsKnown
  <1>6. CASE TxStart
    <2> DEFINE src == Head(tx_queue).src
    <2>1. /\ UNCHANGED <<kind, sides, discovery_routes, route_overrides, typed_route_overrides,
                         rx_queue, in_rx, removed, called>>
          /\ tx_queue # << >> /\ tx_queue' = Tail(tx_queue)
          /\ policy' = policy \/ policy' = [policy EXCEPT ![src].rr = @ + 1]
      BY <1>6 DEF TxStart, sideVars
    <2>2. Head(tx_queue) \in TxItems
      BY <1>q, <2>1
    <2>3. Range(tx_queue') \subseteq Range(tx_queue)
      BY <1>q, <2>1, RangeTail
    <2>4. \A d \in removed : Unqueued(d)'
      BY <1>f, <2>1, <2>3 DEF Unqueued
    <2> HIDE DEF src
    <2>5. \A q \in Source : /\ policy'[q].weights = policy[q].weights
                            /\ policy'[q].priorities = policy[q].priorities
                            /\ policy'[q].mode = policy[q].mode
      <3>1. src \in Source /\ policy \in [Source -> Policies]
        BY <1>t, <2>2 DEF TypeOK, TxItems, src
      <3>2. CASE policy' = policy
        BY <3>2
      <3>3. CASE policy' = [policy EXCEPT ![src].rr = @ + 1]
        <4>1. /\ policy'[src] = [policy[src] EXCEPT !.rr = policy[src].rr + 1]
              /\ policy[src] \in Policies
              /\ \A q \in Source \ {src} : policy'[q] = policy[q]
          BY <3>1, <3>3
        <4>2. /\ policy'[src].weights = policy[src].weights
              /\ policy'[src].priorities = policy[src].priorities
              /\ policy'[src].mode = policy[src].mode
          BY <4>1 DEF Policies
        <4> QED
          BY <4>1, <4>2
      <3> QED
        BY <2>1, <3>2, <3>3
    <2>6. \A d \in removed : Unpreferred(d)'
      BY <1>f, <1>r, <2>1, <2>5, SideIds DEF Unpreferred
    <2> QED
      BY <1>f, <1>t, <2>1, <2>4, <2>6 DEF Off, Unrouted, HandledIsKnown
  <1>7. ASSUME NEW ok \in BOOLEAN, TxSkip \/ TxCall(ok)
        PROVE  /\ called' = {} /\ HandledIsKnown'
               /\ \A d \in removed' : Off(d)' /\ Unqueued(d)' /\ Unrouted(d)' /\ Unpreferred(d)'
    <2>1. UNCHANGED <<kind, sides, discovery_routes, route_overrides, typed_route_overrides,
                      policy, tx_queue, rx_queue, in_rx, removed>>
      BY <1>7 DEF TxSkip, TxCall, sideVars, ghostVars
    <2>2. called' = {}
      <3>1. CASE TxSkip
        BY <1>f, <3>1 DEF TxSkip, ghostVars
      <3>2. CASE TxCall(ok)
        <4> DEFINE s == Min(in_tx[1].todo)
        <4>1. sides[s].egress /\ called' = called \cup ({s} \cap removed)
          BY <3>2 DEF TxCall
        <4>2. s \notin removed
          BY <1>f, <4>1 DEF Off
        <4> HIDE DEF s
        <4> QED
          BY <1>f, <4>1, <4>2
      <3> QED
        BY <1>7, <3>1, <3>2
    <2> QED
      BY <1>f, <1>t, <2>1, <2>2 DEF Off, Unqueued, Unrouted, Unpreferred, HandledIsKnown
  <1>8. ASSUME NEW s \in DOMAIN sides, LearnRoute(s) \/ ExpireRoute(s)
        PROVE  /\ called' = {} /\ HandledIsKnown'
               /\ \A d \in removed' : Off(d)' /\ Unqueued(d)' /\ Unrouted(d)' /\ Unpreferred(d)'
    <2>1. UNCHANGED <<kind, sides, route_overrides, typed_route_overrides,
                      policy, tx_queue, rx_queue, in_rx, removed, called>>
      BY <1>8 DEF LearnRoute, ExpireRoute, queueVars, ghostVars
    <2>2. \A d \in DOMAIN discovery_routes' : d \in DOMAIN discovery_routes \/ sides[d].ingress
      BY <1>8 DEF LearnRoute, ExpireRoute
    <2>3. \A d \in removed : d \notin DOMAIN discovery_routes'
      BY <1>f, <2>2 DEF Off, Unrouted
    <2> QED
      BY <1>f, <1>t, <2>1, <2>3 DEF Off, Unqueued, Unrouted, Unpreferred, HandledIsKnown
  <1>9. CASE AddSide
    <2>1. /\ UNCHANGED <<kind, discovery_routes, route_overrides, typed_route_overrides,
                         policy, tx_queue, rx_queue, in_rx, removed, called>>
          /\ sides' = Append(sides, NewSide)
      BY <1>9 DEF AddSide, ManageUnchanged
    <2>2. \A d \in removed : sides'[d] = sides[d]
      <3>1. sides \in Seq(SideRecs)
        BY <1>t DEF TypeOK
      <3>2. \A d \in DOMAIN sides : Append(sides, NewSide)[d] = sides[d]
        BY <3>1
      <3> QED
        BY <1>r, <2>1, <3>2
    <2>3. \A d \in removed : Off(d)'
      BY <1>f, <2>2 DEF Off
    <2> QED
      BY <1>f, <1>t, <2>1, <2>3 DEF Unqueued, Unrouted, Unpreferred, HandledIsKnown
  <1>10. ASSUME NEW s \in DOMAIN sides, RemoveSide(s)
         PROVE  /\ called' = {} /\ HandledIsKnown'
                /\ \A d \in removed' : Off(d)' /\ Unqueued(d)' /\ Unrouted(d)' /\ Unpreferred(d)'
    <2>1. /\ UNCHANGED <<in_rx, called>>
          /\ removed' \subseteq removed \cup {s}
          /\ in_rx # << >> /\ in_rx[1].src = s => removed' = removed
      BY <1>10 DEF RemoveSide
    <2>2. HandledIsKnown'
      BY <1>t, <2>1 DEF HandledIsKnown
    <2>3. \A d \in removed' : d \in Side /\ d \in Source /\ (d = s \/ d \in removed)
      BY <1>r, <2>1, SideIds
    <2>4. \A d \in removed' : Off(d)'
      <3>1. sides \in Seq(SideRecs)
        BY <1>t DEF TypeOK
      <3>2. sides' = [sides EXCEPT ![s] = [sides[s] EXCEPT !.ingress = FALSE, !.egress = FALSE]]
        BY <1>10 DEF RemoveSide
      <3>3. /\ \A d \in DOMAIN sides : d # s => sides'[d] = sides[d]
            /\ sides'[s] = [sides[s] EXCEPT !.ingress = FALSE, !.egress = FALSE]
            /\ sides[s] \in SideRecs
        BY <3>1, <3>2
      <3>4. sides'[s].ingress = FALSE /\ sides'[s].egress = FALSE
        BY <3>3 DEF SideRecs
      <3> QED
        BY <1>f, <1>r, <2>1, <3>3, <3>4 DEF Off
    <2>5. \A d \in removed' : Unqueued(d)'
      <3>1. tx_queue' = WithoutTx(s) /\ rx_queue' = WithoutRx(s)
        BY <1>10 DEF RemoveSide
      <3>2. /\ \A item \in Range(tx_queue') : item \in Range(tx_queue) /\ s \notin {item.src, item.dst}
            /\ \A item \in Range(rx_queue') : item \in Range(rx_queue) /\ item.src # s
        BY <1>t, <3>1, QueuesShrink
      <3> QED
        BY <1>f, <2>3, <3>2 DEF Unqueued
    <2>6. \A d \in removed' : Unrouted(d)'
      <3>1. /\ route_overrides' = [k \in Source \X Side |->
                   IF s \in {k[1], k[2]} THEN "unset" ELSE route_overrides[k]]
            /\ typed_route_overrides' = [k \in Source \X Types \X Side |->
                   IF s \in {k[1], k[3]} THEN "unset" ELSE typed_route_overrides[k]]
            /\ DOMAIN discovery_routes' = DOMAIN discovery_routes \ {s}
        BY <1>10 DEF RemoveSide, Restrict
      <3>2. \A q \in Source, d \in Side :
               route_overrides'[<<q, d>>] =
                   IF s \in {q, d} THEN "unset" ELSE route_overrides[<<q, d>>]
        BY <3>1
      <3>3. \A q \in Source, ty \in Types, d \in Side :
               typed_route_overrides'[<<q, ty, d>>] =
                   IF s \in {q, d} THEN "unset" ELSE typed_route_overrides[<<q, ty, d>>]
        BY <3>1
      <3> SUFFICES ASSUME NEW e \in removed' PROVE Unrouted(e)'
        OBVIOUS
      <3>4. CASE e = s
        BY <2>3, <3>1, <3>2, <3>3, <3>4 DEF Unrouted
      <3>5. CASE e \in removed
        <4>1. Unrouted(e)
          BY <1>f, <3>5
        <4> QED
          BY <2>3, <3>1, <3>2, <3>3, <4>1 DEF Unrouted
      <3> QED
        BY <2>3, <3>4, <3>5
    <2>7. \A d \in removed' : Unpreferred(d)'
      <3>1. policy' = [q \in Source |-> IF q = s THEN NoPolicy
                ELSE [policy[q] EXCEPT !.weights[s] = 0, !.priorities[s] = DefaultPriority]]
        BY <1>10 DEF RemoveSide
      <3>2. policy'[s] = NoPolicy /\ s \in Side /\ s \in Source
        BY <3>1, <1>r, SideIds
      <3>3. /\ NoPolicy.mode = "Fanout"
            /\ \A d \in Side : NoPolicy.weights[d] = 0 /\ NoPolicy.priorities[d] = DefaultPriority
        BY DEF NoPolicy
      <3>4. \A q \in Source \ {s} :
               /\ policy'[q].mode = policy[q].mode
               /\ policy'[q].weights = [policy[q].weights EXCEPT ![s] = 0]
               /\ policy'[q].priorities = [policy[q].priorities EXCEPT ![s] = DefaultPriority]
               /\ policy[q].weights \in [Side -> Nat] /\ policy[q].priorities \in [Side -> Nat]
        <4> SUFFICES ASSUME NEW q \in Source \ {s}
                     PROVE  /\ policy'[q].mode = policy[q].mode
                            /\ policy'[q].weights = [policy[q].weights EXCEPT ![s] = 0]
                            /\ policy'[q].priorities
                                  = [policy[q].priorities EXCEPT ![s] = DefaultPriority]
                            /\ policy[q].weights \in [Side -> Nat]
                            /\ policy[q].priorities \in [Side -> Nat]
          OBVIOUS
        <4> DEFINE pol == policy[q]
        <4>1. pol \in Policies
          BY <1>t DEF TypeOK
        <4>2. policy'[q] = [pol EXCEPT !.weights[s] = 0, !.priorities[s] = DefaultPriority]
          BY <3>1
        <4> HIDE DEF pol
        <4>3. /\ policy'[q].mode = pol.mode
              /\ policy'[q].weights = [pol.weights EXCEPT ![s] = 0]
              /\ policy'[q].priorities = [pol.priorities EXCEPT ![s] = DefaultPriority]
              /\ pol.weights \in [Side -> Nat] /\ pol.priorities \in [Side -> Nat]
          BY <3>2, <4>1, <4>2, PolicyFields
        <4> QED
          BY <4>3 DEF pol
      <3>5. \A q \in Source, d \in Side :
               /\ policy'[q].weights[d] = IF s \in {q, d} THEN 0 ELSE policy[q].weights[d]
               /\ policy'[q].priorities[d] =
                     IF s \in {q, d} THEN DefaultPriority ELSE policy[q].priorities[d]
        <4> SUFFICES ASSUME NEW q \in Source, NEW d \in Side
                     PROVE  /\ policy'[q].weights[d] = IF s \in {q, d} THEN 0 ELSE policy[q].weights[d]
                            /\ policy'[q].priorities[d] =
                                 IF s \in {q, d} THEN DefaultPriority ELSE policy[q].priorities[d]
          OBVIOUS
        <4>1. CASE q = s
          BY <3>2, <3>3, <4>1
        <4>2. CASE q # s
          <5> DEFINE w == policy[q].weights
                     v == policy[q].priorities
          <5>1. /\ w \in [Side -> Nat] /\ policy'[q].weights = [w EXCEPT ![s] = 0]
                /\ v \in [Side -> Nat] /\ policy'[q].priorities = [v EXCEPT ![s] = DefaultPriority]
            BY <3>4, <4>2
          <5>2. s \in {q, d} <=> d = s
            BY <4>2
          <5> HIDE DEF w, v
          <5>3. /\ policy'[q].weights[d] = IF d = s THEN 0 ELSE w[d]
                /\ policy'[q].priorities[d] = IF d = s THEN DefaultPriority ELSE v[d]
            BY <5>1
          <5> QED
            BY <5>2, <5>3 DEF w, v
        <4> QED
          BY <4>1, <4>2
      <3> SUFFICES ASSUME NEW e \in removed' PROVE Unpreferred(e)'
        OBVIOUS
      <3>6. CASE e = s
        BY <2>3, <3>2, <3>3, <3>5, <3>6 DEF Unpreferred
      <3>7. CASE e \in removed /\ e # s
        <4>1. Unpreferred(e)
          BY <1>f, <3>7
        <4>2. /\ e \in Side /\ e \in Source
              /\ \A q \in Source : policy[q].weights[e] = 0 /\ policy[q].priorities[e] = DefaultPriority
              /\ policy[e].mode = "Fanout"
          BY <2>3, <4>1 DEF Unpreferred
        <4>3. \A q \in Source : /\ policy'[q].weights[e] = 0
                                /\ policy'[q].priorities[e] = DefaultPriority
          BY <3>5, <4>2
        <4>4. policy'[e].mode = "Fanout"
          BY <3>4, <3>7, <4>2
        <4> QED
          BY <4>3, <4>4 DEF Unpreferred
      <3> QED
        BY <2>3, <3>6, <3>7
    <2> QED
      BY <1>f, <2>1, <2>2, <2>4, <2>5, <2>6, <2>7
  <1>11. ASSUME NEW s \in DOMAIN sides, SetIngress(s) \/ SetEgress(s) \/ SetLinkLocal(s)
         PROVE  /\ called' = {} /\ HandledIsKnown'
                /\ \A d \in removed' : Off(d)' /\ Unqueued(d)' /\ Unrouted(d)' /\ Unpreferred(d)'
    <2>1. /\ UNCHANGED <<kind, discovery_routes, route_overrides, typed_route_overrides,
                         policy, rx_queue, in_rx, called>>
          /\ removed' = removed \ {s}
          /\ tx_queue' = tx_queue \/ tx_queue' = WithoutTx(s)
      BY <1>11 DEF SetIngress, SetEgress, SetLinkLocal, ManageUnchanged
    <2>2. \A d \in DOMAIN sides \ {s} : sides'[d] = sides[d]
      BY <1>11, <1>t DEF SetIngress, SetEgress, SetLinkLocal, TypeOK
    <2>3. \A d \in removed' : Off(d)'
      BY <1>f, <1>r, <2>1, <2>2 DEF Off
    <2>4. Range(tx_queue') \subseteq Range(tx_queue)
      BY <1>t, <2>1, QueuesShrink
    <2>5. \A d \in removed' : Unqueued(d)'
      BY <1>f, <2>1, <2>4 DEF Unqueued
    <2> QED
      BY <1>f, <1>t, <2>1, <2>3, <2>5 DEF Unrouted, Unpreferred, HandledIsKnown
  <1>12. ASSUME NEW k \in RouteKeys, RouteCall(k[1], k[2])
         PROVE  /\ called' = {} /\ HandledIsKnown'
                /\ \A d \in removed' : Off(d)' /\ Unqueued(d)' /\ Unrouted(d)' /\ Unpreferred(d)'
    <2>1. k[1] \in Source /\ k[2] \in Side
      BY RoutingAssumption
    <2>2. /\ UNCHANGED <<kind, sides, discovery_routes, tx_queue, rx_queue, in_rx, called>>
          /\ removed' = removed \ {k[1], k[2]}
          /\ \/ SetRoute(k[1], k[2]) \/ SetTypedRoute(k[1], k[2]) \/ SetPolicy(k[1], k[2])
      BY <1>12 DEF RouteCall, ManageUnchanged
    <2> SUFFICES ASSUME NEW e \in removed' PROVE Unrouted(e)' /\ Unpreferred(e)'
      BY <1>f, <1>t, <2>2 DEF Off, Unqueued, HandledIsKnown
    <2>3. /\ e \in removed /\ e # k[1] /\ e # k[2] /\ e \in Side /\ e \in Source
          /\ Unrouted(e) /\ Unpreferred(e)
      BY <1>f, <1>r, <2>2, SideIds
    <2>4. CASE SetRoute(k[1], k[2])
      <3>1. /\ UNCHANGED <<typed_route_overrides, policy>>
            /\ \E o \in Override : route_overrides' = [route_overrides EXCEPT ![<<k[1], k[2]>>] = o]
        BY <2>4 DEF SetRoute
      <3>2. \A q \in Source, d \in Side :
               q # k[1] \/ d # k[2] => route_overrides'[<<q, d>>] = route_overrides[<<q, d>>]
        BY <1>t, <3>1 DEF TypeOK
      <3> QED
        BY <2>2, <2>3, <3>1, <3>2 DEF Unrouted, Unpreferred
    <2>5. CASE SetTypedRoute(k[1], k[2])
      <3>1. /\ UNCHANGED <<route_overrides, policy>>
            /\ \E ty \in Types, o \in Override : typed_route_overrides' =
                   [typed_route_overrides EXCEPT ![<<k[1], ty, k[2]>>] = o]
        BY <2>5 DEF SetTypedRoute
      <3>2. \A q \in Source, ty \in Types, d \in Side :
               q # k[1] \/ d # k[2] =>
                   typed_route_overrides'[<<q, ty, d>>] = typed_route_overrides[<<q, ty, d>>]
        BY <1>t, <3>1 DEF TypeOK
      <3> QED
        BY <2>2, <2>3, <3>1, <3>2 DEF Unrouted, Unpreferred
    <2>6. CASE SetPolicy(k[1], k[2])
      <3>1. UNCHANGED <<route_overrides, typed_route_overrides>>
        BY <2>6 DEF SetPolicy
      <3>2. \A q \in Source \ {k[1]} : policy'[q] = policy[q]
        BY <1>t, <2>6 DEF SetPolicy, TypeOK
      <3>3. /\ policy'[k[1]].weights[e] = policy[k[1]].weights[e]
            /\ policy'[k[1]].priorities[e] = policy[k[1]].priorities[e]
        <4>1. policy[k[1]] \in Policies /\ policy[k[1]].weights \in [Side -> Nat]
              /\ policy[k[1]].priorities \in [Side -> Nat]
          BY <1>t, <2>1 DEF TypeOK, Policies
        <4> QED
          <5>1. ASSUME NEW pol, policy' = [policy EXCEPT ![k[1]] = pol]
                PROVE  policy'[k[1]] = pol
            BY <1>t, <2>1, <5>1 DEF TypeOK
          <5>2. ASSUME NEW m \in Modes, policy' = [policy EXCEPT ![k[1]].mode = m]
                PROVE  /\ policy'[k[1]].weights[e] = policy[k[1]].weights[e]
                       /\ policy'[k[1]].priorities[e] = policy[k[1]].priorities[e]
            BY <2>1, <2>3, <4>1, <5>1, <5>2, PolicyFields
          <5>3. ASSUME NEW w \in Weights \cup {0}, policy' = [policy EXCEPT ![k[1]].weights[k[2]] = w]
                PROVE  /\ policy'[k[1]].weights[e] = policy[k[1]].weights[e]
                       /\ policy'[k[1]].priorities[e] = policy[k[1]].priorities[e]
            BY <2>1, <2>3, <4>1, <5>1, <5>3, PolicyFields
          <5>4. ASSUME NEW n \in Priorities \cup {DefaultPriority},
                       policy' = [policy EXCEPT ![k[1]].priorities[k[2]] = n]
                PROVE  /\ policy'[k[1]].weights[e] = policy[k[1]].weights[e]
                       /\ policy'[k[1]].priorities[e] = policy[k[1]].priorities[e]
            BY <2>1, <2>3, <4>1, <5>1, <5>4, PolicyFields
          <5> QED
            BY <2>6, <5>2, <5>3, <5>4 DEF SetPolicy
      <3>4. Unpreferred(e)'
        BY <2>3, <3>2, <3>3 DEF Unpreferred
      <3> QED
        BY <2>2, <2>3, <3>1, <3>4 DEF Unrouted
    <2> QED
      BY <2>2, <2>4, <2>5, <2>6
  <1>13. CASE UNCHANGED vars
    BY <1>13, <1>f, <1>t DEF vars, sideVars, queueVars, ghostVars,
                             Off, Unqueued, Unrouted, Unpreferred, HandledIsKnown
  <1> QED
    BY <1>1, <1>2, <1>3, <1>4, <1>5, <1>6, <1>7, <1>8, <1>9, <1>10, <1>11, <1>12, <1>13
       DEF Next, RouterAddSide, RelayAddSide, RouterManageSide, RelayManageSide, ManageSide,
           RouterRouteCall, RelayRouteCall

(***************************************************************************)
(* remove_side forgets the side: whatever was queued, configured, learned, *)
(* selected or being handled when it is called, nothing in the node names  *)
(* the side afterwards and its driver is never called again, for any       *)
(* number of sides, calls and packets.                                     *)
(***************************************************************************)
THEOREM ForgetTheorem == Spec => []RemovedIsForgotten
  <1>1. ForgetInv => RemovedIsForgotten
    BY DEF ForgetInv
  <1> QED
    BY <1>1, ForgetInit, ForgetNext, PTL DEF Spec

-----------------------------------------------------------------------------
(* Where packets are routed, and what a failed side costs the others *)

(* The strengthening: the sides a routed packet is to be sent on exist. *)
TargetsExist ==
    in_tx # << >> /\ in_tx[1].item.dst = 0 => in_tx[1].todo \subseteq DOMAIN sides

RouteInv == TypeOK /\ TargetsExist /\ RoutedWhereAllowed

(* No fan-out is under way at first. *)
LEMMA RouteInit == Init => RouteInv
  BY TypeInit DEF Init, RouteInv, RoutedWhereAllowed, TargetsExist

(* What is selected for a packet is allowed for it. *)
LEMMA EligibleAllowed ==
  ASSUME TypeOK, NEW p, NEW src, NEW s \in Eligible(p, src)
  PROVE  /\ s # src /\ route_overrides[<<src, s>>] # "off"
         /\ LinkLocalOnly(p) => sides[s].link_local
  BY EligibleSides DEF Eligible, Permitted, SideAccepts

(* Every step keeps the targets that are left allowed. *)
LEMMA RouteNext == RouteInv /\ [Next]_vars => RouteInv'
  <1> SUFFICES ASSUME RouteInv, [Next]_vars PROVE TargetsExist' /\ RoutedWhereAllowed'
    BY TypeNext DEF RouteInv
  <1>t. TypeOK /\ TypeOK' /\ TargetsExist /\ RoutedWhereAllowed
    BY TypeNext DEF RouteInv
  <1>s. sides \in Seq(SideRecs)
    BY <1>t DEF TypeOK
  <1>1. ASSUME UNCHANGED <<in_tx, route_overrides, sides>>
        PROVE  TargetsExist' /\ RoutedWhereAllowed'
    BY <1>1, <1>t DEF TargetsExist, RoutedWhereAllowed, LinkLocalOnly, Eps
  <1>2. ASSUME NEW s \in DOMAIN sides, NEW p \in Packet,
               \/ RouterReceive(s, p) \/ RelayReceivePacket(s, p) \/ RelayReceiveSerialized(s, p)
        PROVE  UNCHANGED <<in_tx, route_overrides, sides>>
    BY <1>2 DEF RouterReceive, RelayReceivePacket, RelayReceiveSerialized, sideVars
  <1>a. ASSUME NEW p \in Packet, TransmitMessageQueue(p)
        PROVE  UNCHANGED <<in_tx, route_overrides, sides>>
    BY <1>a DEF TransmitMessageQueue, sideVars
  <1>b. ASSUME NEW s \in DOMAIN sides, LearnRoute(s) \/ ExpireRoute(s)
        PROVE  UNCHANGED <<in_tx, route_overrides, sides>>
    BY <1>b DEF LearnRoute, ExpireRoute, queueVars
  <1>3. RouterRxStart \/ RouterRxEnd \/ RelayRx => UNCHANGED <<in_tx, route_overrides, sides>>
    BY DEF RouterRxStart, RouterRxEnd, RelayRx, sideVars
  <1>4. ASSUME in_tx' = << >> PROVE TargetsExist' /\ RoutedWhereAllowed'
    BY <1>4 DEF TargetsExist, RoutedWhereAllowed
  <1>5. ASSUME NEW s \in DOMAIN sides, SetIngress(s) \/ SetLinkLocal(s)
        PROVE  in_tx' = << >>
    BY <1>5 DEF SetIngress, SetLinkLocal, Idle, ManageUnchanged
  <1>6. ASSUME NEW k \in RouteKeys, RouteCall(k[1], k[2])
        PROVE  in_tx' = << >>
    BY <1>6 DEF RouteCall, Idle, ManageUnchanged
  <1>c. AddSide => in_tx' = << >>
    BY DEF AddSide, Idle, ManageUnchanged
  <1>7. CASE TxStart
    <2> DEFINE item == Head(tx_queue)
               S == Eligible(item.pkt, item.src)
               targets == IF item.dst # 0 THEN {item.dst} ELSE ApplyPolicy(policy[item.src], S)
    <2>1. /\ in_tx' = << >> \/ in_tx' = <<[item |-> item, todo |-> targets]>>
          /\ UNCHANGED <<route_overrides, sides>>
      BY <1>7 DEF TxStart, Idle, sideVars
    <2>2. item \in TxItems /\ S \in SUBSET Side
      BY <1>7, <1>t, EligibleSides DEF TxStart, TypeOK
    <2>d. S \subseteq DOMAIN sides
      BY <1>t, EligibleSides
    <2>3. policy[item.src] \in Policies
      BY <1>t, <2>2 DEF TypeOK, TxItems
    <2>4. \A s \in S : /\ s # item.src /\ route_overrides[<<item.src, s>>] # "off"
                       /\ LinkLocalOnly(item.pkt) => sides[s].link_local
      BY <1>t, EligibleAllowed
    <2>5. item.dst = 0 => targets \subseteq S
      <3> HIDE DEF item, S
      <3> QED
        BY <2>2, <2>3, PolicyChooses
    <2> HIDE DEF item, S, targets
    <2>6. CASE in_tx' = <<[item |-> item, todo |-> targets]>>
      <3>1. in_tx'[1].item = item /\ in_tx'[1].todo = targets
        BY <2>6
      <3> QED
        BY <2>1, <2>d, <2>4, <2>5, <3>1 DEF TargetsExist, RoutedWhereAllowed, LinkLocalOnly, Eps
    <2> QED
      BY <1>4, <2>1, <2>6
  <1>8. ASSUME NEW ok \in BOOLEAN, TxSkip \/ TxCall(ok)
        PROVE  TargetsExist' /\ RoutedWhereAllowed'
    <2>1. /\ in_tx # << >>
          /\ in_tx' = << >> \/ in_tx' = Rest(in_tx[1].todo)
          /\ UNCHANGED <<route_overrides, sides>>
      BY <1>8 DEF TxSkip, TxCall, sideVars
    <2>2. CASE \E t \in Turns : in_tx' = <<t>> /\ t.item = in_tx[1].item /\ t.todo \subseteq in_tx[1].todo
      <3>1. PICK t \in Turns : /\ in_tx' = <<t>> /\ t.item = in_tx[1].item
                               /\ t.todo \subseteq in_tx[1].todo
        BY <2>2
      <3>2. in_tx'[1] = t
        BY <3>1
      <3> QED
        BY <1>t, <2>1, <3>1, <3>2 DEF TargetsExist, RoutedWhereAllowed, LinkLocalOnly, Eps
    <2> QED
      BY <1>4, <1>t, <2>1, <2>2, RestOfTurn
  <1>9. ASSUME NEW s \in DOMAIN sides, RemoveSide(s) \/ SetEgress(s)
        PROVE  TargetsExist' /\ RoutedWhereAllowed'
    <2>1. in_tx' = in_tx
      BY <1>9 DEF RemoveSide, SetEgress, ManageUnchanged
    <2>2. \A d \in DOMAIN sides : sides'[d].link_local = sides[d].link_local
      <3>1. sides[s] \in SideRecs
        BY <1>s
      <3>2. CASE RemoveSide(s)
        <4>1. sides' = [sides EXCEPT ![s] = [sides[s] EXCEPT !.ingress = FALSE, !.egress = FALSE]]
          BY <3>2 DEF RemoveSide
        <4>2. [sides[s] EXCEPT !.ingress = FALSE, !.egress = FALSE].link_local = sides[s].link_local
          BY <3>1 DEF SideRecs
        <4> QED
          BY <1>s, <4>1, <4>2
      <3>3. CASE SetEgress(s)
        <4>1. PICK on \in BOOLEAN : sides' = [sides EXCEPT ![s].egress = on]
          BY <3>3 DEF SetEgress
        <4>2. [sides[s] EXCEPT !.egress = on].link_local = sides[s].link_local
          BY <3>1 DEF SideRecs
        <4> QED
          BY <1>s, <4>1, <4>2
      <3> QED
        BY <1>9, <3>2, <3>3
    <2>3. \A q \in Source, d \in Side :
             route_overrides[<<q, d>>] # "off" => route_overrides'[<<q, d>>] # "off"
      <3>1. CASE RemoveSide(s)
        BY <3>1 DEF RemoveSide
      <3>2. CASE SetEgress(s)
        BY <3>2 DEF SetEgress
      <3> QED
        BY <1>9, <3>1, <3>2
    <2>4. DOMAIN sides' = DOMAIN sides
      BY <1>9, <1>s DEF RemoveSide, SetEgress
    <2>5. ASSUME in_tx # << >>, in_tx[1].item.dst = 0, NEW d \in in_tx[1].todo
          PROVE  /\ d \in DOMAIN sides /\ d \in Side /\ in_tx[1].item.src \in Source
                 /\ d # in_tx[1].item.src /\ route_overrides[<<in_tx[1].item.src, d>>] # "off"
                 /\ LinkLocalOnly(in_tx[1].item.pkt) => sides[d].link_local
      <3>1. PICK u \in Turns : in_tx = <<u>>
        BY <1>t, <2>5 DEF TypeOK
      <3>2. in_tx[1] = u /\ u.item.src \in Source
        BY <3>1 DEF Turns, TxItems
      <3> QED
        BY <1>t, <2>5, <3>2, SideIds DEF TargetsExist, RoutedWhereAllowed
    <2> QED
      BY <2>1, <2>2, <2>3, <2>4, <2>5 DEF TargetsExist, RoutedWhereAllowed, LinkLocalOnly, Eps
  <1>10. CASE UNCHANGED vars
    BY <1>10, <1>1 DEF vars, sideVars, queueVars
  <1> QED
    BY <1>1, <1>2, <1>a, <1>b, <1>3, <1>4, <1>5, <1>6, <1>c, <1>7, <1>8, <1>9, <1>10
       DEF Next, RouterAddSide, RelayAddSide, RouterManageSide, RelayManageSide, ManageSide,
           RouterRouteCall, RelayRouteCall

(***************************************************************************)
(* select_destinations and the loop of transmit_item never address a side  *)
(* the packet came from, whose base route is off, or that is outside the   *)
(* link of a link-local packet, under any policy, and still not when       *)
(* callbacks remove or disable sides between two turns of the loop.        *)
(***************************************************************************)
THEOREM RouteTheorem == Spec => []RoutedWhereAllowed
  <1>1. RouteInv => RoutedWhereAllowed
    BY DEF RouteInv
  <1> QED
    BY <1>1, RouteInit, RouteNext, PTL DEF Spec

(***************************************************************************)
(* A router's transmit_item drops no enabled target because another one    *)
(* failed, whatever the drivers and callbacks do.                          *)
(***************************************************************************)
THEOREM FanoutTheorem == Spec => []FanoutSurvivesFailure
  <1>1. Init => FanoutSurvivesFailure
    BY DEF Init, FanoutSurvivesFailure
  <1>2. FanoutSurvivesFailure /\ [Next]_vars => FanoutSurvivesFailure'
    <2> SUFFICES ASSUME FanoutSurvivesFailure, [Next]_vars PROVE FanoutSurvivesFailure'
      OBVIOUS
    <2>1. CASE \E ok \in BOOLEAN : TxCall(ok)
      BY <2>1 DEF TxCall, FanoutSurvivesFailure
    <2>2. CASE ~ \E ok \in BOOLEAN : TxCall(ok)
      <3>1. kind' = kind /\ skipped' = skipped
        BY <2>2 DEF Next, vars, RouterReceive, RelayReceivePacket, RelayReceiveSerialized,
               TransmitMessageQueue, RouterRxStart, RouterRxEnd, RelayRx, TxStart, TxSkip,
               LearnRoute, ExpireRoute, RouterAddSide, RelayAddSide, AddSide,
               RouterManageSide, RelayManageSide, ManageSide, RemoveSide, SetIngress, SetEgress,
               SetLinkLocal, RouterRouteCall, RelayRouteCall, RouteCall, ManageUnchanged, ghostVars
      <3> QED
        BY <3>1 DEF FanoutSurvivesFailure
    <2> QED
      BY <2>1, <2>2
  <1> QED
    BY <1>1, <1>2, PTL DEF Spec

-----------------------------------------------------------------------------
(* Duplicate suppression *)

(* The cache is the end of what was let through, as much as fits. *)
RecentIsTail ==
    /\ Len(recent_ids) = IF Len(accepted) < MaxRecent THEN Len(accepted) ELSE MaxRecent
    /\ \A i \in 1 .. Len(recent_ids) :
          recent_ids[i] = accepted[Len(accepted) - Len(recent_ids) + i]

(* Between two equal keys at least MaxRecent others were let through. *)
EqualAreFarApart ==
    \A i, j \in DOMAIN accepted : i < j /\ accepted[i] = accepted[j] => j - i > MaxRecent

RecentInv == TypeOK /\ RecentIsTail /\ EqualAreFarApart

(* Nothing was let through at first. *)
LEMMA RecentInit == Init => RecentInv
  <1> SUFFICES ASSUME Init PROVE RecentIsTail /\ EqualAreFarApart
    BY TypeInit DEF RecentInv
  <1>1. recent_ids = << >> /\ accepted = << >> /\ MaxRecent \in Nat \ {0}
    BY RoutingAssumption DEF Init
  <1> QED
    BY <1>1 DEF RecentIsTail, EqualAreFarApart

(* Letting a key through that is not in the cache. *)
LEMMA AcceptRecent ==
  ASSUME RecentInv, NEW key \in Keys, ~Seen(key), Accept(key)
  PROVE  RecentIsTail' /\ EqualAreFarApart'
  <1> DEFINE n == Len(accepted)
             m == Len(recent_ids)
             R == MaxRecent
  <1>1. /\ recent_ids \in Seq(Keys) /\ accepted \in Seq(Keys) /\ R \in Nat \ {0}
        /\ n \in Nat /\ m \in Nat
        /\ DOMAIN accepted = 1 .. n /\ DOMAIN recent_ids = 1 .. m
    BY RoutingAssumption DEF RecentInv, TypeOK
  <1>2. /\ m = IF n < R THEN n ELSE R
        /\ \A i \in 1 .. m : recent_ids[i] = accepted[n - m + i]
        /\ \A i, j \in 1 .. n : i < j /\ accepted[i] = accepted[j] => j - i > R
    BY <1>1 DEF RecentInv, RecentIsTail, EqualAreFarApart
  <1>3. /\ Len(accepted') = n + 1 /\ accepted'[n + 1] = key
        /\ DOMAIN accepted' = 1 .. (n + 1)
        /\ \A i \in 1 .. n : accepted'[i] = accepted[i]
    <2>1. accepted' = Append(accepted, key)
      BY DEF Accept
    <2> QED
      BY <1>1, <2>1
  <1>4. \A i \in 1 .. m : recent_ids[i] # key
    BY <1>1 DEF Seen, Range
  <1>5. \A i \in 1 .. n : accepted[i] = key => (n + 1) - i > R
    <2> SUFFICES ASSUME NEW i \in 1 .. n, accepted[i] = key, ~((n + 1) - i > R)
                 PROVE  FALSE
      OBVIOUS
    <2> HIDE DEF n, m, R
    <2>1. i - (n - m) \in 1 .. m /\ n - m + (i - (n - m)) = i
      BY <1>1, <1>2
    <2>2. recent_ids[i - (n - m)] = accepted[i]
      BY <1>2, <2>1
    <2> QED
      BY <1>4, <2>1, <2>2
  <1>6. EqualAreFarApart'
    <2> SUFFICES ASSUME NEW i \in 1 .. (n + 1), NEW j \in 1 .. (n + 1), i < j,
                        accepted'[i] = accepted'[j]
                 PROVE  j - i > R
      BY <1>3 DEF EqualAreFarApart
    <2> HIDE DEF n, m, R
    <2>1. i \in 1 .. n /\ accepted'[i] = accepted[i]
      BY <1>1, <1>3
    <2>2. CASE j = n + 1
      BY <1>3, <1>5, <2>1, <2>2
    <2>3. CASE j # n + 1
      <3>1. j \in 1 .. n /\ accepted'[j] = accepted[j]
        BY <1>1, <1>3, <2>3
      <3> QED
        BY <1>2, <2>1, <3>1
    <2> QED
      BY <2>2, <2>3
  <1>7. RecentIsTail'
    <2>1. CASE m >= R
      <3>1. m = R /\ n >= R
        <4> HIDE DEF n, m, R
        <4> QED
          BY <1>1, <1>2, <2>1
      <3>2. recent_ids' = Append(Tail(recent_ids), key)
        BY <2>1 DEF Accept, PushRecent
      <3>3. recent_ids # << >>
        BY <1>1, <3>1
      <3> DEFINE t == Tail(recent_ids)
      <3>4. t \in Seq(Keys) /\ Len(t) = m - 1 /\ \A i \in 1 .. (m - 1) : t[i] = recent_ids[i + 1]
        BY <1>1, <3>3
      <3> HIDE DEF t
      <3>5. Len(recent_ids') = m /\ recent_ids'[m] = key
            /\ \A i \in 1 .. (m - 1) : recent_ids'[i] = t[i]
        <4>1. recent_ids' = Append(t, key)
          BY <3>2 DEF t
        <4>2. m \in Nat \ {0}
          <5> HIDE DEF m, R
          <5> QED
            BY <1>1, <3>1
        <4> HIDE DEF m, n, R
        <4>3. Len(t) = m - 1 /\ Len(t) + 1 = m /\ Len(t) \in Nat
          BY <3>4, <4>2
        <4>4. /\ Len(Append(t, key)) = Len(t) + 1 /\ Append(t, key)[Len(t) + 1] = key
              /\ \A k \in 1 .. Len(t) : Append(t, key)[k] = t[k]
          BY <3>4
        <4> QED
          BY <4>1, <4>3, <4>4
      <3> HIDE DEF n, m, R
      <3>6. \A i \in 1 .. m : recent_ids'[i] = accepted'[(n + 1) - m + i]
        <4> SUFFICES ASSUME NEW i \in 1 .. m
                     PROVE  recent_ids'[i] = accepted'[(n + 1) - m + i]
          OBVIOUS
        <4>1. CASE i = m
          BY <1>1, <1>3, <3>5, <4>1
        <4>2. CASE i # m
          <5>1. /\ i \in 1 .. (m - 1) /\ i + 1 \in 1 .. m
                /\ n - m + (i + 1) = (n + 1) - m + i /\ (n + 1) - m + i \in 1 .. n
            BY <1>1, <3>1, <4>2
          <5>2. recent_ids'[i] = accepted[(n + 1) - m + i]
            BY <1>2, <3>4, <3>5, <5>1
          <5> QED
            BY <1>3, <5>1, <5>2
        <4> QED
          BY <4>1, <4>2
      <3>7. ~(n + 1 < R)
        BY <1>1, <3>1
      <3> QED
        BY <1>3, <3>1, <3>5, <3>6, <3>7 DEF RecentIsTail, R
    <2>2. CASE ~(m >= R)
      <3>1. m = n /\ n < R
        <4> HIDE DEF n, m, R
        <4> QED
          BY <1>1, <1>2, <2>2
      <3>2. recent_ids' = Append(recent_ids, key)
        BY <2>2 DEF Accept, PushRecent
      <3>3. /\ Len(recent_ids') = m + 1 /\ recent_ids'[m + 1] = key
            /\ \A i \in 1 .. m : recent_ids'[i] = recent_ids[i]
        BY <1>1, <3>2
      <3> HIDE DEF n, m, R
      <3>4. \A i \in 1 .. (m + 1) : recent_ids'[i] = accepted'[(n + 1) - (m + 1) + i]
        <4> SUFFICES ASSUME NEW i \in 1 .. (m + 1)
                     PROVE  recent_ids'[i] = accepted'[i]
          BY <1>1, <3>1
        <4>1. CASE i = m + 1
          BY <1>3, <3>1, <3>3, <4>1
        <4>2. CASE i \in 1 .. m
          <5>1. i \in 1 .. n /\ n - m + i = i
            BY <1>1, <3>1, <4>2
          <5> QED
            BY <1>2, <1>3, <3>3, <4>2, <5>1
        <4> QED
          BY <1>1, <4>1, <4>2
      <3>5. m + 1 = IF n + 1 < R THEN n + 1 ELSE R
        BY <1>1, <3>1
      <3> QED
        BY <1>3, <3>3, <3>4, <3>5 DEF RecentIsTail, R
    <2> QED
      BY <2>1, <2>2
  <1> QED
    BY <1>6, <1>7

(* Every step keeps the cache the end of what was let through. *)
LEMMA RecentNext == RecentInv /\ [Next]_vars => RecentInv'
  <1> SUFFICES ASSUME RecentInv, [Next]_vars PROVE RecentIsTail' /\ EqualAreFarApart'
    BY TypeNext DEF RecentInv
  <1>1. ASSUME UNCHANGED <<recent_ids, accepted>>
        PROVE  RecentIsTail' /\ EqualAreFarApart'
    BY <1>1 DEF RecentInv, RecentIsTail, EqualAreFarApart
  <1>2. ASSUME NEW s \in DOMAIN sides, NEW p \in Packet, RelayReceiveSerialized(s, p)
        PROVE  RecentIsTail' /\ EqualAreFarApart'
    <2>1. <<p, s>> \in Keys
      BY SideIds DEF Keys, RecentInv
    <2>2. \/ UNCHANGED <<recent_ids, accepted>>
          \/ ~Seen(<<p, s>>) /\ Accept(<<p, s>>)
      BY <1>2 DEF RelayReceiveSerialized
    <2> QED
      BY <1>1, <2>1, <2>2, AcceptRecent
  <1>3. CASE RouterRxStart
    <2> DEFINE key == <<Head(rx_queue).pkt, 0>>
    <2>1. Head(rx_queue) \in RxItems
      BY <1>3 DEF RouterRxStart, RecentInv, TypeOK
    <2>2. key \in Keys
      BY <2>1, SideIds DEF RxItems, Keys
    <2>3. UNCHANGED <<recent_ids, accepted>> \/ (~Seen(key) /\ Accept(key))
      BY <1>3 DEF RouterRxStart
    <2> HIDE DEF key
    <2> QED
      BY <1>1, <2>2, <2>3, AcceptRecent
  <1>4. \/ \E s \in DOMAIN sides, p \in Packet : RelayReceiveSerialized(s, p)
        \/ RouterRxStart
        \/ UNCHANGED <<recent_ids, accepted>>
    BY DEF Next, vars, RouterReceive, RelayReceivePacket, TransmitMessageQueue, RouterRxEnd,
           RelayRx, TxStart, TxSkip, TxCall, LearnRoute, ExpireRoute, RouterAddSide, RelayAddSide,
           AddSide, RouterManageSide, RelayManageSide, ManageSide, RemoveSide, SetIngress,
           SetEgress, SetLinkLocal, RouterRouteCall, RelayRouteCall, RouteCall,
           ManageUnchanged, queueVars, ghostVars
  <1> QED
    BY <1>1, <1>2, <1>3, <1>4

(***************************************************************************)
(* is_duplicate_pkt lets a key through a second time only after at least   *)
(* max_recent_rx_ids different ones, for every capacity of the cache.      *)
(***************************************************************************)
THEOREM RecentTheorem == Spec => []SeenRecentlyIsDropped
  <1>1. RecentInv => SeenRecentlyIsDropped
    <2> SUFFICES ASSUME RecentInv, NEW i \in DOMAIN accepted, NEW j \in DOMAIN accepted,
                        i < j, accepted[i] = accepted[j]
                 PROVE  Cardinality({accepted[k] : k \in (i + 1) .. (j - 1)}) >= MaxRecent
      BY DEF SeenRecentlyIsDropped
    <2> DEFINE R == MaxRecent
               T == {accepted[k] : k \in (i + 1) .. (j - 1)}
               D == (i + 1) .. (i + R)
               f == [k \in D |-> accepted[k]]
               g == [k \in (i + 1) .. (j - 1) |-> accepted[k]]
    <2>1. /\ accepted \in Seq(Keys) /\ R \in Nat \ {0} /\ Len(accepted) \in Nat
          /\ DOMAIN accepted = 1 .. Len(accepted) /\ j - i > R
          /\ i \in Nat /\ j \in Nat /\ j <= Len(accepted) /\ i >= 1
      BY RoutingAssumption DEF RecentInv, TypeOK, EqualAreFarApart
    <2>2. IsFiniteSet(T)
      <3>1. IsFiniteSet((i + 1) .. (j - 1))
        BY <2>1, FS_Interval
      <3>2. g \in Surjection((i + 1) .. (j - 1), T)
        BY DEF Surjection
      <3> QED
        BY <3>1, <3>2, FS_Surjection
    <2>3. IsFiniteSet(D) /\ Cardinality(D) = R
      <3> DEFINE a == i + 1
                 b == i + R
      <3>1. a \in Int /\ b \in Int /\ a <= b /\ b - a + 1 = R
        <4> HIDE DEF R
        <4> QED
          BY <2>1
      <3> HIDE DEF a, b
      <3>2. IsFiniteSet(a .. b) /\ Cardinality(a .. b) = b - a + 1
        BY <3>1, FS_Interval
      <3> QED
        BY <3>1, <3>2 DEF a, b
    <2>4. \A k \in D : k \in (i + 1) .. (j - 1) /\ k \in DOMAIN accepted
      BY <2>1
    <2>5. \A a, b \in D : accepted[a] = accepted[b] => a = b
      <3> SUFFICES ASSUME NEW a \in D, NEW b \in D, accepted[a] = accepted[b], a < b
                   PROVE  FALSE
        BY <2>1
      <3>1. b - a > R
        BY <2>4 DEF RecentInv, EqualAreFarApart
      <3> QED
        BY <2>1, <3>1
    <2>6. f \in Injection(D, T)
      <3>1. f \in [D -> T]
        BY <2>4
      <3>2. \A a, b \in D : f[a] = f[b] => a = b
        BY <2>5
      <3> HIDE DEF f, D, T
      <3> QED
        BY <3>1, <3>2 DEF Injection, IsInjective
    <2> HIDE DEF f, D, T
    <2>7. Cardinality(D) <= Cardinality(T) /\ Cardinality(T) \in Nat
      BY <2>2, <2>3, <2>6, FS_Injection, FS_CardinalityType
    <2> QED
      BY <2>1, <2>3, <2>7 DEF T
  <1> QED
    BY <1>1, RecentInit, RecentNext, PTL DEF Spec

-----------------------------------------------------------------------------
(* Weighted shares *)

(* Picks a policy made in a row over the same shares, before its counter   *)
(* reached c.                                                              *)
InARow(share, picks, c) ==
    /\ picks \in Seq(DOMAIN share)
    /\ Len(picks) <= Cardinality(Tickets(share)) /\ Len(picks) <= c
    /\ \A i \in 1 .. Len(picks) : Picks(share, c - Len(picks) + i - 1, picks[i])

(* The size of an interval that is not empty. *)
LEMMA IntervalSize ==
  ASSUME NEW a \in Int, NEW b \in Int, a <= b
  PROVE  IsFiniteSet(a .. b) /\ Cardinality(a .. b) = b - a + 1
  BY FS_Interval

(* Numbers less than T apart have different remainders. *)
LEMMA ModInjective ==
  ASSUME NEW T \in Nat \ {0}, NEW x \in Nat, NEW y \in Nat, x < y, y - x < T
  PROVE  x % T # y % T
  <1> SUFFICES ASSUME x % T = y % T PROVE FALSE
    OBVIOUS
  <1> DEFINE a == x \div T
             b == y \div T
             r == x % T
  <1>1. a \in Int /\ b \in Int /\ r \in Int /\ x = T * a + r /\ y = T * b + r
    BY Z3
  <1> HIDE DEF a, b, r
  <1>2. y - x = T * (b - a)
    BY <1>1
  <1>3. CASE b - a <= 0
    <2>1. T * (b - a) <= 0
      BY <1>1, <1>3
    <2> QED
      BY <1>2, <2>1
  <1>4. CASE b - a >= 1
    <2>1. T * (b - a) >= T
      BY <1>1, <1>4
    <2> QED
      BY <1>2, <2>1
  <1> QED
    BY <1>1, <1>3, <1>4

(* As many picks in a row as there are tickets give each side its weight. *)
LEMMA RowIsFair ==
  ASSUME NEW D \in SUBSET Nat, IsFiniteSet(D), D # {},
         NEW share \in [D -> Nat \ {0}], NEW c \in Nat, NEW picks,
         InARow(share, picks, c), Len(picks) = Cardinality(Tickets(share)), NEW s \in D
  PROVE  Cardinality({i \in DOMAIN picks : picks[i] = s}) = share[s]
  <1> DEFINE T == Cardinality(Tickets(share))
             b == c - T
             f == [i \in 1 .. T |-> (b + i - 1) % T]
             I == {i \in DOMAIN picks : picks[i] = s}
             lo == Running(share, s)
             J == lo .. (lo + share[s] - 1)
  <1>1. T \in Nat \ {0} /\ DOMAIN picks = 1 .. T /\ Len(picks) = T /\ T <= c
    BY PickExists DEF InARow
  <1>2. b \in Nat
    <2> HIDE DEF T
    <2> QED
      BY <1>1
  <1>3. /\ \A i \in 1 .. T : Picks(share, b + i - 1, picks[i]) /\ picks[i] \in D
        /\ \A i \in 1 .. T : b + i - 1 \in Nat
    <2>1. \A i \in 1 .. T : Picks(share, c - T + i - 1, picks[i]) /\ picks[i] \in D
      BY <1>1 DEF InARow
    <2> HIDE DEF T
    <2> QED
      BY <1>1, <1>2, <2>1
  <1>4. lo \in Nat /\ share[s] \in Nat \ {0} /\ lo + share[s] <= T
    <2>1. share \in [D -> Nat]
      OBVIOUS
    <2> QED
      BY <2>1, RunningStep
  <1>5. f \in Surjection(1 .. T, 0 .. (T - 1)) /\ f \in Injection(1 .. T, 0 .. (T - 1))
    <2> HIDE DEF T, b
    <2>1. \A i \in 1 .. T : f[i] \in 0 .. (T - 1)
      BY <1>1, <1>3
    <2>2. \A i, j \in 1 .. T : i < j => f[i] # f[j]
      <3> SUFFICES ASSUME NEW i \in 1 .. T, NEW j \in 1 .. T, i < j
                   PROVE  (b + i - 1) % T # (b + j - 1) % T
        OBVIOUS
      <3> DEFINE x == b + i - 1
                 y == b + j - 1
      <3>1. x \in Nat /\ y \in Nat /\ x < y /\ y - x < T
        BY <1>1, <1>2, <1>3
      <3> HIDE DEF x, y
      <3>2. x % T # y % T
        BY <1>1, <3>1, ModInjective
      <3> QED
        BY <3>2 DEF x, y
    <2>3. \A i, j \in 1 .. T : f[i] = f[j] => i = j
      <3> SUFFICES ASSUME NEW i \in 1 .. T, NEW j \in 1 .. T, f[i] = f[j], i # j
                   PROVE  FALSE
        OBVIOUS
      <3>1. i < j \/ j < i
        BY <1>1
      <3> HIDE DEF f
      <3> QED
        BY <2>2, <3>1
    <2>4. f \in [1 .. T -> 0 .. (T - 1)]
      BY <2>1
    <2> HIDE DEF f
    <2>5. f \in Injection(1 .. T, 0 .. (T - 1))
      BY <2>3, <2>4 DEF Injection, IsInjective
    <2>6. /\ IsFiniteSet(0 .. (T - 1))
          /\ Cardinality(0 .. (T - 1)) = T /\ Cardinality(1 .. T) = T
      <3> DEFINE u == T - 1
      <3>1. /\ u \in Int /\ T \in Int /\ 0 \in Int /\ 1 \in Int /\ 0 <= u /\ 1 <= T
            /\ u - 0 + 1 = T /\ T - 1 + 1 = T
        BY <1>1
      <3> HIDE DEF u
      <3>2. IsFiniteSet(0 .. u) /\ Cardinality(0 .. u) = T
        BY <3>1, IntervalSize
      <3>3. Cardinality(1 .. T) = T
        BY <3>1, IntervalSize
      <3> QED
        BY <3>2, <3>3 DEF u
    <2> QED
      BY <2>5, <2>6, FS_Injection
  <1>6. \A i \in 1 .. T : picks[i] = s <=> f[i] \in J
    <2> SUFFICES ASSUME NEW i \in 1 .. T PROVE picks[i] = s <=> f[i] \in J
      OBVIOUS
    <2> DEFINE x == b + i - 1
    <2>1. x \in Nat /\ Picks(share, x, picks[i]) /\ picks[i] \in D /\ f[i] = x % T
      BY <1>3
    <2>2. x % T \in Nat
      <3> HIDE DEF T, x
      <3> QED
        BY <1>1, <2>1
    <2>3. Picks(share, x, s) <=> x % T \in J
      <3>1. Picks(share, x, s) <=> lo <= x % T /\ x % T < lo + share[s]
        BY DEF Picks
      <3> HIDE DEF T, x, lo
      <3> QED
        BY <1>4, <2>2, <3>1
    <2>4. Picks(share, x, s) => picks[i] = s
      <3> HIDE DEF x
      <3> QED
        BY <2>1, PickExists
    <2> HIDE DEF f, J, x
    <2> QED
      BY <2>1, <2>3, <2>4
  <1>7. J \subseteq 0 .. (T - 1)
    <2> HIDE DEF T, lo
    <2> QED
      BY <1>1, <1>4
  <1>8. IsFiniteSet(J) /\ Cardinality(J) = share[s]
    <2> DEFINE hi == lo + share[s] - 1
    <2>1. lo \in Int /\ hi \in Int /\ lo <= hi /\ hi - lo + 1 = share[s]
      <3> HIDE DEF lo
      <3> QED
        BY <1>4
    <2> HIDE DEF lo, hi
    <2>2. IsFiniteSet(lo .. hi) /\ Cardinality(lo .. hi) = hi - lo + 1
      BY <2>1, IntervalSize
    <2> QED
      BY <2>1, <2>2 DEF hi
  <1> DEFINE g == [i \in I |-> f[i]]
  <1>9. I \subseteq 1 .. T /\ \A i \in I : f[i] \in J
    <2> HIDE DEF f, J, T
    <2> QED
      BY <1>1, <1>6
  <1>10. g \in Bijection(I, J)
    <2> HIDE DEF f, J, T
    <2>1. g \in [I -> J]
      BY <1>9
    <2>2. \A i, j \in I : g[i] = g[j] => i = j
      BY <1>5, <1>9 DEF Injection, IsInjective
    <2>3. \A v \in J : \E i \in I : g[i] = v
      <3> SUFFICES ASSUME NEW v \in J PROVE \E i \in I : g[i] = v
        OBVIOUS
      <3>1. PICK i \in 1 .. T : f[i] = v
        BY <1>5, <1>7 DEF Surjection
      <3>2. i \in I
        BY <1>1, <1>6, <3>1
      <3> QED
        BY <3>1, <3>2
    <2> HIDE DEF g, I
    <2> QED
      BY <2>1, <2>2, <2>3 DEF Bijection, Injection, IsInjective, Surjection
  <1>11. IsFiniteSet(I)
    <2>1. IsFiniteSet(1 .. T)
      BY <1>1, FS_Interval
    <2> HIDE DEF I, T
    <2> QED
      BY <1>9, <2>1, FS_Subset
  <1>12. Cardinality(J) = Cardinality(I)
    <2> HIDE DEF I, J, g
    <2> QED
      BY <1>10, <1>11, FS_Bijection DEF ExistsBijection
  <1> QED
    BY <1>8, <1>12

(* One more pick in a row, the oldest one dropped when there are enough. *)
LEMMA RowGrows ==
  ASSUME NEW share, NEW c \in Nat, NEW old, InARow(share, old, c),
         NEW p \in DOMAIN share, Picks(share, c, p),
         Cardinality(Tickets(share)) \in Nat \ {0}
  PROVE  LET picks == Append(old, p)
         IN  InARow(share, IF Len(picks) > Cardinality(Tickets(share))
                           THEN Tail(picks) ELSE picks, c + 1)
  <1> DEFINE T == Cardinality(Tickets(share))
             n == Len(old)
             D == DOMAIN share
             picks == Append(old, p)
             last == Tail(picks)
  <1>1. /\ old \in Seq(D) /\ n \in Nat /\ n <= T /\ n <= c /\ T \in Nat \ {0} /\ p \in D
        /\ \A i \in 1 .. n : Picks(share, c - n + i - 1, old[i])
    BY DEF InARow
  <1>2. /\ picks \in Seq(D) /\ Len(picks) = n + 1 /\ picks[n + 1] = p
        /\ \A i \in 1 .. n : picks[i] = old[i]
    BY <1>1
  <1>3. \A i \in 1 .. (n + 1) : Picks(share, (c + 1) - (n + 1) + i - 1, picks[i])
    <2> SUFFICES ASSUME NEW i \in 1 .. (n + 1)
                 PROVE  Picks(share, (c + 1) - (n + 1) + i - 1, picks[i])
      OBVIOUS
    <2> HIDE DEF n, picks, T, D
    <2>1. CASE i = n + 1
      <3>1. (c + 1) - (n + 1) + i - 1 = c
        BY <1>1, <2>1
      <3> QED
        BY <1>2, <2>1, <3>1
    <2>2. CASE i \in 1 .. n
      <3>1. (c + 1) - (n + 1) + i - 1 = c - n + i - 1
        BY <1>1, <2>2
      <3>2. Picks(share, c - n + i - 1, picks[i])
        BY <1>1, <1>2, <2>2
      <3> QED
        BY <3>1, <3>2
    <2> QED
      BY <1>1, <2>1, <2>2
  <1>4. CASE n + 1 <= T
    <2>1. ~(Len(picks) > T) /\ Len(picks) <= T /\ Len(picks) <= c + 1
      <3> HIDE DEF n, picks, T, D
      <3> QED
        BY <1>1, <1>2, <1>4
    <2>2. InARow(share, picks, c + 1)
      <3> HIDE DEF n, picks
      <3> QED
        BY <1>2, <1>3, <2>1 DEF InARow
    <2> QED
      BY <2>1, <2>2
  <1>5. CASE ~(n + 1 <= T)
    <2>1. n = T /\ Len(picks) > T
      <3> HIDE DEF n, picks, T, D
      <3> QED
        BY <1>1, <1>2, <1>5
    <2>2. last \in Seq(D) /\ Len(last) = n /\ \A i \in 1 .. n : last[i] = picks[i + 1]
      <3> HIDE DEF n, picks, D
      <3>1. picks # << >>
        BY <1>1, <1>2
      <3> QED
        BY <1>1, <1>2, <3>1
    <2>3. \A i \in 1 .. n : Picks(share, (c + 1) - n + i - 1, last[i])
      <3> HIDE DEF n, picks, last, D, T
      <3> SUFFICES ASSUME NEW i \in 1 .. n
                   PROVE  Picks(share, (c + 1) - n + i - 1, last[i])
        OBVIOUS
      <3>1. i + 1 \in 1 .. (n + 1) /\ (c + 1) - (n + 1) + (i + 1) - 1 = (c + 1) - n + i - 1
        BY <1>1
      <3> QED
        BY <1>3, <2>2, <3>1
    <2>4. n <= c + 1 /\ n <= T
      <3> HIDE DEF n, T
      <3> QED
        BY <1>1
    <2>5. InARow(share, last, c + 1)
      <3> HIDE DEF n, last
      <3> QED
        BY <2>2, <2>3, <2>4 DEF InARow
    <2> QED
      BY <2>1, <2>5
  <1> QED
    BY <1>4, <1>5

(* A window's picks were made in a row, the last of them just before c. *)
Consecutive(w, c) ==
    w.picks # << >> => /\ DOMAIN w.over \in SUBSET Side
                       /\ w.over \in [DOMAIN w.over -> Nat \ {0}]
                       /\ InARow(w.over, w.picks, c)

(* The strengthening: every window ends at its policy's counter. *)
WindowsAreCurrent ==
    DOMAIN window = Source /\ \A q \in Source : Consecutive(window[q], policy[q].rr)

ShareInv == TypeOK /\ WindowsAreCurrent

(* No picks have been made at first. *)
LEMMA ShareInit == Init => ShareInv
  BY TypeInit DEF Init, ShareInv, WindowsAreCurrent, Consecutive, NoWindow

(* A weighted pick extends the window of its source. *)
LEMMA WindowGrows ==
  ASSUME TypeOK, NEW src \in Source, NEW S \in SUBSET Side, S # {},
         Consecutive(window[src], policy[src].rr)
  PROVE  Consecutive(NextWindow(src, S), policy[src].rr + 1)
  <1> DEFINE pol == policy[src]
             share == Share(pol, S)
             old == IF window[src].over = share THEN window[src].picks ELSE << >>
             picks == Append(old, Pick(pol, S))
             T == Cardinality(Tickets(share))
             kept == IF Len(picks) > T THEN Tail(picks) ELSE picks
  <1>1. pol \in Policies /\ pol.rr \in Nat
    BY DEF TypeOK, Policies
  <1>2. share \in [S -> Nat \ {0}] /\ DOMAIN share = S /\ IsFiniteSet(S) /\ S \in SUBSET Nat
    <2> HIDE DEF pol
    <2> QED
      BY <1>1, ShareType
  <1>3. Pick(pol, S) \in DOMAIN share /\ Picks(share, pol.rr, Pick(pol, S))
    <2>1. Pick(pol, S) \in S /\ Picks(share, pol.rr, Pick(pol, S))
      <3> HIDE DEF pol
      <3> QED
        BY <1>1, PickChooses
    <2> QED
      BY <1>2, <2>1
  <1>4. T \in Nat \ {0}
    <2> HIDE DEF share
    <2> QED
      BY <1>2, PickExists
  <1>5. InARow(share, << >>, pol.rr)
    <2> HIDE DEF share, pol
    <2> QED
      BY <1>1, <1>4 DEF InARow
  <1>6. InARow(share, old, pol.rr)
    <2>1. CASE window[src].over = share /\ window[src].picks # << >>
      BY <2>1 DEF Consecutive
    <2>2. CASE ~(window[src].over = share /\ window[src].picks # << >>)
      <3>1. old = << >>
        BY <2>2
      <3> QED
        BY <1>5, <3>1
    <2> QED
      BY <2>1, <2>2
  <1>7. InARow(share, kept, pol.rr + 1)
    <2> HIDE DEF share, old, pol
    <2> QED
      BY <1>1, <1>3, <1>4, <1>6, RowGrows
  <1>8. NextWindow(src, S) = [over |-> share, picks |-> kept]
    BY DEF NextWindow, Total
  <1>9. NextWindow(src, S).over = share /\ NextWindow(src, S).picks = kept
    <2> HIDE DEF share, kept
    <2> QED
      BY <1>8
  <1> HIDE DEF share, kept, pol
  <1> QED
    BY <1>2, <1>7, <1>9 DEF Consecutive, pol

(* Every step keeps the windows in step with the counters. *)
LEMMA ShareNext == ShareInv /\ [Next]_vars => ShareInv'
  <1> SUFFICES ASSUME ShareInv, [Next]_vars PROVE WindowsAreCurrent'
    BY TypeNext DEF ShareInv
  <1>t. TypeOK /\ policy \in [Source -> Policies] /\ DOMAIN window = Source
        /\ \A q \in Source : Consecutive(window[q], policy[q].rr)
    BY DEF ShareInv, WindowsAreCurrent, TypeOK
  <1>1. ASSUME UNCHANGED window, \A q \in Source : policy'[q].rr = policy[q].rr
        PROVE  WindowsAreCurrent'
    BY <1>1, <1>t DEF WindowsAreCurrent
  <1>2. CASE TxStart
    <2> DEFINE item == Head(tx_queue)
               src == item.src
               S == Eligible(item.pkt, src)
    <2>1. item \in TxItems /\ src \in Source /\ S \in SUBSET Side
      <3>1. item \in TxItems
        BY <1>2, <1>t DEF TxStart, TypeOK
      <3>2. src \in Source
        BY <3>1 DEF TxItems
      <3> QED
        BY <1>t, <3>1, <3>2, EligibleSides
    <2>2. \/ UNCHANGED <<policy, window>>
          \/ /\ S # {}
             /\ policy' = [policy EXCEPT ![src].rr = @ + 1]
             /\ window' = [window EXCEPT ![src] = NextWindow(src, S)]
      BY <1>2 DEF TxStart
    <2> HIDE DEF item, src, S
    <2>3. CASE /\ S # {}
               /\ policy' = [policy EXCEPT ![src].rr = @ + 1]
               /\ window' = [window EXCEPT ![src] = NextWindow(src, S)]
      <3>1. /\ policy'[src] = [policy[src] EXCEPT !.rr = policy[src].rr + 1]
            /\ policy[src] \in Policies
            /\ \A q \in Source \ {src} : policy'[q] = policy[q] /\ window'[q] = window[q]
            /\ window'[src] = NextWindow(src, S) /\ DOMAIN window' = Source
        BY <1>t, <2>1, <2>3
      <3>2. policy'[src].rr = policy[src].rr + 1
        BY <3>1 DEF Policies
      <3>3. Consecutive(window'[src], policy'[src].rr)
        BY <1>t, <2>1, <2>3, <3>1, <3>2, WindowGrows
      <3>4. \A q \in Source : Consecutive(window'[q], policy'[q].rr)
        BY <1>t, <3>1, <3>3
      <3> QED
        BY <3>1, <3>4 DEF WindowsAreCurrent
    <2> QED
      BY <1>1, <2>2, <2>3
  <1>3. ASSUME NEW s \in DOMAIN sides, RemoveSide(s)
        PROVE  WindowsAreCurrent'
    <2>1. s \in Side /\ s \in Source
      BY <1>t, SideIds
    <2>2. /\ window' = [window EXCEPT ![s] = NoWindow]
          /\ policy' = [q \in Source |-> IF q = s THEN NoPolicy
                ELSE [policy[q] EXCEPT !.weights[s] = 0, !.priorities[s] = DefaultPriority]]
      BY <1>3 DEF RemoveSide
    <2>3. \A q \in Source \ {s} : policy'[q].rr = policy[q].rr
      <3> SUFFICES ASSUME NEW q \in Source \ {s} PROVE policy'[q].rr = policy[q].rr
        OBVIOUS
      <3> DEFINE pol == policy[q]
      <3>1. /\ pol \in Policies
            /\ policy'[q] = [pol EXCEPT !.weights[s] = 0, !.priorities[s] = DefaultPriority]
        BY <1>t, <2>2
      <3> HIDE DEF pol
      <3>2. policy'[q].rr = pol.rr
        BY <3>1 DEF Policies
      <3> QED
        BY <3>2 DEF pol
    <2>4. /\ DOMAIN window' = Source /\ window'[s] = NoWindow
          /\ \A q \in Source \ {s} : window'[q] = window[q]
      BY <1>t, <2>1, <2>2
    <2>5. \A c : Consecutive(NoWindow, c)
      BY DEF Consecutive, NoWindow
    <2>6. \A q \in Source : Consecutive(window'[q], policy'[q].rr)
      BY <1>t, <2>3, <2>4, <2>5
    <2> QED
      BY <2>4, <2>6 DEF WindowsAreCurrent
  <1>4. ASSUME NEW k \in RouteKeys, RouteCall(k[1], k[2])
        PROVE  WindowsAreCurrent'
    <2>1. k[1] \in Source /\ k[2] \in Side
      BY RoutingAssumption
    <2>2. UNCHANGED window /\ (UNCHANGED policy \/ SetPolicy(k[1], k[2]))
      BY <1>4 DEF RouteCall, SetRoute, SetTypedRoute, ManageUnchanged
    <2>3. CASE SetPolicy(k[1], k[2])
      <3> DEFINE pol == policy[k[1]]
      <3>1. pol \in Policies
        BY <1>t, <2>1
      <3>2. \A q \in Source \ {k[1]} : policy'[q] = policy[q]
        BY <1>t, <2>1, <2>3 DEF SetPolicy
      <3>3. \/ \E m : policy'[k[1]] = [pol EXCEPT !.mode = m]
            \/ \E w : policy'[k[1]] = [pol EXCEPT !.weights[k[2]] = w]
            \/ \E n : policy'[k[1]] = [pol EXCEPT !.priorities[k[2]] = n]
        BY <1>t, <2>1, <2>3 DEF SetPolicy
      <3>4. policy'[k[1]].rr = pol.rr
        <4> HIDE DEF pol
        <4> QED
          BY <3>1, <3>3 DEF Policies
      <3>5. \A q \in Source : policy'[q].rr = policy[q].rr
        BY <3>2, <3>4
      <3> QED
        BY <1>1, <2>2, <3>5
    <2> QED
      BY <1>1, <2>2, <2>3
  <1>5. \/ TxStart
        \/ \E s \in DOMAIN sides : RemoveSide(s)
        \/ \E k \in RouteKeys : RouteCall(k[1], k[2])
        \/ UNCHANGED <<policy, window>>
    BY DEF Next, vars, RouterReceive, RelayReceivePacket, RelayReceiveSerialized,
           TransmitMessageQueue, RouterRxStart, RouterRxEnd, RelayRx, TxSkip, TxCall,
           LearnRoute, ExpireRoute, RouterAddSide, RelayAddSide, AddSide, RouterManageSide,
           RelayManageSide, ManageSide, SetIngress, SetEgress, SetLinkLocal, RouterRouteCall,
           RelayRouteCall, ManageUnchanged, ghostVars
  <1> QED
    BY <1>1, <1>2, <1>3, <1>4, <1>5

(***************************************************************************)
(* The Weighted branch of apply_policy is exactly fair: as many picks in a *)
(* row as the weights sum to give each side its weight, from any counter   *)
(* and for all sides and weights.                                          *)
(***************************************************************************)
THEOREM ShareTheorem == Spec => []WeightedShare
  <1>1. ShareInv => WeightedShare
    <2> SUFFICES ASSUME ShareInv, NEW q \in Source,
                        Len(window[q].picks) > 0,
                        Len(window[q].picks) = Cardinality(Tickets(window[q].over)),
                        NEW s \in DOMAIN window[q].over
                 PROVE  Cardinality({i \in DOMAIN window[q].picks : window[q].picks[i] = s})
                           = window[q].over[s]
      BY DEF WeightedShare
    <2> DEFINE share == window[q].over
               picks == window[q].picks
               D == DOMAIN share
    <2>1. picks # << >> /\ policy[q].rr \in Nat
      BY DEF ShareInv, TypeOK, Policies
    <2>2. D \in SUBSET Side /\ share \in [D -> Nat \ {0}] /\ InARow(share, picks, policy[q].rr)
      BY <2>1 DEF ShareInv, WindowsAreCurrent, Consecutive
    <2>3. IsFiniteSet(Side) /\ Side \in SUBSET Nat
      BY SideIds, FS_Interval DEF Side
    <2>4. IsFiniteSet(D) /\ D \in SUBSET Nat /\ D # {}
      BY <2>2, <2>3, FS_Subset
    <2>5. Len(picks) = Cardinality(Tickets(share)) /\ s \in D
      OBVIOUS
    <2> DEFINE c == policy[q].rr
    <2> HIDE DEF share, picks, D, c
    <2>6. Cardinality({i \in DOMAIN picks : picks[i] = s}) = share[s]
      <3>1. c \in Nat /\ InARow(share, picks, c)
        BY <2>1, <2>2 DEF c
      <3> QED
        BY <2>2, <2>4, <2>5, <3>1, RowIsFair
    <2> QED
      BY <2>6 DEF share, picks
  <1> QED
    BY <1>1, ShareInit, ShareNext, PTL DEF Spec

=============================================================================
