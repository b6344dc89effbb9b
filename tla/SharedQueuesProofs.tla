------------------------- MODULE SharedQueuesProofs -------------------------
(***************************************************************************)
(* Proofs about SharedQueues: the byte counters, the budget and the order  *)
(* of transmission, for every budget and all packet sizes.                 *)
(***************************************************************************)
EXTENDS SharedQueues, FiniteSetTheorems, NaturalsInduction, WellFoundedInduction, TLAPS

-----------------------------------------------------------------------------
(* Induction *)

(* Induction over the natural numbers, for a set of them. *)
LEMMA Induct ==
  ASSUME NEW S \in SUBSET Nat, 0 \in S, \A k \in S : k + 1 \in S
  PROVE  \A k \in Nat : k \in S
  <1> SUFFICES ASSUME NEW x \in Nat \ S PROVE FALSE
    OBVIOUS
  <1>1. \E m \in Nat \ S : \A y \in Nat \ S : ~(<<y, m>> \in OpToRel(<, Nat))
    BY NatLessThanWellFounded, WFMin
  <1>2. PICK m \in Nat \ S : \A y \in Nat \ S : ~(<<y, m>> \in OpToRel(<, Nat))
    BY <1>1
  <1>3. m # 0 /\ m - 1 \in Nat
    OBVIOUS
  <1>4. \A y \in Nat \ S : ~(y < m)
    BY <1>2 DEF OpToRel
  <1>5. m - 1 \in S /\ (m - 1) + 1 = m
    BY <1>3, <1>4
  <1> QED
    BY <1>5

(* A turn of the eviction loop of enqueue_bounded. *)
RoomTurn(q, cost) == IF q.bytes + cost <= Budget THEN q ELSE PopFront(q)

(* f[k] is the queue q after k turns, up to n. *)
RoomRun(f, q, cost, n) ==
    f = [k \in 0 .. n |-> IF k = 0 THEN q ELSE RoomTurn(f[k - 1], cost)]

(* The loop of enqueue_bounded can be run for any number of turns. *)
LEMMA RoomTurns ==
  ASSUME NEW q, NEW cost, NEW n \in Nat
  PROVE  \E f : RoomRun(f, q, cost, n)
  <1> DEFINE S == {m \in Nat : \E f : RoomRun(f, q, cost, m)}
  <1>1. 0 \in S
    <2> DEFINE f == [k \in 0 .. 0 |-> q]
    <2>1. \A k \in 0 .. 0 : k = 0
      OBVIOUS
    <2>2. RoomRun(f, q, cost, 0)
      BY <2>1 DEF RoomRun
    <2> QED
      BY <2>2
  <1>2. ASSUME NEW m \in S PROVE m + 1 \in S
    <2>1. PICK f : RoomRun(f, q, cost, m)
      OBVIOUS
    <2> DEFINE g == [k \in 0 .. m + 1 |-> IF k = m + 1 THEN RoomTurn(f[m], cost) ELSE f[k]]
    <2>2. \A k \in 0 .. m + 1 : g[k] = IF k = 0 THEN q ELSE RoomTurn(g[k - 1], cost)
      <3> TAKE k \in 0 .. m + 1
      <3>1. CASE k = m + 1
        <4>1. m \in 0 .. m + 1 /\ m # m + 1 /\ k # 0 /\ k - 1 = m
          BY <3>1
        <4> QED
          BY <3>1, <4>1
      <3>2. CASE k # m + 1 /\ k # 0
        <4>1. k \in 0 .. m /\ k - 1 \in 0 .. m + 1 /\ k - 1 # m + 1
          BY <3>2
        <4>2. g[k] = f[k] /\ g[k - 1] = f[k - 1]
          BY <3>2, <4>1
        <4>3. f[k] = RoomTurn(f[k - 1], cost)
          BY <2>1, <3>2, <4>1 DEF RoomRun
        <4> QED
          BY <3>2, <4>2, <4>3
      <3>3. CASE k = 0
        <4>1. k # m + 1 /\ k \in 0 .. m
          BY <3>3
        <4>2. f[k] = q
          BY <2>1, <3>3, <4>1 DEF RoomRun
        <4> QED
          BY <3>3, <4>1, <4>2
      <3> QED
        BY <3>1, <3>2, <3>3
    <2>3. RoomRun(g, q, cost, m + 1)
      BY <2>2 DEF RoomRun
    <2>4. m + 1 \in Nat
      OBVIOUS
    <2> HIDE DEF g
    <2> QED
      BY <2>3, <2>4
  <1>3. \A m \in Nat : m \in S
    <2> HIDE DEF S
    <2>1. S \in SUBSET Nat
      BY DEF S
    <2> QED
      BY <1>1, <1>2, <2>1, Induct
  <1> QED
    BY <1>3

(* MakeRoom is the end of such a run. *)
LEMMA MakeRoomRuns ==
  ASSUME NEW q, NEW cost, NEW n \in Nat, n = Len(q.queue)
  PROVE  \E f : RoomRun(f, q, cost, n) /\ MakeRoom(q, cost) = f[n]
  <1> DEFINE left == CHOOSE f : f = [k \in 0 .. n |->
                                       IF k = 0 THEN q
                                       ELSE IF f[k - 1].bytes + cost <= Budget THEN f[k - 1]
                                       ELSE PopFront(f[k - 1])]
  <1>1. MakeRoom(q, cost) = left[n]
    BY DEF MakeRoom
  <1>2. PICK f : RoomRun(f, q, cost, n)
    BY RoomTurns
  <1>3. left = [k \in 0 .. n |->
                      IF k = 0 THEN q
                      ELSE IF left[k - 1].bytes + cost <= Budget THEN left[k - 1]
                      ELSE PopFront(left[k - 1])]
    BY <1>2 DEF RoomRun, RoomTurn
  <1> HIDE DEF left
  <1>4. RoomRun(left, q, cost, n)
    BY <1>3 DEF RoomRun, RoomTurn
  <1> QED
    BY <1>1, <1>4

-----------------------------------------------------------------------------
(* The bytes of a queue *)

Cell(s, i) == {i} \X (1 .. s[i].cost)
Cells(s)   == UNION {Cell(s, i) : i \in DOMAIN s}

(* A packet costs a natural number of bytes. *)
LEMMA CostType == \A x \in Items : x.cost \in Nat /\ x.id \in Nat
  <1>1. \A x \in Items : x.cost \in Costs /\ x.id \in 1 .. MaxItems
    BY DEF Items
  <1>2. \A c \in Costs : c \in Nat
    BY CostsAssumption
  <1>3. \A i \in 1 .. MaxItems : i \in Nat
    BY ItemsAssumption
  <1> QED
    BY <1>1, <1>2, <1>3

(* A packet has as many bytes as it costs. *)
LEMMA CellSize ==
  ASSUME NEW i, NEW w \in Nat
  PROVE  IsFiniteSet({i} \X (1 .. w)) /\ Cardinality({i} \X (1 .. w)) = w
  <1>1. IsFiniteSet({i}) /\ Cardinality({i}) = 1
    BY FS_Singleton
  <1>2. IsFiniteSet(1 .. w) /\ Cardinality(1 .. w) = w
    BY FS_Interval
  <1>3. /\ IsFiniteSet({i} \X (1 .. w))
        /\ Cardinality({i} \X (1 .. w)) = Cardinality({i}) * Cardinality(1 .. w)
    BY <1>1, <1>2, FS_Product
  <1> QED
    BY <1>1, <1>2, <1>3

(* The bytes of a queue are finitely many. *)
LEMMA BytesType ==
  ASSUME NEW s \in Seq(Items)
  PROVE  /\ IsFiniteSet(Cells(s)) /\ Bytes(s) = Cardinality(Cells(s)) /\ Bytes(s) \in Nat
  <1> DEFINE D == 1 .. Len(s)
             T == {Cell(s, i) : i \in D}
             f == [i \in D |-> Cell(s, i)]
  <1>0. DOMAIN s = D /\ \A i \in D : s[i] \in Items
    OBVIOUS
  <1>1. f \in Surjection(D, T)
    BY DEF Surjection
  <1>2. IsFiniteSet(D)
    BY FS_Interval
  <1>3. IsFiniteSet(T)
    BY <1>1, <1>2, FS_Surjection
  <1>4. \A i \in D : IsFiniteSet(Cell(s, i))
    BY <1>0, CostType, CellSize DEF Cell
  <1>5. \A t \in T : IsFiniteSet(t)
    BY <1>4
  <1>6. Cells(s) = UNION T
    BY <1>0 DEF Cells
  <1>7. IsFiniteSet(Cells(s))
    BY <1>3, <1>5, <1>6, FS_UNION
  <1>8. Bytes(s) = Cardinality(Cells(s))
    BY DEF Bytes, Cells, Cell
  <1> QED
    BY <1>7, <1>8, FS_CardinalityType

(* An empty queue has no bytes. *)
LEMMA BytesEmpty == Bytes(<< >>) = 0
  <1>1. UNION {{i} \X (1 .. << >>[i].cost) : i \in DOMAIN << >>} = {}
    OBVIOUS
  <1> QED
    BY <1>1, FS_EmptySet DEF Bytes

(* A packet put at the back adds its cost. *)
LEMMA BytesBack ==
  ASSUME NEW s \in Seq(Items), NEW x \in Items
  PROVE  Bytes(Append(s, x)) = Bytes(s) + x.cost
  <1>0. Append(s, x) \in Seq(Items)
    OBVIOUS
  <1>1. PICK t \in Seq(Items) : t = Append(s, x)
    BY <1>0
  <1>2. PICK n \in Nat : n = Len(s)
    OBVIOUS
  <1>3. /\ DOMAIN t = 1 .. n + 1 /\ DOMAIN s = 1 .. n
        /\ \A i \in 1 .. n : t[i] = s[i]
        /\ t[n + 1] = x
    BY <1>1, <1>2
  <1> DEFINE own == {n + 1} \X (1 .. x.cost)
  <1>4. Cells(t) = Cells(s) \cup own
    <2>1. \A c : c \in Cells(t) <=> \E i \in 1 .. n + 1 : c \in {i} \X (1 .. t[i].cost)
      BY <1>3 DEF Cells, Cell
    <2>2. \A c : c \in Cells(s) <=> \E i \in 1 .. n : c \in {i} \X (1 .. s[i].cost)
      BY <1>3 DEF Cells, Cell
    <2>3. \A i : i \in 1 .. n + 1 <=> i \in 1 .. n \/ i = n + 1
      OBVIOUS
    <2>4. \A c : (\E i \in 1 .. n + 1 : c \in {i} \X (1 .. t[i].cost)) <=>
                   \/ \E i \in 1 .. n : c \in {i} \X (1 .. s[i].cost)
                   \/ c \in own
      BY <1>3, <2>3
    <2> HIDE DEF own
    <2> QED
      BY <2>1, <2>2, <2>4
  <1>5. Cells(s) \cap own = {}
    <2>1. \A c \in Cells(s) : c[1] \in 1 .. n
      BY <1>3 DEF Cells, Cell
    <2>2. \A c \in own : c[1] = n + 1
      OBVIOUS
    <2>3. ~(n + 1 \in 1 .. n)
      OBVIOUS
    <2> HIDE DEF own
    <2> QED
      BY <2>1, <2>2, <2>3
  <1>6. IsFiniteSet(own) /\ Cardinality(own) = x.cost /\ x.cost \in Nat
    BY CellSize, CostType
  <1>7. IsFiniteSet(Cells(s)) /\ Cardinality(Cells(s)) \in Nat
    BY BytesType, FS_CardinalityType
  <1> HIDE DEF own
  <1>8. Cardinality(Cells(s) \cup own)
          = Cardinality(Cells(s)) + Cardinality(own) - Cardinality(Cells(s) \cap own)
    BY <1>6, <1>7, FS_Union
  <1>9. Cardinality(Cells(s) \cap own) = 0
    BY <1>5, FS_EmptySet
  <1>10. Bytes(t) = Cardinality(Cells(t)) /\ Bytes(s) = Cardinality(Cells(s))
    BY BytesType
  <1> QED
    BY <1>1, <1>4, <1>6, <1>7, <1>8, <1>9, <1>10

(* A packet put at the front adds its cost. *)
LEMMA BytesFront ==
  ASSUME NEW s \in Seq(Items), NEW x \in Items
  PROVE  Bytes(<<x>> \o s) = Bytes(s) + x.cost
  <1>0. <<x>> \o s \in Seq(Items)
    OBVIOUS
  <1>1. PICK t \in Seq(Items) : t = <<x>> \o s
    BY <1>0
  <1>2. PICK n \in Nat : n = Len(s)
    OBVIOUS
  <1>3. /\ DOMAIN t = 1 .. n + 1 /\ DOMAIN s = 1 .. n
        /\ \A i \in 1 .. n : t[i + 1] = s[i]
        /\ t[1] = x
    BY <1>1, <1>2
  <1> DEFINE own == {1} \X (1 .. x.cost)
             rest == UNION {{i + 1} \X (1 .. s[i].cost) : i \in 1 .. n}
             shift == [c \in Cells(s) |-> <<c[1] + 1, c[2]>>]
  <1>4. Cells(t) = rest \cup own
    <2>1. \A c : c \in Cells(t) <=> \E i \in 1 .. n + 1 : c \in {i} \X (1 .. t[i].cost)
      BY <1>3 DEF Cells, Cell
    <2>2. \A c : c \in rest <=> \E i \in 1 .. n : c \in {i + 1} \X (1 .. s[i].cost)
      OBVIOUS
    <2>3. ASSUME NEW c, NEW i \in 1 .. n + 1, c \in {i} \X (1 .. t[i].cost)
          PROVE  c \in rest \/ c \in own
      <3>1. CASE i = 1
        BY <1>3, <2>3, <3>1
      <3>2. CASE i # 1
        <4>1. i - 1 \in 1 .. n /\ (i - 1) + 1 = i
          BY <3>2
        <4>2. t[i] = s[i - 1]
          BY <1>3, <4>1
        <4> QED
          BY <2>2, <2>3, <4>1, <4>2
      <3> QED
        BY <3>1, <3>2
    <2>4. ASSUME NEW c, NEW i \in 1 .. n, c \in {i + 1} \X (1 .. s[i].cost)
          PROVE  c \in Cells(t)
      <3>1. i + 1 \in 1 .. n + 1 /\ t[i + 1] = s[i]
        BY <1>3
      <3> QED
        BY <2>1, <2>4, <3>1
    <2>5. ASSUME NEW c \in own PROVE c \in Cells(t)
      <3>1. 1 \in 1 .. n + 1 /\ t[1] = x
        BY <1>3
      <3> QED
        BY <2>1, <3>1
    <2> HIDE DEF own, rest
    <2> QED
      BY <2>1, <2>2, <2>3, <2>4, <2>5
  <1>5. rest \cap own = {}
    <2>1. \A i \in 1 .. n : i + 1 # 1
      OBVIOUS
    <2>2. \A c \in rest : c[1] # 1
      BY <2>1
    <2>3. \A c \in own : c[1] = 1
      OBVIOUS
    <2> HIDE DEF own, rest
    <2> QED
      BY <2>2, <2>3
  <1>6. IsFiniteSet(own) /\ Cardinality(own) = x.cost /\ x.cost \in Nat
    BY CellSize, CostType
  <1>7. IsFiniteSet(Cells(s)) /\ Cardinality(Cells(s)) \in Nat
    BY BytesType, FS_CardinalityType
  <1>8. IsFiniteSet(rest) /\ Cardinality(rest) = Cardinality(Cells(s))
    <2>1. \A c \in Cells(s) : \E i \in 1 .. n : \E b \in 1 .. s[i].cost : c = <<i, b>>
      BY <1>3 DEF Cells, Cell
    <2>2. \A i \in 1 .. n : \A b \in 1 .. s[i].cost : <<i, b>> \in Cells(s)
      BY <1>3 DEF Cells, Cell
    <2>3. \A c \in Cells(s) : shift[c] \in rest
      <3> SUFFICES ASSUME NEW c \in Cells(s) PROVE shift[c] \in rest
        OBVIOUS
      <3>0. PICK i \in 1 .. n : \E b \in 1 .. s[i].cost : c = <<i, b>>
        BY <2>1
      <3>1. PICK b \in 1 .. s[i].cost : c = <<i, b>>
        BY <3>0
      <3>2. shift[c] = <<i + 1, b>>
        BY <3>1
      <3> QED
        BY <3>2
    <2>4. \A d \in rest : \E c \in Cells(s) : shift[c] = d
      <3> SUFFICES ASSUME NEW d \in rest PROVE \E c \in Cells(s) : shift[c] = d
        OBVIOUS
      <3>1. PICK i \in 1 .. n : d \in {i + 1} \X (1 .. s[i].cost)
        OBVIOUS
      <3>2. PICK b \in 1 .. s[i].cost : d = <<i + 1, b>>
        BY <3>1
      <3>3. <<i, b>> \in Cells(s) /\ shift[<<i, b>>] = <<i + 1, b>>
        BY <2>2
      <3> QED
        BY <3>2, <3>3
    <2>5. \A c, d \in Cells(s) : shift[c] = shift[d] => c = d
      <3> SUFFICES ASSUME NEW c \in Cells(s), NEW d \in Cells(s), shift[c] = shift[d]
                   PROVE  c = d
        OBVIOUS
      <3>0. PICK i \in 1 .. n : \E b \in 1 .. s[i].cost : c = <<i, b>>
        BY <2>1
      <3>1. PICK b \in 1 .. s[i].cost : c = <<i, b>>
        BY <3>0
      <3>1a. PICK j \in 1 .. n : \E e \in 1 .. s[j].cost : d = <<j, e>>
        BY <2>1
      <3>2. PICK e \in 1 .. s[j].cost : d = <<j, e>>
        BY <3>1a
      <3>3. shift[c] = <<i + 1, b>> /\ shift[d] = <<j + 1, e>>
        BY <3>1, <3>2
      <3>4. i + 1 = j + 1 /\ b = e
        BY <3>3
      <3> QED
        BY <3>1, <3>2, <3>4
    <2>6. shift \in Bijection(Cells(s), rest)
      <3> HIDE DEF rest
      <3>1. shift \in [Cells(s) -> rest]
        BY <2>3
      <3> HIDE DEF shift
      <3> QED
        BY <2>4, <2>5, <3>1 DEF Bijection, Injection, Surjection, IsInjective
    <2> HIDE DEF rest, shift
    <2> QED
      BY <1>7, <2>6, FS_Bijection DEF ExistsBijection
  <1> HIDE DEF own, rest
  <1>9. Cardinality(rest \cup own)
          = Cardinality(rest) + Cardinality(own) - Cardinality(rest \cap own)
    BY <1>6, <1>8, FS_Union
  <1>10. Cardinality(rest \cap own) = 0
    BY <1>5, FS_EmptySet
  <1>11. Bytes(t) = Cardinality(Cells(t)) /\ Bytes(s) = Cardinality(Cells(s))
    BY BytesType
  <1>12. Bytes(t) = Bytes(s) + x.cost
    <2>1. Cardinality(Cells(t)) = Cardinality(Cells(s)) + x.cost - 0
      BY <1>4, <1>6, <1>8, <1>9, <1>10
    <2> QED
      BY <1>6, <1>7, <1>11, <2>1
  <1> QED
    BY <1>1, <1>12

(* A packet taken from the front takes its cost away. *)
LEMMA BytesTail ==
  ASSUME NEW s \in Seq(Items), s # << >>
  PROVE  /\ Tail(s) \in Seq(Items) /\ Head(s) \in Items
         /\ Bytes(Tail(s)) = Bytes(s) - Head(s).cost /\ Head(s).cost \in Nat
         /\ Bytes(Tail(s)) <= Bytes(s)
  <1>0. Tail(s) \in Seq(Items)
    OBVIOUS
  <1>1. PICK t \in Seq(Items) : t = Tail(s)
    BY <1>0
  <1>2. PICK x \in Items : x = Head(s)
    OBVIOUS
  <1>3. s = <<x>> \o t
    BY <1>1, <1>2
  <1>4. Bytes(s) = Bytes(t) + x.cost
    BY <1>3, BytesFront
  <1>5. Bytes(t) \in Nat /\ x.cost \in Nat
    BY BytesType, CostType
  <1>6. Bytes(t) = Bytes(s) - x.cost /\ Bytes(t) <= Bytes(s)
    BY <1>4, <1>5
  <1> QED
    BY <1>1, <1>2, <1>5, <1>6

-----------------------------------------------------------------------------
(* Eviction *)

QStates  == [queue : Seq(Items), bytes : Nat]
Exact(q) == q \in QStates /\ q.bytes = Bytes(q.queue)

(* t is s without its first entries. *)
Suffix(t, s) == \E d \in Nat : Len(s) = Len(t) + d /\ \A i \in 1 .. Len(t) : t[i] = s[d + i]

(* Every queue is a suffix of itself, its tail is, and so is a suffix's suffix. *)
LEMMA SuffixSelf == ASSUME NEW s \in Seq(Items) PROVE Suffix(s, s)
  <1>1. Len(s) = Len(s) + 0 /\ \A i \in 1 .. Len(s) : s[i] = s[0 + i]
    OBVIOUS
  <1> QED
    BY <1>1 DEF Suffix

(* The tail of a queue is a suffix of it. *)
LEMMA SuffixTail ==
  ASSUME NEW s \in Seq(Items), s # << >>
  PROVE  Suffix(Tail(s), s) /\ Tail(s) \in Seq(Items) /\ Len(s) = Len(Tail(s)) + 1
  <1>0. Tail(s) \in Seq(Items)
    OBVIOUS
  <1>1. PICK t \in Seq(Items) : t = Tail(s)
    BY <1>0
  <1>2. Len(s) = Len(t) + 1 /\ \A i \in 1 .. Len(t) : t[i] = s[1 + i]
    BY <1>1
  <1>3. Suffix(t, s)
    BY <1>2 DEF Suffix
  <1> QED
    BY <1>0, <1>1, <1>2, <1>3

(* Suffixes compose. *)
LEMMA SuffixTrans ==
  ASSUME NEW s \in Seq(Items), NEW t \in Seq(Items), NEW u \in Seq(Items),
         Suffix(t, s), Suffix(u, t)
  PROVE  Suffix(u, s)
  <1>1. PICK d \in Nat : Len(s) = Len(t) + d /\ \A i \in 1 .. Len(t) : t[i] = s[d + i]
    BY DEF Suffix
  <1>2. PICK e \in Nat : Len(t) = Len(u) + e /\ \A i \in 1 .. Len(u) : u[i] = t[e + i]
    BY DEF Suffix
  <1>3. Len(s) = Len(u) + (d + e) /\ d + e \in Nat
    BY <1>1, <1>2
  <1>4. ASSUME NEW i \in 1 .. Len(u)
        PROVE  u[i] = s[(d + e) + i]
    <2>1. e + i \in 1 .. Len(t) /\ d + (e + i) = (d + e) + i
      BY <1>2
    <2> QED
      BY <1>1, <1>2, <2>1
  <1> QED
    BY <1>3, <1>4 DEF Suffix

(* pop_tx and pop_rx keep the counter exact. *)
LEMMA PopExact ==
  ASSUME NEW q, Exact(q), q.queue # << >>
  PROVE  /\ Exact(PopFront(q)) /\ PopFront(q).queue = Tail(q.queue)
         /\ PopFront(q).bytes <= q.bytes /\ PopFront(q).bytes = q.bytes - Head(q.queue).cost
         /\ Suffix(PopFront(q).queue, q.queue)
         /\ Len(q.queue) = Len(PopFront(q).queue) + 1
  <1>1. PICK s \in Seq(Items) : s = q.queue
    BY DEF Exact, QStates
  <1>2. PICK t \in Seq(Items) : /\ t = Tail(s) /\ Bytes(t) = Bytes(s) - Head(s).cost
                                /\ Bytes(t) <= Bytes(s)
                                /\ Suffix(t, s) /\ Len(s) = Len(t) + 1
    BY <1>1, BytesTail, SuffixTail
  <1>3. Bytes(t) \in Nat /\ q.bytes = Bytes(s)
    BY <1>1, BytesType DEF Exact
  <1>4. PopFront(q) = [queue |-> t, bytes |-> Bytes(t)]
    BY <1>1, <1>2, <1>3 DEF PopFront
  <1>5. Exact([queue |-> t, bytes |-> Bytes(t)])
    BY <1>3 DEF Exact, QStates
  <1>6. PICK r : r = PopFront(q)
    OBVIOUS
  <1>7. Exact(r) /\ r.queue = t /\ r.bytes = Bytes(t)
    BY <1>4, <1>5, <1>6
  <1>8. /\ r.queue = Tail(q.queue) /\ r.bytes <= q.bytes
        /\ r.bytes = q.bytes - Head(q.queue).cost
        /\ Suffix(r.queue, q.queue) /\ Len(q.queue) = Len(r.queue) + 1
    BY <1>1, <1>2, <1>3, <1>7
  <1> QED
    BY <1>6, <1>7, <1>8

(* An empty queue with an exact counter counts no bytes. *)
LEMMA EmptyExact ==
  ASSUME NEW q, Exact(q), Len(q.queue) = 0
  PROVE  q.bytes = 0
  <1>1. q.queue = << >>
    BY DEF Exact, QStates
  <1> QED
    BY <1>1, BytesEmpty DEF Exact

(***************************************************************************)
(* The loop of enqueue_bounded ends with room for the new item, having     *)
(* dropped nothing but the oldest packets.                                 *)
(***************************************************************************)
LEMMA MakeRoomResult ==
  ASSUME NEW q, Exact(q), NEW cost \in Nat, cost <= Budget
  PROVE  /\ Exact(MakeRoom(q, cost)) /\ MakeRoom(q, cost).bytes + cost <= Budget
         /\ MakeRoom(q, cost).bytes <= q.bytes
         /\ Suffix(MakeRoom(q, cost).queue, q.queue)
  <1> USE BudgetAssumption
  <1>1. PICK n \in Nat : n = Len(q.queue)
    BY DEF Exact, QStates
  <1>2. PICK f : RoomRun(f, q, cost, n) /\ MakeRoom(q, cost) = f[n]
    BY <1>1, MakeRoomRuns
  <1>3. /\ f[0] = q
        /\ \A k \in 0 .. n : k # 0 => f[k] = RoomTurn(f[k - 1], cost)
    BY <1>2 DEF RoomRun
  <1> DEFINE Good(k) == /\ Exact(f[k]) /\ f[k].bytes <= q.bytes
                        /\ Suffix(f[k].queue, q.queue)
                        /\ f[k].bytes + cost <= Budget \/ Len(f[k].queue) = n - k
             S == {k \in Nat : k <= n => Good(k)}
  <1>4. 0 \in S
    <2>1. q.queue \in Seq(Items) /\ q.bytes \in Nat
      BY DEF Exact, QStates
    <2>2. Suffix(q.queue, q.queue)
      BY <2>1, SuffixSelf
    <2> QED
      BY <1>1, <1>3, <2>1, <2>2
  <1>5. ASSUME NEW k \in S PROVE k + 1 \in S
    <2> SUFFICES ASSUME k + 1 <= n PROVE Good(k + 1)
      OBVIOUS
    <2>1. k <= n /\ k + 1 \in 0 .. n /\ k + 1 # 0 /\ (k + 1) - 1 = k
      OBVIOUS
    <2>2. Good(k)
      BY <2>1
    <2>3. f[k + 1] = RoomTurn(f[k], cost)
      BY <1>3, <2>1
    <2>4. CASE f[k].bytes + cost <= Budget
      BY <2>2, <2>3, <2>4 DEF RoomTurn
    <2>5. CASE ~(f[k].bytes + cost <= Budget)
      <3>1. f[k + 1] = PopFront(f[k])
        BY <2>3, <2>5 DEF RoomTurn
      <3>2. Len(f[k].queue) = n - k /\ n - k # 0
        BY <2>1, <2>2, <2>5
      <3>3. f[k].queue \in Seq(Items) /\ f[k].bytes \in Nat
        BY <2>2 DEF Exact, QStates
      <3>4. f[k].queue # << >>
        BY <3>2, <3>3
      <3>5. /\ Exact(f[k + 1]) /\ f[k + 1].bytes <= f[k].bytes
            /\ Suffix(f[k + 1].queue, f[k].queue)
            /\ Len(f[k].queue) = Len(f[k + 1].queue) + 1
        BY <2>2, <3>1, <3>4, PopExact
      <3>6. f[k + 1].queue \in Seq(Items) /\ f[k + 1].bytes \in Nat
            /\ q.queue \in Seq(Items) /\ q.bytes \in Nat
        BY <3>5 DEF Exact, QStates
      <3>7. Suffix(f[k + 1].queue, q.queue)
        BY <2>2, <3>3, <3>5, <3>6, SuffixTrans
      <3>8. Len(f[k + 1].queue) = n - (k + 1)
        BY <3>2, <3>5, <3>6
      <3>9. f[k + 1].bytes <= q.bytes
        BY <2>2, <3>3, <3>5, <3>6
      <3> QED
        BY <3>5, <3>7, <3>8, <3>9
    <2> QED
      BY <2>4, <2>5
  <1>6. Good(n)
    <2> HIDE DEF Good
    <2>1. S \in SUBSET Nat
      OBVIOUS
    <2>2. n \in S
      <3> HIDE DEF S
      <3> QED
        BY <1>4, <1>5, <2>1, Induct
    <2> QED
      BY <2>2
  <1>7. f[n].bytes + cost <= Budget
    <2>1. CASE Len(f[n].queue) = n - n
      <3>1. f[n].bytes = 0
        BY <1>6, <2>1, EmptyExact
      <3> QED
        BY <3>1
    <2> QED
      BY <1>6, <2>1
  <1> QED
    BY <1>2, <1>6, <1>7

(* e is q with x added to what MakeRoom left of it, m, which makes it s. *)
Taken(q, x, m, s, e) ==
    /\ x.cost <= Budget /\ m = MakeRoom(q, x.cost)
    /\ s = <<x>> \o m.queue \/ s = Append(m.queue, x)
    /\ e = [queue |-> s, bytes |-> m.bytes + x.cost]

(* enqueue_bounded taking an item, at either end. *)
LEMMA EnqueueTaken ==
  ASSUME NEW q, Exact(q), NEW x \in Items, NEW m, NEW s, NEW e, Taken(q, x, m, s, e)
  PROVE  /\ Exact(e) /\ e.bytes <= Budget /\ e.queue = s
         /\ m.queue \in Seq(Items) /\ Suffix(m.queue, q.queue)
  <1>0. x.cost \in Nat /\ Budget \in Nat
    BY CostType, BudgetAssumption
  <1>1. Exact(m) /\ m.bytes + x.cost <= Budget /\ Suffix(m.queue, q.queue)
    BY <1>0, MakeRoomResult DEF Taken
  <1>2. PICK r \in Seq(Items) : r = m.queue
    BY <1>1 DEF Exact, QStates
  <1>3. m.bytes \in Nat /\ m.bytes = Bytes(r)
    BY <1>1, <1>2 DEF Exact, QStates
  <1>4. <<x>> \o r \in Seq(Items) /\ Append(r, x) \in Seq(Items)
    OBVIOUS
  <1>5. s \in Seq(Items)
    BY <1>2, <1>4 DEF Taken
  <1>6. Bytes(s) = Bytes(r) + x.cost
    BY <1>2, BytesFront, BytesBack DEF Taken
  <1>7. e = [queue |-> s, bytes |-> Bytes(s)]
    BY <1>3, <1>6 DEF Taken
  <1>8. Bytes(s) \in Nat
    BY <1>5, BytesType
  <1>9. e.queue = s /\ e.bytes = Bytes(s)
    BY <1>7
  <1>10. Exact(e)
    BY <1>5, <1>7, <1>8 DEF Exact, QStates
  <1>11. e.bytes <= Budget
    BY <1>1, <1>3, <1>6, <1>9
  <1> QED
    BY <1>1, <1>2, <1>9, <1>10, <1>11

AtBack(q, x)  == Enqueue(q, x, FALSE)
AtFront(q, x) == Enqueue(q, x, TRUE)

(* enqueue_bounded at the back of a queue that fits into the budget. *)
LEMMA BackResult ==
  ASSUME NEW q, Exact(q), q.bytes <= Budget, NEW x \in Items, NEW e, e = AtBack(q, x)
  PROVE  /\ Exact(e) /\ e.bytes <= Budget
         /\ \/ x.cost > Budget /\ e = q
            \/ /\ x.cost <= Budget
               /\ \E r \in Seq(Items) : Suffix(r, q.queue) /\ e.queue = Append(r, x)
  <1>0. x.cost \in Nat /\ Budget \in Nat
    BY CostType, BudgetAssumption
  <1>1. CASE x.cost > Budget
    <2>1. AtBack(q, x) = q
      BY <1>1 DEF AtBack, Enqueue
    <2> QED
      BY <1>1, <2>1
  <1>2. CASE x.cost <= Budget
    <2>1. PICK m : m = MakeRoom(q, x.cost)
      OBVIOUS
    <2>2. PICK s : s = Append(m.queue, x)
      OBVIOUS
    <2>3. ~(x.cost > Budget)
      BY <1>0, <1>2
    <2>4. AtBack(q, x) = [queue |-> s, bytes |-> m.bytes + x.cost]
      BY <2>1, <2>2, <2>3 DEF AtBack, Enqueue
    <2>5. PICK c : c = [queue |-> s, bytes |-> m.bytes + x.cost]
      OBVIOUS
    <2>6. /\ Exact(c) /\ c.bytes <= Budget /\ c.queue = s
          /\ m.queue \in Seq(Items) /\ Suffix(m.queue, q.queue)
      <3>1. Taken(q, x, m, s, c)
        BY <1>2, <2>1, <2>2, <2>5 DEF Taken
      <3> QED
        BY <3>1, EnqueueTaken
    <2>7. e = c
      BY <2>4, <2>5
    <2> QED
      BY <1>2, <2>2, <2>6, <2>7
  <1> QED
    BY <1>0, <1>1, <1>2

(* enqueue_bounded at the front of a queue that fits into the budget. *)
LEMMA FrontResult ==
  ASSUME NEW q, Exact(q), q.bytes <= Budget, NEW x \in Items, NEW e, e = AtFront(q, x)
  PROVE  /\ Exact(e) /\ e.bytes <= Budget
         /\ \/ x.cost > Budget /\ e = q
            \/ /\ x.cost <= Budget
               /\ \E r \in Seq(Items) : Suffix(r, q.queue) /\ e.queue = <<x>> \o r
  <1>0. x.cost \in Nat /\ Budget \in Nat
    BY CostType, BudgetAssumption
  <1>1. CASE x.cost > Budget
    <2>1. AtFront(q, x) = q
      BY <1>1 DEF AtFront, Enqueue
    <2> QED
      BY <1>1, <2>1
  <1>2. CASE x.cost <= Budget
    <2>1. PICK m : m = MakeRoom(q, x.cost)
      OBVIOUS
    <2>2. PICK s : s = <<x>> \o m.queue
      OBVIOUS
    <2>3. ~(x.cost > Budget)
      BY <1>0, <1>2
    <2>4. AtFront(q, x) = [queue |-> s, bytes |-> m.bytes + x.cost]
      BY <2>1, <2>2, <2>3 DEF AtFront, Enqueue
    <2>5. PICK c : c = [queue |-> s, bytes |-> m.bytes + x.cost]
      OBVIOUS
    <2>6. /\ Exact(c) /\ c.bytes <= Budget /\ c.queue = s
          /\ m.queue \in Seq(Items) /\ Suffix(m.queue, q.queue)
      <3>1. Taken(q, x, m, s, c)
        BY <1>2, <2>1, <2>2, <2>5 DEF Taken
      <3> QED
        BY <3>1, EnqueueTaken
    <2>7. e = c
      BY <2>4, <2>5
    <2> QED
      BY <1>2, <2>2, <2>6, <2>7
  <1> QED
    BY <1>0, <1>1, <1>2

-----------------------------------------------------------------------------
(* Sharing the budget *)

Pairs     == [rx : QStates, tx : QStates]
Sound(p)  == p \in Pairs /\ Exact(p.rx) /\ Exact(p.tx)
LastIs(s, x) == s # << >> /\ s[Len(s)] = x

(* f[k] is the pair p after k turns of the loop, up to n. *)
EvictRun(f, p, n) ==
    f = [k \in 0 .. n |-> IF k = 0 THEN p ELSE EvictLarger(f[k - 1])]

(* The loop of enforce_shared_queue_budget can be run for any number of turns. *)
LEMMA EvictTurns ==
  ASSUME NEW p, NEW n \in Nat
  PROVE  \E f : EvictRun(f, p, n)
  <1> DEFINE S == {m \in Nat : \E f : EvictRun(f, p, m)}
  <1>1. 0 \in S
    <2> DEFINE f == [k \in 0 .. 0 |-> p]
    <2>1. \A k \in 0 .. 0 : k = 0
      OBVIOUS
    <2>2. EvictRun(f, p, 0)
      BY <2>1 DEF EvictRun
    <2> QED
      BY <2>2
  <1>2. ASSUME NEW m \in S PROVE m + 1 \in S
    <2>1. PICK f : EvictRun(f, p, m)
      OBVIOUS
    <2> DEFINE g == [k \in 0 .. m + 1 |-> IF k = m + 1 THEN EvictLarger(f[m]) ELSE f[k]]
    <2>2. \A k \in 0 .. m + 1 : g[k] = IF k = 0 THEN p ELSE EvictLarger(g[k - 1])
      <3> TAKE k \in 0 .. m + 1
      <3>1. CASE k = m + 1
        <4>1. m \in 0 .. m + 1 /\ m # m + 1 /\ k # 0 /\ k - 1 = m
          BY <3>1
        <4> QED
          BY <3>1, <4>1
      <3>2. CASE k # m + 1 /\ k # 0
        <4>1. k \in 0 .. m /\ k - 1 \in 0 .. m + 1 /\ k - 1 # m + 1
          BY <3>2
        <4>2. g[k] = f[k] /\ g[k - 1] = f[k - 1]
          BY <3>2, <4>1
        <4>3. f[k] = EvictLarger(f[k - 1])
          BY <2>1, <3>2, <4>1 DEF EvictRun
        <4> QED
          BY <3>2, <4>2, <4>3
      <3>3. CASE k = 0
        <4>1. k # m + 1 /\ k \in 0 .. m
          BY <3>3
        <4>2. f[k] = p
          BY <2>1, <3>3, <4>1 DEF EvictRun
        <4> QED
          BY <3>3, <4>1, <4>2
      <3> QED
        BY <3>1, <3>2, <3>3
    <2>3. EvictRun(g, p, m + 1)
      BY <2>2 DEF EvictRun
    <2>4. m + 1 \in Nat
      OBVIOUS
    <2> HIDE DEF g
    <2> QED
      BY <2>3, <2>4
  <1>3. \A m \in Nat : m \in S
    <2> HIDE DEF S
    <2>1. S \in SUBSET Nat
      BY DEF S
    <2> QED
      BY <1>1, <1>2, <2>1, Induct
  <1> QED
    BY <1>3

(* Enforce is the end of such a run. *)
LEMMA EnforceRuns ==
  ASSUME NEW p, NEW n \in Nat, n = Len(p.rx.queue) + Len(p.tx.queue)
  PROVE  \E f : EvictRun(f, p, n) /\ Enforce(p) = f[n]
  <1> DEFINE left == CHOOSE f : f = [k \in 0 .. n |->
                                       IF k = 0 THEN p ELSE EvictLarger(f[k - 1])]
  <1>1. Enforce(p) = left[n]
    BY DEF Enforce
  <1>2. PICK f : EvictRun(f, p, n)
    BY EvictTurns
  <1>3. left = [k \in 0 .. n |-> IF k = 0 THEN p ELSE EvictLarger(left[k - 1])]
    BY <1>2 DEF EvictRun
  <1> HIDE DEF left
  <1>4. EvictRun(left, p, n)
    BY <1>3 DEF EvictRun
  <1> QED
    BY <1>1, <1>4

(* The last entry of a queue outlives all but the last eviction. *)
LEMMA LastOfSuffix ==
  ASSUME NEW s \in Seq(Items), NEW t \in Seq(Items), NEW x,
         Suffix(t, s), LastIs(s, x), t # << >>
  PROVE  LastIs(t, x)
  <1>1. PICK d \in Nat : Len(s) = Len(t) + d /\ \A i \in 1 .. Len(t) : t[i] = s[d + i]
    BY DEF Suffix
  <1>2. Len(t) \in 1 .. Len(t) /\ d + Len(t) = Len(s)
    BY <1>1
  <1>3. t[Len(t)] = s[Len(s)]
    BY <1>1, <1>2
  <1> QED
    BY <1>3 DEF LastIs

(* An only packet is all the bytes there are. *)
LEMMA OnlyBytes ==
  ASSUME NEW q, Exact(q), NEW x, LastIs(q.queue, x), Tail(q.queue) = << >>
  PROVE  q.bytes = x.cost /\ x.cost \in Nat
  <1>1. PICK s \in Seq(Items) : s = q.queue
    BY DEF Exact, QStates
  <1>2. s # << >> /\ s[Len(s)] = x
    BY <1>1 DEF LastIs
  <1>2a. Tail(s) = << >>
    BY <1>1
  <1>2b. Len(s) = Len(Tail(s)) + 1 /\ Len(Tail(s)) = 0
    BY <1>2, <1>2a, SuffixTail
  <1>3. Len(s) = 1
    BY <1>2b
  <1>4. Head(s) = x
    BY <1>2, <1>3
  <1>5. /\ Bytes(Tail(s)) = Bytes(s) - Head(s).cost /\ Head(s).cost \in Nat
        /\ Bytes(s) \in Nat
    BY <1>2, BytesTail, BytesType
  <1>6. Bytes(Tail(s)) = 0
    BY <1>1, BytesEmpty
  <1> QED
    BY <1>1, <1>4, <1>5, <1>6 DEF Exact

(* A pair of queues is put together from its queues. *)
LEMMA SoundPair ==
  ASSUME NEW a, Exact(a), NEW b, Exact(b)
  PROVE  LET p == [rx |-> a, tx |-> b] IN Sound(p) /\ p.rx = a /\ p.tx = b
  <1>1. a \in QStates /\ b \in QStates
    BY DEF Exact
  <1>2. [rx |-> a, tx |-> b] \in Pairs
    BY <1>1 DEF Pairs
  <1> QED
    BY <1>2 DEF Sound

(* Replacing one queue of a pair. *)
LEMMA ReplaceOne ==
  ASSUME NEW p, Sound(p), NEW q, Exact(q)
  PROVE  /\ Sound([p EXCEPT !.rx = q]) /\ [p EXCEPT !.rx = q].rx = q
         /\ [p EXCEPT !.rx = q].tx = p.tx
         /\ Sound([p EXCEPT !.tx = q]) /\ [p EXCEPT !.tx = q].tx = q
         /\ [p EXCEPT !.tx = q].rx = p.rx
  <1>1. p \in [rx : QStates, tx : QStates] /\ q \in QStates
    BY DEF Sound, Pairs, Exact
  <1>2. /\ [p EXCEPT !.rx = q] = [rx |-> q, tx |-> p.tx]
        /\ [p EXCEPT !.tx = q] = [rx |-> p.rx, tx |-> q]
    BY <1>1
  <1>3. Exact(p.rx) /\ Exact(p.tx)
    BY DEF Sound
  <1> QED
    BY <1>2, <1>3, SoundPair

Sum(p)      == p.rx.bytes + p.tx.bytes
Lens(p)     == Len(p.rx.queue) + Len(p.tx.queue)
Shrunk(r, p) == /\ Suffix(r.rx.queue, p.rx.queue)
                /\ Suffix(r.tx.queue, p.tx.queue)

(* The number of queued packets. *)
LEMMA LensType ==
  ASSUME NEW p, Sound(p)
  PROVE  /\ Len(p.rx.queue) + Len(p.tx.queue) \in Nat /\ Lens(p) \in Nat
         /\ Lens(p) = 0 => Len(p.rx.queue) = 0 /\ Len(p.tx.queue) = 0
  <1>1. p.rx.queue \in Seq(Items) /\ p.tx.queue \in Seq(Items)
    BY DEF Sound, Exact, QStates
  <1>2. PICK a \in Nat : a = Len(p.rx.queue)
    BY <1>1
  <1>3. PICK b \in Nat : b = Len(p.tx.queue)
    BY <1>1
  <1>4. Lens(p) = a + b /\ Len(p.rx.queue) + Len(p.tx.queue) = a + b
    BY <1>2, <1>3 DEF Lens
  <1>5. a + b \in Nat /\ (a + b = 0 => a = 0 /\ b = 0)
    OBVIOUS
  <1> QED
    BY <1>2, <1>3, <1>4, <1>5

(***************************************************************************)
(* A turn of enforce_shared_queue_budget keeps the counters exact, drops   *)
(* from the front only, makes progress while the budget is exceeded, and   *)
(* never takes the last packet of a queue if two of that size fit.         *)
(***************************************************************************)
LEMMA EvictStep ==
  ASSUME NEW p, Sound(p), NEW r, r = EvictLarger(p)
  PROVE  /\ Sound(r) /\ Shrunk(r, p)
         /\ r = p \/ Lens(p) = Lens(r) + 1
         /\ r = p => Sum(p) <= Budget \/ Lens(p) = 0
         /\ \A x : 2 * x.cost <= Budget =>
              /\ LastIs(p.rx.queue, x) => LastIs(r.rx.queue, x)
              /\ LastIs(p.tx.queue, x) => LastIs(r.tx.queue, x)
  <1>0. /\ Exact(p.rx) /\ Exact(p.tx) /\ Budget \in Nat
        /\ p.rx.queue \in Seq(Items) /\ p.tx.queue \in Seq(Items)
        /\ p.rx.bytes \in Nat /\ p.tx.bytes \in Nat
    BY BudgetAssumption DEF Sound, Exact, QStates
  <1>1. Suffix(p.rx.queue, p.rx.queue) /\ Suffix(p.tx.queue, p.tx.queue)
    BY <1>0, SuffixSelf
  <1>2. CASE Sum(p) <= Budget
    <2>1. r = p
      BY <1>2 DEF EvictLarger, Sum
    <2> QED
      BY <1>1, <1>2, <2>1 DEF Shrunk
  <1>3. CASE /\ ~(Sum(p) <= Budget)
             /\ p.rx.queue # << >> /\ (p.tx.queue = << >> \/ p.rx.bytes >= p.tx.bytes)
    <2>1. r = [p EXCEPT !.rx = PopFront(p.rx)]
      BY <1>3 DEF EvictLarger, Sum
    <2>2. PICK q : q = PopFront(p.rx)
      OBVIOUS
    <2>3. /\ Exact(q) /\ q.queue = Tail(p.rx.queue) /\ Suffix(q.queue, p.rx.queue)
          /\ Len(p.rx.queue) = Len(q.queue) + 1
      BY <1>0, <1>3, <2>2, PopExact
    <2>3a. r = [p EXCEPT !.rx = q]
      BY <2>1, <2>2
    <2>4. Sound(r) /\ r.rx = q /\ r.tx = p.tx
      <3>1. /\ Sound([p EXCEPT !.rx = q]) /\ [p EXCEPT !.rx = q].rx = q
            /\ [p EXCEPT !.rx = q].tx = p.tx
        BY <2>3, ReplaceOne
      <3> QED
        BY <2>3a, <3>1
    <2>5. Shrunk(r, p)
      BY <1>1, <2>3, <2>4 DEF Shrunk
    <2>6. q.queue \in Seq(Items)
      BY <2>3 DEF Exact, QStates
    <2>7. Lens(p) = Lens(r) + 1 /\ Lens(p) # Lens(r)
      <3>1. PICK a \in Nat : a = Len(q.queue)
        BY <2>6
      <3>2. PICK b \in Nat : b = Len(p.tx.queue)
        BY <1>0
      <3>3. Lens(p) = (a + 1) + b /\ Lens(r) = a + b
        BY <2>3, <2>4, <3>1, <3>2 DEF Lens
      <3> QED
        BY <3>3
    <2>8. ASSUME NEW x, 2 * x.cost <= Budget, LastIs(p.rx.queue, x)
          PROVE  LastIs(r.rx.queue, x)
      <3>1. CASE q.queue # << >>
        BY <1>0, <2>3, <2>4, <2>6, <2>8, <3>1, LastOfSuffix
      <3>2. CASE q.queue = << >>
        <4>1. p.rx.bytes = x.cost /\ x.cost \in Nat
          BY <1>0, <2>3, <2>8, <3>2, OnlyBytes
        <4>2. p.tx.queue = << >> => p.tx.bytes = 0
          BY <1>0, EmptyExact
        <4>3. p.tx.bytes <= p.rx.bytes
          BY <1>0, <1>3, <4>2
        <4>4. p.rx.bytes + p.tx.bytes <= Budget
          BY <1>0, <2>8, <4>1, <4>3
        <4> QED
          BY <1>3, <4>4 DEF Sum
      <3> QED
        BY <3>1, <3>2
    <2>9. r # p
      BY <2>7
    <2> QED
      BY <2>4, <2>5, <2>7, <2>8, <2>9
  <1>4. CASE /\ ~(Sum(p) <= Budget)
             /\ ~(p.rx.queue # << >> /\ (p.tx.queue = << >> \/ p.rx.bytes >= p.tx.bytes))
             /\ p.tx.queue # << >>
    <2>1. r = [p EXCEPT !.tx = PopFront(p.tx)]
      BY <1>4 DEF EvictLarger, Sum
    <2>2. PICK q : q = PopFront(p.tx)
      OBVIOUS
    <2>3. /\ Exact(q) /\ q.queue = Tail(p.tx.queue) /\ Suffix(q.queue, p.tx.queue)
          /\ Len(p.tx.queue) = Len(q.queue) + 1
      BY <1>0, <1>4, <2>2, PopExact
    <2>3a. r = [p EXCEPT !.tx = q]
      BY <2>1, <2>2
    <2>4. Sound(r) /\ r.tx = q /\ r.rx = p.rx
      <3>1. /\ Sound([p EXCEPT !.tx = q]) /\ [p EXCEPT !.tx = q].tx = q
            /\ [p EXCEPT !.tx = q].rx = p.rx
        BY <2>3, ReplaceOne
      <3> QED
        BY <2>3a, <3>1
    <2>5. Shrunk(r, p)
      BY <1>1, <2>3, <2>4 DEF Shrunk
    <2>6. q.queue \in Seq(Items)
      BY <2>3 DEF Exact, QStates
    <2>7. Lens(p) = Lens(r) + 1 /\ Lens(p) # Lens(r)
      <3>1. PICK a \in Nat : a = Len(q.queue)
        BY <2>6
      <3>2. PICK b \in Nat : b = Len(p.rx.queue)
        BY <1>0
      <3>3. Lens(p) = b + (a + 1) /\ Lens(r) = b + a
        BY <2>3, <2>4, <3>1, <3>2 DEF Lens
      <3> QED
        BY <3>3
    <2>8. ASSUME NEW x, 2 * x.cost <= Budget, LastIs(p.tx.queue, x)
          PROVE  LastIs(r.tx.queue, x)
      <3>1. CASE q.queue # << >>
        BY <1>0, <2>3, <2>4, <2>6, <2>8, <3>1, LastOfSuffix
      <3>2. CASE q.queue = << >>
        <4>1. p.tx.bytes = x.cost /\ x.cost \in Nat
          BY <1>0, <2>3, <2>8, <3>2, OnlyBytes
        <4>2. p.rx.queue = << >> => p.rx.bytes = 0
          BY <1>0, EmptyExact
        <4>3. p.rx.bytes <= p.tx.bytes
          BY <1>0, <1>4, <4>2
        <4>4. p.rx.bytes + p.tx.bytes <= Budget
          BY <1>0, <2>8, <4>1, <4>3
        <4> QED
          BY <1>4, <4>4 DEF Sum
      <3> QED
        BY <3>1, <3>2
    <2>9. r # p
      BY <2>7
    <2> QED
      BY <2>4, <2>5, <2>7, <2>8, <2>9
  <1>5. CASE ~(Sum(p) <= Budget) /\ p.rx.queue = << >> /\ p.tx.queue = << >>
    <2>1. r = p
      BY <1>5 DEF EvictLarger, Sum
    <2>2. Lens(p) = 0
      BY <1>5 DEF Lens
    <2> QED
      BY <1>1, <2>1, <2>2 DEF Shrunk
  <1> QED
    BY <1>2, <1>3, <1>4, <1>5

(***************************************************************************)
(* enforce_shared_queue_budget: the two queues fit into the budget, only   *)
(* the oldest packets are gone, and a packet that came last stays if two   *)
(* of its size fit.                                                        *)
(***************************************************************************)
LEMMA EnforceResult ==
  ASSUME NEW p, Sound(p), NEW r, r = Enforce(p)
  PROVE  /\ Sound(r) /\ Shrunk(r, p) /\ Sum(r) <= Budget
         /\ \A x : 2 * x.cost <= Budget =>
              /\ LastIs(p.rx.queue, x) => LastIs(r.rx.queue, x)
              /\ LastIs(p.tx.queue, x) => LastIs(r.tx.queue, x)
  <1>0. /\ p.rx.queue \in Seq(Items) /\ p.tx.queue \in Seq(Items) /\ Budget \in Nat
        /\ Exact(p.rx) /\ Exact(p.tx)
    BY BudgetAssumption DEF Sound, Exact, QStates
  <1>1. PICK n \in Nat : n = Len(p.rx.queue) + Len(p.tx.queue)
    BY LensType
  <1>2. PICK f : EvictRun(f, p, n) /\ Enforce(p) = f[n]
    BY <1>1, EnforceRuns
  <1>3. /\ f[0] = p
        /\ \A k \in 0 .. n : k # 0 => f[k] = EvictLarger(f[k - 1])
    BY <1>2 DEF EvictRun
  <1> DEFINE Keeps(t) == \A x : 2 * x.cost <= Budget =>
                           /\ LastIs(p.rx.queue, x) => LastIs(t.rx.queue, x)
                           /\ LastIs(p.tx.queue, x) => LastIs(t.tx.queue, x)
             Good(k) == /\ Sound(f[k]) /\ Shrunk(f[k], p) /\ Keeps(f[k])
                        /\ Sum(f[k]) <= Budget \/ Lens(f[k]) = n - k \/ Lens(f[k]) = 0
             S == {k \in Nat : k <= n => Good(k)}
  <1>4. 0 \in S
    <2>1. Shrunk(p, p)
      BY <1>0, SuffixSelf DEF Shrunk
    <2>2. Lens(p) = n - 0
      BY <1>1 DEF Lens
    <2>3. Keeps(p)
      OBVIOUS
    <2> HIDE DEF Keeps
    <2> QED
      BY <1>3, <2>1, <2>2, <2>3
  <1>5. ASSUME NEW k \in S PROVE k + 1 \in S
    <2> SUFFICES ASSUME k + 1 <= n PROVE Good(k + 1)
      OBVIOUS
    <2>1. k <= n /\ k + 1 \in 0 .. n /\ k + 1 # 0 /\ (k + 1) - 1 = k
      OBVIOUS
    <2>2. /\ Sound(f[k]) /\ Shrunk(f[k], p) /\ Keeps(f[k])
          /\ Sum(f[k]) <= Budget \/ Lens(f[k]) = n - k \/ Lens(f[k]) = 0
      BY <2>1
    <2>3. f[k + 1] = EvictLarger(f[k])
      BY <1>3, <2>1
    <2>4. PICK a : a = f[k]
      OBVIOUS
    <2>5. PICK b : b = f[k + 1]
      OBVIOUS
    <2>6. b = EvictLarger(a) /\ Sound(a)
      BY <2>2, <2>3, <2>4, <2>5
    <2>7. /\ Sound(b) /\ Shrunk(b, a)
          /\ b = a \/ Lens(a) = Lens(b) + 1
          /\ b = a => Sum(a) <= Budget \/ Lens(a) = 0
          /\ \A x : 2 * x.cost <= Budget =>
              /\ LastIs(a.rx.queue, x) => LastIs(b.rx.queue, x)
              /\ LastIs(a.tx.queue, x) => LastIs(b.tx.queue, x)
      BY <2>6, EvictStep
    <2>8. Keeps(b)
      BY <2>2, <2>4, <2>7
    <2>9. /\ a.rx.queue \in Seq(Items) /\ a.tx.queue \in Seq(Items)
          /\ b.rx.queue \in Seq(Items) /\ b.tx.queue \in Seq(Items)
          /\ a.rx.bytes \in Nat /\ a.tx.bytes \in Nat
      BY <2>6, <2>7 DEF Sound, Exact, QStates
    <2>10. Shrunk(b, p)
      <3>1. Suffix(a.rx.queue, p.rx.queue) /\ Suffix(a.tx.queue, p.tx.queue)
        BY <2>2, <2>4 DEF Shrunk
      <3>2. Suffix(b.rx.queue, a.rx.queue) /\ Suffix(b.tx.queue, a.tx.queue)
        BY <2>7 DEF Shrunk
      <3>3. Suffix(b.rx.queue, p.rx.queue)
        BY <1>0, <2>9, <3>1, <3>2, SuffixTrans
      <3>4. Suffix(b.tx.queue, p.tx.queue)
        BY <1>0, <2>9, <3>1, <3>2, SuffixTrans
      <3> QED
        BY <3>3, <3>4 DEF Shrunk
    <2>11. Sum(b) <= Budget \/ Lens(b) = n - (k + 1) \/ Lens(b) = 0
      <3>1. CASE b = a
        BY <2>7, <3>1
      <3>2. CASE b # a
        <4>1. Lens(a) = Lens(b) + 1
          BY <2>7, <3>2
        <4>2. Lens(a) \in Nat /\ Lens(b) \in Nat
          BY <2>6, <2>7, LensType
        <4>3. CASE Lens(a) = n - k
          BY <2>1, <4>1, <4>2, <4>3
        <4>4. CASE Lens(a) = 0
          BY <4>1, <4>2, <4>4
        <4>5. CASE Sum(a) <= Budget
          <5>1. b = a
            BY <2>6, <4>5 DEF EvictLarger, Sum
          <5> QED
            BY <3>2, <5>1
        <4> QED
          BY <2>2, <2>4, <4>3, <4>4, <4>5
      <3> QED
        BY <3>1, <3>2
    <2> HIDE DEF Keeps
    <2> QED
      BY <2>5, <2>7, <2>8, <2>10, <2>11
  <1>6. Good(n)
    <2> HIDE DEF Good
    <2>1. S \in SUBSET Nat
      OBVIOUS
    <2>2. n \in S
      <3> HIDE DEF S
      <3> QED
        BY <1>4, <1>5, <2>1, Induct
    <2> QED
      BY <2>2
  <1>7. Sound(r) /\ Shrunk(r, p) /\ Keeps(r) /\ (Sum(r) <= Budget \/ Lens(r) = 0)
    <2>1. n - n = 0
      OBVIOUS
    <2> HIDE DEF Keeps
    <2> QED
      BY <1>2, <1>6, <2>1
  <1>8. Sum(r) <= Budget
    <2>1. CASE Lens(r) = 0
      <3>1. Exact(r.rx) /\ Exact(r.tx) /\ r.rx.queue \in Seq(Items) /\ r.tx.queue \in Seq(Items)
        BY <1>7 DEF Sound, Exact, QStates
      <3>2. Len(r.rx.queue) = 0 /\ Len(r.tx.queue) = 0
        BY <1>7, <2>1, LensType
      <3>5. r.rx.bytes = 0 /\ r.tx.bytes = 0
        BY <3>1, <3>2, EmptyExact
      <3> QED
        BY <1>0, <3>5 DEF Sum
    <2> QED
      BY <1>7, <2>1
  <1> QED
    BY <1>7, <1>8

-----------------------------------------------------------------------------
(* Order *)

(* The packets of a other than control packets were made before those of b. *)
Before(a, b) ==
    \A i \in DOMAIN a, j \in DOMAIN b :
       ~a[i].control /\ ~b[j].control => a[i].id < b[j].id

(* The packets of s other than control packets are in the order they were made. *)
Ordered(s) ==
    \A i, j \in DOMAIN s :
       i < j /\ ~s[i].control /\ ~s[j].control => s[i].id < s[j].id

(* No packet of s is newer than the n-th. *)
UpTo(s, n) == \A i \in DOMAIN s : s[i].id <= n

(* The entries of a suffix are entries of the queue. *)
LEMMA SuffixEntries ==
  ASSUME NEW s \in Seq(Items), NEW t \in Seq(Items), Suffix(t, s)
  PROVE  /\ \A i \in DOMAIN t : \E k \in DOMAIN s : t[i] = s[k]
         /\ Ordered(s) => Ordered(t)
         /\ \A n : UpTo(s, n) => UpTo(t, n)
         /\ \A a : Before(a, s) => Before(a, t)
         /\ \A a : Before(s, a) => Before(t, a)
  <1>1. PICK d \in Nat : Len(s) = Len(t) + d /\ \A i \in 1 .. Len(t) : t[i] = s[d + i]
    BY DEF Suffix
  <1>2. DOMAIN s = 1 .. Len(s) /\ DOMAIN t = 1 .. Len(t) /\ Len(s) \in Nat /\ Len(t) \in Nat
    OBVIOUS
  <1>3. \A i \in DOMAIN t : d + i \in DOMAIN s /\ t[i] = s[d + i]
    BY <1>1, <1>2
  <1>4. \A i, j \in DOMAIN t : i < j => d + i < d + j
    BY <1>2
  <1>5. Ordered(s) => Ordered(t)
    BY <1>3, <1>4 DEF Ordered
  <1>6. \A n : UpTo(s, n) => UpTo(t, n)
    BY <1>3 DEF UpTo
  <1>7. \A a : Before(a, s) => Before(a, t)
    BY <1>3 DEF Before
  <1>8. \A a : Before(s, a) => Before(t, a)
    BY <1>3 DEF Before
  <1> QED
    BY <1>3, <1>5, <1>6, <1>7, <1>8

(* A concatenation is in order if its parts are and the first precedes the second. *)
LEMMA OrderedConcat ==
  ASSUME NEW a \in Seq(Items), NEW b \in Seq(Items)
  PROVE  /\ a \o b \in Seq(Items)
         /\ Ordered(a) /\ Ordered(b) /\ Before(a, b) => Ordered(a \o b)
         /\ \A n : UpTo(a, n) /\ UpTo(b, n) => UpTo(a \o b, n)
         /\ \A c : Before(a, c) /\ Before(b, c) => Before(a \o b, c)
         /\ \A c : Before(c, a) /\ Before(c, b) => Before(c, a \o b)
  <1>0. a \o b \in Seq(Items)
    OBVIOUS
  <1>1. PICK t \in Seq(Items) : t = a \o b
    BY <1>0
  <1>2. PICK n \in Nat : n = Len(a)
    OBVIOUS
  <1>3. PICK m \in Nat : m = Len(b)
    OBVIOUS
  <1>4. DOMAIN a = 1 .. n /\ DOMAIN b = 1 .. m /\ DOMAIN t = 1 .. n + m
    BY <1>1, <1>2, <1>3
  <1>5. /\ \A i \in 1 .. n : t[i] = a[i]
        /\ \A i \in 1 .. n + m : i > n => t[i] = b[i - n]
    BY <1>1, <1>2, <1>3
  <1>6. \A i \in DOMAIN t : \/ i \in DOMAIN a /\ t[i] = a[i]
                            \/ i > n /\ i - n \in DOMAIN b /\ t[i] = b[i - n]
    BY <1>4, <1>5
  <1>7. ASSUME Ordered(a), Ordered(b), Before(a, b)
        PROVE  Ordered(t)
    <2> SUFFICES ASSUME NEW i \in DOMAIN t, NEW j \in DOMAIN t, i < j,
                        ~t[i].control, ~t[j].control
                 PROVE  t[i].id < t[j].id
      BY DEF Ordered
    <2>1. CASE j \in DOMAIN a /\ t[j] = a[j]
      <3>1. i \in DOMAIN a /\ t[i] = a[i]
        BY <1>4, <1>5, <2>1
      <3> QED
        BY <1>7, <2>1, <3>1 DEF Ordered
    <2>2. CASE j > n /\ j - n \in DOMAIN b /\ t[j] = b[j - n]
      <3>1. CASE i \in DOMAIN a /\ t[i] = a[i]
        BY <1>7, <2>2, <3>1 DEF Before
      <3>2. CASE i > n /\ i - n \in DOMAIN b /\ t[i] = b[i - n]
        <4>1. i - n < j - n
          BY <1>4
        <4> QED
          BY <1>7, <2>2, <3>2, <4>1 DEF Ordered
      <3> QED
        BY <1>6, <3>1, <3>2
    <2> QED
      BY <1>6, <2>1, <2>2
  <1>8. \A k : UpTo(a, k) /\ UpTo(b, k) => UpTo(t, k)
    BY <1>6 DEF UpTo
  <1>9. \A c : Before(a, c) /\ Before(b, c) => Before(t, c)
    BY <1>6 DEF Before
  <1>10. \A c : Before(c, a) /\ Before(c, b) => Before(c, t)
    BY <1>6 DEF Before
  <1> QED
    BY <1>0, <1>1, <1>7, <1>8, <1>9, <1>10

(***************************************************************************)
(* What has been sent (tr), what is being sent (it) and what waits (q) are *)
(* in order, and none of it is newer than the n-th packet.                 *)
(***************************************************************************)
LineOk(tr, it, q, n) ==
    /\ Ordered(tr) /\ Ordered(it) /\ Ordered(q)
    /\ Before(tr, it) /\ Before(tr, q) /\ Before(it, q)
    /\ UpTo(tr, n) /\ UpTo(it, n) /\ UpTo(q, n)

(* A single packet is in order. *)
LEMMA OneEntry ==
  ASSUME NEW x \in Items
  PROVE  /\ <<x>> \in Seq(Items) /\ DOMAIN <<x>> = {1} /\ <<x>>[1] = x /\ Ordered(<<x>>)
  <1>1. DOMAIN <<x>> = {1} /\ <<x>>[1] = x /\ <<x>> \in Seq(Items)
    OBVIOUS
  <1>2. ~(1 < 1)
    OBVIOUS
  <1> QED
    BY <1>1, <1>2 DEF Ordered

(* Nothing is in order with everything. *)
LEMMA NoEntry ==
  /\ << >> \in Seq(Items) /\ Ordered(<< >>)
  /\ \A n : UpTo(<< >>, n)
  /\ \A a : Before(a, << >>) /\ Before(<< >>, a)
  BY DEF Ordered, UpTo, Before

(* Dropping the oldest waiting packets keeps the line in order. *)
LEMMA LineSuffix ==
  ASSUME NEW tr, NEW it, NEW s \in Seq(Items), NEW t \in Seq(Items), NEW n,
         LineOk(tr, it, s, n), Suffix(t, s)
  PROVE  LineOk(tr, it, t, n)
  <1>1. /\ Ordered(s) => Ordered(t)
        /\ UpTo(s, n) => UpTo(t, n)
        /\ Before(tr, s) => Before(tr, t)
        /\ Before(it, s) => Before(it, t)
    BY SuffixEntries
  <1> QED
    BY <1>1 DEF LineOk

(* More packets may have been made. *)
LEMMA LineMore ==
  ASSUME NEW tr \in Seq(Items), NEW it \in Seq(Items), NEW q \in Seq(Items),
         NEW n \in Nat, LineOk(tr, it, q, n)
  PROVE  LineOk(tr, it, q, n + 1)
  <1>1. \A s \in Seq(Items) : UpTo(s, n) => UpTo(s, n + 1)
    <2> SUFFICES ASSUME NEW s \in Seq(Items), UpTo(s, n), NEW i \in DOMAIN s
                 PROVE  s[i].id <= n + 1
      BY DEF UpTo
    <2>1. s[i] \in Items /\ s[i].id <= n
      BY DEF UpTo
    <2>2. s[i].id \in Nat
      BY <2>1, CostType
    <2> QED
      BY <2>1, <2>2
  <1>2. UpTo(tr, n + 1) /\ UpTo(it, n + 1) /\ UpTo(q, n + 1)
    BY <1>1 DEF LineOk
  <1> QED
    BY <1>2 DEF LineOk

(* All of a line of n packets is older than the next one. *)
LEMMA BeforeNext ==
  ASSUME NEW s \in Seq(Items), NEW x \in Items, NEW n \in Nat, UpTo(s, n), x.id = n + 1
  PROVE  Before(s, <<x>>)
  <1> SUFFICES ASSUME NEW i \in DOMAIN s, NEW j \in DOMAIN <<x>>
               PROVE  s[i].id < <<x>>[j].id
    BY DEF Before
  <1>1. <<x>>[j] = x
    BY OneEntry
  <1>2. s[i] \in Items /\ s[i].id <= n
    BY DEF UpTo
  <1>3. s[i].id \in Nat
    BY <1>2, CostType
  <1> QED
    BY <1>1, <1>2, <1>3

(* The next packet at the back of the queue. *)
LEMMA LineBack ==
  ASSUME NEW tr \in Seq(Items), NEW it \in Seq(Items), NEW q \in Seq(Items),
         NEW n \in Nat, LineOk(tr, it, q, n), NEW x \in Items, x.id = n + 1
  PROVE  LineOk(tr, it, Append(q, x), n + 1)
  <1>0. Append(q, x) = q \o <<x>>
    OBVIOUS
  <1>1. LineOk(tr, it, q, n + 1)
    BY LineMore
  <1>2. UpTo(tr, n) /\ UpTo(it, n) /\ UpTo(q, n)
    BY DEF LineOk
  <1>3. Before(tr, <<x>>) /\ Before(it, <<x>>) /\ Before(q, <<x>>)
    BY <1>2, BeforeNext
  <1>4. <<x>> \in Seq(Items) /\ Ordered(<<x>>) /\ DOMAIN <<x>> = {1} /\ <<x>>[1] = x
    BY OneEntry
  <1>5. UpTo(<<x>>, n + 1)
    BY <1>4 DEF UpTo
  <1>6. /\ Ordered(q) /\ Ordered(<<x>>) /\ Before(q, <<x>>) => Ordered(q \o <<x>>)
        /\ UpTo(q, n + 1) /\ UpTo(<<x>>, n + 1) => UpTo(q \o <<x>>, n + 1)
        /\ Before(tr, q) /\ Before(tr, <<x>>) => Before(tr, q \o <<x>>)
        /\ Before(it, q) /\ Before(it, <<x>>) => Before(it, q \o <<x>>)
    BY <1>4, OrderedConcat
  <1> QED
    BY <1>0, <1>1, <1>3, <1>4, <1>5, <1>6 DEF LineOk

(* A control packet at the front of the queue. *)
LEMMA LineControl ==
  ASSUME NEW tr \in Seq(Items), NEW it \in Seq(Items), NEW q \in Seq(Items),
         NEW n \in Nat, LineOk(tr, it, q, n), NEW x \in Items, x.id = n + 1, x.control
  PROVE  LineOk(tr, it, <<x>> \o q, n + 1)
  <1>1. LineOk(tr, it, q, n + 1)
    BY LineMore
  <1>2. <<x>> \in Seq(Items) /\ Ordered(<<x>>) /\ DOMAIN <<x>> = {1} /\ <<x>>[1] = x
    BY OneEntry
  <1>3. UpTo(<<x>>, n + 1)
    BY <1>2 DEF UpTo
  <1>4. \A a : Before(a, <<x>>) /\ Before(<<x>>, a)
    BY <1>2 DEF Before
  <1>5. /\ Ordered(<<x>>) /\ Ordered(q) /\ Before(<<x>>, q) => Ordered(<<x>> \o q)
        /\ UpTo(<<x>>, n + 1) /\ UpTo(q, n + 1) => UpTo(<<x>> \o q, n + 1)
        /\ Before(tr, <<x>>) /\ Before(tr, q) => Before(tr, <<x>> \o q)
        /\ Before(it, <<x>>) /\ Before(it, q) => Before(it, <<x>> \o q)
    BY <1>2, OrderedConcat
  <1> QED
    BY <1>1, <1>2, <1>3, <1>4, <1>5 DEF LineOk

(* The driver is called with the front of the queue. *)
LEMMA LineStart ==
  ASSUME NEW tr, NEW q \in Seq(Items), NEW n, LineOk(tr, << >>, q, n), q # << >>
  PROVE  LineOk(tr, <<Head(q)>>, Tail(q), n)
  <1>0. Suffix(Tail(q), q) /\ Tail(q) \in Seq(Items) /\ Len(q) = Len(Tail(q)) + 1
    BY SuffixTail
  <1>1. PICK x \in Items : x = Head(q)
    OBVIOUS
  <1>2. PICK t \in Seq(Items) : t = Tail(q)
    BY <1>0
  <1>3. q = <<x>> \o t /\ 1 \in DOMAIN q /\ q[1] = x
    BY <1>1, <1>2
  <1>4. LineOk(tr, << >>, t, n)
    BY <1>0, <1>2, LineSuffix
  <1>5. <<x>> \in Seq(Items) /\ Ordered(<<x>>) /\ DOMAIN <<x>> = {1} /\ <<x>>[1] = x
    BY OneEntry
  <1>6. UpTo(<<x>>, n) /\ Before(tr, <<x>>)
    BY <1>3, <1>5 DEF LineOk, UpTo, Before
  <1>7. Before(<<x>>, t)
    <2> SUFFICES ASSUME NEW j \in DOMAIN t, ~x.control, ~t[j].control
                 PROVE  x.id < t[j].id
      BY <1>5 DEF Before
    <2>1. 1 < j + 1 /\ j + 1 \in DOMAIN q /\ q[j + 1] = t[j]
      BY <1>2
    <2> QED
      BY <1>3, <2>1 DEF LineOk, Ordered
  <1> QED
    BY <1>1, <1>2, <1>4, <1>5, <1>6, <1>7 DEF LineOk

(* The driver accepted the packet. *)
LEMMA LineDone ==
  ASSUME NEW tr \in Seq(Items), NEW it \in Seq(Items), NEW q \in Seq(Items), NEW n,
         LineOk(tr, it, q, n)
  PROVE  LineOk(tr \o it, << >>, q, n) /\ tr \o it \in Seq(Items)
  <1>1. /\ tr \o it \in Seq(Items)
        /\ Ordered(tr) /\ Ordered(it) /\ Before(tr, it) => Ordered(tr \o it)
        /\ UpTo(tr, n) /\ UpTo(it, n) => UpTo(tr \o it, n)
        /\ Before(tr, q) /\ Before(it, q) => Before(tr \o it, q)
    BY OrderedConcat
  <1> QED
    BY <1>1, NoEntry DEF LineOk

(* The packet is put back at the front of the queue. *)
LEMMA LineReturn ==
  ASSUME NEW tr \in Seq(Items), NEW it \in Seq(Items), NEW q \in Seq(Items), NEW n,
         LineOk(tr, it, q, n)
  PROVE  LineOk(tr, << >>, it \o q, n)
  <1>1. /\ Ordered(it) /\ Ordered(q) /\ Before(it, q) => Ordered(it \o q)
        /\ UpTo(it, n) /\ UpTo(q, n) => UpTo(it \o q, n)
        /\ Before(tr, it) /\ Before(tr, q) => Before(tr, it \o q)
    BY OrderedConcat
  <1> QED
    BY <1>1, NoEntry DEF LineOk

(* The packet is dropped, or the queue is cleared. *)
LEMMA LineDrop ==
  ASSUME NEW tr, NEW it, NEW q, NEW n, LineOk(tr, it, q, n)
  PROVE  LineOk(tr, << >>, q, n) /\ LineOk(tr, it, << >>, n)
  BY NoEntry DEF LineOk

-----------------------------------------------------------------------------
(* The invariant *)

(* The counters are exact, each queue fits into the budget, and after      *)
(* enforce_shared_queue_budget both together do.                           *)
CountersInv ==
    /\ Exact(rx) /\ rx.bytes <= Budget
    /\ Exact(tx) /\ tx.bytes <= Budget
    /\ enforced # << >> => rx.bytes + tx.bytes <= Budget

(* Sent, being sent and waiting are one line in order. *)
OrderInv ==
    /\ created \in 0 .. MaxItems
    /\ transmitted \in Seq(Items)
    /\ in_tx = << >> \/ \E x \in Items : in_tx = <<x>>
    /\ LineOk(transmitted, in_tx, tx.queue, created)

QueueInv == CountersInv /\ OrderInv

(* The initial state: nothing queued, nothing sent. *)
LEMMA QueueInitInv == QueueInit => QueueInv
  <1> SUFFICES ASSUME QueueInit PROVE QueueInv
    OBVIOUS
  <1>1. EmptyQ.queue = << >> /\ EmptyQ.bytes = 0 /\ EmptyQ \in QStates
    BY DEF EmptyQ, QStates
  <1>2. Exact(EmptyQ) /\ 0 <= Budget
    BY <1>1, BytesEmpty, BudgetAssumption DEF Exact
  <1>3. CountersInv
    BY <1>1, <1>2 DEF QueueInit, CountersInv
  <1>4. LineOk(<< >>, << >>, << >>, 0)
    BY NoEntry DEF LineOk
  <1>5. 0 \in 0 .. MaxItems /\ << >> \in Seq(Items)
    BY ItemsAssumption
  <1>6. OrderInv
    BY <1>1, <1>4, <1>5 DEF QueueInit, OrderInv
  <1> QED
    BY <1>3, <1>6 DEF QueueInv

(* What the invariant says of the types. *)
LEMMA InvTypes ==
  ASSUME QueueInv
  PROVE  /\ Exact(rx) /\ rx.bytes <= Budget /\ rx.bytes \in Nat /\ rx.queue \in Seq(Items)
         /\ Exact(tx) /\ tx.bytes <= Budget /\ tx.bytes \in Nat /\ tx.queue \in Seq(Items)
         /\ enforced # << >> => rx.bytes + tx.bytes <= Budget
         /\ created \in Nat /\ Budget \in Nat
         /\ transmitted \in Seq(Items) /\ in_tx \in Seq(Items)
         /\ LineOk(transmitted, in_tx, tx.queue, created)
  <1>1. in_tx \in Seq(Items)
    BY OneEntry, NoEntry DEF QueueInv, OrderInv
  <1>2. created \in Nat /\ Budget \in Nat
    BY ItemsAssumption, BudgetAssumption DEF QueueInv, OrderInv
  <1> QED
    BY <1>1, <1>2 DEF QueueInv, CountersInv, OrderInv, Exact, QStates

(* A packet made by an entry point is the next one. *)
LEMMA NewItemType ==
  ASSUME QueueInv, Create, NEW c \in BOOLEAN, NEW x \in NewItem(c)
  PROVE  /\ x \in Items /\ x.id = created + 1 /\ x.control = c
         /\ created' = created + 1 /\ created' \in 0 .. MaxItems
  <1>1. created \in 0 .. MaxItems /\ created < MaxItems /\ created' = created + 1
    BY DEF QueueInv, OrderInv, Create
  <1>2. created + 1 \in 1 .. MaxItems
    BY <1>1, ItemsAssumption
  <1>3. PICK w \in Costs : x = [id |-> created + 1, cost |-> w, control |-> c]
    BY DEF NewItem
  <1>4. x \in Items
    BY <1>2, <1>3 DEF Items
  <1> QED
    BY <1>1, <1>2, <1>3, <1>4, ItemsAssumption

(* What is appended comes last. *)
LEMMA LastAppended ==
  ASSUME NEW r \in Seq(Items), NEW x \in Items
  PROVE  Append(r, x) # << >> /\ Append(r, x)[Len(Append(r, x))] = x
  <1>0. Append(r, x) \in Seq(Items)
    OBVIOUS
  <1>1. PICK s \in Seq(Items) : s = Append(r, x)
    BY <1>0
  <1>2. Len(s) = Len(r) + 1 /\ s[Len(r) + 1] = x
    BY <1>1
  <1>3. s # << >>
    BY <1>2
  <1> QED
    BY <1>1, <1>2, <1>3

(* A new packet at the back of a queue. *)
LEMMA EnqueueBack ==
  ASSUME NEW q, Exact(q), q.bytes <= Budget, NEW x \in Items, NEW e, e = AtBack(q, x),
         NEW tr \in Seq(Items), NEW it \in Seq(Items), NEW n \in Nat,
         LineOk(tr, it, q.queue, n), x.id = n + 1
  PROVE  LineOk(tr, it, e.queue, n + 1)
  <1>0. q.queue \in Seq(Items)
    BY DEF Exact, QStates
  <1>1. CASE e = q
    <2>1. LineOk(tr, it, q.queue, n + 1)
      BY <1>0, LineMore
    <2> QED
      BY <1>1, <2>1
  <1>2. ASSUME NEW r \in Seq(Items), Suffix(r, q.queue), e.queue = Append(r, x)
        PROVE  LineOk(tr, it, e.queue, n + 1)
    <2>1. LineOk(tr, it, r, n)
      BY <1>0, <1>2, LineSuffix
    <2>2. LineOk(tr, it, Append(r, x), n + 1)
      BY <2>1, LineBack
    <2> QED
      BY <1>2, <2>2
  <1> QED
    BY <1>1, <1>2, BackResult

(* The packet just taken is the last one. *)
LEMMA BackIsLast ==
  ASSUME NEW q, Exact(q), q.bytes <= Budget, NEW x \in Items, NEW e, e = AtBack(q, x),
         x.cost <= Budget
  PROVE  LastIs(e.queue, x)
  <1>1. ~(x.cost > Budget)
    BY CostType, BudgetAssumption
  <1>2. PICK r \in Seq(Items) : e.queue = Append(r, x)
    BY <1>1, BackResult
  <1> QED
    BY <1>2, LastAppended DEF LastIs

(* A control packet at the front of the transmit queue. *)
LEMMA EnqueueControl ==
  ASSUME NEW q, Exact(q), q.bytes <= Budget, NEW x \in Items, NEW e, e = AtFront(q, x),
         NEW tr \in Seq(Items), NEW it \in Seq(Items), NEW n \in Nat,
         LineOk(tr, it, q.queue, n), x.id = n + 1, x.control
  PROVE  LineOk(tr, it, e.queue, n + 1)
  <1>0. q.queue \in Seq(Items)
    BY DEF Exact, QStates
  <1>1. CASE e = q
    <2>1. LineOk(tr, it, q.queue, n + 1)
      BY <1>0, LineMore
    <2> QED
      BY <1>1, <2>1
  <1>2. ASSUME NEW r \in Seq(Items), Suffix(r, q.queue), e.queue = <<x>> \o r
        PROVE  LineOk(tr, it, e.queue, n + 1)
    <2>1. LineOk(tr, it, r, n)
      BY <1>0, <1>2, LineSuffix
    <2>2. LineOk(tr, it, <<x>> \o r, n + 1)
      BY <2>1, LineControl
    <2> QED
      BY <1>2, <2>2
  <1> QED
    BY <1>1, <1>2, FrontResult

(* A packet put back at the front of the transmit queue. *)
LEMMA EnqueueReturn ==
  ASSUME NEW q, Exact(q), q.bytes <= Budget, NEW x \in Items, NEW e, e = AtFront(q, x),
         NEW tr \in Seq(Items), NEW n, LineOk(tr, <<x>>, q.queue, n)
  PROVE  LineOk(tr, << >>, e.queue, n)
  <1>0. q.queue \in Seq(Items) /\ <<x>> \in Seq(Items)
    BY DEF Exact, QStates
  <1>1. CASE e = q
    BY <1>1, LineDrop
  <1>2. ASSUME NEW r \in Seq(Items), Suffix(r, q.queue), e.queue = <<x>> \o r
        PROVE  LineOk(tr, << >>, e.queue, n)
    <2>1. LineOk(tr, <<x>>, r, n)
      BY <1>0, <1>2, LineSuffix
    <2>2. LineOk(tr, << >>, <<x>> \o r, n)
      BY <1>0, <2>1, LineReturn
    <2> QED
      BY <1>2, <2>2
  <1> QED
    BY <1>1, <1>2, FrontResult

(* A packet popped from a queue. *)
LEMMA PopResult ==
  ASSUME NEW q, Exact(q), q.queue # << >>, NEW e, e = PopFront(q)
  PROVE  /\ Exact(e) /\ e.bytes <= q.bytes /\ e.bytes \in Nat /\ q.bytes \in Nat
         /\ e.queue = Tail(q.queue)
         /\ \A tr, it, n : LineOk(tr, it, q.queue, n) => LineOk(tr, it, e.queue, n)
  <1>1. /\ Exact(e) /\ e.queue = Tail(q.queue) /\ e.bytes <= q.bytes
        /\ Suffix(e.queue, q.queue)
    BY PopExact
  <1>2. q.queue \in Seq(Items) /\ e.queue \in Seq(Items) /\ e.bytes \in Nat /\ q.bytes \in Nat
    BY <1>1 DEF Exact, QStates
  <1>3. \A tr, it, n : LineOk(tr, it, q.queue, n) => LineOk(tr, it, e.queue, n)
    BY <1>1, <1>2, LineSuffix
  <1> QED
    BY <1>1, <1>2, <1>3

(* The invariant of the next state, in terms of that state. *)
LEMMA QueueInvPrime ==
  ASSUME Exact(rx'), rx'.bytes <= Budget, Exact(tx'), tx'.bytes <= Budget,
         enforced' # << >> => rx'.bytes + tx'.bytes <= Budget,
         created' \in 0 .. MaxItems, transmitted' \in Seq(Items),
         in_tx' = << >> \/ \E x \in Items : in_tx' = <<x>>,
         LineOk(transmitted', in_tx', tx'.queue, created')
  PROVE  QueueInv'
  <1>1. CountersInv'
    BY DEF CountersInv, Exact, QStates, Bytes, Items
  <1>2. OrderInv'
    BY DEF OrderInv, LineOk, Ordered, Before, UpTo, Items
  <1> QED
    BY <1>1, <1>2 DEF QueueInv

(* Two queues after enforce_shared_queue_budget. *)
LEMMA SharedResult ==
  ASSUME NEW a, Exact(a), NEW b, Exact(b), NEW r, r = Enforce([rx |-> a, tx |-> b])
  PROVE  /\ Exact(r.rx) /\ Exact(r.tx) /\ r.rx.bytes + r.tx.bytes <= Budget
         /\ r.rx.bytes <= Budget /\ r.tx.bytes <= Budget
         /\ b.queue \in Seq(Items) /\ r.tx.queue \in Seq(Items) /\ r.rx.queue \in Seq(Items)
         /\ Suffix(r.tx.queue, b.queue)
         /\ \A x : 2 * x.cost <= Budget =>
              /\ LastIs(a.queue, x) => LastIs(r.rx.queue, x)
              /\ LastIs(b.queue, x) => LastIs(r.tx.queue, x)
  <1>1. PICK p : p = [rx |-> a, tx |-> b]
    OBVIOUS
  <1>2. Sound(p) /\ p.rx = a /\ p.tx = b
    BY <1>1, SoundPair
  <1>3. r = Enforce(p)
    BY <1>1
  <1>4. /\ Sound(r) /\ Shrunk(r, p) /\ Sum(r) <= Budget
        /\ \A x : 2 * x.cost <= Budget =>
              /\ LastIs(p.rx.queue, x) => LastIs(r.rx.queue, x)
              /\ LastIs(p.tx.queue, x) => LastIs(r.tx.queue, x)
    BY <1>2, <1>3, EnforceResult
  <1>5. /\ Exact(r.rx) /\ Exact(r.tx) /\ r.rx.bytes \in Nat /\ r.tx.bytes \in Nat
        /\ b.queue \in Seq(Items) /\ r.tx.queue \in Seq(Items) /\ r.rx.queue \in Seq(Items)
    BY <1>4 DEF Sound, Exact, QStates
  <1>6. r.rx.bytes + r.tx.bytes <= Budget /\ Suffix(r.tx.queue, b.queue)
    BY <1>2, <1>4 DEF Sum, Shrunk
  <1>7. r.rx.bytes <= Budget /\ r.tx.bytes <= Budget
    BY <1>5, <1>6, BudgetAssumption
  <1> QED
    BY <1>2, <1>4, <1>5, <1>6, <1>7

(***************************************************************************)
(* An entry point that shares the budget: the new packet is queued in rx   *)
(* or in tx, and is still there when two of its size fit.                  *)
(***************************************************************************)
LEMMA SharedStep ==
  ASSUME QueueInv, Create, NEW x \in NewItem(FALSE),
         \/ Shared(rx, Enqueue(tx, x, FALSE), x)
         \/ Shared(Enqueue(rx, x, FALSE), tx, x)
  PROVE  /\ Exact(rx') /\ rx'.bytes <= Budget /\ Exact(tx') /\ tx'.bytes <= Budget
         /\ enforced' # << >> => rx'.bytes + tx'.bytes <= Budget
         /\ LineOk(transmitted, in_tx, tx'.queue, created')
         /\ enforced' = << >> \/ enforced' = <<x>>
         /\ enforced' # << >> /\ 2 * x.cost <= Budget =>
              LastIs(rx'.queue, x) \/ LastIs(tx'.queue, x)
         /\ rx'.queue \in Seq(Items) /\ tx'.queue \in Seq(Items)
  <1>1. /\ x \in Items /\ x.id = created + 1 /\ created' = created + 1
        /\ created' \in 0 .. MaxItems
    BY NewItemType
  <1>2. /\ Exact(rx) /\ rx.bytes <= Budget /\ rx.queue \in Seq(Items)
        /\ Exact(tx) /\ tx.bytes <= Budget /\ tx.queue \in Seq(Items)
        /\ created \in Nat /\ Budget \in Nat
        /\ transmitted \in Seq(Items) /\ in_tx \in Seq(Items)
        /\ LineOk(transmitted, in_tx, tx.queue, created)
    BY InvTypes
  <1>3. x.cost \in Nat /\ (x.cost > Budget <=> ~(x.cost <= Budget))
    BY <1>1, <1>2, CostType
  <1>4. LineOk(transmitted, in_tx, tx.queue, created + 1)
    BY <1>2, LineMore
  <1>5. CASE x.cost > Budget
    <2>1. rx' = rx /\ tx' = tx /\ enforced' = << >>
      BY <1>5 DEF Shared
    <2> QED
      BY <1>1, <1>2, <1>4, <2>1
  <1>6. ASSUME x.cost <= Budget, NEW a, NEW b, Exact(a), Exact(b),
               NEW r, r = Enforce([rx |-> a, tx |-> b]),
               rx' = r.rx, tx' = r.tx, enforced' = <<x>>,
               LineOk(transmitted, in_tx, b.queue, created + 1),
               LastIs(a.queue, x) \/ LastIs(b.queue, x)
        PROVE  /\ Exact(rx') /\ rx'.bytes <= Budget /\ Exact(tx') /\ tx'.bytes <= Budget
               /\ enforced' # << >> => rx'.bytes + tx'.bytes <= Budget
               /\ LineOk(transmitted, in_tx, tx'.queue, created')
               /\ enforced' = << >> \/ enforced' = <<x>>
               /\ enforced' # << >> /\ 2 * x.cost <= Budget =>
                    LastIs(rx'.queue, x) \/ LastIs(tx'.queue, x)
               /\ rx'.queue \in Seq(Items) /\ tx'.queue \in Seq(Items)
    <2>1. /\ Exact(r.rx) /\ Exact(r.tx) /\ r.rx.bytes + r.tx.bytes <= Budget
          /\ r.rx.bytes <= Budget /\ r.tx.bytes <= Budget
          /\ b.queue \in Seq(Items) /\ r.tx.queue \in Seq(Items) /\ r.rx.queue \in Seq(Items)
          /\ Suffix(r.tx.queue, b.queue)
          /\ \A y : 2 * y.cost <= Budget =>
              /\ LastIs(a.queue, y) => LastIs(r.rx.queue, y)
              /\ LastIs(b.queue, y) => LastIs(r.tx.queue, y)
      BY <1>6, SharedResult
    <2>2. LineOk(transmitted, in_tx, r.tx.queue, created + 1)
      BY <1>6, <2>1, LineSuffix
    <2>3. 2 * x.cost <= Budget => LastIs(r.rx.queue, x) \/ LastIs(r.tx.queue, x)
      BY <1>6, <2>1
    <2> QED
      BY <1>1, <1>6, <2>1, <2>2, <2>3
  <1>7. CASE x.cost <= Budget /\ Shared(rx, Enqueue(tx, x, FALSE), x)
    <2>1. PICK b : b = AtBack(tx, x)
      OBVIOUS
    <2>2. PICK r : r = Enforce([rx |-> rx, tx |-> b])
      OBVIOUS
    <2>3. rx' = r.rx /\ tx' = r.tx /\ enforced' = <<x>>
      BY <1>3, <1>7, <2>1, <2>2 DEF Shared, AtBack
    <2>4. Exact(b)
      BY <1>1, <1>2, <2>1, BackResult
    <2>5. LineOk(transmitted, in_tx, b.queue, created + 1)
      BY <1>1, <1>2, <2>1, EnqueueBack
    <2>6. LastIs(b.queue, x)
      BY <1>1, <1>2, <1>7, <2>1, BackIsLast
    <2> QED
      BY <1>2, <1>6, <1>7, <2>2, <2>3, <2>4, <2>5, <2>6
  <1>8. CASE x.cost <= Budget /\ Shared(Enqueue(rx, x, FALSE), tx, x)
    <2>1. PICK a : a = AtBack(rx, x)
      OBVIOUS
    <2>2. PICK r : r = Enforce([rx |-> a, tx |-> tx])
      OBVIOUS
    <2>3. rx' = r.rx /\ tx' = r.tx /\ enforced' = <<x>>
      BY <1>3, <1>8, <2>1, <2>2 DEF Shared, AtBack
    <2>4. Exact(a)
      BY <1>1, <1>2, <2>1, BackResult
    <2>6. LastIs(a.queue, x)
      BY <1>1, <1>2, <1>8, <2>1, BackIsLast
    <2> QED
      BY <1>2, <1>4, <1>6, <1>8, <2>2, <2>3, <2>4, <2>6
  <1> QED
    BY <1>3, <1>5, <1>7, <1>8

(* Every action of the queues keeps the invariant. *)
LEMMA QueueStepInv == ASSUME QueueInv, [QueueNext]_queueVars PROVE QueueInv'
  <1>0. /\ Exact(rx) /\ rx.bytes <= Budget /\ rx.bytes \in Nat /\ rx.queue \in Seq(Items)
        /\ Exact(tx) /\ tx.bytes <= Budget /\ tx.bytes \in Nat /\ tx.queue \in Seq(Items)
        /\ enforced # << >> => rx.bytes + tx.bytes <= Budget
        /\ created \in Nat /\ Budget \in Nat
        /\ transmitted \in Seq(Items) /\ in_tx \in Seq(Items)
        /\ LineOk(transmitted, in_tx, tx.queue, created)
    BY InvTypes
  <1>1. created \in 0 .. MaxItems /\ (in_tx = << >> \/ \E x \in Items : in_tx = <<x>>)
    BY DEF QueueInv, OrderInv
  <1>2. CASE LogQueued
    <2>1. PICK x \in NewItem(FALSE) : Shared(rx, Enqueue(tx, x, FALSE), x)
      BY <1>2 DEF LogQueued
    <2>2. Create /\ UNCHANGED <<in_tx, side_tx_deferred, transmitted>>
      BY <1>2 DEF LogQueued
    <2>3. created' \in 0 .. MaxItems
      BY <2>2, NewItemType
    <2> QED
      BY <1>0, <1>1, <2>1, <2>2, <2>3, SharedStep, QueueInvPrime
  <1>3. CASE RxPacketToQueue
    <2>1. PICK x \in NewItem(FALSE) : Shared(Enqueue(rx, x, FALSE), tx, x)
      BY <1>3 DEF RxPacketToQueue
    <2>2. Create /\ UNCHANGED <<in_tx, side_tx_deferred, transmitted>>
      BY <1>3 DEF RxPacketToQueue
    <2>3. created' \in 0 .. MaxItems
      BY <2>2, NewItemType
    <2> QED
      BY <1>0, <1>1, <2>1, <2>2, <2>3, SharedStep, QueueInvPrime
  <1>4. CASE TransmitSerializedQueue
    <2>1. PICK x \in NewItem(FALSE) : tx' = AtBack(tx, x)
      BY <1>4 DEF TransmitSerializedQueue, AtBack
    <2>2. Create /\ enforced' = << >> /\ UNCHANGED <<rx, in_tx, side_tx_deferred, transmitted>>
      BY <1>4 DEF TransmitSerializedQueue
    <2>3. x \in Items /\ x.id = created + 1 /\ created' = created + 1 /\ created' \in 0 .. MaxItems
      BY <2>2, NewItemType
    <2>4. Exact(tx') /\ tx'.bytes <= Budget
      BY <1>0, <2>1, <2>3, BackResult
    <2>5. LineOk(transmitted, in_tx, tx'.queue, created + 1)
      BY <1>0, <2>1, <2>3, EnqueueBack
    <2> QED
      BY <1>0, <1>1, <2>2, <2>3, <2>4, <2>5, QueueInvPrime
  <1>5. CASE RxSerializedToQueue
    <2>1. PICK x \in NewItem(FALSE) : rx' = AtBack(rx, x) \/ rx' = AtFront(rx, x)
      BY <1>5 DEF RxSerializedToQueue, AtBack, AtFront
    <2>2. Create /\ enforced' = << >> /\ UNCHANGED <<tx, in_tx, side_tx_deferred, transmitted>>
      BY <1>5 DEF RxSerializedToQueue
    <2>3. x \in Items /\ created' = created + 1 /\ created' \in 0 .. MaxItems
      BY <2>2, NewItemType
    <2>4. Exact(rx') /\ rx'.bytes <= Budget
      BY <1>0, <2>1, <2>3, BackResult, FrontResult
    <2>5. LineOk(transmitted, in_tx, tx.queue, created + 1)
      BY <1>0, LineMore
    <2> QED
      BY <1>0, <1>1, <2>2, <2>3, <2>4, <2>5, QueueInvPrime
  <1>6. CASE QueueControl
    <2>1. PICK x \in NewItem(TRUE) : tx' = AtFront(tx, x)
      BY <1>6 DEF QueueControl, AtFront
    <2>2. Create /\ enforced' = << >> /\ UNCHANGED <<rx, in_tx, side_tx_deferred, transmitted>>
      BY <1>6 DEF QueueControl
    <2>3. /\ x \in Items /\ x.id = created + 1 /\ x.control
          /\ created' = created + 1 /\ created' \in 0 .. MaxItems
      BY <2>2, NewItemType
    <2>4. Exact(tx') /\ tx'.bytes <= Budget
      BY <1>0, <2>1, <2>3, FrontResult
    <2>5. LineOk(transmitted, in_tx, tx'.queue, created + 1)
      BY <1>0, <2>1, <2>3, EnqueueControl
    <2> QED
      BY <1>0, <1>1, <2>2, <2>3, <2>4, <2>5, QueueInvPrime
  <1>7. CASE ProcessRx
    <2>1. rx.queue # << >> /\ rx' = PopFront(rx) /\ UNCHANGED <<in_tx, side_tx_deferred, transmitted>>
      BY <1>7 DEF ProcessRx
    <2>2. Exact(rx') /\ rx'.bytes <= rx.bytes /\ rx'.bytes \in Nat
      BY <1>0, <2>1, PopResult
    <2>3. rx'.bytes <= Budget
      BY <1>0, <2>2
    <2>4. CASE UNCHANGED <<tx, created, enforced>>
      <3>1. enforced' # << >> => rx'.bytes + tx'.bytes <= Budget
        BY <1>0, <2>2, <2>4
      <3> QED
        BY <1>0, <1>1, <2>1, <2>2, <2>3, <2>4, <3>1, QueueInvPrime
    <2>5. CASE /\ Create /\ enforced' = << >>
               /\ \E item \in NewItem(FALSE) : tx' = Enqueue(tx, item, FALSE)
      <3>1. PICK x \in NewItem(FALSE) : tx' = AtBack(tx, x)
        BY <2>5 DEF AtBack
      <3>3. x \in Items /\ x.id = created + 1 /\ created' = created + 1 /\ created' \in 0 .. MaxItems
        BY <2>5, NewItemType
      <3>4. Exact(tx') /\ tx'.bytes <= Budget
        BY <1>0, <3>1, <3>3, BackResult
      <3>5. LineOk(transmitted, in_tx, tx'.queue, created + 1)
        BY <1>0, <3>1, <3>3, EnqueueBack
      <3> QED
        BY <1>0, <1>1, <2>1, <2>2, <2>3, <2>5, <3>3, <3>4, <3>5, QueueInvPrime
    <2> QED
      BY <1>7, <2>4, <2>5 DEF ProcessRx
  <1>8. CASE TransmitStart
    <2>1. /\ in_tx = << >> /\ tx.queue # << >> /\ tx' = PopFront(tx)
          /\ in_tx' = <<Head(tx.queue)>>
          /\ UNCHANGED <<rx, side_tx_deferred, created, transmitted, enforced>>
      BY <1>8 DEF TransmitStart
    <2>2. /\ Exact(tx') /\ tx'.bytes <= tx.bytes /\ tx'.bytes \in Nat
          /\ tx'.queue = Tail(tx.queue)
      BY <1>0, <2>1, PopResult
    <2>3. tx'.bytes <= Budget /\ (enforced' # << >> => rx'.bytes + tx'.bytes <= Budget)
      BY <1>0, <2>1, <2>2
    <2>4. Head(tx.queue) \in Items
      BY <1>0, <2>1
    <2>5. LineOk(transmitted, <<Head(tx.queue)>>, Tail(tx.queue), created)
      BY <1>0, <2>1, LineStart
    <2> QED
      BY <1>0, <1>1, <2>1, <2>2, <2>3, <2>4, <2>5, QueueInvPrime
  <1>9. CASE TransmitOk
    <2>1. /\ transmitted' = transmitted \o in_tx /\ in_tx' = << >>
          /\ UNCHANGED <<rx, tx, side_tx_deferred, created, enforced>>
      BY <1>9 DEF TransmitOk
    <2>2. LineOk(transmitted \o in_tx, << >>, tx.queue, created) /\ transmitted \o in_tx \in Seq(Items)
      BY <1>0, LineDone
    <2> QED
      BY <1>0, <1>1, <2>1, <2>2, QueueInvPrime
  <1>10. CASE TransmitFailed
    <2>1. in_tx # << >> /\ in_tx' = << >> /\ UNCHANGED <<rx, created, transmitted>>
      BY <1>10 DEF TransmitFailed
    <2>2. PICK x \in Items : in_tx = <<x>>
      BY <1>1, <2>1
    <2>3. CASE enforced' = << >> /\ tx' = Enqueue(tx, in_tx[1], TRUE)
      <3>1. tx' = AtFront(tx, x)
        BY <2>2, <2>3 DEF AtFront
      <3>2. Exact(tx') /\ tx'.bytes <= Budget
        BY <1>0, <3>1, FrontResult
      <3>3. LineOk(transmitted, <<x>>, tx.queue, created)
        BY <1>0, <2>2
      <3>4. LineOk(transmitted, << >>, tx'.queue, created)
        BY <1>0, <3>1, <3>3, EnqueueReturn
      <3> QED
        BY <1>0, <1>1, <2>1, <2>3, <3>2, <3>4, QueueInvPrime
    <2>4. CASE UNCHANGED <<tx, enforced>>
      <3>1. LineOk(transmitted, << >>, tx.queue, created)
        BY <1>0, LineDrop
      <3> QED
        BY <1>0, <1>1, <2>1, <2>4, <3>1, QueueInvPrime
    <2> QED
      BY <1>10, <2>3, <2>4 DEF TransmitFailed
  <1>11. CASE NestedDeferral
    <2>1. UNCHANGED <<rx, tx, in_tx, created, transmitted, enforced>>
      BY <1>11 DEF NestedDeferral
    <2> QED
      BY <1>0, <1>1, <2>1, QueueInvPrime
  <1>12. CASE NestedLog
    <2>1. Create /\ enforced' = << >> /\ UNCHANGED <<rx, in_tx, transmitted>>
      BY <1>12 DEF NestedLog
    <2>2. PICK x \in NewItem(FALSE) : IF x.cost > Budget THEN tx' = tx ELSE tx' = PopFront(AtBack(tx, x))
      BY <1>12 DEF NestedLog, AtBack
    <2>3. x \in Items /\ x.id = created + 1 /\ created' = created + 1 /\ created' \in 0 .. MaxItems
      BY <2>1, NewItemType
    <2>4. CASE x.cost > Budget
      <3>1. LineOk(transmitted, in_tx, tx.queue, created + 1)
        BY <1>0, LineMore
      <3> QED
        BY <1>0, <1>1, <2>1, <2>2, <2>3, <2>4, <3>1, QueueInvPrime
    <2>5. CASE ~(x.cost > Budget)
      <3>0. x.cost <= Budget
        BY <1>0, <2>3, <2>5, CostType
      <3>1. PICK e : e = AtBack(tx, x)
        OBVIOUS
      <3>2. tx' = PopFront(e)
        BY <2>2, <2>5, <3>1
      <3>3. Exact(e) /\ e.bytes <= Budget
        BY <1>0, <2>3, <3>1, BackResult
      <3>4. LineOk(transmitted, in_tx, e.queue, created + 1)
        BY <1>0, <2>3, <3>1, EnqueueBack
      <3>5. e.queue # << >>
        BY <1>0, <2>3, <3>0, <3>1, BackIsLast DEF LastIs
      <3>6. /\ Exact(tx') /\ tx'.bytes <= e.bytes /\ tx'.bytes \in Nat /\ e.bytes \in Nat
            /\ LineOk(transmitted, in_tx, tx'.queue, created + 1)
        BY <3>2, <3>3, <3>4, <3>5, PopResult
      <3>7. tx'.bytes <= Budget
        BY <1>0, <3>3, <3>6
      <3> QED
        BY <1>0, <1>1, <2>1, <2>3, <3>6, <3>7, QueueInvPrime
    <2> QED
      BY <2>4, <2>5
  <1>13. CASE ClearQueues
    <2>1. /\ rx' = EmptyQ \/ rx' = rx
          /\ tx' = EmptyQ \/ tx' = tx
          /\ UNCHANGED <<in_tx, side_tx_deferred, created, transmitted, enforced>>
      BY <1>13 DEF ClearQueues
    <2>2. /\ EmptyQ.queue = << >> /\ EmptyQ.bytes = 0 /\ EmptyQ \in QStates
      BY DEF EmptyQ, QStates
    <2>3. Exact(EmptyQ) /\ 0 <= Budget
      BY <1>0, <2>2, BytesEmpty DEF Exact
    <2>4. Exact(rx') /\ rx'.bytes <= Budget /\ Exact(tx') /\ tx'.bytes <= Budget
      BY <1>0, <2>1, <2>2, <2>3
    <2>5. enforced' # << >> => rx'.bytes + tx'.bytes <= Budget
      BY <1>0, <2>1, <2>2
    <2>6. LineOk(transmitted, in_tx, tx'.queue, created)
      BY <1>0, <2>1, <2>2, LineDrop
    <2> QED
      BY <1>0, <1>1, <2>1, <2>4, <2>5, <2>6, QueueInvPrime
  <1>14. CASE UNCHANGED queueVars
    <2>1. UNCHANGED <<rx, tx, in_tx, created, transmitted, enforced>>
      BY <1>14 DEF queueVars
    <2> QED
      BY <1>0, <1>1, <2>1, QueueInvPrime
  <1> QED
    BY <1>2, <1>3, <1>4, <1>5, <1>6, <1>7, <1>8, <1>9, <1>10, <1>11, <1>12, <1>13, <1>14
    DEF QueueNext, ProcessQueues

(* The invariant holds in every reachable state. *)
LEMMA QueueInvariant == QueueSpec => []QueueInv
  BY QueueInitInv, QueueStepInv, PTL DEF QueueSpec

-----------------------------------------------------------------------------
(* The theorems *)

(***************************************************************************)
(* rx_queue_bytes and tx_queue_bytes are exact and within the budget, and  *)
(* after enforce_shared_queue_budget the two together are, for every       *)
(* budget, all packet sizes and any order of evictions, requeues and       *)
(* nested calls.                                                           *)
(***************************************************************************)
THEOREM BytesTheorem == QueueSpec => []BytesAreExact
  <1>1. ASSUME QueueInv PROVE BytesAreExact
    BY <1>1 DEF QueueInv, CountersInv, Exact, BytesAreExact
  <1> QED
    BY <1>1, QueueInvariant, PTL

(***************************************************************************)
(* Packets other than control packets leave in the order they entered the  *)
(* transmit queue, through every deferral, requeue and nested call.        *)
(***************************************************************************)
THEOREM SentTheorem == QueueSpec => []SentInOrder
  <1>1. ASSUME QueueInv PROVE SentInOrder
    <2>0. /\ tx.queue \in Seq(Items) /\ transmitted \in Seq(Items) /\ in_tx \in Seq(Items)
          /\ LineOk(transmitted, in_tx, tx.queue, created)
      BY <1>1, InvTypes
    <2>1. /\ transmitted \o in_tx \in Seq(Items) /\ Ordered(transmitted \o in_tx)
          /\ Before(transmitted \o in_tx, tx.queue)
      BY <2>0, LineDone DEF LineOk
    <2>2. PICK a \in Seq(Items) : a = transmitted \o in_tx
      BY <2>1
    <2>3. Ordered(a \o tx.queue)
      BY <2>0, <2>1, <2>2, OrderedConcat DEF LineOk
    <2> QED
      BY <2>2, <2>3 DEF SentInOrder, Ordered
  <1> QED
    BY <1>1, QueueInvariant, PTL

(***************************************************************************)
(* Sharing the budget never evicts the packet an entry point has just      *)
(* taken, if two of its size fit into the budget.                          *)
(***************************************************************************)
THEOREM AcceptedTheorem == QueueSpec => AcceptedIsQueued
  <1> DEFINE StillQueued == \A i \in DOMAIN enforced' :
                         enforced' # enforced /\ 2 * enforced'[i].cost <= Budget =>
                           enforced'[i] \in Range(rx'.queue) \cup Range(tx'.queue)
  <1>1. ASSUME QueueInv, [QueueNext]_queueVars PROVE [StillQueued]_queueVars
    <2> SUFFICES ASSUME NEW i \in DOMAIN enforced', enforced' # enforced,
                        2 * enforced'[i].cost <= Budget
                 PROVE  enforced'[i] \in Range(rx'.queue) \cup Range(tx'.queue)
      OBVIOUS
    <2>1. ASSUME Create, NEW x \in NewItem(FALSE),
                 \/ Shared(rx, Enqueue(tx, x, FALSE), x)
                 \/ Shared(Enqueue(rx, x, FALSE), tx, x)
          PROVE  enforced'[i] \in Range(rx'.queue) \cup Range(tx'.queue)
      <3>1. /\ enforced' = << >> \/ enforced' = <<x>>
            /\ enforced' # << >> /\ 2 * x.cost <= Budget =>
                 LastIs(rx'.queue, x) \/ LastIs(tx'.queue, x)
            /\ rx'.queue \in Seq(Items) /\ tx'.queue \in Seq(Items)
        BY <1>1, <2>1, SharedStep
      <3>2. enforced' # << >>
        OBVIOUS
      <3>3. enforced' = <<x>> /\ enforced'[i] = x
        BY <3>1, <3>2
      <3>4. LastIs(rx'.queue, x) \/ LastIs(tx'.queue, x)
        BY <3>1, <3>3
      <3>5. \A s \in Seq(Items) : LastIs(s, x) => x \in Range(s)
        <4> SUFFICES ASSUME NEW s \in Seq(Items), s # << >>, s[Len(s)] = x
                     PROVE  x \in Range(s)
          BY DEF LastIs
        <4>1. Len(s) \in DOMAIN s
          OBVIOUS
        <4> QED
          BY <4>1 DEF Range
      <3> QED
        BY <3>1, <3>3, <3>4, <3>5
    <2>2. CASE LogQueued
      BY <2>1, <2>2 DEF LogQueued
    <2>3. CASE RxPacketToQueue
      BY <2>1, <2>3 DEF RxPacketToQueue
    <2>4. CASE enforced' = << >> \/ enforced' = enforced
      BY <2>4
    <2> QED
      BY <1>1, <2>2, <2>3, <2>4
      DEF QueueNext, ProcessQueues, TransmitSerializedQueue, RxSerializedToQueue, QueueControl,
          ProcessRx, TransmitStart, TransmitOk, TransmitFailed, NestedDeferral, NestedLog,
          ClearQueues, queueVars
  <1> QED
    BY <1>1, QueueInvariant, PTL DEF QueueSpec, AcceptedIsQueued

=============================================================================
