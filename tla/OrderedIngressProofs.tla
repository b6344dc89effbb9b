------------------------ MODULE OrderedIngressProofs ------------------------
(***************************************************************************)
(* Proofs about OrderedIngress: order, no repetition and no loss from      *)
(* process_reliable_ingress to the local handlers, for every window, queue *)
(* budget and number of packets before the sequence numbers wrap.          *)
(***************************************************************************)
EXTENDS OrderedIngress, ReliableLinkProofs

-----------------------------------------------------------------------------
(* Sequences of packet numbers *)

(* The m numbers that follow a, in order. *)
Run(a, m) == [i \in 1 .. m |-> a + i]

Within(s, k)  == \A i \in 1 .. Len(s) : s[i] \in 1 .. k
Increasing(s) == \A i, j \in 1 .. Len(s) : i < j => s[i] < s[j]
Distinct(s)   == \A i, j \in 1 .. Len(s) : i # j => s[i] # s[j]

(* A run is a sequence of numbers, of the length it says. *)
LEMMA RunType ==
  ASSUME NEW a \in Nat, NEW m \in Nat
  PROVE  /\ Run(a, m) \in Seq(Nat) /\ Len(Run(a, m)) = m
         /\ \A i \in 1 .. m : Run(a, m)[i] = a + i
  BY DEF Run

(* Two sequences of the same length and entries are the same. *)
LEMMA SameSeq ==
  ASSUME NEW s \in Seq(Nat), NEW t \in Seq(Nat), Len(s) = Len(t),
         \A i \in 1 .. Len(s) : s[i] = t[i]
  PROVE  s = t
  OBVIOUS

(* The entries of a concatenation are those of its parts. *)
LEMMA ConcatEntries ==
  ASSUME NEW s \in Seq(Nat), NEW t \in Seq(Nat)
  PROVE  /\ s \o t \in Seq(Nat) /\ Len(s \o t) = Len(s) + Len(t)
         /\ \A i \in 1 .. Len(s) : (s \o t)[i] = s[i]
         /\ \A i \in 1 .. Len(t) : (s \o t)[Len(s) + i] = t[i]
         /\ \A i \in 1 .. Len(s) + Len(t) :
              (s \o t)[i] = IF i <= Len(s) THEN s[i] ELSE t[i - Len(s)]
  OBVIOUS

(* The entries of a sequence without its first d. *)
LEMMA DropEntries ==
  ASSUME NEW s \in Seq(Nat), NEW d \in 0 .. Len(s)
  PROVE  /\ SubSeq(s, d + 1, Len(s)) \in Seq(Nat)
         /\ Len(SubSeq(s, d + 1, Len(s))) = Len(s) - d
         /\ \A i \in 1 .. Len(s) - d : SubSeq(s, d + 1, Len(s))[i] = s[d + i]
  OBVIOUS

(* Concatenation is associative. *)
LEMMA ConcatAssoc ==
  ASSUME NEW s \in Seq(Nat), NEW t \in Seq(Nat), NEW u \in Seq(Nat)
  PROVE  (s \o t) \o u = s \o (t \o u)
  <1>1. /\ (s \o t) \o u \in Seq(Nat) /\ s \o (t \o u) \in Seq(Nat)
        /\ Len((s \o t) \o u) = Len(s \o (t \o u))
    OBVIOUS
  <1>2. ASSUME NEW i \in 1 .. Len((s \o t) \o u)
        PROVE  ((s \o t) \o u)[i] = (s \o (t \o u))[i]
    OBVIOUS
  <1> QED
    BY <1>1, <1>2, SameSeq

(* A subsequence is as ordered and as free of repetitions as the whole. *)
LEMMA Embedded ==
  ASSUME NEW s \in Seq(Nat), NEW t \in Seq(Nat), NEW k \in Nat,
         NEW from \in [1 .. Len(t) -> 1 .. Len(s)],
         \A i \in 1 .. Len(t) : t[i] = s[from[i]],
         \A i, j \in 1 .. Len(t) : i < j => from[i] < from[j]
  PROVE  /\ Within(s, k) => Within(t, k)
         /\ Increasing(s) => Increasing(t)
         /\ Distinct(s) => Distinct(t)
  <1>1. Within(s, k) => Within(t, k)
    BY DEF Within
  <1>2. Increasing(s) => Increasing(t)
    BY DEF Increasing
  <1>3. ASSUME Distinct(s), NEW i \in 1 .. Len(t), NEW j \in 1 .. Len(t), i # j
        PROVE  t[i] # t[j]
    <2>1. i < j \/ j < i
      BY <1>3
    <2>2. from[i] \in 1 .. Len(s) /\ from[j] \in 1 .. Len(s)
      OBVIOUS
    <2>3. from[i] # from[j]
      BY <2>1, <2>2
    <2>4. s[from[i]] # s[from[j]]
      BY <1>3, <2>2, <2>3 DEF Distinct
    <2>5. t[i] = s[from[i]] /\ t[j] = s[from[j]]
      OBVIOUS
    <2> QED
      BY <2>4, <2>5
  <1> QED
    BY <1>1, <1>2, <1>3 DEF Distinct

(* The map that skips the d places behind the first n is increasing. *)
LEMMA SkipPlaces ==
  ASSUME NEW n \in Nat, NEW m \in Nat, NEW d \in Nat,
         NEW from, from = [i \in 1 .. n + m |-> IF i <= n THEN i ELSE i + d]
  PROVE  /\ from \in [1 .. n + m -> 1 .. n + m + d]
         /\ \A i, j \in 1 .. n + m : i < j => from[i] < from[j]
         /\ \A i \in 1 .. n + m : ~(i <= n) =>
              i - n \in 1 .. m /\ i \in n + 1 .. n + m /\ from[i] = i + d
         /\ \A i \in 1 .. n + m : i <= n => from[i] = i
  <1>1. from \in [1 .. n + m -> 1 .. n + m + d]
    <2>1. \A i \in 1 .. n + m : (IF i <= n THEN i ELSE i + d) \in 1 .. n + m + d
      OBVIOUS
    <2> QED
      BY <2>1
  <1>2. ASSUME NEW i \in 1 .. n + m, NEW j \in 1 .. n + m, i < j
        PROVE  from[i] < from[j]
    <2>1. /\ from[i] = IF i <= n THEN i ELSE i + d
          /\ from[j] = IF j <= n THEN j ELSE j + d
      OBVIOUS
    <2> QED
      BY <1>2, <2>1
  <1>3. ASSUME NEW i \in 1 .. n + m, ~(i <= n)
        PROVE  i - n \in 1 .. m /\ i \in n + 1 .. n + m
    BY <1>3
  <1> QED
    BY <1>1, <1>2, <1>3

(* A new largest number may enter anywhere: place n + 1 here. *)
LEMMA NewPlace ==
  ASSUME NEW s \in Seq(Nat), NEW t \in Seq(Nat),
         NEW n \in Nat, NEW m \in Nat, NEW k \in Nat,
         Len(s) = n + m, Len(t) = n + m + 1,
         \A i \in 1 .. n : t[i] = s[i],
         t[n + 1] = k + 1,
         \A i \in n + 1 .. n + m : t[i + 1] = s[i],
         Within(s, k), Distinct(s)
  PROVE  Within(t, k + 1) /\ Distinct(t)
  <1>1. ASSUME NEW i \in 1 .. n + m + 1, i # n + 1
        PROVE  \E x \in 1 .. n + m : /\ x = (IF i <= n THEN i ELSE i - 1)
                                     /\ t[i] = s[x] /\ s[x] \in 1 .. k
    <2>1. CASE i <= n
      <3>1. i \in 1 .. n /\ i \in 1 .. n + m
        BY <2>1
      <3>2. t[i] = s[i] /\ s[i] \in 1 .. k
        BY <3>1 DEF Within
      <3> QED
        BY <2>1, <3>1, <3>2
    <2>2. CASE ~(i <= n)
      <3>1. i - 1 \in n + 1 .. n + m /\ i - 1 \in 1 .. n + m /\ (i - 1) + 1 = i
        BY <1>1, <2>2
      <3>2. t[(i - 1) + 1] = s[i - 1] /\ s[i - 1] \in 1 .. k
        BY <3>1 DEF Within
      <3> QED
        BY <2>2, <3>1, <3>2
    <2> QED
      BY <2>1, <2>2
  <1>2. Within(t, k + 1)
    <2> SUFFICES ASSUME NEW i \in 1 .. n + m + 1 PROVE t[i] \in 1 .. k + 1
      BY DEF Within
    <2>1. CASE i = n + 1
      BY <2>1
    <2>2. CASE i # n + 1
      <3>1. t[i] \in 1 .. k
        BY <1>1, <2>2
      <3> QED
        BY <3>1
    <2> QED
      BY <2>1, <2>2
  <1>3. ASSUME NEW i \in 1 .. n + m + 1, NEW j \in 1 .. n + m + 1, i < j
        PROVE  t[i] # t[j]
    <2>1. CASE i = n + 1
      BY <1>1, <1>3, <2>1
    <2>2. CASE j = n + 1
      BY <1>1, <1>3, <2>2
    <2>3. CASE i # n + 1 /\ j # n + 1
      <3>1. PICK x \in 1 .. n + m : x = (IF i <= n THEN i ELSE i - 1) /\ t[i] = s[x]
        BY <1>1, <2>3
      <3>2. PICK y \in 1 .. n + m : y = (IF j <= n THEN j ELSE j - 1) /\ t[j] = s[y]
        BY <1>1, <2>3
      <3>3. x # y
        BY <1>3, <2>3, <3>1, <3>2
      <3>4. s[x] # s[y]
        BY <3>3 DEF Distinct
      <3> QED
        BY <3>1, <3>2, <3>4
    <2> QED
      BY <2>1, <2>2, <2>3
  <1>4. Distinct(t)
    <2> SUFFICES ASSUME NEW i \in 1 .. n + m + 1, NEW j \in 1 .. n + m + 1, i # j
                 PROVE  t[i] # t[j]
      BY DEF Distinct
    <2>1. i < j \/ j < i
      OBVIOUS
    <2> QED
      BY <1>3, <2>1
  <1> QED
    BY <1>2, <1>4

(* Numbers beyond all earlier ones may follow them. *)
LEMMA AppendRun ==
  ASSUME NEW s \in Seq(Nat), NEW k \in Nat, NEW l \in Nat, NEW m \in Nat,
         k <= l, Within(s, k)
  PROVE  /\ s \o Run(l, m) \in Seq(Nat)
         /\ Within(s \o Run(l, m), l + m)
         /\ Increasing(s) => Increasing(s \o Run(l, m))
         /\ Distinct(s) => Distinct(s \o Run(l, m))
  <1>a. PICK t \in Seq(Nat) : t = s \o Run(l, m)
    BY RunType, ConcatEntries
  <1>b. PICK n \in Nat : n = Len(s)
    OBVIOUS
  <1>c. /\ Len(t) = n + m
        /\ \A i \in 1 .. n : t[i] = s[i]
        /\ \A i \in 1 .. m : t[n + i] = l + i
    <2>1. /\ Run(l, m) \in Seq(Nat) /\ Len(Run(l, m)) = m
          /\ \A i \in 1 .. m : Run(l, m)[i] = l + i
      BY RunType
    <2>2. /\ Len(s \o Run(l, m)) = Len(s) + Len(Run(l, m))
          /\ \A i \in 1 .. Len(s) : (s \o Run(l, m))[i] = s[i]
          /\ \A i \in 1 .. Len(Run(l, m)) :
               (s \o Run(l, m))[Len(s) + i] = Run(l, m)[i]
      BY <2>1, ConcatEntries
    <2> QED
      BY <1>a, <1>b, <2>1, <2>2
  <1>d. ASSUME NEW i \in n + 1 .. n + m
        PROVE  t[i] = l + (i - n)
    <2>1. i - n \in 1 .. m /\ n + (i - n) = i
      OBVIOUS
    <2> QED
      BY <1>c, <2>1
  <1>e. /\ Len(s) = n /\ Len(t) = n + m
        /\ \A i \in 1 .. n : t[i] = s[i]
        /\ \A i \in n + 1 .. n + m : t[i] = l + (i - n)
    BY <1>b, <1>c, <1>d
  <1> USE <1>e
  <1>1. Within(t, l + m)
    <2> SUFFICES ASSUME NEW i \in 1 .. n + m PROVE t[i] \in 1 .. l + m
      BY DEF Within
    <2>1. CASE i \in 1 .. n
      BY <2>1 DEF Within
    <2>2. CASE i \in n + 1 .. n + m
      BY <2>2
    <2> QED
      BY <2>1, <2>2
  <1>2. ASSUME NEW i \in 1 .. n + m, NEW j \in 1 .. n + m, i < j
        PROVE  /\ Increasing(s) => t[i] < t[j]
               /\ Distinct(s) => t[i] # t[j]
    <2>1. CASE j \in 1 .. n
      <3>1. i \in 1 .. n /\ t[i] = s[i] /\ t[j] = s[j]
        BY <1>2, <2>1
      <3> QED
        BY <1>2, <2>1, <3>1 DEF Increasing, Distinct
    <2>2. CASE j \in n + 1 .. n + m /\ i \in 1 .. n
      <3>1. t[i] \in 1 .. k
        BY <2>2 DEF Within
      <3>2. t[j] > l
        BY <2>2
      <3> QED
        BY <3>1, <3>2
    <2>3. CASE i \in n + 1 .. n + m
      BY <1>2, <2>3
    <2> QED
      BY <1>2, <2>1, <2>2, <2>3
  <1>3. Increasing(s) => Increasing(t)
    BY <1>2 DEF Increasing
  <1>4. Distinct(s) => Distinct(t)
    <2> SUFFICES ASSUME Distinct(s), NEW i \in 1 .. n + m, NEW j \in 1 .. n + m, i # j
                 PROVE  t[i] # t[j]
      BY DEF Distinct
    <2> QED
      BY <1>2
  <1> QED
    BY <1>a, <1>1, <1>3, <1>4

(***************************************************************************)
(* Eviction: entries missing from the middle disturb neither the order nor *)
(* the distinctness of the others.                                         *)
(***************************************************************************)
LEMMA DropMiddle ==
  ASSUME NEW a \in Seq(Nat), NEW b \in Seq(Nat), NEW c \in Seq(Nat), NEW d \in Nat,
         NEW k \in Nat,
         Len(b) = Len(c) + d, \A i \in 1 .. Len(c) : c[i] = b[d + i]
  PROVE  /\ Within(a \o b, k) => Within(a \o c, k)
         /\ Increasing(a \o b) => Increasing(a \o c)
         /\ Distinct(a \o b) => Distinct(a \o c)
  <1>a. PICK s \in Seq(Nat) : s = a \o b
    BY ConcatEntries
  <1>b. PICK t \in Seq(Nat) : t = a \o c
    BY ConcatEntries
  <1>c. PICK n \in Nat : n = Len(a)
    OBVIOUS
  <1>d. PICK m \in Nat : m = Len(c)
    OBVIOUS
  <1>e. /\ Len(s) = n + m + d
        /\ \A i \in 1 .. n : s[i] = a[i]
        /\ \A i \in 1 .. m + d : s[n + i] = b[i]
    <2>1. /\ Len(s) = n + Len(b)
          /\ \A i \in 1 .. n : s[i] = a[i]
          /\ \A i \in 1 .. Len(b) : s[n + i] = b[i]
      <3>1. /\ Len(a \o b) = Len(a) + Len(b)
            /\ \A i \in 1 .. Len(a) : (a \o b)[i] = a[i]
            /\ \A i \in 1 .. Len(b) : (a \o b)[Len(a) + i] = b[i]
        BY ConcatEntries
      <3> QED
        BY <1>a, <1>c, <3>1
    <2>2. Len(b) = m + d /\ n + (m + d) = n + m + d
      BY <1>d
    <2> QED
      BY <2>1, <2>2
  <1>f. /\ Len(t) = n + m
        /\ \A i \in 1 .. n : t[i] = a[i]
        /\ \A i \in 1 .. m : t[n + i] = c[i]
    BY <1>b, <1>c, <1>d, ConcatEntries
  <1>g. ASSUME NEW i \in n + 1 .. n + m + d
        PROVE  s[i] = b[i - n]
    <2>1. i - n \in 1 .. m + d /\ n + (i - n) = i
      OBVIOUS
    <2> QED
      BY <1>e, <2>1
  <1>h. ASSUME NEW i \in n + 1 .. n + m
        PROVE  t[i] = c[i - n]
    <2>1. i - n \in 1 .. m /\ n + (i - n) = i
      OBVIOUS
    <2> QED
      BY <1>f, <2>1
  <1>i. /\ \A i \in 1 .. n : s[i] = a[i] /\ t[i] = a[i]
        /\ \A i \in n + 1 .. n + m + d : s[i] = b[i - n]
        /\ \A i \in n + 1 .. n + m : t[i] = c[i - n]
        /\ \A i \in 1 .. m : c[i] = b[d + i]
    BY <1>d, <1>e, <1>f, <1>g, <1>h
  <1> USE <1>i
  <1> DEFINE from == [i \in 1 .. n + m |-> IF i <= n THEN i ELSE i + d]
  <1>1. /\ from \in [1 .. n + m -> 1 .. n + m + d]
        /\ \A i, j \in 1 .. n + m : i < j => from[i] < from[j]
        /\ \A i \in 1 .. n + m : ~(i <= n) =>
              i - n \in 1 .. m /\ i \in n + 1 .. n + m /\ from[i] = i + d
        /\ \A i \in 1 .. n + m : i <= n => from[i] = i
    BY SkipPlaces
  <1> HIDE DEF from
  <1>2. ASSUME NEW i \in 1 .. n + m
        PROVE  t[i] = s[from[i]]
    <2>1. CASE i <= n
      <3>1. from[i] = i /\ i \in 1 .. n
        BY <1>1, <2>1
      <3> QED
        BY <3>1
    <2>2. CASE ~(i <= n)
      <3>1. i - n \in 1 .. m /\ i \in n + 1 .. n + m /\ from[i] = i + d
        BY <1>1, <2>2
      <3>2. t[i] = b[d + (i - n)]
        BY <3>1
      <3>3. i + d \in n + 1 .. n + m + d /\ (i + d) - n = d + (i - n)
        BY <3>1
      <3>4. s[i + d] = b[d + (i - n)]
        BY <3>3
      <3> QED
        BY <3>1, <3>2, <3>4
    <2> QED
      BY <2>1, <2>2
  <1>3. /\ from \in [1 .. Len(t) -> 1 .. Len(s)]
        /\ \A i \in 1 .. Len(t) : t[i] = s[from[i]]
        /\ \A i, j \in 1 .. Len(t) : i < j => from[i] < from[j]
    BY <1>e, <1>f, <1>1, <1>2
  <1>4. /\ Within(s, k) => Within(t, k)
        /\ Increasing(s) => Increasing(t)
        /\ Distinct(s) => Distinct(t)
    BY <1>3, Embedded
  <1> QED
    BY <1>a, <1>b, <1>4

(* A new largest number may enter at the front of b. *)
LEMMA InsertNew ==
  ASSUME NEW a \in Seq(Nat), NEW b \in Seq(Nat), NEW k \in Nat,
         Within(a \o b, k), Distinct(a \o b)
  PROVE  /\ Within(a \o (<<k + 1>> \o b), k + 1)
         /\ Distinct(a \o (<<k + 1>> \o b))
  <1> DEFINE s == a \o b
             u == <<k + 1>> \o b
             t == a \o u
  <1>0. PICK n \in Nat : n = Len(a)
    OBVIOUS
  <1>1. PICK m \in Nat : m = Len(b)
    OBVIOUS
  <1>2. /\ s \in Seq(Nat) /\ Len(s) = n + m
        /\ \A i \in 1 .. n : s[i] = a[i]
        /\ \A i \in 1 .. m : s[n + i] = b[i]
    BY <1>0, <1>1, ConcatEntries
  <1>3. u \in Seq(Nat) /\ Len(u) = m + 1
        /\ u[1] = k + 1 /\ \A i \in 1 .. m : u[i + 1] = b[i]
    BY <1>1
  <1> HIDE DEF u
  <1>4. /\ t \in Seq(Nat) /\ Len(t) = n + m + 1
        /\ \A i \in 1 .. n : t[i] = a[i]
        /\ \A i \in 1 .. m + 1 : t[n + i] = u[i]
    <2>1. /\ t \in Seq(Nat) /\ Len(t) = n + Len(u)
          /\ \A i \in 1 .. n : t[i] = a[i]
          /\ \A i \in 1 .. Len(u) : t[n + i] = u[i]
      BY <1>0, <1>3, ConcatEntries
    <2>2. Len(u) = m + 1 /\ n + (m + 1) = n + m + 1
      BY <1>3
    <2> QED
      BY <2>1, <2>2
  <1> HIDE DEF s, t
  <1>5. t[n + 1] = k + 1
    BY <1>3, <1>4
  <1>6. ASSUME NEW i \in n + 1 .. n + m
        PROVE  t[i + 1] = s[i]
    <2>1. /\ i - n \in 1 .. m /\ n + (i - n) = i
          /\ (i - n) + 1 \in 1 .. m + 1 /\ n + ((i - n) + 1) = i + 1
      OBVIOUS
    <2>2. s[i] = b[i - n]
      BY <1>2, <2>1
    <2>3. t[n + ((i - n) + 1)] = u[(i - n) + 1]
      BY <1>4, <2>1
    <2> QED
      BY <1>3, <2>1, <2>2, <2>3
  <1>7. Within(s, k) /\ Distinct(s)
    BY DEF s
  <1>8. Within(t, k + 1) /\ Distinct(t)
    <2>1. /\ s \in Seq(Nat) /\ t \in Seq(Nat)
          /\ Len(s) = n + m /\ Len(t) = n + m + 1
          /\ \A i \in 1 .. n : t[i] = s[i]
          /\ \A i \in n + 1 .. n + m : t[i + 1] = s[i]
      BY <1>2, <1>4, <1>6
    <2> QED
      BY <2>1, <1>5, <1>7, NewPlace
  <1> QED
    BY <1>8 DEF t, u

(* The head and the tail of a run. *)
LEMMA RunTail ==
  ASSUME NEW a \in Nat, NEW m \in Nat \ {0}
  PROVE  /\ Run(a, m) # << >> /\ Head(Run(a, m)) = a + 1
         /\ Tail(Run(a, m)) = Run(a + 1, m - 1)
         /\ Run(a, 1) = <<a + 1>>
  <1>1. PICK r \in Seq(Nat) : r = Run(a, m) /\ Len(r) = m /\ \A i \in 1 .. m : r[i] = a + i
    BY RunType
  <1>2. PICK q \in Seq(Nat) : /\ q = Run(a + 1, m - 1) /\ Len(q) = m - 1
                              /\ \A i \in 1 .. m - 1 : q[i] = a + 1 + i
    <2>1. a + 1 \in Nat /\ m - 1 \in Nat
      OBVIOUS
    <2> QED
      BY <2>1, RunType
  <1>3. r # << >> /\ Head(r) = a + 1
    BY <1>1
  <1>4. /\ Tail(r) \in Seq(Nat) /\ Len(Tail(r)) = m - 1
        /\ \A i \in 1 .. m - 1 : Tail(r)[i] = r[i + 1]
    BY <1>1
  <1>5. \A i \in 1 .. m - 1 : Tail(r)[i] = q[i]
    <2> TAKE i \in 1 .. m - 1
    <2>1. i + 1 \in 1 .. m /\ a + (i + 1) = a + 1 + i
      OBVIOUS
    <2> QED
      BY <1>1, <1>2, <1>4, <2>1
  <1>6. Tail(r) = q
    BY <1>2, <1>4, <1>5, SameSeq
  <1>7. Run(a, 1) = <<a + 1>>
    BY DEF Run
  <1> QED
    BY <1>1, <1>2, <1>3, <1>6, <1>7

-----------------------------------------------------------------------------
(* The receive queue *)

(* enqueue_rx keeps the newest packets, all of them when they fit. *)
LEMMA EnqueueDrops ==
  ASSUME NEW q \in Seq(Nat), NEW p \in Seq(Nat)
  PROVE  /\ EnqueueAll(q, p) \in Seq(Nat)
         /\ \E d \in Nat :
              /\ Len(q \o p) = Len(EnqueueAll(q, p)) + d
              /\ \A i \in 1 .. Len(EnqueueAll(q, p)) :
                   EnqueueAll(q, p)[i] = (q \o p)[d + i]
         /\ Len(q \o p) <= RxRoom => EnqueueAll(q, p) = q \o p
  <1> USE RxRoomAssumption
  <1>1. PICK all \in Seq(Nat) : all = q \o p
    BY ConcatEntries
  <1>2. EnqueueAll(q, p) = IF Len(all) <= RxRoom THEN all
                           ELSE SubSeq(all, Len(all) - RxRoom + 1, Len(all))
    BY <1>1 DEF EnqueueAll
  <1>3. CASE Len(all) <= RxRoom
    <2>1. /\ Len(all) = Len(all) + 0
          /\ \A i \in 1 .. Len(all) : all[i] = all[0 + i]
      OBVIOUS
    <2> QED
      BY <1>1, <1>2, <1>3, <2>1
  <1>4. CASE ~(Len(all) <= RxRoom)
    <2>0. Len(all) - RxRoom \in 0 .. Len(all)
      BY <1>4
    <2>1. PICK d \in 0 .. Len(all) : d = Len(all) - RxRoom
      BY <2>0
    <2>2. PICK e \in Seq(Nat) : e = SubSeq(all, d + 1, Len(all))
      BY DropEntries
    <2>3. Len(e) = Len(all) - d /\ \A i \in 1 .. Len(all) - d : e[i] = all[d + i]
      BY <2>2, DropEntries
    <2>4. EnqueueAll(q, p) = e
      BY <1>2, <1>4, <2>1, <2>2
    <2>5. Len(all) = Len(e) + d /\ d \in Nat /\ \A i \in 1 .. Len(e) : e[i] = all[d + i]
      BY <2>3
    <2> QED
      BY <1>1, <1>4, <2>4, <2>5
  <1> QED
    BY <1>3, <1>4

(***************************************************************************)
(* Behind what was dispatched, a queue that evicts is as ordered and as    *)
(* free of repetitions as one that would not.                              *)
(***************************************************************************)
LEMMA EnqueueKeeps ==
  ASSUME NEW a \in Seq(Nat), NEW q \in Seq(Nat), NEW p \in Seq(Nat), NEW k \in Nat
  PROVE  /\ Within((a \o q) \o p, k) => Within(a \o EnqueueAll(q, p), k)
         /\ Increasing((a \o q) \o p) => Increasing(a \o EnqueueAll(q, p))
         /\ Distinct((a \o q) \o p) => Distinct(a \o EnqueueAll(q, p))
  <1>1. PICK all \in Seq(Nat) : all = q \o p
    BY ConcatEntries
  <1>2. (a \o q) \o p = a \o all
    BY <1>1, ConcatAssoc
  <1>3. PICK e \in Seq(Nat) : e = EnqueueAll(q, p)
    BY EnqueueDrops
  <1>4. PICK d \in Nat : Len(all) = Len(e) + d /\ \A i \in 1 .. Len(e) : e[i] = all[d + i]
    <2>1. \E d \in Nat :
              /\ Len(q \o p) = Len(EnqueueAll(q, p)) + d
              /\ \A i \in 1 .. Len(EnqueueAll(q, p)) :
                   EnqueueAll(q, p)[i] = (q \o p)[d + i]
      BY EnqueueDrops
    <2> QED
      BY <1>1, <1>3, <2>1
  <1>5. /\ Within(a \o all, k) => Within(a \o e, k)
        /\ Increasing(a \o all) => Increasing(a \o e)
        /\ Distinct(a \o all) => Distinct(a \o e)
    BY <1>4, DropMiddle
  <1> QED
    BY <1>2, <1>3, <1>5

(* The receiver buffers finitely many frames. *)
LEMMA BufferedFinite == ASSUME OrderedInv PROVE IsFiniteSet(buffered)
  <1> DEFINE S == {m \in Seqs : \E g \in buffered : g.seq = m}
             frame == [m \in S |-> [seq |-> m, pkt |-> m]]
  <1>1. \A g \in buffered : g.seq \in Seqs /\ g = [seq |-> g.seq, pkt |-> g.seq]
    BY DEF OrderedInv, TypeOK, FramesNumbered, Frames
  <1>2. frame \in Surjection(S, buffered)
    BY <1>1 DEF Surjection
  <1>3. IsFiniteSet(S)
    <2>1. IsFiniteSet(Seqs)
      BY FS_Interval, SeqMaxAssumption DEF Seqs
    <2> QED
      BY <2>1, FS_Subset
  <1> QED
    BY <1>2, <1>3, FS_Surjection

(***************************************************************************)
(* What one frame lets through continues the stream where it stood, and is *)
(* never longer than the window while nothing was given up.                *)
(***************************************************************************)
LEMMA PassedRun ==
  ASSUME NoWrap, OrderedInv, WindowInv, NEW f \in wire, Ingress(f)
  PROVE  \E m \in Nat : /\ Passed = Run(Len(released), m)
                        /\ Len(released') = Len(released) + m
                        /\ NothingGivenUp => m <= MaxPending
  <1>0. released \in Seq(Nat) /\ Len(released) \in Nat
    BY BoundsAssumption DEF OrderedInv, TypeOK, Pkts
  <1>1. CASE released' = released
    <2>1. Passed = << >>
      BY <1>0, <1>1 DEF Passed
    <2>2. Run(Len(released), 0) = << >>
      BY DEF Run
    <2> QED
      BY <1>0, <1>1, <2>1, <2>2, MaxPendingAssumption
  <1>2. CASE IngressNext(f)
    <2>1. PICK n \in Nat :
              /\ released' = released \o [i \in 1 .. n + 1 |-> Len(released) + i]
              /\ n <= Cardinality(buffered)
              /\ \A i \in 1 .. n : \E g \in buffered : g.seq = expected_seq + i
      BY <1>2, NextRun
    <2>2. PICK k \in Nat : k = Len(released)
      BY <1>0
    <2>3. PICK r \in Seq(Nat) : r = Run(k, n + 1) /\ Len(r) = n + 1
      BY RunType
    <2>4. released' = released \o r
      BY <2>1, <2>2, <2>3 DEF Run
    <2>5. Len(released \o r) = k + (n + 1)
      BY <1>0, <2>2, <2>3
    <2>6. SubSeq(released \o r, k + 1, k + (n + 1)) = r
      BY <1>0, <2>2, <2>3
    <2>7. NothingGivenUp => n + 1 <= MaxPending
      <3> SUFFICES ASSUME NothingGivenUp PROVE n + 1 <= MaxPending
        OBVIOUS
      <3>1. Cardinality(buffered) < MaxPending
        BY RoomForOne DEF WindowInv
      <3>2. Cardinality(buffered) \in Nat
        BY BufferedFinite, FS_CardinalityType
      <3> QED
        BY <2>1, <3>1, <3>2, MaxPendingAssumption
    <2>8. Passed = r /\ Len(released') = k + (n + 1)
      BY <2>2, <2>4, <2>5, <2>6 DEF Passed
    <2>9. n + 1 \in Nat
      OBVIOUS
    <2> QED
      BY <2>2, <2>3, <2>7, <2>8, <2>9
  <1>3. IngressUnordered(f) \/ IngressOld(f) \/ IngressAhead(f) \/ IngressNext(f)
    BY DEF Ingress
  <1>4. ~IngressUnordered(f)
    BY DEF IngressUnordered, NoWrap
  <1>5. IngressOld(f) \/ IngressAhead(f) => released' = released
    BY DEF IngressOld, IngressAhead, rxVars
  <1> QED
    BY <1>1, <1>2, <1>3, <1>4, <1>5

-----------------------------------------------------------------------------
(* The invariant *)

(***************************************************************************)
(* Packets dispatched or queued were released by process_reliable_ingress, *)
(* none of them twice; in order, unless released packets pass the frame    *)
(* that released them.                                                     *)
(***************************************************************************)
LineIsReleased ==
    /\ dispatched \in Seq(Nat) /\ rx_queue \in Seq(Nat)
    /\ Within(Line, Len(released))
    /\ Distinct(Line)
    /\ entry_point # "rx_to_queue" => Increasing(Line)

(* Room for everything one frame may release behind itself. *)
RoomForRun == entry_point = "receive" /\ RxRoom >= MaxPending - 1

(***************************************************************************)
(* seds_router_receive_serialized_from_side leaves an empty queue behind,  *)
(* and with enough room has dispatched all that was released.              *)
(***************************************************************************)
DirectIsDispatched ==
    /\ entry_point = "receive" => rx_queue = << >>
    /\ RoomForRun /\ NothingGivenUp =>
         \A p \in 1 .. Len(released) : \E i \in 1 .. Len(dispatched) : dispatched[i] = p

IngressInv == LineIsReleased /\ DirectIsDispatched

(* A router before its first frame satisfies the invariant. *)
LEMMA IngressInvInit == IngressInit => IngressInv
  <1> SUFFICES ASSUME IngressInit PROVE IngressInv
    OBVIOUS
  <1>1. /\ dispatched = << >> /\ rx_queue = << >> /\ released = << >>
        /\ << >> \o << >> = << >> /\ << >> \in Seq(Nat) /\ Len(<< >>) = 0
    BY DEF IngressInit, Init
  <1>2. Line = << >> /\ Len(Line) = 0 /\ Len(released) = 0
    BY <1>1 DEF Line
  <1>3. LineIsReleased
    BY <1>1, <1>2 DEF LineIsReleased, Within, Increasing, Distinct
  <1>4. DirectIsDispatched
    BY <1>1, <1>2 DEF DirectIsDispatched
  <1> QED
    BY <1>3, <1>4 DEF IngressInv

(* A step that leaves the line and the released packets keeps the invariant. *)
LEMMA LineStays ==
  ASSUME IngressInv, UNCHANGED <<entry_point, rx_queue, dispatched>>,
         Len(released') = Len(released), NothingGivenUp' => NothingGivenUp
  PROVE  IngressInv'
  <1>1. Line' = Line
    BY DEF Line
  <1>2. RoomForRun' <=> RoomForRun
    BY DEF RoomForRun
  <1>3. LineIsReleased'
    BY <1>1 DEF IngressInv, LineIsReleased, Within, Increasing, Distinct
  <1>4. DirectIsDispatched'
    BY <1>2 DEF IngressInv, DirectIsDispatched
  <1> QED
    BY <1>3, <1>4 DEF IngressInv

(* A step of the sender, the link or the control handlers. *)
LEMMA LineLink == ASSUME IngressInv, LinkStep PROVE IngressInv'
  <1>1. released' = released /\ (NothingGivenUp' => NothingGivenUp)
    <2>1. CASE SendStart
      BY <2>1 DEF SendStart, rxVars, NothingGivenUp
    <2>2. CASE SendReturn
      BY <2>2 DEF SendReturn, rxVars, NothingGivenUp
    <2>3. CASE SendRefused
      BY <2>3 DEF SendRefused, rxVars, NothingGivenUp
    <2>4. ASSUME NEW s, Handle(s)
          PROVE  released' = released /\ (NothingGivenUp' => NothingGivenUp)
      BY <2>4 DEF Handle, HandleAck, HandlePartialAck, HandlePacketRequest, rxVars,
                  NothingGivenUp
    <2>5. ASSUME NEW due, Timeouts(due)
          PROVE  released' = released /\ (NothingGivenUp' => NothingGivenUp)
      BY <2>5 DEF Timeouts, rxVars, NothingGivenUp
    <2>6. ASSUME NEW c, LoseControl(c)
          PROVE  released' = released /\ (NothingGivenUp' => NothingGivenUp)
      BY <2>6 DEF LoseControl, rxVars, NothingGivenUp
    <2>7. ASSUME NEW f, LoseFrame(f)
          PROVE  released' = released /\ (NothingGivenUp' => NothingGivenUp)
      BY <2>7 DEF LoseFrame, rxVars, NothingGivenUp
    <2> QED
      BY <2>1, <2>2, <2>3, <2>4, <2>5, <2>6, <2>7 DEF LinkStep
  <1>2. UNCHANGED <<entry_point, rx_queue, dispatched>>
    BY DEF LinkStep, ingressVars
  <1> QED
    BY <1>1, <1>2, LineStays

(* The head of the queue moves to the dispatched packets: the line stays. *)
LEMMA MoveHead ==
  ASSUME NEW d \in Seq(Nat), NEW q \in Seq(Nat), q # << >>
  PROVE  /\ Append(d, Head(q)) \in Seq(Nat) /\ Tail(q) \in Seq(Nat)
         /\ Append(d, Head(q)) \o Tail(q) = d \o q
  <1>1. /\ Append(d, Head(q)) \in Seq(Nat) /\ Tail(q) \in Seq(Nat)
        /\ Len(Append(d, Head(q)) \o Tail(q)) = Len(d \o q)
    OBVIOUS
  <1>2. ASSUME NEW i \in 1 .. Len(d \o q)
        PROVE  (Append(d, Head(q)) \o Tail(q))[i] = (d \o q)[i]
    OBVIOUS
  <1> QED
    BY <1>1, <1>2

(* One turn of process_rx_queue. *)
LEMMA LineProcess == ASSUME IngressInv, ProcessRx PROVE IngressInv'
  <1>1. /\ rx_queue # << >> /\ dispatched' = Append(dispatched, Head(rx_queue))
        /\ rx_queue' = Tail(rx_queue) /\ entry_point' = entry_point
        /\ released' = released
    BY DEF ProcessRx, vars
  <1>2. /\ dispatched \in Seq(Nat) /\ rx_queue \in Seq(Nat)
    BY DEF IngressInv, LineIsReleased
  <1>3. dispatched' \in Seq(Nat) /\ rx_queue' \in Seq(Nat) /\ Line' = Line
    BY <1>1, <1>2, MoveHead DEF Line
  <1>4. LineIsReleased'
    BY <1>1, <1>3 DEF IngressInv, LineIsReleased, Within, Increasing, Distinct
  <1>5. entry_point # "receive"
    BY <1>1 DEF IngressInv, DirectIsDispatched
  <1>6. DirectIsDispatched'
    BY <1>1, <1>5 DEF DirectIsDispatched, RoomForRun
  <1> QED
    BY <1>4, <1>6 DEF IngressInv

(* Packets that enter at the back of the queue keep the line. *)
LEMMA EnterBack ==
  ASSUME NEW d \in Seq(Nat), NEW q \in Seq(Nat), NEW k \in Nat, NEW l \in Nat,
         NEW m \in Nat, k <= l, Within(d \o q, k)
  PROVE  /\ EnqueueAll(q, Run(l, m)) \in Seq(Nat)
         /\ Within(d \o EnqueueAll(q, Run(l, m)), l + m)
         /\ Increasing(d \o q) => Increasing(d \o EnqueueAll(q, Run(l, m)))
         /\ Distinct(d \o q) => Distinct(d \o EnqueueAll(q, Run(l, m)))
  <1>1. PICK r \in Seq(Nat) : r = Run(l, m)
    BY RunType
  <1>2. PICK s \in Seq(Nat) : s = d \o q
    BY ConcatEntries
  <1>3. /\ Within(s \o r, l + m)
        /\ Increasing(s) => Increasing(s \o r)
        /\ Distinct(s) => Distinct(s \o r)
    BY <1>1, <1>2, AppendRun
  <1>4. l + m \in Nat
    OBVIOUS
  <1>5. /\ EnqueueAll(q, r) \in Seq(Nat)
        /\ Within((d \o q) \o r, l + m) => Within(d \o EnqueueAll(q, r), l + m)
        /\ Increasing((d \o q) \o r) => Increasing(d \o EnqueueAll(q, r))
        /\ Distinct((d \o q) \o r) => Distinct(d \o EnqueueAll(q, r))
    BY <1>4, EnqueueDrops, EnqueueKeeps
  <1> QED
    BY <1>1, <1>2, <1>3, <1>5

(* enqueue_rx_front of a new packet keeps the line free of repetitions. *)
LEMMA EnterFront ==
  ASSUME NEW d \in Seq(Nat), NEW q \in Seq(Nat), NEW k \in Nat,
         Within(d \o q, k), Distinct(d \o q)
  PROVE  /\ EnqueueFront(q, k + 1) \in Seq(Nat)
         /\ Within(d \o EnqueueFront(q, k + 1), k + 1)
         /\ Distinct(d \o EnqueueFront(q, k + 1))
  <1>1. PICK b \in Seq(Nat) : b = IF Len(q) < RxRoom THEN q ELSE Tail(q)
    <2>1. CASE Len(q) < RxRoom
      BY <2>1
    <2>2. CASE ~(Len(q) < RxRoom)
      <3>1. Len(q) # 0
        BY <2>2, RxRoomAssumption
      <3>2. Tail(q) \in Seq(Nat)
        BY <3>1
      <3> QED
        BY <2>2, <3>2
    <2> QED
      BY <2>1, <2>2
  <1>2. Within(d \o b, k) /\ Distinct(d \o b)
    <2>1. CASE Len(q) < RxRoom
      BY <1>1, <2>1
    <2>2. CASE ~(Len(q) < RxRoom)
      <3>1. Len(q) # 0 /\ b = Tail(q)
        BY <1>1, <2>2, RxRoomAssumption
      <3>2. Len(q) = Len(b) + 1 /\ \A i \in 1 .. Len(b) : b[i] = q[1 + i]
        BY <3>1
      <3> QED
        BY <3>2, DropMiddle
    <2> QED
      BY <2>1, <2>2
  <1>3. EnqueueFront(q, k + 1) = <<k + 1>> \o b
    BY <1>1 DEF EnqueueFront
  <1>4. <<k + 1>> \o b \in Seq(Nat)
    OBVIOUS
  <1> QED
    BY <1>2, <1>3, <1>4, InsertNew

(* A frame comes in at a relay. *)
LEMMA LineRelay ==
  ASSUME NoWrap, OrderedInv, WindowInv, IngressInv, NEW f \in wire, RelayRxSerialized(f)
  PROVE  IngressInv'
  <1>1. /\ entry_point = "relay" /\ entry_point' = entry_point /\ dispatched' = dispatched
        /\ Ingress(f) /\ rx_queue' = EnqueueAll(rx_queue, Passed)
    BY DEF RelayRxSerialized
  <1>2. PICK m \in Nat : /\ Passed = Run(Len(released), m)
                         /\ Len(released') = Len(released) + m
    BY <1>1, PassedRun
  <1>3. PICK k \in Nat : k = Len(released)
    BY BoundsAssumption DEF OrderedInv, TypeOK
  <1>4. /\ dispatched \in Seq(Nat) /\ rx_queue \in Seq(Nat)
        /\ Within(dispatched \o rx_queue, k) /\ Distinct(dispatched \o rx_queue)
        /\ Increasing(dispatched \o rx_queue)
    BY <1>1, <1>3 DEF IngressInv, LineIsReleased, Line
  <1>5. PICK q \in Seq(Nat) :
              /\ q = EnqueueAll(rx_queue, Run(k, m))
              /\ Within(dispatched \o q, k + m)
              /\ Increasing(dispatched \o q) /\ Distinct(dispatched \o q)
    <2>1. k <= k
      OBVIOUS
    <2>2. /\ EnqueueAll(rx_queue, Run(k, m)) \in Seq(Nat)
          /\ Within(dispatched \o EnqueueAll(rx_queue, Run(k, m)), k + m)
          /\ Increasing(dispatched \o EnqueueAll(rx_queue, Run(k, m)))
          /\ Distinct(dispatched \o EnqueueAll(rx_queue, Run(k, m)))
      BY <1>4, <2>1, EnterBack
    <2> QED
      BY <2>2
  <1>6. rx_queue' = q /\ dispatched' = dispatched /\ Line' = dispatched \o q
        /\ Len(released') = k + m
    BY <1>1, <1>2, <1>3, <1>5 DEF Line
  <1>7. LineIsReleased'
    BY <1>4, <1>5, <1>6 DEF LineIsReleased, Within, Increasing, Distinct
  <1>8. DirectIsDispatched'
    BY <1>1 DEF DirectIsDispatched, RoomForRun
  <1> QED
    BY <1>7, <1>8 DEF IngressInv

(* A frame comes in to the queue of a router. *)
LEMMA LineToQueue ==
  ASSUME NoWrap, OrderedInv, WindowInv, IngressInv, NEW f \in wire, RxSerializedToQueue(f)
  PROVE  IngressInv'
  <1>1. /\ entry_point = "rx_to_queue" /\ entry_point' = entry_point
        /\ dispatched' = dispatched /\ Ingress(f)
        /\ rx_queue' = IF Passed = << >> THEN rx_queue
                       ELSE IF Tail(Passed) = << >> THEN EnqueueAll(rx_queue, Passed)
                       ELSE EnqueueAll(EnqueueFront(rx_queue, Head(Passed)), Tail(Passed))
    BY DEF RxSerializedToQueue
  <1>2. PICK m \in Nat : /\ Passed = Run(Len(released), m)
                         /\ Len(released') = Len(released) + m
    BY <1>1, PassedRun
  <1>3. PICK k \in Nat : k = Len(released)
    BY BoundsAssumption DEF OrderedInv, TypeOK
  <1>4. /\ dispatched \in Seq(Nat) /\ rx_queue \in Seq(Nat)
        /\ Within(dispatched \o rx_queue, k) /\ Distinct(dispatched \o rx_queue)
    BY <1>1, <1>3 DEF IngressInv, LineIsReleased, Line
  <1>5. \E q \in Seq(Nat) : /\ rx_queue' = q
                            /\ Within(dispatched \o q, k + m)
                            /\ Distinct(dispatched \o q)
    <2>1. CASE m = 0
      <3>1. Passed = << >> /\ k + m = k
        BY <1>2, <2>1 DEF Run
      <3> QED
        BY <1>1, <1>4, <3>1
    <2>2. CASE m # 0 /\ Tail(Passed) = << >>
      <3>1. Passed # << >>
        BY <1>2, <1>3, <2>2, RunTail
      <3>2. rx_queue' = EnqueueAll(rx_queue, Run(k, m))
        BY <1>1, <1>2, <1>3, <2>2, <3>1
      <3> QED
        BY <1>4, <3>2, EnterBack
    <2>3. CASE m # 0 /\ Tail(Passed) # << >>
      <3>1. /\ Passed # << >> /\ Head(Passed) = k + 1
            /\ Tail(Passed) = Run(k + 1, m - 1)
        BY <1>2, <1>3, <2>3, RunTail
      <3>2. PICK h \in Seq(Nat) : /\ h = EnqueueFront(rx_queue, k + 1)
                                  /\ Within(dispatched \o h, k + 1)
                                  /\ Distinct(dispatched \o h)
        BY <1>4, EnterFront
      <3>3. PICK l \in Nat : l = k + 1
        OBVIOUS
      <3>4. PICK n \in Nat : n = m - 1
        BY <2>3
      <3>5. l <= l /\ l + n = k + m
        BY <3>3, <3>4
      <3>6. Within(dispatched \o h, l) /\ Distinct(dispatched \o h)
        BY <3>2, <3>3
      <3>7. /\ EnqueueAll(h, Run(l, n)) \in Seq(Nat)
            /\ Within(dispatched \o EnqueueAll(h, Run(l, n)), l + n)
            /\ Distinct(dispatched \o EnqueueAll(h, Run(l, n)))
        BY <1>4, <3>5, <3>6, EnterBack
      <3>8. rx_queue' = EnqueueAll(h, Run(l, n))
        BY <1>1, <2>3, <3>1, <3>2, <3>3, <3>4
      <3> QED
        BY <3>5, <3>7, <3>8
    <2> QED
      BY <2>1, <2>2, <2>3
  <1>6. PICK q \in Seq(Nat) : /\ rx_queue' = q
                              /\ Within(dispatched \o q, k + m)
                              /\ Distinct(dispatched \o q)
    BY <1>5
  <1>7. Line' = dispatched \o q /\ Len(released') = k + m
    BY <1>1, <1>2, <1>3, <1>6 DEF Line
  <1>8. LineIsReleased'
    BY <1>1, <1>4, <1>6, <1>7 DEF LineIsReleased, Within, Distinct
  <1>9. DirectIsDispatched'
    BY <1>1 DEF DirectIsDispatched, RoomForRun
  <1> QED
    BY <1>8, <1>9 DEF IngressInv

(***************************************************************************)
(* A frame comes in and is handled at once, the packets it released behind *)
(* it.                                                                     *)
(***************************************************************************)
LEMMA LineReceive ==
  ASSUME NoWrap, OrderedInv, WindowInv, IngressInv, NEW f \in wire, ReceiveSerialized(f)
  PROVE  IngressInv'
  <1>1. /\ entry_point = "receive" /\ Ingress(f)
        /\ IF Passed = << >> THEN UNCHANGED ingressVars
           ELSE /\ dispatched' = (dispatched \o <<Head(Passed)>>)
                                   \o EnqueueAll(rx_queue, Tail(Passed))
                /\ rx_queue' = << >>
                /\ UNCHANGED entry_point
    BY DEF ReceiveSerialized
  <1>2. PICK m \in Nat : /\ Passed = Run(Len(released), m)
                         /\ Len(released') = Len(released) + m
                         /\ NothingGivenUp => m <= MaxPending
    BY <1>1, PassedRun
  <1>3. PICK k \in Nat : k = Len(released)
    BY BoundsAssumption DEF OrderedInv, TypeOK
  <1>4. UNCHANGED <<failed, abandoned>>
    BY <1>1 DEF Ingress, IngressUnordered, IngressOld, IngressAhead, IngressNext, TakeFrame
  <1>5. NothingGivenUp' <=> NothingGivenUp
    BY <1>4 DEF NothingGivenUp
  <1>6. CASE m = 0
    <2>1. Passed = << >> /\ Len(released') = Len(released)
      BY <1>2, <1>3, <1>6 DEF Run
    <2>2. UNCHANGED <<entry_point, rx_queue, dispatched>>
      BY <1>1, <2>1 DEF ingressVars
    <2> QED
      BY <1>5, <2>1, <2>2, LineStays
  <1>7. CASE m # 0
    <2>1. PICK l \in Nat : l = k + 1
      OBVIOUS
    <2>2. PICK n \in Nat : n = m - 1
      BY <1>7
    <2>3. /\ Passed # << >> /\ Head(Passed) = k + 1 /\ Tail(Passed) = Run(l, n)
          /\ Run(k, 1) = <<k + 1>> /\ l + n = k + m /\ l <= l
      <3>1. /\ Run(k, m) # << >> /\ Head(Run(k, m)) = k + 1
            /\ Tail(Run(k, m)) = Run(k + 1, m - 1)
            /\ Run(k, 1) = <<k + 1>>
        BY <1>7, RunTail
      <3>2. l + n = k + m /\ l <= l
        BY <2>1, <2>2
      <3> QED
        BY <1>2, <1>3, <2>1, <2>2, <3>1, <3>2
    <2>4. /\ dispatched \in Seq(Nat) /\ rx_queue = << >>
          /\ Within(dispatched, k) /\ Distinct(dispatched) /\ Increasing(dispatched)
      <3>1. dispatched \in Seq(Nat) /\ rx_queue = << >>
        BY <1>1 DEF IngressInv, LineIsReleased, DirectIsDispatched
      <3>2. Line = dispatched
        BY <3>1 DEF Line
      <3> QED
        BY <1>1, <1>3, <3>1, <3>2 DEF IngressInv, LineIsReleased
    <2>5. PICK a \in Seq(Nat) : /\ a = dispatched \o <<k + 1>>
                                /\ Within(a, l) /\ Distinct(a) /\ Increasing(a)
      <3>1. k <= k /\ 1 \in Nat
        OBVIOUS
      <3>2. /\ dispatched \o Run(k, 1) \in Seq(Nat)
            /\ Within(dispatched \o Run(k, 1), k + 1)
            /\ Distinct(dispatched \o Run(k, 1)) /\ Increasing(dispatched \o Run(k, 1))
        BY <2>4, <3>1, AppendRun
      <3> QED
        BY <2>1, <2>3, <3>2
    <2>6. PICK none \in Seq(Nat) : none = << >>
      <3>1. << >> \in Seq(Nat)
        OBVIOUS
      <3> QED
        BY <3>1
    <2>7. a \o none = a
      BY <2>6
    <2>8. PICK e \in Seq(Nat) : /\ e = EnqueueAll(none, Run(l, n))
                                /\ Within(a \o e, l + n)
                                /\ Increasing(a \o e) /\ Distinct(a \o e)
      <3>1. Within(a \o none, l) /\ Distinct(a \o none) /\ Increasing(a \o none)
        BY <2>5, <2>7
      <3>2. /\ EnqueueAll(none, Run(l, n)) \in Seq(Nat)
            /\ Within(a \o EnqueueAll(none, Run(l, n)), l + n)
            /\ Increasing(a \o EnqueueAll(none, Run(l, n)))
            /\ Distinct(a \o EnqueueAll(none, Run(l, n)))
        BY <2>3, <3>1, EnterBack
      <3> QED
        BY <3>2
    <2>9. PICK d \in Seq(Nat) : d = a \o e
      BY ConcatEntries
    <2>10. /\ dispatched' = d /\ rx_queue' = << >> /\ entry_point' = "receive"
           /\ Len(released') = k + m
      BY <1>1, <1>2, <1>3, <2>3, <2>4, <2>5, <2>6, <2>8, <2>9
    <2>11. Line' = d
      <3>1. d \o << >> = d
        OBVIOUS
      <3> QED
        BY <2>10, <3>1 DEF Line
    <2>12. LineIsReleased'
      <3>1. Within(d, k + m) /\ Increasing(d) /\ Distinct(d)
        BY <2>3, <2>8, <2>9
      <3>2. << >> \in Seq(Nat)
        OBVIOUS
      <3> QED
        BY <2>10, <2>11, <3>1, <3>2 DEF LineIsReleased, Within, Increasing, Distinct
    <2>13. ASSUME RoomForRun', NothingGivenUp', NEW p \in 1 .. k + m
           PROVE  \E i \in 1 .. Len(d) : d[i] = p
      <3>1. RxRoom >= n
        BY <1>2, <1>5, <2>2, <2>13, RxRoomAssumption, MaxPendingAssumption DEF RoomForRun
      <3>2. PICK r \in Seq(Nat) : r = Run(l, n) /\ Len(r) = n /\ \A i \in 1 .. n : r[i] = l + i
        BY RunType
      <3>3. none \o r = r
        BY <2>6
      <3>4. e = r
        <4>1. Len(none \o r) <= RxRoom => EnqueueAll(none, r) = none \o r
          BY EnqueueDrops
        <4>2. Len(r) <= RxRoom
          BY <3>1, <3>2, RxRoomAssumption
        <4> QED
          BY <2>8, <3>2, <3>3, <4>1, <4>2
      <3>5. /\ Len(d) = Len(a) + n
            /\ \A i \in 1 .. Len(a) : d[i] = a[i]
            /\ \A i \in 1 .. n : d[Len(a) + i] = l + i
        <4>1. /\ Len(a \o r) = Len(a) + Len(r)
              /\ \A i \in 1 .. Len(a) : (a \o r)[i] = a[i]
              /\ \A i \in 1 .. Len(r) : (a \o r)[Len(a) + i] = r[i]
          BY ConcatEntries
        <4> QED
          BY <2>9, <3>2, <3>4, <4>1
      <3>6. /\ Len(a) = Len(dispatched) + 1 /\ a[Len(dispatched) + 1] = k + 1
            /\ \A i \in 1 .. Len(dispatched) : a[i] = dispatched[i]
        BY <2>4, <2>5
      <3>7. PICK x \in Nat : x = Len(dispatched)
        BY <2>4
      <3>8. /\ Len(a) = x + 1 /\ Len(d) = x + 1 + n /\ a[x + 1] = k + 1
            /\ \A i \in 1 .. x : d[i] = dispatched[i]
        BY <3>5, <3>6, <3>7
      <3>9. CASE p \in 1 .. k
        <4>1. RoomForRun /\ NothingGivenUp
          BY <1>1, <1>5, <2>13 DEF RoomForRun
        <4>2. PICK i \in 1 .. x : dispatched[i] = p
          BY <1>3, <3>7, <3>9, <4>1 DEF IngressInv, DirectIsDispatched
        <4>3. i \in 1 .. Len(d)
          BY <3>8
        <4> QED
          BY <3>8, <4>2, <4>3
      <3>10. CASE p = k + 1
        <4>1. x + 1 \in 1 .. Len(a) /\ x + 1 \in 1 .. Len(d)
          BY <3>8
        <4> QED
          BY <3>5, <3>8, <3>10, <4>1
      <3>11. CASE p > k + 1
        <4>1. p - l \in 1 .. n /\ l + (p - l) = p
          BY <2>1, <2>2, <3>11
        <4>2. d[Len(a) + (p - l)] = p
          BY <3>5, <4>1
        <4>3. Len(a) + (p - l) \in 1 .. Len(d)
          BY <3>8, <4>1
        <4> QED
          BY <4>2, <4>3
      <3> QED
        BY <3>9, <3>10, <3>11
    <2>14. DirectIsDispatched'
      BY <2>10, <2>13 DEF DirectIsDispatched
    <2> QED
      BY <2>12, <2>14 DEF IngressInv
  <1> QED
    BY <1>6, <1>7

(* A step of the composition is a step of the link or leaves the link alone. *)
LEMMA IngressIsLink == [IngressStep]_allVars => [Next]_vars
  <1> SUFFICES ASSUME [IngressStep]_allVars PROVE [Next]_vars
    OBVIOUS
  <1>1. CASE LinkStep
    <2>1. ASSUME NEW s \in {c.seq : c \in control}, Handle(s)
          PROVE  Next
      BY <2>1 DEF Handle, Next
    <2>2. CASE SendStart \/ SendReturn \/ SendRefused
      BY <2>2 DEF Next
    <2>3. CASE \E due \in SUBSET sent : Timeouts(due)
      BY <2>3 DEF Next
    <2>4. CASE \E c \in control : LoseControl(c)
      BY <2>4 DEF Next
    <2>5. CASE \E f \in wire : LoseFrame(f)
      BY <2>5 DEF Next
    <2> QED
      BY <1>1, <2>1, <2>2, <2>3, <2>4, <2>5 DEF LinkStep
  <1>2. ASSUME NEW f \in wire, Ingress(f)
        PROVE  Next
    BY <1>2 DEF Ingress, Next
  <1>3. CASE ProcessRx
    BY <1>3 DEF ProcessRx
  <1>4. CASE UNCHANGED allVars
    BY <1>4 DEF allVars
  <1> QED
    BY <1>1, <1>2, <1>3, <1>4
    DEF IngressStep, ReceiveSerialized, RxSerializedToQueue, RelayRxSerialized

(* Every step keeps the invariant of the line. *)
LEMMA IngressInvNext ==
  ASSUME NoWrap, OrderedInv, WindowInv, IngressInv, [IngressStep]_allVars
  PROVE  IngressInv'
  <1>1. CASE UNCHANGED allVars
    <2>1. /\ UNCHANGED <<entry_point, rx_queue, dispatched>>
          /\ UNCHANGED <<released, failed, abandoned>>
      BY <1>1 DEF allVars, vars, ingressVars
    <2> QED
      BY <2>1, LineStays DEF NothingGivenUp
  <1> QED
    BY <1>1, LineLink, LineProcess, LineReceive, LineToQueue, LineRelay DEF IngressStep

(* The composition keeps the invariants of the link and of the line. *)
LEMMA IngressInvariant ==
  ASSUME NoWrap
  PROVE  IngressSpec => [](OrderedInv /\ WindowInv /\ IngressInv)
  <1>1. IngressSpec => Spec
    <2>1. IngressInit => Init
      BY DEF IngressInit
    <2> QED
      BY <2>1, IngressIsLink, PTL DEF IngressSpec, Spec
  <1>2. OrderedInv /\ WindowInv /\ IngressInv /\ [IngressStep]_allVars => IngressInv'
    BY IngressInvNext
  <1> QED
    BY <1>1, <1>2, IngressInvInit, OrderedInvariant, WindowInvariant, PTL DEF IngressSpec

-----------------------------------------------------------------------------
(* The theorems *)

(***************************************************************************)
(* No packet of an ordered stream is queued or dispatched twice, and a     *)
(* router that handles frames as they come in, and a relay, see the        *)
(* packets in order: for every window, queue budget, loss, duplication,    *)
(* retransmission and failing or re-entrant driver.                        *)
(***************************************************************************)
THEOREM DirectTheorem == ASSUME NoWrap PROVE IngressSpec => []DirectInOrder
  <1>1. ASSUME IngressInv
        PROVE  DirectInOrder
    <2>1. Line \in Seq(Nat)
      BY <1>1, ConcatEntries DEF IngressInv, LineIsReleased, Line
    <2>2. DOMAIN Line = 1 .. Len(Line)
      BY <2>1
    <2> QED
      BY <1>1, <2>2
      DEF IngressInv, LineIsReleased, DirectInOrder, DispatchInOrder, Distinct, Increasing
  <1> QED
    BY <1>1, IngressInvariant, PTL

(***************************************************************************)
(* With room for MaxPending - 1 frames, what an ACK has taken out of the   *)
(* sender's window was dispatched by the router that handles frames as     *)
(* they come in.                                                           *)
(***************************************************************************)
THEOREM AckedTheorem == ASSUME NoWrap PROVE IngressSpec => []AckedIsDispatched
  <1>1. ASSUME OrderedInv, IngressInv
        PROVE  AckedIsDispatched
    <2> SUFFICES ASSUME entry_point = "receive", RxRoom >= MaxPending - 1, NothingGivenUp,
                        NEW p \in 1 .. attempts
                 PROVE  p \in PktsOf(sent) \cup PktsOf(sending) \cup Range(dispatched)
      BY DEF AckedIsDispatched
    <2>1. p < expected_seq \/ p \in PktsOf(Tracked)
      BY <1>1 DEF OrderedInv, NothingVanishes, NothingGivenUp
    <2>2. CASE p \in PktsOf(Tracked)
      BY <2>2 DEF PktsOf, Tracked
    <2>3. CASE p < expected_seq
      <3>1. p \in 1 .. Len(released)
        BY <1>1, <2>3, FrameFacts DEF OrderedInv, OutputInOrder, TypeOK
      <3>2. PICK i \in 1 .. Len(dispatched) : dispatched[i] = p
        BY <1>1, <3>1 DEF IngressInv, DirectIsDispatched, RoomForRun
      <3>3. i \in DOMAIN dispatched
        BY <1>1 DEF IngressInv, LineIsReleased
      <3> QED
        BY <3>2, <3>3 DEF Range
    <2> QED
      BY <2>1, <2>2, <2>3
  <1> QED
    BY <1>1, IngressInvariant, PTL

=============================================================================
