-------------------------- MODULE ReliableLinkProofs ------------------------
(***************************************************************************)
(* Proofs about ReliableLink for every value of its constants.             *)
(***************************************************************************)
EXTENDS ReliableLink, FiniteSetTheorems, TLAPS

-----------------------------------------------------------------------------
(* Sequence numbers *)

(* A sequence number is never 0 and never exceeds SeqMax. *)
LEMMA SeqAfterType == \A s \in Seqs, k \in Nat : SeqAfter(s, k) \in Seqs
  <1> SUFFICES ASSUME NEW s \in Seqs, NEW k \in Nat
               PROVE  SeqAfter(s, k) \in Seqs
    OBVIOUS
  <1>1. s - 1 + k \in Nat
    BY SeqMaxAssumption DEF Seqs
  <1>2. \A x \in Nat : x % SeqMax \in 0 .. SeqMax - 1
    BY SeqMaxAssumption
  <1> QED
    BY <1>1, <1>2, SeqMaxAssumption DEF SeqAfter, Seqs

(* Below the wrap the k-th number after s is s + k. *)
LEMMA SeqAfterPlus ==
    \A s \in Seqs, k \in Nat : s + k <= SeqMax => SeqAfter(s, k) = s + k
  <1> SUFFICES ASSUME NEW s \in Seqs, NEW k \in Nat, s + k <= SeqMax
               PROVE  SeqAfter(s, k) = s + k
    OBVIOUS
  <1>1. s - 1 + k \in 0 .. SeqMax - 1
    BY SeqMaxAssumption DEF Seqs
  <1>2. \A x \in 0 .. SeqMax - 1 : x % SeqMax = x
    BY SeqMaxAssumption
  <1> QED
    BY <1>1, <1>2, SeqMaxAssumption DEF SeqAfter, Seqs

-----------------------------------------------------------------------------
(* Type correctness *)

(* A new link is type correct. *)
LEMMA TypeInit == Init => TypeOK
  BY SeqMaxAssumption, MaxPendingAssumption, BoundsAssumption
  DEF Init, TypeOK, Seqs, Frames, Ctls

(* A run of buffered frames handed up after the expected one. *)
LEMMA ReleaseType ==
  ASSUME NEW n \in Nat, NEW B \in SUBSET Frames, NEW run \in [1 .. n -> B],
         NEW p \in Pkts, NEW rel \in Seq(Pkts)
  PROVE  rel \o [i \in 1 .. n + 1 |-> IF i = 1 THEN p ELSE run[i - 1].pkt]
            \in Seq(Pkts)
  <1> DEFINE out == [i \in 1 .. n + 1 |-> IF i = 1 THEN p ELSE run[i - 1].pkt]
  <1>1. \A i \in 1 .. n + 1 : (IF i = 1 THEN p ELSE run[i - 1].pkt) \in Pkts
    <2> TAKE i \in 1 .. n + 1
    <2>1. CASE i = 1
      BY <2>1
    <2>2. CASE i # 1
      <3>1. i - 1 \in 1 .. n
        BY <2>2
      <3>2. run[i - 1] \in Frames
        BY <3>1
      <3> QED
        BY <2>2, <3>2 DEF Frames
    <2> QED
      BY <2>1, <2>2
  <1>2. out \in [1 .. n + 1 -> Pkts]
    BY <1>1
  <1>3. out \in Seq(Pkts)
    BY <1>2
  <1> QED
    BY <1>3

(* Every step of sender, receiver and link keeps the state type correct. *)
LEMMA TypeNext == TypeOK /\ [Next]_vars => TypeOK'
  <1> SUFFICES ASSUME TypeOK, [Next]_vars
               PROVE  TypeOK'
    OBVIOUS
  <1> USE SeqMaxAssumption, MaxPendingAssumption, MaxRetriesAssumption,
          BoundsAssumption
  <1> USE DEF TypeOK
  <1>1. CASE SendStart
    <2>1. next_seq' \in Seqs
      BY <1>1, SeqAfterType DEF SendStart, TakeSeq
    <2>2. [seq |-> next_seq, pkt |-> attempts + 1] \in Frames
      BY <1>1 DEF SendStart, MayNumber, Frames, Pkts
    <2> QED
      BY <1>1, <2>1, <2>2 DEF SendStart, MayNumber, TakeSeq, rxVars
  <1>2. CASE SendReturn
    <2> PICK f \in sending :
              IF \E g \in sent : g.seq = f.seq
              THEN UNCHANGED <<sent, retries>>
              ELSE /\ sent' = sent \cup {f}
                   /\ retries' = [g \in sent \cup {f} |->
                                    IF g \in sent THEN retries[g] ELSE 0]
      BY <1>2 DEF SendReturn
    <2>1. retries' \in [sent' -> 0 .. MaxRetries] /\ sent' \subseteq Frames /\ sent \subseteq sent'
      <3>1. CASE \E g \in sent : g.seq = f.seq
        BY <3>1
      <3>2. CASE ~ \E g \in sent : g.seq = f.seq
        <4>1. sent' = sent \cup {f}
          BY <3>2
        <4>2. retries' = [g \in sent \cup {f} |->
                            IF g \in sent THEN retries[g] ELSE 0]
          BY <3>2
        <4> QED
          BY <4>1, <4>2
      <3> QED
        BY <3>1, <3>2
    <2> QED
      BY <1>2, <2>1 DEF SendReturn, rxVars
  <1>3. CASE SendRefused
    <2>1. next_seq' \in Seqs
      BY <1>3, SeqAfterType DEF SendRefused, TakeSeq
    <2> QED
      BY <1>3, <2>1 DEF SendRefused, MayNumber, TakeSeq, Pkts, rxVars
  <1>4. ASSUME NEW c \in control, HandleAck(c.seq)
        PROVE  TypeOK'
    BY <1>4 DEF HandleAck, TakeControl, Erase, rxVars
  <1>5. ASSUME NEW c \in control, HandlePartialAck(c.seq)
        PROVE  TypeOK'
    BY <1>5 DEF HandlePartialAck, TakeControl, rxVars
  <1>6. ASSUME NEW c \in control, HandlePacketRequest(c.seq)
        PROVE  TypeOK'
    <2> DEFINE asked == {f \in sent : f.seq = c.seq}
    <2>1. PICK T \in Transmitted(asked) : wire' = wire \cup T
      BY <1>6 DEF HandlePacketRequest
    <2>2. T \subseteq sent
      BY <2>1 DEF Transmitted
    <2>3. retries' \in [sent -> 0 .. MaxRetries]
      BY <1>6 DEF HandlePacketRequest, Bump
    <2> QED
      BY <1>6, <2>1, <2>2, <2>3 DEF HandlePacketRequest, TakeControl, rxVars
  <1>7. ASSUME NEW c \in control, LoseControl(c)
        PROVE  TypeOK'
    BY <1>7 DEF LoseControl, txVars, rxVars
  <1>8. ASSUME NEW due \in SUBSET sent, Timeouts(due)
        PROVE  TypeOK'
    <2> DEFINE spent == {f \in due : retries[f] >= MaxRetries}
    <2>1. PICK T \in Transmitted(due \ spent) :
             /\ wire' = wire \cup T
             /\ sent' = sent \ spent
             /\ retries' = [f \in sent \ spent |->
                              IF f \in T THEN Bump(retries[f]) ELSE retries[f]]
             /\ abandoned' = abandoned \cup {f.pkt : f \in spent}
      BY <1>8 DEF Timeouts
    <2>2. T \subseteq sent
      BY <2>1 DEF Transmitted
    <2>3. retries' \in [sent' -> 0 .. MaxRetries]
      BY <2>1 DEF Bump
    <2>4. {f.pkt : f \in spent} \subseteq Pkts
      BY DEF Frames
    <2>5. partial_acked' \subseteq sent'
      BY <1>8, <2>1 DEF Timeouts
    <2> QED
      BY <1>8, <2>1, <2>2, <2>3, <2>4, <2>5 DEF Timeouts, rxVars
  <1>9. ASSUME NEW f \in wire, IngressUnordered(f)
        PROVE  TypeOK'
    <2>1. f.pkt \in Pkts /\ Ack(f.seq) \in Ctls
      BY DEF Frames, Seqs, Ack, Ctls, Kinds
    <2> QED
      BY <1>9, <2>1 DEF IngressUnordered, TakeFrame, txVars
  <1>10. ASSUME NEW f \in wire, IngressOld(f)
         PROVE  TypeOK'
    <2>1. Ack(expected_seq - 1) \in Ctls
      BY DEF Seqs, Ack, Ctls, Kinds
    <2> QED
      BY <1>10, <2>1 DEF IngressOld, TakeFrame, txVars, rxVars
  <1>11. ASSUME NEW f \in wire, IngressAhead(f)
         PROVE  TypeOK'
    <2>1. Partial(f.seq) \in Ctls /\ Request(expected_seq) \in Ctls
      BY DEF Frames, Seqs, Partial, Request, Ctls, Kinds
    <2> QED
      BY <1>11, <2>1 DEF IngressAhead, TakeFrame, txVars
  <1>12. ASSUME NEW f \in wire, IngressNext(f)
         PROVE  TypeOK'
    <2> DEFINE At(i) == {g \in buffered : g.seq = SeqAfter(expected_seq, i)}
    <2>1. PICK n \in 0 .. Cardinality(buffered) :
             /\ \E run \in [1 .. n -> buffered] :
                  /\ released' = released \o [i \in 1 .. n + 1 |->
                                   IF i = 1 THEN f.pkt ELSE run[i - 1].pkt]
                  /\ buffered' = buffered \ {run[i] : i \in 1 .. n}
             /\ expected_seq' = SeqAfter(expected_seq, n + 1)
             /\ control' = control \cup {Ack(SeqAfter(expected_seq, n))}
      BY <1>12 DEF IngressNext
    <2>2. n \in Nat
      OBVIOUS
    <2>3. released' \in Seq(Pkts)
      <3>1. f.pkt \in Pkts
        BY DEF Frames
      <3>2. PICK run \in [1 .. n -> buffered] :
               released' = released \o [i \in 1 .. n + 1 |->
                             IF i = 1 THEN f.pkt ELSE run[i - 1].pkt]
        BY <2>1
      <3>3. buffered \in SUBSET Frames /\ released \in Seq(Pkts)
        OBVIOUS
      <3> HIDE DEF TypeOK
      <3>4. released \o [i \in 1 .. n + 1 |->
                          IF i = 1 THEN f.pkt ELSE run[i - 1].pkt] \in Seq(Pkts)
        BY <2>2, <3>1, <3>3, ReleaseType
      <3> QED
        BY <3>2, <3>4
    <2>4. expected_seq' \in Seqs /\ Ack(SeqAfter(expected_seq, n)) \in Ctls
      <3>1. n + 1 \in Nat /\ expected_seq \in Seqs
        BY <2>2
      <3>2. SeqAfter(expected_seq, n) \in Seqs /\ SeqAfter(expected_seq, n + 1) \in Seqs
        BY <2>2, <3>1, SeqAfterType
      <3>3. \A x \in Seqs : Ack(x) \in Ctls
        BY DEF Ack, Ctls, Kinds, Seqs
      <3> QED
        BY <2>1, <3>2, <3>3
    <2> QED
      BY <1>12, <2>1, <2>3, <2>4 DEF IngressNext, TakeFrame, txVars
  <1>13. ASSUME NEW f \in wire, LoseFrame(f)
         PROVE  TypeOK'
    BY <1>13 DEF LoseFrame, txVars, rxVars
  <1>14. CASE UNCHANGED vars
    BY <1>14 DEF vars
  <1> QED
    BY <1>1, <1>2, <1>3, <1>4, <1>5, <1>6, <1>7, <1>8, <1>9, <1>10, <1>11,
       <1>12, <1>13, <1>14 DEF Next

(***************************************************************************)
(* Every reachable state is well typed: sequence numbers stay in           *)
(* 1 .. SeqMax across the wrap, retries never exceed MaxRetries, and a     *)
(* PARTIAL_ACK only ever marks a pending frame.                            *)
(***************************************************************************)
THEOREM TypeCorrect == Spec => []TypeOK
  BY TypeInit, TypeNext, PTL DEF Spec

-----------------------------------------------------------------------------
(* The inductive invariant of an ordered stream before the wrap *)

NoWrap == Ordered /\ MaxSends < SeqMax

(* The frames the sender answers for, the one being transmitted included. *)
Tracked == sent \cup sending

(* A frame carries its packet's number and was never refused. *)
FramesNumbered ==
    \A f \in wire \cup Tracked \cup buffered :
        f.seq = f.pkt /\ f.pkt <= attempts /\ f.pkt \notin failed

SendingIsNew ==
    /\ \A f \in sending : f \notin sent
    /\ \A f, g \in sending : f = g

OutputInOrder ==
    /\ Len(released) = expected_seq - 1
    /\ \A i \in 1 .. Len(released) : released[i] = i

AcksBelowExpected ==
    \A c \in control : c.kind = "ack" => c.seq < expected_seq

NothingVanishes ==
    \A p \in 1 .. attempts :
        p < expected_seq \/ p \in failed \/ p \in abandoned \/ p \in PktsOf(Tracked)

OrderedInv ==
    /\ TypeOK
    /\ next_seq = attempts + 1
    /\ expected_seq <= attempts + 1
    /\ \A p \in failed : p <= attempts
    /\ FramesNumbered
    /\ SendingIsNew
    /\ OutputInOrder
    /\ \A f \in buffered : f.seq > expected_seq
    /\ AcksBelowExpected
    /\ NothingVanishes

-----------------------------------------------------------------------------
(* Order and no silent loss *)

(* A new link satisfies the ordering invariant. *)
LEMMA OrderedInit == Init => OrderedInv
  <1> SUFFICES ASSUME Init PROVE OrderedInv
    OBVIOUS
  <1>1. TypeOK
    BY TypeInit
  <1> QED
    BY <1>1 DEF Init, OrderedInv, FramesNumbered, Tracked, SendingIsNew,
            OutputInOrder, AcksBelowExpected, NothingVanishes

(* Two numbered frames of the same packet are the same frame. *)
LEMMA SameFrame ==
  ASSUME NEW f \in Frames, NEW g \in Frames, f.seq = g.seq, f.pkt = g.pkt
  PROVE  f = g
  BY DEF Frames

(* A run that starts at the expected number keeps the output in order. *)
LEMMA ExtendOutput ==
  ASSUME NEW rel \in Seq(Nat), NEW n \in Nat,
         \A i \in 1 .. Len(rel) : rel[i] = i,
         NEW out, out = [i \in 1 .. n + 1 |-> Len(rel) + i]
  PROVE  /\ Len(rel \o out) = Len(rel) + n + 1
         /\ \A i \in 1 .. Len(rel \o out) : (rel \o out)[i] = i
  <1>1. out \in Seq(Nat) /\ Len(out) = n + 1
    OBVIOUS
  <1>2. Len(rel \o out) = Len(rel) + n + 1
    BY <1>1
  <1>3. ASSUME NEW i \in 1 .. Len(rel \o out)
        PROVE  (rel \o out)[i] = i
    <2>1. CASE i <= Len(rel)
      BY <1>1, <1>2, <2>1
    <2>2. CASE i > Len(rel)
      <3>1. i - Len(rel) \in 1 .. n + 1
        BY <1>2, <2>2
      <3>2. (rel \o out)[i] = out[i - Len(rel)]
        BY <1>1, <1>2, <2>2
      <3> QED
        BY <3>1, <3>2
    <2> QED
      BY <1>2, <2>1, <2>2
  <1> QED
    BY <1>2, <1>3

(***************************************************************************)
(* What IngressNext does before the wrap: it hands up expected_seq to      *)
(* expected_seq + n and what stays buffered is beyond the new expected     *)
(* number.                                                                 *)
(***************************************************************************)
LEMMA NextRun ==
  ASSUME NoWrap, OrderedInv, NEW f \in wire, IngressNext(f)
  PROVE  \E n \in Nat :
           /\ expected_seq + n <= attempts
           /\ expected_seq' = expected_seq + n + 1
           /\ control' = control \cup {Ack(expected_seq + n)}
           /\ released' = released \o [i \in 1 .. n + 1 |-> Len(released) + i]
           /\ buffered' \subseteq buffered
           /\ \A g \in buffered' : g.seq > expected_seq'
           /\ \A i \in 1 .. n : \E g \in buffered : g.seq = expected_seq + i
           /\ \A g \in buffered \ buffered' : g.seq < expected_seq'
           /\ n <= Cardinality(buffered)
  <1> USE SeqMaxAssumption, BoundsAssumption
  <1> DEFINE At(i) == {g \in buffered : g.seq = SeqAfter(expected_seq, i)}
  <1>1. PICK n \in 0 .. Cardinality(buffered) :
             /\ \A i \in 1 .. n : At(i) # {}
             /\ At(n + 1) = {}
             /\ \E run \in [1 .. n -> buffered] :
                  /\ \A i \in 1 .. n : run[i] \in At(i)
                  /\ released' = released \o [i \in 1 .. n + 1 |->
                                   IF i = 1 THEN f.pkt ELSE run[i - 1].pkt]
                  /\ buffered' = buffered \ {run[i] : i \in 1 .. n}
             /\ expected_seq' = SeqAfter(expected_seq, n + 1)
             /\ control' = control \cup {Ack(SeqAfter(expected_seq, n))}
    BY DEF IngressNext
  <1>2. PICK run \in [1 .. n -> buffered] :
                  /\ \A i \in 1 .. n : run[i] \in At(i)
                  /\ released' = released \o [i \in 1 .. n + 1 |->
                                   IF i = 1 THEN f.pkt ELSE run[i - 1].pkt]
                  /\ buffered' = buffered \ {run[i] : i \in 1 .. n}
    BY <1>1
  <1> HIDE DEF At
  <1>3. n \in Nat /\ expected_seq \in Nat \ {0} /\ expected_seq <= attempts + 1
        /\ expected_seq \in Seqs /\ attempts \in Nat /\ attempts < SeqMax
    BY DEF OrderedInv, TypeOK, Seqs, NoWrap
  <1>4. /\ f.seq = expected_seq /\ f.pkt = expected_seq
        /\ expected_seq <= attempts
    BY DEF OrderedInv, FramesNumbered, IngressNext
  <1>5. \A g \in buffered : /\ g \in Frames /\ g.seq \in Nat /\ g.pkt = g.seq
                            /\ g.seq <= attempts /\ g.seq > expected_seq
    BY DEF OrderedInv, FramesNumbered, TypeOK, Frames, Seqs
  <1>6. expected_seq + n < SeqMax
    <2> SUFFICES ASSUME expected_seq + n >= SeqMax
                 PROVE  FALSE
      BY <1>3
    <2>1. SeqMax - expected_seq \in 1 .. n
      BY <1>3, <1>4
    <2>2. SeqAfter(expected_seq, SeqMax - expected_seq) = SeqMax
      BY <1>3, <2>1, SeqAfterPlus
    <2>3. \E g \in buffered : g.seq = SeqMax
      BY <1>1, <2>1, <2>2 DEF At
    <2> QED
      BY <1>3, <1>5, <2>3
  <1>7. \A i \in 0 .. n + 1 : SeqAfter(expected_seq, i) = expected_seq + i
    BY <1>3, <1>6, SeqAfterPlus
  <1>8. \A i \in 1 .. n : run[i] \in buffered /\ run[i].seq = expected_seq + i
    BY <1>2, <1>3, <1>7 DEF At
  <1>9. expected_seq + n <= attempts
    <2>1. CASE n = 0
      BY <1>3, <1>4, <2>1
    <2>2. CASE n # 0
      BY <1>3, <1>5, <1>8, <2>2
    <2> QED
      BY <2>1, <2>2
  <1>10. expected_seq' = expected_seq + n + 1
         /\ control' = control \cup {Ack(expected_seq + n)}
    <2>1. n \in 0 .. n + 1 /\ n + 1 \in 0 .. n + 1
      BY <1>3
    <2>2. /\ SeqAfter(expected_seq, n) = expected_seq + n
          /\ SeqAfter(expected_seq, n + 1) = expected_seq + (n + 1)
      BY <1>7, <2>1
    <2>3. expected_seq + (n + 1) = expected_seq + n + 1
      BY <1>3
    <2> QED
      BY <1>1, <2>2, <2>3
  <1>11. released' = released \o [i \in 1 .. n + 1 |-> Len(released) + i]
    <2>1. Len(released) = expected_seq - 1
      BY DEF OrderedInv, OutputInOrder
    <2>2. \A i \in 1 .. n + 1 :
             (IF i = 1 THEN f.pkt ELSE run[i - 1].pkt) = Len(released) + i
      <3> TAKE i \in 1 .. n + 1
      <3>1. CASE i = 1
        BY <1>3, <1>4, <2>1, <3>1
      <3>2. CASE i # 1
        <4>1. i - 1 \in 1 .. n
          BY <1>3, <3>2
        <4>2. run[i - 1].pkt = expected_seq + (i - 1)
          BY <1>5, <1>8, <4>1
        <4> QED
          BY <1>3, <2>1, <3>2, <4>2
      <3> QED
        BY <3>1, <3>2
    <2> QED
      BY <1>2, <2>2
  <1>12. \A g \in buffered' : g.seq > expected_seq'
    <2> SUFFICES ASSUME NEW g \in buffered', ~(g.seq > expected_seq')
                 PROVE  FALSE
      OBVIOUS
    <2>1. g \in buffered /\ \A i \in 1 .. n : g # run[i]
      BY <1>2
    <2>2. g.seq # expected_seq + (n + 1)
      BY <1>1, <1>3, <1>7, <2>1 DEF At
    <2>3. g.seq - expected_seq \in 1 .. n
      BY <1>3, <1>5, <1>10, <2>1, <2>2
    <2>4. run[g.seq - expected_seq] = g
      BY <1>3, <1>5, <1>8, <2>1, <2>3, SameFrame
    <2> QED
      BY <2>1, <2>3, <2>4
  <1>13. \A g \in buffered \ buffered' : g.seq < expected_seq'
    BY <1>2, <1>3, <1>8, <1>10
  <1>14. n <= Cardinality(buffered)
    BY <1>1
  <1> QED
    BY <1>2, <1>3, <1>8, <1>9, <1>10, <1>11, <1>12, <1>13, <1>14

(* Every step keeps the ordering invariant; one case per handler. *)
LEMMA OrderedNext == NoWrap /\ OrderedInv /\ [Next]_vars => OrderedInv'
  <1> SUFFICES ASSUME NoWrap, OrderedInv, [Next]_vars
               PROVE  OrderedInv'
    OBVIOUS
  <1> USE SeqMaxAssumption, BoundsAssumption
  <1>0. TypeOK /\ TypeOK'
    BY TypeNext DEF OrderedInv
  <1>a. /\ attempts \in Nat /\ expected_seq \in Nat \ {0}
        /\ attempts' \in Nat /\ attempts < SeqMax
        /\ next_seq \in Seqs
    BY <1>0 DEF TypeOK, Seqs, NoWrap
  <1>b. \A f \in wire \cup Tracked \cup buffered :
           f \in Frames /\ f.seq \in Nat /\ f.pkt \in Nat
    BY <1>0 DEF TypeOK, Frames, Seqs, Pkts, Tracked
  <1>1. CASE SendStart
    <2> DEFINE f == [seq |-> next_seq, pkt |-> attempts + 1]
    <2>1. /\ next_seq' = attempts + 2 /\ attempts' = attempts + 1
          /\ wire' = wire \cup {f} /\ sending' = {f} /\ sending = {}
          /\ UNCHANGED <<sent, control, failed, abandoned, expected_seq,
                         buffered, released>>
      <3>1. attempts + 1 < SeqMax /\ next_seq = attempts + 1
        BY <1>1, <1>a DEF SendStart, MayNumber, NoWrap, OrderedInv
      <3>2. SeqAfter(next_seq, 1) = next_seq + 1
        BY <1>a, <3>1, SeqAfterPlus
      <3> QED
        BY <1>1, <1>a, <3>1, <3>2 DEF SendStart, TakeSeq, rxVars
    <2>2. f.seq = attempts + 1 /\ f.pkt = attempts + 1
      BY DEF OrderedInv
    <2>3. attempts + 1 \notin failed
      BY <1>a DEF OrderedInv
    <2> HIDE DEF f
    <2>4. Tracked' = Tracked \cup {f}
      BY <2>1 DEF Tracked
    <2>5. FramesNumbered'
      BY <1>a, <1>b, <2>1, <2>2, <2>3, <2>4 DEF OrderedInv, FramesNumbered
    <2>6. SendingIsNew'
      BY <1>a, <1>b, <2>1, <2>2 DEF OrderedInv, FramesNumbered, Tracked, SendingIsNew
    <2>7. NothingVanishes'
      <3> SUFFICES ASSUME NEW p \in 1 .. attempts + 1
                   PROVE  \/ p < expected_seq \/ p \in failed \/ p \in abandoned
                          \/ p \in PktsOf(Tracked \cup {f})
        BY <2>1, <2>4 DEF NothingVanishes
      <3>1. CASE p = attempts + 1
        BY <2>2, <3>1 DEF PktsOf
      <3>2. CASE p # attempts + 1
        <4>1. p \in 1 .. attempts
          BY <1>a, <3>2
        <4> QED
          BY <4>1 DEF OrderedInv, NothingVanishes, PktsOf
      <3> QED
        BY <3>1, <3>2
    <2>8. \A p \in failed' : p <= attempts'
      <3> TAKE p \in failed'
      <3>1. p \in Nat
        BY <1>0 DEF TypeOK, Pkts
      <3> QED
        BY <1>a, <2>1, <3>1 DEF OrderedInv
    <2> QED
      BY <1>0, <1>a, <2>1, <2>5, <2>6, <2>7, <2>8
      DEF OrderedInv, OutputInOrder, AcksBelowExpected
  <1>2. CASE SendReturn
    <2>1. PICK f \in sending :
              IF \E g \in sent : g.seq = f.seq
              THEN UNCHANGED <<sent, retries>>
              ELSE sent' = sent \cup {f}
      BY <1>2 DEF SendReturn
    <2>2. \A g \in sent : g.seq # f.seq
      BY <1>b, SameFrame DEF OrderedInv, FramesNumbered, SendingIsNew, Tracked
    <2>3. sending = {f} /\ sending' = {} /\ sent' = sent \cup {f}
      BY <1>2, <2>1, <2>2 DEF SendReturn, OrderedInv, SendingIsNew
    <2>4. Tracked' = Tracked
      BY <2>3 DEF Tracked
    <2> QED
      BY <1>0, <1>2, <2>3, <2>4
      DEF SendReturn, rxVars, OrderedInv, FramesNumbered, SendingIsNew,
          OutputInOrder, AcksBelowExpected, NothingVanishes
  <1>3. CASE SendRefused
    <2>1. /\ next_seq' = attempts + 2 /\ attempts' = attempts + 1
          /\ failed' = failed \cup {attempts + 1}
          /\ UNCHANGED <<sent, sending, wire, control, abandoned, expected_seq,
                         buffered, released>>
      <3>1. attempts + 1 < SeqMax /\ next_seq = attempts + 1
        BY <1>3, <1>a DEF SendRefused, MayNumber, NoWrap, OrderedInv
      <3>2. SeqAfter(next_seq, 1) = next_seq + 1
        BY <1>a, <3>1, SeqAfterPlus
      <3> QED
        BY <1>3, <1>a, <3>1, <3>2 DEF SendRefused, TakeSeq, rxVars
    <2>2. FramesNumbered'
      BY <1>a, <1>b, <2>1 DEF OrderedInv, FramesNumbered, Tracked
    <2>3. NothingVanishes'
      <3> SUFFICES ASSUME NEW p \in 1 .. attempts + 1
                   PROVE  \/ p < expected_seq \/ p \in failed' \/ p \in abandoned
                          \/ p \in PktsOf(Tracked)
        BY <2>1 DEF NothingVanishes, Tracked
      <3>1. CASE p = attempts + 1
        BY <2>1, <3>1
      <3>2. CASE p # attempts + 1
        <4>1. p \in 1 .. attempts
          BY <1>a, <3>2
        <4> QED
          BY <2>1, <4>1 DEF OrderedInv, NothingVanishes
      <3> QED
        BY <3>1, <3>2
    <2>4. \A p \in failed' : p <= attempts'
      <3> TAKE p \in failed'
      <3>1. p \in Nat
        BY <1>0 DEF TypeOK, Pkts
      <3> QED
        BY <1>a, <2>1, <3>1 DEF OrderedInv
    <2> QED
      BY <1>0, <1>a, <2>1, <2>2, <2>3, <2>4
      DEF OrderedInv, Tracked, SendingIsNew, OutputInOrder, AcksBelowExpected
  <1>4. ASSUME NEW c \in control, HandleAck(c.seq)
        PROVE  OrderedInv'
    <2>1. /\ sent' = sent \ AckedBy(c.seq) /\ control' \subseteq control
          /\ Ack(c.seq) \in control
      BY <1>4 DEF HandleAck, TakeControl, Erase, Ack
    <2>2. c.seq < expected_seq
      BY <2>1 DEF OrderedInv, AcksBelowExpected, Ack
    <2>3. \A f \in AckedBy(c.seq) : f \in sent /\ f.pkt < expected_seq
      <3> TAKE f \in AckedBy(c.seq)
      <3>1. f \in sent /\ f.seq <= c.seq
        BY <1>b DEF AckedBy, NoWrap, Tracked
      <3>2. c.seq \in Nat
        BY <1>0 DEF TypeOK, Ctls
      <3> QED
        BY <1>a, <1>b, <2>2, <3>1, <3>2 DEF OrderedInv, FramesNumbered, Tracked
    <2>4. Tracked' \subseteq Tracked /\ \A f \in Tracked \ Tracked' : f.pkt < expected_seq
      BY <1>4, <2>1, <2>3 DEF Tracked, HandleAck
    <2>5. NothingVanishes'
      BY <1>4, <2>4 DEF OrderedInv, NothingVanishes, PktsOf, HandleAck, rxVars
    <2> QED
      BY <1>0, <1>4, <2>1, <2>4, <2>5
      DEF HandleAck, rxVars, OrderedInv, FramesNumbered, SendingIsNew,
          OutputInOrder, AcksBelowExpected
  <1>5. ASSUME NEW c \in control, HandlePartialAck(c.seq)
        PROVE  OrderedInv'
    BY <1>0, <1>5
    DEF HandlePartialAck, TakeControl, rxVars, OrderedInv, FramesNumbered,
        Tracked, SendingIsNew, OutputInOrder, AcksBelowExpected, NothingVanishes
  <1>6. ASSUME NEW c \in control, HandlePacketRequest(c.seq)
        PROVE  OrderedInv'
    <2>1. \E T \in SUBSET sent : wire' = wire \cup T
      BY <1>6 DEF HandlePacketRequest, Transmitted
    <2> QED
      BY <1>0, <1>6, <2>1
      DEF HandlePacketRequest, TakeControl, rxVars, OrderedInv, FramesNumbered,
          Tracked, SendingIsNew, OutputInOrder, AcksBelowExpected, NothingVanishes
  <1>7. ASSUME NEW c \in control, LoseControl(c)
        PROVE  OrderedInv'
    BY <1>0, <1>7
    DEF LoseControl, txVars, rxVars, OrderedInv, FramesNumbered,
        Tracked, SendingIsNew, OutputInOrder, AcksBelowExpected, NothingVanishes
  <1>8. ASSUME NEW due \in SUBSET sent, Timeouts(due)
        PROVE  OrderedInv'
    <2> DEFINE spent == {f \in due : retries[f] >= MaxRetries}
    <2>1. \E T \in SUBSET sent : wire' = wire \cup T
      BY <1>8 DEF Timeouts, Transmitted
    <2>2. sent' = sent \ spent /\ abandoned' = abandoned \cup {f.pkt : f \in spent}
      BY <1>8 DEF Timeouts
    <2>3. Tracked' \subseteq Tracked /\ \A f \in Tracked \ Tracked' : f.pkt \in abandoned'
      BY <1>8, <2>2 DEF Tracked, Timeouts
    <2>4. NothingVanishes'
      BY <1>8, <2>2, <2>3 DEF OrderedInv, NothingVanishes, PktsOf, Timeouts, rxVars
    <2> QED
      BY <1>0, <1>8, <2>1, <2>2, <2>3, <2>4
      DEF Timeouts, rxVars, OrderedInv, FramesNumbered,
          Tracked, SendingIsNew, OutputInOrder, AcksBelowExpected
  <1>9. ASSUME NEW f \in wire, IngressUnordered(f)
        PROVE  OrderedInv'
    BY <1>9 DEF IngressUnordered, NoWrap
  <1>10. ASSUME NEW f \in wire, IngressOld(f)
         PROVE  OrderedInv'
    <2>1. /\ wire' \subseteq wire
          /\ control' = control \cup {Ack(expected_seq - 1)}
          /\ UNCHANGED <<next_seq, sent, sending, expected_seq, buffered,
                         released, attempts, failed, abandoned>>
      BY <1>10 DEF IngressOld, TakeFrame, txVars, rxVars
    <2>2. AcksBelowExpected'
      BY <1>a, <2>1 DEF OrderedInv, AcksBelowExpected, Ack
    <2> QED
      BY <1>0, <2>1, <2>2
      DEF OrderedInv, FramesNumbered, Tracked, SendingIsNew, OutputInOrder,
          NothingVanishes
  <1>11. ASSUME NEW f \in wire, IngressAhead(f)
         PROVE  OrderedInv'
    <2>1. buffered' \subseteq buffered \cup {f} /\ f.seq > expected_seq
      BY <1>11 DEF IngressAhead
    <2>2. /\ wire' \subseteq wire
          /\ control' = control \cup {Partial(f.seq), Request(expected_seq)}
          /\ UNCHANGED <<next_seq, sent, sending, expected_seq, released,
                         attempts, failed, abandoned>>
      BY <1>11 DEF IngressAhead, TakeFrame, txVars
    <2>3. AcksBelowExpected'
      BY <2>2 DEF OrderedInv, AcksBelowExpected, Partial, Request
    <2> QED
      BY <1>0, <2>1, <2>2, <2>3
      DEF OrderedInv, FramesNumbered, Tracked, SendingIsNew, OutputInOrder,
          NothingVanishes
  <1>12. ASSUME NEW f \in wire, IngressNext(f)
         PROVE  OrderedInv'
    <2>1. PICK n \in Nat :
           /\ expected_seq + n <= attempts
           /\ expected_seq' = expected_seq + n + 1
           /\ control' = control \cup {Ack(expected_seq + n)}
           /\ released' = released \o [i \in 1 .. n + 1 |-> Len(released) + i]
           /\ buffered' \subseteq buffered
           /\ \A g \in buffered' : g.seq > expected_seq'
      BY <1>12, NextRun
    <2>2. /\ wire' \subseteq wire
          /\ UNCHANGED <<next_seq, sent, sending, attempts, failed, abandoned>>
      BY <1>12 DEF IngressNext, TakeFrame, txVars
    <2>3. OutputInOrder'
      <3>1. /\ released \in Seq(Nat)
            /\ \A i \in 1 .. Len(released) : released[i] = i
            /\ Len(released) = expected_seq - 1
        BY <1>0 DEF TypeOK, Pkts, OrderedInv, OutputInOrder
      <3>2. /\ Len(released') = Len(released) + n + 1
            /\ \A i \in 1 .. Len(released') : released'[i] = i
        BY <2>1, <3>1, ExtendOutput
      <3> QED
        BY <1>a, <2>1, <3>1, <3>2 DEF OutputInOrder
    <2>4. AcksBelowExpected'
      <3> SUFFICES ASSUME NEW c \in control', c.kind = "ack"
                   PROVE  c.seq < expected_seq'
        BY DEF AcksBelowExpected
      <3>1. CASE c \in control
        <4>1. c.seq \in Nat
          BY <1>0, <3>1 DEF TypeOK, Ctls
        <4> QED
          BY <1>a, <2>1, <3>1, <4>1 DEF OrderedInv, AcksBelowExpected
      <3>2. CASE c = Ack(expected_seq + n)
        BY <1>a, <2>1, <3>2 DEF Ack
      <3> QED
        BY <2>1, <3>1, <3>2
    <2>5. NothingVanishes'
      <3> SUFFICES ASSUME NEW p \in 1 .. attempts
                   PROVE  \/ p < expected_seq' \/ p \in failed \/ p \in abandoned
                          \/ p \in PktsOf(Tracked)
        BY <2>2 DEF NothingVanishes, Tracked
      <3>1. p < expected_seq => p < expected_seq'
        BY <1>a, <2>1
      <3> QED
        BY <3>1 DEF OrderedInv, NothingVanishes
    <2> QED
      BY <1>0, <1>a, <2>1, <2>2, <2>3, <2>4, <2>5
      DEF OrderedInv, FramesNumbered, Tracked, SendingIsNew
  <1>13. ASSUME NEW f \in wire, LoseFrame(f)
         PROVE  OrderedInv'
    BY <1>0, <1>13
    DEF LoseFrame, txVars, rxVars, OrderedInv, FramesNumbered,
        Tracked, SendingIsNew, OutputInOrder, AcksBelowExpected, NothingVanishes
  <1>14. CASE UNCHANGED vars
    BY <1>0, <1>14
    DEF vars, OrderedInv, FramesNumbered,
        Tracked, SendingIsNew, OutputInOrder, AcksBelowExpected, NothingVanishes
  <1> QED
    BY <1>1, <1>2, <1>3, <1>4, <1>5, <1>6, <1>7, <1>8, <1>9, <1>10, <1>11,
       <1>12, <1>13, <1>14 DEF Next

(* The ordering invariant holds in every reachable state. *)
LEMMA OrderedInvariant == ASSUME NoWrap PROVE Spec => []OrderedInv
  <1>1. OrderedInv /\ [Next]_vars => OrderedInv'
    BY OrderedNext
  <1> QED
    BY OrderedInit, <1>1, PTL DEF Spec

(***************************************************************************)
(* Before the sequence number wraps, an ordered stream hands packets up in *)
(* the order they were numbered, without gaps and without repetitions, for *)
(* every window, retry limit, driver and link.                             *)
(***************************************************************************)
THEOREM OrderedDelivery == ASSUME NoWrap PROVE Spec => []InOrderDelivery
  <1>1. OrderedInv => InOrderDelivery
    BY DEF OrderedInv, TypeOK, OutputInOrder, InOrderDelivery
  <1> QED
    BY <1>1, OrderedInvariant, PTL

(***************************************************************************)
(* Before the wrap, a packet of an ordered stream leaves the sender's      *)
(* window unreported only after the receiver handed it up.                 *)
(***************************************************************************)
THEOREM NoSilentLoss == ASSUME NoWrap PROVE Spec => []AckedIsDelivered
  <1>1. OrderedInv => AckedIsDelivered
    <2> SUFFICES ASSUME OrderedInv, NEW p \in 1 .. attempts
                 PROVE  p \in PktsOf(sent) \cup PktsOf(sending) \cup Delivered
                               \cup failed \cup abandoned
      BY DEF AckedIsDelivered
    <2>1. CASE p < expected_seq
      <3>1. p \in 1 .. Len(released) /\ released[p] = p
        BY <2>1 DEF OrderedInv, OutputInOrder, TypeOK, Seqs
      <3>2. p \in DOMAIN released
        BY <3>1 DEF OrderedInv, TypeOK
      <3> QED
        BY <3>1, <3>2 DEF Delivered
    <2>2. CASE ~(p < expected_seq)
      BY <2>2 DEF OrderedInv, NothingVanishes, Tracked, PktsOf
    <2> QED
      BY <2>1, <2>2
  <1> QED
    BY <1>1, OrderedInvariant, PTL

-----------------------------------------------------------------------------
(***************************************************************************)
(* The window of an ordered stream: the limit MaxPending on both sides,    *)
(* PARTIAL_ACKs, and the refinement of SlidingWindow.                      *)
(***************************************************************************)

(***************************************************************************)
(* A sequence number is flagged when a PARTIAL_ACK for it is under way or  *)
(* was seen by the sender.                                                 *)
(***************************************************************************)
Flagged(m) == Partial(m) \in control \/ \E f \in partial_acked : f.seq = m

Received(m) == m < expected_seq \/ \E f \in buffered : f.seq = m

FlaggedIsReceived == \A m \in Seqs : Flagged(m) => Received(m)

TrackedFits == IsFiniteSet(Tracked) /\ Cardinality(Tracked) <= MaxPending

SendingIsNewest == \A f \in sending : f.pkt = attempts

(* The tracked packets are an interval that ends with the newest one. *)
TrackedContiguous ==
    \A f \in Tracked : \A p \in f.pkt .. attempts : p \in PktsOf(Tracked)

(***************************************************************************)
(* Below every flagged frame that is tracked there is one that is not      *)
(* flagged and never will be, because the receiver expects it or is past   *)
(* it; and no ACK stops right below a flagged number.                      *)
(***************************************************************************)
FlaggedHasOlder ==
    \A f \in Tracked : Flagged(f.seq) =>
       \E g \in Tracked : /\ g.seq < f.seq
                          /\ g.seq <= expected_seq
                          /\ ~Flagged(g.seq)

NoAckBelowFlagged ==
    \A c \in control : c.kind = "ack" => ~Flagged(c.seq + 1)

WindowInv ==
    /\ TrackedFits
    /\ NothingGivenUp =>
         SendingIsNewest /\ TrackedContiguous /\ FlaggedIsReceived
    /\ NothingGivenUp /\ ~Reentrant =>
         FlaggedHasOlder /\ NoAckBelowFlagged

-----------------------------------------------------------------------------
(* Consequences of the invariants *)

(* What the two invariants say of a pending and of a buffered frame. *)
LEMMA FrameFacts ==
  ASSUME OrderedInv
  PROVE  /\ attempts \in Nat /\ expected_seq \in Nat /\ expected_seq \in Seqs
         /\ \A f \in wire \cup Tracked \cup buffered :
              /\ f \in Frames /\ f.seq \in Nat /\ f.seq \in Seqs
              /\ f.pkt = f.seq /\ f.seq <= attempts
         /\ \A f \in buffered : f.seq > expected_seq
         /\ \A c \in control : c.seq \in Nat
         /\ partial_acked \subseteq sent /\ sent \subseteq Tracked
         /\ expected_seq <= attempts + 1
  BY SeqMaxAssumption, BoundsAssumption
  DEF OrderedInv, TypeOK, FramesNumbered, Tracked, Frames, Seqs, Pkts, Ctls

(* While nothing was given up, what the receiver misses is tracked. *)
LEMMA MissingIsTracked ==
  ASSUME OrderedInv, NothingGivenUp
  PROVE  \A p \in expected_seq .. attempts : p \in PktsOf(Tracked)
  <1> TAKE p \in expected_seq .. attempts
  <1>1. p \in 1 .. attempts /\ ~(p < expected_seq)
    BY FrameFacts DEF Seqs
  <1> QED
    BY <1>1 DEF OrderedInv, NothingVanishes, NothingGivenUp

(* The frame the receiver waits for is neither handed up nor buffered. *)
LEMMA ExpectedNotReceived ==
  ASSUME OrderedInv
  PROVE  ~Received(expected_seq)
  BY FrameFacts DEF Received

(* The missing frame leaves room in the buffer: it is itself in the window. *)
LEMMA RoomForOne ==
  ASSUME OrderedInv, NothingGivenUp, TrackedFits
  PROVE  Cardinality(buffered) < MaxPending
  <1>1. CASE buffered = {}
    BY <1>1, FS_EmptySet, MaxPendingAssumption
  <1>2. CASE buffered # {}
    <2>1. expected_seq \in expected_seq .. attempts
      BY <1>2, FrameFacts
    <2>2. PICK e \in Tracked : e.pkt = expected_seq
      BY <2>1, MissingIsTracked DEF PktsOf
    <2>3. buffered \subseteq Tracked \ {e}
      <3> SUFFICES ASSUME NEW h \in buffered
                   PROVE  h \in Tracked /\ h # e
        OBVIOUS
      <3>1. h.pkt \in expected_seq .. attempts
        BY FrameFacts
      <3>2. PICK t \in Tracked : t.pkt = h.pkt
        BY <3>1, MissingIsTracked DEF PktsOf
      <3>3. t = h
        BY <3>2, FrameFacts, SameFrame
      <3> QED
        BY <2>2, <3>3, FrameFacts
    <2>4. /\ IsFiniteSet(Tracked \ {e})
          /\ Cardinality(Tracked \ {e}) = Cardinality(Tracked) - 1
      BY <2>2, FS_RemoveElement DEF TrackedFits
    <2>5. /\ IsFiniteSet(buffered)
          /\ Cardinality(buffered) <= Cardinality(Tracked \ {e})
      BY <2>3, <2>4, FS_Subset
    <2>6. /\ Cardinality(buffered) \in Nat /\ Cardinality(Tracked) \in Nat
          /\ Cardinality(Tracked) <= MaxPending
      BY <2>5, FS_CardinalityType DEF TrackedFits
    <2> QED
      BY <2>4, <2>5, <2>6, MaxPendingAssumption
  <1> QED
    BY <1>1, <1>2

(***************************************************************************)
(* A step that leaves the tracked frames and the receiver alone and flags  *)
(* nothing new.                                                            *)
(***************************************************************************)
LEMMA QuietStep ==
  ASSUME WindowInv, Tracked' = Tracked, sending' \subseteq sending,
         control' \subseteq control, \A f \in partial_acked' : Flagged(f.seq),
         UNCHANGED <<attempts, failed, abandoned, expected_seq, buffered>>
  PROVE  WindowInv'
  <1>1. \A m : Flagged(m)' => Flagged(m)
    BY DEF Flagged
  <1>2. \A m : Received(m)' <=> Received(m)
    BY DEF Received
  <1>3. TrackedFits'
    BY DEF WindowInv, TrackedFits
  <1>4. NothingGivenUp' => NothingGivenUp
    BY DEF NothingGivenUp
  <1>5. NothingGivenUp' => SendingIsNewest' /\ TrackedContiguous' /\ FlaggedIsReceived'
    BY <1>1, <1>2, <1>4
    DEF WindowInv, SendingIsNewest, TrackedContiguous, FlaggedIsReceived, PktsOf
  <1>6. NothingGivenUp' /\ ~Reentrant => FlaggedHasOlder' /\ NoAckBelowFlagged'
    BY <1>1, <1>4 DEF WindowInv, FlaggedHasOlder, NoAckBelowFlagged
  <1> QED
    BY <1>3, <1>5, <1>6 DEF WindowInv

-----------------------------------------------------------------------------
(* The steps that are not quiet *)

(* send_serialized_with_reliable keeps the window invariant. *)
LEMMA WindowSendStart ==
  ASSUME NoWrap, OrderedInv, WindowInv, SendStart
  PROVE  WindowInv'
  <1> DEFINE f == [seq |-> next_seq, pkt |-> attempts + 1]
  <1>1. /\ sending = {} /\ sending' = {f} /\ sent' = sent
        /\ attempts' = attempts + 1 /\ Cardinality(sent) < MaxPending
        /\ UNCHANGED <<partial_acked, control, failed, abandoned, expected_seq, buffered>>
    BY DEF SendStart, MayNumber, TakeSeq, rxVars
  <1>2. f.seq = attempts + 1 /\ f.pkt = attempts + 1
    BY DEF OrderedInv
  <1>2a. attempts + 1 \in Seqs
    BY SeqMaxAssumption DEF OrderedInv, TypeOK
  <1> HIDE DEF f
  <1>3. Tracked = sent /\ Tracked' = Tracked \cup {f}
    BY <1>1 DEF Tracked
  <1>4. TrackedFits'
    <2>1. IsFiniteSet(Tracked) /\ Cardinality(Tracked) \in Nat
      BY FS_CardinalityType DEF WindowInv, TrackedFits
    <2>2. /\ IsFiniteSet(Tracked \cup {f})
          /\ Cardinality(Tracked \cup {f}) <= Cardinality(Tracked) + 1
      <3>1. /\ IsFiniteSet(Tracked \cup {f})
            /\ Cardinality(Tracked \cup {f}) =
                 IF f \in Tracked THEN Cardinality(Tracked) ELSE Cardinality(Tracked) + 1
        BY <2>1, FS_AddElement
      <3> QED
        BY <2>1, <3>1
    <2>3. Cardinality(Tracked \cup {f}) \in Nat
      BY <2>2, FS_CardinalityType
    <2> QED
      BY <1>1, <1>3, <2>1, <2>2, <2>3, MaxPendingAssumption DEF TrackedFits
  <1>5. \A m : /\ Flagged(m)' <=> Flagged(m)
               /\ Received(m)' <=> Received(m)
    BY <1>1 DEF Flagged, Received
  <1>6. ASSUME NothingGivenUp'
        PROVE  /\ NothingGivenUp /\ SendingIsNewest' /\ TrackedContiguous'
               /\ FlaggedIsReceived'
    <2>1. NothingGivenUp
      BY <1>1, <1>6 DEF NothingGivenUp
    <2>2. SendingIsNewest'
      BY <1>1, <1>2 DEF SendingIsNewest
    <2>3. TrackedContiguous'
      <3> SUFFICES ASSUME NEW g \in Tracked \cup {f}, NEW p \in g.pkt .. attempts + 1
                   PROVE  p \in PktsOf(Tracked \cup {f})
        BY <1>1, <1>3 DEF TrackedContiguous
      <3>1. CASE p = attempts + 1
        BY <1>2, <3>1 DEF PktsOf
      <3>2. CASE p # attempts + 1
        <4>1. g \in Tracked /\ p \in g.pkt .. attempts
          BY <1>2, <3>2, FrameFacts
        <4> QED
          BY <2>1, <4>1 DEF WindowInv, TrackedContiguous, PktsOf
      <3> QED
        BY <3>1, <3>2
    <2> QED
      BY <1>5, <2>1, <2>2, <2>3 DEF WindowInv, FlaggedIsReceived
  <1>7. ASSUME NothingGivenUp', ~Reentrant
        PROVE  FlaggedHasOlder' /\ NoAckBelowFlagged'
    <2>1. NothingGivenUp /\ FlaggedHasOlder /\ NoAckBelowFlagged /\ FlaggedIsReceived
      BY <1>6, <1>7 DEF WindowInv
    <2>2. ~Received(attempts + 1)
      BY FrameFacts DEF Received
    <2>3. ~Flagged(f.seq)
      BY <1>2, <1>2a, <2>1, <2>2 DEF FlaggedIsReceived
    <2>4. FlaggedHasOlder'
      BY <1>1, <1>3, <1>5, <2>1, <2>3 DEF FlaggedHasOlder
    <2> QED
      BY <1>1, <1>5, <2>1, <2>4 DEF NoAckBelowFlagged
  <1> QED
    BY <1>4, <1>6, <1>7 DEF WindowInv

(* handle_ack_impl keeps the window invariant. *)
LEMMA WindowHandleAck ==
  ASSUME NoWrap, OrderedInv, WindowInv, NEW a, HandleAck(a)
  PROVE  WindowInv'
  <1>1. /\ sent' = sent \ AckedBy(a) /\ control' \subseteq control
        /\ Ack(a) \in control /\ partial_acked' \subseteq partial_acked
        /\ UNCHANGED <<sending, attempts, failed, abandoned, expected_seq, buffered>>
    BY DEF HandleAck, TakeControl, Erase, Ack, rxVars
  <1>2. a \in Nat /\ a < expected_seq
    BY <1>1, FrameFacts DEF OrderedInv, AcksBelowExpected, Ack
  <1>3. AckedBy(a) = {f \in sent : \A g \in sent : g.pkt <= f.pkt => g.seq <= a}
    BY DEF AckedBy, NoWrap
  <1>4. Tracked' \subseteq Tracked
    BY <1>1 DEF Tracked
  <1>5. TrackedFits'
    <2>1. /\ IsFiniteSet(Tracked')
          /\ Cardinality(Tracked') <= Cardinality(Tracked)
          /\ Cardinality(Tracked) <= MaxPending
      BY <1>4, FS_Subset DEF WindowInv, TrackedFits
    <2>2. Cardinality(Tracked') \in Nat /\ Cardinality(Tracked) \in Nat
      BY <2>1, FS_CardinalityType DEF WindowInv, TrackedFits
    <2> QED
      BY <2>1, <2>2, MaxPendingAssumption DEF TrackedFits
  <1>6. \A m : /\ Flagged(m)' => Flagged(m)
               /\ Received(m)' <=> Received(m)
    BY <1>1 DEF Flagged, Received
  <1>7. ASSUME NothingGivenUp'
        PROVE  /\ NothingGivenUp /\ SendingIsNewest' /\ TrackedContiguous'
               /\ FlaggedIsReceived'
    <2>1. NothingGivenUp /\ SendingIsNewest /\ TrackedContiguous /\ FlaggedIsReceived
      BY <1>1, <1>7 DEF NothingGivenUp, WindowInv
    <2>2. SendingIsNewest'
      BY <1>1, <2>1 DEF SendingIsNewest
    <2>3. TrackedContiguous'
      <3> SUFFICES ASSUME NEW f \in Tracked', NEW p \in f.pkt .. attempts
                   PROVE  p \in PktsOf(Tracked')
        BY <1>1 DEF TrackedContiguous
      <3>1. PICK g \in Tracked : g.pkt = p
        BY <1>4, <2>1 DEF TrackedContiguous, PktsOf
      <3>2. f \in Tracked /\ f.pkt <= g.pkt
        BY <1>4, <3>1, FrameFacts
      <3>3. ~(g \in AckedBy(a))
        <4> SUFFICES ASSUME g \in AckedBy(a)
                     PROVE  FALSE
          OBVIOUS
        <4>1. g \in sent /\ \A h \in sent : h.pkt <= g.pkt => h.seq <= a
          BY <1>3
        <4>2. CASE f \in sent
          <5>1. \A h \in sent : h.pkt <= f.pkt => h.pkt <= g.pkt
            BY <3>2, FrameFacts
          <5>2. f \in AckedBy(a)
            BY <1>3, <4>1, <4>2, <5>1
          <5>3. f \notin sending
            BY <4>2 DEF OrderedInv, SendingIsNew
          <5> QED
            BY <1>1, <5>2, <5>3 DEF Tracked
        <4>3. CASE f \in sending
          <5>1. g.pkt = attempts /\ f.pkt = attempts
            BY <2>1, <3>2, <4>3, FrameFacts DEF SendingIsNewest
          <5>2. f = g
            BY <3>2, <5>1, FrameFacts, SameFrame
          <5> QED
            BY <4>1, <4>3, <5>2 DEF OrderedInv, SendingIsNew
        <4> QED
          BY <3>2, <4>2, <4>3 DEF Tracked
      <3>4. g \in Tracked'
        BY <1>1, <3>1, <3>3 DEF Tracked
      <3> QED
        BY <3>1, <3>4 DEF PktsOf
    <2> QED
      BY <1>6, <2>1, <2>2, <2>3 DEF FlaggedIsReceived
  <1>8. ASSUME NothingGivenUp', ~Reentrant
        PROVE  FlaggedHasOlder' /\ NoAckBelowFlagged'
    <2>1. NothingGivenUp /\ FlaggedHasOlder /\ NoAckBelowFlagged /\ TrackedContiguous
      BY <1>7, <1>8 DEF WindowInv
    <2>2. sending = {} /\ Tracked = sent /\ Tracked' = sent'
      BY <1>1, <1>8 DEF HandleAck, TakeControl, SenderFree, Tracked
    <2>3. FlaggedHasOlder'
      <3> SUFFICES ASSUME NEW f \in Tracked', Flagged(f.seq)'
                   PROVE  \E g \in Tracked' : /\ g.seq < f.seq
                                              /\ g.seq <= expected_seq
                                              /\ ~Flagged(g.seq)'
        BY <1>1 DEF FlaggedHasOlder
      <3>1. f \in Tracked /\ Flagged(f.seq)
        BY <1>4, <1>6
      <3>2. PICK g \in Tracked : g.seq < f.seq /\ g.seq <= expected_seq /\ ~Flagged(g.seq)
        BY <2>1, <3>1 DEF FlaggedHasOlder
      <3>3. CASE g \in Tracked'
        BY <1>6, <3>2, <3>3
      <3>4. CASE g \notin Tracked'
        <4>1. g \in AckedBy(a)
          BY <1>1, <2>2, <3>4
        <4>2. g.seq <= a
          BY <1>3, <4>1, FrameFacts
        <4>3. PICK h \in sent : h.pkt <= f.pkt /\ ~(h.seq <= a)
          BY <1>1, <1>3, <2>2, <3>1
        <4>4. f.seq > a
          BY <1>2, <2>2, <3>1, <4>3, FrameFacts
        <4>5. ~Flagged(a + 1)
          BY <1>1, <2>1 DEF NoAckBelowFlagged, Ack
        <4>6. f.seq # a + 1
          BY <3>1, <4>5
        <4>7. a + 1 \in g.pkt .. attempts
          BY <1>2, <3>1, <4>2, <4>4, FrameFacts
        <4>8. PICK w \in Tracked : w.pkt = a + 1
          BY <2>1, <4>7 DEF TrackedContiguous, PktsOf
        <4>9. w.seq = a + 1
          BY <4>8, FrameFacts
        <4>10. w \notin AckedBy(a)
          BY <1>2, <1>3, <4>8, <4>9
        <4>11. w \in Tracked'
          BY <1>1, <2>2, <4>8, <4>10
        <4>12. w.seq < f.seq /\ w.seq <= expected_seq
          BY <1>2, <3>1, <4>4, <4>6, <4>9, FrameFacts
        <4> QED
          BY <1>6, <4>5, <4>9, <4>11, <4>12
      <3> QED
        BY <3>3, <3>4
    <2> QED
      BY <1>1, <1>6, <2>1, <2>3 DEF NoAckBelowFlagged
  <1> QED
    BY <1>5, <1>7, <1>8 DEF WindowInv

(* While nothing was given up, IngressAhead keeps the frame it PARTIAL_ACKs. *)
LEMMA AheadIsKept ==
  ASSUME OrderedInv, WindowInv, NothingGivenUp, NEW f \in wire, IngressAhead(f)
  PROVE  buffered \subseteq buffered' /\ \E g \in buffered' : g.seq = f.seq
  <1>1. Cardinality(buffered) < MaxPending
    BY RoomForOne DEF WindowInv
  <1> QED
    BY <1>1 DEF IngressAhead

(* Buffering an early frame keeps the window invariant. *)
LEMMA WindowIngressAhead ==
  ASSUME NoWrap, OrderedInv, OrderedInv', WindowInv, NEW f \in wire, IngressAhead(f)
  PROVE  WindowInv'
  <1>1. /\ f.seq > expected_seq
        /\ control' = control \cup {Partial(f.seq), Request(expected_seq)}
        /\ UNCHANGED <<sent, sending, partial_acked, attempts, failed, abandoned,
                       expected_seq>>
    BY DEF IngressAhead, TakeFrame, txVars
  <1>2. Tracked' = Tracked
    BY <1>1 DEF Tracked
  <1>3. TrackedFits'
    BY <1>2 DEF WindowInv, TrackedFits
  <1>4. \A m : Flagged(m)' <=> Flagged(m) \/ m = f.seq
    BY <1>1 DEF Flagged, Partial, Request
  <1>5. \A c \in control' : c.kind = "ack" => c \in control
    BY <1>1 DEF Partial, Request
  <1>6. ASSUME NothingGivenUp'
        PROVE  /\ NothingGivenUp /\ SendingIsNewest' /\ TrackedContiguous'
               /\ FlaggedIsReceived'
    <2>1. NothingGivenUp /\ SendingIsNewest /\ TrackedContiguous /\ FlaggedIsReceived
      BY <1>1, <1>6 DEF NothingGivenUp, WindowInv
    <2>2. SendingIsNewest' /\ TrackedContiguous'
      BY <1>1, <1>2, <2>1 DEF SendingIsNewest, TrackedContiguous, PktsOf
    <2>3. /\ \A m : Received(m) => Received(m)'
          /\ Received(f.seq)'
      BY <1>1, <2>1, AheadIsKept DEF Received
    <2>4. FlaggedIsReceived'
      BY <1>4, <2>1, <2>3 DEF FlaggedIsReceived
    <2> QED
      BY <2>1, <2>2, <2>4
  <1>7. ASSUME NothingGivenUp', ~Reentrant
        PROVE  FlaggedHasOlder' /\ NoAckBelowFlagged'
    <2>1. NothingGivenUp /\ FlaggedHasOlder /\ NoAckBelowFlagged /\ FlaggedIsReceived
      BY <1>6, <1>7 DEF WindowInv
    <2>2. ~Flagged(expected_seq)'
      BY <1>1, <1>4, <2>1, ExpectedNotReceived, FrameFacts DEF FlaggedIsReceived
    <2>3. FlaggedHasOlder'
      <3> SUFFICES ASSUME NEW t \in Tracked, Flagged(t.seq)'
                   PROVE  \E g \in Tracked : /\ g.seq < t.seq
                                             /\ g.seq <= expected_seq
                                             /\ ~Flagged(g.seq)'
        BY <1>1, <1>2 DEF FlaggedHasOlder
      <3>1. CASE t.seq = f.seq
        <4>1. expected_seq \in expected_seq .. attempts
          BY <1>1, FrameFacts
        <4>2. PICK e \in Tracked : e.pkt = expected_seq
          BY <2>1, <4>1, MissingIsTracked DEF PktsOf
        <4>3. e.seq = expected_seq
          BY <4>2, FrameFacts
        <4>4. expected_seq' = expected_seq
          BY <1>1
        <4>5. ~Flagged(e.seq)'
          BY <1>1, <1>4, <2>1, <4>3, ExpectedNotReceived, FrameFacts DEF FlaggedIsReceived
        <4> QED
          BY <1>1, <3>1, <4>3, <4>5, FrameFacts
      <3>2. CASE t.seq # f.seq
        <4>1. PICK g \in Tracked : g.seq < t.seq /\ g.seq <= expected_seq /\ ~Flagged(g.seq)
          BY <1>4, <2>1, <3>2 DEF FlaggedHasOlder
        <4>2. g.seq # f.seq
          BY <1>1, <4>1, FrameFacts
        <4> QED
          BY <1>4, <4>1, <4>2
      <3> QED
        BY <3>1, <3>2
    <2>4. NoAckBelowFlagged'
      <3> SUFFICES ASSUME NEW c \in control, c.kind = "ack"
                   PROVE  ~Flagged(c.seq + 1)'
        BY <1>5 DEF NoAckBelowFlagged
      <3>1. c.seq \in Nat /\ c.seq < expected_seq
        BY FrameFacts DEF OrderedInv, AcksBelowExpected
      <3>2. c.seq + 1 # f.seq
        BY <1>1, <3>1, FrameFacts
      <3> QED
        BY <1>4, <2>1, <3>2 DEF NoAckBelowFlagged
    <2> QED
      BY <2>3, <2>4
  <1> QED
    BY <1>3, <1>6, <1>7 DEF WindowInv

(***************************************************************************)
(* IngressOld and IngressNext: the receiver may advance, nothing new is    *)
(* flagged, and the new ACK is the one right below the expected number.    *)
(***************************************************************************)
LEMMA WindowAdvance ==
  ASSUME NoWrap, OrderedInv, OrderedInv', WindowInv,
         \A m \in Seqs : Received(m) => Received(m)',
         expected_seq <= expected_seq',
         control' = control \cup {Ack(expected_seq' - 1)},
         UNCHANGED <<sent, sending, partial_acked, attempts, failed, abandoned>>
  PROVE  WindowInv'
  <1>2. Tracked' = Tracked
    BY DEF Tracked
  <1>3. TrackedFits'
    BY <1>2 DEF WindowInv, TrackedFits
  <1>4. \A m : Flagged(m)' <=> Flagged(m)
    BY DEF Flagged, Partial, Ack
  <1>5. expected_seq \in Nat /\ expected_seq' \in Nat /\ expected_seq' \in Seqs
    BY SeqMaxAssumption DEF OrderedInv, TypeOK, Seqs
  <1>6. ASSUME NothingGivenUp'
        PROVE  /\ NothingGivenUp /\ SendingIsNewest' /\ TrackedContiguous'
               /\ FlaggedIsReceived'
    <2>1. NothingGivenUp /\ SendingIsNewest /\ TrackedContiguous /\ FlaggedIsReceived
      BY <1>6 DEF NothingGivenUp, WindowInv
    <2>2. SendingIsNewest' /\ TrackedContiguous'
      BY <1>2, <2>1 DEF SendingIsNewest, TrackedContiguous, PktsOf
    <2> QED
      BY <1>4, <2>1, <2>2 DEF FlaggedIsReceived
  <1>7. ASSUME NothingGivenUp', ~Reentrant
        PROVE  FlaggedHasOlder' /\ NoAckBelowFlagged'
    <2>1. NothingGivenUp /\ FlaggedHasOlder /\ NoAckBelowFlagged /\ FlaggedIsReceived'
      BY <1>6, <1>7 DEF WindowInv
    <2>2. FlaggedHasOlder'
      <3> SUFFICES ASSUME NEW t \in Tracked, Flagged(t.seq)
                   PROVE  \E g \in Tracked : /\ g.seq < t.seq
                                             /\ g.seq <= expected_seq'
                                             /\ ~Flagged(g.seq)
        BY <1>2, <1>4 DEF FlaggedHasOlder
      <3>1. PICK g \in Tracked : g.seq < t.seq /\ g.seq <= expected_seq /\ ~Flagged(g.seq)
        BY <2>1 DEF FlaggedHasOlder
      <3>2. g.seq <= expected_seq'
        BY <1>5, <3>1, FrameFacts
      <3> QED
        BY <3>1, <3>2
    <2>3. ~Received(expected_seq)'
      <3>1. \A g \in buffered' : g.seq \in Nat /\ g.seq > expected_seq'
        BY SeqMaxAssumption DEF OrderedInv, TypeOK, Frames, Seqs
      <3> QED
        BY <1>5, <3>1 DEF Received
    <2>4. ~Flagged(expected_seq')
      <3> SUFFICES ASSUME Flagged(expected_seq')
                   PROVE  FALSE
        OBVIOUS
      <3>1. Flagged(expected_seq)'
        BY DEF Flagged, Partial, Ack
      <3> QED
        BY <1>5, <2>1, <2>3, <3>1 DEF FlaggedIsReceived
    <2>5. NoAckBelowFlagged'
      <3> SUFFICES ASSUME NEW c \in control', c.kind = "ack"
                   PROVE  ~Flagged(c.seq + 1)
        BY <1>4 DEF NoAckBelowFlagged
      <3>1. CASE c \in control
        BY <2>1, <3>1 DEF NoAckBelowFlagged
      <3>2. CASE c = Ack(expected_seq' - 1)
        <4>1. c.seq = expected_seq' - 1
          BY <3>2 DEF Ack
        <4>2. c.seq + 1 = expected_seq'
          <5>1. \A x \in Nat : (x - 1) + 1 = x
            OBVIOUS
          <5>2. expected_seq' \in Nat
            BY <1>5
          <5> QED
            BY <4>1, <5>1, <5>2, Zenon
        <4> QED
          BY <2>4, <4>2
      <3> QED
        BY <3>1, <3>2
    <2> QED
      BY <2>2, <2>5
  <1> QED
    BY <1>3, <1>6, <1>7 DEF WindowInv

-----------------------------------------------------------------------------
(* The window invariant *)

(* A new link satisfies the window invariant. *)
LEMMA WindowInit == Init => WindowInv
  <1> SUFFICES ASSUME Init PROVE WindowInv
    OBVIOUS
  <1>1. Tracked = {} /\ sending = {} /\ control = {} /\ partial_acked = {}
    BY DEF Init, Tracked
  <1>2. TrackedFits
    BY <1>1, FS_EmptySet, MaxPendingAssumption DEF TrackedFits
  <1>3. SendingIsNewest /\ TrackedContiguous /\ FlaggedIsReceived
    BY <1>1 DEF SendingIsNewest, TrackedContiguous, FlaggedIsReceived, Flagged
  <1>4. FlaggedHasOlder /\ NoAckBelowFlagged
    BY <1>1 DEF FlaggedHasOlder, NoAckBelowFlagged
  <1> QED
    BY <1>2, <1>3, <1>4 DEF WindowInv

(* A step after which something was given up only has to keep the window. *)
LEMMA GivingUpStep ==
  ASSUME WindowInv, Tracked' \subseteq Tracked, ~NothingGivenUp'
  PROVE  WindowInv'
  <1>1. /\ IsFiniteSet(Tracked')
        /\ Cardinality(Tracked') <= Cardinality(Tracked)
        /\ Cardinality(Tracked) <= MaxPending
    BY FS_Subset DEF WindowInv, TrackedFits
  <1>2. Cardinality(Tracked') \in Nat /\ Cardinality(Tracked) \in Nat
    BY <1>1, FS_CardinalityType DEF WindowInv, TrackedFits
  <1>3. TrackedFits'
    BY <1>1, <1>2, MaxPendingAssumption DEF TrackedFits
  <1> QED
    BY <1>3 DEF WindowInv

(* Every step keeps the window invariant; one case per handler. *)
LEMMA WindowNext ==
  ASSUME NoWrap, OrderedInv, OrderedInv', WindowInv, [Next]_vars
  PROVE  WindowInv'
  <1>0. \A f \in partial_acked : Flagged(f.seq)
    BY DEF Flagged
  <1>1. CASE SendStart
    BY <1>1, WindowSendStart
  <1>2. CASE SendReturn
    <2>1. PICK f \in sending :
              IF \E g \in sent : g.seq = f.seq
              THEN UNCHANGED <<sent, retries>>
              ELSE sent' = sent \cup {f}
      BY <1>2 DEF SendReturn
    <2>2. f \in Tracked /\ \A g \in sent : g \in Tracked
      BY DEF Tracked
    <2>3. \A g \in sent : g.seq # f.seq
      BY <2>2, FrameFacts, SameFrame DEF OrderedInv, SendingIsNew
    <2>4. sending = {f} /\ sending' = {} /\ sent' = sent \cup {f}
      BY <1>2, <2>1, <2>3 DEF SendReturn, OrderedInv, SendingIsNew
    <2>5. Tracked' = Tracked
      BY <2>4 DEF Tracked
    <2> QED
      BY <1>0, <1>2, <2>4, <2>5, QuietStep DEF SendReturn, rxVars
  <1>3. CASE SendRefused
    <2>1. Tracked' = Tracked /\ ~NothingGivenUp'
      BY <1>3 DEF SendRefused, Tracked, NothingGivenUp
    <2> QED
      BY <2>1, GivingUpStep
  <1>4. ASSUME NEW c \in control, HandleAck(c.seq)
        PROVE  WindowInv'
    BY <1>4, WindowHandleAck
  <1>5. ASSUME NEW c \in control, HandlePartialAck(c.seq)
        PROVE  WindowInv'
    <2>1. Partial(c.seq) \in control /\ control' \subseteq control
      BY <1>5 DEF HandlePartialAck, TakeControl, Partial
    <2>2. \A f \in partial_acked' : Flagged(f.seq)
      BY <1>0, <1>5, <2>1 DEF HandlePartialAck, Flagged
    <2>3. /\ Tracked' = Tracked /\ sending' = sending
          /\ UNCHANGED <<attempts, failed, abandoned, expected_seq, buffered>>
      BY <1>5 DEF HandlePartialAck, Tracked, rxVars
    <2> QED
      BY <2>1, <2>2, <2>3, QuietStep
  <1>6. ASSUME NEW c \in control, HandlePacketRequest(c.seq)
        PROVE  WindowInv'
    <2>1. /\ control' \subseteq control /\ partial_acked' \subseteq partial_acked
          /\ Tracked' = Tracked /\ sending' = sending
          /\ UNCHANGED <<attempts, failed, abandoned, expected_seq, buffered>>
      BY <1>6 DEF HandlePacketRequest, TakeControl, Tracked, rxVars
    <2> QED
      BY <1>0, <2>1, QuietStep
  <1>7. ASSUME NEW c \in control, LoseControl(c)
        PROVE  WindowInv'
    <2>1. /\ control' \subseteq control /\ partial_acked' = partial_acked
          /\ Tracked' = Tracked /\ sending' = sending
          /\ UNCHANGED <<attempts, failed, abandoned, expected_seq, buffered>>
      BY <1>7 DEF LoseControl, txVars, rxVars, Tracked
    <2> QED
      BY <1>0, <2>1, QuietStep
  <1>8. ASSUME NEW due \in SUBSET sent, Timeouts(due)
        PROVE  WindowInv'
    <2> DEFINE spent == {f \in due : retries[f] >= MaxRetries}
    <2>1. /\ sent' = sent \ spent
          /\ abandoned' = abandoned \cup {f.pkt : f \in spent}
          /\ UNCHANGED <<partial_acked, sending, control, attempts, failed,
                         expected_seq, buffered>>
      BY <1>8 DEF Timeouts, rxVars
    <2> HIDE DEF spent
    <2>2. CASE spent = {}
      <3>1. Tracked' = Tracked /\ abandoned' = abandoned
        BY <2>1, <2>2 DEF Tracked
      <3> QED
        BY <1>0, <2>1, <3>1, QuietStep
    <2>3. CASE spent # {}
      <3>1. Tracked' \subseteq Tracked /\ ~NothingGivenUp'
        BY <2>1, <2>3 DEF Tracked, NothingGivenUp
      <3> QED
        BY <3>1, GivingUpStep
    <2> QED
      BY <2>2, <2>3
  <1>9. ASSUME NEW f \in wire, IngressUnordered(f)
        PROVE  WindowInv'
    BY <1>9 DEF IngressUnordered, NoWrap
  <1>10. ASSUME NEW f \in wire, IngressOld(f)
         PROVE  WindowInv'
    <2>1. /\ control' = control \cup {Ack(expected_seq' - 1)}
          /\ UNCHANGED <<sent, sending, partial_acked, attempts, failed,
                         abandoned, expected_seq, buffered>>
      BY <1>10 DEF IngressOld, TakeFrame, txVars, rxVars
    <2>2. \A m \in Seqs : Received(m) => Received(m)'
      BY <2>1 DEF Received
    <2>3. expected_seq <= expected_seq'
      BY <2>1, FrameFacts
    <2> QED
      BY <2>1, <2>2, <2>3, WindowAdvance
  <1>11. ASSUME NEW f \in wire, IngressAhead(f)
         PROVE  WindowInv'
    BY <1>11, WindowIngressAhead
  <1>12. ASSUME NEW f \in wire, IngressNext(f)
         PROVE  WindowInv'
    <2>1. PICK n \in Nat :
           /\ expected_seq' = expected_seq + n + 1
           /\ control' = control \cup {Ack(expected_seq + n)}
           /\ \A g \in buffered \ buffered' : g.seq < expected_seq'
      BY <1>12, NextRun
    <2>2. UNCHANGED <<sent, sending, partial_acked, attempts, failed, abandoned>>
      BY <1>12 DEF IngressNext, TakeFrame, txVars
    <2>3. expected_seq + n = expected_seq' - 1 /\ expected_seq <= expected_seq'
      BY <2>1, FrameFacts
    <2>4. \A m \in Seqs : Received(m) => Received(m)'
      <3> SUFFICES ASSUME NEW m \in Seqs, Received(m)
                   PROVE  Received(m)'
        OBVIOUS
      <3>1. CASE m < expected_seq
        BY <2>1, <3>1, FrameFacts, SeqMaxAssumption DEF Received, Seqs
      <3>2. CASE \E g \in buffered : g.seq = m
        BY <2>1, <3>2 DEF Received
      <3> QED
        BY <3>1, <3>2 DEF Received
    <2> QED
      BY <2>1, <2>2, <2>3, <2>4, WindowAdvance
  <1>13. ASSUME NEW f \in wire, LoseFrame(f)
         PROVE  WindowInv'
    <2>1. /\ control' = control /\ partial_acked' = partial_acked
          /\ Tracked' = Tracked /\ sending' = sending
          /\ UNCHANGED <<attempts, failed, abandoned, expected_seq, buffered>>
      BY <1>13 DEF LoseFrame, txVars, rxVars, Tracked
    <2> QED
      BY <1>0, <2>1, QuietStep
  <1>14. CASE UNCHANGED vars
    <2>1. /\ control' = control /\ partial_acked' = partial_acked
          /\ Tracked' = Tracked /\ sending' = sending
          /\ UNCHANGED <<attempts, failed, abandoned, expected_seq, buffered>>
      BY <1>14 DEF vars, Tracked
    <2> QED
      BY <1>0, <2>1, QuietStep
  <1> QED
    BY <1>1, <1>2, <1>3, <1>4, <1>5, <1>6, <1>7, <1>8, <1>9, <1>10, <1>11,
       <1>12, <1>13, <1>14 DEF Next

(* The window invariant holds in every reachable state. *)
LEMMA WindowInvariant == ASSUME NoWrap PROVE Spec => []WindowInv
  <1>1. OrderedInv /\ OrderedInv' /\ WindowInv /\ [Next]_vars => WindowInv'
    BY WindowNext
  <1> QED
    BY OrderedInvariant, WindowInit, <1>1, PTL DEF Spec

-----------------------------------------------------------------------------
(* The theorems *)

(***************************************************************************)
(* While nothing was given up the receiver always has room for one more    *)
(* early frame.                                                            *)
(***************************************************************************)
THEOREM RoomTheorem == ASSUME NoWrap PROVE Spec => []BufferHasRoom
  <1>1. OrderedInv /\ WindowInv => BufferHasRoom
    BY RoomForOne DEF WindowInv, BufferHasRoom
  <1> QED
    BY <1>1, OrderedInvariant, WindowInvariant, PTL

(***************************************************************************)
(* While nothing was given up, a frame exempted from retransmission by a   *)
(* PARTIAL_ACK is buffered or was handed up.                               *)
(***************************************************************************)
THEOREM PartialAckTheorem == ASSUME NoWrap PROVE Spec => []PartialAckIsHeld
  <1>1. ASSUME OrderedInv, WindowInv
        PROVE  PartialAckIsHeld
    <2> SUFFICES ASSUME NothingGivenUp, NEW f \in partial_acked
                 PROVE  f \in buffered \/ f.pkt \in Delivered
      BY DEF PartialAckIsHeld
    <2>1. f \in Tracked /\ f.seq \in Seqs /\ f.pkt = f.seq /\ f \in Frames
      BY <1>1, FrameFacts
    <2>2. Received(f.seq)
      BY <1>1, <2>1 DEF WindowInv, FlaggedIsReceived, Flagged
    <2>3. CASE f.seq < expected_seq
      <3>1. f.seq \in 1 .. Len(released) /\ released[f.seq] = f.seq
        BY <1>1, <2>1, <2>3, SeqMaxAssumption DEF OrderedInv, OutputInOrder, TypeOK, Seqs
      <3>2. f.seq \in DOMAIN released
        BY <1>1, <3>1 DEF OrderedInv, TypeOK
      <3> QED
        BY <2>1, <3>1, <3>2 DEF Delivered
    <2>4. CASE \E h \in buffered : h.seq = f.seq
      BY <1>1, <2>1, <2>4, FrameFacts, SameFrame
    <2> QED
      BY <2>2, <2>3, <2>4 DEF Received
  <1> QED
    BY <1>1, OrderedInvariant, WindowInvariant, PTL

(***************************************************************************)
(* While nothing was given up and the driver does not re-enter the router, *)
(* the oldest pending frame is never exempt from retransmission.           *)
(***************************************************************************)
THEOREM OldestTheorem == ASSUME NoWrap PROVE Spec => []OldestIsRetransmitted
  <1>1. ASSUME OrderedInv, WindowInv
        PROVE  OldestIsRetransmitted
    <2> SUFFICES ASSUME NothingGivenUp, ~Reentrant, NEW f \in partial_acked
                 PROVE  \E g \in sent \ partial_acked : g.pkt < f.pkt
      BY DEF OldestIsRetransmitted
    <2>1. f \in Tracked /\ Flagged(f.seq)
      BY <1>1, FrameFacts DEF Flagged
    <2>2. PICK g \in Tracked : g.seq < f.seq /\ ~Flagged(g.seq)
      BY <1>1, <2>1 DEF WindowInv, FlaggedHasOlder
    <2>3. g.pkt < f.pkt /\ f.pkt <= attempts
      BY <1>1, <2>1, <2>2, FrameFacts
    <2>4. g \notin sending
      BY <1>1, <2>3, <2>1, <2>2, FrameFacts DEF WindowInv, SendingIsNewest
    <2>5. g \in sent /\ g \notin partial_acked
      BY <2>2, <2>4 DEF Tracked, Flagged
    <2> QED
      BY <2>3, <2>5
  <1> QED
    BY <1>1, OrderedInvariant, WindowInvariant, PTL

-----------------------------------------------------------------------------
(* The ordered stream implements SlidingWindow *)

Held == PktsOf(sent \cup sending)

(* The packets the sender holds are as many as its frames: they fit the window. *)
LEMMA HeldFits ==
  ASSUME IsFiniteSet(Tracked)
  PROVE  Cardinality(Held) <= Cardinality(Tracked) /\ IsFiniteSet(Held)
  <1> DEFINE proj == [f \in Tracked |-> f.pkt]
  <1>1. proj \in Surjection(Tracked, Held)
    BY DEF Surjection, Held, PktsOf, Tracked
  <1> QED
    BY <1>1, FS_Surjection

(* Packets leave `Held' with exactly the frames that are erased. *)
LEMMA HeldWithout ==
  ASSUME OrderedInv, NEW F \in SUBSET sent, sent' = sent \ F, sending' = sending
  PROVE  Held' = Held \ PktsOf(F)
  <1>1. ASSUME NEW f \in (sent \ F) \cup sending, NEW g \in F
        PROVE  f.pkt # g.pkt
    <2> SUFFICES ASSUME f.pkt = g.pkt
                 PROVE  FALSE
      OBVIOUS
    <2>1. f \in Tracked /\ g \in Tracked
      BY DEF Tracked
    <2>2. f = g
      BY <2>1, FrameFacts, SameFrame
    <2> QED
      BY <2>2 DEF OrderedInv, SendingIsNew
  <1>2. Held' = PktsOf((sent \ F) \cup sending)
    BY DEF Held, PktsOf
  <1> QED
    BY <1>1, <1>2 DEF Held, PktsOf

(* A new link maps to an empty sliding window. *)
LEMMA RefinementInit == Init => Window!Init
  BY DEF Init, Window!Init, PktsOf

(* Every step of the link is a step of the sliding window or a stutter. *)
LEMMA RefinementNext ==
  ASSUME NoWrap, OrderedInv, WindowInv, [Next]_vars
  PROVE  [Window!Next]_Window!vars
  <1> USE DEF Window!Next, Window!vars
  <1>0. Tracked = sent \cup sending /\ Held = PktsOf(sent \cup sending)
    BY DEF Tracked, Held
  <1>1. CASE SendStart
    <2>1. /\ sending = {} /\ sending' = {[seq |-> next_seq, pkt |-> attempts + 1]}
          /\ sent' = sent /\ attempts' = attempts + 1
          /\ Cardinality(sent) < MaxPending
          /\ UNCHANGED <<failed, abandoned, released>>
      BY <1>1 DEF SendStart, MayNumber, TakeSeq, rxVars
    <2>2. IsFiniteSet(Tracked) /\ Tracked = sent
      BY <2>1 DEF WindowInv, TrackedFits, Tracked
    <2>3. Cardinality(Held) < MaxPending
      <3>1. /\ Cardinality(Held) \in Nat /\ Cardinality(sent) \in Nat
            /\ Cardinality(Held) <= Cardinality(sent)
        BY <2>2, HeldFits, FS_CardinalityType
      <3> QED
        BY <2>1, <3>1, MaxPendingAssumption
    <2> DEFINE f == [seq |-> next_seq, pkt |-> attempts + 1]
    <2>4. Held' = Held \cup {attempts + 1}
      <3>1. f.pkt = attempts + 1
        OBVIOUS
      <3>2. Held = PktsOf(sent) /\ Held' = PktsOf(sent \cup {f})
        BY <2>1 DEF Held, PktsOf
      <3> HIDE DEF f
      <3> QED
        BY <3>1, <3>2 DEF PktsOf
    <2>5. Window!Accept
      <3>1. attempts' = attempts + 1 /\ UNCHANGED <<failed, abandoned, released>>
        BY <2>1
      <3>2. Window!Cardinality(Held) = Cardinality(Held)
        BY DEF Cardinality, Window!Cardinality
      <3> QED
        BY <2>3, <2>4, <3>1, <3>2 DEF Window!Accept, Held
    <2> QED
      BY <2>5
  <1>2. CASE SendReturn
    <2>1. PICK f \in sending :
              IF \E g \in sent : g.seq = f.seq
              THEN UNCHANGED <<sent, retries>>
              ELSE sent' = sent \cup {f}
      BY <1>2 DEF SendReturn
    <2>2. f \in Tracked /\ \A g \in sent : g \in Tracked
      BY DEF Tracked
    <2>3. \A g \in sent : g.seq # f.seq
      BY <2>2, FrameFacts, SameFrame DEF OrderedInv, SendingIsNew
    <2>4. sending = {f} /\ sending' = {} /\ sent' = sent \cup {f}
      BY <1>2, <2>1, <2>3 DEF SendReturn, OrderedInv, SendingIsNew
    <2>5. sent' \cup sending' = sent \cup sending
      BY <2>4
    <2> QED
      BY <1>2, <2>5 DEF SendReturn, rxVars, PktsOf
  <1>3. CASE SendRefused
    <2>1. Window!Refuse
      BY <1>3 DEF SendRefused, TakeSeq, rxVars, Window!Refuse, PktsOf
    <2> QED
      BY <2>1
  <1>4. ASSUME NEW c \in control, HandleAck(c.seq)
        PROVE  [Window!Next]_Window!vars
    <2> DEFINE F == AckedBy(c.seq)
               S == PktsOf(F)
    <2>1. /\ sent' = sent \ F /\ sending' = sending /\ Ack(c.seq) \in control
          /\ UNCHANGED <<attempts, failed, abandoned, released>>
      BY <1>4 DEF HandleAck, TakeControl, Erase, Ack, rxVars
    <2>2. F \in SUBSET sent /\ \A f \in F : f.seq <= c.seq
      BY FrameFacts DEF AckedBy, NoWrap
    <2>3. c.seq \in Nat /\ c.seq < expected_seq
      BY <2>1, FrameFacts DEF OrderedInv, AcksBelowExpected, Ack
    <2>4. \A f \in F : f.pkt \in 1 .. Len(released)
      <3> TAKE f \in F
      <3>1. f \in Tracked /\ f.seq <= c.seq
        BY <2>2 DEF Tracked
      <3>2. Len(released) = expected_seq - 1
        BY DEF OrderedInv, OutputInOrder
      <3> QED
        BY <2>3, <3>1, <3>2, FrameFacts, SeqMaxAssumption DEF Seqs
    <2>5. Held' = Held \ S
      BY <2>1, <2>2, HeldWithout
    <2>6. S \cap Held \in SUBSET Held /\ Held \ S = Held \ (S \cap Held)
      OBVIOUS
    <2>7. Window!Settle(S \cap Held)
      BY <2>1, <2>4, <2>5 DEF Window!Settle, PktsOf, Held
    <2> QED
      BY <1>0, <2>6, <2>7
  <1>5. ASSUME NEW c \in control, HandlePartialAck(c.seq)
        PROVE  [Window!Next]_Window!vars
    BY <1>5 DEF HandlePartialAck, rxVars, PktsOf
  <1>6. ASSUME NEW c \in control, HandlePacketRequest(c.seq)
        PROVE  [Window!Next]_Window!vars
    BY <1>6 DEF HandlePacketRequest, rxVars, PktsOf
  <1>7. ASSUME NEW c \in control, LoseControl(c)
        PROVE  [Window!Next]_Window!vars
    BY <1>7 DEF LoseControl, txVars, rxVars, PktsOf
  <1>8. ASSUME NEW due \in SUBSET sent, Timeouts(due)
        PROVE  [Window!Next]_Window!vars
    <2> DEFINE F == {f \in due : retries[f] >= MaxRetries}
               S == PktsOf(F)
    <2>1. /\ sent' = sent \ F /\ sending' = sending
          /\ abandoned' = abandoned \cup S
          /\ UNCHANGED <<attempts, failed, released>>
      BY <1>8 DEF Timeouts, rxVars, PktsOf
    <2>2. F \in SUBSET sent /\ S \in SUBSET Held
      BY DEF Held, PktsOf
    <2>3. Held' = Held \ S
      BY <2>1, <2>2, HeldWithout
    <2> HIDE DEF S, F
    <2>4. Window!GiveUp(S)
      BY <2>1, <2>3 DEF Window!GiveUp, Held
    <2> QED
      BY <1>0, <2>2, <2>4
  <1>9. ASSUME NEW f \in wire, IngressUnordered(f)
        PROVE  [Window!Next]_Window!vars
    BY <1>9 DEF IngressUnordered, NoWrap
  <1>10. ASSUME NEW f \in wire, IngressOld(f)
         PROVE  [Window!Next]_Window!vars
    BY <1>10 DEF IngressOld, TakeFrame, txVars, rxVars, PktsOf
  <1>11. ASSUME NEW f \in wire, IngressAhead(f)
         PROVE  [Window!Next]_Window!vars
    BY <1>11 DEF IngressAhead, TakeFrame, txVars, PktsOf
  <1>12. ASSUME NEW f \in wire, IngressNext(f)
         PROVE  [Window!Next]_Window!vars
    <2>1. PICK n \in Nat :
           /\ expected_seq + n <= attempts
           /\ released' = released \o [i \in 1 .. n + 1 |-> Len(released) + i]
           /\ \A i \in 1 .. n : \E g \in buffered : g.seq = expected_seq + i
      BY <1>12, NextRun
    <2>2. UNCHANGED <<sent, sending, attempts, failed, abandoned>>
      BY <1>12 DEF IngressNext, TakeFrame, txVars
    <2>3. Len(released) = expected_seq - 1 /\ f.seq = expected_seq
      BY <1>12 DEF OrderedInv, OutputInOrder, IngressNext
    <2>4. \A i \in 1 .. n + 1 : Len(released) + i \notin failed
      <3> SUFFICES ASSUME NEW i \in 1 .. n + 1
                   PROVE  \E g \in wire \cup buffered : g.pkt = Len(released) + i
        BY DEF OrderedInv, FramesNumbered
      <3>1. CASE i = 1
        BY <2>3, <3>1, FrameFacts
      <3>2. CASE i # 1
        <4>1. i - 1 \in 1 .. n
          BY <3>2
        <4>2. PICK g \in buffered : g.seq = expected_seq + (i - 1)
          BY <2>1, <4>1
        <4> QED
          BY <2>3, <4>2, FrameFacts
      <3> QED
        BY <3>1, <3>2
    <2>5. n + 1 \in 1 .. attempts - Len(released) /\ Len(released) + (n + 1) <= attempts
      BY <2>1, <2>3, FrameFacts
    <2>6. Window!Deliver(n + 1)
      BY <2>1, <2>2, <2>4, <2>5 DEF Window!Deliver, PktsOf
    <2> QED
      BY <2>5, <2>6
  <1>13. ASSUME NEW f \in wire, LoseFrame(f)
         PROVE  [Window!Next]_Window!vars
    BY <1>13 DEF LoseFrame, txVars, rxVars, PktsOf
  <1>14. CASE UNCHANGED vars
    BY <1>14 DEF vars, PktsOf
  <1> QED
    BY <1>1, <1>2, <1>3, <1>4, <1>5, <1>6, <1>7, <1>8, <1>9, <1>10, <1>11,
       <1>12, <1>13, <1>14 DEF Next

(***************************************************************************)
(* Before the wrap an ordered stream implements the abstract sliding       *)
(* window, for every window size, retry limit, driver and link.            *)
(***************************************************************************)
THEOREM Refinement == ASSUME NoWrap PROVE Spec => ImplementsSlidingWindow
  <1>1. OrderedInv /\ WindowInv /\ [Next]_vars => [Window!Next]_Window!vars
    BY RefinementNext
  <1> QED
    BY <1>1, RefinementInit, OrderedInvariant, WindowInvariant, PTL
    DEF Spec, ImplementsSlidingWindow, Window!Spec

=============================================================================
