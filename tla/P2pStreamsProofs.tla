-------------------------- MODULE P2pStreamsProofs --------------------------
(***************************************************************************)
(* Proof that two hosts agree on their streams once the links are quiet,   *)
(* for any number of calls and any crossing of opens, data, closes and     *)
(* resets.                                                                 *)
(*                                                                         *)
(* The state is seen from a host h and the other host o: sh and so are     *)
(* their sessions, nh and no their next stream ids, wout the frames from h *)
(* to o and win those from o to h.  X are the ids under which h has ever   *)
(* opened a stream, Y those of o.  A has a pair <<i, j>> for each stream i *)
(* of h that o has ever accepted as its stream j, B the same for streams   *)
(* of o.  Half says what is true of the streams opened by one host; Joint  *)
(* is the inductive invariant, both halves and the freshness of the ids.   *)
(***************************************************************************)
EXTENDS P2pStreams, FiniteSetTheorems, SequenceTheorems, TLAPS

-----------------------------------------------------------------------------
(* Frames on a link: the SYN of stream i, the answer j to stream i, an end *)
SynOn(w, i)    == \E p \in 1 .. Len(w) : w[p].kind = "syn" /\ w[p].src = i
AckOn(w, j, i) == \E p \in 1 .. Len(w) : w[p].kind = "synack" /\ w[p].src = j /\ w[p].dst = i
IsEnd(f)       == f.kind \in {"fin", "rst"}
(* The end x -> y is announced behind position p of the link. *)
EndFrom(w, p, x, y) ==
    \E q \in 1 .. Len(w) : q > p /\ IsEnd(w[q]) /\ w[q].src = x /\ w[q].dst = y

(* v is w with f appended; v is w without its first frame *)
Grown(w, v, f) ==
    /\ Len(w) \in Nat /\ Len(v) = Len(w) + 1 /\ v[Len(w) + 1] = f
    /\ \A p \in 1 .. Len(w) : v[p] = w[p]
Shrunk(w, v) ==
    /\ Len(w) \in Nat \ {0} /\ Len(v) = Len(w) - 1
    /\ \A p \in 1 .. Len(w) - 1 : v[p] = w[p + 1]

(* What is on a link after a frame was appended (enqueue_p2p_packet). *)
LEMMA GrownOn ==
  ASSUME NEW w, NEW v, NEW f, Grown(w, v, f)
  PROVE  /\ \A i : SynOn(v, i) <=> SynOn(w, i) \/ (f.kind = "syn" /\ f.src = i)
         /\ \A i, j : AckOn(v, j, i) <=>
               AckOn(w, j, i) \/ (f.kind = "synack" /\ f.src = j /\ f.dst = i)
         /\ \A x, y : \A p \in Nat : EndFrom(w, p, x, y) => EndFrom(v, p, x, y)
         /\ \A p \in 0 .. Len(w) : IsEnd(f) => EndFrom(v, p, f.src, f.dst)
  <1> DEFINE n == Len(w) + 1
  <1>1. /\ n \in Nat /\ n > 0 /\ Len(v) = n /\ v[n] = f
        /\ \A p \in 1 .. Len(w) : p \in 1 .. n /\ v[p] = w[p]
        /\ \A p \in 1 .. n : p = n \/ p \in 1 .. Len(w)
        /\ n \in 1 .. n /\ \A p \in 0 .. Len(w) : n > p
    BY DEF Grown
  <1> HIDE DEF n
  <1>2. \A i : SynOn(v, i) <=> SynOn(w, i) \/ (f.kind = "syn" /\ f.src = i)
    BY <1>1 DEF SynOn
  <1>3. \A i, j : AckOn(v, j, i) <=>
               AckOn(w, j, i) \/ (f.kind = "synack" /\ f.src = j /\ f.dst = i)
    BY <1>1 DEF AckOn
  <1>4. \A x, y : \A p \in Nat : EndFrom(w, p, x, y) => EndFrom(v, p, x, y)
    BY <1>1 DEF EndFrom
  <1>5. \A p \in 0 .. Len(w) : IsEnd(f) => EndFrom(v, p, f.src, f.dst)
    BY <1>1 DEF EndFrom
  <1> QED
    BY <1>2, <1>3, <1>4, <1>5

(* What is on a link before its first frame is taken (dispatch_p2p_packet). *)
LEMMA ShrunkOn ==
  ASSUME NEW w, NEW v, Shrunk(w, v)
  PROVE  /\ \A i : SynOn(w, i) <=> SynOn(v, i) \/ (w[1].kind = "syn" /\ w[1].src = i)
         /\ \A i, j : AckOn(w, j, i) <=>
               AckOn(v, j, i) \/ (w[1].kind = "synack" /\ w[1].src = j /\ w[1].dst = i)
         /\ \A x, y : \A p \in Nat : EndFrom(w, p + 1, x, y) => EndFrom(v, p, x, y)
         /\ \A x, y : EndFrom(w, 0, x, y) =>
               EndFrom(v, 0, x, y) \/ (IsEnd(w[1]) /\ w[1].src = x /\ w[1].dst = y)
  <1>1. /\ \A p \in 1 .. Len(w) : p = 1 \/ (p - 1 \in 1 .. Len(v) /\ v[p - 1] = w[p])
        /\ \A p \in 1 .. Len(v) : p + 1 \in 1 .. Len(w) /\ v[p] = w[p + 1]
        /\ 1 \in 1 .. Len(w)
    <2>1. \A p \in 1 .. Len(w) : p = 1 \/ (p - 1 \in 1 .. Len(w) - 1 /\ (p - 1) + 1 = p)
      BY DEF Shrunk
    <2> QED
      BY <2>1 DEF Shrunk
  <1>2. \A i : SynOn(w, i) <=> SynOn(v, i) \/ (w[1].kind = "syn" /\ w[1].src = i)
    BY <1>1 DEF SynOn
  <1>3. \A i, j : AckOn(w, j, i) <=>
               AckOn(v, j, i) \/ (w[1].kind = "synack" /\ w[1].src = j /\ w[1].dst = i)
    <2> TAKE i, j
    <2>1. ASSUME AckOn(w, j, i)
          PROVE  AckOn(v, j, i) \/ (w[1].kind = "synack" /\ w[1].src = j /\ w[1].dst = i)
      BY <1>1, <2>1 DEF AckOn
    <2>2. ASSUME AckOn(v, j, i) PROVE AckOn(w, j, i)
      BY <1>1, <2>2 DEF AckOn
    <2>3. ASSUME w[1].kind = "synack" /\ w[1].src = j /\ w[1].dst = i PROVE AckOn(w, j, i)
      BY <1>1, <2>3 DEF AckOn
    <2> QED
      BY <2>1, <2>2, <2>3
  <1>4. \A x, y : \A p \in Nat : EndFrom(w, p + 1, x, y) => EndFrom(v, p, x, y)
    <2> TAKE x, y
    <2> TAKE p \in Nat
    <2> HAVE EndFrom(w, p + 1, x, y)
    <2>1. PICK q \in 1 .. Len(w) : q > p + 1 /\ IsEnd(w[q]) /\ w[q].src = x /\ w[q].dst = y
      BY DEF EndFrom
    <2>2. q - 1 > p /\ q # 1 /\ q \in Int
      BY <2>1
    <2>3. q - 1 \in 1 .. Len(v) /\ v[q - 1] = w[q]
      BY <1>1, <2>2
    <2> QED
      BY <2>1, <2>2, <2>3 DEF EndFrom
  <1>5. \A x, y : EndFrom(w, 0, x, y) =>
               EndFrom(v, 0, x, y) \/ (IsEnd(w[1]) /\ w[1].src = x /\ w[1].dst = y)
    BY <1>1 DEF EndFrom
  <1> QED
    BY <1>2, <1>3, <1>4, <1>5

-----------------------------------------------------------------------------
(* The streams opened by one host *)

(* A is one to one, and an id under which o accepted is none it opened. *)
Matching(A, X, Y) ==
    /\ A \subseteq X \X Nat /\ X \subseteq Nat \ {0}
    /\ \A i, j : <<i, j>> \in A => j \notin Y /\ j # 0
    /\ \A i, j, k : <<i, j>> \in A /\ <<i, k>> \in A => j = k
    /\ \A i, j, k : <<i, j>> \in A /\ <<k, j>> \in A => i = k
(***************************************************************************)
(* An opener's session waits, with its SYN or the answer under way, or it  *)
(* is connected to a session of o that is there or whose end is under way. *)
(***************************************************************************)
OpenersOk(X, A, sh, so, wout, win) ==
    \A i \in DOMAIN sh \cap X :
       \/ /\ sh[i].peer = 0
          /\ SynOn(wout, i) \/ \E j : <<i, j>> \in A /\ AckOn(win, j, i)
       \/ /\ sh[i].connected /\ <<i, sh[i].peer>> \in A
          /\ sh[i].peer \in DOMAIN so \/ EndFrom(win, 0, sh[i].peer, i)
(***************************************************************************)
(* An acceptor's session has an opener that knows it or will, or that has  *)
(* ended: with the acceptor's id, or without it if it had no answer yet.   *)
(***************************************************************************)
AcceptorsOk(h, Y, A, sh, so, wout, win) ==
    \A j \in DOMAIN so \ Y :
       /\ so[j].host = h /\ so[j].address = 0 /\ so[j].connected
       /\ <<so[j].peer, j>> \in A
       /\ \/ /\ so[j].peer \in DOMAIN sh
             /\ sh[so[j].peer].peer = j \/ AckOn(win, j, so[j].peer)
          \/ EndFrom(wout, 0, so[j].peer, 0)
          \/ EndFrom(wout, 0, so[j].peer, j)
(* A SYN is the only one of its stream, which was not accepted yet; if its *)
(* opener is gone, the end follows on the same link.                       *)
SynsOk(X, A, sh, wout) ==
    \A p \in 1 .. Len(wout) : wout[p].kind = "syn" =>
       /\ wout[p].src \in X /\ \A j : <<wout[p].src, j>> \notin A
       /\ \A q \in 1 .. Len(wout) :
            wout[q].kind = "syn" /\ wout[q].src = wout[p].src => q = p
       /\ wout[p].src \in DOMAIN sh \/ EndFrom(wout, p, wout[p].src, 0)
(* A SYN-ACK is of an accepted stream; if its opener waits and its         *)
(* acceptor is gone, the end follows on the same link.                     *)
AcksOk(A, sh, so, win) ==
    \A p \in 1 .. Len(win) : win[p].kind = "synack" =>
       /\ <<win[p].dst, win[p].src>> \in A
       /\ win[p].dst \in DOMAIN sh =>
            win[p].src \in DOMAIN so \/ EndFrom(win, p, win[p].src, win[p].dst)
(* Who sent FIN or RST is gone, and it named the other end if it knew it. *)
OpenerEndsOk(X, A, sh, wout) ==
    \A p \in 1 .. Len(wout) : IsEnd(wout[p]) /\ wout[p].src \in X =>
       /\ wout[p].src \notin DOMAIN sh
       /\ wout[p].dst = 0 \/ <<wout[p].src, wout[p].dst>> \in A
AcceptorEndsOk(Y, A, so, win) ==
    \A p \in 1 .. Len(win) : IsEnd(win[p]) /\ win[p].src \notin Y =>
       /\ win[p].src \notin DOMAIN so
       /\ <<win[p].dst, win[p].src>> \in A

Half(h, X, Y, A, sh, so, wout, win) ==
    /\ Matching(A, X, Y)
    /\ OpenersOk(X, A, sh, so, wout, win)
    /\ AcceptorsOk(h, Y, A, sh, so, wout, win)
    /\ SynsOk(X, A, sh, wout)
    /\ AcksOk(A, sh, so, win)
    /\ OpenerEndsOk(X, A, sh, wout)
    /\ AcceptorEndsOk(Y, A, so, win)

-----------------------------------------------------------------------------
(* Steps on other streams, and the frames of other streams *)

(* What holds of the SYNs on a link holds of those left. *)
LEMMA SynsShrink ==
  ASSUME NEW X, NEW A, NEW sh, NEW wout, NEW v, Shrunk(wout, v), SynsOk(X, A, sh, wout)
  PROVE  SynsOk(X, A, sh, v)
  <1>8. \A p \in 1 .. Len(v) : p \in Nat /\ p + 1 \in 1 .. Len(wout) /\ v[p] = wout[p + 1]
    BY DEF Shrunk
  <1> SUFFICES ASSUME NEW p \in 1 .. Len(v), v[p].kind = "syn"
               PROVE  /\ v[p].src \in X /\ \A j : <<v[p].src, j>> \notin A
                      /\ \A q \in 1 .. Len(v) :
                           v[q].kind = "syn" /\ v[q].src = v[p].src => q = p
                      /\ v[p].src \in DOMAIN sh \/ EndFrom(v, p, v[p].src, 0)
    BY DEF SynsOk
  <1>1. p \in Nat /\ p + 1 \in 1 .. Len(wout) /\ v[p] = wout[p + 1]
    BY <1>8
  <1>2. /\ v[p].src \in X /\ \A j : <<v[p].src, j>> \notin A
        /\ \A q \in 1 .. Len(wout) :
             wout[q].kind = "syn" /\ wout[q].src = v[p].src => q = p + 1
        /\ v[p].src \in DOMAIN sh \/ EndFrom(wout, p + 1, v[p].src, 0)
    BY <1>1, Zenon DEF SynsOk
  <1>3. ASSUME NEW q \in 1 .. Len(v), v[q].kind = "syn", v[q].src = v[p].src
        PROVE  q = p
    <2>1. q \in Nat /\ q + 1 \in 1 .. Len(wout) /\ v[q] = wout[q + 1]
      BY <1>8
    <2>2. q + 1 = p + 1
      BY <1>2, <1>3, <2>1
    <2> QED
      BY <1>1, <2>1, <2>2
  <1>4. v[p].src \in DOMAIN sh \/ EndFrom(v, p, v[p].src, 0)
    BY <1>1, <1>2, ShrunkOn
  <1> QED
    BY <1>2, <1>3, <1>4

(* What holds of the SYN-ACKs on a link holds of those left. *)
LEMMA AcksShrink ==
  ASSUME NEW A, NEW sh, NEW so, NEW win, NEW v, Shrunk(win, v), AcksOk(A, sh, so, win)
  PROVE  AcksOk(A, sh, so, v)
  <1>8. \A p \in 1 .. Len(v) : p \in Nat /\ p + 1 \in 1 .. Len(win) /\ v[p] = win[p + 1]
    BY DEF Shrunk
  <1> SUFFICES ASSUME NEW p \in 1 .. Len(v), v[p].kind = "synack"
               PROVE  /\ <<v[p].dst, v[p].src>> \in A
                      /\ v[p].dst \in DOMAIN sh =>
                           v[p].src \in DOMAIN so \/ EndFrom(v, p, v[p].src, v[p].dst)
    BY DEF AcksOk
  <1>1. p \in Nat /\ p + 1 \in 1 .. Len(win) /\ v[p] = win[p + 1]
    BY <1>8
  <1>2. /\ <<v[p].dst, v[p].src>> \in A
        /\ v[p].dst \in DOMAIN sh =>
             v[p].src \in DOMAIN so \/ EndFrom(win, p + 1, v[p].src, v[p].dst)
    BY <1>1, Zenon DEF AcksOk
  <1> QED
    BY <1>1, <1>2, ShrunkOn

(* A frame of h that opens nothing and ends none of its own streams. *)
LEMMA OutGrows ==
  ASSUME NEW h, NEW X, NEW Y, NEW A, NEW sh, NEW so, NEW wout, NEW win,
         Half(h, X, Y, A, sh, so, wout, win),
         NEW v, NEW f, Grown(wout, v, f), f.kind # "syn", IsEnd(f) => f.src \notin X
  PROVE  Half(h, X, Y, A, sh, so, v, win)
  <1>0. /\ \A p \in 1 .. Len(v) : p \in Nat /\ ((p \in 1 .. Len(wout) /\ v[p] = wout[p]) \/ v[p] = f)
    BY DEF Grown
  <1>1. OpenersOk(X, A, sh, so, v, win)
    BY GrownOn DEF Half, OpenersOk
  <1>2. AcceptorsOk(h, Y, A, sh, so, v, win)
    BY GrownOn DEF Half, AcceptorsOk
  <1>3. SynsOk(X, A, sh, v)
    BY <1>0, GrownOn DEF Half, SynsOk
  <1>4. OpenerEndsOk(X, A, sh, v)
    BY <1>0 DEF Half, OpenerEndsOk
  <1> QED
    BY <1>1, <1>2, <1>3, <1>4 DEF Half

(* A frame of o that answers nothing and ends no stream it accepted. *)
LEMMA InGrows ==
  ASSUME NEW h, NEW X, NEW Y, NEW A, NEW sh, NEW so, NEW wout, NEW win,
         Half(h, X, Y, A, sh, so, wout, win),
         NEW v, NEW f, Grown(win, v, f), f.kind # "synack", IsEnd(f) => f.src \in Y
  PROVE  Half(h, X, Y, A, sh, so, wout, v)
  <1>0. /\ \A p \in 1 .. Len(v) : p \in Nat /\ ((p \in 1 .. Len(win) /\ v[p] = win[p]) \/ v[p] = f)
    BY DEF Grown
  <1>1. OpenersOk(X, A, sh, so, wout, v)
    BY GrownOn DEF Half, OpenersOk
  <1>2. AcceptorsOk(h, Y, A, sh, so, wout, v)
    BY GrownOn DEF Half, AcceptorsOk
  <1>3. AcksOk(A, sh, so, v)
    BY <1>0, GrownOn DEF Half, AcksOk
  <1>4. AcceptorEndsOk(Y, A, so, v)
    BY <1>0 DEF Half, AcceptorEndsOk
  <1> QED
    BY <1>1, <1>2, <1>3, <1>4 DEF Half

(* h takes a frame that concerns no stream it has opened. *)
LEMMA InShrinks ==
  ASSUME NEW h, NEW X, NEW Y, NEW A, NEW sh, NEW so, NEW wout, NEW win,
         Half(h, X, Y, A, sh, so, wout, win), NEW v, Shrunk(win, v),
         win[1].kind = "synack" \/ IsEnd(win[1]) => win[1].dst \notin DOMAIN sh \cap X
  PROVE  Half(h, X, Y, A, sh, so, wout, v)
  <1>0. \A p \in 1 .. Len(v) : p \in Nat /\ p + 1 \in 1 .. Len(win) /\ v[p] = win[p + 1]
    BY DEF Shrunk
  <1>1. OpenersOk(X, A, sh, so, wout, v)
    BY ShrunkOn DEF Half, OpenersOk
  <1>2. AcceptorsOk(h, Y, A, sh, so, wout, v)
    BY ShrunkOn DEF Half, AcceptorsOk, Matching
  <1>3. AcksOk(A, sh, so, v)
    BY AcksShrink DEF Half
  <1>4. AcceptorEndsOk(Y, A, so, v)
    BY <1>0 DEF Half, AcceptorEndsOk
  <1> QED
    BY <1>1, <1>2, <1>3, <1>4 DEF Half

(* o takes a frame that concerns no stream it has accepted. *)
LEMMA OutShrinks ==
  ASSUME NEW h, NEW X, NEW Y, NEW A, NEW sh, NEW so, NEW wout, NEW win,
         Half(h, X, Y, A, sh, so, wout, win), NEW v, Shrunk(wout, v),
         wout[1].kind # "syn",
         IsEnd(wout[1]) => \A j \in DOMAIN so \ Y : so[j].peer = wout[1].src => wout[1].dst \notin {0, j}
  PROVE  Half(h, X, Y, A, sh, so, v, win)
  <1>0. \A p \in 1 .. Len(v) : p \in Nat /\ p + 1 \in 1 .. Len(wout) /\ v[p] = wout[p + 1]
    BY DEF Shrunk
  <1>1. OpenersOk(X, A, sh, so, v, win)
    BY ShrunkOn DEF Half, OpenersOk
  <1>2. AcceptorsOk(h, Y, A, sh, so, v, win)
    BY ShrunkOn DEF Half, AcceptorsOk
  <1>3. SynsOk(X, A, sh, v)
    BY SynsShrink DEF Half
  <1>4. OpenerEndsOk(X, A, sh, v)
    BY <1>0 DEF Half, OpenerEndsOk
  <1> QED
    BY <1>1, <1>2, <1>3, <1>4 DEF Half

(* h changes only sessions it has accepted. *)
LEMMA OwnAccepted ==
  ASSUME NEW h, NEW X, NEW Y, NEW A, NEW sh, NEW so, NEW wout, NEW win,
         Half(h, X, Y, A, sh, so, wout, win), NEW s,
         \A i \in X : (i \in DOMAIN s <=> i \in DOMAIN sh) /\ (i \in DOMAIN sh => s[i] = sh[i])
  PROVE  Half(h, X, Y, A, s, so, wout, win)
  <1>1. OpenersOk(X, A, s, so, wout, win)
    BY DEF Half, OpenersOk
  <1>2. AcceptorsOk(h, Y, A, s, so, wout, win)
    <2>1. \A i, j : <<i, j>> \in A => i \in X
      BY DEF Half, Matching
    <2>2. AcceptorsOk(h, Y, A, sh, so, wout, win)
      BY DEF Half
    <2> QED
      BY <2>1, <2>2 DEF AcceptorsOk
  <1>3. SynsOk(X, A, s, wout)
    BY DEF Half, SynsOk
  <1>4. AcksOk(A, s, so, win)
    BY DEF Half, AcksOk, Matching
  <1>5. OpenerEndsOk(X, A, s, wout)
    BY DEF Half, OpenerEndsOk
  <1> QED
    BY <1>1, <1>2, <1>3, <1>4, <1>5 DEF Half

(* o changes only sessions it has opened. *)
LEMMA OtherOpened ==
  ASSUME NEW h, NEW X, NEW Y, NEW A, NEW sh, NEW so, NEW wout, NEW win,
         Half(h, X, Y, A, sh, so, wout, win), NEW s,
         \A j : j \notin Y => (j \in DOMAIN s <=> j \in DOMAIN so) /\ (j \in DOMAIN so => s[j] = so[j])
  PROVE  Half(h, X, Y, A, sh, s, wout, win)
  <1>1. OpenersOk(X, A, sh, s, wout, win)
    BY DEF Half, OpenersOk, Matching
  <1>2. AcceptorsOk(h, Y, A, sh, s, wout, win)
    BY DEF Half, AcceptorsOk
  <1>4. AcksOk(A, sh, s, win)
    BY DEF Half, AcksOk, Matching
  <1>5. AcceptorEndsOk(Y, A, s, win)
    BY DEF Half, AcceptorEndsOk
  <1> QED
    BY <1>1, <1>2, <1>4, <1>5 DEF Half

(* o opens a stream under an id it has not accepted one under. *)
LEMMA OtherOpens ==
  ASSUME NEW h, NEW X, NEW Y, NEW A, NEW sh, NEW so, NEW wout, NEW win,
         Half(h, X, Y, A, sh, so, wout, win), NEW y,
         \A i : <<i, y>> \notin A
  PROVE  Half(h, X, Y \cup {y}, A, sh, so, wout, win)
  <1>1. Matching(A, X, Y \cup {y})
    BY DEF Half, Matching
  <1>2. AcceptorsOk(h, Y \cup {y}, A, sh, so, wout, win)
    BY DEF Half, AcceptorsOk
  <1>5. AcceptorEndsOk(Y \cup {y}, A, so, win)
    BY DEF Half, AcceptorEndsOk
  <1> QED
    BY <1>1, <1>2, <1>5 DEF Half
-----------------------------------------------------------------------------
(* Steps of a stream itself *)

(* The opener sends a SYN for a new session (open_p2p_stream). *)
LEMMA OpenerOpens ==
  ASSUME NEW h, NEW X, NEW Y, NEW A, NEW sh, NEW so, NEW wout, NEW win,
         Half(h, X, Y, A, sh, so, wout, win),
         NEW id \in Nat \ {0}, id \notin X, \A p \in 1 .. Len(wout) : wout[p].src # id,
         NEW s, DOMAIN s = DOMAIN sh \cup {id}, s[id].peer = 0,
         \A i \in DOMAIN sh : i # id => s[i] = sh[i],
         NEW v, NEW f, Grown(wout, v, f), f.kind = "syn", f.src = id
  PROVE  Half(h, X \cup {id}, Y, A, s, so, v, win)
  <1>0. /\ \A p \in 1 .. Len(v) : p \in Nat /\
             \/ p \in 1 .. Len(wout) /\ v[p] = wout[p] /\ v[p].src # id
             \/ p = Len(wout) + 1 /\ v[p] = f
    BY DEF Grown
  <1>1. Matching(A, X \cup {id}, Y)
    BY DEF Half, Matching
  <1>2. OpenersOk(X \cup {id}, A, s, so, v, win)
    <2> SUFFICES ASSUME NEW i \in DOMAIN s \cap (X \cup {id})
                 PROVE  \/ /\ s[i].peer = 0
                           /\ SynOn(v, i) \/ \E j : <<i, j>> \in A /\ AckOn(win, j, i)
                        \/ /\ s[i].connected /\ <<i, s[i].peer>> \in A
                           /\ s[i].peer \in DOMAIN so \/ EndFrom(win, 0, s[i].peer, i)
      BY DEF OpenersOk
    <2>1. CASE i = id
      BY <2>1, GrownOn
    <2>2. CASE i # id
      <3>1. i \in DOMAIN sh \cap X /\ s[i] = sh[i]
        BY <2>2
      <3> QED
        BY <3>1, GrownOn DEF Half, OpenersOk
    <2> QED
      BY <2>1, <2>2
  <1>3. AcceptorsOk(h, Y, A, s, so, v, win)
    <2>1. \A j : <<id, j>> \notin A
      BY DEF Half, Matching
    <2>2. \A j \in DOMAIN so \ Y : so[j].peer # id
      BY <2>1 DEF Half, AcceptorsOk
    <2> QED
      BY <2>2, GrownOn DEF Half, AcceptorsOk
  <1>4. SynsOk(X \cup {id}, A, s, v)
    <2>1. \A j : <<id, j>> \notin A
      BY DEF Half, Matching
    <2> SUFFICES ASSUME NEW p \in 1 .. Len(v), v[p].kind = "syn"
                 PROVE  /\ v[p].src \in X \cup {id} /\ \A j : <<v[p].src, j>> \notin A
                        /\ \A q \in 1 .. Len(v) :
                             v[q].kind = "syn" /\ v[q].src = v[p].src => q = p
                        /\ v[p].src \in DOMAIN s \/ EndFrom(v, p, v[p].src, 0)
      BY DEF SynsOk
    <2>2. CASE p = Len(wout) + 1 /\ v[p] = f
      BY <1>0, <2>1, <2>2
    <2>3. CASE p \in 1 .. Len(wout) /\ v[p] = wout[p] /\ v[p].src # id
      <3>1. /\ v[p].src \in X /\ \A j : <<v[p].src, j>> \notin A
            /\ \A q \in 1 .. Len(wout) :
                 wout[q].kind = "syn" /\ wout[q].src = v[p].src => q = p
            /\ v[p].src \in DOMAIN sh \/ EndFrom(wout, p, v[p].src, 0)
        BY <2>3 DEF Half, SynsOk
      <3>2. v[p].src \in DOMAIN s \/ EndFrom(v, p, v[p].src, 0)
        BY <1>0, <3>1, GrownOn
      <3>3. \A q \in 1 .. Len(v) : v[q].kind = "syn" /\ v[q].src = v[p].src => q = p
        BY <1>0, <2>3, <3>1
      <3> QED
        BY <3>1, <3>2, <3>3
    <2> QED
      BY <1>0, <2>2, <2>3
  <1>5. AcksOk(A, s, so, win)
    BY DEF Half, AcksOk, Matching
  <1>6. OpenerEndsOk(X \cup {id}, A, s, v)
    BY <1>0 DEF Half, OpenerEndsOk, IsEnd
  <1> QED
    BY <1>1, <1>2, <1>3, <1>4, <1>5, <1>6 DEF Half

(* The opener forgets a session and sends FIN or RST (send_p2p_stream_control). *)
LEMMA OpenerEnds ==
  ASSUME NEW h, NEW X, NEW Y, NEW A, NEW sh, NEW so, NEW wout, NEW win,
         Half(h, X, Y, A, sh, so, wout, win),
         NEW id \in X \cap DOMAIN sh,
         NEW s, DOMAIN s = DOMAIN sh \ {id}, \A i \in DOMAIN s : s[i] = sh[i],
         NEW v, NEW f, Grown(wout, v, f), IsEnd(f), f.src = id, f.dst = sh[id].peer
  PROVE  Half(h, X, Y, A, s, so, v, win)
  <1>0. /\ \A p \in 1 .. Len(v) : p \in Nat /\
             \/ p \in 1 .. Len(wout) /\ v[p] = wout[p]
             \/ p = Len(wout) + 1 /\ v[p] = f
    BY DEF Grown
  <1>7. f.dst = 0 \/ <<id, f.dst>> \in A
    BY DEF Half, OpenersOk
  <1>8. f.kind # "syn" /\ f.kind # "synack"
    BY DEF IsEnd
  <1>9. \A p \in 0 .. Len(wout) : EndFrom(v, p, id, f.dst)
    BY GrownOn
  <1>2. OpenersOk(X, A, s, so, v, win)
    BY GrownOn DEF Half, OpenersOk
  <1>3. AcceptorsOk(h, Y, A, s, so, v, win)
    <2> SUFFICES ASSUME NEW j \in DOMAIN so \ Y
                 PROVE  \/ /\ so[j].peer \in DOMAIN s
                           /\ s[so[j].peer].peer = j \/ AckOn(win, j, so[j].peer)
                        \/ EndFrom(v, 0, so[j].peer, 0)
                        \/ EndFrom(v, 0, so[j].peer, j)
      BY DEF Half, AcceptorsOk
    <2>1. <<so[j].peer, j>> \in A
      BY DEF Half, AcceptorsOk
    <2>2. CASE so[j].peer = id
      <3>1. f.dst = 0 \/ f.dst = j
        BY <1>7, <2>1, <2>2 DEF Half, Matching
      <3>2. EndFrom(v, 0, id, f.dst)
        BY <1>9 DEF Grown
      <3> QED
        BY <2>2, <3>1, <3>2
    <2>3. CASE so[j].peer # id
      BY <2>3, GrownOn DEF Half, AcceptorsOk
    <2> QED
      BY <2>2, <2>3
  <1>4. SynsOk(X, A, s, v)
    <2> SUFFICES ASSUME NEW p \in 1 .. Len(v), v[p].kind = "syn"
                 PROVE  /\ v[p].src \in X /\ \A j : <<v[p].src, j>> \notin A
                        /\ \A q \in 1 .. Len(v) :
                             v[q].kind = "syn" /\ v[q].src = v[p].src => q = p
                        /\ v[p].src \in DOMAIN s \/ EndFrom(v, p, v[p].src, 0)
      BY DEF SynsOk
    <2>1. p \in Nat /\ p \in 1 .. Len(wout) /\ v[p] = wout[p]
      BY <1>0, <1>8
    <2>2. /\ v[p].src \in X /\ \A j : <<v[p].src, j>> \notin A
          /\ \A q \in 1 .. Len(wout) :
               wout[q].kind = "syn" /\ wout[q].src = v[p].src => q = p
          /\ v[p].src \in DOMAIN sh \/ EndFrom(wout, p, v[p].src, 0)
      BY <2>1 DEF Half, SynsOk
    <2>3. \A q \in 1 .. Len(v) : v[q].kind = "syn" /\ v[q].src = v[p].src => q = p
      BY <1>0, <1>8, <2>2
    <2>4. v[p].src \in DOMAIN s \/ EndFrom(v, p, v[p].src, 0)
      <3>1. CASE v[p].src = id
        <4>1. f.dst = 0
          BY <1>7, <2>2, <3>1
        <4>2. p \in 0 .. Len(wout)
          BY <2>1
        <4> QED
          BY <1>9, <3>1, <4>1, <4>2
      <3>2. CASE v[p].src # id
        BY <2>1, <2>2, <3>2, GrownOn
      <3> QED
        BY <3>1, <3>2
    <2> QED
      BY <2>2, <2>3, <2>4
  <1>5. AcksOk(A, s, so, win)
    BY DEF Half, AcksOk
  <1>6. OpenerEndsOk(X, A, s, v)
    BY <1>0, <1>7 DEF Half, OpenerEndsOk
  <1> QED
    BY <1>2, <1>3, <1>4, <1>5, <1>6 DEF Half

(* The acceptor forgets a session and sends FIN or RST. *)
LEMMA AcceptorEnds ==
  ASSUME NEW h, NEW X, NEW Y, NEW A, NEW sh, NEW so, NEW wout, NEW win,
         Half(h, X, Y, A, sh, so, wout, win),
         NEW id \in DOMAIN so \ Y,
         NEW s, DOMAIN s = DOMAIN so \ {id}, \A j \in DOMAIN s : s[j] = so[j],
         NEW v, NEW f, Grown(win, v, f), IsEnd(f), f.src = id, f.dst = so[id].peer
  PROVE  Half(h, X, Y, A, sh, s, wout, v)
  <1>0. /\ \A p \in 1 .. Len(v) : p \in Nat /\
             \/ p \in 1 .. Len(win) /\ v[p] = win[p]
             \/ p = Len(win) + 1 /\ v[p] = f
    BY DEF Grown
  <1>7. <<f.dst, id>> \in A /\ \A i : <<i, id>> \in A => i = f.dst
    BY DEF Half, AcceptorsOk, Matching
  <1>8. f.kind # "syn" /\ f.kind # "synack"
    BY DEF IsEnd
  <1>9. \A p \in 0 .. Len(win) : EndFrom(v, p, id, f.dst)
    BY GrownOn
  <1>10. EndFrom(v, 0, id, f.dst)
    BY <1>9 DEF Grown
  <1>2. OpenersOk(X, A, sh, s, wout, v)
    <2> SUFFICES ASSUME NEW i \in DOMAIN sh \cap X
                 PROVE  \/ /\ sh[i].peer = 0
                           /\ SynOn(wout, i) \/ \E j : <<i, j>> \in A /\ AckOn(v, j, i)
                        \/ /\ sh[i].connected /\ <<i, sh[i].peer>> \in A
                           /\ sh[i].peer \in DOMAIN s \/ EndFrom(v, 0, sh[i].peer, i)
      BY DEF OpenersOk
    <2>1. \/ /\ sh[i].peer = 0
             /\ SynOn(wout, i) \/ \E j : <<i, j>> \in A /\ AckOn(win, j, i)
          \/ /\ sh[i].connected /\ <<i, sh[i].peer>> \in A
             /\ sh[i].peer \in DOMAIN so \/ EndFrom(win, 0, sh[i].peer, i)
      BY DEF Half, OpenersOk
    <2>2. CASE sh[i].peer = id /\ <<i, sh[i].peer>> \in A
      BY <1>7, <1>10, <2>1, <2>2, GrownOn
    <2>3. CASE ~(sh[i].peer = id /\ <<i, sh[i].peer>> \in A)
      BY <2>1, <2>3, GrownOn
    <2> QED
      BY <2>2, <2>3
  <1>3. AcceptorsOk(h, Y, A, sh, s, wout, v)
    BY GrownOn DEF Half, AcceptorsOk
  <1>4. AcksOk(A, sh, s, v)
    <2> SUFFICES ASSUME NEW p \in 1 .. Len(v), v[p].kind = "synack"
                 PROVE  /\ <<v[p].dst, v[p].src>> \in A
                        /\ v[p].dst \in DOMAIN sh =>
                             v[p].src \in DOMAIN s \/ EndFrom(v, p, v[p].src, v[p].dst)
      BY DEF AcksOk
    <2>1. p \in Nat /\ p \in 1 .. Len(win) /\ p \in 0 .. Len(win) /\ v[p] = win[p]
      BY <1>0, <1>8
    <2>2. /\ <<v[p].dst, v[p].src>> \in A
          /\ v[p].dst \in DOMAIN sh =>
               v[p].src \in DOMAIN so \/ EndFrom(win, p, v[p].src, v[p].dst)
      BY <2>1 DEF Half, AcksOk
    <2>3. CASE v[p].src = id
      BY <1>7, <1>9, <2>1, <2>2, <2>3
    <2>4. CASE v[p].src # id
      BY <2>1, <2>2, <2>4, GrownOn
    <2> QED
      BY <2>3, <2>4
  <1>5. AcceptorEndsOk(Y, A, s, v)
    BY <1>0, <1>7 DEF Half, AcceptorEndsOk
  <1> QED
    BY <1>2, <1>3, <1>4, <1>5 DEF Half
(* The acceptor takes a SYN, makes a session and answers (dispatch_p2p_stream). *)
LEMMA AcceptorAccepts ==
  ASSUME NEW h, NEW X, NEW Y, NEW A, NEW sh, NEW so, NEW wout, NEW win,
         Half(h, X, Y, A, sh, so, wout, win),
         NEW w, Shrunk(wout, w), wout[1].kind = "syn",
         NEW i, i = wout[1].src,
         NEW id \in Nat \ {0}, id \notin Y, \A k : <<k, id>> \notin A,
         \A p \in 1 .. Len(win) : win[p].src # id,
         NEW s, DOMAIN s = DOMAIN so \cup {id}, \A j \in DOMAIN so : j # id => s[j] = so[j],
         s[id].host = h, s[id].address = 0, s[id].peer = i, s[id].connected,
         NEW v, NEW f, Grown(win, v, f), f.kind = "synack", f.src = id, f.dst = i,
         NEW B, B = A \cup {<<i, id>>}
  PROVE  Half(h, X, Y, B, sh, s, w, v)
  <1>0. /\ \A p \in 1 .. Len(v) : p \in Nat /\
             \/ p \in 1 .. Len(win) /\ v[p] = win[p] /\ v[p].src # id
             \/ p = Len(win) + 1 /\ v[p] = f
    BY DEF Grown
  <1>1. \A p \in 1 .. Len(w) : p \in Nat /\ p + 1 \in 1 .. Len(wout) /\ p + 1 # 1 /\ w[p] = wout[p + 1]
    BY DEF Shrunk
  <1>2. /\ i \in X /\ \A j : <<i, j>> \notin A
        /\ \A q \in 1 .. Len(wout) : wout[q].kind = "syn" /\ wout[q].src = i => q = 1
        /\ i \in DOMAIN sh \/ EndFrom(wout, 1, i, 0)
    <2>1. 1 \in 1 .. Len(wout)
      BY DEF Shrunk
    <2> QED
      BY <2>1 DEF Half, SynsOk
  <1>3. /\ A \subseteq B /\ <<i, id>> \in B
        /\ \A k, j : <<k, j>> \in B => <<k, j>> \in A \/ (k = i /\ j = id)
    OBVIOUS
  <1>4. Matching(B, X, Y)
    <2>1. B \subseteq X \X Nat
      BY <1>2 DEF Half, Matching
    <2> QED
      BY <1>2, <1>3, <2>1 DEF Half, Matching
  <1>5. OpenersOk(X, B, sh, s, w, v)
    <2> SUFFICES ASSUME NEW k \in DOMAIN sh \cap X
                 PROVE  \/ /\ sh[k].peer = 0
                           /\ SynOn(w, k) \/ \E j : <<k, j>> \in B /\ AckOn(v, j, k)
                        \/ /\ sh[k].connected /\ <<k, sh[k].peer>> \in B
                           /\ sh[k].peer \in DOMAIN s \/ EndFrom(v, 0, sh[k].peer, k)
      BY DEF OpenersOk
    <2>1. \/ /\ sh[k].peer = 0
             /\ SynOn(wout, k) \/ \E j : <<k, j>> \in A /\ AckOn(win, j, k)
          \/ /\ sh[k].connected /\ <<k, sh[k].peer>> \in A
             /\ sh[k].peer \in DOMAIN so \/ EndFrom(win, 0, sh[k].peer, k)
      BY DEF Half, OpenersOk
    <2>2. SynOn(wout, k) => SynOn(w, k) \/ k = i
      BY ShrunkOn
    <2>3. AckOn(v, id, i)
      BY GrownOn
    <2> QED
      BY <1>3, <2>1, <2>2, <2>3, GrownOn
  <1>6. AcceptorsOk(h, Y, B, sh, s, w, v)
    <2> SUFFICES ASSUME NEW j \in DOMAIN s \ Y
                 PROVE  /\ s[j].host = h /\ s[j].address = 0 /\ s[j].connected
                        /\ <<s[j].peer, j>> \in B
                        /\ \/ /\ s[j].peer \in DOMAIN sh
                              /\ sh[s[j].peer].peer = j \/ AckOn(v, j, s[j].peer)
                           \/ EndFrom(w, 0, s[j].peer, 0)
                           \/ EndFrom(w, 0, s[j].peer, j)
      BY DEF AcceptorsOk
    <2>0. ~IsEnd(wout[1])
      BY DEF IsEnd
    <2>1. CASE j = id
      <3>1. AckOn(v, id, i)
        BY GrownOn
      <3>2. EndFrom(wout, 0 + 1, i, 0) => EndFrom(w, 0, i, 0)
        BY ShrunkOn
      <3> QED
        BY <1>2, <1>3, <2>1, <3>1, <3>2
    <2>2. CASE j # id
      <3>1. j \in DOMAIN so \ Y /\ s[j] = so[j]
        BY <2>2
      <3>2. /\ so[j].host = h /\ so[j].address = 0 /\ so[j].connected
            /\ <<so[j].peer, j>> \in A
            /\ \/ /\ so[j].peer \in DOMAIN sh
                  /\ sh[so[j].peer].peer = j \/ AckOn(win, j, so[j].peer)
               \/ EndFrom(wout, 0, so[j].peer, 0)
               \/ EndFrom(wout, 0, so[j].peer, j)
        BY <3>1 DEF Half, AcceptorsOk
      <3> QED
        BY <1>3, <2>0, <3>1, <3>2, GrownOn, ShrunkOn
    <2> QED
      BY <2>1, <2>2
  <1>7. SynsOk(X, B, sh, w)
    <2>1. SynsOk(X, A, sh, w)
      BY SynsShrink DEF Half
    <2>2. \A p \in 1 .. Len(w) : w[p].kind = "syn" => w[p].src # i
      BY <1>1, <1>2
    <2> QED
      BY <1>3, <2>1, <2>2 DEF SynsOk
  <1>8. AcksOk(B, sh, s, v)
    <2> SUFFICES ASSUME NEW p \in 1 .. Len(v), v[p].kind = "synack"
                 PROVE  /\ <<v[p].dst, v[p].src>> \in B
                        /\ v[p].dst \in DOMAIN sh =>
                             v[p].src \in DOMAIN s \/ EndFrom(v, p, v[p].src, v[p].dst)
      BY DEF AcksOk
    <2>1. CASE v[p] = f
      BY <1>3, <2>1
    <2>2. CASE p \in Nat /\ p \in 1 .. Len(win) /\ v[p] = win[p]
      <3>1. /\ <<v[p].dst, v[p].src>> \in A
            /\ v[p].dst \in DOMAIN sh =>
                 v[p].src \in DOMAIN so \/ EndFrom(win, p, v[p].src, v[p].dst)
        BY <2>2 DEF Half, AcksOk
      <3> QED
        BY <1>3, <2>2, <3>1, GrownOn
    <2> QED
      BY <1>0, <2>1, <2>2
  <1>9. OpenerEndsOk(X, B, sh, w)
    BY <1>1, <1>3 DEF Half, OpenerEndsOk
  <1>10. AcceptorEndsOk(Y, B, s, v)
    BY <1>0, <1>3 DEF Half, AcceptorEndsOk, IsEnd
  <1> QED
    BY <1>4, <1>5, <1>6, <1>7, <1>8, <1>9, <1>10 DEF Half

(* The opener takes the SYN-ACK of a session it still has. *)
LEMMA OpenerAnswered ==
  ASSUME NEW h, NEW X, NEW Y, NEW A, NEW sh, NEW so, NEW wout, NEW win,
         Half(h, X, Y, A, sh, so, wout, win),
         NEW v, Shrunk(win, v), win[1].kind = "synack",
         NEW i \in DOMAIN sh, i = win[1].dst, NEW j, j = win[1].src,
         NEW s, DOMAIN s = DOMAIN sh, \A k \in DOMAIN sh : k # i => s[k] = sh[k],
         s[i].peer = j, s[i].connected
  PROVE  Half(h, X, Y, A, s, so, wout, v)
  <1>0. \A p \in 1 .. Len(v) : p \in Nat /\ p + 1 \in 1 .. Len(win) /\ v[p] = win[p + 1]
    BY DEF Shrunk
  <1>1. <<i, j>> \in A /\ (j \in DOMAIN so \/ EndFrom(win, 1, j, i))
    <2>1. 1 \in 1 .. Len(win)
      BY DEF Shrunk
    <2> QED
      BY <2>1 DEF Half, AcksOk
  <1>2. ~IsEnd(win[1])
    BY DEF IsEnd
  <1>3. OpenersOk(X, A, s, so, wout, v)
    <2> SUFFICES ASSUME NEW k \in DOMAIN s \cap X
                 PROVE  \/ /\ s[k].peer = 0
                           /\ SynOn(wout, k) \/ \E m : <<k, m>> \in A /\ AckOn(v, m, k)
                        \/ /\ s[k].connected /\ <<k, s[k].peer>> \in A
                           /\ s[k].peer \in DOMAIN so \/ EndFrom(v, 0, s[k].peer, k)
      BY DEF OpenersOk
    <2>1. CASE k = i
      <3>1. EndFrom(win, 0 + 1, j, i) => EndFrom(v, 0, j, i)
        BY ShrunkOn
      <3> QED
        BY <1>1, <2>1, <3>1
    <2>2. CASE k # i
      <3>1. s[k] = sh[k] /\ k \in DOMAIN sh \cap X
        BY <2>2
      <3>2. \/ /\ sh[k].peer = 0
               /\ SynOn(wout, k) \/ \E m : <<k, m>> \in A /\ AckOn(win, m, k)
            \/ /\ sh[k].connected /\ <<k, sh[k].peer>> \in A
               /\ sh[k].peer \in DOMAIN so \/ EndFrom(win, 0, sh[k].peer, k)
        BY <3>1 DEF Half, OpenersOk
      <3>3. \A m : AckOn(win, m, k) => AckOn(v, m, k)
        BY <2>2, ShrunkOn
      <3>4. \A x : EndFrom(win, 0, x, k) => EndFrom(v, 0, x, k)
        BY <1>2, ShrunkOn
      <3> QED
        BY <3>1, <3>2, <3>3, <3>4
    <2> QED
      BY <2>1, <2>2
  <1>4. AcceptorsOk(h, Y, A, s, so, wout, v)
    <2> SUFFICES ASSUME NEW m \in DOMAIN so \ Y
                 PROVE  \/ /\ so[m].peer \in DOMAIN s
                           /\ s[so[m].peer].peer = m \/ AckOn(v, m, so[m].peer)
                        \/ EndFrom(wout, 0, so[m].peer, 0)
                        \/ EndFrom(wout, 0, so[m].peer, m)
      BY DEF Half, AcceptorsOk
    <2>1. /\ <<so[m].peer, m>> \in A
          /\ \/ /\ so[m].peer \in DOMAIN sh
                /\ sh[so[m].peer].peer = m \/ AckOn(win, m, so[m].peer)
             \/ EndFrom(wout, 0, so[m].peer, 0)
             \/ EndFrom(wout, 0, so[m].peer, m)
      BY DEF Half, AcceptorsOk
    <2>2. CASE so[m].peer = i
      <3>1. m = j
        BY <1>1, <2>1, <2>2 DEF Half, Matching
      <3> QED
        BY <2>2, <3>1
    <2>3. CASE so[m].peer # i
      BY <2>1, <2>3, ShrunkOn
    <2> QED
      BY <2>2, <2>3
  <1>5. SynsOk(X, A, s, wout)
    BY DEF Half, SynsOk
  <1>6. AcksOk(A, s, so, v)
    <2>1. AcksOk(A, s, so, win)
      BY DEF Half, AcksOk
    <2> QED
      BY <2>1, AcksShrink
  <1>7. OpenerEndsOk(X, A, s, wout)
    BY DEF Half, OpenerEndsOk
  <1>8. AcceptorEndsOk(Y, A, so, v)
    BY <1>0 DEF Half, AcceptorEndsOk
  <1> QED
    BY <1>3, <1>4, <1>5, <1>6, <1>7, <1>8 DEF Half

(* The opener takes the FIN or RST of a session it still has. *)
LEMMA OpenerEnded ==
  ASSUME NEW h, NEW X, NEW Y, NEW A, NEW sh, NEW so, NEW wout, NEW win,
         Half(h, X, Y, A, sh, so, wout, win),
         NEW v, Shrunk(win, v), IsEnd(win[1]), win[1].src \notin Y,
         NEW id \in DOMAIN sh, win[1].dst = id,
         NEW s, DOMAIN s = DOMAIN sh \ {id}, \A i \in DOMAIN s : s[i] = sh[i]
  PROVE  Half(h, X, Y, A, s, so, wout, v)
  <1>0. \A p \in 1 .. Len(v) : p \in Nat /\ p + 1 \in 1 .. Len(win) /\ v[p] = win[p + 1]
    BY DEF Shrunk
  <1>1. <<id, win[1].src>> \in A /\ win[1].src \notin DOMAIN so
    <2>1. 1 \in 1 .. Len(win)
      BY DEF Shrunk
    <2> QED
      BY <2>1 DEF Half, AcceptorEndsOk
  <1>2. win[1].kind # "synack"
    BY DEF IsEnd
  <1>3. OpenersOk(X, A, s, so, wout, v)
    BY <1>2, ShrunkOn DEF Half, OpenersOk
  <1>4. AcceptorsOk(h, Y, A, s, so, wout, v)
    <2>0. \A j : <<id, j>> \in A => j = win[1].src
      BY <1>1 DEF Half, Matching
    <2>1. \A j \in DOMAIN so \ Y : so[j].peer # id
      BY <1>1, <2>0 DEF Half, AcceptorsOk
    <2> QED
      BY <1>2, <2>1, ShrunkOn DEF Half, AcceptorsOk
  <1>5. SynsOk(X, A, s, wout)
    BY <1>1 DEF Half, SynsOk
  <1>6. AcksOk(A, s, so, v)
    <2>1. AcksOk(A, s, so, win)
      BY DEF Half, AcksOk
    <2> QED
      BY <2>1, AcksShrink
  <1>7. OpenerEndsOk(X, A, s, wout)
    BY DEF Half, OpenerEndsOk
  <1>8. AcceptorEndsOk(Y, A, so, v)
    BY <1>0 DEF Half, AcceptorEndsOk
  <1> QED
    BY <1>3, <1>4, <1>5, <1>6, <1>7, <1>8 DEF Half

(* The acceptor takes the FIN or RST of a session it still has. *)
LEMMA AcceptorEnded ==
  ASSUME NEW h, NEW X, NEW Y, NEW A, NEW sh, NEW so, NEW wout, NEW win,
         Half(h, X, Y, A, sh, so, wout, win),
         NEW w, Shrunk(wout, w), IsEnd(wout[1]), wout[1].src \in X,
         NEW id \in DOMAIN so \ Y, so[id].peer = wout[1].src,
         NEW s, DOMAIN s = DOMAIN so \ {id}, \A j \in DOMAIN s : s[j] = so[j]
  PROVE  Half(h, X, Y, A, sh, s, w, win)
  <1>0. \A p \in 1 .. Len(w) : p \in Nat /\ p + 1 \in 1 .. Len(wout) /\ w[p] = wout[p + 1]
    BY DEF Shrunk
  <1>1. wout[1].src \notin DOMAIN sh
    <2>1. 1 \in 1 .. Len(wout)
      BY DEF Shrunk
    <2> QED
      BY <2>1 DEF Half, OpenerEndsOk
  <1>2. wout[1].kind # "syn"
    BY DEF IsEnd
  <1>9. /\ <<wout[1].src, id>> \in A
        /\ \A k : <<k, id>> \in A => k = wout[1].src
        /\ \A j : <<wout[1].src, j>> \in A => j = id
    BY DEF Half, AcceptorsOk, Matching
  <1>3. OpenersOk(X, A, sh, s, w, win)
    BY <1>1, <1>2, <1>9, ShrunkOn DEF Half, OpenersOk
  <1>4. AcceptorsOk(h, Y, A, sh, s, w, win)
    <2>1. \A j \in DOMAIN s \ Y : so[j].peer # wout[1].src
      BY <1>9 DEF Half, AcceptorsOk
    <2> QED
      BY <2>1, ShrunkOn DEF Half, AcceptorsOk
  <1>5. SynsOk(X, A, sh, w)
    BY SynsShrink DEF Half
  <1>6. AcksOk(A, sh, s, win)
    BY <1>1, <1>9 DEF Half, AcksOk
  <1>7. OpenerEndsOk(X, A, sh, w)
    BY <1>0 DEF Half, OpenerEndsOk
  <1>8. AcceptorEndsOk(Y, A, s, win)
    BY DEF Half, AcceptorEndsOk
  <1> QED
    BY <1>3, <1>4, <1>5, <1>6, <1>7, <1>8 DEF Half
-----------------------------------------------------------------------------
(* Both directions *)

(* All ids of h that were ever used, in sessions or in frames, are below nh. *)
Fresh(nh, X, B, sh, wout) ==
    /\ nh \in Nat \ {0} /\ X \subseteq 1 .. nh - 1 /\ DOMAIN sh \subseteq 1 .. nh - 1
    /\ \A i, j : <<i, j>> \in B => j \in 1 .. nh - 1
    /\ \A p \in 1 .. Len(wout) : wout[p].src \in 0 .. nh - 1

Joint(h, o, X, Y, A, B, sh, so, nh, no, wout, win) ==
    /\ Half(h, X, Y, A, sh, so, wout, win)
    /\ Half(o, Y, X, B, so, sh, win, wout)
    /\ Fresh(nh, X, B, sh, wout)
    /\ Fresh(no, Y, A, so, win)

(* s is the map with an entry set; s is the map with an entry erased *)
Extends(s, map, key, value) ==
    /\ DOMAIN s = DOMAIN map \cup {key} /\ s[key] = value
    /\ \A k \in DOMAIN map : k # key => s[k] = map[k]

Without(s, map, key) ==
    DOMAIN s = DOMAIN map \ {key} /\ \A k \in DOMAIN s : s[k] = map[k]

(* Sending a frame from a known id keeps the next id fresh. *)
LEMMA FreshSends ==
  ASSUME NEW nh, NEW X, NEW B, NEW sh, NEW wout, Fresh(nh, X, B, sh, wout),
         NEW v, NEW f, Grown(wout, v, f), f.src \in 0 .. nh - 1
  PROVE  Fresh(nh, X, B, sh, v)
  <1>1. \A p \in 1 .. Len(v) : (p \in 1 .. Len(wout) /\ v[p] = wout[p]) \/ v[p] = f
    BY DEF Grown
  <1> QED
    BY <1>1 DEF Fresh

(* Taking a frame keeps the next id fresh. *)
LEMMA FreshTakes ==
  ASSUME NEW nh, NEW X, NEW B, NEW sh, NEW wout, Fresh(nh, X, B, sh, wout),
         NEW v, Shrunk(wout, v)
  PROVE  Fresh(nh, X, B, sh, v)
  <1>1. \A p \in 1 .. Len(v) : p + 1 \in 1 .. Len(wout) /\ v[p] = wout[p + 1]
    BY DEF Shrunk
  <1> QED
    BY <1>1 DEF Fresh

(* Once the next id is used its successor is fresh (allocate_p2p_stream_id). *)
LEMMA FreshNext ==
  ASSUME NEW nh, NEW X, NEW B, NEW sh, NEW wout, Fresh(nh, X, B, sh, wout),
         NEW Z, \A z \in Z : z \in X \/ z = nh,
         NEW s, \A k \in DOMAIN s : k \in DOMAIN sh \/ k = nh,
         NEW C, \A i, j : <<i, j>> \in C => <<i, j>> \in B \/ j = nh
  PROVE  Fresh(nh + 1, Z, C, s, wout)
  <1>1. /\ nh + 1 \in Nat \ {0} /\ nh \in 1 .. (nh + 1) - 1
        /\ \A k \in 1 .. nh - 1 : k \in 1 .. (nh + 1) - 1
        /\ \A k \in 0 .. nh - 1 : k \in 0 .. (nh + 1) - 1
    BY DEF Fresh
  <1>2. Z \subseteq 1 .. (nh + 1) - 1 /\ DOMAIN s \subseteq 1 .. (nh + 1) - 1
    BY <1>1 DEF Fresh
  <1>3. \A p \in 1 .. Len(wout) : wout[p].src \in 0 .. (nh + 1) - 1
    BY <1>1 DEF Fresh
  <1>4. \A k, j : <<k, j>> \in C => j \in 1 .. (nh + 1) - 1
    BY <1>1 DEF Fresh
  <1> QED
    BY <1>1, <1>2, <1>3, <1>4 DEF Fresh

(* Forgetting sessions keeps the next id fresh. *)
LEMMA FreshErases ==
  ASSUME NEW nh, NEW X, NEW B, NEW sh, NEW wout, Fresh(nh, X, B, sh, wout),
         NEW s, DOMAIN s \subseteq DOMAIN sh
  PROVE  Fresh(nh, X, B, s, wout)
  BY DEF Fresh

(* Both halves when h opens a stream. *)
LEMMA JointOpen ==
  ASSUME NEW h, NEW o, NEW X, NEW Y, NEW A, NEW B, NEW sh, NEW so, NEW nh, NEW no,
         NEW wout, NEW win, Joint(h, o, X, Y, A, B, sh, so, nh, no, wout, win),
         NEW s, NEW x, Extends(s, sh, nh, x), x.peer = 0,
         NEW v, NEW f, Grown(wout, v, f), f.kind = "syn", f.src = nh,
         NEW Z, Z = X \cup {nh}, NEW n, n = nh + 1
  PROVE  Joint(h, o, Z, Y, A, B, s, so, n, no, v, win)
  <1> /\ DOMAIN s = DOMAIN sh \cup {nh} /\ s[nh].peer = 0
      /\ \A i \in DOMAIN sh : i # nh => s[i] = sh[i]
    BY DEF Extends
  <1>1. /\ nh \in Nat \ {0} /\ nh \notin X /\ nh \notin DOMAIN sh
        /\ \A i : <<i, nh>> \notin B
        /\ \A p \in 1 .. Len(wout) : wout[p].src # nh
    BY DEF Joint, Fresh
  <1>2. Half(h, Z, Y, A, s, so, v, win)
    BY <1>1, OpenerOpens DEF Joint
  <1>3. Half(o, Y, Z, B, so, s, win, v)
    <2>1. Half(o, Y, Z, B, so, sh, win, wout)
      BY <1>1, OtherOpens DEF Joint
    <2>2. Half(o, Y, Z, B, so, s, win, wout)
      BY <2>1, OtherOpened
    <2>3. ~IsEnd(f) /\ f.kind # "synack"
      BY DEF IsEnd
    <2> QED
      BY <2>2, <2>3, InGrows
  <1>4. Fresh(nh + 1, Z, B, s, v)
    <2>1. Fresh(nh + 1, Z, B, s, wout)
      BY FreshNext DEF Joint
    <2>2. f.src \in 0 .. (nh + 1) - 1
      BY <1>1
    <2> QED
      BY <2>1, <2>2, FreshSends
  <1> QED
    BY <1>2, <1>3, <1>4 DEF Joint

(* Both halves when h closes or resets a stream, its own or an accepted one. *)
LEMMA JointEnds ==
  ASSUME NEW h, NEW o, NEW X, NEW Y, NEW A, NEW B, NEW sh, NEW so, NEW nh, NEW no,
         NEW wout, NEW win, Joint(h, o, X, Y, A, B, sh, so, nh, no, wout, win),
         NEW id \in DOMAIN sh, NEW s, Without(s, sh, id),
         NEW v, NEW f, Grown(wout, v, f), IsEnd(f), f.src = id, f.dst = sh[id].peer
  PROVE  Joint(h, o, X, Y, A, B, s, so, nh, no, v, win)
  <1> DOMAIN s = DOMAIN sh \ {id} /\ \A i \in DOMAIN s : s[i] = sh[i]
    BY DEF Without
  <1>0. f.kind # "syn" /\ f.kind # "synack"
    BY DEF IsEnd
  <1>1. Fresh(nh, X, B, s, v)
    <2>1. Fresh(nh, X, B, s, wout)
      BY FreshErases DEF Joint
    <2>2. f.src \in 0 .. nh - 1
      BY DEF Joint, Fresh
    <2> QED
      BY <2>1, <2>2, FreshSends
  <1>2. CASE id \in X
    <2>1. Half(h, X, Y, A, s, so, v, win)
      BY <1>2, OpenerEnds DEF Joint
    <2>2. Half(o, Y, X, B, so, s, win, wout)
      BY <1>2, OtherOpened DEF Joint
    <2>3. Half(o, Y, X, B, so, s, win, v)
      BY <1>0, <1>2, <2>2, InGrows
    <2> QED
      BY <1>1, <2>1, <2>3 DEF Joint
  <1>3. CASE id \notin X
    <2>1. Half(h, X, Y, A, s, so, wout, win)
      BY <1>3, OwnAccepted DEF Joint
    <2>2. Half(h, X, Y, A, s, so, v, win)
      BY <1>0, <1>3, <2>1, OutGrows
    <2>3. Half(o, Y, X, B, so, s, win, v)
      BY <1>3, AcceptorEnds DEF Joint
    <2> QED
      BY <1>1, <2>2, <2>3 DEF Joint
  <1> QED
    BY <1>2, <1>3

(* Both halves when h sends a datagram or data. *)
LEMMA JointSends ==
  ASSUME NEW h, NEW o, NEW X, NEW Y, NEW A, NEW B, NEW sh, NEW so, NEW nh, NEW no,
         NEW wout, NEW win, Joint(h, o, X, Y, A, B, sh, so, nh, no, wout, win),
         NEW v, NEW f, Grown(wout, v, f), f.kind \in {"datagram", "data"},
         f.src \in 0 .. nh - 1
  PROVE  Joint(h, o, X, Y, A, B, sh, so, nh, no, v, win)
  <1>0. f.kind # "syn" /\ f.kind # "synack" /\ ~IsEnd(f)
    BY DEF IsEnd
  <1>1. Half(h, X, Y, A, sh, so, v, win)
    BY <1>0, OutGrows DEF Joint
  <1>2. Half(o, Y, X, B, so, sh, win, v)
    BY <1>0, InGrows DEF Joint
  <1>3. Fresh(nh, X, B, sh, v)
    BY FreshSends DEF Joint
  <1> QED
    BY <1>1, <1>2, <1>3 DEF Joint

(* Both halves when h takes a frame for no session of its own. *)
LEMMA JointDrops ==
  ASSUME NEW h, NEW o, NEW X, NEW Y, NEW A, NEW B, NEW sh, NEW so, NEW nh, NEW no,
         NEW wout, NEW win, Joint(h, o, X, Y, A, B, sh, so, nh, no, wout, win),
         NEW v, Shrunk(win, v), win[1].kind # "syn",
         win[1].kind = "synack" \/ IsEnd(win[1]) =>
            /\ win[1].dst \notin DOMAIN sh
            /\ win[1].dst = 0 => \A j \in DOMAIN sh :
                  ~(sh[j].peer = win[1].src /\ sh[j].host = o /\ sh[j].address = 0)
  PROVE  Joint(h, o, X, Y, A, B, sh, so, nh, no, wout, v)
  <1>1. Half(h, X, Y, A, sh, so, wout, v)
    BY InShrinks DEF Joint
  <1>2. Half(o, Y, X, B, so, sh, v, wout)
    <2>1. IsEnd(win[1]) => \A j \in DOMAIN sh \ X :
             sh[j].peer = win[1].src => win[1].dst \notin {0, j}
      <3>1. \A j \in DOMAIN sh \ X : sh[j].host = o /\ sh[j].address = 0
        BY DEF Joint, Half, AcceptorsOk
      <3> QED
        BY <3>1
    <2> QED
      BY <2>1, OutShrinks DEF Joint
  <1>3. Fresh(no, Y, A, so, v)
    BY FreshTakes DEF Joint
  <1> QED
    BY <1>1, <1>2, <1>3 DEF Joint

(* A SYN is never for a stream its receiver knows: each SYN arrives once. *)
LEMMA JointNew ==
  ASSUME NEW h, NEW o, NEW X, NEW Y, NEW A, NEW B, NEW sh, NEW so, NEW nh, NEW no,
         NEW wout, NEW win, Joint(h, o, X, Y, A, B, sh, so, nh, no, wout, win),
         Len(win) \in Nat \ {0}, win[1].kind = "syn"
  PROVE  \A k \in DOMAIN sh : sh[k].peer # win[1].src
  <1>1. 1 \in 1 .. Len(win)
    OBVIOUS
  <1>2. win[1].src \in Y /\ \A j : <<win[1].src, j>> \notin B
    BY <1>1 DEF Joint, Half, SynsOk
  <1>3. win[1].src # 0 /\ \A k : <<k, win[1].src>> \notin A
    BY <1>2 DEF Joint, Half, Matching
  <1>4. \A k \in DOMAIN sh \cap X : sh[k].peer # win[1].src
    BY <1>3 DEF Joint, Half, OpenersOk
  <1>5. \A k \in DOMAIN sh \ X : sh[k].peer # win[1].src
    BY <1>2 DEF Joint, Half, AcceptorsOk
  <1> QED
    BY <1>4, <1>5

(* Both halves when h accepts a stream. *)
LEMMA JointAccepts ==
  ASSUME NEW h, NEW o, NEW X, NEW Y, NEW A, NEW B, NEW sh, NEW so, NEW nh, NEW no,
         NEW wout, NEW win, Joint(h, o, X, Y, A, B, sh, so, nh, no, wout, win),
         NEW w, Shrunk(win, w), win[1].kind = "syn", NEW i, i = win[1].src,
         NEW s, NEW x, Extends(s, sh, nh, x),
         x.host = o, x.address = 0, x.peer = i, x.connected,
         NEW v, NEW f, Grown(wout, v, f), f.kind = "synack", f.src = nh, f.dst = i,
         NEW C, C = B \cup {<<i, nh>>}, NEW n, n = nh + 1
  PROVE  Joint(h, o, X, Y, A, C, s, so, n, no, v, w)
  <1> /\ DOMAIN s = DOMAIN sh \cup {nh} /\ \A k \in DOMAIN sh : k # nh => s[k] = sh[k]
      /\ s[nh].host = o /\ s[nh].address = 0 /\ s[nh].peer = i /\ s[nh].connected
    BY DEF Extends
  <1>1. /\ nh \in Nat \ {0} /\ nh \notin X /\ nh \notin DOMAIN sh
        /\ \A k : <<k, nh>> \notin B
        /\ \A p \in 1 .. Len(wout) : wout[p].src # nh
    BY DEF Joint, Fresh
  <1>2. Half(o, Y, X, C, so, s, w, v)
    BY <1>1, AcceptorAccepts DEF Joint
  <1>3. Half(h, X, Y, A, s, so, v, w)
    <2>1. Half(h, X, Y, A, s, so, wout, win)
      BY <1>1, OwnAccepted DEF Joint
    <2>2. win[1].kind # "synack" /\ ~IsEnd(win[1]) /\ f.kind # "syn" /\ ~IsEnd(f)
      BY DEF IsEnd
    <2>3. Half(h, X, Y, A, s, so, wout, w)
      BY <2>1, <2>2, InShrinks
    <2> QED
      BY <2>2, <2>3, OutGrows
  <1>4. Fresh(nh + 1, X, C, s, v)
    <2>0. /\ \A k \in DOMAIN s : k \in DOMAIN sh \/ k = nh
          /\ \A k, j : <<k, j>> \in C => <<k, j>> \in B \/ j = nh
      OBVIOUS
    <2>1. Fresh(nh + 1, X, C, s, wout)
      <3>1. Fresh(nh, X, B, sh, wout)
        BY DEF Joint
      <3> QED
        BY <2>0, <3>1, FreshNext
    <2>2. f.src \in 0 .. (nh + 1) - 1
      BY <1>1
    <2> QED
      BY <2>1, <2>2, FreshSends
  <1>5. Fresh(no, Y, A, so, w)
    BY FreshTakes DEF Joint
  <1> QED
    BY <1>2, <1>3, <1>4, <1>5 DEF Joint

(* Both halves when h takes the answer to a SYN. *)
LEMMA JointAnswered ==
  ASSUME NEW h, NEW o, NEW X, NEW Y, NEW A, NEW B, NEW sh, NEW so, NEW nh, NEW no,
         NEW wout, NEW win, Joint(h, o, X, Y, A, B, sh, so, nh, no, wout, win),
         NEW v, Shrunk(win, v), win[1].kind = "synack",
         NEW i \in DOMAIN sh, i = win[1].dst, NEW j, j = win[1].src,
         NEW s, NEW x, Extends(s, sh, i, x), x.peer = j, x.connected
  PROVE  Joint(h, o, X, Y, A, B, s, so, nh, no, wout, v)
  <1> /\ DOMAIN s = DOMAIN sh /\ \A k \in DOMAIN sh : k # i => s[k] = sh[k]
      /\ s[i].peer = j /\ s[i].connected
    BY DEF Extends
  <1>1. Half(h, X, Y, A, s, so, wout, v)
    BY OpenerAnswered DEF Joint
  <1>2. Half(o, Y, X, B, so, s, v, wout)
    <2>1. i \in X
      <3>1. 1 \in 1 .. Len(win)
        BY DEF Shrunk
      <3>2. <<i, j>> \in A
        BY <3>1 DEF Joint, Half, AcksOk
      <3> QED
        BY <3>2 DEF Joint, Half, Matching
    <2>2. Half(o, Y, X, B, so, s, win, wout)
      BY <2>1, OtherOpened DEF Joint
    <2>3. win[1].kind # "syn" /\ ~IsEnd(win[1])
      BY DEF IsEnd
    <2> QED
      BY <2>2, <2>3, OutShrinks
  <1>3. Fresh(nh, X, B, s, wout)
    BY FreshErases DEF Joint
  <1>4. Fresh(no, Y, A, so, v)
    BY FreshTakes DEF Joint
  <1> QED
    BY <1>1, <1>2, <1>3, <1>4 DEF Joint

(* Both halves when h takes FIN or RST for a session, found by id or by source. *)
LEMMA JointEnded ==
  ASSUME NEW h, NEW o, NEW X, NEW Y, NEW A, NEW B, NEW sh, NEW so, NEW nh, NEW no,
         NEW wout, NEW win, Joint(h, o, X, Y, A, B, sh, so, nh, no, wout, win),
         NEW v, Shrunk(win, v), IsEnd(win[1]),
         NEW id \in DOMAIN sh, win[1].dst # 0 => id = win[1].dst,
         win[1].dst = 0 => sh[id].peer = win[1].src,
         NEW s, Without(s, sh, id)
  PROVE  Joint(h, o, X, Y, A, B, s, so, nh, no, wout, v)
  <1> DOMAIN s = DOMAIN sh \ {id} /\ \A i \in DOMAIN s : s[i] = sh[i]
    BY DEF Without
  <1>0. win[1].kind # "syn" /\ 1 \in 1 .. Len(win)
    BY DEF IsEnd, Shrunk
  <1>1. Fresh(nh, X, B, s, wout) /\ Fresh(no, Y, A, so, v)
    BY FreshErases, FreshTakes DEF Joint
  <1>2. CASE win[1].src \notin Y
    <2>1. <<win[1].dst, win[1].src>> \in A
      BY <1>0, <1>2 DEF Joint, Half, AcceptorEndsOk
    <2>2. win[1].dst \in X /\ win[1].dst # 0
      BY <2>1 DEF Joint, Half, Matching
    <2>3. Half(h, X, Y, A, s, so, wout, v)
      BY <1>2, <2>2, OpenerEnded DEF Joint
    <2>4. Half(o, Y, X, B, so, s, win, wout)
      BY <2>2, OtherOpened DEF Joint
    <2>5. \A j \in DOMAIN s \ X : s[j].peer # win[1].src
      <3>1. \A j \in DOMAIN s \ X : <<s[j].peer, j>> \in B
        BY <2>4 DEF Half, AcceptorsOk
      <3>2. \A k, j : <<k, j>> \in B => k \in Y
        BY DEF Joint, Half, Matching
      <3> QED
        BY <1>2, <3>1, <3>2
    <2>6. Half(o, Y, X, B, so, s, v, wout)
      BY <1>0, <2>4, <2>5, OutShrinks
    <2> QED
      BY <1>1, <2>3, <2>6 DEF Joint
  <1>3. CASE win[1].src \in Y
    <2>1. win[1].dst = 0 \/ <<win[1].src, win[1].dst>> \in B
      BY <1>0, <1>3 DEF Joint, Half, OpenerEndsOk
    <2>2. id \notin X
      <3>1. CASE win[1].dst = 0
        <4>1. win[1].src # 0 /\ <<id, win[1].src>> \notin A
          BY <1>3 DEF Joint, Half, Matching
        <4> QED
          BY <3>1, <4>1 DEF Joint, Half, OpenersOk
      <3>2. CASE win[1].dst # 0
        BY <2>1, <3>2 DEF Joint, Half, Matching
      <3> QED
        BY <3>1, <3>2
    <2>3. sh[id].peer = win[1].src
      <3>1. <<sh[id].peer, id>> \in B
        BY <2>2 DEF Joint, Half, AcceptorsOk
      <3>2. CASE win[1].dst # 0
        BY <2>1, <3>1, <3>2 DEF Joint, Half, Matching
      <3> QED
        BY <3>2
    <2>4. Half(o, Y, X, B, so, s, v, wout)
      BY <1>3, <2>2, <2>3, AcceptorEnded DEF Joint
    <2>5. Half(h, X, Y, A, s, so, wout, win)
      BY <2>2, OwnAccepted DEF Joint
    <2>6. win[1].dst \notin DOMAIN s \cap X
      BY <2>2 DEF Joint, Half, Matching
    <2>7. Half(h, X, Y, A, s, so, wout, v)
      BY <2>5, <2>6, InShrinks
    <2> QED
      BY <1>1, <2>4, <2>7 DEF Joint
  <1> QED
    BY <1>2, <1>3
-----------------------------------------------------------------------------
(* The invariant of the specification *)

Kinds  == {"datagram", "syn", "synack", "data", "fin", "rst"}
Frames == [kind : Kinds, src : Nat, dst : Nat, address : {0}]
IsSession(x) ==
    /\ x = [host |-> x.host, address |-> x.address, peer |-> x.peer, connected |-> x.connected]
    /\ x.peer \in Nat

(* Without a fault all addresses are the first ones. *)
P2pTypes ==
    /\ p2pAddress = [h \in P2pHosts |-> 0]
    /\ DOMAIN p2pSessions = P2pHosts /\ DOMAIN p2pNextId = P2pHosts
    /\ DOMAIN p2pWire = P2pHosts \X P2pHosts
    /\ \A h \in P2pHosts : \A i \in DOMAIN p2pSessions[h] : IsSession(p2pSessions[h][i])
    /\ \A h, o \in P2pHosts : p2pWire[<<h, o>>] \in Seq(Frames)
    /\ \A h \in P2pHosts : p2pWire[<<h, h>>] = << >>

Linked(h, o) ==
    \E X, Y, A, B : Joint(h, o, X, Y, A, B, p2pSessions[h], p2pSessions[o],
                          p2pNextId[h], p2pNextId[o], p2pWire[<<h, o>>], p2pWire[<<o, h>>])

(* A fault may break the rest, as SessionsAgree says. *)
StreamInv(a, b) == p2pFaults \in Nat /\ (p2pFaults = 0 => P2pTypes /\ Linked(a, b))

(* Joint does not depend on which host comes first. *)
LEMMA JointSym ==
  ASSUME NEW h, NEW o, NEW X, NEW Y, NEW A, NEW B, NEW sh, NEW so, NEW nh, NEW no,
         NEW wout, NEW win, Joint(h, o, X, Y, A, B, sh, so, nh, no, wout, win)
  PROVE  Joint(o, h, Y, X, B, A, so, sh, no, nh, win, wout)
  BY DEF Joint

(* Linked does not depend on which host comes first. *)
LEMMA LinkedSym ==
  ASSUME NEW h, NEW o
  PROVE  /\ Linked(h, o) => Linked(o, h)
         /\ Linked(h, o)' => Linked(o, h)'
  <1>1. ASSUME Linked(h, o) PROVE Linked(o, h)
    BY <1>1, JointSym DEF Linked
  <1>2. ASSUME Linked(h, o)' PROVE Linked(o, h)'
    BY <1>2, JointSym DEF Linked
  <1> QED
    BY <1>1, <1>2

(* Append is one frame more. *)
LEMMA AppendGrows ==
  ASSUME NEW S, NEW w \in Seq(S), NEW f \in S
  PROVE  Append(w, f) \in Seq(S) /\ Grown(w, Append(w, f), f)
  BY DEF Grown

(* Tail is one frame less. *)
LEMMA TailShrinks ==
  ASSUME NEW S, NEW w \in Seq(S), w # << >>
  PROVE  /\ Tail(w) \in Seq(S) /\ Shrunk(w, Tail(w)) /\ Head(w) = w[1]
         /\ Head(w) \in S /\ Len(w) \in Nat \ {0}
  BY DEF Shrunk

(* The links after a step carry v and w; nothing goes from a host to itself. *)
Carries(after, wire, h, o, v, w) ==
    /\ DOMAIN after = P2pHosts \X P2pHosts
    /\ after[<<h, o>>] = v /\ after[<<o, h>>] = w
    /\ after[<<h, h>>] = wire[<<h, h>>] /\ after[<<o, o>>] = wire[<<o, o>>]

(* What Sent puts on the links of two hosts. *)
LEMMA SentIs ==
  ASSUME NEW wire, DOMAIN wire = P2pHosts \X P2pHosts,
         NEW h \in P2pHosts, NEW o \in P2pHosts, h # o, NEW f
  PROVE  Carries(Sent(wire, h, f), wire, h, o, Append(wire[<<h, o>>], f), wire[<<o, h>>])
  BY DEF Sent, Carries

(* What Rest leaves on the links of two hosts. *)
LEMMA RestIs ==
  ASSUME NEW h \in P2pHosts, NEW o \in P2pHosts, h # o,
         DOMAIN p2pWire = P2pHosts \X P2pHosts
  PROVE  Carries(Rest(h, o), p2pWire, h, o, p2pWire[<<h, o>>], Tail(p2pWire[<<o, h>>]))
  BY DEF Rest, Carries

(* What Entered makes of a map. *)
LEMMA EnteredIs ==
  ASSUME NEW map, NEW key, NEW value
  PROVE  Extends(Entered(map, key, value), map, key, value)
  BY DEF Entered, Extends

(* With all sessions below the next id, allocate_p2p_stream_id takes the next id. *)
LEMMA FreeIdIs ==
  ASSUME NEW h, p2pNextId[h] \in Nat \ {0},
         DOMAIN p2pSessions[h] \subseteq 1 .. p2pNextId[h] - 1
  PROVE  FreeId(h) = p2pNextId[h]
  <1> DEFINE D == DOMAIN p2pSessions[h]
             n == p2pNextId[h]
             S == {i \in n .. n + Cardinality(D) : i \notin D}
  <1>1. IsFiniteSet(D) /\ Cardinality(D) \in Nat
    <2>1. IsFiniteSet(1 .. n - 1) /\ D \in SUBSET (1 .. n - 1)
      BY FS_Interval
    <2> HIDE DEF D, n
    <2>2. IsFiniteSet(D)
      BY <2>1, FS_Subset
    <2> QED
      BY <2>2, FS_CardinalityType
  <1>2. n \in S /\ \A x \in S : n <= x /\ x \in Int
    BY <1>1
  <1>3. FreeId(h) = CHOOSE x \in S : \A y \in S : x <= y
    BY DEF FreeId, Min
  <1> HIDE DEF S, D
  <1>4. \A x \in S : (\A y \in S : x <= y) => x = n
    BY <1>2
  <1> QED
    BY <1>2, <1>3, <1>4

(* What a step of host h leaves: its sessions, its next id and the two links. *)
Moves(h, o, s, n, v, w) ==
    /\ p2pAddress' = p2pAddress
    /\ DOMAIN p2pSessions' = P2pHosts /\ DOMAIN p2pNextId' = P2pHosts
    /\ DOMAIN p2pWire' = P2pHosts \X P2pHosts
    /\ p2pSessions'[h] = s /\ p2pSessions'[o] = p2pSessions[o]
    /\ p2pNextId'[h] = n /\ p2pNextId'[o] = p2pNextId[o]
    /\ p2pWire'[<<h, o>>] = v /\ p2pWire'[<<o, h>>] = w
    /\ p2pWire'[<<h, h>>] = << >> /\ p2pWire'[<<o, o>>] = << >>

(* A step that keeps Joint keeps the invariant. *)
LEMMA MovesOk ==
  ASSUME NEW h, NEW o, P2pHosts = {h, o}, P2pTypes,
         NEW s, \A i \in DOMAIN s : IsSession(s[i]), NEW n,
         NEW v \in Seq(Frames), NEW w \in Seq(Frames), Moves(h, o, s, n, v, w),
         NEW X, NEW Y, NEW A, NEW B,
         Joint(h, o, X, Y, A, B, s, p2pSessions[o], n, p2pNextId[o], v, w)
  PROVE  P2pTypes' /\ Linked(h, o)'
  <1>1. Linked(h, o)'
    BY Zenon DEF Moves, Linked
  <1>2. \A g \in P2pHosts : \A i \in DOMAIN p2pSessions'[g] : IsSession(p2pSessions'[g][i])
    BY DEF Moves, P2pTypes
  <1>3. \A g, k \in P2pHosts : p2pWire'[<<g, k>>] \in Seq(Frames)
    <2>1. << >> \in Seq(Frames)
      OBVIOUS
    <2> QED
      BY <2>1 DEF Moves
  <1>4. \A g \in P2pHosts : p2pWire'[<<g, g>>] = << >>
    BY DEF Moves
  <1>5. P2pTypes'
    BY <1>2, <1>3, <1>4 DEF Moves, P2pTypes, IsSession
  <1> QED
    BY <1>1, <1>5

-----------------------------------------------------------------------------
(* The actions *)

(* What erasing a session leaves. *)
LEMMA WithoutIs ==
  ASSUME NEW f, NEW i
  PROVE  Without(Restrict(f, DOMAIN f \ {i}), f, i)
  BY DEF Restrict, Without

(* A session whose SYN was answered. *)
LEMMA AnsweredIs ==
  ASSUME NEW x, IsSession(x), NEW p \in Nat, NEW y,
         y = [x EXCEPT !.peer = p, !.connected = TRUE]
  PROVE  IsSession(y) /\ y.peer = p /\ y.connected
  <1>1. PICK to, adr, q, c : x = [host |-> to, address |-> adr, peer |-> q, connected |-> c]
    BY DEF IsSession
  <1>2. y = [host |-> to, address |-> adr, peer |-> p, connected |-> TRUE]
    BY <1>1
  <1> QED
    BY <1>2 DEF IsSession

(* The state a step starts from *)
At(h, o, X, Y, A, B, sh, so, nh, no, wout, win) ==
    /\ P2pHosts = {h, o} /\ h # o /\ P2pTypes
    /\ sh = p2pSessions[h] /\ so = p2pSessions[o]
    /\ nh = p2pNextId[h] /\ no = p2pNextId[o]
    /\ wout = p2pWire[<<h, o>>] /\ win = p2pWire[<<o, h>>]
    /\ Joint(h, o, X, Y, A, B, sh, so, nh, no, wout, win)

(* What the proofs of the steps use of the state they start from. *)
LEMMA AtFacts ==
  ASSUME NEW h, NEW o, NEW X, NEW Y, NEW A, NEW B, NEW sh, NEW so, NEW nh, NEW no,
         NEW wout, NEW win, At(h, o, X, Y, A, B, sh, so, nh, no, wout, win)
  PROVE  /\ h \in P2pHosts /\ o \in P2pHosts /\ h # o /\ p2pAddress[h] = 0
         /\ P2pHosts = {h, o} /\ P2pTypes
         /\ sh = p2pSessions[h] /\ so = p2pSessions[o]
         /\ nh = p2pNextId[h] /\ no = p2pNextId[o]
         /\ wout = p2pWire[<<h, o>>] /\ win = p2pWire[<<o, h>>]
         /\ nh \in Nat \ {0} /\ DOMAIN sh \subseteq 1 .. nh - 1
         /\ wout \in Seq(Frames) /\ win \in Seq(Frames)
         /\ p2pWire[<<h, h>>] = << >> /\ p2pWire[<<o, o>>] = << >>
         /\ DOMAIN p2pWire = P2pHosts \X P2pHosts
         /\ DOMAIN p2pSessions = P2pHosts /\ DOMAIN p2pNextId = P2pHosts
         /\ \A i \in DOMAIN sh : IsSession(sh[i])
         /\ Joint(h, o, X, Y, A, B, sh, so, nh, no, wout, win)
  <1>0. /\ sh = p2pSessions[h] /\ so = p2pSessions[o]
        /\ nh = p2pNextId[h] /\ no = p2pNextId[o]
        /\ wout = p2pWire[<<h, o>>] /\ win = p2pWire[<<o, h>>]
        /\ Joint(h, o, X, Y, A, B, sh, so, nh, no, wout, win)
    BY DEF At
  <1>1. nh \in Nat \ {0} /\ DOMAIN sh \subseteq 1 .. nh - 1
    BY <1>0 DEF Joint, Fresh
  <1>3. h \in P2pHosts /\ o \in P2pHosts /\ h # o
    BY DEF At
  <1>4. P2pTypes /\ P2pHosts = {h, o}
    BY DEF At
  <1>5. /\ p2pAddress[h] = 0
        /\ wout \in Seq(Frames) /\ win \in Seq(Frames)
        /\ p2pWire[<<h, h>>] = << >> /\ p2pWire[<<o, o>>] = << >>
        /\ DOMAIN p2pWire = P2pHosts \X P2pHosts
        /\ DOMAIN p2pSessions = P2pHosts /\ DOMAIN p2pNextId = P2pHosts
        /\ \A i \in DOMAIN sh : IsSession(sh[i])
    BY <1>0, <1>3, <1>4 DEF P2pTypes
  <1> QED
    BY <1>0, <1>1, <1>3, <1>4, <1>5

(* A frame has its fields. *)
LEMMA FrameIs ==
  ASSUME NEW h, p2pAddress[h] = 0, NEW kind \in Kinds, NEW src \in Nat, NEW dst \in Nat,
         NEW f, f = Frame(h, kind, src, dst)
  PROVE  f \in Frames /\ f.kind = kind /\ f.src = src /\ f.dst = dst
  BY DEF Frame, Frames

(* h sends f. *)
LEMMA SendMoves ==
  ASSUME NEW h, NEW o, NEW X, NEW Y, NEW A, NEW B, NEW sh, NEW so, NEW nh, NEW no,
         NEW wout, NEW win, At(h, o, X, Y, A, B, sh, so, nh, no, wout, win),
         NEW f \in Frames, NEW s, NEW n, NEW v, v = Append(wout, f),
         p2pAddress' = p2pAddress,
         \/ p2pSessions' = [p2pSessions EXCEPT ![h] = s]
         \/ p2pSessions' = p2pSessions /\ s = sh,
         \/ p2pNextId' = [p2pNextId EXCEPT ![h] = n]
         \/ p2pNextId' = p2pNextId /\ n = nh,
         p2pWire' = Sent(p2pWire, h, f)
  PROVE  /\ v \in Seq(Frames) /\ Grown(wout, v, f)
         /\ Moves(h, o, s, n, v, win)
  <1>1. /\ h \in P2pHosts /\ o \in P2pHosts /\ h # o
        /\ sh = p2pSessions[h] /\ so = p2pSessions[o]
        /\ nh = p2pNextId[h] /\ no = p2pNextId[o]
        /\ wout = p2pWire[<<h, o>>] /\ win = p2pWire[<<o, h>>]
        /\ wout \in Seq(Frames)
        /\ p2pWire[<<h, h>>] = << >> /\ p2pWire[<<o, o>>] = << >>
        /\ DOMAIN p2pWire = P2pHosts \X P2pHosts
        /\ DOMAIN p2pSessions = P2pHosts /\ DOMAIN p2pNextId = P2pHosts
    BY AtFacts, Zenon
  <1>2. v \in Seq(Frames) /\ Grown(wout, v, f)
    BY <1>1, AppendGrows
  <1>3. /\ DOMAIN p2pWire' = P2pHosts \X P2pHosts
        /\ p2pWire'[<<h, o>>] = v /\ p2pWire'[<<o, h>>] = win
        /\ p2pWire'[<<h, h>>] = << >> /\ p2pWire'[<<o, o>>] = << >>
    <2>1. Carries(p2pWire', p2pWire, h, o, v, win)
      BY <1>1, SentIs
    <2> QED
      BY <1>1, <2>1 DEF Carries
  <1>4. /\ DOMAIN p2pSessions' = P2pHosts
        /\ p2pSessions'[h] = s /\ p2pSessions'[o] = p2pSessions[o]
    BY <1>1
  <1>5. /\ DOMAIN p2pNextId' = P2pHosts
        /\ p2pNextId'[h] = n /\ p2pNextId'[o] = p2pNextId[o]
    BY <1>1
  <1> QED
    BY <1>2, <1>3, <1>4, <1>5 DEF Moves

(* MovesOk, from the state a step starts from. *)
LEMMA StepOk ==
  ASSUME NEW h, NEW o, NEW X, NEW Y, NEW A, NEW B, NEW sh, NEW so, NEW nh, NEW no,
         NEW wout, NEW win, At(h, o, X, Y, A, B, sh, so, nh, no, wout, win),
         NEW s, \A i \in DOMAIN s : IsSession(s[i]), NEW n,
         NEW v \in Seq(Frames), NEW w \in Seq(Frames), Moves(h, o, s, n, v, w),
         NEW Z, NEW C, Joint(h, o, Z, Y, A, C, s, so, n, no, v, w)
  PROVE  P2pTypes' /\ Linked(h, o)'
  <1>1. /\ P2pHosts = {h, o} /\ P2pTypes
        /\ so = p2pSessions[o] /\ no = p2pNextId[o]
    BY AtFacts, Zenon
  <1>2. Joint(h, o, Z, Y, A, C, s, p2pSessions[o], n, p2pNextId[o], v, w)
    BY <1>1
  <1> QED
    BY <1>1, <1>2, MovesOk, Zenon

(* SendDatagram keeps the invariant. *)
LEMMA StepSendDatagram ==
  ASSUME NEW h, NEW o, NEW X, NEW Y, NEW A, NEW B, NEW sh, NEW so, NEW nh, NEW no,
         NEW wout, NEW win, At(h, o, X, Y, A, B, sh, so, nh, no, wout, win),
         NEW to, SendDatagram(h, to)
  PROVE  P2pTypes' /\ Linked(h, o)'
  <1>0. PICK f, v : f = Frame(h, "datagram", 0, 0) /\ v = Append(wout, f)
    OBVIOUS
  <1>a. /\ p2pAddress[h] = 0 /\ win \in Seq(Frames) /\ nh \in Nat \ {0}
        /\ \A i \in DOMAIN sh : IsSession(sh[i])
        /\ Joint(h, o, X, Y, A, B, sh, so, nh, no, wout, win)
    BY AtFacts, Zenon
  <1>1. f \in Frames /\ f.kind = "datagram" /\ f.src = 0
    BY <1>0, <1>a, FrameIs DEF Kinds
  <1>2. /\ p2pAddress' = p2pAddress /\ p2pSessions' = p2pSessions
        /\ p2pNextId' = p2pNextId /\ p2pWire' = Sent(p2pWire, h, f)
    BY <1>0 DEF SendDatagram
  <1>3. v \in Seq(Frames) /\ Grown(wout, v, f) /\ Moves(h, o, sh, nh, v, win)
    BY <1>0, <1>1, <1>2, SendMoves
  <1>5. f.src \in 0 .. nh - 1
    BY <1>1, <1>a
  <1>6. Joint(h, o, X, Y, A, B, sh, so, nh, no, v, win)
    BY <1>1, <1>3, <1>5, <1>a, JointSends
  <1> QED
    BY <1>3, <1>6, <1>a, StepOk

(* OpenStream keeps the invariant. *)
LEMMA StepOpenStream ==
  ASSUME NEW h, NEW o, NEW X, NEW Y, NEW A, NEW B, NEW sh, NEW so, NEW nh, NEW no,
         NEW wout, NEW win, At(h, o, X, Y, A, B, sh, so, nh, no, wout, win),
         NEW to, OpenStream(h, to)
  PROVE  P2pTypes' /\ Linked(h, o)'
  <1>0. PICK f, x, v, s, Z, n :
             /\ f = Frame(h, "syn", nh, 0) /\ n = nh + 1
             /\ x = [host |-> to, address |-> Resolved(h)[to], peer |-> 0, connected |-> FALSE]
             /\ v = Append(wout, f) /\ s = Entered(sh, nh, x) /\ Z = X \cup {nh}
    OBVIOUS
  <1>a. /\ p2pAddress[h] = 0 /\ win \in Seq(Frames) /\ nh \in Nat \ {0}
        /\ nh = p2pNextId[h] /\ sh = p2pSessions[h] /\ DOMAIN sh \subseteq 1 .. nh - 1
        /\ \A i \in DOMAIN sh : IsSession(sh[i])
        /\ Joint(h, o, X, Y, A, B, sh, so, nh, no, wout, win)
    BY AtFacts
  <1>1. f \in Frames /\ f.kind = "syn" /\ f.src = nh
    BY <1>0, <1>a, FrameIs DEF Kinds
  <1>b. FreeId(h) = nh
    BY <1>a, FreeIdIs
  <1>2. IsSession(x) /\ x.peer = 0
    <2>1. PICK adr : x = [host |-> to, address |-> adr, peer |-> 0, connected |-> FALSE]
      BY <1>0
    <2> QED
      BY <2>1 DEF IsSession
  <1>3. /\ p2pAddress' = p2pAddress /\ p2pSessions' = [p2pSessions EXCEPT ![h] = s]
        /\ p2pNextId' = [p2pNextId EXCEPT ![h] = n] /\ p2pWire' = Sent(p2pWire, h, f)
    BY <1>0, <1>a, <1>b DEF OpenStream, Stored
  <1>4. Extends(s, sh, nh, x)
    BY <1>0, EnteredIs
  <1>5. \A i \in DOMAIN s : IsSession(s[i])
    BY <1>2, <1>4, <1>a DEF Extends
  <1>6. v \in Seq(Frames) /\ Grown(wout, v, f) /\ Moves(h, o, s, n, v, win)
    BY <1>0, <1>1, <1>3, SendMoves
  <1>7. Joint(h, o, Z, Y, A, B, s, so, n, no, v, win)
    <2>1. /\ Joint(h, o, X, Y, A, B, sh, so, nh, no, wout, win)
          /\ Extends(s, sh, nh, x) /\ x.peer = 0
          /\ Grown(wout, v, f) /\ f.kind = "syn" /\ f.src = nh
          /\ Z = X \cup {nh} /\ n = nh + 1
      BY <1>0, <1>1, <1>2, <1>4, <1>6, <1>a
    <2> QED
      BY <2>1, JointOpen
  <1> QED
    BY <1>5, <1>6, <1>7, <1>a, StepOk

(* SendStream keeps the invariant. *)
LEMMA StepSendStream ==
  ASSUME NEW h, NEW o, NEW X, NEW Y, NEW A, NEW B, NEW sh, NEW so, NEW nh, NEW no,
         NEW wout, NEW win, At(h, o, X, Y, A, B, sh, so, nh, no, wout, win),
         NEW id \in DOMAIN p2pSessions[h], NEW kind \in {"data", "fin", "rst"},
         SendStream(h, id, kind)
  PROVE  P2pTypes' /\ Linked(h, o)'
  <1>0. PICK f, v, r :
             /\ f = Frame(h, kind, id, sh[id].peer) /\ v = Append(wout, f)
             /\ r = Restrict(sh, DOMAIN sh \ {id})
    OBVIOUS
  <1>a. /\ p2pAddress[h] = 0 /\ win \in Seq(Frames) /\ nh \in Nat \ {0}
        /\ sh = p2pSessions[h] /\ DOMAIN sh \subseteq 1 .. nh - 1
        /\ \A i \in DOMAIN sh : IsSession(sh[i])
        /\ Joint(h, o, X, Y, A, B, sh, so, nh, no, wout, win)
    BY AtFacts
  <1>b. id \in DOMAIN sh /\ id \in Nat /\ sh[id].peer \in Nat /\ kind \in Kinds
    <2>1. id \in DOMAIN sh /\ kind \in Kinds
      BY <1>a DEF Kinds
    <2>2. IsSession(sh[id]) /\ id \in 1 .. nh - 1
      BY <1>a, <2>1
    <2> QED
      BY <1>a, <2>1, <2>2 DEF IsSession
  <1>1. f \in Frames /\ f.kind = kind /\ f.src = id /\ f.dst = sh[id].peer
    BY <1>0, <1>a, <1>b, FrameIs
  <1>2. /\ p2pAddress' = p2pAddress /\ p2pNextId' = p2pNextId
        /\ p2pWire' = Sent(p2pWire, h, f)
    BY <1>0, <1>a DEF SendStream
  <1>3. CASE kind = "data"
    <2>1. p2pSessions' = p2pSessions
      BY <1>3 DEF SendStream
    <2>2. v \in Seq(Frames) /\ Grown(wout, v, f) /\ Moves(h, o, sh, nh, v, win)
      BY <1>0, <1>1, <1>2, <2>1, SendMoves
    <2>3. f.src \in 0 .. nh - 1 /\ f.kind \in {"datagram", "data"}
      BY <1>1, <1>3, <1>a, <1>b
    <2>4. Joint(h, o, X, Y, A, B, sh, so, nh, no, v, win)
      BY <2>2, <2>3, <1>a, JointSends
    <2> QED
      BY <2>2, <2>4, <1>a, StepOk
  <1>4. CASE kind \in {"fin", "rst"}
    <2>1. p2pSessions' = [p2pSessions EXCEPT ![h] = r]
      BY <1>0, <1>4, <1>a DEF SendStream, Erased
    <2>2. v \in Seq(Frames) /\ Grown(wout, v, f) /\ Moves(h, o, r, nh, v, win)
      BY <1>0, <1>1, <1>2, <2>1, SendMoves
    <2>3. IsEnd(f)
      BY <1>1, <1>4 DEF IsEnd
    <2>4. Without(r, sh, id)
      BY <1>0, WithoutIs
    <2>5. Joint(h, o, X, Y, A, B, r, so, nh, no, v, win)
      BY <2>2, <2>3, <2>4, <1>1, <1>a, <1>b, JointEnds, Zenon
    <2>6. \A i \in DOMAIN r : IsSession(r[i])
      BY <2>4, <1>a DEF Without
    <2> QED
      BY <2>2, <2>5, <2>6, <1>a, StepOk
  <1> QED
    BY <1>3, <1>4

(* h can only take a frame of o. *)
LEMMA TakenIs ==
  ASSUME NEW h, NEW o, NEW X, NEW Y, NEW A, NEW B, NEW sh, NEW so, NEW nh, NEW no,
         NEW wout, NEW win, At(h, o, X, Y, A, B, sh, so, nh, no, wout, win),
         NEW from \in P2pHosts, Taken(h, from)
  PROVE  /\ from = o /\ Tail(win) \in Seq(Frames) /\ Shrunk(win, Tail(win))
         /\ Head(p2pWire[<<from, h>>]) = win[1] /\ win[1] \in Frames
         /\ Len(win) \in Nat \ {0} /\ p2pAddress' = p2pAddress
  <1>1. /\ P2pHosts = {h, o} /\ win = p2pWire[<<o, h>>] /\ win \in Seq(Frames)
        /\ p2pWire[<<h, h>>] = << >>
    BY AtFacts, Zenon
  <1>2. from = o /\ win # << >> /\ p2pAddress' = p2pAddress
    BY <1>1 DEF Taken
  <1>3. /\ Tail(win) \in Seq(Frames) /\ Shrunk(win, Tail(win)) /\ Head(win) = win[1]
        /\ Head(win) \in Frames /\ Len(win) \in Nat \ {0}
    BY <1>1, <1>2, TailShrinks
  <1> QED
    BY <1>1, <1>2, <1>3

(* h takes a frame and answers nothing. *)
LEMMA RestMoves ==
  ASSUME NEW h, NEW o, NEW X, NEW Y, NEW A, NEW B, NEW sh, NEW so, NEW nh, NEW no,
         NEW wout, NEW win, At(h, o, X, Y, A, B, sh, so, nh, no, wout, win),
         NEW s, NEW n, NEW w, w = Tail(win), p2pAddress' = p2pAddress,
         \/ p2pSessions' = [p2pSessions EXCEPT ![h] = s]
         \/ p2pSessions' = p2pSessions /\ s = sh,
         p2pNextId' = p2pNextId, p2pWire' = Rest(h, o)
  PROVE  Moves(h, o, s, nh, wout, w)
  <1>1. /\ h \in P2pHosts /\ o \in P2pHosts /\ h # o
        /\ sh = p2pSessions[h] /\ so = p2pSessions[o]
        /\ nh = p2pNextId[h] /\ no = p2pNextId[o]
        /\ wout = p2pWire[<<h, o>>] /\ win = p2pWire[<<o, h>>]
        /\ p2pWire[<<h, h>>] = << >> /\ p2pWire[<<o, o>>] = << >>
        /\ DOMAIN p2pWire = P2pHosts \X P2pHosts
        /\ DOMAIN p2pSessions = P2pHosts /\ DOMAIN p2pNextId = P2pHosts
    BY AtFacts, Zenon
  <1>2. /\ DOMAIN p2pWire' = P2pHosts \X P2pHosts
        /\ p2pWire'[<<h, o>>] = wout /\ p2pWire'[<<o, h>>] = w
        /\ p2pWire'[<<h, h>>] = << >> /\ p2pWire'[<<o, o>>] = << >>
    <2>1. Carries(p2pWire', p2pWire, h, o, wout, w)
      BY <1>1, RestIs
    <2> QED
      BY <1>1, <2>1 DEF Carries
  <1>3. /\ DOMAIN p2pSessions' = P2pHosts
        /\ p2pSessions'[h] = s /\ p2pSessions'[o] = p2pSessions[o]
    BY <1>1
  <1> QED
    BY <1>1, <1>2, <1>3 DEF Moves

(* DispatchOther keeps the invariant. *)
LEMMA StepDispatchOther ==
  ASSUME NEW h, NEW o, NEW X, NEW Y, NEW A, NEW B, NEW sh, NEW so, NEW nh, NEW no,
         NEW wout, NEW win, At(h, o, X, Y, A, B, sh, so, nh, no, wout, win),
         NEW from \in P2pHosts, DispatchOther(h, from)
  PROVE  P2pTypes' /\ Linked(h, o)'
  <1>0. PICK w : w = Tail(win)
    OBVIOUS
  <1>a. /\ wout \in Seq(Frames) /\ sh = p2pSessions[h]
        /\ nh \in Nat \ {0} /\ DOMAIN sh \subseteq 1 .. nh - 1
        /\ \A i \in DOMAIN sh : IsSession(sh[i])
        /\ Joint(h, o, X, Y, A, B, sh, so, nh, no, wout, win)
    BY AtFacts
  <1>1. /\ from = o /\ w \in Seq(Frames) /\ Shrunk(win, w)
        /\ Head(p2pWire[<<from, h>>]) = win[1] /\ win[1] \in Frames
        /\ p2pAddress' = p2pAddress
    BY <1>0, TakenIs DEF DispatchOther
  <1>2. /\ p2pSessions' = p2pSessions /\ p2pNextId' = p2pNextId /\ p2pWire' = Rest(h, o)
        /\ win[1].kind # "datagram" =>
              win[1].kind # "syn" /\ FindSession(h, o, win[1]) = {}
    BY <1>1 DEF DispatchOther
  <1>3. Moves(h, o, sh, nh, wout, w)
    BY <1>0, <1>1, <1>2, RestMoves
  <1>4. win[1].kind # "syn"
    BY <1>2
  <1>5. ASSUME win[1].kind = "synack" \/ IsEnd(win[1])
        PROVE  /\ win[1].dst \notin DOMAIN sh
               /\ win[1].dst = 0 => \A j \in DOMAIN sh :
                    ~(sh[j].peer = win[1].src /\ sh[j].host = o /\ sh[j].address = 0)
    <2>1. FindSession(h, o, win[1]) = {}
      BY <1>2, <1>5 DEF IsEnd
    <2>2. CASE win[1].dst # 0
      BY <1>a, <2>1, <2>2 DEF FindSession
    <2>3. CASE win[1].dst = 0
      <3>1. BySource(h, o, win[1]) = {} /\ win[1].address = 0
        BY <1>1, <2>1, <2>3 DEF FindSession, Frames
      <3>2. \A j \in DOMAIN sh :
                ~(sh[j].peer = win[1].src /\ sh[j].host = o /\ sh[j].address = 0)
        BY <1>a, <3>1 DEF BySource
      <3>3. 0 \notin DOMAIN sh
        BY <1>a
      <3> QED
        BY <2>3, <3>2, <3>3
    <2> QED
      BY <2>2, <2>3
  <1>6. Joint(h, o, X, Y, A, B, sh, so, nh, no, wout, w)
    BY <1>1, <1>4, <1>5, <1>a, JointDrops
  <1> QED
    BY <1>1, <1>3, <1>6, <1>a, StepOk

(* h takes a frame and answers with f. *)
LEMMA ReplyMoves ==
  ASSUME NEW h, NEW o, NEW X, NEW Y, NEW A, NEW B, NEW sh, NEW so, NEW nh, NEW no,
         NEW wout, NEW win, At(h, o, X, Y, A, B, sh, so, nh, no, wout, win),
         NEW f \in Frames, NEW s, NEW n, NEW v, v = Append(wout, f), NEW w, w = Tail(win),
         p2pAddress' = p2pAddress, p2pSessions' = [p2pSessions EXCEPT ![h] = s],
         p2pNextId' = [p2pNextId EXCEPT ![h] = n], p2pWire' = Sent(Rest(h, o), h, f)
  PROVE  /\ v \in Seq(Frames) /\ Grown(wout, v, f)
         /\ Moves(h, o, s, n, v, w)
  <1>1. /\ h \in P2pHosts /\ o \in P2pHosts /\ h # o
        /\ sh = p2pSessions[h] /\ so = p2pSessions[o]
        /\ nh = p2pNextId[h] /\ no = p2pNextId[o]
        /\ wout = p2pWire[<<h, o>>] /\ win = p2pWire[<<o, h>>]
        /\ wout \in Seq(Frames)
        /\ p2pWire[<<h, h>>] = << >> /\ p2pWire[<<o, o>>] = << >>
        /\ DOMAIN p2pWire = P2pHosts \X P2pHosts
        /\ DOMAIN p2pSessions = P2pHosts /\ DOMAIN p2pNextId = P2pHosts
    BY AtFacts, Zenon
  <1>2. v \in Seq(Frames) /\ Grown(wout, v, f)
    BY <1>1, AppendGrows
  <1>3. /\ DOMAIN p2pWire' = P2pHosts \X P2pHosts
        /\ p2pWire'[<<h, o>>] = v /\ p2pWire'[<<o, h>>] = w
        /\ p2pWire'[<<h, h>>] = << >> /\ p2pWire'[<<o, o>>] = << >>
    <2>0. PICK r : r = Rest(h, o)
      OBVIOUS
    <2>1. Carries(r, p2pWire, h, o, wout, w)
      BY <1>1, <2>0, RestIs
    <2>2. /\ DOMAIN r = P2pHosts \X P2pHosts /\ r[<<h, o>>] = wout /\ r[<<o, h>>] = w
          /\ r[<<h, h>>] = << >> /\ r[<<o, o>>] = << >>
      BY <1>1, <2>1 DEF Carries
    <2>3. Carries(p2pWire', r, h, o, v, w)
      BY <1>1, <2>0, <2>2, SentIs
    <2> QED
      BY <2>2, <2>3 DEF Carries
  <1>4. /\ DOMAIN p2pSessions' = P2pHosts
        /\ p2pSessions'[h] = s /\ p2pSessions'[o] = p2pSessions[o]
    BY <1>1
  <1>5. /\ DOMAIN p2pNextId' = P2pHosts
        /\ p2pNextId'[h] = n /\ p2pNextId'[o] = p2pNextId[o]
    BY <1>1
  <1> QED
    BY <1>2, <1>3, <1>4, <1>5 DEF Moves

(* DispatchSyn keeps the invariant, if the handler does not refuse. *)
LEMMA StepDispatchSyn ==
  ASSUME NEW h, NEW o, NEW X, NEW Y, NEW A, NEW B, NEW sh, NEW so, NEW nh, NEW no,
         NEW wout, NEW win, At(h, o, X, Y, A, B, sh, so, nh, no, wout, win),
         NEW from \in P2pHosts, DispatchSyn(h, from), p2pFaults = 0, p2pFaults' = 0
  PROVE  P2pTypes' /\ Linked(h, o)'
  <1>i. PICK i : i = win[1].src
    OBVIOUS
  <1>0. PICK f, x, v, w, s, C, n :
             /\ f = Frame(h, "synack", nh, i) /\ n = nh + 1
             /\ x = [host |-> o, address |-> win[1].address, peer |-> i, connected |-> TRUE]
             /\ v = Append(wout, f) /\ w = Tail(win)
             /\ s = Entered(sh, nh, x) /\ C = B \cup {<<i, nh>>}
    OBVIOUS
  <1>a. /\ p2pAddress[h] = 0 /\ wout \in Seq(Frames) /\ nh \in Nat \ {0}
        /\ nh = p2pNextId[h] /\ sh = p2pSessions[h] /\ DOMAIN sh \subseteq 1 .. nh - 1
        /\ \A k \in DOMAIN sh : IsSession(sh[k])
        /\ Joint(h, o, X, Y, A, B, sh, so, nh, no, wout, win)
    BY AtFacts
  <1>1. /\ from = o /\ w \in Seq(Frames) /\ Shrunk(win, w)
        /\ Head(p2pWire[<<from, h>>]) = win[1] /\ win[1] \in Frames
        /\ Len(win) \in Nat \ {0} /\ p2pAddress' = p2pAddress
    BY <1>0, TakenIs DEF DispatchSyn
  <1>2. win[1].kind = "syn" /\ i \in Nat /\ win[1].address = 0
    BY <1>i, <1>1 DEF DispatchSyn, Frames
  <1>b. FreeId(h) = nh
    BY <1>a, FreeIdIs
  <1>3. BySource(h, o, win[1]) = {}
    <2>1. \A k \in DOMAIN sh : sh[k].peer # win[1].src
      BY <1>1, <1>2, <1>a, JointNew
    <2> QED
      BY <1>a, <2>1 DEF BySource
  <1>4. /\ p2pSessions' = [p2pSessions EXCEPT ![h] = s]
        /\ p2pNextId' = [p2pNextId EXCEPT ![h] = n]
        /\ p2pWire' = Sent(Rest(h, o), h, f)
    <2>1. ~HandlerRefuses(h)
      BY DEF HandlerRefuses
    <2>2. /\ Stored(h, FreeId(h), [host |-> o, address |-> win[1].address,
                                   peer |-> win[1].src, connected |-> TRUE])
          /\ p2pNextId' = [p2pNextId EXCEPT ![h] = FreeId(h) + 1]
          /\ p2pWire' = Sent(Rest(h, o), h, Frame(h, "synack", FreeId(h), win[1].src))
      BY <1>1, <1>3, <2>1, Zenon DEF DispatchSyn
    <2> QED
      BY <1>i, <1>0, <1>a, <1>b, <2>2 DEF Stored
  <1>5. f \in Frames /\ f.kind = "synack" /\ f.src = nh /\ f.dst = i
    <2>1. /\ "synack" \in Kinds /\ nh \in Nat /\ i \in Nat /\ p2pAddress[h] = 0
          /\ f = Frame(h, "synack", nh, i)
      BY <1>0, <1>2, <1>a DEF Kinds
    <2> QED
      BY <2>1, FrameIs
  <1>6. IsSession(x) /\ x.host = o /\ x.address = 0 /\ x.peer = i /\ x.connected
    <2>1. x = [host |-> o, address |-> 0, peer |-> i, connected |-> TRUE]
      BY <1>0, <1>2
    <2> QED
      BY <1>2, <2>1 DEF IsSession
  <1>7. Extends(s, sh, nh, x)
    BY <1>0, EnteredIs
  <1>8. \A k \in DOMAIN s : IsSession(s[k])
    BY <1>6, <1>7, <1>a DEF Extends
  <1>9. v \in Seq(Frames) /\ Grown(wout, v, f) /\ Moves(h, o, s, n, v, w)
    BY <1>0, <1>1, <1>4, <1>5, ReplyMoves
  <1>10. Joint(h, o, X, Y, A, C, s, so, n, no, v, w)
    <2>1. i = win[1].src /\ n = nh + 1 /\ C = B \cup {<<i, nh>>}
      BY <1>i, <1>0
    <2> QED
      BY <1>1, <1>2, <1>5, <1>6, <1>7, <1>9, <1>a, <2>1, JointAccepts
  <1> QED
    BY <1>1, <1>8, <1>9, <1>10, StepOk

(* DispatchSynAck keeps the invariant. *)
LEMMA StepDispatchSynAck ==
  ASSUME NEW h, NEW o, NEW X, NEW Y, NEW A, NEW B, NEW sh, NEW so, NEW nh, NEW no,
         NEW wout, NEW win, At(h, o, X, Y, A, B, sh, so, nh, no, wout, win),
         NEW from \in P2pHosts, DispatchSynAck(h, from)
  PROVE  P2pTypes' /\ Linked(h, o)'
  <1>0. PICK i, j, x, w, s :
             /\ i = win[1].dst /\ j = win[1].src /\ w = Tail(win)
             /\ x = [sh[i] EXCEPT !.peer = j, !.connected = TRUE]
             /\ s = Entered(sh, i, x)
    OBVIOUS
  <1>a. /\ wout \in Seq(Frames) /\ sh = p2pSessions[h]
        /\ \A k \in DOMAIN sh : IsSession(sh[k])
        /\ Joint(h, o, X, Y, A, B, sh, so, nh, no, wout, win)
    BY AtFacts
  <1>1. /\ from = o /\ w \in Seq(Frames) /\ Shrunk(win, w)
        /\ Head(p2pWire[<<from, h>>]) = win[1] /\ win[1] \in Frames
        /\ p2pAddress' = p2pAddress
    BY <1>0, TakenIs DEF DispatchSynAck
  <1>2. win[1].kind = "synack" /\ i \in DOMAIN sh /\ j \in Nat
    BY <1>0, <1>1, <1>a DEF DispatchSynAck, Frames
  <1>3. /\ p2pSessions' = [p2pSessions EXCEPT ![h] = s] /\ p2pNextId' = p2pNextId
        /\ p2pWire' = Rest(h, o)
    BY <1>0, <1>1, <1>a DEF DispatchSynAck, Stored
  <1>4. IsSession(x) /\ x.peer = j /\ x.connected
    <2>1. PICK y : y = sh[i]
      OBVIOUS
    <2>2. IsSession(y) /\ j \in Nat /\ x = [y EXCEPT !.peer = j, !.connected = TRUE]
      BY <1>0, <1>2, <1>a, <2>1
    <2> QED
      BY <2>2, AnsweredIs
  <1>5. Extends(s, sh, i, x)
    BY <1>0, EnteredIs
  <1>6. \A k \in DOMAIN s : IsSession(s[k])
    BY <1>4, <1>5, <1>a DEF Extends
  <1>7. Moves(h, o, s, nh, wout, w)
    BY <1>0, <1>1, <1>3, RestMoves
  <1>8. Joint(h, o, X, Y, A, B, s, so, nh, no, wout, w)
    <2>1. i = win[1].dst /\ j = win[1].src
      BY <1>0
    <2> QED
      BY <1>1, <1>2, <1>4, <1>5, <1>a, <2>1, JointAnswered
  <1> QED
    BY <1>1, <1>6, <1>7, <1>8, <1>a, StepOk

(* DispatchStream keeps the invariant, if the handler does not refuse. *)
LEMMA StepDispatchStream ==
  ASSUME NEW h, NEW o, NEW X, NEW Y, NEW A, NEW B, NEW sh, NEW so, NEW nh, NEW no,
         NEW wout, NEW win, At(h, o, X, Y, A, B, sh, so, nh, no, wout, win),
         NEW from \in P2pHosts, DispatchStream(h, from), p2pFaults = 0, p2pFaults' = 0
  PROVE  P2pTypes' /\ Linked(h, o)'
  <1>0. PICK w : w = Tail(win)
    OBVIOUS
  <1>a. /\ wout \in Seq(Frames) /\ sh = p2pSessions[h]
        /\ \A k \in DOMAIN sh : IsSession(sh[k])
        /\ Joint(h, o, X, Y, A, B, sh, so, nh, no, wout, win)
    BY AtFacts
  <1>1. /\ from = o /\ w \in Seq(Frames) /\ Shrunk(win, w)
        /\ Head(p2pWire[<<from, h>>]) = win[1] /\ win[1] \in Frames
        /\ p2pAddress' = p2pAddress
    BY <1>0, TakenIs DEF DispatchStream
  <1>2. /\ win[1].kind \in {"data", "fin", "rst"}
        /\ p2pNextId' = p2pNextId /\ p2pWire' = Rest(h, o)
    BY <1>1 DEF DispatchStream
  <1>3. PICK id \in FindSession(h, o, win[1]) :
             IF win[1].kind = "data" THEN p2pSessions' = p2pSessions ELSE Erased(h, id)
    <2>1. ~HandlerRefuses(h)
      BY DEF HandlerRefuses
    <2> QED
      BY <1>1, <2>1 DEF DispatchStream
  <1>4. CASE win[1].kind = "data"
    <2>1. Moves(h, o, sh, nh, wout, w)
      BY <1>0, <1>1, <1>2, <1>3, <1>4, RestMoves
    <2>2. ~(win[1].kind = "synack" \/ IsEnd(win[1])) /\ win[1].kind # "syn"
      BY <1>4 DEF IsEnd
    <2>3. Joint(h, o, X, Y, A, B, sh, so, nh, no, wout, w)
      BY <1>1, <1>a, <2>2, JointDrops
    <2> QED
      BY <1>1, <1>a, <2>1, <2>3, StepOk
  <1>5. CASE IsEnd(win[1])
    <2>0. PICK r : r = Restrict(sh, DOMAIN sh \ {id})
      OBVIOUS
    <2>1. p2pSessions' = [p2pSessions EXCEPT ![h] = r]
      BY <1>3, <1>5, <1>a, <2>0 DEF IsEnd, Erased
    <2>2. Moves(h, o, r, nh, wout, w)
      BY <1>0, <1>1, <1>2, <2>1, RestMoves
    <2>3. Without(r, sh, id)
      BY <2>0, WithoutIs
    <2>4. /\ id \in DOMAIN sh
          /\ win[1].dst # 0 => id = win[1].dst
          /\ win[1].dst = 0 => sh[id].peer = win[1].src
      BY <1>a DEF FindSession, BySource
    <2>5. Joint(h, o, X, Y, A, B, r, so, nh, no, wout, w)
      BY <1>1, <1>5, <1>a, <2>3, <2>4, JointEnded
    <2>6. \A k \in DOMAIN r : IsSession(r[k])
      BY <2>3, <1>a DEF Without
    <2> QED
      BY <1>1, <1>a, <2>2, <2>5, <2>6, StepOk
  <1> QED
    BY <1>2, <1>4, <1>5 DEF IsEnd
-----------------------------------------------------------------------------
(* The theorem *)

(* The invariant names a state to start from. *)
LEMMA LinkedAt ==
  ASSUME NEW h, NEW o, P2pHosts = {h, o}, h # o, P2pTypes, Linked(h, o)
  PROVE  \E X, Y, A, B, sh, so, nh, no, wout, win :
            At(h, o, X, Y, A, B, sh, so, nh, no, wout, win)
  BY Zenon DEF Linked, At

(* Faults are only added. *)
LEMMA FaultsGrow ==
  ASSUME p2pFaults \in Nat, [P2pNext]_p2pVars
  PROVE  p2pFaults' \in Nat /\ p2pFaults <= p2pFaults'
  <1>1. p2pFaults' = p2pFaults \/ p2pFaults' = p2pFaults + 1
    <2>1. ASSUME NEW h, NEW to, SendDatagram(h, to) \/ OpenStream(h, to)
          PROVE  p2pFaults' = p2pFaults
      BY <2>1 DEF SendDatagram, OpenStream
    <2>2. ASSUME NEW h, NEW id, NEW kind, SendStream(h, id, kind)
          PROVE  p2pFaults' = p2pFaults
      BY <2>2 DEF SendStream
    <2>3. ASSUME NEW h, BindStreamPort(h) PROVE p2pFaults' = p2pFaults
      BY <2>3 DEF BindStreamPort
    <2>4. ASSUME NEW h, NEW from, \/ DispatchOther(h, from) \/ DispatchSyn(h, from)
                                  \/ DispatchSynAck(h, from) \/ DispatchStream(h, from)
          PROVE  p2pFaults' = p2pFaults \/ p2pFaults' = p2pFaults + 1
      <3>1. HandlerAccepts \/ HandlerRefuses(h)
        BY <2>4, Zenon DEF DispatchOther, DispatchSyn, DispatchSynAck, DispatchStream
      <3> QED
        BY <3>1 DEF HandlerAccepts, HandlerRefuses
    <2>5. ASSUME NEW h, ConfigureAddress(h) \/ P2pRestart(h) PROVE p2pFaults' = p2pFaults + 1
      BY <2>5 DEF ConfigureAddress, P2pRestart, P2pFault
    <2>6. UNCHANGED p2pVars => p2pFaults' = p2pFaults
      BY DEF p2pVars
    <2> QED
      BY <2>1, <2>2, <2>3, <2>4, <2>5, <2>6, Zenon DEF P2pNext
  <1> QED
    BY <1>1

(* A step of h without a fault keeps the invariant. *)
LEMMA HostStep ==
  ASSUME NEW h, NEW o, P2pHosts = {h, o}, h # o, P2pTypes, Linked(h, o),
         p2pFaults = 0, p2pFaults' = 0,
         \/ \E to \in P2pHosts : SendDatagram(h, to) \/ OpenStream(h, to)
         \/ \E id \in DOMAIN p2pSessions[h], kind \in {"data", "fin", "rst"} :
               SendStream(h, id, kind)
         \/ BindStreamPort(h)
         \/ \E from \in P2pHosts : \/ DispatchOther(h, from) \/ DispatchSyn(h, from)
                                   \/ DispatchSynAck(h, from) \/ DispatchStream(h, from)
         \/ ConfigureAddress(h) \/ P2pRestart(h)
  PROVE  P2pTypes' /\ Linked(h, o)'
  <1>1. PICK X, Y, A, B, sh, so, nh, no, wout, win :
             At(h, o, X, Y, A, B, sh, so, nh, no, wout, win)
    BY LinkedAt
  <1>2. ASSUME NEW to \in P2pHosts, SendDatagram(h, to) PROVE P2pTypes' /\ Linked(h, o)'
    BY <1>1, <1>2, StepSendDatagram
  <1>3. ASSUME NEW to \in P2pHosts, OpenStream(h, to) PROVE P2pTypes' /\ Linked(h, o)'
    BY <1>1, <1>3, StepOpenStream
  <1>4. ASSUME NEW id \in DOMAIN p2pSessions[h], NEW kind \in {"data", "fin", "rst"},
               SendStream(h, id, kind)
        PROVE  P2pTypes' /\ Linked(h, o)'
    BY <1>1, <1>4, StepSendStream
  <1>5. CASE BindStreamPort(h)
    BY <1>5 DEF BindStreamPort, P2pTypes, Linked
  <1>6. ASSUME NEW from \in P2pHosts, DispatchOther(h, from) PROVE P2pTypes' /\ Linked(h, o)'
    BY <1>1, <1>6, StepDispatchOther
  <1>7. ASSUME NEW from \in P2pHosts, DispatchSyn(h, from) PROVE P2pTypes' /\ Linked(h, o)'
    BY <1>1, <1>7, StepDispatchSyn
  <1>8. ASSUME NEW from \in P2pHosts, DispatchSynAck(h, from) PROVE P2pTypes' /\ Linked(h, o)'
    BY <1>1, <1>8, StepDispatchSynAck
  <1>9. ASSUME NEW from \in P2pHosts, DispatchStream(h, from) PROVE P2pTypes' /\ Linked(h, o)'
    BY <1>1, <1>9, StepDispatchStream
  <1>10. ~ConfigureAddress(h) /\ ~P2pRestart(h)
    BY DEF ConfigureAddress, P2pRestart, P2pFault
  <1> QED
    BY <1>2, <1>3, <1>4, <1>5, <1>6, <1>7, <1>8, <1>9, <1>10

(* StreamInv is inductive. *)
LEMMA StreamStep ==
  ASSUME NEW a, NEW b, a # b, P2pHosts = {a, b}, StreamInv(a, b), [P2pNext]_p2pVars
  PROVE  StreamInv(a, b)'
  <1>0. p2pFaults' \in Nat /\ p2pFaults \in Nat /\ (p2pFaults' = 0 => p2pFaults = 0)
    BY FaultsGrow DEF StreamInv
  <1> SUFFICES ASSUME p2pFaults' = 0 PROVE P2pTypes' /\ Linked(a, b)'
    BY <1>0 DEF StreamInv
  <1>1. p2pFaults = 0 /\ P2pTypes /\ Linked(a, b) /\ Linked(b, a)
    BY <1>0, LinkedSym DEF StreamInv
  <1>2. CASE UNCHANGED p2pVars
    BY <1>1, <1>2 DEF p2pVars, P2pTypes, Linked
  <1>3. CASE P2pNext
    <2>1. PICK h \in P2pHosts :
             \/ \E to \in P2pHosts : SendDatagram(h, to) \/ OpenStream(h, to)
             \/ \E id \in DOMAIN p2pSessions[h], kind \in {"data", "fin", "rst"} :
                   SendStream(h, id, kind)
             \/ BindStreamPort(h)
             \/ \E from \in P2pHosts : \/ DispatchOther(h, from) \/ DispatchSyn(h, from)
                                       \/ DispatchSynAck(h, from) \/ DispatchStream(h, from)
             \/ ConfigureAddress(h) \/ P2pRestart(h)
      BY <1>3, Zenon DEF P2pNext
    <2>2. CASE h = a
      BY <1>1, <2>1, <2>2, HostStep, Zenon
    <2>3. CASE h = b
      <3>1. P2pHosts = {b, a} /\ b # a
        OBVIOUS
      <3>2. P2pTypes' /\ Linked(b, a)'
        BY <1>1, <2>1, <2>3, <3>1, HostStep, Zenon
      <3> QED
        BY <3>2, LinkedSym
    <2> QED
      BY <2>2, <2>3
  <1> QED
    BY <1>2, <1>3

(* With no sessions and no frames both halves hold. *)
LEMMA JointInit ==
  ASSUME NEW h, NEW o
  PROVE  Joint(h, o, {}, {}, {}, {}, << >>, << >>, 1, 1, << >>, << >>)
  <1>1. Len(<< >>) = 0 /\ DOMAIN << >> = {}
    OBVIOUS
  <1>2. \A g : Half(g, {}, {}, {}, << >>, << >>, << >>, << >>)
    BY <1>1 DEF Half, Matching, OpenersOk, AcceptorsOk, SynsOk, AcksOk, OpenerEndsOk,
                AcceptorEndsOk
  <1>3. Fresh(1, {}, {}, << >>, << >>)
    BY <1>1 DEF Fresh
  <1> QED
    BY <1>2, <1>3 DEF Joint

(* On quiet links every session of h has its other end at o. *)
LEMMA QuietAgrees ==
  ASSUME NEW h, NEW o, NEW X, NEW Y, NEW A, NEW B, NEW sh, NEW so, NEW nh, NEW no,
         NEW wout, NEW win, Joint(h, o, X, Y, A, B, sh, so, nh, no, wout, win),
         wout = << >>, win = << >>, NEW id \in DOMAIN sh
  PROVE  /\ sh[id].connected /\ sh[id].peer \in DOMAIN so
         /\ so[sh[id].peer].peer = id
  <1>0. \A w : w = << >> =>
             /\ \A i : ~SynOn(w, i)
             /\ \A i, j : ~AckOn(w, j, i)
             /\ \A x, y : ~EndFrom(w, 0, x, y)
    BY DEF SynOn, AckOn, EndFrom
  <1>1. CASE id \in X
    <2>1. /\ sh[id].connected /\ <<id, sh[id].peer>> \in A
          /\ sh[id].peer \in DOMAIN so
      BY <1>0, <1>1 DEF Joint, Half, OpenersOk
    <2>2. sh[id].peer \notin Y
      BY <2>1 DEF Joint, Half, Matching
    <2>3. <<so[sh[id].peer].peer, sh[id].peer>> \in A
      BY <2>1, <2>2 DEF Joint, Half, AcceptorsOk
    <2> QED
      BY <2>1, <2>3 DEF Joint, Half, Matching
  <1>2. CASE id \notin X
    BY <1>0, <1>2 DEF Joint, Half, AcceptorsOk
  <1> QED
    BY <1>1, <1>2

(***************************************************************************)
(* Between two hosts, however many calls they make and however their       *)
(* opens, answers, data, closes and resets cross on the links, once every  *)
(* frame has arrived each session is connected to one of the other host    *)
(* that is connected to it (dispatch_p2p_stream), unless a handler         *)
(* refused, a host restarted or an address changed.                        *)
(***************************************************************************)
THEOREM StreamTheorem ==
  ASSUME NEW a, NEW b, a # b, P2pHosts = {a, b}
  PROVE  P2pSpec => []SessionsAgree
  <1>1. P2pInit => StreamInv(a, b)
    <2> SUFFICES ASSUME P2pInit PROVE StreamInv(a, b)
      OBVIOUS
    <2>1. /\ p2pSessions[a] = << >> /\ p2pSessions[b] = << >>
          /\ p2pNextId[a] = 1 /\ p2pNextId[b] = 1
          /\ p2pWire[<<a, b>>] = << >> /\ p2pWire[<<b, a>>] = << >>
      BY DEF P2pInit
    <2>2. Linked(a, b)
      BY <2>1, JointInit DEF Linked
    <2>3. P2pTypes
      BY DEF P2pInit, P2pTypes
    <2> QED
      BY <2>2, <2>3 DEF StreamInv, P2pInit
  <1>2. StreamInv(a, b) /\ [P2pNext]_p2pVars => StreamInv(a, b)'
    BY StreamStep
  <1>3. StreamInv(a, b) => SessionsAgree
    <2> SUFFICES ASSUME StreamInv(a, b), p2pFaults = 0,
                        \A l \in DOMAIN p2pWire : p2pWire[l] = << >>
                 PROVE  \A h \in P2pHosts : \A id \in DOMAIN p2pSessions[h] :
                           \E o \in P2pHosts \ {h} :
                              LET other == p2pSessions[h][id].peer
                              IN  /\ p2pSessions[h][id].connected
                                  /\ other \in DOMAIN p2pSessions[o]
                                  /\ p2pSessions[o][other].peer = id
      BY DEF SessionsAgree
    <2>1. P2pTypes /\ Linked(a, b) /\ Linked(b, a)
      BY LinkedSym DEF StreamInv
    <2>2. p2pWire[<<a, b>>] = << >> /\ p2pWire[<<b, a>>] = << >>
      BY <2>1 DEF P2pTypes
    <2>3. ASSUME NEW h, NEW o, Linked(h, o),
                 p2pWire[<<h, o>>] = << >>, p2pWire[<<o, h>>] = << >>,
                 NEW id \in DOMAIN p2pSessions[h]
          PROVE  /\ p2pSessions[h][id].connected
                 /\ p2pSessions[h][id].peer \in DOMAIN p2pSessions[o]
                 /\ p2pSessions[o][p2pSessions[h][id].peer].peer = id
      BY <2>3, QuietAgrees DEF Linked
    <2> QED
      BY <2>1, <2>2, <2>3
  <1> QED
    BY <1>1, <1>2, <1>3, PTL DEF P2pSpec
=============================================================================
