---------------------------- MODULE ReliableLink ----------------------------
(***************************************************************************)
(* The hop-by-hop reliable layer of src/router_core.cpp for one key        *)
(* (side, type): the sending router's ReliableTxState, the receiving       *)
(* router's ReliableRxState, the frames on the wire between them and the   *)
(* control packets (ACK, PARTIAL_ACK, PACKET_REQUEST) on the way back.     *)
(* Every handler is a template over SedsRouter and SedsRelay, so either    *)
(* end may be a router or a relay.                                         *)
(*                                                                         *)
(* Packet contents are abstracted to the number of the send call that      *)
(* carried them: pkt = k is the k-th packet the sender numbered.  The      *)
(* pending list sent_order is the set `sent' ordered by pkt.  Clocks are   *)
(* abstracted: any frame that may be due is due or not, as it pleases.     *)
(***************************************************************************)
EXTENDS Integers, Sequences, FiniteSets

CONSTANTS
    SeqMax,        \* largest sequence number; 2^32 - 1 in the code
    MaxPending,    \* runtime_reliable_max_pending()
    MaxRetries,    \* runtime_reliable_max_retries()
    Ordered,       \* ReliableMode::Ordered, else ReliableMode::Unordered
    DriverFails,   \* may the side's serialized_tx callback return an error?
    Reentrant,     \* may that callback re-enter the router it serves?
    MaxSends,      \* bound: number of send calls
    MaxReleases    \* bound: packets handed up by an unordered stream

ASSUME SeqMaxAssumption     == SeqMax \in Nat \ {0}
ASSUME MaxPendingAssumption == MaxPending \in Nat \ {0}
ASSUME MaxRetriesAssumption == MaxRetries \in Nat
ASSUME FlagsAssumption      == /\ Ordered \in BOOLEAN
                               /\ DriverFails \in BOOLEAN
                               /\ Reentrant \in BOOLEAN
ASSUME BoundsAssumption     == MaxSends \in Nat /\ MaxReleases \in Nat

VARIABLES
    next_seq,      \* tx.next_seq
    sent,          \* tx.sent / tx.sent_order: frames waiting for an ACK
    retries,       \* Sent::retries, saturated at MaxRetries
    partial_acked, \* the frames of sent whose Sent::partial_acked is set
    sending,       \* the frame whose serialized_tx call has not returned yet
    expected_seq,  \* rx.expected_seq
    buffered,      \* rx.buffered
    released,      \* ghost: packets that passed process_reliable_ingress
    wire,          \* frames between the two drivers
    control,       \* control packets queued at the receiver or on the wire
    attempts,      \* ghost: number of send calls that took a sequence number
    failed,        \* ghost: packets whose first transmission was refused
    abandoned      \* ghost: packets dropped after MaxRetries

txVars == <<next_seq, sent, retries, partial_acked, sending>>
rxVars == <<expected_seq, buffered, released>>
vars   == <<next_seq, sent, retries, partial_acked, sending, expected_seq,
            buffered, released, wire, control, attempts, failed, abandoned>>

Seqs   == 1 .. SeqMax
Pkts   == 1 .. MaxSends
Frames == [seq : Seqs, pkt : Pkts]
Kinds  == {"ack", "partial", "request"}
Ctls   == [kind : Kinds, seq : 0 .. SeqMax]

Ack(s)     == [kind |-> "ack", seq |-> s]
Partial(s) == [kind |-> "partial", seq |-> s]
Request(s) == [kind |-> "request", seq |-> s]

(***************************************************************************)
(* The k-th sequence number after s: incremented as a uint32_t, 0 skipped. *)
(***************************************************************************)
SeqAfter(s, k) == ((s - 1 + k) % SeqMax) + 1

Init ==
    /\ next_seq = 1
    /\ sent = {}
    /\ retries = [f \in {} |-> 0]
    /\ partial_acked = {}
    /\ sending = {}
    /\ expected_seq = 1
    /\ buffered = {}
    /\ released = << >>
    /\ wire = {}
    /\ control = {}
    /\ attempts = 0
    /\ failed = {}
    /\ abandoned = {}

-----------------------------------------------------------------------------
(* The sender *)

(***************************************************************************)
(* Sender entry points run under the router's recursive mutex: while a     *)
(* driver callback is running, only that callback can reach them.          *)
(***************************************************************************)
SenderFree == sending = {} \/ Reentrant

(***************************************************************************)
(* call_serialized_tx on a set of frames: which of them reach the wire.    *)
(* While side_tx_active holds every further call answers SEDS_IO.          *)
(***************************************************************************)
Transmitted(F) == IF sending # {} THEN {{}}
                  ELSE IF DriverFails THEN SUBSET F ELSE {F}

(* Mutant: the limit is tested with > in place of >=. *)
MayNumberOneMore == attempts < MaxSends /\ Cardinality(sent) <= MaxPending

(* The packet passes the limit tx.sent.size() >= max_pending. *)
MayNumber == attempts < MaxSends /\ Cardinality(sent) < MaxPending

TakeSeq == next_seq' = SeqAfter(next_seq, 1) /\ attempts' = attempts + 1

(***************************************************************************)
(* send_serialized_with_reliable up to the driver call: the sequence       *)
(* number is taken and the driver puts the frame on the wire.              *)
(***************************************************************************)
SendStart ==
    /\ MayNumber
    /\ sending = {}
    /\ TakeSeq
    /\ LET f == [seq |-> next_seq, pkt |-> attempts + 1]
       IN  wire' = wire \cup {f} /\ sending' = {f}
    /\ UNCHANGED <<sent, retries, partial_acked, control, failed, abandoned>>
    /\ UNCHANGED rxVars

(***************************************************************************)
(* The driver call returned SEDS_OK: the frame becomes pending.            *)
(***************************************************************************)
SendReturn ==
    /\ \E f \in sending :
         IF \E g \in sent : g.seq = f.seq
         THEN UNCHANGED <<sent, retries>>
         ELSE /\ sent' = sent \cup {f}
              /\ retries' = [g \in sent \cup {f} |->
                               IF g \in sent THEN retries[g] ELSE 0]
    /\ sending' = {}
    /\ UNCHANGED <<next_seq, partial_acked, wire, control, attempts, failed,
                   abandoned>>
    /\ UNCHANGED rxVars

(***************************************************************************)
(* The driver refused the frame, or another transmission was active: the   *)
(* sequence number is gone and nothing is recorded.  The caller drops the  *)
(* packet or sends it again under a new number.                            *)
(***************************************************************************)
SendRefused ==
    /\ MayNumber
    /\ SenderFree
    /\ DriverFails \/ sending # {}
    /\ TakeSeq
    /\ failed' = failed \cup {attempts + 1}
    /\ UNCHANGED <<sent, retries, partial_acked, sending, wire, control,
                   abandoned>>
    /\ UNCHANGED rxVars

(***************************************************************************)
(* tx.sent.erase and std::erase(tx.sent_order) of the frames of F.         *)
(***************************************************************************)
Erase(F) ==
    /\ sent' = sent \ F
    /\ partial_acked' = partial_acked \ F
    /\ retries' = [f \in sent \ F |-> retries[f]]

(* Mutant: an ACK covers one frame too many. *)
AckedByTooFar(a) ==
    {f \in sent : \A g \in sent : g.pkt <= f.pkt => g.seq <= a + 1}

(* Mutant: the ACK of an Unordered stream is taken as cumulative. *)
AckedByCumulative(a) == {f \in sent : f.seq <= a}

(***************************************************************************)
(* The frames an ACK removes: in Unordered mode the one it names, else the *)
(* longest front part of sent_order with sequence numbers <= a.            *)
(***************************************************************************)
AckedBy(a) ==
    IF Ordered
    THEN {f \in sent : \A g \in sent : g.pkt <= f.pkt => g.seq <= a}
    ELSE {f \in sent : f.seq = a}

(***************************************************************************)
(* A control packet of kind k for sequence number s arrives; the link may  *)
(* keep a copy of it.                                                      *)
(***************************************************************************)
TakeControl(k, s) ==
    /\ SenderFree
    /\ [kind |-> k, seq |-> s] \in control
    /\ \/ control' = control \ {[kind |-> k, seq |-> s]}
       \/ control' = control

(* handle_ack_impl *)
HandleAck(s) ==
    /\ TakeControl("ack", s)
    /\ Erase(AckedBy(s))
    /\ UNCHANGED <<next_seq, sending, wire, attempts, failed, abandoned>>
    /\ UNCHANGED rxVars

(* Mutant: a PARTIAL_ACK is taken as cumulative. *)
HandlePartialAckUpTo(s) ==
    /\ TakeControl("partial", s)
    /\ partial_acked' = partial_acked \cup {f \in sent : f.seq <= s}
    /\ UNCHANGED <<next_seq, sent, retries, sending, wire, attempts, failed,
                   abandoned>>
    /\ UNCHANGED rxVars

(* Mutant: the entry is looked up with operator[], which inserts one. *)
HandlePartialAckInserts(s) ==
    /\ TakeControl("partial", s)
    /\ partial_acked' = partial_acked \cup {[seq |-> s, pkt |-> s]}
    /\ UNCHANGED <<next_seq, sent, retries, sending, wire, attempts, failed,
                   abandoned>>
    /\ UNCHANGED rxVars

(* handle_partial_ack_impl *)
HandlePartialAck(s) ==
    /\ TakeControl("partial", s)
    /\ partial_acked' = partial_acked \cup {f \in sent : f.seq = s}
    /\ UNCHANGED <<next_seq, sent, retries, sending, wire, attempts, failed,
                   abandoned>>
    /\ UNCHANGED rxVars

Bump(n) == IF n < MaxRetries THEN n + 1 ELSE n

(* handle_packet_request_impl: the result of the driver call is ignored *)
HandlePacketRequest(s) ==
    /\ TakeControl("request", s)
    /\ LET asked == {f \in sent : f.seq = s}
       IN  /\ \E T \in Transmitted(asked) : wire' = wire \cup T
           /\ retries' = [f \in sent |-> IF f \in asked THEN Bump(retries[f])
                                                        ELSE retries[f]]
           /\ partial_acked' = partial_acked \ asked
    /\ UNCHANGED <<next_seq, sent, sending, attempts, failed, abandoned>>
    /\ UNCHANGED rxVars

(***************************************************************************)
(* do_reliable_timeouts, where `due' are the frames whose last_send_ms is  *)
(* at least the retransmission interval ago.  Frames out of retries are    *)
(* given up, the others are sent again; a refused one counts no retry.     *)
(***************************************************************************)
Timeouts(due) ==
    /\ SenderFree
    /\ due \subseteq sent \ partial_acked
    /\ due # {}
    /\ LET spent == {f \in due : retries[f] >= MaxRetries}
       IN  \E T \in Transmitted(due \ spent) :
             /\ wire' = wire \cup T
             /\ sent' = sent \ spent
             /\ retries' = [f \in sent \ spent |->
                              IF f \in T THEN Bump(retries[f]) ELSE retries[f]]
             /\ abandoned' = abandoned \cup {f.pkt : f \in spent}
    /\ UNCHANGED <<next_seq, partial_acked, sending, control, attempts, failed>>
    /\ UNCHANGED rxVars

-----------------------------------------------------------------------------
(* The receiver: process_reliable_ingress_impl *)

(* A frame arrives; the link may keep a copy of it. *)
TakeFrame(f) ==
    /\ f \in wire
    /\ wire' = wire \ {f} \/ wire' = wire
    /\ UNCHANGED <<attempts, failed, abandoned>>
    /\ UNCHANGED txVars

(* kReliableFlagUnordered: acknowledge and hand up, whatever the number *)
IngressUnordered(f) ==
    /\ ~Ordered
    /\ Len(released) < MaxReleases
    /\ TakeFrame(f)
    /\ released' = Append(released, f.pkt)
    /\ control' = control \cup {Ack(f.seq)}
    /\ UNCHANGED <<expected_seq, buffered>>

(* Mutant: the frame is acknowledged again and falls through to delivery. *)
IngressOldDelivers(f) ==
    /\ Ordered
    /\ f.seq < expected_seq
    /\ TakeFrame(f)
    /\ control' = control \cup {Ack(expected_seq - 1)}
    /\ released' = Append(released, f.pkt)
    /\ UNCHANGED <<expected_seq, buffered>>

(* hdr.seq < rx.expected_seq: acknowledge again, drop *)
IngressOld(f) ==
    /\ Ordered
    /\ f.seq < expected_seq
    /\ TakeFrame(f)
    /\ control' = control \cup {Ack(expected_seq - 1)}
    /\ UNCHANGED rxVars

(* hdr.seq > rx.expected_seq: keep it if there is room, ask for the gap *)
IngressAhead(f) ==
    /\ Ordered
    /\ f.seq > expected_seq
    /\ TakeFrame(f)
    /\ buffered' = IF /\ Cardinality(buffered) < MaxPending
                      /\ \A g \in buffered : g.seq # f.seq
                   THEN buffered \cup {f} ELSE buffered
    /\ control' = control \cup {Partial(f.seq), Request(expected_seq)}
    /\ UNCHANGED <<expected_seq, released>>

(* Mutant: the frame itself is acknowledged, not the last one released. *)
IngressNextAcksSelf(f) ==
    /\ Ordered
    /\ f.seq = expected_seq
    /\ TakeFrame(f)
    /\ \E n \in 0 .. Cardinality(buffered) :
         LET At(i) == {g \in buffered : g.seq = SeqAfter(expected_seq, i)}
         IN  /\ \A i \in 1 .. n : At(i) # {}
             /\ At(n + 1) = {}
             /\ \E run \in [1 .. n -> buffered] :
                  /\ \A i \in 1 .. n : run[i] \in At(i)
                  /\ released' = released \o [i \in 1 .. n + 1 |->
                                   IF i = 1 THEN f.pkt ELSE run[i - 1].pkt]
                  /\ buffered' = buffered \ {run[i] : i \in 1 .. n}
             /\ expected_seq' = SeqAfter(expected_seq, n + 1)
             /\ control' = control \cup {Ack(expected_seq)}

(***************************************************************************)
(* hdr.seq = rx.expected_seq: hand it up with the n buffered frames that   *)
(* follow it without a gap, and acknowledge the last of them.              *)
(***************************************************************************)
IngressNext(f) ==
    /\ Ordered
    /\ f.seq = expected_seq
    /\ TakeFrame(f)
    /\ \E n \in 0 .. Cardinality(buffered) :
         LET At(i) == {g \in buffered : g.seq = SeqAfter(expected_seq, i)}
         IN  /\ \A i \in 1 .. n : At(i) # {}
             /\ At(n + 1) = {}
             /\ \E run \in [1 .. n -> buffered] :
                  /\ \A i \in 1 .. n : run[i] \in At(i)
                  /\ released' = released \o [i \in 1 .. n + 1 |->
                                   IF i = 1 THEN f.pkt ELSE run[i - 1].pkt]
                  /\ buffered' = buffered \ {run[i] : i \in 1 .. n}
             /\ expected_seq' = SeqAfter(expected_seq, n + 1)
             /\ control' = control \cup {Ack(SeqAfter(expected_seq, n))}

-----------------------------------------------------------------------------
(***************************************************************************)
(* The link and the receiver's bounded tx_queue lose packets.              *)
(***************************************************************************)
LoseFrame(f) ==
    /\ f \in wire
    /\ wire' = wire \ {f}
    /\ UNCHANGED <<control, attempts, failed, abandoned>>
    /\ UNCHANGED txVars
    /\ UNCHANGED rxVars

LoseControl(c) ==
    /\ c \in control
    /\ control' = control \ {c}
    /\ UNCHANGED <<wire, attempts, failed, abandoned>>
    /\ UNCHANGED txVars
    /\ UNCHANGED rxVars

Next ==
    \/ SendStart \/ SendReturn \/ SendRefused
    \/ \E c \in control : \/ HandleAck(c.seq)
                          \/ HandlePartialAck(c.seq)
                          \/ HandlePacketRequest(c.seq)
                          \/ LoseControl(c)
    \/ \E due \in SUBSET sent : Timeouts(due)
    \/ \E f \in wire : \/ IngressUnordered(f)
                       \/ IngressOld(f)
                       \/ IngressAhead(f)
                       \/ IngressNext(f)
                       \/ LoseFrame(f)

Spec == Init /\ [][Next]_vars

(***************************************************************************)
(* Fairness: the application calls process_tx_queue over and over, so the  *)
(* retransmission timer of every pending frame is served again and again,  *)
(* and a driver callback returns.  Nothing is assumed of the link.         *)
(***************************************************************************)
ServeAll == Timeouts(sent \ partial_acked)

FairSpec == Spec /\ WF_vars(ServeAll) /\ WF_vars(SendReturn)

(***************************************************************************)
(* A fair link on top: a frame or control packet that is on the way again  *)
(* and again arrives again and again.                                      *)
(***************************************************************************)
Ingress(f) == IngressUnordered(f) \/ IngressOld(f) \/ IngressAhead(f) \/ IngressNext(f)

Handle(s) == HandleAck(s) \/ HandlePartialAck(s) \/ HandlePacketRequest(s)

FairLinkSpec ==
    /\ FairSpec
    /\ \A f \in Frames : SF_vars(Ingress(f))
    /\ \A s \in 0 .. SeqMax : SF_vars(Handle(s))

-----------------------------------------------------------------------------
(* Properties *)

(***************************************************************************)
(* Type invariant: of the two ends of the link, a retry count and a        *)
(* partial_acked flag exist only for frames that are pending.              *)
(***************************************************************************)
TypeOK ==
    /\ next_seq \in Seqs
    /\ sent \subseteq Frames
    /\ retries \in [sent -> 0 .. MaxRetries]
    /\ partial_acked \subseteq sent
    /\ sending \subseteq Frames
    /\ expected_seq \in Seqs
    /\ buffered \subseteq Frames
    /\ released \in Seq(Pkts)
    /\ wire \subseteq Frames
    /\ control \subseteq Ctls
    /\ attempts \in 0 .. MaxSends
    /\ failed \subseteq Pkts
    /\ abandoned \subseteq Pkts

PktsOf(F)      == {f.pkt : f \in F}
Delivered      == {released[i] : i \in DOMAIN released}
NothingGivenUp == failed = {} /\ abandoned = {}

(***************************************************************************)
(* An ordered stream hands packets up in the order the sender numbered     *)
(* them, without a gap and without a repetition, whatever the link and the *)
(* driver do.                                                              *)
(***************************************************************************)
InOrderDelivery == Ordered => \A i \in DOMAIN released : released[i] = i

(***************************************************************************)
(* A numbered packet leaves the sender's window unreported only when the   *)
(* receiver has handed it up: an ACK never covers a packet that is still   *)
(* missing, however ACKs are delayed, repeated or reordered.               *)
(***************************************************************************)
AckedIsDelivered ==
    (1 .. attempts) \subseteq
        PktsOf(sent) \cup PktsOf(sending) \cup Delivered \cup failed \cup abandoned

(***************************************************************************)
(* While the sender has given nothing up, a frame it no longer retransmits *)
(* because of a PARTIAL_ACK is really held by the receiver.                *)
(***************************************************************************)
PartialAckIsHeld ==
    Ordered /\ NothingGivenUp =>
        \A f \in partial_acked : f \in buffered \/ f.pkt \in Delivered

(***************************************************************************)
(* While the sender has given nothing up, the oldest pending frame is      *)
(* never exempt from retransmission, even when PARTIAL_ACKs and ACKs       *)
(* overtake one another: the timer can always restart a stalled stream.    *)
(* A driver that re-enters the router is excluded: the ACK of the frame    *)
(* being sent can then come before the frame is recorded and is lost on    *)
(* it, and a late PARTIAL_ACK exempts the frame until a later send.        *)
(***************************************************************************)
OldestIsRetransmitted ==
    Ordered /\ ~Reentrant /\ NothingGivenUp =>
        \A f \in partial_acked : \E g \in sent \ partial_acked : g.pkt < f.pkt

(***************************************************************************)
(* While the sender has given nothing up, the receiver always has room for *)
(* one more early frame: the two sides' use of the same limit MaxPending   *)
(* is enough that IngressAhead never drops a frame it then PARTIAL_ACKs.   *)
(***************************************************************************)
BufferHasRoom ==
    Ordered /\ NothingGivenUp => Cardinality(buffered) < MaxPending

(***************************************************************************)
(* Every pending packet is eventually acknowledged, unless the sender      *)
(* gives a packet of the stream up.                                        *)
(***************************************************************************)
WindowDrains ==
    \A p \in Pkts : p \in PktsOf(sent) ~> (p \notin PktsOf(sent) \/ abandoned # {})

(***************************************************************************)
(* Every accepted packet of an ordered stream is eventually handed up,     *)
(* unless the sender gives a packet of the stream up after MaxRetries.     *)
(***************************************************************************)
AcceptedIsDelivered ==
    \A p \in Pkts : p \in PktsOf(sent) ~> (p \in Delivered \/ abandoned # {})

(***************************************************************************)
(* An ordered stream implements the abstract sliding window, whatever the  *)
(* link, the driver and re-entrant calls do.                               *)
(***************************************************************************)
Window == INSTANCE SlidingWindow WITH
    Window   <- MaxPending,
    numbered <- attempts,
    held     <- PktsOf(sent \cup sending),
    refused  <- failed,
    dropped  <- abandoned,
    output   <- released

ImplementsSlidingWindow == Window!Spec

=============================================================================
