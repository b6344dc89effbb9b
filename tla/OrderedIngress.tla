--------------------------- MODULE OrderedIngress ---------------------------
(***************************************************************************)
(* The way of an ordered reliable stream from process_reliable_ingress to  *)
(* the local handlers or the forwarding code: ReliableLink composed with   *)
(* the receive queue (rx_queue) and the three entry points that feed it.   *)
(*   "receive"     seds_router_receive_serialized_from_side                *)
(*   "rx_to_queue" seds_router_rx_serialized_packet_to_queue_from_side     *)
(*   "relay"       seds_relay_rx_serialized_from_side                      *)
(* Frames cost the same: the byte budget of the queue is a number of them. *)
(***************************************************************************)
EXTENDS ReliableLink, SequencesExt

CONSTANTS
    EntryPoints,   \* those the application may call when a frame comes in
    RxRoom         \* frames that fit into memory.max_queue_budget

ASSUME EntryPointAssumption ==
    EntryPoints \subseteq {"receive", "rx_to_queue", "relay"}
ASSUME RxRoomAssumption     == RxRoom \in Nat \ {0}

VARIABLES
    entry_point,   \* the entry point of this application
    rx_queue,      \* queued packets of this stream
    dispatched     \* ghost: packets given to router_receive_impl, in order

ingressVars == <<entry_point, rx_queue, dispatched>>
allVars     == <<vars, ingressVars>>

IngressInit ==
    /\ Init
    /\ entry_point \in EntryPoints
    /\ rx_queue = << >>
    /\ dispatched = << >>

(* Mutant: the queue is full one packet early. *)
EnqueueAllShort(q, s) ==
    LET all == q \o s
    IN  IF Len(all) < RxRoom THEN all
        ELSE SubSeq(all, Len(all) - RxRoom + 2, Len(all))

(***************************************************************************)
(* enqueue_rx of the packets of s, one after the other, each evicting from *)
(* the front what does not fit.                                            *)
(***************************************************************************)
EnqueueAll(q, s) ==
    LET all == q \o s
    IN  IF Len(all) <= RxRoom THEN all
        ELSE SubSeq(all, Len(all) - RxRoom + 1, Len(all))

(* enqueue_rx_front: evicts from the front, then enters at the front *)
EnqueueFront(q, p) == <<p>> \o (IF Len(q) < RxRoom THEN q ELSE Tail(q))

(***************************************************************************)
(* What the frame just handled let through: itself first, and behind it    *)
(* the frames process_reliable_ingress moved to reliable_released_rx.      *)
(***************************************************************************)
Passed == SubSeq(released', Len(released) + 1, Len(released'))

(* Mutant: the queue is drained before the frame itself is handled. *)
ReceiveQueuedFirst(f) ==
    /\ entry_point = "receive"
    /\ Ingress(f)
    /\ IF Passed = << >> THEN UNCHANGED ingressVars
       ELSE /\ dispatched' = dispatched \o EnqueueAll(rx_queue, Tail(Passed))
                               \o <<Head(Passed)>>
            /\ rx_queue' = << >>
            /\ UNCHANGED entry_point

(***************************************************************************)
(* seds_router_receive_serialized_from_side: the frame itself is handled   *)
(* at once; the released ones are queued and the queue is drained.         *)
(***************************************************************************)
ReceiveSerialized(f) ==
    /\ entry_point = "receive"
    /\ Ingress(f)
    /\ IF Passed = << >> THEN UNCHANGED ingressVars
       ELSE /\ dispatched' = dispatched \o <<Head(Passed)>>
                               \o EnqueueAll(rx_queue, Tail(Passed))
            /\ rx_queue' = << >>
            /\ UNCHANGED entry_point

(***************************************************************************)
(* seds_router_rx_serialized_packet_to_queue_from_side: the frame itself   *)
(* enters the queue at the front if it released others, else at the back.  *)
(***************************************************************************)
RxSerializedToQueue(f) ==
    /\ entry_point = "rx_to_queue"
    /\ Ingress(f)
    /\ rx_queue' = IF Passed = << >> THEN rx_queue
                   ELSE IF Tail(Passed) = << >> THEN EnqueueAll(rx_queue, Passed)
                   ELSE EnqueueAll(EnqueueFront(rx_queue, Head(Passed)), Tail(Passed))
    /\ UNCHANGED <<entry_point, dispatched>>

(* seds_relay_rx_serialized_from_side: everything at the back *)
RelayRxSerialized(f) ==
    /\ entry_point = "relay"
    /\ Ingress(f)
    /\ rx_queue' = EnqueueAll(rx_queue, Passed)
    /\ UNCHANGED <<entry_point, dispatched>>

(* One turn of process_rx_queue *)
ProcessRx ==
    /\ rx_queue # << >>
    /\ dispatched' = Append(dispatched, Head(rx_queue))
    /\ rx_queue' = Tail(rx_queue)
    /\ UNCHANGED entry_point
    /\ UNCHANGED vars

LinkStep ==
    /\ \/ SendStart \/ SendReturn \/ SendRefused
       \/ \E s \in {c.seq : c \in control} : Handle(s)
       \/ \E due \in SUBSET sent : Timeouts(due)
       \/ \E c \in control : LoseControl(c)
       \/ \E f \in wire : LoseFrame(f)
    /\ UNCHANGED ingressVars

IngressStep ==
    \/ LinkStep
    \/ \E f \in wire : \/ ReceiveSerialized(f)
                       \/ RxSerializedToQueue(f)
                       \/ RelayRxSerialized(f)
    \/ ProcessRx

IngressSpec == IngressInit /\ [][IngressStep]_allVars

-----------------------------------------------------------------------------
(* Properties *)

Line == dispatched \o rx_queue

(***************************************************************************)
(* docs/router.md, "`Ordered` frames enforce in-order delivery": handlers  *)
(* see the packets of an ordered stream in the order the sender numbered   *)
(* them, whichever entry point the application uses.                       *)
(***************************************************************************)
DispatchInOrder == \A i, j \in DOMAIN Line : i < j => Line[i] < Line[j]

(***************************************************************************)
(* However often a frame is repeated, no packet of an ordered stream is    *)
(* queued or dispatched twice; and a router that handles frames as they    *)
(* come in, and a relay, see the packets in order, through buffering,      *)
(* queueing and eviction.                                                  *)
(***************************************************************************)
DirectInOrder ==
    /\ \A i, j \in DOMAIN Line : i # j => Line[i] # Line[j]
    /\ entry_point # "rx_to_queue" => DispatchInOrder

(***************************************************************************)
(* With room for MaxPending - 1 frames, the largest run one frame can      *)
(* release, seds_router_receive_serialized_from_side gives the handlers    *)
(* every packet it lets the sender forget: what an ACK has taken out of    *)
(* the sender's window has been dispatched.                                *)
(***************************************************************************)
AckedIsDispatched ==
    entry_point = "receive" /\ RxRoom >= MaxPending - 1 /\ NothingGivenUp =>
        \A p \in 1 .. attempts :
            p \in PktsOf(sent) \cup PktsOf(sending) \cup Range(dispatched)

=============================================================================
