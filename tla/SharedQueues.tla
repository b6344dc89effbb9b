---------------------------- MODULE SharedQueues ----------------------------
(***************************************************************************)
(* The bounded receive and transmit queues of one router or relay          *)
(* (src/queue.cpp, enforce_shared_queue_budget) and the loops of           *)
(* src/router_api.cpp that fill and drain them, with a driver callback     *)
(* that may call back into the router while it sends.                      *)
(*                                                                         *)
(* A packet is its number and its byte_cost; the queues are unaware of the *)
(* rest.  A control packet (ACK, request, retry) enters tx at the front.   *)
(***************************************************************************)
EXTENDS Integers, Sequences, FiniteSets, SequencesExt

CONSTANTS
    Budget,        \* memory.max_queue_budget, shared by the two queues
    Costs,         \* the byte_cost values that occur
    MaxItems       \* bound: packets created

ASSUME BudgetAssumption == Budget \in Nat \ {0}
ASSUME CostsAssumption  == Costs \subseteq Nat \ {0}
ASSUME ItemsAssumption  == MaxItems \in Nat

VARIABLES
    rx,               \* rx_queue and rx_queue_bytes
    tx,               \* tx_queue and tx_queue_bytes
    in_tx,            \* the popped item whose serialized_tx call is running
    side_tx_deferred, \* SedsRouter::side_tx_deferred
    created,          \* ghost: packets created so far
    transmitted,      \* ghost: what the driver accepted, in order
    enforced          \* ghost: the item the last enqueue took, if that enqueue
                      \* ran enforce_shared_queue_budget

queueVars == <<rx, tx, in_tx, side_tx_deferred, created, transmitted, enforced>>

Items    == [id : 1 .. MaxItems, cost : Costs, control : BOOLEAN]
EmptyQ   == [queue |-> << >>, bytes |-> 0]
Bytes(s) == Cardinality(UNION {{i} \X (1 .. s[i].cost) : i \in DOMAIN s})

QueueInit ==
    /\ rx = EmptyQ
    /\ tx = EmptyQ
    /\ in_tx = << >>
    /\ side_tx_deferred = FALSE
    /\ created = 0
    /\ transmitted = << >>
    /\ enforced = << >>

-----------------------------------------------------------------------------
(* queue.cpp *)

(* Mutant: the counter is not taken down. *)
PopFrontKeepsBytes(q) == [queue |-> Tail(q.queue), bytes |-> q.bytes]

(* pop_tx, pop_rx and every eviction *)
PopFront(q) == [queue |-> Tail(q.queue), bytes |-> q.bytes - Head(q.queue).cost]

(***************************************************************************)
(* The eviction loop of enqueue_bounded: drop from the front until `cost'  *)
(* more bytes fit or nothing is left; left[k] is the queue after k turns.  *)
(***************************************************************************)
MakeRoom(q, cost) ==
    LET left[k \in 0 .. Len(q.queue)] ==
            IF k = 0 THEN q
            ELSE IF left[k - 1].bytes + cost <= Budget THEN left[k - 1]
            ELSE PopFront(left[k - 1])
    IN  left[Len(q.queue)]

(* enqueue_bounded: an item larger than the whole budget is refused *)
Enqueue(q, item, front) ==
    IF item.cost > Budget THEN q
    ELSE LET r == MakeRoom(q, item.cost)
         IN  [queue |-> IF front THEN <<item>> \o r.queue
                                 ELSE Append(r.queue, item),
              bytes |-> r.bytes + item.cost]

(* Mutant: the smaller queue is cut down. *)
EvictSmaller(p) ==
    IF p.rx.bytes + p.tx.bytes <= Budget THEN p
    ELSE IF p.rx.queue # << >> /\ (p.tx.queue = << >> \/ p.rx.bytes < p.tx.bytes)
    THEN [p EXCEPT !.rx = PopFront(p.rx)]
    ELSE [p EXCEPT !.tx = PopFront(p.tx)]

(***************************************************************************)
(* A turn of the loop of enforce_shared_queue_budget: while the two queues *)
(* exceed the budget, drop the oldest item of the larger one, of the       *)
(* receive queue on a tie.                                                 *)
(***************************************************************************)
EvictLarger(p) ==
    IF p.rx.bytes + p.tx.bytes <= Budget THEN p
    ELSE IF p.rx.queue # << >> /\ (p.tx.queue = << >> \/ p.rx.bytes >= p.tx.bytes)
    THEN [p EXCEPT !.rx = PopFront(p.rx)]
    ELSE IF p.tx.queue # << >> THEN [p EXCEPT !.tx = PopFront(p.tx)]
    ELSE p

(* enforce_shared_queue_budget: as many turns as there are items suffice. *)
Enforce(p) ==
    LET left[k \in 0 .. Len(p.rx.queue) + Len(p.tx.queue)] ==
            IF k = 0 THEN p ELSE EvictLarger(left[k - 1])
    IN  left[Len(p.rx.queue) + Len(p.tx.queue)]

-----------------------------------------------------------------------------
(* The entry points *)

NewItem(control) == {[id |-> created + 1, cost |-> c, control |-> control] : c \in Costs}

(* Enqueue in rx or tx, then share the budget if the item was taken. *)
Shared(newRx, newTx, item) ==
    LET p == IF item.cost > Budget THEN [rx |-> rx, tx |-> tx]
             ELSE Enforce([rx |-> newRx, tx |-> newTx])
    IN  /\ rx' = p.rx
        /\ tx' = p.tx
        /\ enforced' = IF item.cost > Budget THEN << >> ELSE <<item>>

Create == created < MaxItems /\ created' = created + 1

(***************************************************************************)
(* seds_router_log_bytes_ex with queue set, and                            *)
(* seds_router_transmit_message_queue for a remote endpoint.               *)
(***************************************************************************)
LogQueued ==
    /\ Create
    /\ \E item \in NewItem(FALSE) : Shared(rx, Enqueue(tx, item, FALSE), item)
    /\ UNCHANGED <<in_tx, side_tx_deferred, transmitted>>

(***************************************************************************)
(* seds_router_rx_packet_to_queue, its _from_side form, the relay's        *)
(* rx_packet_from_side, and transmit_message_queue to a local endpoint.    *)
(***************************************************************************)
RxPacketToQueue ==
    /\ Create
    /\ \E item \in NewItem(FALSE) : Shared(Enqueue(rx, item, FALSE), tx, item)
    /\ UNCHANGED <<in_tx, side_tx_deferred, transmitted>>

(***************************************************************************)
(* seds_router_transmit_serialized_message_queue, and log_bytes_ex without *)
(* queue before it starts to drain the queue.                              *)
(***************************************************************************)
TransmitSerializedQueue ==
    /\ Create
    /\ \E item \in NewItem(FALSE) : tx' = Enqueue(tx, item, FALSE)
    /\ enforced' = << >>
    /\ UNCHANGED <<rx, in_tx, side_tx_deferred, transmitted>>

(***************************************************************************)
(* seds_router_rx_serialized_packet_to_queue and its _from_side form,      *)
(* which enters at the front when it released buffered frames.             *)
(***************************************************************************)
RxSerializedToQueue ==
    /\ Create
    /\ \E item \in NewItem(FALSE), front \in BOOLEAN : rx' = Enqueue(rx, item, front)
    /\ enforced' = << >>
    /\ UNCHANGED <<tx, in_tx, side_tx_deferred, transmitted>>

(* queue_reliable_ack and the other enqueue_tx_front of control packets *)
QueueControl ==
    /\ Create
    /\ \E item \in NewItem(TRUE) : tx' = Enqueue(tx, item, TRUE)
    /\ enforced' = << >>
    /\ UNCHANGED <<rx, in_tx, side_tx_deferred, transmitted>>

-----------------------------------------------------------------------------
(* The loops *)

(***************************************************************************)
(* One turn of process_rx_queue: the packet is consumed here, or           *)
(* router_receive_impl forwards it to the transmit queue.                  *)
(***************************************************************************)
ProcessRx ==
    /\ rx.queue # << >>
    /\ rx' = PopFront(rx)
    /\ \/ UNCHANGED <<tx, created, enforced>>
       \/ /\ Create
          /\ \E item \in NewItem(FALSE) : tx' = Enqueue(tx, item, FALSE)
          /\ enforced' = << >>
    /\ UNCHANGED <<in_tx, side_tx_deferred, transmitted>>

(* One turn of process_tx_queue up to the driver call of transmit_item *)
TransmitStart ==
    /\ in_tx = << >>
    /\ tx.queue # << >>
    /\ tx' = PopFront(tx)
    /\ in_tx' = <<Head(tx.queue)>>
    /\ UNCHANGED <<rx, side_tx_deferred, created, transmitted, enforced>>

TransmitOk ==
    /\ in_tx # << >>
    /\ transmitted' = transmitted \o in_tx
    /\ in_tx' = << >>
    /\ UNCHANGED <<rx, tx, side_tx_deferred, created, enforced>>

(* Mutant: a deferred item is put back at the end of the queue. *)
TransmitFailedToBack ==
    /\ in_tx # << >>
    /\ side_tx_deferred
    /\ side_tx_deferred' = FALSE
    /\ tx' = Enqueue(tx, in_tx[1], FALSE)
    /\ enforced' = << >>
    /\ in_tx' = << >>
    /\ UNCHANGED <<rx, created, transmitted>>

(***************************************************************************)
(* The driver failed.  transmit_item takes SEDS_IO for a deferral when     *)
(* side_tx_deferred is set and clears it; process_tx_queue then puts the   *)
(* item back at the front, log_bytes_ex drops it.  Any other failure drops *)
(* the item.                                                               *)
(***************************************************************************)
TransmitFailed ==
    /\ in_tx # << >>
    /\ \/ /\ side_tx_deferred
          /\ side_tx_deferred' = FALSE
          /\ tx' = Enqueue(tx, in_tx[1], TRUE)
          /\ enforced' = << >>
       \/ /\ side_tx_deferred' \in {side_tx_deferred, FALSE}
          /\ UNCHANGED <<tx, enforced>>
    /\ in_tx' = << >>
    /\ UNCHANGED <<rx, created, transmitted>>

(***************************************************************************)
(* Inside the driver callback: the retransmission timers or a packet       *)
(* request find side_tx_active and set side_tx_deferred, and leave it set. *)
(* A nested process_tx_queue pops an item, is deferred, clears the flag    *)
(* and puts the item back.                                                 *)
(***************************************************************************)
NestedDeferral ==
    /\ in_tx # << >>
    /\ \/ side_tx_deferred' = TRUE
       \/ tx.queue # << >> /\ side_tx_deferred' = FALSE
    /\ UNCHANGED <<rx, tx, in_tx, created, transmitted, enforced>>

(***************************************************************************)
(* Inside the driver callback, seds_router_log_bytes_ex without queue      *)
(* appends its packet, pops the front one and is deferred; transmit_item   *)
(* has cleared side_tx_deferred, so the popped packet is not put back.     *)
(***************************************************************************)
NestedLog ==
    /\ in_tx # << >>
    /\ Create
    /\ \E item \in NewItem(FALSE) :
         IF item.cost > Budget
         THEN UNCHANGED <<tx, side_tx_deferred>>
         ELSE /\ tx' = PopFront(Enqueue(tx, item, FALSE))
              /\ side_tx_deferred' = FALSE
    /\ enforced' = << >>
    /\ UNCHANGED <<rx, in_tx, transmitted>>

(* seds_router_clear_tx_queue, clear_rx_queue, clear_queues *)
ClearQueues ==
    /\ \E c \in {{"rx"}, {"tx"}, {"rx", "tx"}} :
         /\ rx' = IF "rx" \in c THEN EmptyQ ELSE rx
         /\ tx' = IF "tx" \in c THEN EmptyQ ELSE tx
    /\ UNCHANGED <<in_tx, side_tx_deferred, created, transmitted, enforced>>

(***************************************************************************)
(* A turn of seds_router_process_rx_queue, seds_router_process_tx_queue or *)
(* of the two loops in seds_router_process_all_queues_with_timeout, which  *)
(* alternate between the queues until both are empty or time is up.        *)
(***************************************************************************)
ProcessQueues == ProcessRx \/ TransmitStart \/ TransmitOk \/ TransmitFailed

QueueNext ==
    \/ LogQueued \/ RxPacketToQueue
    \/ TransmitSerializedQueue \/ RxSerializedToQueue \/ QueueControl
    \/ ProcessQueues
    \/ NestedDeferral \/ NestedLog
    \/ ClearQueues

QueueSpec == QueueInit /\ [][QueueNext]_queueVars

-----------------------------------------------------------------------------
(* Properties *)

(***************************************************************************)
(* rx_queue_bytes and tx_queue_bytes are the sums of the costs of what is  *)
(* queued, through every eviction, requeue and nested call; neither queue  *)
(* alone exceeds max_queue_budget, and where enforce_shared_queue_budget   *)
(* is called the two together fit into it, until a path that does not call *)
(* it enqueues.                                                            *)
(***************************************************************************)
BytesAreExact ==
    /\ \A q \in {rx, tx} : q.bytes = Bytes(q.queue) /\ q.bytes <= Budget
    /\ enforced # << >> => rx.bytes + tx.bytes <= Budget

(***************************************************************************)
(* Packets other than control packets leave in the order they entered the  *)
(* transmit queue, also when a transmission is put back at the front of a  *)
(* queue that callbacks have filled meanwhile.                             *)
(***************************************************************************)
SentInOrder ==
    LET line == transmitted \o in_tx \o tx.queue
    IN  \A i, j \in DOMAIN line :
           i < j /\ ~line[i].control /\ ~line[j].control => line[i].id < line[j].id

(***************************************************************************)
(* A packet of at most half of the budget that an entry point accepts with *)
(* SEDS_OK is queued when the entry point returns: sharing the budget with *)
(* the other queue never evicts the packet just taken.  (A larger one may  *)
(* be evicted before the call returns.)                                    *)
(***************************************************************************)
AcceptedIsQueued ==
    [][\A i \in DOMAIN enforced' :
          enforced' # enforced /\ 2 * enforced'[i].cost <= Budget =>
              enforced'[i] \in Range(rx'.queue) \cup Range(tx'.queue)]_queueVars

=============================================================================
