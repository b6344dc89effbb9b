----------------------------- MODULE MCEndToEnd -----------------------------
(* Instances of EndToEnd: the holders h1 and h2 share one side of the relay. *)
EXTENDS EndToEnd, TLC

CONSTANTS h1, h2, p1, p2

MCSideOf  == [h \in Holders |-> "bus"]
MCFirstOn == [s \in {"bus"} |-> h1]

(* Bound: once both packets are sent, one message is queued or on its way;  *)
(* the copies of one fan-out count once.                                    *)
OneAtATime ==
    Cardinality(sent) = 2 =>
        Cardinality(data) + Cardinality({m[1] : m \in fanned}) + Cardinality(acks)
        + Cardinality(returned) + Cardinality(relay_q) + Cardinality(requeued) <= 1

Alike == Permutations({p1, p2})

=============================================================================
