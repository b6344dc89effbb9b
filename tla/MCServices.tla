----------------------------- MODULE MCServices -----------------------------
(* Constants of Services.cfg *)
EXTENDS Services

(* S1 is better than the router itself, S2 worse. *)
MCTimePriority == "S1" :> 1 @@ "S2" :> 3
MCTimeConfigs  == {<<TRUE, 1>>, <<TRUE, 2>>, <<FALSE, 0>>}

(* A leap day of a century, one that does not exist, the end of an era *)
MCDates == {<<2000, 2, 29>>, <<2100, 2, 29>>, <<2369, 12, 31>>}
MCTimes == {<<0, 0, 0>>, <<23, 59, 59>>, <<24, 0, 0>>}

(***************************************************************************)
(* A schema in which Base stands for 100: two built-in types in their      *)
(* fixed places and one far behind them, a compiled type and an endpoint   *)
(* under their old and their new ids, and the discovery endpoint.          *)
(***************************************************************************)
MCBuiltinType     == 0 :> "RELIABLE_ACK" @@ 1 :> "DISCOVERY_TOPOLOGY" @@ 2 :> "P2P_MESSAGE"
MCBuiltinEndpoint == 8 :> "DISCOVERY"
Info(name, eps, reliable) == [name |-> name, eps |-> eps, reliable |-> reliable]
MCInitialTypes ==
    0 :> Info("RELIABLE_ACK", {8}, FALSE) @@ 1 :> Info("DISCOVERY_TOPOLOGY", {8}, FALSE)
    @@ 3 :> Info("GPS", {0}, TRUE) @@ 7 :> Info("GPS", {4}, TRUE)
    @@ 9 :> Info("P2P_MESSAGE", {8}, TRUE)
MCInitialEndpoints == 0 :> "SD" @@ 4 :> "SD" @@ 1 :> "DISCOVERY" @@ 8 :> "DISCOVERY"

(* One document that loads only in part, and one that loads *)
MCSchemaDocs ==
    {[endpoints |-> <<"E", "SD">>, types |-> << >>],
     [endpoints |-> <<"E">>, types |-> <<Info("T", {"E"}, TRUE), Info("U", {"E"}, FALSE)>>]}
=============================================================================
