----------------------------- MODULE MCDiscovery -----------------------------
(* A line of three nodes; see Discovery.cfg and DiscoveryLeave.cfg. *)
EXTENDS Discovery

MCNodes == {"A", "M", "B"}
MCLinks == {<<"A", "M">>, <<"M", "A">>, <<"M", "B">>, <<"B", "M">>}
MCSources == [n \in MCNodes |-> IF n = "A" THEN {"local"} ELSE {}]

Net(relays, serialized, hosts, disturbances) ==
    [relays |-> relays, serialized |-> serialized, hosts |-> hosts,
     disturbances |-> disturbances]
Apart == "A" :> {1} @@ "M" :> {2} @@ "B" :> {3, 4}
Alike == [n \in MCNodes |-> {1}]

(* different and equal endpoints, masked senders, a relay in the middle *)
MCNetworks == {Net({}, FALSE, Apart, 1), Net({}, FALSE, Alike, 1), Net({}, TRUE, Apart, 0),
               Net({"M"}, FALSE, Apart, 0), Net({"M"}, TRUE, Apart, 0)}
MCLeaveNetworks == {Net({}, FALSE, Apart, 1)}
MCLinkLocalSides == {<<"B", "M">>, <<"M", "B">>, <<"M", "A">>}
=============================================================================
