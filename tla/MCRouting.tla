------------------------------ MODULE MCRouting ------------------------------
(***************************************************************************)
(* Routing with an ordinary type for a remote endpoint, a link-local type  *)
(* and a type the node itself handles as well.                             *)
(***************************************************************************)
EXTENDS Routing

MCTypeOf      == (1 :> "GPS") @@ (2 :> "LINK")
MCEndpointsOf == ("GPS" :> {"RADIO", "SD"}) @@ ("LINK" :> {"WIRE"})
MCStartPolicies == {[NoPolicy EXCEPT !.mode = "Weighted", !.weights[1] = 2]}
MCRouteKeys   == {<<0, 1>>, <<1, 2>>}

=============================================================================
