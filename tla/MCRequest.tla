----------------------------- MODULE MCRequest ------------------------------
(***************************************************************************)
(* What a request goes through before it is answered: the codec, and the   *)
(* routes that it is matched against.  The two share no state, so a        *)
(* behaviour is one of either part, while the other part stays as it       *)
(* began.                                                                  *)
(***************************************************************************)
EXTENDS MCHttp1Codec, MCRouteSnapshot

VARIABLE part       \* "codec" or "routes"

requestVars == <<part, vars, routesVars>>

RequestInit ==
    /\ part \in {"codec", "routes"}
    /\ Init /\ RoutesInit

RequestNext ==
    \/ part = "codec" /\ Next /\ UNCHANGED <<part, routesVars>>
    \/ part = "routes" /\ RoutesNext /\ UNCHANGED <<part, vars>>

RequestSpec == RequestInit /\ [][RequestNext]_requestVars
=============================================================================
