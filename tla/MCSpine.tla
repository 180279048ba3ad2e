------------------------------ MODULE MCSpine -------------------------------
(* Values for the constants of Spine.  The default routes and a reload     *)
(* that differ in both directions, the second by host too, and requests    *)
(* for every branch of handle_connection.                                  *)
EXTENDS Spine

Get(target) == [parse |-> "kSuccess", method |-> "GET",
                host |-> <<"www", ".", "x.org">>, target |-> target]
Bad(error)  == [Get(<<"/">>) EXCEPT !.parse = error]

MCRequests == {Get(<<"/", "proxy", "/", "mock", "/", "1">>), Get(<<"/", "new">>),
               Get(MetricsPath), Bad("kInternalError")}

Wildcard(path) == Rule(<<"*", ".", "x.org">>, path, {}, 1)

MCReloads == <<<<Wildcard(<<"/">>), Wildcard(<<"/", "new">>)>>>>
=============================================================================
