----------------------------- MODULE RouteAnswer -----------------------------
(* What a request is answered with: data, or why there is none. *)

Data(x) == [is |-> "data", of |-> x]

Without(why) == [is |-> why]
=============================================================================
