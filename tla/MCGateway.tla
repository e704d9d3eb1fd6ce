------------------------------ MODULE MCGateway -------------------------------
(***************************************************************************)
(* The gateway with two clients more than connections, or one.             *)
(***************************************************************************)
EXTENDS Gateway

CONSTANTS i, v, w

R(k, x) == [kind |-> k, id |-> i, val |-> x,
            readable |-> TRUE, plannable |-> TRUE, lookup |-> FALSE]

\* One request of each kind, an update that reads first, a create and a delete
\* whose select does not translate, and a delete whose plan does not.
MCSendable ==
  {R("findMany", v), R("create", v), R("update", w), R("delete", v),
   R("deleteMany", w),
   [R("update", w) EXCEPT !.lookup = TRUE],
   [R("create", w) EXCEPT !.readable = FALSE],
   [R("delete", v) EXCEPT !.readable = FALSE],
   [R("delete", v) EXCEPT !.plannable = FALSE],
   [R("findMany", v) EXCEPT !.readable = FALSE]}
===============================================================================
