---------------------------- MODULE LoadedSchema -----------------------------
(***************************************************************************)
(* What reads and mutations look up in the schema as it was loaded, and    *)
(* SQL's comparison of a stored value, in three-valued logic.              *)
(***************************************************************************)
EXTENDS Crystallization

CONSTANTS
  Null,
  Plain          \* the plain value of each row: a function on the rows' ids

\* No request and no answer.
Nobody == [kind |-> "none"]

IsPolymorphic(f) == f.kind \in {"Union", "Base"}

TargetsOf(word) ==
  IF word \in DOMAIN ast.unions THEN Range(ast.unions[word]) ELSE Implementors(word)

Truth(b) == IF b THEN "true" ELSE "false"

Compare(op, v, w) ==
  IF op = "isNull" THEN Truth((v = Null) = (w = 1))
  ELSE IF v = Null THEN "null"
  ELSE Truth((v = w) = (op = "eq"))
=============================================================================
