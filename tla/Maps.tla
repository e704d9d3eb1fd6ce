-------------------------------- MODULE Maps ---------------------------------
(***************************************************************************)
(* Functions as maps: TLC's :> and @@ written out, which is how the        *)
(* provers know them.                                                      *)
(***************************************************************************)

\* One entry.
Only(name, value) == [n \in {name} |-> value]

\* The entries of f, and those of g that f has not.
Over(f, g) ==
  [n \in DOMAIN f \cup DOMAIN g |-> IF n \in DOMAIN f THEN f[n] ELSE g[n]]
=============================================================================
