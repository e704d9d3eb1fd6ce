----------------------------- MODULE CommandLine -----------------------------
(***************************************************************************)
(* main.rs: whatever the command, the schema is read and validated first;  *)
(* then the command line goes to the git proxy, or the router is started   *)
(* and serves reads and mutations over the schema as it was loaded.        *)
(***************************************************************************)
EXTENDS GitProxy, Reads, PolymorphicLinks

vars == <<loading, proxy, reading, linking>>

StartInit == ProxyInit /\ ReadInit /\ LinkInit

Git == stored = <<>> /\ tables = <<>> /\ GitCommand /\ UNCHANGED <<reading, linking>>

Api ==
  /\ outcome = Nothing
  /\ \/ tables = <<>> /\ (StartRouter \/ FindMany) /\ UNCHANGED linking
     \/ /\ stored = <<>>
        /\ ServeMutations \/ \E c \in Changes(text) : Change(c)
        /\ UNCHANGED reading
  /\ UNCHANGED proxy

LoadFirst == Load /\ UNCHANGED <<proxy, reading, linking>>

Next == LoadFirst \/ Git \/ Api

Spec == StartInit /\ [][Next]_vars
=============================================================================
