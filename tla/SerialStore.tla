----------------------------- MODULE SerialStore ------------------------------
(***************************************************************************)
(* What the API promises concurrent clients about mutations: each takes    *)
(* effect at one moment between its arrival and its answer, on the         *)
(* database of that moment, at most once and only if it applies; a success *)
(* is reported only for a mutation that took effect, a refusal and a       *)
(* missing record only for one that did not.  docs/mutations.md:261 calls  *)
(* this transactional integrity.                                           *)
(***************************************************************************)
CONSTANTS
  Client,       \* the clients
  Id,           \* record identities
  Val,          \* record contents
  NoRow         \* the contents of a record that is not stored

Kinds == {"findMany", "create", "update", "delete", "updateMany", "deleteMany"}
Mutations == Kinds \ {"findMany"}

\* A request: readable says that its select translates, plannable its data,
\* and lookup that its plan begins with a SELECT.
Requests ==
  [kind : Kinds, id : Id, val : Val,
   readable : BOOLEAN, plannable : BOOLEAN, lookup : BOOLEAN]

Replies == {"none", "ok", "refused", "notFound", "failed", "unread", "gone"}

Databases == [Id -> Val \cup {NoRow}]

VARIABLES
  db,      \* the committed database
  req,     \* the last request of each client
  open,    \* whether that request is still being served
  done,    \* whether it has taken effect
  reply    \* its answer

serialVars == <<db, req, open, done, reply>>

\* A strict update or delete needs its record, a create needs the id to be new.
Applies(d, r) ==
  CASE r.kind = "create" -> d[r.id] = NoRow
    [] r.kind \in {"update", "delete"} -> d[r.id] # NoRow
    [] OTHER -> TRUE

Effect(d, r) ==
  [i \in Id |->
     CASE r.kind \in {"create", "update"} /\ i = r.id -> r.val
       [] r.kind = "delete" /\ i = r.id -> NoRow
       [] r.kind = "updateMany" /\ d[i] # NoRow -> r.val
       [] r.kind = "deleteMany" /\ d[i] = r.val -> NoRow
       [] OTHER -> d[i]]

Init ==
  /\ db \in Databases
  /\ req \in [Client -> Requests]
  /\ open = [c \in Client |-> FALSE]
  /\ done = [c \in Client |-> FALSE]
  /\ reply = [c \in Client |-> "none"]

\* A request whose data or select does not translate may be refused at once.
Ask(c) ==
  /\ ~ open[c]
  /\ \E r \in Requests, a \in {"none", "refused"} :
       /\ req' = [req EXCEPT ![c] = r]
       /\ open' = [open EXCEPT ![c] = (a = "none")]
       /\ reply' = [reply EXCEPT ![c] = a]
  /\ done' = [done EXCEPT ![c] = FALSE]
  /\ UNCHANGED db

\* The one moment a mutation takes effect; the answer may come with it.
Apply(c) ==
  /\ open[c]
  /\ ~ done[c]
  /\ req[c].kind \in Mutations
  /\ Applies(db, req[c])
  /\ db' = Effect(db, req[c])
  /\ done' = [done EXCEPT ![c] = TRUE]
  /\ \E a \in {"none", "ok", "unread", "gone"} :
       /\ reply' = [reply EXCEPT ![c] = a]
       /\ open' = [open EXCEPT ![c] = (a = "none")]
  /\ UNCHANGED req

\* The answers a request may get, before and after it took effect.
Truthful(r, took) ==
  IF r.kind = "findMany" THEN {"ok", "refused", "failed", "gone"}
  ELSE IF took THEN {"ok", "unread", "gone"}
  ELSE {"refused", "notFound", "failed", "gone"}

Close(c) ==
  /\ open[c]
  /\ open' = [open EXCEPT ![c] = FALSE]
  /\ \E a \in Truthful(req[c], done[c]) : reply' = [reply EXCEPT ![c] = a]
  /\ UNCHANGED <<db, req, done>>

Next == \E c \in Client : Ask(c) \/ Apply(c) \/ Close(c)

SerialSpec == Init /\ [][Next]_serialVars
===============================================================================
