------------------------------- MODULE Gateway --------------------------------
(***************************************************************************)
(* api_execution_handler under concurrent clients: reads and mutations     *)
(* share a bounded pool of SQLite connections, a delete reads its record   *)
(* before its transaction and on another connection, create and update     *)
(* read theirs after it, and a client may go away at any time.             *)
(*                                                                         *)
(* A plan's statements run here in one step (PlanExecutor takes them one   *)
(* by one): they all run under the one RESERVED lock.  The database file   *)
(* uses SQLite's rollback journal: create_pool sets no journal mode, and   *)
(* vfs::configure_connection, which would, is not called.                  *)
(***************************************************************************)
EXTENDS Naturals, Sequences

CONSTANTS
  Client, Id, Val, NoRow,
  Pools,        \* the pools there may be, as sets of connections: deadpool's
                \* default size depends on the machine
  NoConn,       \* a client holds none
  Nothing,      \* no record data to return
  Sendable,     \* the requests clients send
  MaxSent       \* bound on the number of requests

VARIABLES
  db,           \* the committed database
  req,          \* the last request of each client
  stage,        \* what the server is doing for it
  goal,         \* and what for
  queue,        \* the clients waiting for a connection, first come first served
  idle,         \* the connections in the pool
  conn,         \* the connection each client's request holds
  lock,         \* the lock each connection of the pool holds on the file
  view,         \* the database as the open transaction of each request sees it
  data,         \* the record data read for the answer
  held,         \* what the record held at the times that data may be from
  left,         \* the clients that went away while a closure ran for them
  done,         \* whether the mutation has been committed
  reply,        \* the last answer
  sent          \* requests so far

vars == <<db, req, stage, goal, queue, idle, conn, lock, view, data, held,
          left, done, reply, sent>>

Conn == DOMAIN lock

Serial == INSTANCE SerialStore
            WITH open <- [c \in Client |-> stage[c] # "idle"]

ASSUME GatewayAssumption ==
  /\ Sendable \subseteq Serial!Requests /\ Sendable # {}
  /\ \A P \in Pools : P # {} /\ NoConn \notin P
  /\ NoRow \notin Val /\ Nothing \notin Val \cup {NoRow}
  /\ MaxSent \in Nat

Stages == {"idle", "waiting", "ready", "reading", "writing", "committing"}
Goals == {"none", "find", "pre", "exec", "post"}
Locks == {"none", "shared", "reserved", "pending"}

Init ==
  /\ db \in Serial!Databases
  /\ req = [c \in Client |-> CHOOSE r \in Sendable : TRUE]
  /\ stage = [c \in Client |-> "idle"]
  /\ goal = [c \in Client |-> "none"]
  /\ queue = <<>>
  /\ idle \in Pools
  /\ conn = [c \in Client |-> NoConn]
  /\ lock = [k \in idle |-> "none"]
  /\ view = [c \in Client |-> Nothing]
  /\ data = [c \in Client |-> Nothing]
  /\ held = [c \in Client |-> {}]
  /\ left = [c \in Client |-> FALSE]
  /\ done = [c \in Client |-> FALSE]
  /\ reply = [c \in Client |-> "none"]
  /\ sent = 0

-------------------------------------------------------------------------------
(* What every action is made of.                                           *)

\* db_pool.get().await for purpose g.
Wait(c, g) ==
  /\ stage' = [stage EXCEPT ![c] = "waiting"]
  /\ goal' = [goal EXCEPT ![c] = g]
  /\ queue' = Append(queue, c)

\* The handler returns a; nobody hears it when the client is gone.
Answer(c, a) ==
  /\ stage' = [stage EXCEPT ![c] = "idle"]
  /\ goal' = [goal EXCEPT ![c] = "none"]
  /\ reply' = [reply EXCEPT ![c] = IF left[c] THEN "gone" ELSE a]
  /\ left' = [left EXCEPT ![c] = FALSE]

\* (Mutant: the handle is cleared before it is put back.)
ReleaseCleared(c) ==
  /\ conn' = [conn EXCEPT ![c] = NoConn]
  /\ idle' = idle \cup {conn'[c]}
  /\ lock' = [lock EXCEPT ![conn[c]] = "none"]
  /\ view' = [view EXCEPT ![c] = Nothing]

\* (Mutant: the transaction is still open when the connection goes back.)
ReleaseOpen(c) ==
  /\ idle' = idle \cup {conn[c]}
  /\ conn' = [conn EXCEPT ![c] = NoConn]
  /\ view' = [view EXCEPT ![c] = Nothing]
  /\ UNCHANGED lock

\* The connection goes back to the pool, its transaction over.
Release(c) ==
  /\ idle' = idle \cup {conn[c]}
  /\ conn' = [conn EXCEPT ![c] = NoConn]
  /\ lock' = [lock EXCEPT ![conn[c]] = "none"]
  /\ view' = [view EXCEPT ![c] = Nothing]

\* The request's closure goes on under lock l, seeing d.
Hold(c, s, l, d) ==
  /\ stage' = [stage EXCEPT ![c] = s]
  /\ lock' = [lock EXCEPT ![conn[c]] = l]
  /\ view' = [view EXCEPT ![c] = d]
  /\ UNCHANGED <<goal, queue, idle, conn, left, reply>>

\* After a job whose handler goes on: another connection, unless nobody waits.
Continue(c, g) ==
  IF left[c] THEN Answer(c, "gone") /\ UNCHANGED queue
  ELSE Wait(c, g) /\ UNCHANGED <<left, reply>>

Finish(c, a) == Answer(c, a) /\ UNCHANGED queue

\* hydrate_mutation_to_plan: the request goes on, or is refused.
Plan(c, r) ==
  IF r.plannable \/ left[c] THEN Continue(c, "exec") ELSE Finish(c, "refused")

\* The locks other connections hold.
Others(c) == {lock[k] : k \in Conn \ {conn[c]}}

Reads(c) == goal[c] # "exec" \/ req[c].lookup

\* (Mutant: a commit does not wait for the readers.)
BlockedUntilCommit(c) ==
  \/ /\ stage[c] = "ready"
     /\ \/ "pending" \in Others(c)
        \/ ~ Reads(c) /\ "reserved" \in Others(c)
  \/ /\ stage[c] = "reading" /\ goal[c] = "exec"
     /\ Others(c) \cap {"reserved", "pending"} # {}

\* What SQLite's locks keep c from doing next: reading while a commit is
\* pending, writing while another writes, committing while others read.
Blocked(c) ==
  \/ /\ stage[c] = "ready"
     /\ \/ "pending" \in Others(c)
        \/ ~ Reads(c) /\ "reserved" \in Others(c)
  \/ /\ stage[c] = "reading" /\ goal[c] = "exec"
     /\ Others(c) \cap {"reserved", "pending"} # {}
  \/ stage[c] = "committing" /\ ~ Others(c) \subseteq {"none"}

-------------------------------------------------------------------------------
(* The handler's way through one request.                                  *)

\* A request arrives: an unreadable findMany and an unplannable mutation are
\* refused, a delete first reads what it will return if its select translates,
\* everything else waits for a connection.
Send(c) ==
  /\ stage[c] = "idle" /\ sent < MaxSent
  /\ sent' = sent + 1
  /\ \E r \in Sendable :
       /\ req' = [req EXCEPT ![c] = r]
       /\ held' = [held EXCEPT ![c] = {db[r.id]}]
       /\ LET none == [reply EXCEPT ![c] = "none"]
              Go(g) == Wait(c, g) /\ reply' = none /\ UNCHANGED left
          IN \/ r.kind = "findMany" /\ r.readable /\ Go("find")
             \/ r.kind = "findMany" /\ ~ r.readable /\ Finish(c, "refused")
             \/ r.kind = "delete" /\ r.readable /\ Go("pre")
             \/ /\ r.kind \in Serial!Mutations
                /\ r.kind = "delete" => ~ r.readable
                /\ IF r.plannable THEN Go("exec") ELSE Finish(c, "refused")
  /\ data' = [data EXCEPT ![c] = Nothing]
  /\ done' = [done EXCEPT ![c] = FALSE]
  /\ UNCHANGED <<db, idle, conn, lock, view>>

\* The next in line is given a pooled connection.
Acquire(c) ==
  /\ queue # <<>> /\ c = Head(queue)
  /\ queue' = Tail(queue)
  /\ \E k \in idle :
       /\ idle' = idle \ {k}
       /\ conn' = [conn EXCEPT ![c] = k]
  /\ stage' = [stage EXCEPT ![c] = "ready"]
  /\ UNCHANGED <<db, req, goal, lock, view, data, held, left, done, reply, sent>>

\* A new connection cannot be set up (the pool makes one when none is pooled):
\* execute_mutation_plan returns the error, the reads unwrap it.
ConnectFails(c) ==
  /\ queue # <<>> /\ c = Head(queue) /\ idle # {}
  /\ queue' = Tail(queue)
  /\ Answer(c, IF goal[c] = "exec" THEN "failed" ELSE "gone")
  /\ UNCHANGED <<db, req, idle, conn, lock, view, data, held, done, sent>>

\* A SELECT begins, the handler's or that of a plan which begins with one.
StartRead(c) ==
  /\ stage[c] = "ready"
  /\ Reads(c) /\ ~ Blocked(c)
  /\ goal[c] = "exec" => Serial!Applies(db, req[c])
  /\ Hold(c, "reading", "shared", db)
  /\ UNCHANGED <<db, req, data, held, done, sent>>

\* (Mutant: the record is read as the mutation leaves it.)
EndReadAfter(c) ==
  /\ stage[c] = "reading" /\ goal[c] # "exec"
  /\ Release(c)
  /\ data' = [data EXCEPT ![c] = Serial!Effect(view[c], req[c])[req[c].id]]
  /\ IF goal[c] = "pre" THEN Plan(c, req[c]) ELSE Finish(c, "ok")
  /\ UNCHANGED <<db, req, held, done, sent>>

\* The handler's SELECT ends and its connection goes back.
EndRead(c) ==
  /\ stage[c] = "reading" /\ goal[c] # "exec"
  /\ Release(c)
  /\ data' = [data EXCEPT ![c] = view[c][req[c].id]]
  /\ IF goal[c] = "pre" THEN Plan(c, req[c]) ELSE Finish(c, "ok")
  /\ UNCHANGED <<db, req, held, done, sent>>

\* (Mutant: a failed read loses its connection.)
ReadFailsLeaking(c) ==
  /\ stage[c] \in {"ready", "reading"} /\ goal[c] # "exec"
  /\ conn' = [conn EXCEPT ![c] = NoConn]
  /\ lock' = [lock EXCEPT ![conn[c]] = "none"]
  /\ view' = [view EXCEPT ![c] = Nothing]
  /\ CASE goal[c] = "find" -> Finish(c, "failed")
       [] goal[c] = "pre" -> Plan(c, req[c])
       [] goal[c] = "post" -> Finish(c, "unread")
  /\ UNCHANGED <<db, req, idle, data, held, done, sent>>

\* A read that fails is a 500, but the read before a delete is given up.
ReadFails(c) ==
  /\ stage[c] \in {"ready", "reading"} /\ goal[c] # "exec"
  /\ Release(c)
  /\ CASE goal[c] = "find" -> Finish(c, "failed")
       [] goal[c] = "pre" -> Plan(c, req[c])
       [] goal[c] = "post" -> Finish(c, "unread")
  /\ UNCHANGED <<db, req, data, held, done, sent>>

\* db.transaction() is deferred: the first write takes the lock. All
\* statements of the plan run.
StartWrite(c) ==
  /\ stage[c] = "ready" /\ ~ Reads(c) /\ ~ Blocked(c)
  /\ Serial!Applies(db, req[c])
  /\ Hold(c, "writing", "reserved", Serial!Effect(db, req[c]))
  /\ UNCHANGED <<db, req, data, held, done, sent>>

\* The plan that began with a SELECT comes to its first write.
Upgrade(c) ==
  /\ stage[c] = "reading" /\ goal[c] = "exec" /\ ~ Blocked(c)
  /\ Hold(c, "writing", "reserved", Serial!Effect(view[c], req[c]))
  /\ UNCHANGED <<db, req, data, held, done, sent>>

\* (Mutant: a missing record is taken for success.)
RejectedOk(c) ==
  /\ stage[c] = "ready" /\ goal[c] = "exec" /\ ~ Blocked(c)
  /\ ~ Serial!Applies(db, req[c])
  /\ Release(c)
  /\ Finish(c, "ok")
  /\ UNCHANGED <<db, req, data, held, done, sent>>

\* The record is missing, or there is one already: the first statement fails.
Rejected(c) ==
  /\ stage[c] = "ready" /\ goal[c] = "exec" /\ ~ Blocked(c)
  /\ ~ Serial!Applies(db, req[c])
  /\ Release(c)
  /\ Finish(c, IF req[c].kind = "create" THEN "failed" ELSE "notFound")
  /\ UNCHANGED <<db, req, data, held, done, sent>>

\* A statement or COMMIT fails; the dropped transaction rolls back.
WriteFails(c) ==
  /\ goal[c] = "exec" /\ stage[c] \notin {"waiting", "idle"}
  /\ Release(c)
  /\ Finish(c, "failed")
  /\ UNCHANGED <<db, req, data, held, done, sent>>

\* COMMIT shuts new readers out and waits for the present ones.
StartCommit(c) ==
  /\ stage[c] = "writing"
  /\ Hold(c, "committing", "pending", view[c])
  /\ UNCHANGED <<db, req, data, held, done, sent>>

\* The transaction commits and its connection goes back. A create or an update
\* then reads what it returns, and only now learns of a bad select.
Commit(c) ==
  /\ stage[c] = "committing" /\ ~ Blocked(c)
  /\ db' = view[c]
  /\ done' = [done EXCEPT ![c] = TRUE]
  /\ held' = [d \in Client |->
                IF d # c THEN held[d] \cup {db'[req[d].id]}
                ELSE IF req[c].kind = "delete" THEN held[c]
                ELSE {db'[req[c].id]}]
  /\ Release(c)
  /\ IF req[c].kind \notin {"create", "update"} THEN Finish(c, "ok")
     ELSE IF req[c].readable THEN Continue(c, "post")
     ELSE Finish(c, "unread")
  /\ UNCHANGED <<req, data, sent>>

\* q without its p-th member.
Dropped(q, p) == [j \in 1..(Len(q) - 1) |-> IF j < p THEN q[j] ELSE q[j + 1]]

\* (Mutant: a client that went away keeps its place in the queue.)
DisconnectQueued(c) ==
  /\ stage[c] # "idle" /\ ~ left[c]
  /\ IF stage[c] = "waiting" THEN Answer(c, "gone")
     ELSE left' = [left EXCEPT ![c] = TRUE] /\ UNCHANGED <<stage, goal, reply>>
  /\ UNCHANGED <<db, req, queue, idle, conn, lock, view, data, held, done, sent>>

\* The client goes away and its handler is dropped: one that waits leaves the
\* queue, a running closure runs on to its end.
Disconnect(c) ==
  /\ stage[c] # "idle" /\ ~ left[c]
  /\ IF stage[c] = "waiting"
     THEN /\ \E p \in DOMAIN queue : queue[p] = c /\ queue' = Dropped(queue, p)
          /\ Answer(c, "gone")
     ELSE /\ left' = [left EXCEPT ![c] = TRUE]
          /\ UNCHANGED <<stage, goal, queue, reply>>
  /\ UNCHANGED <<db, req, idle, conn, lock, view, data, held, done, sent>>

\* (Mutant: a blocked statement waits for ever.)
ProgressUntimed(c) ==
  \/ Acquire(c)
  \/ StartRead(c) \/ EndRead(c)
  \/ StartWrite(c) \/ Upgrade(c) \/ Rejected(c)
  \/ StartCommit(c) \/ Commit(c)

\* What the server does by itself. Whoever is blocked fails in the end: a
\* statement and a COMMIT after SQLite's busy timeout (5 s, rusqlite's default),
\* an upgrade at once.
Progress(c) ==
  \/ Acquire(c)
  \/ StartRead(c) \/ EndRead(c)
  \/ StartWrite(c) \/ Upgrade(c) \/ Rejected(c)
  \/ StartCommit(c) \/ Commit(c)
  \/ Blocked(c) /\ (ReadFails(c) \/ WriteFails(c))

Next ==
  \E c \in Client :
    \/ Send(c) \/ Disconnect(c) \/ Progress(c)
    \/ ConnectFails(c) \/ ReadFails(c) \/ WriteFails(c)

\* Every job runs on a thread of its own until it ends.
Spec == Init /\ [][Next]_vars /\ \A c \in Client : WF_vars(Progress(c))

-------------------------------------------------------------------------------
(* Properties.                                                             *)

TypeOK ==
  /\ db \in Serial!Databases
  /\ req \in [Client -> Serial!Requests]
  /\ stage \in [Client -> Stages]
  /\ goal \in [Client -> Goals]
  /\ queue \in Seq(Client)
  /\ idle \subseteq Conn
  /\ conn \in [Client -> Conn \cup {NoConn}]
  /\ Conn \in Pools /\ lock \in [Conn -> Locks]
  /\ view \in [Client -> Serial!Databases \cup {Nothing}]
  /\ data \in [Client -> Val \cup {NoRow, Nothing}]
  /\ held \in [Client -> SUBSET (Val \cup {NoRow})]
  /\ left \in [Client -> BOOLEAN]
  /\ done \in [Client -> BOOLEAN]
  /\ reply \in [Client -> Serial!Replies]
  /\ sent \in Nat

\* No connection is lost or lent twice, whatever fails and whoever leaves, and
\* nobody holds one while waiting for another: a delete, which takes two or
\* three in turn, cannot starve a pool of one (handler.rs:65).
PoolPartition ==
  /\ \A c \in Client : conn[c] # NoConn <=> stage[c] \notin {"idle", "waiting"}
  /\ \A c, d \in Client : conn[c] = conn[d] /\ c # d => conn[c] = NoConn
  /\ \A k \in Conn : k \in idle <=> \A c \in Client : conn[c] # k

\* Each waiting client stands in the queue once, and nobody else does.
QueueHoldsWaiting ==
  /\ \A i, j \in DOMAIN queue : queue[i] = queue[j] => i = j
  /\ \A c \in Client :
       stage[c] = "waiting" <=> \E i \in DOMAIN queue : queue[i] = c

\* One writer at a time, and a pooled connection has no transaction open: the
\* next request would run inside it.
LockDiscipline ==
  /\ \A k \in idle : lock[k] = "none"
  /\ \A c \in Client : conn[c] # NoConn =>
       lock[conn[c]] = CASE stage[c] = "ready" -> "none"
                         [] stage[c] = "reading" -> "shared"
                         [] stage[c] = "writing" -> "reserved"
                         [] stage[c] = "committing" -> "pending"
  /\ \A k, m \in Conn :
       {lock[k], lock[m]} \subseteq {"reserved", "pending"} => k = m

\* No transaction works on a database that has moved on beneath it: a reader
\* sees the committed one, and what a writer will commit is the effect of its
\* request on that, also when its plan read before it wrote (db.rs:27).
ViewIsCurrent ==
  \A c \in Client :
    /\ stage[c] = "reading" =>
         view[c] = db /\ (goal[c] = "exec" => Serial!Applies(db, req[c]))
    /\ stage[c] \in {"writing", "committing"} =>
         /\ Serial!Applies(db, req[c])
         /\ view[c] = Serial!Effect(db, req[c])

\* The record returned is one the database held: for a find between arrival
\* and answer, for a delete between arrival and its own commit, for a create or
\* an update after its own commit (handler.rs:63, 120).
ReturnedWasStored ==
  \A c \in Client :
    reply[c] = "ok" /\ data[c] # Nothing => data[c] \in held[c]

\* To the clients the server is the serial store: each mutation takes effect
\* once and at one moment, and no answer misreports whether it did.
Serializable == Serial!SerialSpec

\* Every request is answered, or its client has gone: no pool, lock or queue
\* keeps it waiting for ever.
Served == \A c \in Client : stage[c] # "idle" ~> stage[c] = "idle"

\* docs/mutations.md:53 of delete: the engine "fetches the record state within
\* the same transaction", so what is returned is what is removed.
DeleteReturnsTheRemoved ==
  [][\A c \in Client :
       req[c].kind = "delete" /\ done'[c] /\ ~ done[c] =>
         data[c] \in {Nothing, db[req[c].id]}]_vars
===============================================================================
