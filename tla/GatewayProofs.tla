---------------------------- MODULE GatewayProofs -----------------------------
(***************************************************************************)
(* Proofs about the gateway, for every set of clients, pools, records and  *)
(* requests.                                                               *)
(***************************************************************************)
EXTENDS Gateway, TLAPS

\* What stage, goal and answer of c say of each other.
Fits(c) ==
  /\ stage[c] = "idle" <=> goal[c] = "none"
  /\ stage[c] \in {"writing", "committing"} => goal[c] = "exec"
  /\ goal[c] = "find" => req[c].kind = "findMany"
  /\ goal[c] = "pre" => req[c].kind = "delete"
  /\ goal[c] = "exec" => req[c].kind \in Serial!Mutations
  /\ goal[c] = "post" => req[c].kind \in {"create", "update"}
  /\ stage[c] # "idle" => (done[c] <=> goal[c] = "post") /\ reply[c] = "none"
  /\ left[c] => stage[c] \notin {"idle", "waiting"}

StageFits == \A c \in Client : Fits(c)

\* ViewIsCurrent for c.
Current(c) ==
  /\ stage[c] = "reading" =>
       view[c] = db /\ (goal[c] = "exec" => Serial!Applies(db, req[c]))
  /\ stage[c] \in {"writing", "committing"} =>
       /\ Serial!Applies(db, req[c])
       /\ view[c] = Serial!Effect(db, req[c])

PoolInv == PoolPartition /\ QueueHoldsWaiting

GatewayInv == TypeOK /\ PoolInv /\ LockDiscipline /\ ViewIsCurrent /\ StageFits

(***************************************************************************)
(* The queue and the pool.                                                 *)
(***************************************************************************)
LEMMA AppendedQueue ==
  ASSUME TypeOK, QueueHoldsWaiting, NEW c \in Client, stage[c] # "waiting",
         queue' = Append(queue, c), stage' = [stage EXCEPT ![c] = "waiting"]
  PROVE  QueueHoldsWaiting'
<1>1. /\ Len(queue') = Len(queue) + 1
      /\ \A i \in 1..Len(queue) : queue'[i] = queue[i]
      /\ queue'[Len(queue) + 1] = c
      /\ DOMAIN queue = 1..Len(queue) /\ Len(queue) \in Nat
      /\ DOMAIN queue' = 1..(Len(queue) + 1)
  BY DEF TypeOK
<1>2. \A i \in DOMAIN queue : queue[i] # c
  BY DEF QueueHoldsWaiting
<1>3. \A i, j \in DOMAIN queue' : queue'[i] = queue'[j] => i = j
  BY <1>1, <1>2 DEF QueueHoldsWaiting
<1>4. ASSUME NEW d \in Client
      PROVE  stage'[d] = "waiting" <=> \E i \in DOMAIN queue' : queue'[i] = d
  <2>1. CASE d = c
    <3>1. stage'[c] = "waiting"
      BY DEF TypeOK
    <3>2. Len(queue) + 1 \in DOMAIN queue'
      BY <1>1
    <3> QED BY <2>1, <3>1, <3>2, <1>1
  <2>2. CASE d # c
    <3>1. stage'[d] = stage[d]
      BY <2>2 DEF TypeOK
    <3>2. stage[d] = "waiting" <=> \E i \in DOMAIN queue : queue[i] = d
      BY DEF QueueHoldsWaiting
    <3>3. \A i \in DOMAIN queue' : queue'[i] = d => i \in DOMAIN queue
      BY <2>2, <1>1
    <3> QED BY <3>1, <3>2, <3>3, <1>1
  <2> QED BY <2>1, <2>2
<1> QED BY <1>3, <1>4 DEF QueueHoldsWaiting

\* A client that leaves the queue at p waits no longer.
LEMMA ShortenedQueue ==
  ASSUME TypeOK, QueueHoldsWaiting, NEW c \in Client, NEW p \in DOMAIN queue,
         queue[p] = c, DOMAIN queue' = 1..(Len(queue) - 1),
         \A j \in 1..(Len(queue) - 1) :
           queue'[j] = IF j < p THEN queue[j] ELSE queue[j + 1],
         NEW s \in Stages \ {"waiting"}, stage' = [stage EXCEPT ![c] = s]
  PROVE  QueueHoldsWaiting'
<1>1. /\ DOMAIN queue = 1..Len(queue) /\ Len(queue) \in Nat /\ p \in 1..Len(queue)
  BY DEF TypeOK
<1>2. \A i \in DOMAIN queue : queue[i] = c => i = p
  BY DEF QueueHoldsWaiting
<1>3. \A i, j \in DOMAIN queue' : queue'[i] = queue'[j] => i = j
  BY <1>1, SMTT(30) DEF QueueHoldsWaiting
<1>4. ASSUME NEW i \in DOMAIN queue, i # p
      PROVE  \E j \in DOMAIN queue' : queue'[j] = queue[i]
  <2>1. CASE i < p
    BY <2>1, <1>1, <1>4
  <2>2. CASE i > p
    <3>1. i - 1 \in DOMAIN queue' /\ queue'[i - 1] = queue[i]
      BY <2>2, <1>1
    <3> QED BY <3>1
  <2> QED BY <2>1, <2>2, <1>1, <1>4
<1>5. ASSUME NEW j \in DOMAIN queue'
      PROVE  \E i \in DOMAIN queue : i # p /\ queue'[j] = queue[i]
  BY <1>1, <1>5, SMTT(30)
<1>6. ASSUME NEW d \in Client
      PROVE  stage'[d] = "waiting" <=> \E i \in DOMAIN queue' : queue'[i] = d
  <2>1. CASE d = c
    BY <2>1, <1>2, <1>5 DEF TypeOK
  <2>2. CASE d # c
    <3>1. stage'[d] = stage[d]
      BY <2>2 DEF TypeOK
    <3>2. stage[d] = "waiting" <=> \E i \in DOMAIN queue : queue[i] = d
      BY DEF QueueHoldsWaiting
    <3> QED BY <2>2, <3>1, <3>2, <1>4, <1>5
  <2> QED BY <2>1, <2>2
<1> QED BY <1>3, <1>6 DEF QueueHoldsWaiting

\* The queue without its head.
LEMMA HeadQueue ==
  ASSUME TypeOK, queue # <<>>
  PROVE  /\ 1 \in DOMAIN queue /\ Head(queue) = queue[1]
         /\ Tail(queue) \in Seq(Client)
         /\ DOMAIN Tail(queue) = 1..(Len(queue) - 1)
         /\ \A j \in 1..(Len(queue) - 1) :
              Tail(queue)[j] = IF j < 1 THEN queue[j] ELSE queue[j + 1]
BY DEF TypeOK

\* The queue without the client at p.
LEMMA DroppedQueue ==
  ASSUME TypeOK, NEW p \in DOMAIN queue
  PROVE  Dropped(queue, p) \in Seq(Client)
<1>1. Len(queue) \in Nat \ {0} /\ DOMAIN queue = 1..Len(queue)
  BY DEF TypeOK
<1>2. Len(queue) - 1 \in Nat
  BY <1>1
<1>3. \A j \in 1..(Len(queue) - 1) : queue[j] \in Client /\ queue[j + 1] \in Client
  BY <1>1 DEF TypeOK
<1> QED BY <1>2, <1>3 DEF Dropped

\* The queue of those who wait does not change when others move.
LEMMA UntouchedQueue ==
  ASSUME TypeOK, QueueHoldsWaiting, NEW c \in Client, stage[c] # "waiting",
         UNCHANGED queue,
         NEW s \in Stages \ {"waiting"}, stage' = [stage EXCEPT ![c] = s]
  PROVE  QueueHoldsWaiting'
BY DEF TypeOK, QueueHoldsWaiting

(***************************************************************************)
(* Every action is one of three as far as pool, queue and locks go: a      *)
(* closure goes on, a closure ends, or a client without connection moves.  *)
(***************************************************************************)
PoolType ==
  /\ stage \in [Client -> Stages]
  /\ goal \in [Client -> Goals]
  /\ queue \in Seq(Client)
  /\ idle \subseteq Conn
  /\ conn \in [Client -> Conn \cup {NoConn}]
  /\ Conn \in Pools /\ lock \in [Conn -> Locks]
  /\ view \in [Client -> Serial!Databases \cup {Nothing}]
  /\ left \in [Client -> BOOLEAN]
  /\ reply \in [Client -> Serial!Replies]

Held == PoolType /\ PoolPartition /\ QueueHoldsWaiting /\ LockDiscipline

\* No connection is not a connection.
LEMMA NoConnIsNone == TypeOK => NoConn \notin Conn
BY GatewayAssumption DEF TypeOK

\* A client takes a lock and a view on its connection.
LEMMA HoldStep ==
  ASSUME TypeOK, PoolInv, LockDiscipline, NEW c \in Client,
         stage[c] \notin {"idle", "waiting"},
         NEW s, NEW l, NEW d \in Serial!Databases,
         \/ s = "reading" /\ l = "shared"
         \/ s = "writing" /\ l = "reserved"
         \/ s = "committing" /\ l = "pending",
         l # "shared" => Others(c) \cap {"reserved", "pending"} = {},
         Hold(c, s, l, d)
  PROVE  Held'
<1> USE DEF PoolInv
<1>1. conn[c] \in Conn /\ conn[c] \notin idle
  BY DEF TypeOK, PoolPartition
<1>2. /\ stage' = [stage EXCEPT ![c] = s] /\ lock' = [lock EXCEPT ![conn[c]] = l]
      /\ view' = [view EXCEPT ![c] = d]
      /\ UNCHANGED <<goal, queue, idle, conn, left, reply>>
  BY DEF Hold
<1>3. Conn' = Conn
  BY <1>2 DEF Conn, TypeOK
<1>4. PoolType'
  BY <1>1, <1>2, <1>3 DEF TypeOK, PoolType, Stages, Locks
<1>5. PoolPartition'
  BY <1>2, <1>3 DEF PoolPartition, TypeOK
<1>6. QueueHoldsWaiting'
  BY <1>2, UntouchedQueue DEF Stages
<1>7. LockDiscipline'
  <2>1. \A k \in idle' : lock'[k] = "none"
    BY <1>1, <1>2 DEF LockDiscipline, TypeOK
  <2>2. ASSUME NEW e \in Client, conn'[e] # NoConn
        PROVE  lock'[conn'[e]] = CASE stage'[e] = "ready" -> "none"
                                   [] stage'[e] = "reading" -> "shared"
                                   [] stage'[e] = "writing" -> "reserved"
                                   [] stage'[e] = "committing" -> "pending"
    <3>1. CASE e = c
      BY <3>1, <1>1, <1>2 DEF TypeOK
    <3>2. CASE e # c
      <4>1. conn[e] # conn[c] /\ conn[e] \in Conn
        BY <3>2, <2>2, <1>2, <1>1, NoConnIsNone DEF PoolPartition, TypeOK
      <4> QED BY <3>2, <4>1, <2>2, <1>2 DEF LockDiscipline, TypeOK
    <3> QED BY <3>1, <3>2
  <2>3. ASSUME NEW k \in Conn', NEW m \in Conn',
               {lock'[k], lock'[m]} \subseteq {"reserved", "pending"}
        PROVE  k = m
    <3>1. CASE k # conn[c] /\ m # conn[c]
      BY <3>1, <2>3, <1>2, <1>3 DEF LockDiscipline, TypeOK
    <3>2. CASE k = conn[c] /\ m # conn[c]
      BY <3>2, <2>3, <1>2, <1>3 DEF Others, TypeOK
    <3>3. CASE k # conn[c] /\ m = conn[c]
      BY <3>3, <2>3, <1>2, <1>3 DEF Others, TypeOK
    <3> QED BY <3>1, <3>2, <3>3
  <2> QED BY <2>1, <2>2, <2>3 DEF LockDiscipline
<1> QED BY <1>4, <1>5, <1>6, <1>7 DEF Held

\* A client gives its connection back.
LEMMA ReleaseStep ==
  ASSUME TypeOK, PoolInv, LockDiscipline, NEW c \in Client,
         stage[c] \notin {"idle", "waiting"}, Release(c),
         \/ \E a \in Serial!Replies : Finish(c, a)
         \/ \E g \in Goals : Continue(c, g)
  PROVE  Held'
<1> USE DEF PoolInv
<1>1. conn[c] \in Conn /\ conn[c] \notin idle
  BY DEF TypeOK, PoolPartition
<1>2. /\ idle' = idle \cup {conn[c]} /\ conn' = [conn EXCEPT ![c] = NoConn]
      /\ lock' = [lock EXCEPT ![conn[c]] = "none"]
      /\ view' = [view EXCEPT ![c] = Nothing]
  BY DEF Release
<1>3. Conn' = Conn
  BY <1>2 DEF Conn, TypeOK
<1>4. \/ /\ stage' = [stage EXCEPT ![c] = "idle"] /\ UNCHANGED queue
         /\ goal' = [goal EXCEPT ![c] = "none"]
         /\ left' = [left EXCEPT ![c] = FALSE]
         /\ \E a \in Serial!Replies : reply' = [reply EXCEPT ![c] = a]
      \/ /\ stage' = [stage EXCEPT ![c] = "waiting"] /\ queue' = Append(queue, c)
         /\ \E g \in Goals : goal' = [goal EXCEPT ![c] = g]
         /\ UNCHANGED <<left, reply>>
  BY DEF Finish, Continue, Answer, Wait, Serial!Replies
<1>5. PoolType'
  <2>1. queue' \in Seq(Client)
    <3>1. queue \in Seq(Client) /\ Append(queue, c) \in Seq(Client)
      BY DEF TypeOK
    <3> QED BY <3>1, <1>4
  <2>2. view' \in [Client -> Serial!Databases \cup {Nothing}]
    BY <1>2 DEF TypeOK
  <2>3. /\ stage' \in [Client -> Stages] /\ goal' \in [Client -> Goals]
        /\ left' \in [Client -> BOOLEAN] /\ reply' \in [Client -> Serial!Replies]
    <3>1. \E x \in {"idle", "waiting"} : stage' = [stage EXCEPT ![c] = x]
      BY <1>4
    <3>2. \E g \in Goals : goal' = [goal EXCEPT ![c] = g]
      BY <1>4 DEF Goals
    <3>3. left' = left \/ left' = [left EXCEPT ![c] = FALSE]
      BY <1>4
    <3>4. reply' = reply \/ \E a \in Serial!Replies : reply' = [reply EXCEPT ![c] = a]
      BY <1>4
    <3>5. stage' \in [Client -> Stages]
      BY <3>1 DEF TypeOK, Stages
    <3>6. goal' \in [Client -> Goals]
      BY <3>2 DEF TypeOK
    <3>7. left' \in [Client -> BOOLEAN]
      BY <3>3 DEF TypeOK
    <3>8. reply' \in [Client -> Serial!Replies]
      BY <3>4 DEF TypeOK
    <3> QED BY <3>5, <3>6, <3>7, <3>8
  <2>4. /\ idle' \subseteq Conn' /\ conn' \in [Client -> Conn' \cup {NoConn}]
        /\ Conn' \in Pools /\ lock' \in [Conn' -> Locks]
    BY <1>1, <1>2, <1>3 DEF TypeOK, Locks
  <2> QED BY <2>1, <2>2, <2>3, <2>4 DEF PoolType
<1>6. PoolPartition'
  <2>1. \A e \in Client : e # c => stage'[e] = stage[e] /\ conn'[e] = conn[e]
    BY <1>2, <1>4 DEF TypeOK
  <2>2. conn'[c] = NoConn /\ stage'[c] \in {"idle", "waiting"}
    BY <1>2, <1>4 DEF TypeOK
  <2>3. ASSUME NEW k \in Conn
        PROVE  k \in idle' <=> \A e \in Client : conn'[e] # k
    <3>1. CASE k = conn[c]
      BY <3>1, <2>1, <2>2, <1>1, <1>2, NoConnIsNone DEF PoolPartition
    <3>2. CASE k # conn[c]
      BY <3>2, <2>1, <2>2, <1>1, <1>2, NoConnIsNone DEF PoolPartition
    <3> QED BY <3>1, <3>2
  <2> QED BY <2>1, <2>2, <2>3, <1>3 DEF PoolPartition
<1>7. QueueHoldsWaiting'
  BY <1>4, UntouchedQueue, AppendedQueue DEF Stages
<1>8. LockDiscipline'
  <2>1. \A e \in Client : e # c => stage'[e] = stage[e] /\ conn'[e] = conn[e]
    BY <1>2, <1>4 DEF TypeOK
  <2>2. \A k \in Conn : lock'[k] = IF k = conn[c] THEN "none" ELSE lock[k]
    BY <1>2 DEF TypeOK
  <2>3. \A k \in idle' : lock'[k] = "none"
    BY <1>1, <1>2, <2>2 DEF LockDiscipline, TypeOK
  <2>4. \A e \in Client : conn'[e] # NoConn =>
           e # c /\ conn[e] # conn[c] /\ conn[e] \in Conn
    BY <1>1, <1>2, <2>1 DEF PoolPartition, TypeOK
  <2>5. ASSUME NEW e \in Client, conn'[e] # NoConn
        PROVE  lock'[conn'[e]] = lock[conn[e]] /\ stage'[e] = stage[e]
               /\ conn[e] # NoConn
    BY <2>1, <2>2, <2>4, <2>5
  <2>6. \A k, m \in Conn : {lock'[k], lock'[m]} \subseteq {"reserved", "pending"} => k = m
    BY <2>2 DEF LockDiscipline
  <2> QED BY <2>3, <2>5, <2>6, <1>3 DEF LockDiscipline
<1> QED BY <1>5, <1>6, <1>7, <1>8 DEF Held

\* A client joins the queue or leaves it.
LEMMA QueueStep ==
  ASSUME TypeOK, PoolInv, LockDiscipline, NEW c \in Client,
         stage[c] \in {"idle", "waiting"},
         NEW s \in {"idle", "waiting"}, stage' = [stage EXCEPT ![c] = s],
         queue' \in Seq(Client), QueueHoldsWaiting',
         NEW g \in Goals, goal' = [goal EXCEPT ![c] = g],
         left' \in [Client -> BOOLEAN], reply' \in [Client -> Serial!Replies],
         UNCHANGED <<idle, conn, lock, view>>
  PROVE  Held'
<1> USE DEF PoolInv
<1>1. Conn' = Conn
  BY DEF Conn
<1>2. PoolType'
  BY <1>1 DEF TypeOK, PoolType, Stages
<1>3. conn[c] = NoConn
  BY DEF PoolPartition
<1>4. \A e \in Client : e # c => stage'[e] = stage[e]
  BY DEF TypeOK
<1>5. stage'[c] \in {"idle", "waiting"}
  BY DEF TypeOK
<1>6. PoolPartition'
  BY <1>1, <1>3, <1>4, <1>5 DEF PoolPartition
<1>7. ASSUME NEW e \in Client, conn[e] # NoConn
      PROVE  stage'[e] = stage[e]
  BY <1>3, <1>4, <1>7
<1>8. LockDiscipline'
  BY <1>1, <1>7 DEF LockDiscipline
<1> QED BY <1>2, <1>6, <1>8 DEF Held

(***************************************************************************)
(* The views.                                                              *)
(***************************************************************************)
LEMMA EffectType ==
  ASSUME NEW d \in Serial!Databases, NEW r \in Serial!Requests
  PROVE  Serial!Effect(d, r) \in Serial!Databases
BY DEF Serial!Effect, Serial!Databases, Serial!Requests

\* What a transaction sees is a database.
LEMMA ViewType ==
  ASSUME TypeOK, ViewIsCurrent, NEW c \in Client,
         stage[c] \in {"reading", "writing", "committing"}
  PROVE  view[c] \in Serial!Databases
<1>1. CASE stage[c] = "reading"
  BY <1>1 DEF TypeOK, ViewIsCurrent
<1>2. CASE stage[c] # "reading"
  <2>1. view[c] = Serial!Effect(db, req[c])
    BY <1>2 DEF ViewIsCurrent
  <2> QED BY <2>1, EffectType DEF TypeOK
<1> QED BY <1>1, <1>2

(***************************************************************************)
(* An action of c that leaves the database alone disturbs nobody else.     *)
(***************************************************************************)
Apart(c) ==
  \A e \in Client \ {c} :
    /\ stage'[e] = stage[e] /\ goal'[e] = goal[e] /\ view'[e] = view[e]
    /\ req'[e] = req[e] /\ done'[e] = done[e]
    /\ reply'[e] = reply[e] /\ left'[e] = left[e]

\* An action of c that leaves the views of the others alone.
LEMMA Local ==
  ASSUME ViewIsCurrent, StageFits, NEW c \in Client,
         UNCHANGED db, Apart(c), Fits(c)', Current(c)'
  PROVE  ViewIsCurrent' /\ StageFits'
<1>1. ASSUME NEW e \in Client PROVE Fits(e)'
  <2>1. CASE e = c
    BY <2>1
  <2>2. CASE e # c
    BY <2>2 DEF Apart, StageFits, Fits
  <2> QED BY <2>1, <2>2
<1>2. ASSUME NEW e \in Client PROVE Current(e)'
  <2>1. CASE e = c
    BY <2>1
  <2>2. CASE e # c
    BY <2>2 DEF Apart, ViewIsCurrent, Current
  <2> QED BY <2>1, <2>2
<1> QED BY <1>1, <1>2 DEF StageFits, ViewIsCurrent, Current

DataType ==
  /\ db \in Serial!Databases
  /\ req \in [Client -> Serial!Requests]
  /\ data \in [Client -> Val \cup {NoRow, Nothing}]
  /\ held \in [Client -> SUBSET (Val \cup {NoRow})]
  /\ done \in [Client -> BOOLEAN]
  /\ sent \in Nat

\* The parts of GatewayInv.
LEMMA Assembled ==
  ASSUME Held', DataType', ViewIsCurrent', StageFits'
  PROVE  GatewayInv'
BY DEF Held, DataType, PoolType, TypeOK, PoolInv, GatewayInv

\* A client that is idle or waits has no view to keep.
LEMMA Unseen ==
  ASSUME NEW c \in Client, stage'[c] \in {"idle", "waiting", "ready"}
  PROVE  Current(c)'
BY DEF Current

\* A closure that goes on under a lock.
LEMMA HoldInv ==
  ASSUME GatewayInv, NEW c \in Client,
         stage[c] \notin {"idle", "waiting"}, goal[c] # "none",
         NEW s, NEW l, NEW d \in Serial!Databases,
         \/ s = "reading" /\ l = "shared" /\ d = db
            /\ (goal[c] = "exec" => Serial!Applies(db, req[c]))
         \/ /\ <<s, l>> \in {<<"writing", "reserved">>, <<"committing", "pending">>}
            /\ goal[c] = "exec" /\ Serial!Applies(db, req[c])
            /\ d = Serial!Effect(db, req[c]),
         l # "shared" => Others(c) \cap {"reserved", "pending"} = {},
         Hold(c, s, l, d), UNCHANGED <<db, req, data, held, done, sent>>
  PROVE  GatewayInv'
<1>1. Held'
  BY HoldStep DEF GatewayInv
<1>2. DataType'
  BY DEF GatewayInv, TypeOK, DataType
<1>3. /\ stage' = [stage EXCEPT ![c] = s] /\ view' = [view EXCEPT ![c] = d]
      /\ UNCHANGED <<goal, left, reply>>
  BY DEF Hold
<1>4. /\ stage \in [Client -> Stages]
      /\ view \in [Client -> Serial!Databases \cup {Nothing}]
  BY DEF GatewayInv, TypeOK
<1>5. stage'[c] = s /\ view'[c] = d /\ Apart(c)
  BY <1>3, <1>4 DEF Apart
<1>6. Fits(c)'
  BY <1>3, <1>5 DEF GatewayInv, StageFits, Fits
<1>7. Current(c)'
  BY <1>3, <1>5 DEF Current
<1> QED BY <1>1, <1>2, <1>5, <1>6, <1>7, Local, Assembled DEF GatewayInv

\* A closure that ends, before any commit.
LEMMA ReleaseInv ==
  ASSUME GatewayInv, NEW c \in Client,
         stage[c] \notin {"idle", "waiting"}, Release(c),
         \/ \E a \in Serial!Replies : Finish(c, a)
         \/ req[c].kind = "delete" /\ goal[c] = "pre" /\ Continue(c, "exec"),
         UNCHANGED <<db, req, done>>, DataType'
  PROVE  GatewayInv'
<1>1. Held'
  BY ReleaseStep DEF GatewayInv, Goals
<1>2. view' = [view EXCEPT ![c] = Nothing]
  BY DEF Release
<1>3. \/ /\ stage' = [stage EXCEPT ![c] = "idle"]
         /\ goal' = [goal EXCEPT ![c] = "none"]
         /\ left' = [left EXCEPT ![c] = FALSE]
         /\ \E a : reply' = [reply EXCEPT ![c] = a]
      \/ /\ req[c].kind = "delete" /\ goal[c] = "pre" /\ ~ left[c]
         /\ stage' = [stage EXCEPT ![c] = "waiting"]
         /\ goal' = [goal EXCEPT ![c] = "exec"]
         /\ UNCHANGED <<left, reply>>
  BY DEF Finish, Continue, Answer, Wait, GatewayInv, TypeOK
<1>4. /\ stage \in [Client -> Stages] /\ goal \in [Client -> Goals]
      /\ left \in [Client -> BOOLEAN] /\ reply \in [Client -> Serial!Replies]
      /\ view \in [Client -> Serial!Databases \cup {Nothing}]
  BY DEF GatewayInv, TypeOK
<1>5. Apart(c)
  BY <1>2, <1>3, <1>4 DEF Apart
<1>6. Fits(c)'
  <2>1. Fits(c)
    BY DEF GatewayInv, StageFits
  <2> QED BY <1>3, <1>4, <2>1 DEF Fits, Serial!Mutations, Serial!Kinds
<1>7. stage'[c] \in {"idle", "waiting"}
  BY <1>3, <1>4
<1> QED BY <1>1, <1>5, <1>6, <1>7, Unseen, Local, Assembled DEF GatewayInv

(***************************************************************************)
(* The actions.                                                            *)
(***************************************************************************)
LEMMA SendInv ==
  ASSUME GatewayInv, NEW c \in Client, Send(c)
  PROVE  GatewayInv'
<1>1. stage[c] = "idle" /\ goal[c] = "none" /\ ~ left[c]
  BY DEF Send, GatewayInv, StageFits, Fits
<1>2. PICK r \in Sendable :
        /\ req' = [req EXCEPT ![c] = r]
        /\ held' = [held EXCEPT ![c] = {db[r.id]}]
        /\ \/ r.kind = "findMany" /\ Wait(c, "find")
              /\ reply' = [reply EXCEPT ![c] = "none"] /\ UNCHANGED left
           \/ Finish(c, "refused")
           \/ r.kind = "delete" /\ Wait(c, "pre")
              /\ reply' = [reply EXCEPT ![c] = "none"] /\ UNCHANGED left
           \/ r.kind \in Serial!Mutations /\ Wait(c, "exec")
              /\ reply' = [reply EXCEPT ![c] = "none"] /\ UNCHANGED left
  BY DEF Send
<1>3. r \in Serial!Requests
  BY GatewayAssumption
<1>4. /\ stage \in [Client -> Stages] /\ goal \in [Client -> Goals]
      /\ left \in [Client -> BOOLEAN] /\ reply \in [Client -> Serial!Replies]
      /\ req \in [Client -> Serial!Requests] /\ done \in [Client -> BOOLEAN]
      /\ queue \in Seq(Client)
  BY DEF GatewayInv, TypeOK
<1>5. \/ /\ stage' = [stage EXCEPT ![c] = "waiting"] /\ queue' = Append(queue, c)
         /\ reply' = [reply EXCEPT ![c] = "none"] /\ UNCHANGED left
         /\ \/ r.kind = "findMany" /\ goal' = [goal EXCEPT ![c] = "find"]
            \/ r.kind = "delete" /\ goal' = [goal EXCEPT ![c] = "pre"]
            \/ r.kind \in Serial!Mutations /\ goal' = [goal EXCEPT ![c] = "exec"]
      \/ /\ stage' = [stage EXCEPT ![c] = "idle"] /\ UNCHANGED queue
         /\ reply' = [reply EXCEPT ![c] = "refused"]
         /\ left' = [left EXCEPT ![c] = FALSE]
         /\ goal' = [goal EXCEPT ![c] = "none"]
  BY <1>1, <1>2 DEF Finish, Answer, Wait
<1>6. /\ UNCHANGED <<db, idle, conn, lock, view>>
      /\ done' = [done EXCEPT ![c] = FALSE]
  BY DEF Send
<1>7. Held'
  <2>1. left' \in [Client -> BOOLEAN] /\ reply' \in [Client -> Serial!Replies]
    BY <1>4, <1>5 DEF Serial!Replies
  <2>2. PICK s \in {"idle", "waiting"} : stage' = [stage EXCEPT ![c] = s]
    BY <1>5
  <2>3. PICK g \in Goals : goal' = [goal EXCEPT ![c] = g]
    BY <1>5 DEF Goals
  <2>4. queue' \in Seq(Client)
    <3>1. Append(queue, c) \in Seq(Client)
      BY <1>4
    <3> QED BY <3>1, <1>4, <1>5
  <2>5. QueueHoldsWaiting'
    BY <1>1, <1>5, AppendedQueue, UntouchedQueue DEF GatewayInv, PoolInv, Stages
  <2> QED BY <2>1, <2>2, <2>3, <2>4, <2>5, <1>1, <1>6, QueueStep DEF GatewayInv
<1>8. DataType'
  <2>1. db[r.id] \in Val \cup {NoRow}
    BY <1>3 DEF GatewayInv, TypeOK, Serial!Databases, Serial!Requests
  <2>2. held' \in [Client -> SUBSET (Val \cup {NoRow})]
    BY <2>1, <1>2 DEF GatewayInv, TypeOK
  <2> QED BY <2>2, <1>2, <1>3, <1>6 DEF GatewayInv, TypeOK, DataType, Send
<1>9. Apart(c)
  BY <1>2, <1>4, <1>5, <1>6 DEF Apart
<1>10. Fits(c)'
  BY <1>1, <1>2, <1>4, <1>5, <1>6 DEF Fits
<1>11. stage'[c] \in {"idle", "waiting"}
  BY <1>4, <1>5
<1> QED BY <1>6, <1>7, <1>8, <1>9, <1>10, <1>11, Unseen, Local, Assembled DEF GatewayInv

\* The head of the queue takes a connection.
LEMMA AcquireInv ==
  ASSUME GatewayInv, NEW c \in Client, Acquire(c)
  PROVE  GatewayInv'
<1> USE DEF GatewayInv, PoolInv
<1>1. PICK k \in idle : /\ idle' = idle \ {k}
                        /\ conn' = [conn EXCEPT ![c] = k]
  BY DEF Acquire
<1>2. /\ queue # <<>> /\ c = Head(queue) /\ queue' = Tail(queue)
      /\ stage' = [stage EXCEPT ![c] = "ready"]
      /\ UNCHANGED <<db, req, goal, lock, view, data, held, left, done, reply, sent>>
  BY DEF Acquire
<1>3. /\ stage \in [Client -> Stages] /\ conn \in [Client -> Conn \cup {NoConn}]
      /\ k \in Conn /\ Conn' = Conn /\ k # NoConn
  BY <1>1, <1>2, NoConnIsNone DEF TypeOK, Conn
<1>4. stage[c] = "waiting" /\ conn[c] = NoConn
  BY <1>2, HeadQueue DEF QueueHoldsWaiting, PoolPartition
<1>5. PoolType'
  BY <1>1, <1>2, <1>3, HeadQueue DEF PoolType, TypeOK, Stages
<1>6. \A e \in Client : e # c => stage'[e] = stage[e] /\ conn'[e] = conn[e]
  BY <1>1, <1>2, <1>3
<1>7. stage'[c] = "ready" /\ conn'[c] = k
  BY <1>1, <1>2, <1>3
<1>8. PoolPartition'
  <2>1. \A e \in Client : conn[e] # k
    BY <1>1, <1>3 DEF PoolPartition
  <2>2. \A e \in Client : conn'[e] # NoConn <=> stage'[e] \notin {"idle", "waiting"}
    BY <1>3, <1>6, <1>7 DEF PoolPartition
  <2>3. \A e, f \in Client : conn'[e] = conn'[f] /\ e # f => conn'[e] = NoConn
    BY <2>1, <1>6, <1>7 DEF PoolPartition
  <2>4. \A m \in Conn : m \in idle' <=> \A e \in Client : conn'[e] # m
    BY <2>1, <1>1, <1>3, <1>4, <1>6, <1>7, NoConnIsNone DEF PoolPartition
  <2> QED BY <2>2, <2>3, <2>4, <1>3 DEF PoolPartition
<1>9. QueueHoldsWaiting'
  BY <1>2, HeadQueue, ShortenedQueue DEF Stages
<1>10. LockDiscipline'
  <2>1. lock[k] = "none"
    BY <1>1 DEF LockDiscipline
  <2>2. ASSUME NEW e \in Client, e # c, conn'[e] # NoConn
        PROVE  conn'[e] = conn[e] /\ stage'[e] = stage[e]
    BY <2>2, <1>6
  <2>3. \A m \in idle' : lock'[m] = "none"
    BY <1>1, <1>2 DEF LockDiscipline
  <2>4. ASSUME NEW e \in Client, conn'[e] # NoConn
        PROVE  lock'[conn'[e]] = CASE stage'[e] = "ready" -> "none"
                                   [] stage'[e] = "reading" -> "shared"
                                   [] stage'[e] = "writing" -> "reserved"
                                   [] stage'[e] = "committing" -> "pending"
    <3>1. CASE e = c
      BY <3>1, <2>1, <1>2, <1>7
    <3>2. CASE e # c
      BY <3>2, <2>2, <2>4, <1>2 DEF LockDiscipline
    <3> QED BY <3>1, <3>2
  <2>5. \A m, n \in Conn' :
          {lock'[m], lock'[n]} \subseteq {"reserved", "pending"} => m = n
    BY <1>2, <1>3 DEF LockDiscipline
  <2> QED BY <2>3, <2>4, <2>5 DEF LockDiscipline
<1>11. DataType'
  BY <1>2 DEF TypeOK, DataType
<1>12. Apart(c)
  BY <1>2, <1>3 DEF Apart
<1>13. Fits(c)'
  BY <1>2, <1>4, <1>7 DEF StageFits, Fits
<1> QED BY <1>2, <1>5, <1>7, <1>8, <1>9, <1>10, <1>11, <1>12, <1>13, Unseen, Local,
           Assembled DEF Held

\* The pool cannot open a connection.
LEMMA ConnectFailsInv ==
  ASSUME GatewayInv, NEW c \in Client, ConnectFails(c)
  PROVE  GatewayInv'
<1> USE DEF GatewayInv, PoolInv
<1>1. /\ queue # <<>> /\ c = Head(queue) /\ queue' = Tail(queue)
      /\ stage' = [stage EXCEPT ![c] = "idle"]
      /\ goal' = [goal EXCEPT ![c] = "none"]
      /\ left' = [left EXCEPT ![c] = FALSE]
      /\ \E a \in Serial!Replies : reply' = [reply EXCEPT ![c] = a]
      /\ UNCHANGED <<db, req, idle, conn, lock, view, data, held, done, sent>>
  BY DEF ConnectFails, Answer, Serial!Replies
<1>2. /\ stage \in [Client -> Stages] /\ goal \in [Client -> Goals]
      /\ left \in [Client -> BOOLEAN] /\ reply \in [Client -> Serial!Replies]
  BY DEF TypeOK
<1>3. stage[c] = "waiting"
  BY <1>1, HeadQueue DEF QueueHoldsWaiting
<1>4. Held'
  <2>1. QueueHoldsWaiting'
    BY <1>1, HeadQueue, ShortenedQueue DEF Stages
  <2>2. left' \in [Client -> BOOLEAN] /\ reply' \in [Client -> Serial!Replies]
    BY <1>1, <1>2
  <2> QED BY <2>1, <2>2, <1>1, <1>3, HeadQueue, QueueStep DEF Goals
<1>5. DataType'
  BY <1>1 DEF TypeOK, DataType
<1>6. Apart(c)
  BY <1>1, <1>2 DEF Apart
<1>7. Fits(c)'
  BY <1>1, <1>2 DEF Fits
<1>8. stage'[c] = "idle"
  BY <1>1, <1>2
<1> QED BY <1>1, <1>4, <1>5, <1>6, <1>7, <1>8, Unseen, Local, Assembled

\* A client goes away, waiting or served.
LEMMA DisconnectInv ==
  ASSUME GatewayInv, NEW c \in Client, Disconnect(c)
  PROVE  GatewayInv'
<1> USE DEF GatewayInv, PoolInv
<1>1. /\ stage \in [Client -> Stages] /\ goal \in [Client -> Goals]
      /\ left \in [Client -> BOOLEAN] /\ reply \in [Client -> Serial!Replies]
  BY DEF TypeOK
<1>2. UNCHANGED <<db, req, idle, conn, lock, view, data, held, done, sent>>
  BY DEF Disconnect
<1>3. DataType'
  BY <1>2 DEF TypeOK, DataType
<1>4. CASE stage[c] = "waiting"
  <2>1. PICK p \in DOMAIN queue : queue[p] = c /\ queue' = Dropped(queue, p)
    BY <1>4 DEF Disconnect
  <2>2. /\ stage' = [stage EXCEPT ![c] = "idle"]
        /\ goal' = [goal EXCEPT ![c] = "none"]
        /\ left' = [left EXCEPT ![c] = FALSE]
        /\ reply' = [reply EXCEPT ![c] = "gone"]
    BY <1>4 DEF Disconnect, Answer
  <2>3. /\ DOMAIN queue' = 1..(Len(queue) - 1)
        /\ \A j \in 1..(Len(queue) - 1) :
             queue'[j] = IF j < p THEN queue[j] ELSE queue[j + 1]
    BY <2>1 DEF Dropped
  <2>4. QueueHoldsWaiting'
    BY <2>1, <2>2, <2>3, ShortenedQueue DEF Stages
  <2>5. queue' \in Seq(Client)
    BY <2>1, DroppedQueue
  <2>6. left' \in [Client -> BOOLEAN] /\ reply' \in [Client -> Serial!Replies]
    BY <2>2, <1>1 DEF Serial!Replies
  <2>7. Held'
    BY <2>2, <2>4, <2>5, <2>6, <1>2, <1>4, QueueStep DEF Goals
  <2>8. Apart(c)
    BY <2>2, <1>1, <1>2 DEF Apart
  <2>9. Fits(c)'
    BY <2>2, <1>1 DEF Fits
  <2>10. stage'[c] = "idle"
    BY <2>2, <1>1
  <2> QED BY <2>7, <2>8, <2>9, <2>10, <1>2, <1>3, Unseen, Local, Assembled
<1>5. CASE stage[c] # "waiting"
  <2>1. /\ left' = [left EXCEPT ![c] = TRUE]
        /\ UNCHANGED <<stage, goal, queue, reply>>
    BY <1>5 DEF Disconnect
  <2>2. Conn' = Conn
    BY <1>2 DEF Conn
  <2>3. Held'
    <3>1. PoolType'
      BY <2>1, <2>2, <1>2 DEF TypeOK, PoolType
    <3>2. PoolPartition' /\ QueueHoldsWaiting'
      BY <2>1, <2>2, <1>2 DEF PoolPartition, QueueHoldsWaiting
    <3>3. LockDiscipline'
      BY <2>1, <2>2, <1>2 DEF LockDiscipline
    <3> QED BY <3>1, <3>2, <3>3 DEF Held
  <2>4. Apart(c)
    BY <2>1, <1>1, <1>2 DEF Apart
  <2>5. Fits(c)'
    BY <2>1, <1>1, <1>2, <1>5 DEF Disconnect, StageFits, Fits
  <2>6. Current(c)'
    BY <2>1, <1>2 DEF ViewIsCurrent, Current
  <2> QED BY <2>3, <2>4, <2>5, <2>6, <1>2, <1>3, Local, Assembled
<1> QED BY <1>4, <1>5

\* A request goes on under a lock.
LEMMA HoldingInv ==
  ASSUME GatewayInv, NEW c \in Client,
         StartRead(c) \/ StartWrite(c) \/ Upgrade(c) \/ StartCommit(c)
  PROVE  GatewayInv'
<1> USE DEF GatewayInv
<1>1. /\ db \in Serial!Databases /\ req[c] \in Serial!Requests
      /\ stage \in [Client -> Stages] /\ goal \in [Client -> Goals]
  BY DEF TypeOK
<1>2. Serial!Effect(db, req[c]) \in Serial!Databases
  BY <1>1, EffectType
<1>3. Fits(c)
  BY DEF StageFits
<1>4. UNCHANGED <<db, req, data, held, done, sent>>
  BY DEF StartRead, StartWrite, Upgrade, StartCommit
<1>5. CASE StartRead(c)
  <2>1. stage[c] = "ready" /\ goal[c] # "none"
    BY <1>3, <1>5 DEF StartRead, Fits
  <2>2. Hold(c, "reading", "shared", db) /\ (goal[c] = "exec" => Serial!Applies(db, req[c]))
    BY <1>5 DEF StartRead
  <2> QED BY <2>1, <2>2, <1>1, <1>4, HoldInv
<1>6. CASE StartWrite(c)
  <2>1. /\ stage[c] = "ready" /\ goal[c] = "exec" /\ Serial!Applies(db, req[c])
        /\ Others(c) \cap {"reserved", "pending"} = {}
        /\ Hold(c, "writing", "reserved", Serial!Effect(db, req[c]))
    BY <1>6 DEF StartWrite, Reads, Blocked
  <2> QED BY <2>1, <1>2, <1>4, HoldInv
<1>7. CASE Upgrade(c)
  <2>1. /\ stage[c] = "reading" /\ goal[c] = "exec"
        /\ Others(c) \cap {"reserved", "pending"} = {}
        /\ Hold(c, "writing", "reserved", Serial!Effect(view[c], req[c]))
    BY <1>7 DEF Upgrade, Blocked
  <2>2. view[c] = db /\ Serial!Applies(db, req[c])
    BY <2>1 DEF ViewIsCurrent
  <2> QED BY <2>1, <2>2, <1>2, <1>4, HoldInv
<1>8. CASE StartCommit(c)
  <2>1. stage[c] = "writing" /\ Hold(c, "committing", "pending", view[c])
    BY <1>8 DEF StartCommit
  <2>2. goal[c] = "exec"
    BY <2>1, <1>3 DEF Fits
  <2>3. view[c] = Serial!Effect(db, req[c]) /\ Serial!Applies(db, req[c])
    BY <2>1 DEF ViewIsCurrent
  <2>4. conn[c] \in Conn /\ lock[conn[c]] = "reserved"
    BY <2>1 DEF LockDiscipline, PoolInv, PoolPartition, TypeOK
  <2>5. Others(c) \cap {"reserved", "pending"} = {}
    BY <2>4 DEF Others, LockDiscipline
  <2> QED BY <2>1, <2>2, <2>3, <2>5, <1>2, <1>4, HoldInv
<1> QED BY <1>5, <1>6, <1>7, <1>8

\* A transaction ends without a commit.
LEMMA EndingInv ==
  ASSUME GatewayInv, NEW c \in Client,
         EndRead(c) \/ ReadFails(c) \/ Rejected(c) \/ WriteFails(c)
  PROVE  GatewayInv'
<1> USE DEF GatewayInv
<1>1. stage \in [Client -> Stages] /\ goal \in [Client -> Goals]
  BY DEF TypeOK
<1>2. Fits(c)
  BY DEF StageFits
<1>3. UNCHANGED <<db, req, held, done, sent>> /\ Release(c)
  BY DEF EndRead, ReadFails, Rejected, WriteFails
<1>4. DataType'
  <2>1. CASE EndRead(c)
    <3>1. stage[c] = "reading" /\ data' = [data EXCEPT ![c] = view[c][req[c].id]]
      BY <2>1 DEF EndRead
    <3>2. view[c] \in Serial!Databases
      BY <3>1, ViewType
    <3>3. view[c][req[c].id] \in Val \cup {NoRow}
      BY <3>2 DEF TypeOK, Serial!Databases, Serial!Requests
    <3> QED BY <3>1, <3>3, <1>3 DEF TypeOK, DataType
  <2>2. CASE ~ EndRead(c)
    <3>1. UNCHANGED data
      BY <2>2 DEF ReadFails, Rejected, WriteFails
    <3> QED BY <3>1, <1>3 DEF TypeOK, DataType
  <2> QED BY <2>1, <2>2
<1>5. stage[c] \notin {"idle", "waiting"}
  BY <1>1, <1>2 DEF EndRead, ReadFails, Rejected, WriteFails, Stages
<1>6. \/ \E a \in Serial!Replies : Finish(c, a)
      \/ req[c].kind = "delete" /\ goal[c] = "pre" /\ Continue(c, "exec")
  <2>1. CASE Rejected(c) \/ WriteFails(c)
    BY <2>1 DEF Rejected, WriteFails, Serial!Replies
  <2>2. CASE goal[c] = "pre" /\ Plan(c, req[c])
    BY <2>2, <1>2 DEF Plan, Fits, Serial!Replies
  <2>3. CASE EndRead(c)
    BY <2>2, <2>3 DEF EndRead, Serial!Replies
  <2>4. CASE ReadFails(c)
    <3>1. goal[c] \in {"find", "pre", "post"}
      BY <2>4, <1>1, <1>2, <1>5 DEF ReadFails, Goals, Fits
    <3> QED BY <2>2, <2>4, <3>1 DEF ReadFails, Serial!Replies
  <2> QED BY <2>1, <2>3, <2>4
<1> QED BY <1>3, <1>4, <1>5, <1>6, ReleaseInv

\* Nobody else reads or writes when a transaction commits.
LEMMA CommitAlone ==
  ASSUME GatewayInv, NEW c \in Client, Commit(c)
  PROVE  \A e \in Client \ {c} : stage[e] \in {"idle", "waiting", "ready"}
<1> SUFFICES ASSUME NEW e \in Client \ {c}, stage[e] \notin {"idle", "waiting", "ready"}
             PROVE  FALSE
  OBVIOUS
<1>1. stage[e] \in {"reading", "writing", "committing"}
  BY DEF GatewayInv, TypeOK, Stages
<1>2. conn[e] \in Conn /\ conn[e] # NoConn /\ conn[e] # conn[c]
  BY <1>1 DEF GatewayInv, PoolInv, PoolPartition, TypeOK
<1>3. lock[conn[e]] # "none"
  BY <1>1, <1>2 DEF GatewayInv, LockDiscipline
<1>4. lock[conn[e]] \in Others(c)
  BY <1>2 DEF Others
<1>5. Others(c) \subseteq {"none"}
  BY DEF Commit, Blocked
<1> QED BY <1>3, <1>4, <1>5

\* A commit.
LEMMA CommitInv ==
  ASSUME GatewayInv, NEW c \in Client, Commit(c)
  PROVE  GatewayInv'
<1> USE DEF GatewayInv
<1>1. /\ stage \in [Client -> Stages] /\ goal \in [Client -> Goals]
      /\ left \in [Client -> BOOLEAN] /\ reply \in [Client -> Serial!Replies]
      /\ done \in [Client -> BOOLEAN]
  BY DEF TypeOK
<1>2. /\ stage[c] = "committing" /\ db' = view[c] /\ Release(c)
      /\ done' = [done EXCEPT ![c] = TRUE] /\ UNCHANGED <<req, data, sent>>
  BY DEF Commit
<1>3. \/ \E a \in Serial!Replies : Finish(c, a)
      \/ req[c].kind \in {"create", "update"} /\ Continue(c, "post")
  BY DEF Commit, Serial!Replies
<1>4. Held'
  BY <1>2, <1>3, ReleaseStep DEF Goals
<1>5. DataType'
  <2>1. db' \in Serial!Databases
    BY <1>2, ViewType
  <2>2. \A d \in Client : db'[req[d].id] \in Val \cup {NoRow}
    BY <2>1 DEF TypeOK, Serial!Databases, Serial!Requests
  <2>3. held' = [d \in Client |->
                   IF d # c THEN held[d] \cup {db'[req[d].id]}
                   ELSE IF req[c].kind = "delete" THEN held[c]
                   ELSE {db'[req[c].id]}]
    BY DEF Commit
  <2>4. held' \in [Client -> SUBSET (Val \cup {NoRow})]
    BY <2>2, <2>3 DEF TypeOK
  <2> QED BY <2>1, <2>4, <1>1, <1>2 DEF TypeOK, DataType
<1>6. \/ /\ stage' = [stage EXCEPT ![c] = "idle"]
         /\ goal' = [goal EXCEPT ![c] = "none"]
         /\ left' = [left EXCEPT ![c] = FALSE]
         /\ \E a : reply' = [reply EXCEPT ![c] = a]
      \/ /\ req[c].kind \in {"create", "update"} /\ ~ left[c]
         /\ stage' = [stage EXCEPT ![c] = "waiting"]
         /\ goal' = [goal EXCEPT ![c] = "post"]
         /\ UNCHANGED <<left, reply>>
  BY <1>1, <1>3 DEF Finish, Continue, Answer, Wait
<1>7. Fits(c)'
  <2>1. Fits(c)
    BY DEF StageFits
  <2> QED BY <2>1, <1>1, <1>2, <1>6 DEF Fits
<1>8. Apart(c)
  <2>1. view' = [view EXCEPT ![c] = Nothing] /\ view \in [Client -> Serial!Databases \cup {Nothing}]
    BY <1>2 DEF Release, TypeOK
  <2>2. \A e \in Client \ {c} :
          /\ stage'[e] = stage[e] /\ goal'[e] = goal[e]
          /\ reply'[e] = reply[e] /\ left'[e] = left[e]
    BY <1>1, <1>6
  <2>3. \A e \in Client \ {c} : done'[e] = done[e] /\ req'[e] = req[e]
    BY <1>1, <1>2
  <2>4. \A e \in Client \ {c} : view'[e] = view[e]
    BY <2>1
  <2> QED BY <2>2, <2>3, <2>4 DEF Apart
<1>9. StageFits'
  <2>1. ASSUME NEW e \in Client, e # c PROVE Fits(e)'
    BY <2>1, <1>8 DEF Apart, StageFits, Fits
  <2> QED BY <2>1, <1>7 DEF StageFits
<1>10. ViewIsCurrent'
  <2>1. ASSUME NEW e \in Client
        PROVE  stage'[e] \in {"idle", "waiting", "ready"}
    <3>1. CASE e = c
      BY <3>1, <1>1, <1>6
    <3>2. CASE e # c
      BY <3>2, <1>8, CommitAlone DEF Apart
    <3> QED BY <3>1, <3>2
  <2> QED BY <2>1 DEF ViewIsCurrent
<1> QED BY <1>4, <1>5, <1>9, <1>10, Assembled

(***************************************************************************)
(* The invariants, as theorems of the specification.                       *)
(***************************************************************************)
LEMMA InitInv == Init => GatewayInv
<1> SUFFICES ASSUME Init PROVE GatewayInv
  OBVIOUS
<1>1. idle \in Pools /\ Conn = idle /\ lock = [k \in idle |-> "none"]
  BY DEF Init, Conn
<1>2. TypeOK
  <2>1. (CHOOSE r \in Sendable : TRUE) \in Serial!Requests
    BY GatewayAssumption
  <2>2. /\ stage \in [Client -> Stages] /\ goal \in [Client -> Goals]
        /\ reply \in [Client -> Serial!Replies] /\ queue \in Seq(Client)
    BY DEF Init, Stages, Goals, Serial!Replies
  <2>3. /\ idle \subseteq Conn /\ Conn \in Pools /\ lock \in [Conn -> Locks]
    BY <1>1 DEF Locks
  <2>4. /\ conn \in [Client -> Conn \cup {NoConn}]
        /\ view \in [Client -> Serial!Databases \cup {Nothing}]
        /\ data \in [Client -> Val \cup {NoRow, Nothing}]
        /\ held \in [Client -> SUBSET (Val \cup {NoRow})]
    BY DEF Init
  <2>5. /\ db \in Serial!Databases /\ req \in [Client -> Serial!Requests]
        /\ left \in [Client -> BOOLEAN] /\ done \in [Client -> BOOLEAN]
        /\ sent \in Nat
    BY <2>1 DEF Init
  <2> QED BY <2>2, <2>3, <2>4, <2>5 DEF TypeOK
<1>3. PoolPartition
  BY <1>1, GatewayAssumption DEF Init, PoolPartition
<1>4. QueueHoldsWaiting /\ LockDiscipline /\ ViewIsCurrent /\ StageFits
  BY <1>1 DEF Init, QueueHoldsWaiting, LockDiscipline, ViewIsCurrent, StageFits, Fits
<1> QED BY <1>2, <1>3, <1>4 DEF GatewayInv, PoolInv

\* Each step keeps GatewayInv.
LEMMA NextInv == GatewayInv /\ [Next]_vars => GatewayInv'
<1> SUFFICES ASSUME GatewayInv, [Next]_vars PROVE GatewayInv'
  OBVIOUS
<1>1. CASE Next
  <2>1. PICK c \in Client :
          \/ Send(c) \/ Disconnect(c) \/ Progress(c)
          \/ ConnectFails(c) \/ ReadFails(c) \/ WriteFails(c)
    BY <1>1 DEF Next
  <2> QED BY <2>1, SendInv, DisconnectInv, AcquireInv, ConnectFailsInv, HoldingInv,
             EndingInv, CommitInv DEF Progress
<1>2. CASE UNCHANGED vars
  <2>1. Conn' = Conn
    BY <1>2 DEF vars, Conn
  <2>2. TypeOK'
    BY <1>2, <2>1 DEF GatewayInv, vars, TypeOK
  <2>3. PoolInv' /\ LockDiscipline'
    <3>1. UNCHANGED <<stage, queue, idle, conn, lock>>
      BY <1>2 DEF vars
    <3>2. PoolPartition'
      BY <3>1, <2>1 DEF GatewayInv, PoolInv, PoolPartition
    <3>3. QueueHoldsWaiting'
      BY <3>1 DEF GatewayInv, PoolInv, QueueHoldsWaiting
    <3>4. LockDiscipline'
      BY <3>1, <2>1 DEF GatewayInv, LockDiscipline
    <3> QED BY <3>2, <3>3, <3>4 DEF PoolInv
  <2>4. ViewIsCurrent' /\ StageFits'
    BY <1>2 DEF GatewayInv, vars, ViewIsCurrent, StageFits, Fits
  <2> QED BY <2>2, <2>3, <2>4 DEF GatewayInv
<1> QED BY <1>1, <1>2

\* The inductive invariant: what stage, goal, connection, lock, queue and view
\* of every request say of each other.
THEOREM Invariance == Spec => []GatewayInv
BY InitInv, NextInv, PTL DEF Spec

\* Every variable keeps its type.
THEOREM TypeCorrect == Spec => []TypeOK
<1>1. GatewayInv => TypeOK
  BY DEF GatewayInv
<1> QED BY <1>1, Invariance, PTL

\* Whatever fails and whoever leaves, no connection of the pool is lost or lent
\* twice, and nobody holds one while waiting for another.
THEOREM PoolIsPartitioned == Spec => []PoolPartition
<1>1. GatewayInv => PoolPartition
  BY DEF GatewayInv, PoolInv
<1> QED BY <1>1, Invariance, PTL

\* The queue holds the waiting clients, each once.
THEOREM QueueIsExact == Spec => []QueueHoldsWaiting
<1>1. GatewayInv => QueueHoldsWaiting
  BY DEF GatewayInv, PoolInv
<1> QED BY <1>1, Invariance, PTL

\* One writer at a time, and no pooled connection has a transaction open.
THEOREM LocksAreKept == Spec => []LockDiscipline
<1>1. GatewayInv => LockDiscipline
  BY DEF GatewayInv
<1> QED BY <1>1, Invariance, PTL

\* No transaction works on a database that has moved on beneath it.
THEOREM ViewsAreCurrent == Spec => []ViewIsCurrent
<1>1. GatewayInv => ViewIsCurrent
  BY DEF GatewayInv
<1> QED BY <1>1, Invariance, PTL

(***************************************************************************)
(* What a request returns.                                                 *)
(***************************************************************************)
\* What the record data of c may be, while its request is served and after.
Kept(c) ==
  /\ data[c] = Nothing \/ data[c] \in held[c]
  /\ stage[c] # "idle" => db[req[c].id] \in held[c]
  /\ stage[c] # "idle" /\ req[c].kind \notin {"findMany", "delete"} /\ goal[c] # "post"
       => data[c] = Nothing

DataIsKept == \A c \in Client : Kept(c)

\* An action of c that leaves database and data of the others alone.
LEMMA KeptApart ==
  ASSUME DataIsKept, NEW c \in Client, NEW e \in Client, e # c, UNCHANGED db,
         data'[e] = data[e], held'[e] = held[e], req'[e] = req[e],
         stage'[e] = stage[e], goal'[e] = goal[e]
  PROVE  Kept(e)'
BY DEF DataIsKept, Kept

\* A request is sent.
LEMMA SendKept ==
  ASSUME GatewayInv, DataIsKept, NEW c \in Client, Send(c)
  PROVE  DataIsKept'
<1>1. /\ stage \in [Client -> Stages] /\ goal \in [Client -> Goals]
      /\ req \in [Client -> Serial!Requests] /\ data \in [Client -> Val \cup {NoRow, Nothing}]
      /\ held \in [Client -> SUBSET (Val \cup {NoRow})]
  BY DEF GatewayInv, TypeOK
<1>2. PICK r \in Sendable :
        /\ req' = [req EXCEPT ![c] = r] /\ held' = [held EXCEPT ![c] = {db[r.id]}]
        /\ \E s \in {"idle", "waiting"} : stage' = [stage EXCEPT ![c] = s]
        /\ \E g \in Goals : goal' = [goal EXCEPT ![c] = g]
  BY DEF Send, Finish, Answer, Wait, Goals
<1>3. data' = [data EXCEPT ![c] = Nothing] /\ UNCHANGED db
  BY DEF Send
<1>4. Kept(c)'
  BY <1>1, <1>2, <1>3 DEF Kept
<1>5. ASSUME NEW e \in Client, e # c PROVE Kept(e)'
  BY <1>1, <1>2, <1>3, <1>5, KeptApart
<1> QED BY <1>4, <1>5 DEF DataIsKept

\* No other action but a commit gives a request another record or database.
LEMMA StepKept ==
  ASSUME GatewayInv, DataIsKept, NEW c \in Client,
         UNCHANGED <<db, req, held>>,
         \/ UNCHANGED data
         \/ /\ stage[c] = "reading" /\ goal[c] # "exec"
            /\ data' = [data EXCEPT ![c] = view[c][req[c].id]],
         NEW s, stage' = [stage EXCEPT ![c] = s], stage[c] # "idle",
         \/ UNCHANGED goal
         \/ s = "idle" /\ goal' = [goal EXCEPT ![c] = "none"]
         \/ goal[c] = "pre" /\ goal' = [goal EXCEPT ![c] = "exec"]
  PROVE  DataIsKept'
<1>1. /\ stage \in [Client -> Stages] /\ goal \in [Client -> Goals]
      /\ data \in [Client -> Val \cup {NoRow, Nothing}]
  BY DEF GatewayInv, TypeOK
<1>2. Kept(c) /\ Fits(c)
  BY DEF DataIsKept, GatewayInv, StageFits
<1>3. \/ data'[c] = data[c]
      \/ data'[c] = db[req[c].id] /\ goal[c] \in {"find", "pre", "post"}
  <2>1. CASE UNCHANGED data
    BY <2>1
  <2>2. CASE /\ stage[c] = "reading" /\ goal[c] # "exec"
             /\ data' = [data EXCEPT ![c] = view[c][req[c].id]]
    <3>1. view[c] = db
      BY <2>2 DEF GatewayInv, ViewIsCurrent
    <3>2. goal[c] \in {"find", "pre", "post"}
      BY <2>2, <1>1, <1>2 DEF Fits, Goals
    <3> QED BY <2>2, <3>1, <3>2, <1>1
  <2> QED BY <2>1, <2>2
<1>4. stage'[c] = s /\ (goal'[c] # goal[c] => s = "idle" \/ goal[c] = "pre")
  BY <1>1
<1>5. Kept(c)'
  BY <1>2, <1>3, <1>4 DEF Kept, Fits
<1>6. ASSUME NEW e \in Client, e # c PROVE Kept(e)'
  BY <1>1, <1>6, KeptApart
<1> QED BY <1>5, <1>6 DEF DataIsKept

\* A commit: what the others may return is held for them.
LEMMA CommitKept ==
  ASSUME GatewayInv, DataIsKept, NEW c \in Client, Commit(c)
  PROVE  DataIsKept'
<1>1. /\ stage \in [Client -> Stages] /\ goal \in [Client -> Goals]
  BY DEF GatewayInv, TypeOK
<1>2. /\ stage[c] = "committing" /\ UNCHANGED <<req, data>>
      /\ held' = [d \in Client |->
                    IF d # c THEN held[d] \cup {db'[req[d].id]}
                    ELSE IF req[c].kind = "delete" THEN held[c]
                    ELSE {db'[req[c].id]}]
  BY DEF Commit
<1>3. goal[c] = "exec" /\ req[c].kind \in Serial!Mutations
  BY <1>2 DEF GatewayInv, StageFits, Fits
<1>4. \/ stage' = [stage EXCEPT ![c] = "idle"] /\ goal' = [goal EXCEPT ![c] = "none"]
      \/ /\ req[c].kind \in {"create", "update"}
         /\ stage' = [stage EXCEPT ![c] = "waiting"] /\ goal' = [goal EXCEPT ![c] = "post"]
  BY DEF Commit, Finish, Continue, Answer, Wait
<1>5. ASSUME NEW e \in Client, e # c PROVE Kept(e)'
  <2>1. stage'[e] = stage[e] /\ goal'[e] = goal[e]
    BY <1>1, <1>4, <1>5
  <2>2. held'[e] = held[e] \cup {db'[req[e].id]}
    BY <1>2, <1>5
  <2> QED BY <2>1, <2>2, <1>2 DEF DataIsKept, Kept
<1>6. Kept(c)'
  <2>1. Kept(c)
    BY DEF DataIsKept
  <2>2. CASE req[c].kind = "delete"
    <3>1. stage'[c] = "idle" /\ held'[c] = held[c]
      BY <2>2, <1>1, <1>2, <1>4
    <3> QED BY <3>1, <2>1, <1>2 DEF Kept
  <2>3. CASE req[c].kind # "delete"
    <3>1. data[c] = Nothing
      BY <2>1, <2>3, <1>2, <1>3 DEF Kept, Serial!Mutations
    <3>2. held'[c] = {db'[req[c].id]}
      BY <2>3, <1>2
    <3> QED BY <3>1, <3>2, <1>2 DEF Kept
  <2> QED BY <2>2, <2>3
<1> QED BY <1>5, <1>6 DEF DataIsKept

\* Every other action.
LEMMA OtherKept ==
  ASSUME GatewayInv, DataIsKept, NEW c \in Client,
         \/ Disconnect(c) \/ Acquire(c) \/ ConnectFails(c)
         \/ StartRead(c) \/ StartWrite(c) \/ Upgrade(c) \/ StartCommit(c)
         \/ EndRead(c) \/ ReadFails(c) \/ Rejected(c) \/ WriteFails(c)
  PROVE  DataIsKept'
<1>1. /\ stage \in [Client -> Stages] /\ goal \in [Client -> Goals]
  BY DEF GatewayInv, TypeOK
<1>2. Fits(c)
  BY DEF GatewayInv, StageFits
<1>3. UNCHANGED <<db, req, held>>
  BY DEF Disconnect, Acquire, ConnectFails, StartRead, StartWrite, Upgrade, StartCommit,
         EndRead, ReadFails, Rejected, WriteFails
<1>4. stage[c] # "idle"
  <2>1. CASE Acquire(c) \/ ConnectFails(c)
    BY <2>1, HeadQueue DEF Acquire, ConnectFails, GatewayInv, PoolInv, QueueHoldsWaiting
  <2>2. CASE ~ (Acquire(c) \/ ConnectFails(c))
    BY <2>2 DEF Disconnect, StartRead, StartWrite, Upgrade, StartCommit,
                EndRead, ReadFails, Rejected, WriteFails
  <2> QED BY <2>1, <2>2
<1>5. ASSUME NEW a, Answer(c, a)
      PROVE  stage' = [stage EXCEPT ![c] = "idle"] /\ goal' = [goal EXCEPT ![c] = "none"]
  BY <1>5 DEF Answer
<1>6. CASE \/ Disconnect(c) \/ Acquire(c) \/ ConnectFails(c)
           \/ StartRead(c) \/ StartWrite(c) \/ Upgrade(c) \/ StartCommit(c)
  <2>1. UNCHANGED data
    BY <1>6 DEF Disconnect, Acquire, ConnectFails, StartRead, StartWrite, Upgrade, StartCommit
  <2>2. \/ \E s : stage' = [stage EXCEPT ![c] = s] /\ UNCHANGED goal
        \/ stage' = [stage EXCEPT ![c] = "idle"] /\ goal' = [goal EXCEPT ![c] = "none"]
    <3>1. CASE ConnectFails(c)
      BY <3>1, <1>5 DEF ConnectFails
    <3>2. CASE Disconnect(c)
      <4>1. stage = [stage EXCEPT ![c] = stage[c]]
        BY <1>1
      <4> QED BY <3>2, <4>1, <1>5 DEF Disconnect
    <3>3. CASE Acquire(c)
      BY <3>3 DEF Acquire
    <3>4. CASE StartRead(c) \/ StartWrite(c) \/ Upgrade(c) \/ StartCommit(c)
      BY <3>4 DEF StartRead, StartWrite, Upgrade, StartCommit, Hold
    <3> QED BY <1>6, <3>1, <3>2, <3>3, <3>4
  <2> QED BY <2>1, <2>2, <1>3, <1>4, StepKept
<1>7. CASE EndRead(c) \/ ReadFails(c) \/ Rejected(c) \/ WriteFails(c)
  <2>1. \/ UNCHANGED data
        \/ /\ stage[c] = "reading" /\ goal[c] # "exec"
           /\ data' = [data EXCEPT ![c] = view[c][req[c].id]]
    BY <1>7 DEF EndRead, ReadFails, Rejected, WriteFails
  <2>2. \/ \E a : Answer(c, a)
        \/ goal[c] = "pre" /\ Wait(c, "exec")
    <3>1. CASE Rejected(c) \/ WriteFails(c)
      BY <3>1 DEF Rejected, WriteFails, Finish
    <3>2. CASE goal[c] = "pre" /\ Plan(c, req[c])
      BY <3>2 DEF Plan, Continue, Finish
    <3>3. CASE (EndRead(c) \/ ReadFails(c)) /\ goal[c] # "pre"
      <4>1. goal[c] \in {"find", "post"}
        BY <3>3, <1>1, <1>2, <1>4 DEF EndRead, ReadFails, Fits, Goals
      <4> QED BY <3>3, <4>1 DEF EndRead, ReadFails, Finish
    <3> QED BY <1>7, <3>1, <3>2, <3>3 DEF EndRead, ReadFails
  <2>3. \/ stage' = [stage EXCEPT ![c] = "idle"] /\ goal' = [goal EXCEPT ![c] = "none"]
        \/ /\ goal[c] = "pre" /\ stage' = [stage EXCEPT ![c] = "waiting"]
           /\ goal' = [goal EXCEPT ![c] = "exec"]
    BY <2>2, <1>5 DEF Wait
  <2> QED BY <2>1, <2>3, <1>3, <1>4, StepKept
<1> QED BY <1>6, <1>7

\* Whatever commits between a read and its answer, the record returned is one
\* the database held while the request was served.
THEOREM ReturnsAreStored == Spec => []ReturnedWasStored
<1>1. Init => DataIsKept
  <2>1. Init => \A c \in Client : stage[c] = "idle" /\ data[c] = Nothing
    BY DEF Init
  <2> QED BY <2>1 DEF DataIsKept, Kept
<1>2. GatewayInv /\ DataIsKept /\ [Next]_vars => DataIsKept'
  <2> SUFFICES ASSUME GatewayInv, DataIsKept, [Next]_vars PROVE DataIsKept'
    OBVIOUS
  <2>1. CASE Next
    <3>1. PICK c \in Client :
            \/ Send(c) \/ Disconnect(c) \/ Progress(c)
            \/ ConnectFails(c) \/ ReadFails(c) \/ WriteFails(c)
      BY <2>1 DEF Next
    <3> QED BY <3>1, SendKept, CommitKept, OtherKept DEF Progress
  <2>2. CASE UNCHANGED vars
    BY <2>2 DEF vars, DataIsKept, Kept
  <2> QED BY <2>1, <2>2
<1>3. DataIsKept => ReturnedWasStored
  BY DEF DataIsKept, Kept, ReturnedWasStored
<1> QED BY <1>1, <1>2, <1>3, Invariance, PTL DEF Spec

(***************************************************************************)
(* The gateway implements the serial store.                                *)
(***************************************************************************)
\* An answer before or after the commit closes the request.
LEMMA CloseStep ==
  ASSUME GatewayInv, NEW c \in Client, stage[c] # "idle",
         NEW a, a \in Serial!Truthful(req[c], done[c]),
         stage' = [stage EXCEPT ![c] = "idle"],
         reply' = [reply EXCEPT ![c] = a], UNCHANGED <<db, req, done>>
  PROVE  Serial!Close(c)
<1>1. stage \in [Client -> Stages]
  BY DEF GatewayInv, TypeOK
<1>2. [d \in Client |-> stage'[d] # "idle"]
        = [[d \in Client |-> stage[d] # "idle"] EXCEPT ![c] = FALSE]
  BY <1>1
<1> QED BY <1>2 DEF Serial!Close

\* Moving on without an answer is invisible.
LEMMA StutterStep ==
  ASSUME GatewayInv, NEW c \in Client, stage[c] # "idle",
         NEW s, s # "idle", stage' = [stage EXCEPT ![c] = s],
         UNCHANGED <<db, req, done, reply>>
  PROVE  UNCHANGED Serial!serialVars
<1>1. stage \in [Client -> Stages]
  BY DEF GatewayInv, TypeOK
<1>2. [d \in Client |-> stage'[d] # "idle"] = [d \in Client |-> stage[d] # "idle"]
  BY <1>1
<1> QED BY <1>2 DEF Serial!serialVars

\* A request sent is asked of the serial store.
LEMMA SendRefines ==
  ASSUME GatewayInv, NEW c \in Client, Send(c)
  PROVE  Serial!Ask(c)
<1>1. stage \in [Client -> Stages] /\ stage[c] = "idle" /\ ~ left[c]
  BY DEF Send, GatewayInv, TypeOK, StageFits, Fits
<1>2. PICK r \in Sendable, a \in {"none", "refused"} :
        /\ req' = [req EXCEPT ![c] = r]
        /\ stage' = [stage EXCEPT ![c] = IF a = "none" THEN "waiting" ELSE "idle"]
        /\ reply' = [reply EXCEPT ![c] = a]
  BY <1>1 DEF Send, Finish, Answer, Wait
<1>3. r \in Serial!Requests
  BY GatewayAssumption
<1>4. [d \in Client |-> stage'[d] # "idle"]
        = [[d \in Client |-> stage[d] # "idle"] EXCEPT ![c] = (a = "none")]
  BY <1>1, <1>2
<1>5. /\ done' = [done EXCEPT ![c] = FALSE] /\ UNCHANGED db
  BY DEF Send
<1> QED BY <1>1, <1>2, <1>3, <1>4, <1>5 DEF Serial!Ask

\* A commit applies it.
LEMMA CommitRefines ==
  ASSUME GatewayInv, NEW c \in Client, Commit(c)
  PROVE  Serial!Apply(c)
<1>1. stage[c] = "committing" /\ stage \in [Client -> Stages]
  BY DEF Commit, GatewayInv, TypeOK
<1>2. /\ goal[c] = "exec" /\ ~ done[c] /\ reply[c] = "none"
      /\ req[c].kind \in Serial!Mutations
  BY <1>1 DEF GatewayInv, StageFits, Fits
<1>3. Serial!Applies(db, req[c]) /\ db' = Serial!Effect(db, req[c])
  BY <1>1 DEF GatewayInv, ViewIsCurrent, Commit
<1>4. reply \in [Client -> Serial!Replies]
  BY DEF GatewayInv, TypeOK
<1>5. \E a \in {"none", "ok", "unread", "gone"} :
        /\ reply' = [reply EXCEPT ![c] = a]
        /\ stage' = [stage EXCEPT ![c] = IF a = "none" THEN "waiting" ELSE "idle"]
  <2>1. CASE \E a \in {"ok", "unread", "gone"} : Finish(c, a)
    BY <2>1 DEF Finish, Answer
  <2>2. CASE Continue(c, "post")
    <3>1. CASE left[c]
      BY <2>2, <3>1 DEF Continue, Answer
    <3>2. CASE ~ left[c]
      <4>1. reply' = [reply EXCEPT ![c] = "none"]
        BY <2>2, <3>2, <1>2, <1>4 DEF Continue
      <4> QED BY <2>2, <3>2, <4>1 DEF Continue, Wait
    <3> QED BY <3>1, <3>2
  <2> QED BY <2>1, <2>2 DEF Commit
<1>6. PICK a \in {"none", "ok", "unread", "gone"} :
        /\ reply' = [reply EXCEPT ![c] = a]
        /\ stage' = [stage EXCEPT ![c] = IF a = "none" THEN "waiting" ELSE "idle"]
  BY <1>5
<1>7. [d \in Client |-> stage'[d] # "idle"]
        = [[d \in Client |-> stage[d] # "idle"] EXCEPT ![c] = (a = "none")]
  BY <1>1, <1>6
<1>8. done' = [done EXCEPT ![c] = TRUE] /\ UNCHANGED req
  BY DEF Commit
<1> QED BY <1>1, <1>2, <1>3, <1>6, <1>7, <1>8 DEF Serial!Apply

\* The end of a transaction closes the request or shows nothing.
LEMMA EndingRefines ==
  ASSUME GatewayInv, NEW c \in Client,
         EndRead(c) \/ ReadFails(c) \/ Rejected(c) \/ WriteFails(c)
  PROVE  Serial!Close(c) \/ UNCHANGED Serial!serialVars
<1>1. /\ stage \in [Client -> Stages] /\ goal \in [Client -> Goals]
      /\ done[c] \in BOOLEAN /\ req[c] \in Serial!Requests
  BY DEF GatewayInv, TypeOK
<1>2. Fits(c)
  BY DEF GatewayInv, StageFits
<1>3. UNCHANGED <<db, req, done>>
  BY DEF EndRead, ReadFails, Rejected, WriteFails
<1>4. stage[c] # "idle" /\ goal[c] # "none"
  BY <1>1, <1>2 DEF EndRead, ReadFails, Rejected, WriteFails, Fits
<1>5. "gone" \in Serial!Truthful(req[c], done[c])
  BY <1>1 DEF Serial!Truthful
<1>6. ASSUME NEW a \in Serial!Truthful(req[c], done[c]), Finish(c, a)
      PROVE  Serial!Close(c)
  BY <1>3, <1>4, <1>5, <1>6, CloseStep DEF Finish, Answer
<1>7. CASE Rejected(c) \/ WriteFails(c)
  <2>1. goal[c] = "exec"
    BY <1>7 DEF Rejected, WriteFails
  <2>2. {"failed", "notFound"} \subseteq Serial!Truthful(req[c], done[c])
    BY <1>1, <1>2, <1>4, <2>1 DEF Fits, Serial!Truthful, Serial!Mutations
  <2> QED BY <1>6, <1>7, <2>2 DEF Rejected, WriteFails
<1>8. CASE goal[c] = "pre" /\ Plan(c, req[c])
  <2>1. "refused" \in Serial!Truthful(req[c], done[c])
    BY <1>1, <1>2, <1>4, <1>8 DEF Fits, Serial!Truthful
  <2>2. CASE Finish(c, "refused")
    BY <1>6, <2>1, <2>2
  <2>3. CASE Continue(c, "exec")
    <3>1. CASE left[c]
      BY <1>3, <1>4, <1>5, <2>3, <3>1, CloseStep DEF Continue, Answer
    <3>2. CASE ~ left[c]
      BY <1>3, <1>4, <2>3, <3>2, StutterStep DEF Continue, Wait
    <3> QED BY <3>1, <3>2
  <2> QED BY <1>8, <2>2, <2>3 DEF Plan
<1>9. CASE (EndRead(c) \/ ReadFails(c)) /\ goal[c] # "pre"
  <2>1. goal[c] \in {"find", "post"}
    BY <1>1, <1>4, <1>9 DEF EndRead, ReadFails, Goals
  <2>2. CASE goal[c] = "find"
    <3>1. {"ok", "failed"} \subseteq Serial!Truthful(req[c], done[c])
      BY <1>2, <2>2 DEF Fits, Serial!Truthful
    <3> QED BY <1>6, <1>9, <2>2, <3>1 DEF EndRead, ReadFails
  <2>3. CASE goal[c] = "post"
    <3>1. {"ok", "unread"} \subseteq Serial!Truthful(req[c], done[c])
      BY <1>2, <1>4, <2>3 DEF Fits, Serial!Truthful
    <3> QED BY <1>6, <1>9, <2>3, <3>1 DEF EndRead, ReadFails
  <2> QED BY <2>1, <2>2, <2>3
<1> QED BY <1>7, <1>8, <1>9 DEF EndRead, ReadFails

\* So do a failed connection and a client that leaves.
LEMMA LeavingRefines ==
  ASSUME GatewayInv, NEW c \in Client, ConnectFails(c) \/ Disconnect(c)
  PROVE  Serial!Close(c) \/ UNCHANGED Serial!serialVars
<1>1. /\ stage \in [Client -> Stages] /\ done[c] \in BOOLEAN
      /\ req[c] \in Serial!Requests
  BY DEF GatewayInv, TypeOK
<1>2. Fits(c)
  BY DEF GatewayInv, StageFits
<1>3. UNCHANGED <<db, req, done>>
  BY DEF ConnectFails, Disconnect
<1>4. "gone" \in Serial!Truthful(req[c], done[c])
  BY <1>1 DEF Serial!Truthful
<1>5. CASE ConnectFails(c)
  <2>1. stage[c] = "waiting"
    BY <1>5, HeadQueue DEF ConnectFails, GatewayInv, PoolInv, QueueHoldsWaiting
  <2>2. goal[c] = "exec" => "failed" \in Serial!Truthful(req[c], done[c])
    BY <1>2, <2>1 DEF Fits, Serial!Truthful, Serial!Mutations
  <2>3. CASE goal[c] = "exec"
    BY <1>2, <1>3, <1>4, <1>5, <2>1, <2>2, <2>3, CloseStep DEF ConnectFails, Answer
  <2>4. CASE goal[c] # "exec"
    BY <1>3, <1>4, <1>5, <2>1, <2>4, CloseStep DEF ConnectFails, Answer
  <2> QED BY <2>3, <2>4
<1>6. CASE Disconnect(c) /\ stage[c] = "waiting"
  BY <1>3, <1>4, <1>6, CloseStep DEF Disconnect, Answer
<1>7. CASE Disconnect(c) /\ stage[c] # "waiting"
  BY <1>3, <1>7 DEF Disconnect, Serial!serialVars
<1> QED BY <1>5, <1>6, <1>7

\* Locks and connections are not seen.
LEMMA MovingRefines ==
  ASSUME GatewayInv, NEW c \in Client,
         \/ Acquire(c) \/ StartRead(c) \/ StartWrite(c) \/ Upgrade(c)
         \/ StartCommit(c)
  PROVE  UNCHANGED Serial!serialVars
<1>1. UNCHANGED <<db, req, done, reply>>
  BY DEF Acquire, StartRead, StartWrite, Upgrade, StartCommit, Hold
<1>2. stage[c] # "idle"
  <2>1. CASE Acquire(c)
    BY <2>1, HeadQueue DEF Acquire, GatewayInv, PoolInv, QueueHoldsWaiting
  <2>2. CASE ~ Acquire(c)
    BY <2>2 DEF StartRead, StartWrite, Upgrade, StartCommit
  <2> QED BY <2>1, <2>2
<1>3. \E s \in Stages \ {"idle"} : stage' = [stage EXCEPT ![c] = s]
  BY DEF Acquire, StartRead, StartWrite, Upgrade, StartCommit, Hold, Stages
<1> QED BY <1>1, <1>2, <1>3, StutterStep

\* To the clients the server is the serial store, however their requests share
\* pool, locks and queue and whatever fails in between.
THEOREM GatewaySerializes == Spec => Serializable
<1>1. Init => Serial!Init
  <2> SUFFICES ASSUME Init PROVE Serial!Init
    OBVIOUS
  <2>1. (CHOOSE r \in Sendable : TRUE) \in Serial!Requests
    BY GatewayAssumption
  <2>2. req \in [Client -> Serial!Requests]
    BY <2>1 DEF Init
  <2>3. [c \in Client |-> stage[c] # "idle"] = [c \in Client |-> FALSE]
    BY DEF Init
  <2> QED BY <2>2, <2>3 DEF Init, Serial!Init
<1>2. GatewayInv /\ [Next]_vars => [Serial!Next]_Serial!serialVars
  <2> SUFFICES ASSUME GatewayInv, [Next]_vars PROVE [Serial!Next]_Serial!serialVars
    OBVIOUS
  <2>1. CASE Next
    <3>1. PICK c \in Client :
            \/ Send(c) \/ Disconnect(c) \/ Progress(c)
            \/ ConnectFails(c) \/ ReadFails(c) \/ WriteFails(c)
      BY <2>1 DEF Next
    <3>2. \/ Serial!Ask(c) \/ Serial!Apply(c) \/ Serial!Close(c)
          \/ UNCHANGED Serial!serialVars
      BY <3>1, SendRefines, CommitRefines, EndingRefines, LeavingRefines,
         MovingRefines DEF Progress
    <3> QED BY <3>2 DEF Serial!Next
  <2>2. CASE UNCHANGED vars
    <3>1. UNCHANGED <<db, req, stage, done, reply>>
      BY <2>2 DEF vars
    <3> QED BY <3>1 DEF Serial!serialVars
  <2> QED BY <2>1, <2>2
<1> QED BY <1>1, <1>2, Invariance, PTL DEF Spec, Serializable, Serial!SerialSpec
===============================================================================
