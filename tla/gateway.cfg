SPECIFICATION Spec
CONSTANTS
  Client = {c1, c2}
  Pools = {{k1}, {k1, k2}}
  Id = {i}
  Val = {v, w}
  i = i
  v = v
  w = w
  NoRow = NoRow
  NoConn = NoConn
  Nothing = Nothing
  Sendable <- MCSendable
  MaxSent = 3
CHECK_DEADLOCK FALSE
INVARIANT TypeOK
INVARIANT PoolPartition
INVARIANT QueueHoldsWaiting
INVARIANT LockDiscipline
INVARIANT ViewIsCurrent
INVARIANT ReturnedWasStored
PROPERTY Serializable
PROPERTY Served
