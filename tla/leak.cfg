SPECIFICATION Spec
CONSTANTS
  Table <- MCTable
  Row <- MCRow
  Val <- MCVal
  Null = Null
  NoId = NoId
  Keep = Keep
  NoTable = NoTable
  TableOf <- MCTableOf
  Spare <- MCSpare
  Target <- MCTarget
  FkName <- MCFkName
  ToMany <- MCToMany
  Required <- MCRequired
  OnDelete <- MCOnDelete
  OnDisconnect <- MCOnDisconnect
  QuietName <- MCQuietName
  NoRequest = NoRequest
  Request <- MCLeaking
  Refused <- MCRefused
  PlanOf <- MCPlanOf
  Seeds <- MCSeeds
  MaxRequests = 1
PROPERTY ParentScope
