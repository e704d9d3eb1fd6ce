SPECIFICATION Spec
CONSTANTS
  Absent = Absent
  RowLimit = 1
  Texts <- MCTexts
  Alphabet <- MCAlphabet
  ArgLists <- MCArgLists
  WorkTree <- MCWorkTree
  History <- MCHistory
  Ids <- MCIds
  Null = Null
  Plain <- MCPlain
  Links <- MCLinks
  Questions <- MCQuestions
  MaxDepth = 2
  Records <- MCRecords
  Spare <- MCSpare
  Changes <- MCChanges
CHECK_DEADLOCK FALSE
INVARIANT TypeOK
INVARIANT ParentsFirst
INVARIANT OnlyCyclesRefused
INVARIANT FieldsAreInherited
INVARIANT OneToOneHasOneKey
INVARIANT ArraysFollowTheirKey
INVARIANT MergesAreDriven
INVARIANT SilentMeansSame
INVARIANT LinksAreRead
INVARIANT FiltersMatchLinks
INVARIANT BranchesAreComplete
INVARIANT CascadesComplete
INVARIANT FieldsFollowTheirPair
