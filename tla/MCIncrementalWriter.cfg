SPECIFICATION Spec
CONSTANTS
  MaxObjNum = 4
  b0 = b0
  b1 = b1
  i0 = i0
  Absent = Absent
  Ambiguous = Ambiguous
  Unreadable = Unreadable
  Gens <- MCGens
  Bodies <- MCBodies
  Idents <- MCIdents
  Sources <- MCSources
  Requests <- MCRequests
  MaxSections = 3
  MaxEntries = 4
  MaxOffset = 7
  MaxRevisions = 2
INVARIANTS
  TypeOK
  BuilderFollowsDocument
  OpenReportsReferenceEntries
  SizeCoversChain
  ReopenFailsOnlyAtLimit
PROPERTIES
  UntouchedEntriesKept
  ReferencesKeepLeading
  ImplementsRevisionStore
  CallsReturn
