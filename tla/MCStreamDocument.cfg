SPECIFICATION Spec
CONSTANTS
  MaxObjNum = 5
  MaxGen = 1
  MaxUsize = 300
  MaxFieldWidth = 2
  MaxSections = 3
  MaxEntries = 5
  Word = Word
  ObjectHeader = ObjectHeader
  Absent = Absent
  Unreadable = Unreadable
  Documents <- MCDocuments
  References <- MCReferences
INVARIANTS
  LookupFollowsRevisions
  ResolvedObjectIsTheOneAsked
  MembersAreApart
PROPERTY
  OpenReturns
