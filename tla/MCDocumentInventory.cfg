SPECIFICATION Spec
CONSTANTS
  f = f
  g = g
  h = h
  Paint = Paint
  Garbled = Garbled
  PageScope = PageScope
  Forms <- MCForms
  Documents <- MCDocuments
  MaxDecodedBytes = 4
  MaxFormDepth = 2
  MaxExpansions = 5
INVARIANTS
  ExpansionStaysBounded
  ShallowPagesAreComplete
  SequencesIdentifyEntries
  PagesAreWholeOrSkipped
