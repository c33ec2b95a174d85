SPECIFICATION ReadSpec
CONSTANTS
  r = r
  a = a
  b = b
  c = c
  p = p
  q = q
  x = x
  n1 = n1
  n2 = n2
  Root = r
  Absent = Absent
  Malformed = Malformed
  Unusable = Unusable
  Objects <- MCObjects
  Rects <- MCRects
  Documents <- MCDocuments
  PdfDocuments <- MCPdfDocuments
  Names <- MCNames
  MaxDepth = 2
  MaxNodes = 4
INVARIANT UnusableAncestorsReported
