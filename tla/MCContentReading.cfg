SPECIFICATION Spec
CONSTANTS
  UsizeMax = 4000
  FieldMax <- MCFieldMax
  Pages <- MCPages
  MaxDecodedBytes = 40
INVARIANTS
  StreamsReadBack
  TokensTileText
  NothingFusesAcrossStreams
  RecordsAccountForTokens
PROPERTY
  ImplementsPngPromise
