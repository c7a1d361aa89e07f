SPECIFICATION ChunkerSpec
CONSTANTS
  CHUNK_LINES = 3
  OVERLAP_LINES = 1
  MAX_DEFINITION_LINES = 4
  Documents <- MCDocuments
INVARIANTS EveryLineIsChunked ChunksAreBounded
CHECK_DEADLOCK FALSE
