\* Two segments; frames of up to three bytes, reads of one to four; a seek
\* into a segment and to the start of one.
CONSTANTS
  Total = 6
  SegStart = {0, 4}
  Block = 3
  BusSize = 7
  Wanted = {1, 2, 4}
  SeekTo = {2, 4}
  Retries = 2
SPECIFICATION Spec
INVARIANTS TypeOK ToldBeforeMedia
PROPERTIES ContinuousStream EndIsReported AbortIsReported
