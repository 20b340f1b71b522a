SPECIFICATION Spec
CONSTANTS
  Input <- MCInput
  bytes <- MCbytes
  NestingLimit = 2
  Judged <- MCJudged
  MaxText = 13
  MaxNear = 9
  MaxAny = 4
INVARIANTS TypeOK ReadsInBuffer Nested NothingLeaks ResultIsText RejectsOnlyBad ErrorPosition
