CONSTANTS
  Bytes <- Symbols
  NL = "nl"
  Spaces = {"cr"}
  Lead = "lead"
  Trail = "trail"
  LengthOf <- Claims
  Malformed = Malformed
  KindOf <- Meaning
  MaxHeaderSize = 6
  MaxMessageSize = 2
  Frames <- AllFrames
  MaxFrames = 3
  Running = Running
SPECIFICATION Spec
INVARIANTS
  TypeOK
  InStep
  Answered
  WholeLines
  EndsForCause
PROPERTY Ends
CHECK_DEADLOCK FALSE
