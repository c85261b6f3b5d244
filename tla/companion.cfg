\* One deploy or one live check, with every set of options
SPECIFICATION Spec
CONSTANTS
  public = public
  refused = refused
  None = None
  Addrs <- MCAddrs
  Denied <- MCDenied
  Answers <- MCAnswers
  Deadline = 2
INVARIANTS
  TypeOK
  ExitsTell
  NeverRetried
  DialsChecked
  VerdictTrue
PROPERTY TasksEnd
CHECK_DEADLOCK FALSE
