CONSTANTS
  Chars = {"local", "x", "y", "z", "$", "dq", "sq", "bs", "#", "{", "}", ";", " ", "wide", "-", "lf", "cr", "bom"}
  Width <- WidthOf
  Units <- UnitsOf
  LF = "lf"
  CR = "cr"
  BOM = "bom"
  Invalid = Invalid
  DoubleQuote = "dq"
  SingleQuote = "sq"
  Backslash = "bs"
  Hash = "#"
  OpenBrace = "{"
  CloseBrace = "}"
  Blank = {" ", "cr"}
  MaxBraceDepth = 2
  MaxFindings = 2
  MaxFoldings = 1
  Ident = {"x", "y", "z"}
  Dollar = "$"
  Semicolon = ";"
  Declare = "local"
  Joiners = {"-"}
  MaxReferences = 2
  Typed <- MCTyped
  NewNames <- MCNewNames
  MaxTyped = 3
SPECIFICATION Spec
INVARIANTS
  AnswersResolve
  RenameFaithful
  StructureAgrees
CHECK_DEADLOCK FALSE
