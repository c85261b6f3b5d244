CONSTANTS
  Chars = {"a", "emoji", "lf", "cr", "bom"}
  Width <- WidthOf
  Units <- UnitsOf
  LF = "lf"
  CR = "cr"
  BOM = "bom"
  Invalid = Invalid
  Uris = {u1, u2}
  MaxDocs = 1
  MaxDocSize = 5
  OpenTexts <- Opened
  Fragments <- Inserted
  MaxText = 3
  None = None
SPECIFICATION Spec
SYMMETRY UriSymmetry
INVARIANTS
  TypeOK
  Synced
  StoreBounded
  CacheCurrent
  DiagnosticsCurrent
