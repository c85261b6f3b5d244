CONSTANTS
  Chars = {"a", "emoji", "lf", "cr", "bom"}
  Width <- WidthOf
  Units <- UnitsOf
  LF = "lf"
  CR = "cr"
  BOM = "bom"
  Invalid = Invalid
  Uris = {u1}
  MaxDocs = 1
  MaxDocSize = 5
  OpenTexts <- OpenedWithBom
  Fragments <- Letter
  MaxText = 3
  None = None
SPECIFICATION Spec
INVARIANT BomShiftsNothing
