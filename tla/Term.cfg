SPECIFICATION Spec
CONSTANTS
  width = 3
  height = 2
  Glyphs = {"a"}
  Colors = {"grey", "red"}
  Blank = " "
INVARIANTS
  TypeOK
PROPERTIES
  ShowsPage
