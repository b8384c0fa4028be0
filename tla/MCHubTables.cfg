SPECIFICATION TablesSpec
CONSTANTS
  Writers = {w1, w2}
  Space = space
  Rows = {r1, r2}
  Curated = {r1}
  MaxCommands = 2
  MaxIndex = 2
  MaxErrors = 1
INVARIANTS TablesTypeOK TablesKept
PROPERTIES IndexNeverSetBack
SYMMETRY Symmetry
