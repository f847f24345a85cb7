\* Three starts of the server, with and without "clear", at once or one after
\* another, each of which may break off at any statement.
CONSTANT
  Process = {p1, p2, p3}
SPECIFICATION Spec
SYMMETRY Symmetry
INVARIANTS
  TypeOK
  SchemaComplete
  RefusedByOthers
  ClearForgets
CHECK_DEADLOCK FALSE
