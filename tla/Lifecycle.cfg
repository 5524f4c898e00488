SPECIFICATION Spec
CONSTANT MaxLines = 1
INVARIANTS TypeOK LogComplete NameRemoved
PROPERTIES LogNumbers BothEnd
CHECK_DEADLOCK FALSE
