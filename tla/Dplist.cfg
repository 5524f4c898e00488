SPECIFICATION Spec
CONSTANTS
  Element = {a, b}
  MaxSize = 3
INVARIANTS
  TypeOK
  NoLeak
  DoublyLinked
  LookupsAgree
PROPERTY RefinesSequence
