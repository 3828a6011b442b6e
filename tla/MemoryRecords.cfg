SPECIFICATION RecordsSpec
CONSTANTS
  Conversations = {c1, c2}
  Creators = {p1, p2}
  Readers = {q1}
  MaxRecords = 3
SYMMETRY Symmetry
INVARIANTS RecordsTypeOK SupersessionSound NeverReturnsRetired NoStandstill
PROPERTIES RetiredForGood
