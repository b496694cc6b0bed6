CONSTANTS
  Texts <- AllTexts
  MaxLen = 9
  ChunkChars = 5
  Overlap = 2
  MinTail = 4
  Snap = 2
SPECIFICATION ChunkSpec
INVARIANTS NoCharacterDropped PiecesFit
CHECK_DEADLOCK FALSE
