CONSTANTS
  Inputs <- MCInputs
  GameMade <- MCGameMade
  Block = 74
  M2Max = 8
  M3Max = 14
  Hi = 30
  Slots = 64
SPECIFICATION Spec
INVARIANTS Restored DamageRefused CompressorInside DecompressorInside
