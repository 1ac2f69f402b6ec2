CONSTANTS
  Precision = 2
  Names <- MCNames
  GameNames <- MCGameNames
  Saves <- MCSaves
  Runs = {r1, r2}
  MaxRuns = 2
  Tactical <- IsTactical
  ToJson <- SaveJson
  Takes <- Accepts
  FromJson <- Build
  Edited <- EditSave
  EditedJson <- EditJson
  Spoilt <- SpoilJson
  Whole <- IsSavedGame
  Regular <- IsRegular
SPECIFICATION Spec
INVARIANTS Faithful Settled BuiltIsWhole NothingTornByRefusal SavesConvert
PROPERTIES OriginalsKept DocumentsAccepted
SYMMETRY MCSymmetry
