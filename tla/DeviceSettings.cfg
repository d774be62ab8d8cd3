CONSTANTS
  None = none
  DefaultId = "kit"
  BoardTable <- MCBoardTable
  Images <- MCOneImage
  Profiles = {p}
SPECIFICATION Spec
INVARIANTS OutputHonest
PROPERTIES MixedInputPauses ProfileStaysApplied
