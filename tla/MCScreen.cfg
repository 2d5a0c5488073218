CONSTANTS
  CHAR_W = 1
  CHAR_H = 1
  None = None
  Width = 2
  Height = 3
  Stride = 3
  Format = "BGR"
  Moves <- MCMoves
  Texts <- MCTexts
SPECIFICATION Spec
INVARIANTS NoDeadlock ScreenShowsWindows WholeFrames ConsoleShowsText
