SPECIFICATION FairSpec
CONSTANTS
  Letters = {"x"}
  Space = " "
  Nul = Nul
  None = None
  CmdSize = 4
  HistorySize = 2
  Commands <- MCCommands
  MaxEarly = 1
  KeysTyped = {"x", "Enter", "Backspace", "Tab", "Esc", "[", "A", "B"}
INVARIANTS
  CliTypeOK
  ScreenIsBuffer
  RingIsPast
  RunsWhatWasEntered
PROPERTIES
  EnteredIsServed
