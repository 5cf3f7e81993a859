SPECIFICATION Spec
CONSTANTS
  WinSize = 1
  MaxLocWin = 2
  RemWin = 1
  MaxDown = 3
  MaxUp = 1
  MaxOpens = 1
  MaxAlive = 1
  MaxQueue = 1
INVARIANTS NoProtocolError ServerNeverSurprised EofAfterAllData BacklogWithinWindow
PROPERTIES MainOutputArrives ClosingCompletes
CHECK_DEADLOCK FALSE
