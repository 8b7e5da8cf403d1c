\* Three candles in the window of a poll, as the code is configured.
CONSTANTS
    MaxSlot = 4
    Lookback = 3
    Depth = 2
    GapCheck = 3
    Spare = 1
    History = 4
    MaxExtras = 0
SPECIFICATION UndisturbedSpec
INVARIANT KeysAreOfFinishedCandles
CHECK_DEADLOCK FALSE
