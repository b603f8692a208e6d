\* A sweep that meets a repair between its look-up and its DELETE.
CONSTANTS
    Node <- MCNode
    Worker = {w1}
    RF = 2
    W = 1
    MaxTrouble = 1
SPECIFICATION PromptSpec
PROPERTY RepairRecordsCopies
CHECK_DEADLOCK FALSE
