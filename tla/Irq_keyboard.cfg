SPECIFICATION Spec
CONSTANTS
    Device = {0, 6, 14}
    MainLines = {14}
    HandlerLines = {12}
    BUF_SIZE = 2
    PS2_QUEUE_SIZE = 2
    MaxKeys = 3
INVARIANTS ControllersAgree CodesInOrder
PROPERTIES EveryCodePrinted EveryRequestServed
