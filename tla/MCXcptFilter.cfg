SPECIFICATION Spec
CONSTANT MaxDepth = 5
 
 
INVARIANT LandsOnOwnStack
CHECK_DEADLOCK FALSE
