SPECIFICATION Spec
CONSTANT None = None
PROPERTIES EveryRequestReturns SettlesInTheEnd ReturnCatchesUp
CHECK_DEADLOCK FALSE
