SPECIFICATION Spec
CONSTANT None = None Absent = Absent Unset = Unset
INVARIANTS OnScreenIsOwn DoneAsAsked BusyMeansWaiting
PROPERTIES NewsNeverGoBack
CHECK_DEADLOCK FALSE
