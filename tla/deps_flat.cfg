SPECIFICATION Spec
CONSTANTS
    i1 = i1
    i2 = i2
    i3 = i3
    i4 = i4
    a = a
    Inst <- FourInst
    Paths <- FlatPaths
    KeysOf <- FlatKeys
    ReadOnly = {}
    Missed <- OneMissed
    Repreaccepted = {}
SYMMETRY Symmetry
INVARIANTS TypeOK ForgottenTaken
PROPERTIES AnswerCoversKnown
CHECK_DEADLOCK FALSE
