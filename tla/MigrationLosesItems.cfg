SPECIFICATION Spec
CONSTANTS
    Procs = {p1}
    Last = 20
    Started = {8}
INVARIANT ItemsSurvive
