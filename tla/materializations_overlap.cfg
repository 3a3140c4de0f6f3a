SPECIFICATION Spec
CONSTANTS
    Procs = {p1, p2}
    Readers = {r1}
    Records = {a1}
    Base = Base
    NoFile = NoFile
    MaxWeeks = 2
    MaxRuns = 2
    MaxReopens = 0
    MaxForks = 2
INVARIANT SomeForm
SYMMETRY Symmetry
CHECK_DEADLOCK FALSE
