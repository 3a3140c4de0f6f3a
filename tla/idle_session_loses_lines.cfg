SPECIFICATION Spec
CONSTANTS
    Procs = {p1}
    Readers = {r1}
    Records = {a1, a2}
    Base = Base
    NoFile = NoFile
    MaxWeeks = 2
    MaxRuns = 2
    MaxReopens = 1
    MaxForks = 1
INVARIANT AckedReadable
CHECK_DEADLOCK FALSE
