SPECIFICATION Spec
CONSTANTS
    Inputs = {i1, r1}
    Mails = {m1}
    TriggerMails = {m1}
    Autos = {}
    Injects = {j1}
    Loop = Loop
    Guardian = Guardian
    Realtime = Realtime
    RealtimeInputs = {r1}
    DurableSleep = TRUE
    HooksMayBlock = TRUE
    MaxTurns = 2
    MaxStates = 2
    MaxSamples = 0
    MaxInterrupts = 0
    MaxCompacts = 0
    MaxGuardianTrips = 1
    MaxShutdowns = 0
INVARIANT TypeOK
INVARIANT AtMostOnceRecorded
INVARIANT AbortIsFinal
CHECK_DEADLOCK FALSE
