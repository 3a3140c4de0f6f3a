SPECIFICATION Spec
CONSTANTS
    Inputs = {i1, i2}
    Mails = {m1}
    TriggerMails = {m1}
    Autos = {}
    Injects = {}
    Loop = Loop
    Guardian = Guardian
    Realtime = Realtime
    RealtimeInputs = {}
    DurableSleep = FALSE
    HooksMayBlock = FALSE
    MaxTurns = 3
    MaxStates = 3
    MaxSamples = 0
    MaxInterrupts = 0
    MaxCompacts = 0
    MaxGuardianTrips = 0
    MaxShutdowns = 0
INVARIANT TaskSlotFree
CHECK_DEADLOCK FALSE
