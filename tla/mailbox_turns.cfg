SPECIFICATION FairSpec
CONSTANTS
    Inputs = {}
    Mails = {m1, m2, q1}
    TriggerMails = {m1, m2}
    Autos = {a1}
    Injects = {}
    Loop = Loop
    Guardian = Guardian
    Realtime = Realtime
    RealtimeInputs = {}
    DurableSleep = FALSE
    HooksMayBlock = FALSE
    MaxTurns = 4
    MaxStates = 4
    MaxSamples = 1
    MaxInterrupts = 0
    MaxCompacts = 0
    MaxGuardianTrips = 0
    MaxShutdowns = 0
INVARIANT NoSilentLoss
PROPERTY TriggerMailServed
CHECK_DEADLOCK FALSE
