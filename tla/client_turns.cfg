SPECIFICATION FairSpec
CONSTANTS
    Inputs = {i1, i2}
    Mails = {}
    TriggerMails = {}
    Autos = {}
    Injects = {}
    Loop = Loop
    Guardian = Guardian
    Realtime = Realtime
    RealtimeInputs = {}
    DurableSleep = FALSE
    HooksMayBlock = TRUE
    MaxTurns = 3
    MaxStates = 3
    MaxSamples = 0
    MaxInterrupts = 1
    MaxCompacts = 1
    MaxGuardianTrips = 0
    MaxShutdowns = 1
INVARIANT TaskSlotFree
INVARIANT TerminalOnce
INVARIANT NoSilentLoss
INVARIANT Interruptible
PROPERTY StartedTurnReported
CHECK_DEADLOCK FALSE
