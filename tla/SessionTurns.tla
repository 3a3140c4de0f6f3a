---------------------------- MODULE SessionTurns ----------------------------
(***************************************************************************)
(* The turn lifecycle of one session: who may start a turn, how input      *)
(* reaches it, how it is aborted, and how it ends.                         *)
(*                                                                         *)
(* Code: core/src/tasks/mod.rs (spawn_task, start_task, abort_all_tasks,   *)
(* on_task_finished, maybe_start_turn_for_pending_work), tasks/regular.rs, *)
(* session/turn_input.rs, session/input_queue.rs, session/inject.rs,       *)
(* session/handlers.rs and the pending-input loop of session/turn.rs.      *)
(*                                                                         *)
(* Every process below is a tokio task.  One action is the code between    *)
(* two points where another task can observe or change the shared state:   *)
(* the `active_turn` slot, the TurnState it points to, and the mailbox,    *)
(* each behind its own async mutex.                                        *)
(*                                                                         *)
(* Abstractions: an input is a model value; queues are sets (the order in  *)
(* which drained items are recorded is not modelled); turn metadata,       *)
(* telemetry and settings are left out, except that applying settings may  *)
(* refuse a start; the model's stream is one of three sampling outcomes.   *)
(***************************************************************************)
EXTENDS Integers, Sequences, FiniteSets

CONSTANTS
    Inputs,         \* user inputs (TurnInput::UserInput)
    Mails,          \* inter-agent communications
    TriggerMails,   \* the mails with trigger_turn = true
    Autos,          \* response items submitted with TurnInputMode::StartIfIdle
    Injects,        \* response items given to inject_no_new_turn
    Loop,           \* the submission loop of the session
    Guardian,       \* the task the guardian spawns to abort a turn
    Realtime,       \* the realtime conversation's routed-text task
    RealtimeInputs, \* the inputs that arrive through Realtime
    DurableSleep,   \* is a durable sleep outstanding on the thread?
    HooksMayBlock,  \* may hooks reject input or stop a compaction?
    MaxTurns,       \* bound: turns created
    MaxStates,      \* bound: ActiveTurn values created
    MaxSamples,     \* bound: follow-up sampling requests per turn
    MaxInterrupts,  \* bound: Op::Interrupt submissions
    MaxCompacts,    \* bound: Op::Compact submissions
    MaxGuardianTrips, \* bound: guardian circuit-breaker trips
    MaxShutdowns    \* bound: Op::Shutdown submissions

Turns    == 1..MaxTurns
StateIds == 1..MaxStates
Clients  == {Loop, Guardian, Realtime}
Procs    == Clients \cup Turns
Items    == Inputs \cup Mails \cup Autos \cup Injects
None     == 0       \* no turn, no TurnState

ASSUME SessionAssumption ==
    /\ MaxTurns \in Nat /\ MaxStates \in Nat /\ MaxSamples \in Nat
    /\ MaxInterrupts \in Nat /\ MaxCompacts \in Nat /\ MaxGuardianTrips \in Nat
    /\ MaxShutdowns \in Nat
    /\ DurableSleep \in BOOLEAN /\ HooksMayBlock \in BOOLEAN
    /\ TriggerMails \subseteq Mails /\ RealtimeInputs \subseteq Inputs
    /\ Inputs \cap Mails = {} /\ Inputs \cap Autos = {} /\ Inputs \cap Injects = {}
    /\ Mails \cap Autos = {} /\ Mails \cap Injects = {} /\ Autos \cap Injects = {}
    /\ Loop # Guardian /\ Loop # Realtime /\ Guardian # Realtime
    /\ Clients \cap Nat = {}

VARIABLES
    active,     \* Session::active_turn: [st, task], st = None when the Option is None
    pending,    \* TurnState::pending_input, by TurnState identity
    phase,      \* TurnState::mailbox_delivery_phase
    nextState,  \* the next TurnState identity (Arc allocation)
    mailbox,    \* InputQueue::mailbox_pending_mails
    kind,       \* TaskKind of each turn
    input,      \* task input not yet recorded, by turn
    cancelled,  \* the turn's CancellationToken
    samples,    \* follow-up requests the turn has made
    nextTurn,   \* the next turn id
    result,     \* the SessionTaskResult of each turn's task
    pc,         \* where each process is
    starting,   \* the turn a process is starting
    victim,     \* the RunningTask a process has taken out of the slot
    held,       \* the TurnState a process holds an Arc to
    hand,       \* items a process has drained and not yet stored
    recorded,   \* how often each item was recorded in the history
    discarded,  \* items refused or dropped with a report to the client
    sent,       \* items already submitted
    events,     \* terminal events of each turn, in order
    ops         \* operations submitted: interrupts, compacts, trips, shutdowns

stateVars == <<pending, phase, nextState>>
taskVars  == <<kind, input, cancelled, samples, nextTurn, result>>
procVars  == <<starting, victim, held, hand>>
ghostVars == <<recorded, discarded, sent, events>>
vars == <<active, stateVars, mailbox, taskVars, pc, procVars, ghostVars, ops>>

NoActive == [st |-> None, task |-> None]

RunPcs    == {"begin", "turnDrain", "turnRecord", "sample", "post"}
FinishPcs == {"finCheck", "finTake", "finReport", "finClear"}
StartPcs  == {"drain", "attach", "install"}
WakePcs   == {"wake", "wakeReserve", "wakeDrain", "wakeExtend"}
AbortPcs  == {"take", "await", "report"}
EndedPcs  == {"finClear", "done"} \cup WakePcs \cup StartPcs
PcValues  == {"idle", "unborn", "done", "exited", "admit"}
             \cup RunPcs \cup FinishPcs \cup StartPcs \cup WakePcs \cup AbortPcs

\* A task lives in the ActiveTurn, never in an empty slot.
SlotOK ==
    /\ active \in [st : StateIds \cup {None}, task : Turns \cup {None}]
    /\ active.st = None => active.task = None
    /\ nextState \in 1..(MaxStates + 1)

TurnStateOK ==
    /\ pending \in [StateIds -> SUBSET Items]
    /\ phase \in [StateIds -> {"CurrentTurn", "NextTurn"}]
    /\ mailbox \in SUBSET Mails

TaskOK ==
    /\ kind \in [Turns -> {"Regular", "Compact"}]
    /\ input \in [Turns -> SUBSET Items]
    /\ cancelled \in [Turns -> BOOLEAN]
    /\ samples \in [Turns -> 0..MaxSamples]
    /\ nextTurn \in 1..(MaxTurns + 1)
    /\ result \in [Turns -> {"Ok", "TurnAborted"}]

ProcOK ==
    /\ pc \in [Procs -> PcValues]
    /\ starting \in [Procs -> Turns \cup {None}]
    /\ victim \in [Procs -> Turns \cup {None}]
    /\ held \in [Procs -> StateIds \cup {None}]
    /\ hand \in [Procs -> SUBSET Items]

HistoryOK ==
    /\ recorded \in [Items -> Nat]
    /\ discarded \in SUBSET Items
    /\ sent \in SUBSET Items
    /\ events \in [Turns -> Seq({"finished", "aborted"})]
    /\ ops \in [interrupts : Nat, compacts : Nat, trips : Nat, shutdowns : Nat]

\* TypeOK: the shape of the state, the same for every instance.
TypeOK == SlotOK /\ TurnStateOK /\ TaskOK /\ ProcOK /\ HistoryOK

Init ==
    /\ active = NoActive
    /\ pending = [s \in StateIds |-> {}]
    /\ phase = [s \in StateIds |-> "CurrentTurn"]
    /\ nextState = 1
    /\ mailbox = {}
    /\ kind = [t \in Turns |-> "Regular"]
    /\ input = [t \in Turns |-> {}]
    /\ cancelled = [t \in Turns |-> FALSE]
    /\ samples = [t \in Turns |-> 0]
    /\ nextTurn = 1
    /\ result = [t \in Turns |-> "Ok"]
    /\ pc = [p \in Procs |-> IF p \in Turns THEN "unborn" ELSE "idle"]
    /\ starting = [p \in Procs |-> None]
    /\ victim = [p \in Procs |-> None]
    /\ held = [p \in Procs |-> None]
    /\ hand = [p \in Procs |-> {}]
    /\ recorded = [i \in Items |-> 0]
    /\ discarded = {}
    /\ sent = {}
    /\ events = [t \in Turns |-> <<>>]
    /\ ops = [interrupts |-> 0, compacts |-> 0, trips |-> 0, shutdowns |-> 0]

-----------------------------------------------------------------------------
(* Helpers.                                                                *)

\* Where a process goes when its operation is over: a turn's tokio task ends,
\* the submission loop waits for the next Op or exits after a shutdown.
Return(p) ==
    IF p \in Turns THEN "done"
    ELSE IF p = Loop /\ ops.shutdowns > 0 THEN "exited" ELSE "idle"

\* The process leaves its operation and drops its local variables.
Leave(p) ==
    /\ pc' = [pc EXCEPT ![p] = Return(p)]
    /\ starting' = [starting EXCEPT ![p] = None]
    /\ victim' = [victim EXCEPT ![p] = None]
    /\ held' = [held EXCEPT ![p] = None]
    /\ hand' = [hand EXCEPT ![p] = {}]

\* record_pending_input for every item of S.
Record(S) == recorded' = [i \in Items |-> IF i \in S THEN recorded[i] + 1 ELSE recorded[i]]

\* run_hooks_and_record_inputs: the user-prompt hooks see only user input and
\* may reject any of it; everything else is recorded.  Its result is TRUE when
\* something was rejected and no user input was accepted.
Blockable(S) == IF HooksMayBlock THEN S \cap Inputs ELSE {}
RecordAccepted(S, blocked) == Record(S \ blocked) /\ discarded' = discarded \cup blocked
Rejected(S, blocked) == blocked # {} /\ (S \ blocked) \cap Inputs = {}

\* turn_state_for_sub_id: the slot still holds turn t's task.
Current(t) == active.task = t

\* InputQueue::has_pending_input, which looks at whatever turn is active.
HasPendingInput ==
    IF active.st = None
    THEN mailbox # {}
    ELSE /\ phase[active.st] = "CurrentTurn"
         /\ pending[active.st] # {} \/ mailbox # {}

\* accepts_mailbox_delivery_for_current_turn, of the active turn if there is one.
AcceptsMailbox == active.st = None \/ phase[active.st] = "CurrentTurn"

\* Variant of GetPendingInput: the active TurnState is read and not emptied.
GetPendingInputCopy(p) ==
    IF AcceptsMailbox
    THEN /\ hand' = [hand EXCEPT ![p] = mailbox \cup
                        (IF active.st = None THEN {} ELSE pending[active.st])]
         /\ mailbox' = {}
         /\ UNCHANGED pending
    ELSE hand' = [hand EXCEPT ![p] = {}] /\ UNCHANGED <<pending, mailbox>>

\* InputQueue::get_pending_input: the items it returns to process p, which it
\* takes out of the active TurnState and the mailbox.
GetPendingInput(p) ==
    IF AcceptsMailbox
    THEN /\ hand' = [hand EXCEPT ![p] = mailbox \cup
                        (IF active.st = None THEN {} ELSE pending[active.st])]
         /\ pending' = IF active.st = None THEN pending
                       ELSE [pending EXCEPT ![active.st] = {}]
         /\ mailbox' = {}
    ELSE /\ hand' = [hand EXCEPT ![p] = {}]
         /\ UNCHANGED <<pending, mailbox>>

\* extend_pending_input_and_accept_mailbox_delivery_for_turn_state.
ExtendAndAccept(s, S) ==
    /\ pending' = [pending EXCEPT ![s] = @ \cup S]
    /\ phase' = [phase EXCEPT ![s] = "CurrentTurn"]

\* Can the mail in the mailbox wake an idle session?
PendingWork == mailbox # {} /\ (mailbox \cap TriggerMails # {} \/ DurableSleep)

\* ActiveTurn::default(): a new TurnState and no task.
FreshActive == [st |-> nextState, task |-> None]

\* new_turn_with_default_settings and its variants: process p holds a new turn
\* context, of a task of kind k that will be given the items S.
NewTurn(p, k, S) ==
    /\ nextTurn <= MaxTurns
    /\ nextTurn' = nextTurn + 1
    /\ kind' = [kind EXCEPT ![nextTurn] = k]
    /\ input' = [input EXCEPT ![nextTurn] = S]
    /\ starting' = [starting EXCEPT ![p] = nextTurn]

-----------------------------------------------------------------------------
(* Client operations.  They are handled by the submission loop, one at a   *)
(* time, except realtime text, which its own task routes.                  *)

Submits(p, i) ==
    /\ p = IF i \in RealtimeInputs THEN Realtime ELSE Loop
    /\ pc[p] = "idle"
    /\ i \notin sent
    /\ p = Realtime => ops.shutdowns = 0
    /\ sent' = sent \cup {i}

\* start_or_steer, accepted by steer_input.
SteerInput(p, i) ==
    /\ Submits(p, i)
    /\ active.task # None /\ kind[active.task] = "Regular"
    /\ ExtendAndAccept(active.st, {i})
    /\ UNCHANGED <<active, nextState, mailbox, taskVars, pc, procVars,
                   recorded, discarded, events, ops>>

\* start_or_steer while a compaction runs: ActiveTurnNotSteerable.
DeclineInput(p, i) ==
    /\ Submits(p, i)
    /\ active.task # None /\ kind[active.task] # "Regular"
    /\ discarded' = discarded \cup {i}
    /\ UNCHANGED <<active, stateVars, mailbox, taskVars, pc, procVars,
                   recorded, events, ops>>

\* start_or_steer with NoActiveTurn: a new turn, given to spawn_task.
SpawnForInput(p, i) ==
    /\ Submits(p, i)
    /\ active.task = None
    /\ NewTurn(p, "Regular", {i})
    /\ pc' = [pc EXCEPT ![p] = "take"]
    /\ UNCHANGED <<active, stateVars, mailbox, cancelled, samples, result, victim, held,
                   hand, recorded, discarded, events, ops>>

\* inter_agent_communication.
SubmitMail(m) ==
    /\ pc[Loop] = "idle"
    /\ m \notin sent
    /\ sent' = sent \cup {m}
    /\ mailbox' = mailbox \cup {m}
    /\ pc' = [pc EXCEPT ![Loop] = IF m \in TriggerMails \/ DurableSleep
                                  THEN "wake" ELSE "idle"]
    /\ UNCHANGED <<active, stateVars, taskVars, procVars, recorded, discarded,
                   events, ops>>

\* interrupt_task: abort_all_tasks(Interrupted).
Interrupt ==
    /\ pc[Loop] = "idle"
    /\ ops.interrupts < MaxInterrupts
    /\ ops' = [ops EXCEPT !.interrupts = @ + 1]
    /\ pc' = [pc EXCEPT ![Loop] = "take"]
    /\ UNCHANGED <<active, stateVars, mailbox, taskVars, procVars, ghostVars>>

\* Variant of Compact: start_task without abort_all_tasks before it.
CompactWithoutAbort ==
    /\ pc[Loop] = "idle"
    /\ ops.compacts < MaxCompacts
    /\ ops' = [ops EXCEPT !.compacts = @ + 1]
    /\ NewTurn(Loop, "Compact", {})
    /\ pc' = [pc EXCEPT ![Loop] = "drain"]
    /\ UNCHANGED <<active, stateVars, mailbox, cancelled, samples, result, victim, held,
                   hand, ghostVars>>

\* compact: a compaction turn, given to spawn_task.
Compact ==
    /\ pc[Loop] = "idle"
    /\ ops.compacts < MaxCompacts
    /\ ops' = [ops EXCEPT !.compacts = @ + 1]
    /\ NewTurn(Loop, "Compact", {})
    /\ pc' = [pc EXCEPT ![Loop] = "take"]
    /\ UNCHANGED <<active, stateVars, mailbox, cancelled, samples, result, victim, held,
                   hand, ghostVars>>

\* shutdown_session_runtime: the realtime conversation is joined first, then
\* abort_all_tasks(Interrupted); the loop exits afterwards (see Return).
Shutdown ==
    /\ pc[Loop] = "idle"
    /\ ops.shutdowns < MaxShutdowns
    /\ pc[Realtime] = "idle"
    /\ ops' = [ops EXCEPT !.shutdowns = @ + 1]
    /\ pc' = [pc EXCEPT ![Loop] = "take"]
    /\ UNCHANGED <<active, stateVars, mailbox, taskVars, procVars, ghostVars>>

\* start_if_idle up to the reservation of an empty ActiveTurn.
StartIfIdle(i) ==
    /\ pc[Loop] = "idle"
    /\ i \notin sent
    /\ sent' = sent \cup {i}
    /\ IF mailbox \cap TriggerMails = {} /\ active.st = None
       THEN /\ nextState <= MaxStates
            /\ active' = FreshActive
            /\ nextState' = nextState + 1
            /\ held' = [held EXCEPT ![Loop] = nextState]
            /\ hand' = [hand EXCEPT ![Loop] = {i}]
            /\ pc' = [pc EXCEPT ![Loop] = "admit"]
            /\ UNCHANGED discarded
       ELSE /\ discarded' = discarded \cup {i}
            /\ UNCHANGED <<active, nextState, held, hand, pc>>
    /\ UNCHANGED <<pending, phase, mailbox, taskVars, starting, victim, recorded,
                   events, ops>>

\* clear_reserved_idle_turn.
ClearReserved(s) ==
    active' = IF active.st = s /\ active.task = None THEN NoActive ELSE active

\* start_if_idle after the reservation: mail that arrived meanwhile wins, and
\* the settings update may be refused; otherwise the item waits in the
\* reserved TurnState for start_task.
AdmitDeclined(p) ==
    /\ pc[p] = "admit"
    /\ ClearReserved(held[p])
    /\ discarded' = discarded \cup hand[p]
    /\ IF mailbox \cap TriggerMails # {}
       THEN /\ pc' = [pc EXCEPT ![p] = "wake"]
            /\ held' = [held EXCEPT ![p] = None]
            /\ hand' = [hand EXCEPT ![p] = {}]
            /\ UNCHANGED <<starting, victim>>
       ELSE Leave(p)
    /\ UNCHANGED <<stateVars, mailbox, taskVars, recorded, sent, events, ops>>

AdmitStarted(p) ==
    /\ pc[p] = "admit"
    /\ mailbox \cap TriggerMails = {}
    /\ NewTurn(p, "Regular", {})
    /\ pending' = [pending EXCEPT ![held[p]] = @ \cup hand[p]]
    /\ hand' = [hand EXCEPT ![p] = {}]
    /\ pc' = [pc EXCEPT ![p] = "drain"]
    /\ UNCHANGED <<active, phase, nextState, mailbox, cancelled, samples, result, victim,
                   held, ghostVars, ops>>

\* inject_no_new_turn, from an extension or a background task.  An ActiveTurn
\* is enough: inject_if_running does not ask whether it has a task.
Inject(i) ==
    /\ i \notin sent
    /\ sent' = sent \cup {i}
    /\ IF active.st # None
       THEN ExtendAndAccept(active.st, {i}) /\ UNCHANGED recorded
       ELSE Record({i}) /\ UNCHANGED <<pending, phase>>
    /\ UNCHANGED <<active, nextState, mailbox, taskVars, pc, procVars, discarded,
                   events, ops>>

-----------------------------------------------------------------------------
(* Abort: abort_all_tasks and abort_turn_if_active.                        *)

\* take_active_turn and, when the slot held a task, the cancellation of its
\* token.  (handle_task_abort returns early for a token that is already
\* cancelled; a token is cancelled only after its task has left the slot, so
\* that never happens.)  A slot without a task is dropped with what it holds.
TakeActive(p) ==
    /\ pc[p] = "take"
    /\ active' = NoActive
    /\ IF active.task # None
       THEN /\ victim' = [victim EXCEPT ![p] = active.task]
            /\ held' = [held EXCEPT ![p] = active.st]
            /\ cancelled' = [cancelled EXCEPT ![active.task] = TRUE]
            /\ pc' = [pc EXCEPT ![p] = "await"]
            /\ UNCHANGED <<starting, hand>>
       ELSE /\ UNCHANGED cancelled
            /\ IF starting[p] # None
               THEN pc' = [pc EXCEPT ![p] = "drain"] /\ UNCHANGED procVars
               ELSE Leave(p)
    /\ UNCHANGED <<stateVars, mailbox, kind, input, samples, nextTurn, result, ghostVars, ops>>

\* The guardian's circuit breaker trips for turn t and its spawned task finds
\* t still active; when it does not, abort_turn_if_active changes nothing.
GuardianAbort(t) ==
    /\ pc[Guardian] = "idle"
    /\ ops.trips < MaxGuardianTrips
    /\ active.task = t
    /\ ops' = [ops EXCEPT !.trips = @ + 1]
    /\ active' = NoActive
    /\ victim' = [victim EXCEPT ![Guardian] = t]
    /\ held' = [held EXCEPT ![Guardian] = active.st]
    /\ cancelled' = [cancelled EXCEPT ![t] = TRUE]
    /\ pc' = [pc EXCEPT ![Guardian] = "await"]
    /\ UNCHANGED <<stateVars, mailbox, kind, input, samples, nextTurn, result, starting,
                   hand, ghostVars>>

\* Variant of AbortJoin: the task is asked to stop and not made to.
AbortJoinGraceful(p) ==
    /\ pc[p] = "await"
    /\ pc' = [pc EXCEPT ![p] = "report"]
    /\ UNCHANGED <<active, stateVars, mailbox, taskVars, procVars, ghostVars, ops>>

\* handle_task_abort waits for the task's `done`, or 100 ms, then aborts its
\* handle: the task stops where it is and what it held is lost with the turn.
\* While the aborter waits the task may take any number of steps.  The abort
\* itself is one step here: the poll it interrupts, which the code does not
\* wait for, is taken to end before the aborter's next step.
AbortJoin(p) ==
    /\ pc[p] = "await"
    /\ pc' = [pc EXCEPT ![victim[p]] = "done", ![p] = "report"]
    /\ discarded' = discarded \cup input[victim[p]] \cup hand[victim[p]]
    /\ input' = [input EXCEPT ![victim[p]] = {}]
    /\ hand' = [hand EXCEPT ![victim[p]] = {}]
    /\ starting' = [starting EXCEPT ![victim[p]] = None]
    /\ held' = [held EXCEPT ![victim[p]] = None]
    /\ UNCHANGED <<active, stateVars, mailbox, kind, cancelled, samples, nextTurn, result,
                   victim, recorded, sent, events, ops>>

\* Variant of AbortReport: a replaced turn is not reported.
AbortReportSilent(p) ==
    /\ pc[p] = "report"
    /\ events' = IF starting[p] # None THEN events
                 ELSE [events EXCEPT ![victim[p]] = Append(@, "aborted")]
    /\ discarded' = discarded \cup pending[held[p]]
    /\ pending' = [pending EXCEPT ![held[p]] = {}]
    /\ pc' = [pc EXCEPT ![p] = IF starting[p] # None THEN "drain" ELSE "wake"]
    /\ victim' = [victim EXCEPT ![p] = None]
    /\ held' = [held EXCEPT ![p] = None]
    /\ UNCHANGED <<active, phase, nextState, mailbox, taskVars, starting, hand,
                   recorded, sent, ops>>

\* TurnAborted, then clear_pending.  A replaced turn makes room for the turn
\* being started; an interrupted one lets pending work start the next.
AbortReport(p) ==
    /\ pc[p] = "report"
    /\ events' = [events EXCEPT ![victim[p]] = Append(@, "aborted")]
    /\ discarded' = discarded \cup pending[held[p]]
    /\ pending' = [pending EXCEPT ![held[p]] = {}]
    /\ pc' = [pc EXCEPT ![p] = IF starting[p] # None THEN "drain" ELSE "wake"]
    /\ victim' = [victim EXCEPT ![p] = None]
    /\ held' = [held EXCEPT ![p] = None]
    /\ UNCHANGED <<active, phase, nextState, mailbox, taskVars, starting, hand,
                   recorded, sent, ops>>

-----------------------------------------------------------------------------
(* maybe_start_turn_for_pending_work_with_sub_id.                          *)

WakeCheck(p) ==
    /\ pc[p] = "wake"
    /\ IF PendingWork
       THEN pc' = [pc EXCEPT ![p] = "wakeReserve"] /\ UNCHANGED procVars
       ELSE Leave(p)
    /\ UNCHANGED <<active, stateVars, mailbox, taskVars, ghostVars, ops>>

WakeReserve(p) ==
    /\ pc[p] = "wakeReserve"
    /\ IF active.st # None
       THEN Leave(p) /\ UNCHANGED <<active, nextState>>
       ELSE /\ nextState <= MaxStates
            /\ active' = FreshActive
            /\ nextState' = nextState + 1
            /\ held' = [held EXCEPT ![p] = nextState]
            /\ pc' = [pc EXCEPT ![p] = "wakeDrain"]
            /\ UNCHANGED <<starting, victim, hand>>
    /\ UNCHANGED <<pending, phase, mailbox, taskVars, ghostVars, ops>>

\* get_pending_input reads whatever turn is active by now, which need not be
\* the reserved one.
WakeDrain(p) ==
    /\ pc[p] = "wakeDrain"
    /\ GetPendingInput(p)
    /\ NewTurn(p, "Regular", {})
    /\ pc' = [pc EXCEPT ![p] = "wakeExtend"]
    /\ UNCHANGED <<active, phase, nextState, cancelled, samples, result, victim, held,
                   ghostVars, ops>>

\* Variant of WakeExtend: the drained mail is not put into the reserved state.
WakeExtendForgets(p) ==
    /\ pc[p] = "wakeExtend"
    /\ hand' = [hand EXCEPT ![p] = {}]
    /\ pc' = [pc EXCEPT ![p] = "drain"]
    /\ UNCHANGED <<active, stateVars, mailbox, taskVars, starting, victim,
                   held, ghostVars, ops>>

WakeExtend(p) ==
    /\ pc[p] = "wakeExtend"
    /\ pending' = [pending EXCEPT ![held[p]] = @ \cup hand[p]]
    /\ hand' = [hand EXCEPT ![p] = {}]
    /\ pc' = [pc EXCEPT ![p] = "drain"]
    /\ UNCHANGED <<active, phase, nextState, mailbox, taskVars, starting, victim,
                   held, ghostVars, ops>>

-----------------------------------------------------------------------------
(* start_task.                                                             *)

StartDrain(p) ==
    /\ pc[p] = "drain"
    /\ hand' = [hand EXCEPT ![p] = mailbox]
    /\ mailbox' = {}
    /\ pc' = [pc EXCEPT ![p] = "attach"]
    /\ UNCHANGED <<active, stateVars, taskVars, starting, victim, held, ghostVars, ops>>

\* active_turn.get_or_insert_with(ActiveTurn::default); s is its TurnState.
GetOrInsert(s) ==
    /\ s = IF active.st = None THEN nextState ELSE active.st
    /\ s <= MaxStates
    /\ nextState' = IF active.st = None THEN nextState + 1 ELSE nextState

StartAttach(p) ==
    /\ pc[p] = "attach"
    /\ \E s \in StateIds :
        /\ GetOrInsert(s)
        /\ active' = [active EXCEPT !.st = s]
        /\ pending' = [pending EXCEPT ![s] = @ \cup hand[p]]
    /\ hand' = [hand EXCEPT ![p] = {}]
    /\ pc' = [pc EXCEPT ![p] = "install"]
    /\ UNCHANGED <<phase, mailbox, taskVars, starting, victim, held, ghostVars, ops>>

\* Variant of StartInstall: it trusts the slot it saw under the first lock.
StartInstallNoInsert(p) ==
    /\ pc[p] = "install"
    /\ active' = [active EXCEPT !.task = starting[p]]
    /\ pc' = [pc EXCEPT ![starting[p]] = "begin", ![p] = Return(p)]
    /\ starting' = [starting EXCEPT ![p] = None]
    /\ held' = [held EXCEPT ![p] = None]
    /\ UNCHANGED <<stateVars, mailbox, taskVars, victim, hand, ghostVars, ops>>

\* The second lock of active_turn spawns the task and stores it.  Storing over
\* a task drops that task's AbortOnDropHandle, which stops it where it is.
StartInstall(p) ==
    /\ pc[p] = "install"
    /\ \E s \in StateIds :
        /\ GetOrInsert(s)
        /\ active' = [st |-> s, task |-> starting[p]]
    /\ pc' = [q \in Procs |->
                IF q = starting[p] THEN "begin"
                ELSE IF q = p THEN Return(p)
                ELSE IF q = active.task THEN "done" ELSE pc[q]]
    /\ starting' = [starting EXCEPT ![p] = None]
    /\ held' = [held EXCEPT ![p] = None]
    /\ UNCHANGED <<pending, phase, mailbox, taskVars, victim, hand, ghostVars, ops>>

-----------------------------------------------------------------------------
(* The task of turn t: RegularTask::run and run_turn, CompactTask::run.    *)

\* The task's own input is recorded once the hooks accept it.  A rejection
\* ends run_turn; fresh input is sampled before anything pending is drained.
TurnBegin(t) ==
    /\ pc[t] = "begin" /\ kind[t] = "Regular"
    /\ \E blocked \in SUBSET Blockable(input[t]) :
        /\ RecordAccepted(input[t], blocked)
        /\ pc' = [pc EXCEPT ![t] = IF Rejected(input[t], blocked) THEN "post"
                                   ELSE IF input[t] = {} THEN "turnDrain"
                                   ELSE "sample"]
    /\ input' = [input EXCEPT ![t] = {}]
    /\ UNCHANGED <<active, stateVars, mailbox, kind, cancelled, samples, nextTurn, result,
                   procVars, sent, events, ops>>

\* run_turn gives up before it records its input: pre-sampling compaction or
\* context capture failed, or a session-start hook stopped the turn.  Without
\* a terminal error RegularTask::run still looks for pending input.
TurnFailsEarly(t) ==
    /\ pc[t] = "begin" /\ kind[t] = "Regular"
    /\ discarded' = discarded \cup input[t]
    /\ input' = [input EXCEPT ![t] = {}]
    /\ \/ pc' = [pc EXCEPT ![t] = "finCheck"] /\ UNCHANGED samples
       \/ /\ samples[t] < MaxSamples
          /\ samples' = [samples EXCEPT ![t] = @ + 1]
          /\ pc' = [pc EXCEPT ![t] = "post"]
    /\ UNCHANGED <<active, stateVars, mailbox, kind, cancelled, nextTurn, result, procVars,
                   recorded, sent, events, ops>>

\* CompactTask::run never looks at pending input.
CompactRuns(t) ==
    /\ pc[t] = "begin" /\ kind[t] = "Compact"
    /\ pc' = [pc EXCEPT ![t] = "finCheck"]
    /\ UNCHANGED <<active, stateVars, mailbox, taskVars, procVars, ghostVars, ops>>

\* The head of run_turn's loop: get_pending_input ...
TurnDrain(t) ==
    /\ pc[t] = "turnDrain"
    /\ GetPendingInput(t)
    /\ pc' = [pc EXCEPT ![t] = "turnRecord"]
    /\ UNCHANGED <<active, phase, nextState, taskVars, starting, victim, held,
                   ghostVars, ops>>

\* ... and run_hooks_and_record_inputs, which leaves the loop on a rejection.
TurnRecord(t) ==
    /\ pc[t] = "turnRecord"
    /\ \E blocked \in SUBSET Blockable(hand[t]) :
        /\ RecordAccepted(hand[t], blocked)
        /\ pc' = [pc EXCEPT ![t] = IF Rejected(hand[t], blocked) THEN "post" ELSE "sample"]
    /\ hand' = [hand EXCEPT ![t] = {}]
    /\ UNCHANGED <<active, stateVars, mailbox, taskVars, starting, victim, held,
                   sent, events, ops>>

\* accept_mailbox_delivery_for_current_turn.
AcceptDelivery(t) ==
    phase' = IF Current(t) THEN [phase EXCEPT ![active.st] = "CurrentTurn"] ELSE phase

\* A sampling request that needs a follow-up: the model called a tool, or a
\* stop hook asked to continue.  Right after an automatic compaction the
\* follow-up is sampled before pending input is drained.
SampleFollowUp(t) ==
    /\ pc[t] = "sample"
    /\ samples[t] < MaxSamples
    /\ samples' = [samples EXCEPT ![t] = @ + 1]
    /\ AcceptDelivery(t)
    /\ \E next \in {"turnDrain", "sample"} : pc' = [pc EXCEPT ![t] = next]
    /\ UNCHANGED <<active, pending, nextState, mailbox, kind, input, cancelled,
                   nextTurn, result, procVars, ghostVars, ops>>

\* A sampling request that ends in a final answer.  Recording it calls
\* defer_mailbox_delivery_to_next_turn, which keeps the turn open when
\* anything but queue-only mail is pending.
SampleFinal(t) ==
    /\ pc[t] = "sample"
    /\ phase' = IF Current(t) /\ pending[active.st] \subseteq Mails \ TriggerMails
                THEN [phase EXCEPT ![active.st] = "NextTurn"] ELSE phase
    /\ pc' = [pc EXCEPT ![t] = "post"]
    /\ UNCHANGED <<active, pending, nextState, mailbox, taskVars, procVars,
                   ghostVars, ops>>

\* A sampling request that ends in an error, which is terminal for the task.
SampleError(t) ==
    /\ pc[t] = "sample"
    /\ pc' = [pc EXCEPT ![t] = "finCheck"]
    /\ UNCHANGED <<active, stateVars, mailbox, taskVars, procVars, ghostVars, ops>>

\* has_pending_input, first asked by run_turn (its loop goes on) and then by
\* RegularTask::run (it calls run_turn again, without input).
PostCheck(t) ==
    /\ pc[t] = "post"
    /\ \E next \in IF HasPendingInput THEN {"turnDrain", "begin"} ELSE {"finCheck"} :
            pc' = [pc EXCEPT ![t] = next]
    /\ UNCHANGED <<active, stateVars, mailbox, taskVars, procVars, ghostVars, ops>>

\* The task sees its cancelled token: run returns, having recorded the task's
\* input unless it was building skills and plugins when it noticed.
ObserveCancel(t) ==
    /\ pc[t] \in {"begin", "turnDrain", "sample"}
    /\ cancelled[t]
    /\ \/ \E blocked \in SUBSET Blockable(input[t]) : RecordAccepted(input[t], blocked)
       \/ discarded' = discarded \cup input[t] /\ UNCHANGED recorded
    /\ input' = [input EXCEPT ![t] = {}]
    /\ pc' = [pc EXCEPT ![t] = "finCheck"]
    /\ UNCHANGED <<active, stateVars, mailbox, kind, cancelled, samples, nextTurn, result,
                   procVars, sent, events, ops>>

\* A pre- or post-compaction hook stops the compaction: that of a CompactTask,
\* the one before run_turn's first request, which still records the input, or
\* the one between two requests.  The task returns Err(TurnAborted) although
\* nobody cancelled it.
HookStopsTurn(t) ==
    /\ HooksMayBlock
    /\ \/ pc[t] = "begin" /\ UNCHANGED phase
       \/ pc[t] = "sample" /\ AcceptDelivery(t)
    /\ \E blocked \in SUBSET Blockable(input[t]) : RecordAccepted(input[t], blocked)
    /\ input' = [input EXCEPT ![t] = {}]
    /\ result' = [result EXCEPT ![t] = "TurnAborted"]
    /\ pc' = [pc EXCEPT ![t] = "finCheck"]
    /\ UNCHANGED <<active, pending, nextState, mailbox, kind, cancelled, samples,
                   nextTurn, procVars, sent, events, ops>>

-----------------------------------------------------------------------------
(* The end of the spawned closure and on_task_finished.                    *)

\* A cancelled task leaves its terminal event to the aborter.
FinCheck(t) ==
    /\ pc[t] = "finCheck"
    /\ IF cancelled[t] THEN Leave(t)
       ELSE pc' = [pc EXCEPT ![t] = "finTake"] /\ UNCHANGED procVars
    /\ UNCHANGED <<active, stateVars, mailbox, taskVars, ghostVars, ops>>

\* Variant of FinTake: the taken handle is dropped instead of detached, which
\* aborts the very task that is finishing.
FinTakeDropsHandle(t) ==
    /\ pc[t] = "finTake"
    /\ active' = IF active.task = None THEN active ELSE [active EXCEPT !.task = None]
    /\ Leave(t)
    /\ UNCHANGED <<stateVars, mailbox, taskVars, ghostVars, ops>>

\* Takes whatever task the slot holds, without asking whose it is, and
\* detaches its handle: from here on nothing can stop that task.
FinTake(t) ==
    /\ pc[t] = "finTake"
    /\ IF active.task = None
       THEN Leave(t) /\ UNCHANGED active
       ELSE /\ active' = [active EXCEPT !.task = None]
            /\ held' = [held EXCEPT ![t] = active.st]
            /\ pc' = [pc EXCEPT ![t] = "finReport"]
            /\ UNCHANGED <<starting, victim, hand>>
    /\ UNCHANGED <<stateVars, mailbox, taskVars, ghostVars, ops>>

\* TurnAborted for a task that returned that error, TurnComplete for any other.
TerminalEvent(t) == IF result[t] = "TurnAborted" THEN "aborted" ELSE "finished"

\* Variant of FinReport: late input is not looked at.
FinReportIgnoresPending(t) ==
    /\ pc[t] = "finReport"
    /\ events' = [events EXCEPT ![t] = Append(@, TerminalEvent(t))]
    /\ pc' = [pc EXCEPT ![t] = "finClear"]
    /\ UNCHANGED <<active, stateVars, mailbox, taskVars, procVars, recorded,
                   discarded, sent, ops>>

\* Pending input is taken and recorded, then the terminal event is sent.
FinReport(t) ==
    /\ pc[t] = "finReport"
    /\ \E blocked \in SUBSET Blockable(pending[held[t]]) :
            RecordAccepted(pending[held[t]], blocked)
    /\ pending' = [pending EXCEPT ![held[t]] = {}]
    /\ events' = [events EXCEPT ![t] = Append(@, TerminalEvent(t))]
    /\ pc' = [pc EXCEPT ![t] = "finClear"]
    /\ UNCHANGED <<active, phase, nextState, mailbox, taskVars, procVars, sent, ops>>

\* Variant of FinClear: the end of a turn does not look for pending work.
FinClearNoWake(t) ==
    /\ pc[t] = "finClear"
    /\ active' = IF active.task = None /\ active.st = held[t] THEN NoActive ELSE active
    /\ Leave(t)
    /\ UNCHANGED <<stateVars, mailbox, taskVars, ghostVars, ops>>

\* The slot is cleared if it still holds the taken ActiveTurn and no task
\* (Arc::ptr_eq); only then may pending work start the next turn.
FinClear(t) ==
    /\ pc[t] = "finClear"
    /\ IF active.task = None /\ active.st = held[t]
       THEN /\ active' = NoActive
            /\ pc' = [pc EXCEPT ![t] = "wake"]
            /\ held' = [held EXCEPT ![t] = None]
            /\ UNCHANGED <<starting, victim, hand>>
       ELSE Leave(t) /\ UNCHANGED active
    /\ UNCHANGED <<stateVars, mailbox, taskVars, ghostVars, ops>>

-----------------------------------------------------------------------------
ClientOp ==
    \/ \E p \in {Loop, Realtime}, i \in Inputs :
            SteerInput(p, i) \/ DeclineInput(p, i) \/ SpawnForInput(p, i)
    \/ \E m \in Mails : SubmitMail(m)
    \/ \E i \in Autos : StartIfIdle(i)
    \/ \E i \in Injects : Inject(i)
    \/ Interrupt \/ Compact \/ Shutdown
    \/ \E t \in Turns : GuardianAbort(t)

\* The steps a process takes on its own once it has something to do.
SharedStep(p) ==
    \/ AdmitDeclined(p) \/ AdmitStarted(p)
    \/ TakeActive(p) \/ AbortJoin(p) \/ AbortReport(p)
    \/ WakeCheck(p) \/ WakeReserve(p) \/ WakeDrain(p) \/ WakeExtend(p)
    \/ StartDrain(p) \/ StartAttach(p) \/ StartInstall(p)

TurnStep(t) ==
    \/ TurnBegin(t) \/ TurnFailsEarly(t) \/ CompactRuns(t)
    \/ TurnDrain(t) \/ TurnRecord(t)
    \/ SampleFollowUp(t) \/ SampleFinal(t) \/ SampleError(t)
    \/ PostCheck(t) \/ ObserveCancel(t) \/ HookStopsTurn(t)
    \/ FinCheck(t) \/ FinTake(t) \/ FinReport(t) \/ FinClear(t)

Next ==
    \/ ClientOp
    \/ \E p \in Procs : SharedStep(p)
    \/ \E t \in Turns : TurnStep(t)

Spec == Init /\ [][Next]_vars

\* tokio polls every ready task, the mutexes are fair and the abort timer
\* fires, so a process in the middle of an operation goes on.  Nothing forces
\* a client to submit anything.
Fairness ==
    /\ \A p \in Procs : WF_vars(SharedStep(p))
    /\ \A t \in Turns : WF_vars(TurnStep(t))

FairSpec == Spec /\ Fairness

-----------------------------------------------------------------------------
(* Properties.                                                             *)

\* start_task asserts twice (debug_assert!(turn.task.is_none())) that the slot
\* it is about to fill has no task: nobody starts a turn over a running one.
TaskSlotFree ==
    \A p \in Procs : pc[p] \in {"attach", "install"} => active.task = None

\* A turn whose task has ended was reported to the client exactly once, as
\* TurnComplete or TurnAborted by on_task_finished or as TurnAborted by the
\* aborter, which may still be on its way to it.
TerminalOnce ==
    \A t \in Turns :
        /\ Len(events[t]) <= 1
        /\ pc[t] = "done" => events[t] # <<>> \/ \E p \in Procs : victim[p] = t

\* A turn reported as aborted records nothing and samples nothing any more:
\* handle_task_abort stops the task before it reports the abort, and a task
\* that ended in Err(TurnAborted) is reported by on_task_finished, which then
\* only clears the slot and may start the turn after it.
AbortIsFinal ==
    \A t \in Turns : (\E k \in DOMAIN events[t] : events[t][k] = "aborted") =>
        \/ pc[t] = "done"
        \/ result[t] = "TurnAborted" /\ pc[t] \in EndedPcs

\* What was submitted is in the history, was refused or dropped with a report
\* to the client, or is somewhere the session still looks: the mailbox, the
\* input of a turn that has not ended, the hands of a process, or the
\* TurnState that is active or that a finishing or aborting process empties.
NoSilentLoss ==
    \A i \in sent :
        \/ recorded[i] > 0 \/ i \in discarded \/ i \in mailbox
        \/ \E t \in Turns : i \in input[t] /\ pc[t] # "done"
        \/ \E p \in Procs : i \in hand[p] /\ pc[p] # "done"
        \/ active.st # None /\ i \in pending[active.st]
        \/ \E p \in Procs : /\ pc[p] \in {"await", "report", "finReport"}
                            /\ i \in pending[held[p]]

\* Every task that is running a turn can be interrupted: it is in the slot, or
\* an aborter already holds it.  (on_task_finished detaches the handle of the
\* task it takes, so a task it took by mistake would be out of reach.)
Interruptible ==
    \A t \in Turns : pc[t] \in RunPcs =>
        active.task = t \/ \E p \in Procs : victim[p] = t

\* No input enters the history twice, whatever the interleaving: a drain of a
\* TurnState or of the mailbox takes what it reads.
AtMostOnceRecorded == \A i \in Items : recorded[i] <= 1

\* A turn whose task was started is eventually reported to the client.
StartedTurnReported == \A t \in Turns : pc[t] = "begin" ~> events[t] # <<>>

\* Mail that asks for a turn does not stay in the mailbox: when the session is
\* busy the running turn or the end of it picks the mail up.
TriggerMailServed == \A m \in TriggerMails : m \in mailbox ~> m \notin mailbox

=============================================================================
