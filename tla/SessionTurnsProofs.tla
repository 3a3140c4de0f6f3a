------------------------- MODULE SessionTurnsProofs -------------------------
(***************************************************************************)
(* Proofs about SessionTurns, for every number of inputs, mails, turns and *)
(* interruptions: the state keeps its type, a turn that was reported as    *)
(* aborted has stopped for good, no input enters the history twice, and in *)
(* a session whose turns only the submission loop starts, the slot is free *)
(* when a task is put into it, every turn is reported once, every running  *)
(* task can be interrupted and no input is lost.                           *)
(*                                                                         *)
(* AbortIsFinal is not inductive: the aborter reports a turn one step      *)
(* after it stopped the task, and nothing in AbortIsFinal says that the    *)
(* task it holds is still stopped, or that no one else starts it.  IInv    *)
(* adds what the argument needs:                                           *)
(*   Control  - which processes abort, and that they hold a task and the   *)
(*              TurnState they took with it;                               *)
(*   Birth    - a task is started once: the turn a process is starting has *)
(*              never run, and no two processes start the same one;        *)
(*   Stopped  - a task the aborter reports, or has reported, has stopped;  *)
(*              one that ended in Err(TurnAborted) is past its last sample.*)
(* AtMostOnceRecorded needs Apart: an item is in one place at a time, and  *)
(* in none once it is recorded.  The theorems about the client's session   *)
(* (ClientOnly) need CInv: the task that runs is the one in the slot or    *)
(* the one the loop aborts (SlotInv), and its event is still to come       *)
(* (ReportInv); NoSilentLoss needs DInv as well: where items are           *)
(* (PlacesInv) and whose TurnState the slot holds (StatesInv).             *)
(***************************************************************************)
EXTENDS SessionTurns, TLAPS

\* Where a process uses the TurnState it holds.
HoldingPcs == {"await", "report", "finReport", "admit", "wakeDrain", "wakeExtend"}

Control ==
    \A p \in Procs :
        /\ pc[p] \in AbortPcs \cup {"admit"} => p \in Clients
        /\ pc[p] \in {"await", "report"} => victim[p] \in Turns
        /\ pc[p] \in HoldingPcs => held[p] \in StateIds

Birth ==
    /\ \A t \in Turns : t >= nextTurn => pc[t] = "unborn"
    /\ \A p \in Procs : starting[p] # None =>
            starting[p] < nextTurn /\ pc[starting[p]] = "unborn"
    /\ \A p, q \in Procs : p # q /\ starting[p] # None => starting[p] # starting[q]
    /\ active.task # None => pc[active.task] # "unborn"
    /\ \A p \in Procs : victim[p] # None => pc[victim[p]] # "unborn"

Stopped ==
    /\ \A p \in Procs : pc[p] = "report" => pc[victim[p]] = "done"
    /\ AbortIsFinal

IInv == TypeOK /\ Control /\ Birth /\ Stopped

\* The sorts of the model do not overlap.
LEMMA ProcFacts ==
    /\ Clients \cap Turns = {}
    /\ Loop \in Clients /\ Guardian \in Clients /\ Realtime \in Clients
    /\ Clients \subseteq Procs /\ Turns \subseteq Procs
    /\ Procs = Clients \cup Turns
    /\ None \notin Turns /\ None \notin StateIds
    /\ Turns \subseteq Nat /\ StateIds \subseteq Nat
    /\ None \notin Procs
    /\ Inputs \subseteq Items /\ Mails \subseteq Items
    /\ Autos \subseteq Items /\ Injects \subseteq Items
BY SessionAssumption
   DEF SessionAssumption, Clients, Turns, StateIds, Procs, None, Items

\* An operation that is over leaves its process in one of three places.
LEMMA ReturnFacts ==
    /\ \A p \in Procs : Return(p) \in {"done", "idle", "exited"}
    /\ \A t \in Turns : Return(t) = "done"
BY DEF Return

\* Stopped is kept when no task is revived, a process about to report holds a
\* task that has stopped, a turn past its terminal event stays past it with
\* the result it had, and no turn is newly reported as aborted.
LEMMA StoppedKeeps ==
    ASSUME IInv, events' = events,
           \A q \in Procs : pc[q] = "done" => pc'[q] = "done",
           \A q \in Procs : pc'[q] = "report" => pc[q] = "report" /\ victim'[q] = victim[q],
           \A t \in Turns : pc[t] \in EndedPcs => pc'[t] \in EndedPcs,
           \A t \in Turns : result[t] = "TurnAborted" => result'[t] = "TurnAborted"
    PROVE  Stopped'
<1>1. \A q \in Procs : pc[q] = "report" => victim[q] \in Procs /\ pc[victim[q]] = "done"
    BY ProcFacts DEF IInv, Control, Stopped
<1>2. Stopped!1' BY <1>1 DEF Stopped
<1>3. AbortIsFinal' BY ProcFacts DEF IInv, Stopped, AbortIsFinal
<1>4. QED BY <1>2, <1>3 DEF Stopped

\* What most actions do to the state IInv is about: a process p that is alive
\* moves on, not to a report and not to an abort with a task in hand; it may
\* give up the turn it was starting; a turn past its terminal event stays past
\* it; no turn is created and no event is sent.
Moves(p) ==
    /\ pc[p] \notin {"unborn", "done"}
    /\ pc' = [pc EXCEPT ![p] = pc'[p]]
    /\ pc'[p] \notin {"unborn", "await", "report"}
    /\ pc'[p] \in AbortPcs \cup {"admit"} => p \in Clients
    /\ pc'[p] \in HoldingPcs => held'[p] \in StateIds
    /\ starting' \in {starting, [starting EXCEPT ![p] = None]}
    /\ victim' \in {victim, [victim EXCEPT ![p] = None]}
    /\ \A q \in Procs : q # p => held'[q] = held[q]
    /\ active'.task \in {active.task, None}
    /\ p \in Turns /\ pc[p] \in EndedPcs => pc'[p] \in EndedPcs
    /\ result' \in {result, [result EXCEPT ![p] = "TurnAborted"]}
    /\ UNCHANGED <<nextTurn, events>>

\* Such a step keeps IInv, as far as it keeps the type.
LEMMA MovesKeeps ==
    ASSUME IInv, NEW p \in Procs, Moves(p), TypeOK'
    PROVE  IInv'
<1>x. PICK x \in PcValues \ {"unborn", "await", "report"} :
            /\ pc' = [pc EXCEPT ![p] = x]
            /\ x \in AbortPcs \cup {"admit"} => p \in Clients
            /\ x \in HoldingPcs => held'[p] \in StateIds
            /\ p \in Turns /\ pc[p] \in EndedPcs => x \in EndedPcs
    BY DEF TypeOK, ProcOK, Moves
<1>m. /\ pc[p] \notin {"unborn", "done"}
      /\ starting' \in {starting, [starting EXCEPT ![p] = None]}
      /\ victim' \in {victim, [victim EXCEPT ![p] = None]}
      /\ \A q \in Procs : q # p => held'[q] = held[q]
      /\ active'.task \in {active.task, None}
      /\ nextTurn' = nextTurn /\ events' = events
      /\ result' \in {result, [result EXCEPT ![p] = "TurnAborted"]}
    BY DEF Moves
<1>1. Control' BY <1>x, <1>m, ProcFacts DEF IInv, TypeOK, ProcOK, Control, AbortPcs, HoldingPcs
<1>2. Birth' BY <1>x, <1>m, ProcFacts DEF IInv, TypeOK, SlotOK, TaskOK, ProcOK, Birth
<1>3. Stopped'
    <2>1. \A q \in Procs : pc[q] = "done" => pc'[q] = "done"
        BY <1>x, <1>m DEF IInv, TypeOK, ProcOK
    <2>2. \A q \in Procs : pc'[q] = "report" => pc[q] = "report" /\ victim'[q] = victim[q]
        BY <1>x, <1>m DEF IInv, TypeOK, ProcOK
    <2>3. \A t \in Turns : pc[t] \in EndedPcs => pc'[t] \in EndedPcs
        BY <1>x, ProcFacts DEF IInv, TypeOK, ProcOK
    <2>4. \A t \in Turns : result[t] = "TurnAborted" => result'[t] = "TurnAborted"
        BY <1>m DEF IInv, TypeOK, TaskOK
    <2>5. QED BY <2>1, <2>2, <2>3, <2>4, <1>m, StoppedKeeps
<1>4. QED BY <1>1, <1>2, <1>3 DEF IInv

\* The end of an operation keeps the type of the processes' local state.
LEMMA LeaveOK ==
    ASSUME ProcOK, NEW p \in Procs, Leave(p)
    PROVE  ProcOK'
BY ReturnFacts, ProcFacts DEF ProcOK, Leave, PcValues

\* get_pending_input moves items between places of the right type.
LEMMA GetPendingOK ==
    ASSUME SlotOK, TurnStateOK, ProcOK, NEW p \in Procs, GetPendingInput(p)
    PROVE  /\ pending' \in [StateIds -> SUBSET Items]
           /\ mailbox' \in SUBSET Mails
           /\ hand' \in [Procs -> SUBSET Items]
<1>1. CASE ~AcceptsMailbox
    BY <1>1 DEF TurnStateOK, ProcOK, GetPendingInput
<1>2. CASE AcceptsMailbox /\ active.st = None
    BY <1>2, ProcFacts DEF TurnStateOK, ProcOK, GetPendingInput
<1>3. CASE AcceptsMailbox /\ active.st # None
    <2>1. active.st \in StateIds BY <1>3 DEF SlotOK
    <2>2. pending[active.st] \in SUBSET Items BY <2>1 DEF TurnStateOK
    <2>3. mailbox \cup pending[active.st] \in SUBSET Items
        BY <2>2, ProcFacts DEF TurnStateOK
    <2>4. hand' = [hand EXCEPT ![p] = mailbox \cup pending[active.st]]
        BY <1>3 DEF GetPendingInput
    <2>5. QED BY <1>3, <2>3, <2>4 DEF TurnStateOK, ProcOK, GetPendingInput
<1>4. QED BY <1>1, <1>2, <1>3

LEMMA SteerInputKeeps ==
    ASSUME IInv, NEW p \in Procs, NEW i \in Inputs, SteerInput(p, i)
    PROVE  IInv'
<1>1. SlotOK' /\ TaskOK' /\ ProcOK'
    BY DEF IInv, TypeOK, SlotOK, TaskOK, ProcOK, SteerInput, Submits,
       ExtendAndAccept, stateVars, taskVars, procVars
<1>2. TurnStateOK'
    BY ProcFacts
       DEF IInv, TypeOK, SlotOK, TurnStateOK, SteerInput, ExtendAndAccept
<1>3. HistoryOK'
    BY ProcFacts, SessionAssumption
       DEF IInv, TypeOK, SessionAssumption, TurnStateOK, TaskOK, ProcOK,
          HistoryOK, Control, HoldingPcs, SteerInput, Submits,
          ExtendAndAccept, ghostVars
<1>4. Control'
    BY ProcFacts
       DEF IInv, TypeOK, Control, HoldingPcs, SlotOK, ProcOK, AbortPcs,
          SteerInput, Submits, ExtendAndAccept, taskVars, procVars, ghostVars
<1>5. Birth'
    BY ProcFacts
       DEF IInv, TypeOK, Birth, Control, SlotOK, TaskOK, ProcOK, AbortPcs,
          Turns, SteerInput, Submits, ExtendAndAccept, taskVars, procVars,
          ghostVars
<1>6. Stopped'
    BY ProcFacts
       DEF IInv, TypeOK, Stopped, AbortIsFinal, EndedPcs, WakePcs, StartPcs, TaskOK, Birth, Control, SlotOK,
          ProcOK, HistoryOK, AbortPcs, SteerInput, Submits, ExtendAndAccept,
          taskVars, procVars, ghostVars
<1>7. QED BY <1>1, <1>2, <1>3, <1>4, <1>5, <1>6 DEF IInv, TypeOK

LEMMA DeclineInputKeeps ==
    ASSUME IInv, NEW p \in Procs, NEW i \in Inputs, DeclineInput(p, i)
    PROVE  IInv'
<1>1. SlotOK' /\ TurnStateOK' /\ TaskOK' /\ ProcOK'
    BY DEF IInv, TypeOK, SlotOK, TurnStateOK, TaskOK, ProcOK, DeclineInput,
       Submits, stateVars, taskVars, procVars
<1>2. HistoryOK'
    BY ProcFacts, SessionAssumption
       DEF IInv, TypeOK, SessionAssumption, TurnStateOK, TaskOK, ProcOK,
          HistoryOK, Control, HoldingPcs, DeclineInput, Submits, ghostVars
<1>3. Control'
    BY ProcFacts
       DEF IInv, TypeOK, Control, HoldingPcs, SlotOK, ProcOK, AbortPcs,
          DeclineInput, Submits, taskVars, procVars, ghostVars
<1>4. Birth'
    BY ProcFacts
       DEF IInv, TypeOK, Birth, Control, SlotOK, TaskOK, ProcOK, AbortPcs,
          Turns, DeclineInput, Submits, taskVars, procVars, ghostVars
<1>5. Stopped'
    BY ProcFacts
       DEF IInv, TypeOK, Stopped, AbortIsFinal, EndedPcs, WakePcs, StartPcs, TaskOK, Birth, Control, SlotOK,
          ProcOK, HistoryOK, AbortPcs, DeclineInput, Submits, taskVars,
          procVars, ghostVars
<1>6. QED BY <1>1, <1>2, <1>3, <1>4, <1>5 DEF IInv, TypeOK

LEMMA SpawnForInputKeeps ==
    ASSUME IInv, NEW p \in {Loop, Realtime}, NEW i \in Inputs, SpawnForInput(p, i)
    PROVE  IInv'
<1>1. SlotOK' /\ TurnStateOK'
    BY DEF IInv, TypeOK, SlotOK, TurnStateOK, SpawnForInput, Submits, NewTurn,
       stateVars
<1>2. TaskOK'
    BY ProcFacts, SessionAssumption
       DEF IInv, TypeOK, SessionAssumption, SlotOK, TaskOK, ProcOK, Control,
          SpawnForInput, Submits, NewTurn, taskVars, Turns
<1>3. ProcOK'
    BY ProcFacts, SessionAssumption
       DEF IInv, TypeOK, SessionAssumption, SlotOK, TurnStateOK, TaskOK,
          ProcOK, PcValues, RunPcs, FinishPcs, StartPcs, WakePcs, AbortPcs,
          SpawnForInput, Submits, NewTurn, procVars, Turns, StateIds
<1>4. HistoryOK'
    BY ProcFacts, SessionAssumption
       DEF IInv, TypeOK, SessionAssumption, TurnStateOK, TaskOK, ProcOK,
          HistoryOK, Control, HoldingPcs, SpawnForInput, Submits, NewTurn,
          ghostVars
<1>5. Control'
    BY ProcFacts
       DEF IInv, TypeOK, Control, HoldingPcs, SlotOK, ProcOK, AbortPcs,
          SpawnForInput, Submits, NewTurn, taskVars, procVars, ghostVars
<1>6. Birth'
    BY ProcFacts
       DEF IInv, TypeOK, Birth, Control, SlotOK, TaskOK, ProcOK, AbortPcs,
          Turns, SpawnForInput, Submits, NewTurn, taskVars, procVars,
          ghostVars
<1>7. Stopped'
    BY SMTT(60), ProcFacts
       DEF IInv, TypeOK, Stopped, AbortIsFinal, EndedPcs, WakePcs, StartPcs, TaskOK, Birth, Control, SlotOK,
          ProcOK, HistoryOK, AbortPcs, SpawnForInput, Submits, NewTurn,
          taskVars, procVars, ghostVars
<1>8. QED BY <1>1, <1>2, <1>3, <1>4, <1>5, <1>6, <1>7 DEF IInv, TypeOK

LEMMA SubmitMailKeeps ==
    ASSUME IInv, NEW m \in Mails, SubmitMail(m)
    PROVE  IInv'
<1>1. SlotOK' /\ TaskOK'
    BY DEF IInv, TypeOK, SlotOK, TaskOK, SubmitMail, stateVars, taskVars
<1>2. TurnStateOK'
    BY ProcFacts, SessionAssumption
       DEF IInv, TypeOK, SessionAssumption, SlotOK, TurnStateOK, ProcOK,
          Control, HoldingPcs, SubmitMail, stateVars
<1>3. ProcOK'
    BY ProcFacts, SessionAssumption
       DEF IInv, TypeOK, SessionAssumption, SlotOK, TurnStateOK, TaskOK,
          ProcOK, PcValues, RunPcs, FinishPcs, StartPcs, WakePcs, AbortPcs,
          SubmitMail, procVars, Turns, StateIds
<1>4. HistoryOK'
    BY ProcFacts, SessionAssumption
       DEF IInv, TypeOK, SessionAssumption, TurnStateOK, TaskOK, ProcOK,
          HistoryOK, Control, HoldingPcs, SubmitMail, ghostVars
<1>5. TypeOK' BY <1>1, <1>2, <1>3, <1>4 DEF TypeOK
<1>6. Moves(Loop)
    BY ProcFacts
       DEF IInv, TypeOK, ProcOK, Control, Moves, HoldingPcs, AbortPcs, EndedPcs, WakePcs, StartPcs,
          SubmitMail, taskVars, procVars, ghostVars
<1>7. QED BY <1>5, <1>6, ProcFacts, MovesKeeps

LEMMA InterruptKeeps ==
    ASSUME IInv, Interrupt
    PROVE  IInv'
<1>1. SlotOK' /\ TurnStateOK' /\ TaskOK'
    BY DEF IInv, TypeOK, SlotOK, TurnStateOK, TaskOK, Interrupt, stateVars,
       taskVars
<1>2. ProcOK'
    BY ProcFacts, SessionAssumption
       DEF IInv, TypeOK, SessionAssumption, SlotOK, TurnStateOK, TaskOK,
          ProcOK, PcValues, RunPcs, FinishPcs, StartPcs, WakePcs, AbortPcs,
          Interrupt, procVars, Turns, StateIds
<1>3. HistoryOK' BY DEF IInv, TypeOK, HistoryOK, Interrupt, ghostVars
<1>4. TypeOK' BY <1>1, <1>2, <1>3 DEF TypeOK
<1>5. Moves(Loop)
    BY ProcFacts
       DEF IInv, TypeOK, ProcOK, Control, Moves, HoldingPcs, AbortPcs, EndedPcs, WakePcs, StartPcs,
          Interrupt, taskVars, procVars, ghostVars
<1>6. QED BY <1>4, <1>5, ProcFacts, MovesKeeps

LEMMA CompactKeeps ==
    ASSUME IInv, Compact
    PROVE  IInv'
<1>1. SlotOK' /\ TurnStateOK'
    BY DEF IInv, TypeOK, SlotOK, TurnStateOK, Compact, NewTurn, stateVars
<1>2. TaskOK'
    BY ProcFacts, SessionAssumption
       DEF SessionAssumption, IInv, TypeOK, TaskOK, Compact, NewTurn, Turns
<1>3. ProcOK'
    BY SMTT(60), ProcFacts, SessionAssumption
       DEF IInv, TypeOK, SessionAssumption, SlotOK, TurnStateOK, TaskOK,
          ProcOK, PcValues, RunPcs, FinishPcs, StartPcs, WakePcs, AbortPcs,
          Compact, NewTurn, procVars, Turns, StateIds
<1>4. HistoryOK' BY SMTT(30) DEF IInv, TypeOK, HistoryOK, Compact, ghostVars
<1>5. Control'
    BY ProcFacts
       DEF IInv, TypeOK, Control, HoldingPcs, SlotOK, ProcOK, AbortPcs,
          Compact, NewTurn, taskVars, procVars, ghostVars
<1>6. Birth'
    BY ProcFacts
       DEF IInv, TypeOK, Birth, Control, SlotOK, TaskOK, ProcOK, AbortPcs,
          Turns, Compact, NewTurn, taskVars, procVars, ghostVars
<1>7. Stopped'
    BY ProcFacts
       DEF IInv, TypeOK, Stopped, AbortIsFinal, EndedPcs, WakePcs, StartPcs, TaskOK, Birth, Control, SlotOK,
          ProcOK, HistoryOK, AbortPcs, Compact, NewTurn, taskVars, procVars,
          ghostVars
<1>8. QED BY <1>1, <1>2, <1>3, <1>4, <1>5, <1>6, <1>7 DEF IInv, TypeOK

LEMMA ShutdownKeeps ==
    ASSUME IInv, Shutdown
    PROVE  IInv'
<1>1. SlotOK' /\ TurnStateOK' /\ TaskOK'
    BY DEF IInv, TypeOK, SlotOK, TurnStateOK, TaskOK, Shutdown, stateVars,
       taskVars
<1>2. ProcOK'
    BY ProcFacts, SessionAssumption
       DEF IInv, TypeOK, SessionAssumption, SlotOK, TurnStateOK, TaskOK,
          ProcOK, PcValues, RunPcs, FinishPcs, StartPcs, WakePcs, AbortPcs,
          Shutdown, procVars, Turns, StateIds
<1>3. HistoryOK' BY DEF IInv, TypeOK, HistoryOK, Shutdown, ghostVars
<1>4. TypeOK' BY <1>1, <1>2, <1>3 DEF TypeOK
<1>5. Moves(Loop)
    BY ProcFacts
       DEF IInv, TypeOK, ProcOK, Control, Moves, HoldingPcs, AbortPcs, EndedPcs, WakePcs, StartPcs,
          Shutdown, taskVars, procVars, ghostVars
<1>6. QED BY <1>4, <1>5, ProcFacts, MovesKeeps

LEMMA StartIfIdleKeeps ==
    ASSUME IInv, NEW i \in Autos, StartIfIdle(i)
    PROVE  IInv'
<1>1. TurnStateOK' /\ TaskOK'
    BY DEF IInv, TypeOK, TurnStateOK, TaskOK, StartIfIdle, FreshActive,
       stateVars, taskVars
<1>2. SlotOK'
    BY ProcFacts, SessionAssumption
       DEF IInv, TypeOK, SessionAssumption, SlotOK, StartIfIdle, FreshActive,
          stateVars, StateIds
<1>3. ProcOK'
    BY ProcFacts
       DEF IInv, TypeOK, SlotOK, ProcOK, StartIfIdle, PcValues, StateIds
<1>4. HistoryOK'
    BY ProcFacts, SessionAssumption
       DEF IInv, TypeOK, SessionAssumption, TurnStateOK, TaskOK, ProcOK,
          HistoryOK, Control, HoldingPcs, StartIfIdle, FreshActive, ghostVars
<1>5. TypeOK' BY <1>1, <1>2, <1>3, <1>4 DEF TypeOK
<1>6. Moves(Loop)
    <2>1. CASE mailbox \cap TriggerMails = {} /\ active.st = None
        <3>1. nextState \in StateIds
            BY <2>1, SessionAssumption DEF SessionAssumption, IInv, TypeOK, SlotOK, StartIfIdle, StateIds
        <3>2. QED
            BY <2>1, <3>1, ProcFacts
               DEF IInv, TypeOK, ProcOK, Moves, HoldingPcs, AbortPcs, EndedPcs, WakePcs, StartPcs, StartIfIdle,
                   FreshActive, taskVars
    <2>2. CASE ~(mailbox \cap TriggerMails = {} /\ active.st = None)
        BY <2>2, ProcFacts
           DEF IInv, TypeOK, ProcOK, Moves, HoldingPcs, AbortPcs, EndedPcs, WakePcs, StartPcs, StartIfIdle, taskVars
    <2>3. QED BY <2>1, <2>2
<1>7. QED BY <1>5, <1>6, ProcFacts, MovesKeeps

LEMMA InjectKeeps ==
    ASSUME IInv, NEW i \in Injects, Inject(i)
    PROVE  IInv'
<1>1. SlotOK' /\ TaskOK' /\ ProcOK'
    BY DEF IInv, TypeOK, SlotOK, TaskOK, ProcOK, Inject, ExtendAndAccept,
       Record, stateVars, taskVars, procVars
<1>2. TurnStateOK'
    BY ProcFacts
       DEF IInv, TypeOK, SlotOK, TurnStateOK, Inject, ExtendAndAccept
<1>3. HistoryOK' BY ProcFacts DEF IInv, TypeOK, HistoryOK, Inject, Record
<1>4. Control'
    BY ProcFacts
       DEF IInv, TypeOK, Control, HoldingPcs, SlotOK, ProcOK, AbortPcs,
          Inject, ExtendAndAccept, Record, taskVars, procVars, ghostVars
<1>5. Birth'
    BY ProcFacts
       DEF IInv, TypeOK, Birth, Control, SlotOK, TaskOK, ProcOK, AbortPcs,
          Turns, Inject, ExtendAndAccept, Record, taskVars, procVars,
          ghostVars
<1>6. Stopped'
    BY ProcFacts
       DEF IInv, TypeOK, Stopped, AbortIsFinal, EndedPcs, WakePcs, StartPcs, TaskOK, Birth, Control, SlotOK,
          ProcOK, HistoryOK, AbortPcs, Inject, ExtendAndAccept, Record,
          taskVars, procVars, ghostVars
<1>7. QED BY <1>1, <1>2, <1>3, <1>4, <1>5, <1>6 DEF IInv, TypeOK

LEMMA GuardianAbortKeeps ==
    ASSUME IInv, NEW t \in Turns, GuardianAbort(t)
    PROVE  IInv'
<1>1. TurnStateOK'
    BY DEF IInv, TypeOK, TurnStateOK, GuardianAbort, NoActive, stateVars
<1>2. SlotOK'
    BY ProcFacts, SessionAssumption
       DEF IInv, TypeOK, SessionAssumption, SlotOK, GuardianAbort, NoActive,
          stateVars, StateIds
<1>3. TaskOK'
    BY ProcFacts, SessionAssumption
       DEF IInv, TypeOK, SessionAssumption, SlotOK, TaskOK, ProcOK, Control,
          GuardianAbort, NoActive, taskVars, Turns
<1>4. ProcOK'
    BY ProcFacts, SessionAssumption
       DEF IInv, TypeOK, SessionAssumption, SlotOK, TurnStateOK, TaskOK,
          ProcOK, PcValues, RunPcs, FinishPcs, StartPcs, WakePcs, AbortPcs,
          GuardianAbort, NoActive, procVars, Turns, StateIds
<1>5. HistoryOK'
    <2>1. ops' = [ops EXCEPT !.trips = ops.trips + 1] BY DEF GuardianAbort
    <2>2. ops' \in [interrupts : Nat, compacts : Nat, trips : Nat, shutdowns : Nat]
        BY <2>1 DEF IInv, TypeOK, HistoryOK
    <2>3. QED BY <2>2 DEF IInv, TypeOK, HistoryOK, GuardianAbort, ghostVars
<1>6. Control'
    BY ProcFacts
       DEF IInv, TypeOK, Control, HoldingPcs, SlotOK, ProcOK, AbortPcs,
          GuardianAbort, NoActive, taskVars, procVars, ghostVars
<1>7. Birth'
    BY ProcFacts
       DEF IInv, TypeOK, Birth, Control, SlotOK, TaskOK, ProcOK, AbortPcs,
          Turns, GuardianAbort, NoActive, taskVars, procVars, ghostVars
<1>8. Stopped'
    BY SMTT(60), ProcFacts
       DEF IInv, TypeOK, Stopped, AbortIsFinal, EndedPcs, WakePcs, StartPcs, TaskOK, Birth, Control, SlotOK,
          ProcOK, HistoryOK, AbortPcs, GuardianAbort, NoActive, taskVars,
          procVars, ghostVars
<1>9. QED BY <1>1, <1>2, <1>3, <1>4, <1>5, <1>6, <1>7, <1>8 DEF IInv, TypeOK

LEMMA AdmitDeclinedKeeps ==
    ASSUME IInv, NEW p \in Procs, AdmitDeclined(p)
    PROVE  IInv'
<1>1. TurnStateOK' /\ TaskOK'
    BY DEF IInv, TypeOK, TurnStateOK, TaskOK, AdmitDeclined, ClearReserved,
       NoActive, Leave, stateVars, taskVars
<1>2. SlotOK'
    BY ReturnFacts, ProcFacts, SessionAssumption
       DEF IInv, TypeOK, SessionAssumption, SlotOK, AdmitDeclined,
          ClearReserved, NoActive, Leave, stateVars, StateIds
<1>3. ProcOK'
    BY LeaveOK, ProcFacts
       DEF IInv, TypeOK, ProcOK, AdmitDeclined, PcValues, WakePcs
<1>4. HistoryOK'
    BY ReturnFacts, ProcFacts, SessionAssumption
       DEF IInv, TypeOK, SessionAssumption, TurnStateOK, TaskOK, ProcOK,
          HistoryOK, Control, HoldingPcs, AdmitDeclined, ClearReserved,
          NoActive, Leave, ghostVars
<1>5. TypeOK' BY <1>1, <1>2, <1>3, <1>4 DEF TypeOK
<1>6. Moves(p)
    BY ReturnFacts, ProcFacts
       DEF IInv, TypeOK, SlotOK, ProcOK, Control, Moves, HoldingPcs, AbortPcs, EndedPcs, WakePcs, StartPcs,
          AdmitDeclined, ClearReserved, NoActive, Leave, taskVars, procVars,
          ghostVars
<1>7. QED BY <1>5, <1>6, ProcFacts, MovesKeeps

LEMMA AdmitStartedKeeps ==
    ASSUME IInv, NEW p \in Procs, AdmitStarted(p)
    PROVE  IInv'
<1>1. SlotOK' /\ HistoryOK'
    BY DEF IInv, TypeOK, SlotOK, HistoryOK, AdmitStarted, NewTurn, stateVars,
       ghostVars
<1>2. TurnStateOK'
    BY ProcFacts, SessionAssumption
       DEF IInv, TypeOK, SessionAssumption, SlotOK, TurnStateOK, ProcOK,
          Control, HoldingPcs, AdmitStarted, NewTurn, stateVars
<1>3. TaskOK'
    BY ProcFacts, SessionAssumption
       DEF IInv, TypeOK, SessionAssumption, SlotOK, TaskOK, ProcOK, Control,
          AdmitStarted, NewTurn, taskVars, Turns
<1>4. ProcOK'
    BY ProcFacts, SessionAssumption
       DEF IInv, TypeOK, SessionAssumption, SlotOK, TurnStateOK, TaskOK,
          ProcOK, PcValues, RunPcs, FinishPcs, StartPcs, WakePcs, AbortPcs,
          AdmitStarted, NewTurn, procVars, Turns, StateIds
<1>5. Control'
    BY ProcFacts
       DEF IInv, TypeOK, Control, HoldingPcs, SlotOK, ProcOK, AbortPcs,
          AdmitStarted, NewTurn, taskVars, procVars, ghostVars
<1>6. Birth'
    BY ProcFacts
       DEF IInv, TypeOK, Birth, Control, SlotOK, TaskOK, ProcOK, AbortPcs,
          Turns, AdmitStarted, NewTurn, taskVars, procVars, ghostVars
<1>7. Stopped'
    BY ProcFacts
       DEF IInv, TypeOK, Stopped, AbortIsFinal, EndedPcs, WakePcs, StartPcs, TaskOK, Birth, Control, SlotOK,
          ProcOK, HistoryOK, AbortPcs, AdmitStarted, NewTurn, taskVars,
          procVars, ghostVars
<1>8. QED BY <1>1, <1>2, <1>3, <1>4, <1>5, <1>6, <1>7 DEF IInv, TypeOK

LEMMA TakeActiveKeeps ==
    ASSUME IInv, NEW p \in Procs, TakeActive(p)
    PROVE  IInv'
<1>1. TurnStateOK' /\ HistoryOK'
    BY DEF IInv, TypeOK, TurnStateOK, HistoryOK, TakeActive, NoActive, Leave,
       stateVars, ghostVars
<1>2. SlotOK'
    BY ReturnFacts, ProcFacts, SessionAssumption
       DEF IInv, TypeOK, SessionAssumption, SlotOK, TakeActive, NoActive,
          Leave, stateVars, StateIds
<1>3. TaskOK' BY DEF IInv, TypeOK, TaskOK, TakeActive
<1>4. ProcOK'
    <2>1. CASE active.task # None
        BY <2>1, ProcFacts
           DEF IInv, TypeOK, SlotOK, ProcOK, TakeActive, PcValues, AbortPcs
    <2>2. CASE active.task = None /\ starting[p] # None
        BY <2>2 DEF IInv, TypeOK, ProcOK, TakeActive, PcValues, StartPcs, procVars
    <2>3. CASE active.task = None /\ starting[p] = None
        BY <2>3, LeaveOK DEF IInv, TypeOK, TakeActive
    <2>4. QED BY <2>1, <2>2, <2>3
<1>5. Control'
    BY ReturnFacts, ProcFacts
       DEF IInv, TypeOK, Control, HoldingPcs, SlotOK, ProcOK, AbortPcs,
          TakeActive, NoActive, Leave, taskVars, procVars, ghostVars
<1>6. Birth'
    <2>1. CASE active.task # None
        <3>1. active.task \in Turns /\ pc[active.task] # "unborn" /\ pc[p] = "take"
            BY <2>1 DEF IInv, TypeOK, SlotOK, Birth, TakeActive
        <3>2. /\ active' = NoActive /\ starting' = starting
              /\ victim' = [victim EXCEPT ![p] = active.task]
              /\ pc' = [pc EXCEPT ![p] = "await"]
              /\ nextTurn' = nextTurn /\ events' = events
            BY <2>1 DEF TakeActive, ghostVars
        <3>3. QED
            BY <3>1, <3>2, ProcFacts DEF IInv, TypeOK, TaskOK, ProcOK, Birth, NoActive
    <2>2. CASE active.task = None
        <3>1. Moves(p)
            BY <2>2, ReturnFacts, ProcFacts
               DEF IInv, TypeOK, SlotOK, ProcOK, Moves, HoldingPcs, AbortPcs, EndedPcs, WakePcs, StartPcs, TakeActive,
                   NoActive, Leave, procVars, ghostVars
        <3>2. TypeOK' BY <1>1, <1>2, <1>3, <1>4 DEF TypeOK
        <3>3. QED BY <3>1, <3>2, MovesKeeps DEF IInv
    <2>3. QED BY <2>1, <2>2
<1>7. Stopped'
    <2>1. CASE active.task # None
        <3>1. active.task \in Turns /\ pc[active.task] # "unborn" /\ pc[p] = "take"
            BY <2>1 DEF IInv, TypeOK, SlotOK, Birth, TakeActive
        <3>2. /\ active' = NoActive /\ starting' = starting
              /\ victim' = [victim EXCEPT ![p] = active.task]
              /\ pc' = [pc EXCEPT ![p] = "await"]
              /\ nextTurn' = nextTurn /\ events' = events /\ result' = result
            BY <2>1 DEF TakeActive, ghostVars
        <3>3. \A q \in Procs : pc'[q] = "report" => pc[q] = "report" /\ victim'[q] = victim[q]
            BY <3>2 DEF IInv, TypeOK, ProcOK
        <3>4. \A q \in Procs : pc[q] = "done" => pc'[q] = "done"
            BY <3>1, <3>2 DEF IInv, TypeOK, ProcOK
        <3>5. \A t \in Turns : pc[t] \in EndedPcs => pc'[t] \in EndedPcs
            BY <3>1, <3>2, ProcFacts
               DEF IInv, TypeOK, ProcOK, Control, AbortPcs, EndedPcs, WakePcs, StartPcs
        <3>6. QED BY <3>2, <3>3, <3>4, <3>5, StoppedKeeps
    <2>2. CASE active.task = None
        <3>1. Moves(p)
            BY <2>2, ReturnFacts, ProcFacts
               DEF IInv, TypeOK, SlotOK, ProcOK, Moves, HoldingPcs, AbortPcs, EndedPcs, WakePcs, StartPcs, TakeActive,
                   NoActive, Leave, procVars, ghostVars
        <3>2. TypeOK' BY <1>1, <1>2, <1>3, <1>4 DEF TypeOK
        <3>3. QED BY <3>1, <3>2, MovesKeeps DEF IInv
    <2>3. QED BY <2>1, <2>2
<1>8. QED BY <1>1, <1>2, <1>3, <1>4, <1>5, <1>6, <1>7 DEF IInv, TypeOK

LEMMA AbortJoinKeeps ==
    ASSUME IInv, NEW p \in Procs, AbortJoin(p)
    PROVE  IInv'
<1>1. SlotOK' /\ TurnStateOK'
    BY DEF IInv, TypeOK, SlotOK, TurnStateOK, AbortJoin, stateVars
<1>2. TaskOK'
    BY ProcFacts, SessionAssumption
       DEF IInv, TypeOK, SessionAssumption, SlotOK, TaskOK, ProcOK, Control,
          AbortJoin, taskVars, Turns
<1>3. ProcOK'
    BY ProcFacts, SessionAssumption
       DEF IInv, TypeOK, SessionAssumption, SlotOK, TurnStateOK, TaskOK,
          ProcOK, PcValues, RunPcs, FinishPcs, StartPcs, WakePcs, AbortPcs,
          AbortJoin, procVars, Turns, StateIds
<1>4. HistoryOK'
    BY ProcFacts, SessionAssumption
       DEF IInv, TypeOK, SessionAssumption, TurnStateOK, TaskOK, ProcOK,
          HistoryOK, Control, HoldingPcs, AbortJoin, ghostVars
<1>5. Control'
    BY ProcFacts
       DEF IInv, TypeOK, Control, HoldingPcs, SlotOK, ProcOK, AbortPcs,
          AbortJoin, taskVars, procVars, ghostVars
<1>6. Birth'
    <2> DEFINE v == victim[p]
    <2>1. v \in Turns /\ v # p /\ pc[v] # "unborn" /\ pc[p] # "unborn"
        BY ProcFacts DEF IInv, Control, Birth, AbortPcs, AbortJoin
    <2>2. \A q \in Procs : pc'[q] = "unborn" <=> pc[q] = "unborn"
        BY <2>1, ProcFacts DEF IInv, TypeOK, ProcOK, AbortJoin
    <2>3. \A q \in Procs : starting'[q] = starting[q] \/ starting'[q] = None
        BY <2>1, ProcFacts DEF IInv, TypeOK, ProcOK, AbortJoin
    <2>4. \A q \in Procs : starting[q] \in Turns \cup {None} /\ victim[q] \in Turns \cup {None}
        BY DEF IInv, TypeOK, ProcOK
    <2>5. active.task \in Turns \cup {None}
        BY DEF IInv, TypeOK, SlotOK
    <2>6. UNCHANGED <<nextTurn, victim, active>> BY DEF AbortJoin
    <2>7. Birth!1' BY <2>2, <2>6, ProcFacts DEF IInv, Birth
    <2>8. Birth!2' BY <2>2, <2>3, <2>4, <2>6, ProcFacts DEF IInv, Birth
    <2>9. Birth!3' BY <2>3, <2>4, <2>6 DEF IInv, Birth
    <2>10. Birth!4' /\ Birth!5' BY <2>2, <2>4, <2>5, <2>6, ProcFacts DEF IInv, Birth
    <2>11. QED BY <2>7, <2>8, <2>9, <2>10 DEF Birth
<1>7. Stopped'
    <2> DEFINE v == victim[p]
    <2>1. v \in Turns /\ v \in Procs /\ v # p /\ pc[p] = "await"
        BY ProcFacts DEF IInv, Control, AbortPcs, AbortJoin
    <2>2. /\ pc' = [pc EXCEPT ![v] = "done", ![p] = "report"]
          /\ victim' = victim /\ events' = events /\ result' = result
        BY DEF AbortJoin
    <2>3. \A q \in Procs : pc[q] = "done" => pc'[q] = "done"
        BY <2>1, <2>2 DEF IInv, TypeOK, ProcOK
    <2>4. pc'[v] = "done" BY <2>1, <2>2 DEF IInv, TypeOK, ProcOK
    <2>5. \A q \in Procs : pc[q] = "report" => victim[q] \in Procs /\ pc[victim[q]] = "done"
        BY ProcFacts DEF IInv, Control, Stopped
    <2>6. \A q \in Procs : pc'[q] = "report" => pc[q] = "report" \/ q = p
        BY <2>1, <2>2 DEF IInv, TypeOK, ProcOK
    <2>7. Stopped!1' BY <2>2, <2>3, <2>4, <2>5, <2>6 DEF Stopped
    <2>8. \A t \in Turns : pc[t] \in EndedPcs => pc'[t] \in EndedPcs
        BY <2>1, <2>2, ProcFacts
           DEF IInv, TypeOK, ProcOK, Control, AbortPcs, EndedPcs, WakePcs, StartPcs
    <2>9. AbortIsFinal' BY <2>2, <2>3, <2>8, ProcFacts DEF IInv, Stopped, AbortIsFinal
    <2>10. QED BY <2>7, <2>9 DEF Stopped
<1>8. QED BY <1>1, <1>2, <1>3, <1>4, <1>5, <1>6, <1>7 DEF IInv, TypeOK

LEMMA AbortReportKeeps ==
    ASSUME IInv, NEW p \in Procs, AbortReport(p)
    PROVE  IInv'
<1>1. SlotOK' /\ TaskOK'
    BY DEF IInv, TypeOK, SlotOK, TaskOK, AbortReport, stateVars, taskVars
<1>2. TurnStateOK'
    BY ProcFacts, SessionAssumption
       DEF IInv, TypeOK, SessionAssumption, SlotOK, TurnStateOK, ProcOK,
          Control, HoldingPcs, AbortReport, stateVars
<1>3. ProcOK'
    BY ProcFacts, SessionAssumption
       DEF IInv, TypeOK, SessionAssumption, SlotOK, TurnStateOK, TaskOK,
          ProcOK, PcValues, RunPcs, FinishPcs, StartPcs, WakePcs, AbortPcs,
          AbortReport, procVars, Turns, StateIds
<1>4. HistoryOK'
    BY DEF IInv, TypeOK, TurnStateOK, HistoryOK, Control, HoldingPcs,
       AbortReport
<1>5. Control'
    BY ProcFacts
       DEF IInv, TypeOK, Control, HoldingPcs, SlotOK, ProcOK, AbortPcs,
          AbortReport, taskVars, procVars, ghostVars
<1>6. Birth'
    BY ProcFacts
       DEF IInv, TypeOK, Birth, Control, SlotOK, TaskOK, ProcOK, AbortPcs,
          Turns, AbortReport, taskVars, procVars, ghostVars
<1>7. Stopped'
    BY SMTT(60), ProcFacts
       DEF IInv, TypeOK, Stopped, AbortIsFinal, EndedPcs, WakePcs, StartPcs, TaskOK, Birth, Control, SlotOK,
          ProcOK, HistoryOK, AbortPcs, AbortReport, taskVars, procVars,
          ghostVars
<1>8. QED BY <1>1, <1>2, <1>3, <1>4, <1>5, <1>6, <1>7 DEF IInv, TypeOK

LEMMA WakeCheckKeeps ==
    ASSUME IInv, NEW p \in Procs, WakeCheck(p)
    PROVE  IInv'
<1>1. SlotOK' /\ TurnStateOK' /\ TaskOK' /\ HistoryOK'
    BY DEF IInv, TypeOK, SlotOK, TurnStateOK, TaskOK, HistoryOK, WakeCheck,
       Leave, stateVars, taskVars, ghostVars
<1>2. ProcOK'
    BY LeaveOK
       DEF IInv, TypeOK, ProcOK, WakeCheck, PcValues, WakePcs, procVars
<1>3. TypeOK' BY <1>1, <1>2 DEF TypeOK
<1>4. Moves(p)
    BY ReturnFacts, ProcFacts
       DEF IInv, TypeOK, ProcOK, Control, Moves, HoldingPcs, AbortPcs, EndedPcs, WakePcs, StartPcs,
          WakeCheck, Leave, taskVars, procVars, ghostVars
<1>5. QED BY <1>3, <1>4, ProcFacts, MovesKeeps

LEMMA WakeReserveKeeps ==
    ASSUME IInv, NEW p \in Procs, WakeReserve(p)
    PROVE  IInv'
<1>1. TurnStateOK' /\ TaskOK' /\ HistoryOK'
    BY DEF IInv, TypeOK, TurnStateOK, TaskOK, HistoryOK, WakeReserve,
       FreshActive, Leave, stateVars, taskVars, ghostVars
<1>2. SlotOK'
    BY ReturnFacts, ProcFacts, SessionAssumption
       DEF IInv, TypeOK, SessionAssumption, SlotOK, WakeReserve, FreshActive,
          Leave, stateVars, StateIds
<1>3. ProcOK'
    BY LeaveOK
       DEF IInv, TypeOK, SlotOK, ProcOK, WakeReserve, PcValues, WakePcs,
          StateIds
<1>4. TypeOK' BY <1>1, <1>2, <1>3 DEF TypeOK
<1>5. Moves(p)
    <2>1. CASE active.st = None
        <3>1. nextState \in StateIds
            BY <2>1, SessionAssumption DEF SessionAssumption, IInv, TypeOK, SlotOK, WakeReserve, StateIds
        <3>2. QED
            BY <2>1, <3>1, ProcFacts
               DEF IInv, TypeOK, ProcOK, Moves, HoldingPcs, AbortPcs, EndedPcs, WakePcs, StartPcs, WakeReserve,
                   FreshActive, taskVars, ghostVars
    <2>2. CASE active.st # None
        BY <2>2, ReturnFacts, ProcFacts
           DEF IInv, TypeOK, ProcOK, Moves, HoldingPcs, AbortPcs, EndedPcs, WakePcs, StartPcs, WakeReserve, Leave,
               taskVars, ghostVars
    <2>3. QED BY <2>1, <2>2
<1>6. QED BY <1>4, <1>5, ProcFacts, MovesKeeps

LEMMA WakeDrainKeeps ==
    ASSUME IInv, NEW p \in Procs, WakeDrain(p)
    PROVE  IInv'
<1>1. SlotOK' /\ HistoryOK'
    BY DEF IInv, TypeOK, SlotOK, HistoryOK, WakeDrain, GetPendingInput,
       NewTurn, stateVars, ghostVars
<1>2. TurnStateOK' BY GetPendingOK DEF IInv, TypeOK, TurnStateOK, WakeDrain
<1>3. TaskOK'
    BY ProcFacts, SessionAssumption
       DEF IInv, TypeOK, SessionAssumption, SlotOK, TaskOK, ProcOK, Control,
          WakeDrain, GetPendingInput, NewTurn, taskVars, Turns
<1>4. ProcOK'
    BY GetPendingOK, ProcFacts
       DEF IInv, TypeOK, TaskOK, ProcOK, WakeDrain, NewTurn, PcValues,
          WakePcs, Turns
<1>5. Control'
    BY ProcFacts
       DEF IInv, TypeOK, Control, HoldingPcs, SlotOK, ProcOK, AbortPcs,
          WakeDrain, GetPendingInput, NewTurn, taskVars, procVars, ghostVars
<1>6. Birth'
    BY ProcFacts
       DEF IInv, TypeOK, Birth, Control, SlotOK, TaskOK, ProcOK, AbortPcs,
          Turns, WakeDrain, GetPendingInput, NewTurn, taskVars, procVars,
          ghostVars
<1>7. Stopped'
    <2>1. /\ pc' = [pc EXCEPT ![p] = "wakeExtend"] /\ pc[p] = "wakeDrain"
          /\ victim' = victim /\ events' = events /\ result' = result
        BY DEF WakeDrain, ghostVars
    <2>2. /\ \A q \in Procs : pc[q] = "done" => pc'[q] = "done"
          /\ \A q \in Procs : pc'[q] = "report" => pc[q] = "report" /\ victim'[q] = victim[q]
        BY <2>1 DEF IInv, TypeOK, ProcOK
    <2>3. \A t \in Turns : pc[t] \in EndedPcs => pc'[t] \in EndedPcs
        BY <2>1, ProcFacts DEF IInv, TypeOK, ProcOK, EndedPcs, WakePcs
    <2>4. QED BY <2>1, <2>2, <2>3, StoppedKeeps
<1>8. QED BY <1>1, <1>2, <1>3, <1>4, <1>5, <1>6, <1>7 DEF IInv, TypeOK

LEMMA WakeExtendKeeps ==
    ASSUME IInv, NEW p \in Procs, WakeExtend(p)
    PROVE  IInv'
<1>1. SlotOK' /\ TaskOK' /\ HistoryOK'
    BY DEF IInv, TypeOK, SlotOK, TaskOK, HistoryOK, WakeExtend, stateVars,
       taskVars, ghostVars
<1>2. TurnStateOK'
    BY ProcFacts, SessionAssumption
       DEF IInv, TypeOK, SessionAssumption, SlotOK, TurnStateOK, ProcOK,
          Control, HoldingPcs, WakeExtend, stateVars
<1>3. ProcOK'
    BY ProcFacts, SessionAssumption
       DEF IInv, TypeOK, SessionAssumption, SlotOK, TurnStateOK, TaskOK,
          ProcOK, PcValues, RunPcs, FinishPcs, StartPcs, WakePcs, AbortPcs,
          WakeExtend, procVars, Turns, StateIds
<1>4. TypeOK' BY <1>1, <1>2, <1>3 DEF TypeOK
<1>5. Moves(p)
    BY ProcFacts
       DEF IInv, TypeOK, ProcOK, Control, Moves, HoldingPcs, AbortPcs, EndedPcs, WakePcs, StartPcs,
          WakeExtend, taskVars, procVars, ghostVars
<1>6. QED BY <1>4, <1>5, ProcFacts, MovesKeeps

LEMMA StartDrainKeeps ==
    ASSUME IInv, NEW p \in Procs, StartDrain(p)
    PROVE  IInv'
<1>1. SlotOK' /\ TaskOK' /\ HistoryOK'
    BY DEF IInv, TypeOK, SlotOK, TaskOK, HistoryOK, StartDrain, stateVars,
       taskVars, ghostVars
<1>2. TurnStateOK'
    BY ProcFacts, SessionAssumption
       DEF IInv, TypeOK, SessionAssumption, SlotOK, TurnStateOK, ProcOK,
          Control, HoldingPcs, StartDrain, stateVars
<1>3. ProcOK'
    BY ProcFacts, SessionAssumption
       DEF IInv, TypeOK, SessionAssumption, SlotOK, TurnStateOK, TaskOK,
          ProcOK, PcValues, RunPcs, FinishPcs, StartPcs, WakePcs, AbortPcs,
          StartDrain, procVars, Turns, StateIds
<1>4. TypeOK' BY <1>1, <1>2, <1>3 DEF TypeOK
<1>5. Moves(p)
    BY ProcFacts
       DEF IInv, TypeOK, ProcOK, Control, Moves, HoldingPcs, AbortPcs, EndedPcs, WakePcs, StartPcs,
          StartDrain, taskVars, procVars, ghostVars
<1>6. QED BY <1>4, <1>5, ProcFacts, MovesKeeps

LEMMA StartAttachKeeps ==
    ASSUME IInv, NEW p \in Procs, StartAttach(p)
    PROVE  IInv'
<1>1. TaskOK' /\ HistoryOK'
    BY DEF IInv, TypeOK, TaskOK, HistoryOK, StartAttach, GetOrInsert,
       taskVars, ghostVars
<1>2. SlotOK'
    BY ProcFacts, SessionAssumption
       DEF IInv, TypeOK, SessionAssumption, SlotOK, StartAttach, GetOrInsert,
          stateVars, StateIds
<1>3. TurnStateOK'
    BY ProcFacts, SessionAssumption
       DEF IInv, TypeOK, SessionAssumption, SlotOK, TurnStateOK, ProcOK,
          Control, HoldingPcs, StartAttach, GetOrInsert, stateVars
<1>4. ProcOK'
    BY ProcFacts, SessionAssumption
       DEF IInv, TypeOK, SessionAssumption, SlotOK, TurnStateOK, TaskOK,
          ProcOK, PcValues, RunPcs, FinishPcs, StartPcs, WakePcs, AbortPcs,
          StartAttach, GetOrInsert, procVars, Turns, StateIds
<1>5. TypeOK' BY <1>1, <1>2, <1>3, <1>4 DEF TypeOK
<1>6. Moves(p)
    BY ProcFacts
       DEF IInv, TypeOK, SlotOK, ProcOK, Control, Moves, HoldingPcs, AbortPcs, EndedPcs, WakePcs, StartPcs,
          StartAttach, GetOrInsert, taskVars, procVars, ghostVars
<1>7. QED BY <1>5, <1>6, ProcFacts, MovesKeeps

LEMMA StartInstallKeeps ==
    ASSUME IInv, NEW p \in Procs, StartInstall(p)
    PROVE  IInv'
<1>1. TurnStateOK' /\ TaskOK' /\ HistoryOK'
    BY DEF IInv, TypeOK, TurnStateOK, TaskOK, HistoryOK, StartInstall,
       GetOrInsert, stateVars, taskVars, ghostVars
<1>2. SlotOK'
    BY ProcFacts, SessionAssumption
       DEF IInv, TypeOK, SlotOK, ProcOK, SessionAssumption, StartInstall,
          GetOrInsert, StateIds
<1>3. ProcOK'
    BY ReturnFacts, ProcFacts, SessionAssumption
       DEF IInv, TypeOK, SessionAssumption, SlotOK, TurnStateOK, TaskOK,
          ProcOK, PcValues, RunPcs, FinishPcs, StartPcs, WakePcs, AbortPcs,
          StartInstall, GetOrInsert, procVars, Turns, StateIds
<1>4. Control'
    BY ReturnFacts, ProcFacts
       DEF IInv, TypeOK, Control, HoldingPcs, SlotOK, ProcOK, AbortPcs,
          StartInstall, GetOrInsert, taskVars, procVars, ghostVars
<1>5. Birth'
    <2> DEFINE u == starting[p]
    <2>1. \A q \in Procs : starting[q] \in Turns \cup {None} /\ victim[q] \in Turns \cup {None}
        BY DEF IInv, TypeOK, ProcOK
    <2>2. pc[p] = "install" /\ (u # None => u \in Procs /\ u < nextTurn /\ pc[u] = "unborn")
        BY <2>1, ProcFacts DEF IInv, Birth, StartInstall
    <2>3. \A q \in Procs : q # u => (pc'[q] = "unborn" <=> pc[q] = "unborn")
        BY <2>2, ReturnFacts, ProcFacts DEF IInv, TypeOK, SlotOK, ProcOK, Birth, StartInstall
    <2>4. u # None => pc'[u] # "unborn"
        BY <2>2 DEF StartInstall
    <2>5. /\ starting' = [starting EXCEPT ![p] = None]
          /\ victim' = victim /\ nextTurn' = nextTurn /\ active'.task = u
        BY DEF StartInstall, taskVars
    <2>n. nextTurn \in Nat
        BY SessionAssumption DEF SessionAssumption, IInv, TypeOK, TaskOK
    <2>6. Birth!1'
        <3> SUFFICES ASSUME NEW t \in Turns, t >= nextTurn PROVE pc'[t] = "unborn"
            BY <2>5
        <3>1. pc[t] = "unborn" BY DEF IInv, Birth
        <3>2. t # u BY <2>1, <2>2, <2>n, ProcFacts
        <3>3. QED BY <3>1, <3>2, <2>3, ProcFacts
    <2>7. \A q \in Procs : starting'[q] # None =>
                q # p /\ starting'[q] = starting[q] /\ starting[q] # u
        BY <2>1, <2>5 DEF IInv, TypeOK, ProcOK, Birth
    <2>8. Birth!2'
        <3> SUFFICES ASSUME NEW q \in Procs, starting'[q] # None
                     PROVE  starting'[q] < nextTurn /\ pc'[starting'[q]] = "unborn"
            BY <2>5
        <3>1. starting'[q] = starting[q] /\ starting[q] # u BY <2>7
        <3>2. starting[q] < nextTurn /\ pc[starting[q]] = "unborn"
            BY <3>1 DEF IInv, Birth
        <3>3. starting[q] \in Procs BY <3>1, <2>1, ProcFacts
        <3>4. QED BY <3>1, <3>2, <3>3, <2>3
    <2>9. Birth!3' BY <2>1, <2>5, <2>7 DEF IInv, TypeOK, ProcOK, Birth
    <2>10. Birth!4' BY <2>4, <2>5 DEF Birth
    <2>11. Birth!5'
        BY <2>1, <2>2, <2>3, <2>4, <2>5, ProcFacts DEF IInv, Birth
    <2>12. QED BY <2>6, <2>8, <2>9, <2>10, <2>11 DEF Birth
<1>6. Stopped'
    <2>1. Stopped!1'
        BY ReturnFacts, ProcFacts
           DEF IInv, TypeOK, SlotOK, ProcOK, Control, Birth, Stopped, StartInstall
    <2>2. \A q \in Procs : pc'[q] = IF q = starting[p] THEN "begin"
                                    ELSE IF q = p THEN Return(p)
                                    ELSE IF q = active.task THEN "done" ELSE pc[q]
        BY DEF StartInstall
    <2>3. starting[p] # None => pc[starting[p]] = "unborn"
        BY DEF IInv, Birth
    <2>4. /\ \A t \in Turns : pc[t] = "done" => pc'[t] = "done"
          /\ \A t \in Turns : pc[t] \in EndedPcs => pc'[t] \in EndedPcs
        BY <2>2, <2>3, ReturnFacts, ProcFacts DEF EndedPcs, WakePcs, StartPcs
    <2>5. events' = events /\ result' = result
        BY DEF StartInstall, ghostVars, taskVars
    <2>6. AbortIsFinal'
        BY <2>4, <2>5 DEF IInv, Stopped, AbortIsFinal
    <2>7. QED BY <2>1, <2>6 DEF Stopped
<1>7. QED BY <1>1, <1>2, <1>3, <1>4, <1>5, <1>6 DEF IInv, TypeOK

LEMMA TurnBeginKeeps ==
    ASSUME IInv, NEW t \in Turns, TurnBegin(t)
    PROVE  IInv'
<1>1. SlotOK' /\ TurnStateOK'
    BY DEF IInv, TypeOK, SlotOK, TurnStateOK, TurnBegin, Blockable,
       RecordAccepted, Rejected, Record, stateVars
<1>2. TaskOK'
    BY ProcFacts, SessionAssumption
       DEF IInv, TypeOK, SessionAssumption, SlotOK, TaskOK, ProcOK, Control,
          TurnBegin, Blockable, RecordAccepted, Rejected, Record, taskVars,
          Turns
<1>3. ProcOK'
    BY ProcFacts, SessionAssumption
       DEF IInv, TypeOK, SessionAssumption, SlotOK, TurnStateOK, TaskOK,
          ProcOK, PcValues, RunPcs, FinishPcs, StartPcs, WakePcs, AbortPcs,
          TurnBegin, Blockable, RecordAccepted, Rejected, Record, procVars,
          Turns, StateIds
<1>4. HistoryOK'
    BY ProcFacts, SessionAssumption
       DEF IInv, TypeOK, SessionAssumption, TurnStateOK, TaskOK, ProcOK,
          HistoryOK, Control, HoldingPcs, TurnBegin, Blockable,
          RecordAccepted, Rejected, Record, ghostVars
<1>5. TypeOK' BY <1>1, <1>2, <1>3, <1>4 DEF TypeOK
<1>6. Moves(t)
    BY ProcFacts
       DEF IInv, TypeOK, ProcOK, Control, Moves, HoldingPcs, AbortPcs, EndedPcs, WakePcs, StartPcs,
          TurnBegin, Blockable, RecordAccepted, Rejected, Record, taskVars,
          procVars, ghostVars
<1>7. QED BY <1>5, <1>6, ProcFacts, MovesKeeps

LEMMA TurnFailsEarlyKeeps ==
    ASSUME IInv, NEW t \in Turns, TurnFailsEarly(t)
    PROVE  IInv'
<1>1. SlotOK' /\ TurnStateOK'
    BY DEF IInv, TypeOK, SlotOK, TurnStateOK, TurnFailsEarly, stateVars
<1>2. TaskOK'
    BY SessionAssumption
       DEF SessionAssumption, IInv, TypeOK, TaskOK, TurnFailsEarly
<1>3. ProcOK'
    BY ProcFacts
       DEF IInv, TypeOK, ProcOK, TurnFailsEarly, PcValues, RunPcs, FinishPcs,
          procVars
<1>4. HistoryOK'
    BY ProcFacts, SessionAssumption
       DEF IInv, TypeOK, SessionAssumption, TurnStateOK, TaskOK, ProcOK,
          HistoryOK, Control, HoldingPcs, TurnFailsEarly, ghostVars
<1>5. TypeOK' BY <1>1, <1>2, <1>3, <1>4 DEF TypeOK
<1>6. Moves(t)
    BY ProcFacts
       DEF IInv, TypeOK, ProcOK, Control, Moves, HoldingPcs, AbortPcs, EndedPcs, WakePcs, StartPcs,
          TurnFailsEarly, taskVars, procVars, ghostVars
<1>7. QED BY <1>5, <1>6, ProcFacts, MovesKeeps

LEMMA CompactRunsKeeps ==
    ASSUME IInv, NEW t \in Turns, CompactRuns(t)
    PROVE  IInv'
<1>1. SlotOK' /\ TurnStateOK' /\ TaskOK' /\ HistoryOK'
    BY DEF IInv, TypeOK, SlotOK, TurnStateOK, TaskOK, HistoryOK, CompactRuns,
       stateVars, taskVars, ghostVars
<1>2. ProcOK'
    BY ProcFacts, SessionAssumption
       DEF IInv, TypeOK, SessionAssumption, SlotOK, TurnStateOK, TaskOK,
          ProcOK, PcValues, RunPcs, FinishPcs, StartPcs, WakePcs, AbortPcs,
          CompactRuns, procVars, Turns, StateIds
<1>3. TypeOK' BY <1>1, <1>2 DEF TypeOK
<1>4. Moves(t)
    BY ProcFacts
       DEF IInv, TypeOK, ProcOK, Control, Moves, HoldingPcs, AbortPcs, EndedPcs, WakePcs, StartPcs,
          CompactRuns, taskVars, procVars, ghostVars
<1>5. QED BY <1>3, <1>4, ProcFacts, MovesKeeps

LEMMA TurnDrainKeeps ==
    ASSUME IInv, NEW t \in Turns, TurnDrain(t)
    PROVE  IInv'
<1>1. SlotOK' /\ TaskOK' /\ HistoryOK'
    BY DEF IInv, TypeOK, SlotOK, TaskOK, HistoryOK, TurnDrain,
       GetPendingInput, stateVars, taskVars, ghostVars
<1>2. TurnStateOK'
    BY GetPendingOK, ProcFacts DEF IInv, TypeOK, TurnStateOK, TurnDrain
<1>3. ProcOK'
    BY GetPendingOK, ProcFacts
       DEF IInv, TypeOK, ProcOK, TurnDrain, PcValues, RunPcs
<1>4. TypeOK' BY <1>1, <1>2, <1>3 DEF TypeOK
<1>5. Moves(t)
    BY ProcFacts
       DEF IInv, TypeOK, ProcOK, Control, Moves, HoldingPcs, AbortPcs, EndedPcs, WakePcs, StartPcs,
          TurnDrain, GetPendingInput, taskVars, procVars, ghostVars
<1>6. QED BY <1>4, <1>5, ProcFacts, MovesKeeps

LEMMA TurnRecordKeeps ==
    ASSUME IInv, NEW t \in Turns, TurnRecord(t)
    PROVE  IInv'
<1>1. SlotOK' /\ TurnStateOK' /\ TaskOK'
    BY DEF IInv, TypeOK, SlotOK, TurnStateOK, TaskOK, TurnRecord, Blockable,
       RecordAccepted, Rejected, Record, stateVars, taskVars
<1>2. ProcOK'
    BY ProcFacts, SessionAssumption
       DEF IInv, TypeOK, SessionAssumption, SlotOK, TurnStateOK, TaskOK,
          ProcOK, PcValues, RunPcs, FinishPcs, StartPcs, WakePcs, AbortPcs,
          TurnRecord, Blockable, RecordAccepted, Rejected, Record, procVars,
          Turns, StateIds
<1>3. HistoryOK'
    BY ProcFacts, SessionAssumption
       DEF IInv, TypeOK, SessionAssumption, TurnStateOK, TaskOK, ProcOK,
          HistoryOK, Control, HoldingPcs, TurnRecord, Blockable,
          RecordAccepted, Rejected, Record, ghostVars
<1>4. TypeOK' BY <1>1, <1>2, <1>3 DEF TypeOK
<1>5. Moves(t)
    BY ProcFacts
       DEF IInv, TypeOK, ProcOK, Control, Moves, HoldingPcs, AbortPcs, EndedPcs, WakePcs, StartPcs,
          TurnRecord, Blockable, RecordAccepted, Rejected, Record, taskVars,
          procVars, ghostVars
<1>6. QED BY <1>4, <1>5, ProcFacts, MovesKeeps

LEMMA SampleFollowUpKeeps ==
    ASSUME IInv, NEW t \in Turns, SampleFollowUp(t)
    PROVE  IInv'
<1>1. SlotOK' /\ HistoryOK'
    BY DEF IInv, TypeOK, SlotOK, HistoryOK, SampleFollowUp, AcceptDelivery,
       stateVars, ghostVars
<1>2. TurnStateOK'
    BY ProcFacts, SessionAssumption
       DEF IInv, TypeOK, SessionAssumption, SlotOK, TurnStateOK, ProcOK,
          Control, HoldingPcs, SampleFollowUp, AcceptDelivery, stateVars
<1>3. TaskOK'
    BY ProcFacts, SessionAssumption
       DEF IInv, TypeOK, SessionAssumption, SlotOK, TaskOK, ProcOK, Control,
          SampleFollowUp, AcceptDelivery, taskVars, Turns
<1>4. ProcOK'
    BY ProcFacts, SessionAssumption
       DEF IInv, TypeOK, SessionAssumption, SlotOK, TurnStateOK, TaskOK,
          ProcOK, PcValues, RunPcs, FinishPcs, StartPcs, WakePcs, AbortPcs,
          SampleFollowUp, AcceptDelivery, procVars, Turns, StateIds
<1>5. TypeOK' BY <1>1, <1>2, <1>3, <1>4 DEF TypeOK
<1>6. Moves(t)
    BY ProcFacts
       DEF IInv, TypeOK, ProcOK, Control, Moves, HoldingPcs, AbortPcs, EndedPcs, WakePcs, StartPcs,
          SampleFollowUp, AcceptDelivery, taskVars, procVars, ghostVars
<1>7. QED BY <1>5, <1>6, ProcFacts, MovesKeeps

LEMMA SampleFinalKeeps ==
    ASSUME IInv, NEW t \in Turns, SampleFinal(t)
    PROVE  IInv'
<1>1. SlotOK' /\ TaskOK' /\ HistoryOK'
    BY DEF IInv, TypeOK, SlotOK, TaskOK, HistoryOK, SampleFinal, stateVars,
       taskVars, ghostVars
<1>2. TurnStateOK'
    BY ProcFacts, SessionAssumption
       DEF IInv, TypeOK, SessionAssumption, SlotOK, TurnStateOK, ProcOK,
          Control, HoldingPcs, SampleFinal, stateVars
<1>3. ProcOK'
    BY ProcFacts, SessionAssumption
       DEF IInv, TypeOK, SessionAssumption, SlotOK, TurnStateOK, TaskOK,
          ProcOK, PcValues, RunPcs, FinishPcs, StartPcs, WakePcs, AbortPcs,
          SampleFinal, procVars, Turns, StateIds
<1>4. TypeOK' BY <1>1, <1>2, <1>3 DEF TypeOK
<1>5. Moves(t)
    BY ProcFacts
       DEF IInv, TypeOK, ProcOK, Control, Moves, HoldingPcs, AbortPcs, EndedPcs, WakePcs, StartPcs,
          SampleFinal, taskVars, procVars, ghostVars
<1>6. QED BY <1>4, <1>5, ProcFacts, MovesKeeps

LEMMA SampleErrorKeeps ==
    ASSUME IInv, NEW t \in Turns, SampleError(t)
    PROVE  IInv'
<1>1. SlotOK' /\ TurnStateOK' /\ TaskOK' /\ HistoryOK'
    BY DEF IInv, TypeOK, SlotOK, TurnStateOK, TaskOK, HistoryOK, SampleError,
       stateVars, taskVars, ghostVars
<1>2. ProcOK'
    BY ProcFacts, SessionAssumption
       DEF IInv, TypeOK, SessionAssumption, SlotOK, TurnStateOK, TaskOK,
          ProcOK, PcValues, RunPcs, FinishPcs, StartPcs, WakePcs, AbortPcs,
          SampleError, procVars, Turns, StateIds
<1>3. TypeOK' BY <1>1, <1>2 DEF TypeOK
<1>4. Moves(t)
    BY ProcFacts
       DEF IInv, TypeOK, ProcOK, Control, Moves, HoldingPcs, AbortPcs, EndedPcs, WakePcs, StartPcs,
          SampleError, taskVars, procVars, ghostVars
<1>5. QED BY <1>3, <1>4, ProcFacts, MovesKeeps

LEMMA PostCheckKeeps ==
    ASSUME IInv, NEW t \in Turns, PostCheck(t)
    PROVE  IInv'
<1>1. SlotOK' /\ TurnStateOK' /\ TaskOK' /\ HistoryOK'
    BY DEF IInv, TypeOK, SlotOK, TurnStateOK, TaskOK, HistoryOK, PostCheck,
       stateVars, taskVars, ghostVars
<1>2. ProcOK'
    BY ProcFacts, SessionAssumption
       DEF IInv, TypeOK, SessionAssumption, SlotOK, TurnStateOK, TaskOK,
          ProcOK, PcValues, RunPcs, FinishPcs, StartPcs, WakePcs, AbortPcs,
          PostCheck, procVars, Turns, StateIds
<1>3. TypeOK' BY <1>1, <1>2 DEF TypeOK
<1>4. Moves(t)
    BY ProcFacts
       DEF IInv, TypeOK, ProcOK, Control, Moves, HoldingPcs, AbortPcs, EndedPcs, WakePcs, StartPcs,
          PostCheck, taskVars, procVars, ghostVars
<1>5. QED BY <1>3, <1>4, ProcFacts, MovesKeeps

LEMMA ObserveCancelKeeps ==
    ASSUME IInv, NEW t \in Turns, ObserveCancel(t)
    PROVE  IInv'
<1>1. SlotOK' /\ TurnStateOK'
    BY DEF IInv, TypeOK, SlotOK, TurnStateOK, ObserveCancel, Blockable,
       RecordAccepted, Record, stateVars
<1>2. TaskOK'
    BY ProcFacts, SessionAssumption
       DEF IInv, TypeOK, SessionAssumption, SlotOK, TaskOK, ProcOK, Control,
          ObserveCancel, Blockable, RecordAccepted, Record, taskVars, Turns
<1>3. ProcOK'
    BY ProcFacts, SessionAssumption
       DEF IInv, TypeOK, SessionAssumption, SlotOK, TurnStateOK, TaskOK,
          ProcOK, PcValues, RunPcs, FinishPcs, StartPcs, WakePcs, AbortPcs,
          ObserveCancel, Blockable, RecordAccepted, Record, procVars, Turns,
          StateIds
<1>4. HistoryOK'
    <2>1. recorded' \in [Items -> Nat]
        BY DEF IInv, TypeOK, HistoryOK, ObserveCancel, RecordAccepted, Record
    <2>2. discarded' \in SUBSET Items
        BY DEF IInv, TypeOK, TaskOK, HistoryOK, ObserveCancel, RecordAccepted, Blockable
    <2>3. QED BY <2>1, <2>2 DEF IInv, TypeOK, HistoryOK, ObserveCancel
<1>5. TypeOK' BY <1>1, <1>2, <1>3, <1>4 DEF TypeOK
<1>6. Moves(t)
    BY ProcFacts
       DEF IInv, TypeOK, ProcOK, Control, Moves, HoldingPcs, AbortPcs, EndedPcs, WakePcs, StartPcs,
          ObserveCancel, Blockable, RecordAccepted, Record, taskVars,
          procVars, ghostVars
<1>7. QED BY <1>5, <1>6, ProcFacts, MovesKeeps

LEMMA HookStopsTurnKeeps ==
    ASSUME IInv, NEW t \in Turns, HookStopsTurn(t)
    PROVE  IInv'
<1>1. SlotOK' /\ TurnStateOK'
    BY ProcFacts DEF IInv, TypeOK, SlotOK, TurnStateOK, HookStopsTurn, Blockable,
       RecordAccepted, Record, AcceptDelivery, stateVars
<1>2. TaskOK'
    BY ProcFacts, SessionAssumption
       DEF IInv, TypeOK, SessionAssumption, SlotOK, TaskOK, ProcOK, Control,
          HookStopsTurn, Blockable, RecordAccepted, Record, AcceptDelivery, taskVars, Turns
<1>3. ProcOK'
    BY ProcFacts, SessionAssumption
       DEF IInv, TypeOK, SessionAssumption, SlotOK, TurnStateOK, TaskOK,
          ProcOK, PcValues, RunPcs, FinishPcs, StartPcs, WakePcs, AbortPcs,
          HookStopsTurn, Blockable, RecordAccepted, Record, AcceptDelivery, procVars, Turns,
          StateIds
<1>4. HistoryOK'
    <2>1. recorded' \in [Items -> Nat]
        BY DEF IInv, TypeOK, HistoryOK, HookStopsTurn, RecordAccepted, Record
    <2>2. discarded' \in SUBSET Items
        BY DEF IInv, TypeOK, TaskOK, HistoryOK, HookStopsTurn, RecordAccepted, Blockable
    <2>3. QED BY <2>1, <2>2 DEF IInv, TypeOK, HistoryOK, HookStopsTurn
<1>5. TypeOK' BY <1>1, <1>2, <1>3, <1>4 DEF TypeOK
<1>6. Moves(t)
    BY ProcFacts
       DEF IInv, TypeOK, ProcOK, Control, Moves, HoldingPcs, AbortPcs, EndedPcs, WakePcs, StartPcs,
          HookStopsTurn, Blockable, RecordAccepted, Record, AcceptDelivery, taskVars,
          procVars, ghostVars
<1>7. QED BY <1>5, <1>6, ProcFacts, MovesKeeps

LEMMA FinCheckKeeps ==
    ASSUME IInv, NEW t \in Turns, FinCheck(t)
    PROVE  IInv'
<1>1. SlotOK' /\ TurnStateOK' /\ TaskOK' /\ HistoryOK'
    BY DEF IInv, TypeOK, SlotOK, TurnStateOK, TaskOK, HistoryOK, FinCheck,
       Leave, stateVars, taskVars, ghostVars
<1>2. ProcOK'
    BY LeaveOK, ProcFacts
       DEF IInv, TypeOK, ProcOK, FinCheck, PcValues, FinishPcs, procVars
<1>3. TypeOK' BY <1>1, <1>2 DEF TypeOK
<1>4. Moves(t)
    BY ReturnFacts, ProcFacts
       DEF IInv, TypeOK, ProcOK, Control, Moves, HoldingPcs, AbortPcs, EndedPcs, WakePcs, StartPcs,
          FinCheck, Leave, taskVars, procVars, ghostVars
<1>5. QED BY <1>3, <1>4, ProcFacts, MovesKeeps

LEMMA FinTakeKeeps ==
    ASSUME IInv, NEW t \in Turns, FinTake(t)
    PROVE  IInv'
<1>1. TurnStateOK' /\ TaskOK' /\ HistoryOK'
    BY DEF IInv, TypeOK, TurnStateOK, TaskOK, HistoryOK, FinTake, Leave,
       stateVars, taskVars, ghostVars
<1>2. SlotOK'
    BY ReturnFacts, ProcFacts, SessionAssumption
       DEF IInv, TypeOK, SessionAssumption, SlotOK, FinTake, Leave, stateVars,
          StateIds
<1>3. ProcOK'
    BY LeaveOK, ProcFacts
       DEF IInv, TypeOK, SlotOK, ProcOK, FinTake, PcValues, FinishPcs
<1>4. TypeOK' BY <1>1, <1>2, <1>3 DEF TypeOK
<1>5. Moves(t)
    BY ReturnFacts, ProcFacts
       DEF IInv, TypeOK, SlotOK, ProcOK, Control, Moves, HoldingPcs, AbortPcs, EndedPcs, WakePcs, StartPcs,
          FinTake, Leave, taskVars, procVars, ghostVars
<1>6. QED BY <1>4, <1>5, ProcFacts, MovesKeeps

LEMMA FinReportKeeps ==
    ASSUME IInv, NEW t \in Turns, FinReport(t)
    PROVE  IInv'
<1>1. SlotOK' /\ TaskOK'
    BY DEF IInv, TypeOK, SlotOK, TaskOK, FinReport, Blockable, RecordAccepted,
       Record, stateVars, taskVars
<1>2. TurnStateOK'
    BY ProcFacts, SessionAssumption
       DEF IInv, TypeOK, SessionAssumption, SlotOK, TurnStateOK, ProcOK,
          Control, HoldingPcs, FinReport, Blockable, RecordAccepted, Record,
          stateVars
<1>3. ProcOK'
    BY ProcFacts, SessionAssumption
       DEF IInv, TypeOK, SessionAssumption, SlotOK, TurnStateOK, TaskOK,
          ProcOK, PcValues, RunPcs, FinishPcs, StartPcs, WakePcs, AbortPcs,
          FinReport, Blockable, RecordAccepted, Record, procVars, Turns,
          StateIds
<1>4. HistoryOK'
    BY ProcFacts, SessionAssumption
       DEF IInv, TypeOK, SessionAssumption, TurnStateOK, TaskOK, ProcOK,
          HistoryOK, Control, HoldingPcs, FinReport, TerminalEvent, Blockable,
          RecordAccepted, Record, ghostVars
<1>5. Control'
    BY ProcFacts
       DEF IInv, TypeOK, Control, HoldingPcs, SlotOK, ProcOK, AbortPcs,
          FinReport, Blockable, RecordAccepted, Record, taskVars, procVars,
          ghostVars
<1>6. Birth'
    BY ProcFacts
       DEF IInv, TypeOK, Birth, Control, SlotOK, TaskOK, ProcOK, AbortPcs,
          Turns, FinReport, Blockable, RecordAccepted, Record, taskVars,
          procVars, ghostVars
<1>7. Stopped'
    <2>1. /\ pc' = [pc EXCEPT ![t] = "finClear"] /\ pc[t] = "finReport" /\ victim' = victim
          /\ events' = [events EXCEPT ![t] = Append(events[t], TerminalEvent(t))]
          /\ result' = result /\ TerminalEvent(t) \in {"finished", "aborted"}
        BY DEF FinReport, procVars, taskVars, TerminalEvent
    <2>2. \A q \in Procs : pc[q] = "done" => pc'[q] = "done"
        BY <2>1 DEF IInv, TypeOK, ProcOK
    <2>3. \A q \in Procs : pc'[q] = "report" => pc[q] = "report" /\ victim'[q] = victim[q]
        BY <2>1 DEF IInv, TypeOK, ProcOK
    <2>4. \A q \in Procs : pc[q] = "report" => victim[q] \in Procs /\ pc[victim[q]] = "done"
        BY ProcFacts DEF IInv, Control, Stopped
    <2>5. Stopped!1' BY <2>1, <2>2, <2>3, <2>4 DEF Stopped
    <2>6. \A u \in Turns \ {t} : events'[u] = events[u]
        BY <2>1 DEF IInv, TypeOK, HistoryOK
    <2>7. /\ \A u \in Turns : pc[u] \in EndedPcs => pc'[u] \in EndedPcs
          /\ pc'[t] \in EndedPcs
        BY <2>1, ProcFacts DEF IInv, TypeOK, ProcOK, EndedPcs
    <2>8. \A k \in DOMAIN events[t] : events[t][k] # "aborted"
        BY <2>1 DEF IInv, Stopped, AbortIsFinal, EndedPcs, WakePcs, StartPcs
    <2>9. \A k \in DOMAIN events'[t] : events'[t][k] = "aborted" => result[t] = "TurnAborted"
        <3>1. events[t] \in Seq({"finished", "aborted"}) BY DEF IInv, TypeOK, HistoryOK
        <3>2. events'[t] = Append(events[t], TerminalEvent(t))
            BY <2>1 DEF IInv, TypeOK, HistoryOK
        <3>3. TerminalEvent(t) = "aborted" => result[t] = "TurnAborted" BY DEF TerminalEvent
        <3>4. QED BY <2>8, <3>1, <3>2, <3>3
    <2>10. AbortIsFinal'
        BY <2>1, <2>2, <2>6, <2>7, <2>9, ProcFacts DEF IInv, Stopped, AbortIsFinal
    <2>11. QED BY <2>5, <2>10 DEF Stopped
<1>8. QED BY <1>1, <1>2, <1>3, <1>4, <1>5, <1>6, <1>7 DEF IInv, TypeOK

LEMMA FinClearKeeps ==
    ASSUME IInv, NEW t \in Turns, FinClear(t)
    PROVE  IInv'
<1>1. TurnStateOK' /\ TaskOK' /\ HistoryOK'
    BY DEF IInv, TypeOK, TurnStateOK, TaskOK, HistoryOK, FinClear, NoActive,
       Leave, stateVars, taskVars, ghostVars
<1>2. SlotOK'
    BY ReturnFacts, ProcFacts, SessionAssumption
       DEF IInv, TypeOK, SessionAssumption, SlotOK, FinClear, NoActive, Leave,
          stateVars, StateIds
<1>3. ProcOK'
    BY LeaveOK, ProcFacts
       DEF IInv, TypeOK, ProcOK, FinClear, PcValues, WakePcs
<1>4. TypeOK' BY <1>1, <1>2, <1>3 DEF TypeOK
<1>5. Moves(t)
    BY ReturnFacts, ProcFacts
       DEF IInv, TypeOK, SlotOK, ProcOK, Control, Moves, HoldingPcs, AbortPcs, EndedPcs, WakePcs, StartPcs,
          FinClear, NoActive, Leave, taskVars, procVars, ghostVars
<1>6. QED BY <1>4, <1>5, ProcFacts, MovesKeeps

\* Every step keeps IInv.
LEMMA StepKeeps ==
    ASSUME IInv, [Next]_vars
    PROVE  IInv'
<1>1. CASE UNCHANGED vars
    BY <1>1 DEF IInv, TypeOK, SlotOK, TurnStateOK, TaskOK, ProcOK, HistoryOK, Control,
                Birth, Stopped, AbortIsFinal, vars, stateVars, taskVars, procVars, ghostVars
<1>2. CASE ClientOp
    BY <1>2, ProcFacts, SteerInputKeeps, DeclineInputKeeps, SpawnForInputKeeps,
       SubmitMailKeeps, StartIfIdleKeeps, InjectKeeps, InterruptKeeps, CompactKeeps,
       ShutdownKeeps, GuardianAbortKeeps DEF ClientOp
<1>3. ASSUME NEW p \in Procs, SharedStep(p) PROVE IInv'
    BY <1>3, AdmitDeclinedKeeps, AdmitStartedKeeps, TakeActiveKeeps, AbortJoinKeeps,
       AbortReportKeeps, WakeCheckKeeps, WakeReserveKeeps, WakeDrainKeeps,
       WakeExtendKeeps, StartDrainKeeps, StartAttachKeeps, StartInstallKeeps
       DEF SharedStep
<1>4. ASSUME NEW t \in Turns, TurnStep(t) PROVE IInv'
    BY <1>4, TurnBeginKeeps, TurnFailsEarlyKeeps, CompactRunsKeeps, TurnDrainKeeps,
       TurnRecordKeeps, SampleFollowUpKeeps, SampleFinalKeeps, SampleErrorKeeps,
       PostCheckKeeps, ObserveCancelKeeps, HookStopsTurnKeeps, FinCheckKeeps, FinTakeKeeps, FinReportKeeps,
       FinClearKeeps DEF TurnStep
<1>5. QED BY <1>1, <1>2, <1>3, <1>4 DEF Next

LEMMA InitHolds == Init => IInv
<1> SUFFICES ASSUME Init PROVE IInv
    OBVIOUS
<1>1. SlotOK /\ TurnStateOK
    BY SessionAssumption, ProcFacts
       DEF SessionAssumption, Init, SlotOK, TurnStateOK, NoActive, StateIds
<1>2. TaskOK BY SessionAssumption DEF SessionAssumption, Init, TaskOK
<1>3. ProcOK BY ProcFacts DEF Init, ProcOK, PcValues
<1>4. HistoryOK
    <2>1. <<>> \in Seq({"finished", "aborted"}) OBVIOUS
    <2>2. QED BY <2>1 DEF Init, HistoryOK
<1>5. Control BY ProcFacts DEF Init, Control, AbortPcs, HoldingPcs
<1>6. Birth BY ProcFacts DEF Init, Birth, NoActive
<1>7. Stopped BY ProcFacts DEF Init, Stopped, AbortIsFinal
<1>8. QED BY <1>1, <1>2, <1>3, <1>4, <1>5, <1>6, <1>7 DEF IInv, TypeOK

LEMMA Invariance == Spec => []IInv
BY InitHolds, StepKeeps, PTL DEF Spec

\* The state keeps its type; in particular a task is never left in a slot
\* whose ActiveTurn is gone (tasks/mod.rs, start_task and abort_all_tasks).
THEOREM TypeCorrect == Spec => []TypeOK
<1>1. IInv => TypeOK BY DEF IInv
<1>2. QED BY <1>1, Invariance, PTL

\* A turn reported as aborted (handle_task_abort) has stopped for good,
\* whichever processes start, finish and abort turns at the same time.
THEOREM AbortedTurnStaysStopped == Spec => []AbortIsFinal
<1>1. IInv => AbortIsFinal BY DEF IInv, Stopped
<1>2. QED BY <1>1, Invariance, PTL

-----------------------------------------------------------------------------
(* Nothing is recorded twice.                                              *)

\* Submitted and not yet in the history.
Loose(i) == recorded[i] = 0 /\ i \in sent

\* An item is in one place at most, and in none once it is recorded.
Single(i) ==
    /\ recorded[i] <= 1 /\ (i \notin sent => recorded[i] = 0)
    /\ i \in mailbox => Loose(i)
    /\ \A s \in StateIds : i \in pending[s] =>
          /\ Loose(i) /\ i \notin mailbox
          /\ \A r \in StateIds : i \in pending[r] => r = s
    /\ \A t \in Turns : i \in input[t] =>
          /\ Loose(i) /\ i \notin mailbox /\ (\A s \in StateIds : i \notin pending[s])
          /\ \A u \in Turns : i \in input[u] => u = t
    /\ \A p \in Procs : i \in hand[p] =>
          /\ Loose(i) /\ i \notin mailbox /\ (\A s \in StateIds : i \notin pending[s])
          /\ \A t \in Turns : i \notin input[t]
          /\ \A q \in Procs : i \in hand[q] => q = p

Apart == \A i \in Items : Single(i)

\* The places that a step leaves as they are, or empties.
Shrinks(i) ==
    /\ i \in mailbox' => i \in mailbox
    /\ \A s \in StateIds : i \in pending'[s] => i \in pending[s]
    /\ \A t \in Turns : i \in input'[t] => i \in input[t]
    /\ \A p \in Procs : i \in hand'[p] => i \in hand[p]

LEMMA ShrinksKeeps ==
    ASSUME NEW i \in Items, Single(i), Shrinks(i), recorded'[i] = recorded[i], sent \subseteq sent'
    PROVE  Single(i)'
BY DEF Single, Shrinks, Loose

\* A new item is in no place.
LEMMA NewItem ==
    ASSUME NEW i \in Items, Single(i), i \notin sent
    PROVE  /\ recorded[i] = 0 /\ i \notin mailbox /\ (\A s \in StateIds : i \notin pending[s])
           /\ (\A t \in Turns : i \notin input[t]) /\ \A p \in Procs : i \notin hand[p]
BY DEF Single, Loose

\* Drained items that are put into a TurnState.
LEMMA HandToPending ==
    ASSUME IInv, NEW i \in Items, Single(i), NEW p \in Procs, NEW h \in StateIds,
           pending' = [pending EXCEPT ![h] = @ \cup hand[p]], hand' = [hand EXCEPT ![p] = {}],
           \A t \in Turns : input'[t] \subseteq input[t],
           UNCHANGED <<mailbox, recorded, sent>>
    PROVE  Single(i)'
<1>1. /\ \A s \in StateIds : i \in pending'[s] => i \in pending[s] \/ (s = h /\ i \in hand[p])
      /\ \A q \in Procs : i \in hand'[q] => i \in hand[q] /\ q # p
  BY DEF IInv, TypeOK, TurnStateOK, ProcOK
<1>2. CASE i \in hand[p] BY <1>1, <1>2 DEF Single, Loose
<1>3. CASE i \notin hand[p]
  <2>1. Shrinks(i) BY <1>1, <1>3 DEF Shrinks
  <2> QED BY <2>1, ShrinksKeeps
<1> QED BY <1>2, <1>3

\* Items that get_pending_input, or start_task, drains.
LEMMA DrainedToHand ==
    ASSUME IInv, NEW i \in Items, Single(i), NEW p \in Procs,
           mailbox' \subseteq mailbox, \A s \in StateIds : pending'[s] \subseteq pending[s],
           \A q \in Procs : q # p => hand'[q] = hand[q],
           i \in hand'[p] => /\ i \in mailbox \/ \E s \in StateIds : i \in pending[s]
                             /\ i \notin mailbox' /\ \A s \in StateIds : i \notin pending'[s],
           \A t \in Turns : input'[t] \subseteq input[t],
           UNCHANGED <<recorded, sent>>
    PROVE  Single(i)'
<1>1. CASE i \in hand'[p]
  <2>1. /\ Loose(i) /\ (\A q \in Procs : i \notin hand[q]) /\ \A t \in Turns : i \notin input[t]
    BY <1>1 DEF Single
  <2>2. \A q \in Procs : i \in hand'[q] => q = p BY <2>1
  <2>3. \A t \in Turns : i \notin input'[t] BY <2>1
  <2>4. Loose(i)' BY <2>1 DEF Loose
  <2> QED BY <1>1, <2>1, <2>2, <2>3, <2>4 DEF Single, Loose
<1>2. CASE i \notin hand'[p]
  <2>1. Shrinks(i) BY <1>2 DEF Shrinks
  <2> QED BY <2>1, ShrinksKeeps
<1> QED BY <1>1, <1>2

\* Items that are recorded and leave the place they were in.
LEMMA RecordedFrom ==
    ASSUME IInv, NEW i \in Items, Single(i), NEW S \in SUBSET Items, NEW blocked, Record(S \ blocked),
           Shrinks(i), sent' = sent,
           i \in S => /\ Loose(i) /\ i \notin mailbox' /\ (\A s \in StateIds : i \notin pending'[s])
                      /\ (\A t \in Turns : i \notin input'[t]) /\ \A p \in Procs : i \notin hand'[p]
    PROVE  Single(i)'
<1>1. recorded[i] \in Nat BY DEF IInv, TypeOK, HistoryOK
<1>2. CASE i \in S \ blocked
  <2>1. recorded'[i] = recorded[i] + 1 BY <1>2 DEF Record
  <2>2. recorded'[i] = 1 /\ i \in sent' BY <1>2, <2>1 DEF Loose
  <2> QED BY <1>2, <2>2 DEF Single
<1>3. CASE i \notin S \ blocked
  <2>1. recorded'[i] = recorded[i] BY <1>3 DEF Record
  <2> QED BY <2>1, ShrinksKeeps
<1> QED BY <1>2, <1>3

\* The end of an operation and the start of a turn without input hand nothing on.
LEMMA LeaveShrinks ==
    ASSUME IInv, NEW p \in Procs, Leave(p)
    PROVE  \A i \in Items, q \in Procs : i \in hand'[q] => i \in hand[q]
BY DEF IInv, TypeOK, ProcOK, Leave

LEMMA EmptyTurn ==
    ASSUME IInv, NEW p \in Procs, NEW k, NewTurn(p, k, {})
    PROVE  \A t \in Turns : input'[t] \subseteq input[t]
BY DEF IInv, TypeOK, TaskOK, NewTurn

LEMMA SubmitApart ==
    ASSUME IInv, Apart, NEW i \in Items, NEW p \in Procs, NEW j \in Inputs,
           SteerInput(p, j) \/ DeclineInput(p, j) \/ SpawnForInput(p, j)
    PROVE  Single(i)'
<1>0. Single(i) /\ j \in Items /\ sent' = sent \cup {j} /\ recorded' = recorded /\ mailbox' = mailbox
      /\ hand' = hand /\ j \notin sent
  BY ProcFacts DEF Apart, SteerInput, DeclineInput, SpawnForInput, Submits, procVars
<1>1. CASE DeclineInput(p, j)
  <2>1. Shrinks(i) BY <1>1 DEF DeclineInput, Shrinks, stateVars, taskVars, procVars
  <2> QED BY <1>0, <2>1, ShrinksKeeps
<1>2. CASE SteerInput(p, j)
  <2>1. active.st \in StateIds BY <1>2 DEF SteerInput, IInv, TypeOK, SlotOK
  <2>2. /\ input' = input
        /\ \A s \in StateIds : pending'[s] = IF s = active.st THEN pending[s] \cup {j} ELSE pending[s]
    BY <1>2, <2>1 DEF SteerInput, ExtendAndAccept, taskVars, IInv, TypeOK, TurnStateOK
  <2>3. CASE i = j
    <3>1. /\ recorded[i] = 0 /\ i \notin mailbox /\ (\A s \in StateIds : i \notin pending[s])
          /\ (\A t \in Turns : i \notin input[t]) /\ \A q \in Procs : i \notin hand[q]
      BY <1>0, <2>3, NewItem
    <3> QED BY <1>0, <2>2, <2>3, <3>1 DEF Single, Loose
  <2>4. CASE i # j
    <3>1. Shrinks(i) BY <1>0, <2>2, <2>4 DEF Shrinks
    <3> QED BY <1>0, <3>1, ShrinksKeeps
  <2> QED BY <2>3, <2>4
<1>3. CASE SpawnForInput(p, j)
  <2>1. nextTurn \in Turns BY <1>3 DEF SpawnForInput, NewTurn, IInv, TypeOK, TaskOK, Turns
  <2>2. /\ pending' = pending
        /\ \A t \in Turns : input'[t] = IF t = nextTurn THEN {j} ELSE input[t]
    BY <1>3, <2>1 DEF SpawnForInput, NewTurn, stateVars, IInv, TypeOK, TaskOK
  <2>3. CASE i = j
    <3>1. /\ recorded[i] = 0 /\ i \notin mailbox /\ (\A s \in StateIds : i \notin pending[s])
          /\ (\A t \in Turns : i \notin input[t]) /\ \A q \in Procs : i \notin hand[q]
      BY <1>0, <2>3, NewItem
    <3> QED BY <1>0, <2>2, <2>3, <3>1 DEF Single, Loose
  <2>4. CASE i # j
    <3>1. Shrinks(i) BY <1>0, <2>2, <2>4 DEF Shrinks
    <3> QED BY <1>0, <3>1, ShrinksKeeps
  <2> QED BY <2>3, <2>4
<1> QED BY <1>1, <1>2, <1>3

LEMMA SubmitMailApart ==
    ASSUME IInv, Apart, NEW i \in Items, NEW m \in Mails, SubmitMail(m)
    PROVE  Single(i)'
<1>0. /\ Single(i) /\ m \in Items /\ sent' = sent \cup {m} /\ m \notin sent
      /\ mailbox' = mailbox \cup {m}
      /\ UNCHANGED <<recorded, pending, input, hand>>
  BY ProcFacts DEF Apart, SubmitMail, stateVars, taskVars, procVars
<1>1. CASE i = m
  <2>1. /\ recorded[i] = 0 /\ i \notin mailbox /\ (\A s \in StateIds : i \notin pending[s])
        /\ (\A t \in Turns : i \notin input[t]) /\ \A q \in Procs : i \notin hand[q]
    BY <1>0, <1>1, NewItem
  <2> QED BY <1>0, <1>1, <2>1 DEF Single, Loose
<1>2. CASE i # m
  <2>1. Shrinks(i) BY <1>0, <1>2 DEF Shrinks
  <2> QED BY <1>0, <2>1, ShrinksKeeps
<1> QED BY <1>1, <1>2

LEMMA StartIfIdleApart ==
    ASSUME IInv, Apart, NEW i \in Items, NEW a \in Autos, StartIfIdle(a)
    PROVE  Single(i)'
<1>0. /\ Single(i) /\ a \in Items /\ sent' = sent \cup {a} /\ a \notin sent
      /\ UNCHANGED <<recorded, pending, input, mailbox>>
      /\ hand' = hand \/ hand' = [hand EXCEPT ![Loop] = {a}]
  BY ProcFacts DEF Apart, StartIfIdle, taskVars
<1>1. CASE hand' = hand
  <2>1. Shrinks(i) BY <1>0, <1>1 DEF Shrinks
  <2> QED BY <1>0, <2>1, ShrinksKeeps
<1>2. CASE hand' = [hand EXCEPT ![Loop] = {a}]
  <2>1. \A q \in Procs : hand'[q] = IF q = Loop THEN {a} ELSE hand[q]
    BY <1>2 DEF IInv, TypeOK, ProcOK
  <2>2. CASE i = a
    <3>1. /\ recorded[i] = 0 /\ i \notin mailbox /\ (\A s \in StateIds : i \notin pending[s])
          /\ (\A t \in Turns : i \notin input[t]) /\ \A q \in Procs : i \notin hand[q]
      BY <1>0, <2>2, NewItem
    <3> QED BY <1>0, <2>1, <2>2, <3>1 DEF Single, Loose
  <2>3. CASE i # a
    <3>1. Shrinks(i) BY <1>0, <2>1, <2>3 DEF Shrinks
    <3> QED BY <1>0, <3>1, ShrinksKeeps
  <2> QED BY <2>2, <2>3
<1> QED BY <1>0, <1>1, <1>2

LEMMA InjectApart ==
    ASSUME IInv, Apart, NEW i \in Items, NEW j \in Injects, Inject(j)
    PROVE  Single(i)'
<1>0. /\ Single(i) /\ j \in Items /\ sent' = sent \cup {j} /\ j \notin sent
      /\ UNCHANGED <<input, mailbox, hand>>
  BY ProcFacts DEF Apart, Inject, taskVars, procVars
<1>1. CASE active.st # None
  <2>1. active.st \in StateIds BY <1>1 DEF IInv, TypeOK, SlotOK
  <2>2. /\ recorded' = recorded
        /\ \A s \in StateIds : pending'[s] = IF s = active.st THEN pending[s] \cup {j} ELSE pending[s]
    BY <1>1, <2>1 DEF Inject, ExtendAndAccept, IInv, TypeOK, TurnStateOK
  <2>3. CASE i = j
    <3>1. /\ recorded[i] = 0 /\ i \notin mailbox /\ (\A s \in StateIds : i \notin pending[s])
          /\ (\A t \in Turns : i \notin input[t]) /\ \A q \in Procs : i \notin hand[q]
      BY <1>0, <2>3, NewItem
    <3> QED BY <1>0, <2>2, <2>3, <3>1 DEF Single, Loose
  <2>4. CASE i # j
    <3>1. Shrinks(i) BY <1>0, <2>2, <2>4 DEF Shrinks
    <3> QED BY <1>0, <2>2, <3>1, ShrinksKeeps
  <2> QED BY <2>3, <2>4
<1>2. CASE active.st = None
  <2>1. /\ pending' = pending
        /\ recorded'[i] = IF i = j THEN recorded[i] + 1 ELSE recorded[i]
    BY <1>2 DEF Inject, Record
  <2>2. CASE i = j
    <3>1. /\ recorded[i] = 0 /\ i \notin mailbox /\ (\A s \in StateIds : i \notin pending[s])
          /\ (\A t \in Turns : i \notin input[t]) /\ \A q \in Procs : i \notin hand[q]
      BY <1>0, <2>2, NewItem
    <3>2. recorded'[i] = 1 BY <2>1, <2>2, <3>1
    <3> QED BY <1>0, <2>1, <2>2, <3>1, <3>2 DEF Single, Loose
  <2>3. CASE i # j
    <3>1. Shrinks(i) BY <1>0, <2>1 DEF Shrinks
    <3> QED BY <1>0, <2>1, <2>3, <3>1, ShrinksKeeps
  <2> QED BY <2>2, <2>3
<1> QED BY <1>1, <1>2

\* The steps that submit, move and record nothing; some of them drop something.
LEMMA QuietApart ==
    ASSUME IInv, Apart, NEW i \in Items, recorded' = recorded, sent' = sent, Shrinks(i)
    PROVE  Single(i)'
BY ShrinksKeeps DEF Apart

LEMMA ClientQuiet ==
    ASSUME IInv, NEW i \in Items,
           Interrupt \/ Compact \/ Shutdown \/ \E t \in Turns : GuardianAbort(t)
    PROVE  recorded' = recorded /\ sent' = sent /\ Shrinks(i)
<1>1. CASE Compact
  <2>1. \A t \in Turns : input'[t] \subseteq input[t] BY <1>1, ProcFacts, EmptyTurn DEF Compact
  <2> QED BY <1>1, <2>1 DEF Compact, Shrinks, stateVars, ghostVars
<1>2. CASE Interrupt \/ Shutdown \/ \E t \in Turns : GuardianAbort(t)
  BY <1>2 DEF Interrupt, Shutdown, GuardianAbort, Shrinks, stateVars, taskVars, procVars, ghostVars
<1> QED BY <1>1, <1>2

LEMMA SharedQuiet ==
    ASSUME IInv, NEW i \in Items, NEW p \in Procs,
           \/ AdmitDeclined(p) \/ TakeActive(p) \/ AbortJoin(p) \/ AbortReport(p)
           \/ WakeCheck(p) \/ WakeReserve(p) \/ StartInstall(p)
    PROVE  recorded' = recorded /\ sent' = sent /\ Shrinks(i)
<1>0. /\ hand \in [Procs -> SUBSET Items] /\ input \in [Turns -> SUBSET Items]
      /\ pending \in [StateIds -> SUBSET Items]
  BY DEF IInv, TypeOK, ProcOK, TaskOK, TurnStateOK
<1>1. recorded' = recorded /\ sent' = sent
  BY DEF AdmitDeclined, TakeActive, AbortJoin, AbortReport, WakeCheck, WakeReserve, StartInstall,
         ghostVars
<1>2. Leave(p) => \A q \in Procs : i \in hand'[q] => i \in hand[q] BY LeaveShrinks
<1>3. CASE AdmitDeclined(p)
  <2>1. \A q \in Procs : i \in hand'[q] => i \in hand[q]
    BY <1>0, <1>2, <1>3 DEF AdmitDeclined
  <2> QED BY <1>1, <1>3, <2>1 DEF AdmitDeclined, Shrinks, stateVars, taskVars
<1>4. CASE TakeActive(p)
  <2>1. \A q \in Procs : i \in hand'[q] => i \in hand[q]
    BY <1>2, <1>4 DEF TakeActive, procVars
  <2> QED BY <1>1, <1>4, <2>1 DEF TakeActive, Shrinks, stateVars
<1>5. CASE AbortJoin(p)
  <2>1. /\ \A q \in Procs : i \in hand'[q] => i \in hand[q]
        /\ \A t \in Turns : i \in input'[t] => i \in input[t]
    BY <1>0, <1>5 DEF AbortJoin
  <2> QED BY <1>1, <1>5, <2>1 DEF AbortJoin, Shrinks, stateVars
<1>6. CASE AbortReport(p)
  <2>1. \A s \in StateIds : i \in pending'[s] => i \in pending[s] BY <1>0, <1>6 DEF AbortReport
  <2> QED BY <1>1, <1>6, <2>1 DEF AbortReport, Shrinks, taskVars
<1>7. CASE WakeCheck(p)
  <2>1. \A q \in Procs : i \in hand'[q] => i \in hand[q] BY <1>2, <1>7 DEF WakeCheck, procVars
  <2> QED BY <1>1, <1>7, <2>1 DEF WakeCheck, Shrinks, stateVars, taskVars
<1>8. CASE WakeReserve(p)
  <2>1. \A q \in Procs : i \in hand'[q] => i \in hand[q] BY <1>2, <1>8 DEF WakeReserve
  <2> QED BY <1>1, <1>8, <2>1 DEF WakeReserve, Shrinks, taskVars
<1>9. CASE StartInstall(p) BY <1>1, <1>9 DEF StartInstall, Shrinks, taskVars
<1> QED BY <1>3, <1>4, <1>5, <1>6, <1>7, <1>8, <1>9

LEMMA TurnQuiet ==
    ASSUME IInv, NEW i \in Items, NEW t \in Turns,
           \/ TurnFailsEarly(t) \/ CompactRuns(t) \/ SampleFollowUp(t) \/ SampleFinal(t)
           \/ SampleError(t) \/ PostCheck(t) \/ FinCheck(t) \/ FinTake(t) \/ FinClear(t)
    PROVE  recorded' = recorded /\ sent' = sent /\ Shrinks(i)
<1>0. /\ hand \in [Procs -> SUBSET Items] /\ input \in [Turns -> SUBSET Items] /\ t \in Procs
  BY ProcFacts DEF IInv, TypeOK, ProcOK, TaskOK
<1>1. recorded' = recorded /\ sent' = sent /\ pending' = pending /\ mailbox' = mailbox
  BY DEF TurnFailsEarly, CompactRuns, SampleFollowUp, SampleFinal, SampleError, PostCheck,
         FinCheck, FinTake, FinClear, ghostVars, stateVars
<1>2. \A q \in Procs : i \in hand'[q] => i \in hand[q]
  <2>1. Leave(t) \/ hand' = hand
    BY DEF TurnFailsEarly, CompactRuns, SampleFollowUp, SampleFinal, SampleError, PostCheck,
           FinCheck, FinTake, FinClear, procVars
  <2> QED BY <1>0, <2>1, LeaveShrinks
<1>3. \A u \in Turns : i \in input'[u] => i \in input[u]
  <2>1. CASE TurnFailsEarly(t) BY <1>0, <2>1 DEF TurnFailsEarly
  <2>2. CASE ~TurnFailsEarly(t)
    BY <2>2 DEF CompactRuns, SampleFollowUp, SampleFinal, SampleError, PostCheck,
           FinCheck, FinTake, FinClear, taskVars
  <2> QED BY <2>1, <2>2
<1> QED BY <1>1, <1>2, <1>3 DEF Shrinks

\* get_pending_input takes what it returns.
LEMMA GetPendingApart ==
    ASSUME IInv, Apart, NEW i \in Items, NEW p \in Procs, GetPendingInput(p),
           \A t \in Turns : input'[t] \subseteq input[t], UNCHANGED <<recorded, sent>>
    PROVE  Single(i)'
<1>0. /\ hand \in [Procs -> SUBSET Items] /\ pending \in [StateIds -> SUBSET Items] /\ Single(i)
  BY DEF IInv, TypeOK, ProcOK, TurnStateOK, Apart
<1>1. \A q \in Procs : q # p => hand'[q] = hand[q] BY <1>0 DEF GetPendingInput
<1>2. CASE ~AcceptsMailbox
  <2>1. /\ mailbox' = mailbox /\ pending' = pending /\ i \notin hand'[p]
    BY <1>0, <1>2 DEF GetPendingInput
  <2> QED BY <1>0, <1>1, <2>1, DrainedToHand
<1>3. CASE AcceptsMailbox /\ active.st = None
  <2>1. mailbox' = {} /\ pending' = pending /\ hand'[p] = mailbox
    BY <1>0, <1>3 DEF GetPendingInput
  <2>2. i \in mailbox => \A s \in StateIds : i \notin pending[s] BY <1>0 DEF Single
  <2> QED BY <1>0, <1>1, <2>1, <2>2, DrainedToHand
<1>4. CASE AcceptsMailbox /\ active.st # None
  <2>1. active.st \in StateIds BY <1>4 DEF IInv, TypeOK, SlotOK
  <2>2. /\ mailbox' = {} /\ hand'[p] = mailbox \cup pending[active.st]
        /\ \A s \in StateIds : pending'[s] = IF s = active.st THEN {} ELSE pending[s]
    BY <1>0, <1>4, <2>1 DEF GetPendingInput
  <2>3. i \in mailbox \cup pending[active.st] => \A s \in StateIds : i \notin pending'[s]
    BY <1>0, <2>1, <2>2 DEF Single
  <2>4. \A s \in StateIds : pending'[s] \subseteq pending[s] BY <2>2
  <2> QED BY <1>0, <1>1, <2>1, <2>2, <2>3, <2>4, DrainedToHand
<1> QED BY <1>2, <1>3, <1>4

LEMMA SharedMoves ==
    ASSUME IInv, Apart, NEW i \in Items, NEW p \in Procs,
           AdmitStarted(p) \/ WakeDrain(p) \/ WakeExtend(p) \/ StartDrain(p) \/ StartAttach(p)
    PROVE  Single(i)'
<1>0. /\ hand \in [Procs -> SUBSET Items] /\ pending \in [StateIds -> SUBSET Items] /\ Single(i)
  BY DEF IInv, TypeOK, ProcOK, TurnStateOK, Apart
<1>1. CASE AdmitStarted(p)
  <2>1. held[p] \in StateIds BY <1>1 DEF AdmitStarted, IInv, Control, HoldingPcs
  <2>2. \A t \in Turns : input'[t] \subseteq input[t] BY <1>1, EmptyTurn DEF AdmitStarted
  <2> QED BY <1>0, <1>1, <2>1, <2>2, HandToPending DEF AdmitStarted, ghostVars
<1>2. CASE WakeDrain(p)
  <2>1. \A t \in Turns : input'[t] \subseteq input[t] BY <1>2, EmptyTurn DEF WakeDrain
  <2> QED BY <1>2, <2>1, GetPendingApart DEF WakeDrain, ghostVars
<1>3. CASE WakeExtend(p)
  <2>1. held[p] \in StateIds BY <1>3 DEF WakeExtend, IInv, Control, HoldingPcs
  <2> QED BY <1>0, <1>3, <2>1, HandToPending DEF WakeExtend, ghostVars, taskVars
<1>4. CASE StartDrain(p)
  <2>1. /\ mailbox' = {} /\ hand'[p] = mailbox /\ UNCHANGED <<pending, input, recorded, sent>>
        /\ \A q \in Procs : q # p => hand'[q] = hand[q]
    BY <1>0, <1>4 DEF StartDrain, stateVars, taskVars, ghostVars
  <2>2. i \in mailbox => \A s \in StateIds : i \notin pending[s] BY <1>0 DEF Single
  <2> QED BY <1>0, <2>1, <2>2, DrainedToHand
<1>5. CASE StartAttach(p)
  <2>1. PICK s \in StateIds : pending' = [pending EXCEPT ![s] = @ \cup hand[p]]
    BY <1>5 DEF StartAttach
  <2> QED BY <1>0, <1>5, <2>1, HandToPending DEF StartAttach, ghostVars, taskVars
<1> QED BY <1>1, <1>2, <1>3, <1>4, <1>5

\* The four places where a turn records what it was given.
LEMMA TurnMoves ==
    ASSUME IInv, Apart, NEW i \in Items, NEW t \in Turns,
           TurnBegin(t) \/ TurnDrain(t) \/ TurnRecord(t) \/ ObserveCancel(t)
           \/ HookStopsTurn(t) \/ FinReport(t)
    PROVE  Single(i)'
<1>0. /\ hand \in [Procs -> SUBSET Items] /\ pending \in [StateIds -> SUBSET Items] /\ Single(i)
      /\ input \in [Turns -> SUBSET Items] /\ t \in Procs
  BY ProcFacts DEF IInv, TypeOK, ProcOK, TurnStateOK, TaskOK, Apart
<1>1. CASE TurnDrain(t)
  BY <1>0, <1>1, GetPendingApart DEF TurnDrain, ghostVars, taskVars
<1>2. CASE TurnBegin(t) \/ ObserveCancel(t) \/ HookStopsTurn(t)
  <2>1. /\ UNCHANGED <<pending, mailbox, hand, sent>>
        /\ \A u \in Turns : input'[u] = IF u = t THEN {} ELSE input[u]
    BY <1>0, <1>2 DEF TurnBegin, ObserveCancel, HookStopsTurn, stateVars, procVars
  <2>2. Shrinks(i) BY <2>1 DEF Shrinks
  <2>3. i \in input[t] => /\ Loose(i) /\ i \notin mailbox' /\ (\A s \in StateIds : i \notin pending'[s])
                          /\ (\A u \in Turns : i \notin input'[u]) /\ \A p \in Procs : i \notin hand'[p]
    BY <1>0, <2>1 DEF Single
  <2>4. CASE recorded' = recorded BY <1>0, <2>1, <2>2, <2>4, ShrinksKeeps
  <2>5. CASE \E blocked \in SUBSET Blockable(input[t]) : Record(input[t] \ blocked)
    BY <1>0, <2>1, <2>2, <2>3, <2>5, RecordedFrom
  <2> QED BY <1>2, <2>4, <2>5 DEF TurnBegin, ObserveCancel, HookStopsTurn, RecordAccepted
<1>3. CASE TurnRecord(t)
  <2>1. /\ UNCHANGED <<pending, mailbox, input, sent>>
        /\ \A q \in Procs : hand'[q] = IF q = t THEN {} ELSE hand[q]
    BY <1>0, <1>3 DEF TurnRecord, stateVars, taskVars
  <2>2. Shrinks(i) BY <2>1 DEF Shrinks
  <2>3. i \in hand[t] => /\ Loose(i) /\ i \notin mailbox' /\ (\A s \in StateIds : i \notin pending'[s])
                         /\ (\A u \in Turns : i \notin input'[u]) /\ \A p \in Procs : i \notin hand'[p]
    BY <1>0, <2>1 DEF Single
  <2>4. PICK blocked \in SUBSET Blockable(hand[t]) : Record(hand[t] \ blocked)
    BY <1>3 DEF TurnRecord, RecordAccepted
  <2> QED BY <1>0, <2>1, <2>2, <2>3, <2>4, RecordedFrom
<1>4. CASE FinReport(t)
  <2>0. held[t] \in StateIds BY <1>0, <1>4 DEF FinReport, IInv, Control, HoldingPcs
  <2>1. /\ UNCHANGED <<hand, mailbox, input, sent>>
        /\ \A s \in StateIds : pending'[s] = IF s = held[t] THEN {} ELSE pending[s]
    BY <1>0, <1>4 DEF FinReport, procVars, taskVars
  <2>2. Shrinks(i) BY <2>1 DEF Shrinks
  <2>3. i \in pending[held[t]] =>
          /\ Loose(i) /\ i \notin mailbox' /\ (\A s \in StateIds : i \notin pending'[s])
          /\ (\A u \in Turns : i \notin input'[u]) /\ \A p \in Procs : i \notin hand'[p]
    BY <1>0, <2>0, <2>1 DEF Single
  <2>4. PICK blocked \in SUBSET Blockable(pending[held[t]]) : Record(pending[held[t]] \ blocked)
    BY <1>4 DEF FinReport, RecordAccepted
  <2> QED BY <1>0, <2>0, <2>1, <2>2, <2>3, <2>4, RecordedFrom
<1> QED BY <1>1, <1>2, <1>3, <1>4

LEMMA StepApart ==
    ASSUME IInv, Apart, [Next]_vars
    PROVE  Apart'
<1> SUFFICES ASSUME NEW i \in Items PROVE Single(i)'
    BY DEF Apart
<1>1. CASE UNCHANGED vars
  <2>1. recorded' = recorded /\ sent' = sent /\ Shrinks(i)
    BY <1>1 DEF vars, stateVars, taskVars, procVars, ghostVars, Shrinks
  <2> QED BY <2>1, QuietApart
<1>2. CASE ClientOp
  BY <1>2, ProcFacts, SubmitApart, SubmitMailApart, StartIfIdleApart, InjectApart, ClientQuiet,
     QuietApart DEF ClientOp
<1>3. ASSUME NEW p \in Procs, SharedStep(p) PROVE Single(i)'
  BY <1>3, SharedQuiet, SharedMoves, QuietApart DEF SharedStep
<1>4. ASSUME NEW t \in Turns, TurnStep(t) PROVE Single(i)'
  BY <1>4, TurnQuiet, TurnMoves, QuietApart DEF TurnStep
<1>5. QED BY <1>1, <1>2, <1>3, <1>4 DEF Next

LEMMA InitApart == Init => Apart
BY DEF Init, Apart, Single

\* No input enters the history twice: a drain of a TurnState or of the mailbox takes what
\* it reads, whichever of the processes drain, finish, abort and start turns at once.
THEOREM RecordedOnce == Spec => []AtMostOnceRecorded
<1>1. Init => IInv /\ Apart BY InitHolds, InitApart
<1>2. IInv /\ Apart /\ [Next]_vars => (IInv /\ Apart)' BY StepKeeps, StepApart
<1>3. IInv /\ Apart => AtMostOnceRecorded BY DEF Apart, Single, AtMostOnceRecorded
<1>4. QED BY <1>1, <1>2, <1>3, PTL DEF Spec

-----------------------------------------------------------------------------
(* The session whose turns are started by the submission loop alone: no    *)
(* mail, no automatic input, no realtime text and no guardian.  The slot   *)
(* then has the one owner that start_task takes for granted.               *)

ClientOnly == Mails = {} /\ Autos = {} /\ RealtimeInputs = {} /\ MaxGuardianTrips = 0

\* The task of turn t runs, or has not yet taken itself out of the slot.
Live(t) == pc[t] \in RunPcs \cup {"finCheck", "finTake"}

\* Only the submission loop starts and aborts.
ClientControl ==
    /\ mailbox = {} /\ pc[Guardian] = "idle" /\ pc[Realtime] = "idle"
    /\ \A p \in Procs : p # Loop => victim[p] = None /\ starting[p] = None
    /\ pc[Loop] \in {"idle", "exited", "take", "await", "report", "drain", "attach", "install", "wake"}
    /\ \A t \in Turns : pc[t] \in {"unborn", "done", "wake"} \cup RunPcs \cup FinishPcs
    /\ pc[Loop] \in {"await", "report"} <=> victim[Loop] # None

\* A live task is the one in the slot, or the one the loop is aborting, and the loop starts
\* a task only when there is neither.
SlotInv ==
    /\ pc[Loop] \in {"await", "report", "drain", "attach", "install"} => active.task = None
    /\ \A t \in Turns : Live(t) => active.task = t \/ victim[Loop] = t
    /\ \A t \in Turns : active.task = t => Live(t) /\ ~cancelled[t]
    /\ \A t \in Turns : victim[Loop] = t => Live(t) \/ pc[t] = "done"
    /\ \A t \in Turns : pc[t] = "unborn" => ~cancelled[t]

\* A turn that is over has been reported once, unless the loop is about to.
ReportInv ==
    /\ \A t \in Turns : pc[t] \in {"unborn", "finReport"} \/ Live(t) \/ victim[Loop] = t
                        => events[t] = <<>>
    /\ \A t \in Turns : pc[t] \in {"finClear", "wake", "done"} /\ victim[Loop] # t
                        => Len(events[t]) = 1

CInv == ClientControl /\ SlotInv /\ ReportInv

\* A turn's task goes on.
LEMMA LiveStep ==
    ASSUME IInv, CInv, NEW t \in Turns, Live(t), NEW x \in RunPcs \cup {"finCheck", "finTake"},
           pc' = [pc EXCEPT ![t] = x],
           mailbox' = {}, UNCHANGED <<active, cancelled, starting, victim, events>>
    PROVE  CInv'
<1>1. /\ \A q \in Procs : pc'[q] = IF q = t THEN x ELSE pc[q]
      /\ t \in Procs /\ Loop \in Procs /\ Loop # t /\ Guardian # t /\ Realtime # t
      /\ Guardian \in Procs /\ Realtime \in Procs /\ Turns \subseteq Procs
  BY ProcFacts DEF IInv, TypeOK, ProcOK
<1>2. ClientControl' BY <1>1 DEF CInv, ClientControl, FinishPcs
<1>3. Live(t)' /\ \A u \in Turns : u # t => (Live(u)' <=> Live(u)) BY <1>1 DEF Live
<1>4. SlotInv' BY <1>1, <1>3 DEF CInv, SlotInv, Live, RunPcs
<1>5. ReportInv' BY <1>1, <1>3 DEF CInv, ReportInv, Live, RunPcs
<1> QED BY <1>2, <1>4, <1>5 DEF CInv

\* The loop goes on, with the slot as it is or emptied of a turn without a task.
LEMMA LoopStep ==
    ASSUME IInv, CInv, NEW x \in {"idle", "exited", "take", "drain", "attach", "install", "wake"},
           pc' = [pc EXCEPT ![Loop] = x], active'.task = active.task,
           x \in {"drain", "attach", "install"} => active.task = None,
           victim[Loop] = None, victim' \in {victim, [victim EXCEPT ![Loop] = None]},
           \A p \in Procs : p # Loop => starting'[p] = starting[p],
           mailbox' = {}, UNCHANGED <<cancelled, events>>
    PROVE  CInv'
<1>1. /\ \A q \in Procs : pc'[q] = IF q = Loop THEN x ELSE pc[q]
      /\ \A q \in Procs : victim'[q] = victim[q]
      /\ Loop \in Procs /\ Loop # Guardian /\ Loop # Realtime /\ Loop \notin Turns
      /\ Guardian \in Procs /\ Realtime \in Procs /\ Turns \subseteq Procs
  BY ProcFacts, SessionAssumption DEF IInv, TypeOK, ProcOK, SessionAssumption
<1>2. ClientControl' BY <1>1 DEF CInv, ClientControl
<1>3. \A u \in Turns : (Live(u)' <=> Live(u)) /\ pc'[u] = pc[u] BY <1>1 DEF Live
<1>4. SlotInv' BY <1>1, <1>3 DEF CInv, SlotInv
<1>5. ReportInv' BY <1>1, <1>3 DEF CInv, ReportInv
<1> QED BY <1>2, <1>4, <1>5 DEF CInv

LEMMA LoopReturn == Return(Loop) \in {"idle", "exited"}
BY ProcFacts DEF Return

LEMMA ClientOpClient ==
    ASSUME IInv, CInv, ClientOnly, ClientOp
    PROVE  CInv'
<1>0. pc \in [Procs -> PcValues] /\ starting \in [Procs -> Turns \cup {None}]
  BY DEF IInv, TypeOK, ProcOK
<1>1. ASSUME NEW p \in {Loop, Realtime}, NEW i \in Inputs,
             SteerInput(p, i) \/ DeclineInput(p, i) \/ SpawnForInput(p, i)
      PROVE  CInv'
  <2>1. p = Loop /\ pc[Loop] = "idle"
    BY <1>1 DEF SteerInput, DeclineInput, SpawnForInput, Submits, ClientOnly
  <2>2. victim[Loop] = None /\ mailbox = {} BY <2>1 DEF CInv, ClientControl
  <2>3. CASE SteerInput(p, i) \/ DeclineInput(p, i)
    <3>1. pc' = pc /\ pc' = [pc EXCEPT ![Loop] = "idle"]
      BY <1>0, <2>1, <2>3 DEF SteerInput, DeclineInput
    <3> QED BY <2>2, <2>3, <3>1, LoopStep DEF SteerInput, DeclineInput, procVars, taskVars
  <2>4. CASE SpawnForInput(p, i)
    <3>1. \A q \in Procs : q # Loop => starting'[q] = starting[q]
      BY <1>0, <2>1, <2>4 DEF SpawnForInput, NewTurn
    <3> QED BY <2>1, <2>2, <2>4, <3>1, LoopStep DEF SpawnForInput
  <2> QED BY <1>1, <2>3, <2>4
<1>2. ASSUME NEW i \in Injects, Inject(i) PROVE CInv'
  BY <1>2 DEF Inject, CInv, ClientControl, SlotInv, ReportInv, Live, procVars, taskVars
<1>3. CASE Interrupt \/ Shutdown
  <2>1. /\ pc[Loop] = "idle" /\ pc' = [pc EXCEPT ![Loop] = "take"]
        /\ UNCHANGED <<active, mailbox, starting, victim, cancelled, events>>
    BY <1>3 DEF Interrupt, Shutdown, procVars, taskVars, ghostVars
  <2>2. victim[Loop] = None /\ mailbox = {} BY <2>1 DEF CInv, ClientControl
  <2> QED BY <2>1, <2>2, LoopStep
<1>4. CASE Compact
  <2>1. /\ pc[Loop] = "idle" /\ pc' = [pc EXCEPT ![Loop] = "take"]
        /\ UNCHANGED <<active, mailbox, victim, cancelled, events>>
        /\ \A q \in Procs : q # Loop => starting'[q] = starting[q]
    BY <1>0, <1>4 DEF Compact, NewTurn, ghostVars
  <2>2. victim[Loop] = None /\ mailbox = {} BY <2>1 DEF CInv, ClientControl
  <2> QED BY <2>1, <2>2, LoopStep
<1>5. ~ \E t \in Turns : GuardianAbort(t)
  BY SessionAssumption DEF GuardianAbort, ClientOnly, IInv, TypeOK, HistoryOK, SessionAssumption
<1> QED BY <1>1, <1>2, <1>3, <1>4, <1>5 DEF ClientOp, ClientOnly

LEMMA AbortClient ==
    ASSUME IInv, CInv, TakeActive(Loop) \/ AbortJoin(Loop) \/ AbortReport(Loop)
    PROVE  CInv'
<1>0. /\ pc \in [Procs -> PcValues] /\ victim \in [Procs -> Turns \cup {None}]
      /\ starting \in [Procs -> Turns \cup {None}] /\ cancelled \in [Turns -> BOOLEAN]
      /\ Loop \in Procs /\ Loop # Guardian /\ Loop # Realtime /\ Loop \notin Turns
      /\ Guardian \in Procs /\ Realtime \in Procs /\ Turns \subseteq Procs /\ None \notin Turns
      /\ Guardian \notin Turns /\ Realtime \notin Turns
      /\ active.task \in Turns \cup {None}
  BY ProcFacts, SessionAssumption DEF IInv, TypeOK, ProcOK, TaskOK, SlotOK, SessionAssumption
<1>1. CASE TakeActive(Loop) /\ active.task = None
  <2>1. pc[Loop] = "take" /\ active' = NoActive /\ mailbox' = mailbox /\ UNCHANGED <<cancelled, events>>
    BY <1>1 DEF TakeActive, ghostVars
  <2>2. victim[Loop] = None /\ mailbox = {} BY <2>1 DEF CInv, ClientControl
  <2>3. PICK x \in {"drain", "idle", "exited"} : pc' = [pc EXCEPT ![Loop] = x]
    BY <1>1, LoopReturn DEF TakeActive, Leave
  <2>4. /\ victim' \in {victim, [victim EXCEPT ![Loop] = None]}
        /\ \A q \in Procs : q # Loop => starting'[q] = starting[q]
    BY <1>0, <1>1 DEF TakeActive, Leave, procVars
  <2>5. active'.task = active.task BY <1>1, <2>1 DEF NoActive
  <2> QED BY <1>1, <2>1, <2>2, <2>3, <2>4, <2>5, LoopStep
<1>2. CASE TakeActive(Loop) /\ active.task # None
  <2>1. PICK t \in Turns : t = active.task BY <1>0, <1>2
  <2>2. /\ active'.task = None /\ mailbox' = mailbox /\ UNCHANGED <<starting, events>>
        /\ \A q \in Procs : pc'[q] = IF q = Loop THEN "await" ELSE pc[q]
        /\ \A q \in Procs : victim'[q] = IF q = Loop THEN t ELSE victim[q]
        /\ \A u \in Turns : u # t => cancelled'[u] = cancelled[u]
        /\ pc[Loop] = "take"
    BY <1>0, <1>2, <2>1 DEF TakeActive, NoActive, ghostVars
  <2>3. ClientControl' BY <1>0, <2>2 DEF CInv, ClientControl
  <2>4. \A u \in Turns : (Live(u)' <=> Live(u)) /\ pc'[u] = pc[u] BY <1>0, <2>2 DEF Live
  <2>5. /\ Live(t) /\ victim[Loop] = None /\ \A u \in Turns : Live(u) => u = t
    BY <1>0, <2>1, <2>2 DEF CInv, ClientControl, SlotInv
  <2>6. pc[t] # "unborn" BY <2>5 DEF Live, RunPcs
  <2>7. SlotInv'
    <3>1. \A u \in Turns : pc[u] = "unborn" => ~cancelled'[u] BY <2>2, <2>6 DEF CInv, SlotInv
    <3> QED BY <1>0, <2>2, <2>4, <2>5, <3>1 DEF CInv, SlotInv
  <2>8. ReportInv' BY <1>0, <2>2, <2>4, <2>5 DEF CInv, ReportInv
  <2> QED BY <2>3, <2>7, <2>8 DEF CInv
<1>3. CASE AbortJoin(Loop)
  <2>1. PICK t \in Turns : t = victim[Loop] BY <1>0, <1>3 DEF AbortJoin, IInv, Control
  <2>2. /\ active' = active /\ mailbox' = mailbox /\ UNCHANGED <<victim, cancelled, events>>
        /\ \A q \in Procs : pc'[q] = IF q = Loop THEN "report" ELSE IF q = t THEN "done" ELSE pc[q]
        /\ \A q \in Procs : starting'[q] = IF q = t THEN None ELSE starting[q]
        /\ pc[Loop] = "await"
    BY <1>0, <1>3, <2>1 DEF AbortJoin
  <2>3. ClientControl' BY <1>0, <2>1, <2>2 DEF CInv, ClientControl
  <2>4. ~Live(t)' /\ \A u \in Turns : u # t => (Live(u)' <=> Live(u)) /\ pc'[u] = pc[u]
    BY <1>0, <2>2 DEF Live, RunPcs
  <2>5. active.task = None BY <2>2 DEF CInv, SlotInv
  <2>6. SlotInv' BY <1>0, <2>1, <2>2, <2>4, <2>5 DEF CInv, SlotInv
  <2>7. ReportInv' BY <1>0, <2>1, <2>2, <2>4 DEF CInv, ReportInv
  <2> QED BY <2>3, <2>6, <2>7 DEF CInv
<1>4. CASE AbortReport(Loop)
  <2>1. PICK t \in Turns : t = victim[Loop] BY <1>0, <1>4 DEF AbortReport, IInv, Control
  <2>2. PICK x \in {"drain", "wake"} : pc' = [pc EXCEPT ![Loop] = x] BY <1>4 DEF AbortReport
  <2>3. /\ active' = active /\ mailbox' = mailbox /\ UNCHANGED <<cancelled, starting>>
        /\ \A q \in Procs : pc'[q] = IF q = Loop THEN x ELSE pc[q]
        /\ \A q \in Procs : victim'[q] = IF q = Loop THEN None ELSE victim[q]
        /\ pc[Loop] = "report" /\ pc[t] = "done"
    BY <1>0, <1>4, <2>1, <2>2 DEF AbortReport, IInv, Stopped, taskVars
  <2>4. ClientControl' BY <1>0, <2>2, <2>3 DEF CInv, ClientControl
  <2>5. \A u \in Turns : (Live(u)' <=> Live(u)) /\ pc'[u] = pc[u] BY <1>0, <2>3 DEF Live
  <2>6. active.task = None /\ ~Live(t) BY <2>3 DEF CInv, SlotInv, Live, RunPcs
  <2>7. SlotInv' BY <1>0, <2>1, <2>2, <2>3, <2>5, <2>6 DEF CInv, SlotInv
  <2>8. \A u \in Turns : u # t => events'[u] = events[u]
    BY <1>4, <2>1 DEF AbortReport, IInv, TypeOK, HistoryOK
  <2>9. Len(events'[t]) = 1
    <3>1. events[t] = <<>> BY <2>1 DEF CInv, ReportInv
    <3>2. events'[t] = <<"aborted">>
      BY <1>4, <2>1, <3>1 DEF AbortReport, IInv, TypeOK, HistoryOK
    <3> QED BY <3>2
  <2>10. ReportInv' BY <1>0, <2>1, <2>3, <2>5, <2>6, <2>8, <2>9 DEF CInv, ReportInv
  <2> QED BY <2>4, <2>7, <2>10 DEF CInv
<1> QED BY <1>1, <1>2, <1>3, <1>4

LEMMA StartClient ==
    ASSUME IInv, CInv, StartDrain(Loop) \/ StartAttach(Loop) \/ StartInstall(Loop) \/ WakeCheck(Loop)
    PROVE  CInv'
<1>0. /\ pc \in [Procs -> PcValues] /\ victim \in [Procs -> Turns \cup {None}]
      /\ starting \in [Procs -> Turns \cup {None}]
      /\ Loop \in Procs /\ Loop # Guardian /\ Loop # Realtime /\ Loop \notin Turns
      /\ Guardian \in Procs /\ Realtime \in Procs /\ Turns \subseteq Procs /\ None \notin Turns
      /\ Guardian \notin Turns /\ Realtime \notin Turns /\ None \notin Procs
  BY ProcFacts, SessionAssumption DEF IInv, TypeOK, ProcOK, SessionAssumption
<1>1. victim[Loop] = None /\ mailbox = {}
  BY DEF CInv, ClientControl, StartDrain, StartAttach, StartInstall, WakeCheck
<1>2. CASE StartDrain(Loop)
  <2>1. active.task = None BY <1>2 DEF StartDrain, CInv, SlotInv
  <2> QED BY <1>1, <1>2, <2>1, LoopStep DEF StartDrain, taskVars, ghostVars
<1>3. CASE StartAttach(Loop)
  <2>1. active.task = None BY <1>3 DEF StartAttach, CInv, SlotInv
  <2>2. active'.task = active.task BY <1>3 DEF StartAttach, IInv, TypeOK, SlotOK
  <2> QED BY <1>1, <1>3, <2>1, <2>2, LoopStep DEF StartAttach, taskVars, ghostVars
<1>4. CASE WakeCheck(Loop)
  <2>1. Leave(Loop) BY <1>1, <1>4 DEF WakeCheck, PendingWork
  <2>2. PICK x \in {"idle", "exited"} : pc' = [pc EXCEPT ![Loop] = x] BY <2>1, LoopReturn DEF Leave
  <2>3. /\ victim' = [victim EXCEPT ![Loop] = None]
        /\ \A q \in Procs : q # Loop => starting'[q] = starting[q]
    BY <1>0, <2>1 DEF Leave
  <2> QED BY <1>1, <1>4, <2>2, <2>3, LoopStep DEF WakeCheck, taskVars, ghostVars
<1>5. CASE StartInstall(Loop)
  <2>1. /\ active.task = None /\ active'.task = starting[Loop] /\ pc[Loop] = "install"
        /\ mailbox' = mailbox /\ UNCHANGED <<victim, cancelled, events>>
    BY <1>5 DEF StartInstall, CInv, SlotInv, taskVars, ghostVars
  <2>2. PICK x \in {"idle", "exited"} : x = Return(Loop) BY LoopReturn
  <2>3. PICK t \in Turns \cup {None} : t = starting[Loop] BY <1>0
  <2>4. \A q \in Procs : pc'[q] = IF q = t THEN "begin" ELSE IF q = Loop THEN x ELSE pc[q]
    BY <1>0, <1>5, <2>1, <2>2, <2>3 DEF StartInstall
  <2>5. \A q \in Procs : starting'[q] = IF q = Loop THEN None ELSE starting[q]
    BY <1>0, <1>5 DEF StartInstall
  <2>6. t # None => pc[t] = "unborn" BY <1>0, <2>3 DEF IInv, Birth
  <2>7. ClientControl' BY <1>0, <1>1, <2>1, <2>2, <2>4, <2>5 DEF CInv, ClientControl, RunPcs
  <2>8. \A u \in Turns : /\ u # t => (Live(u)' <=> Live(u)) /\ pc'[u] = pc[u]
                         /\ u = t => Live(u)' /\ pc'[u] = "begin"
    BY <1>0, <2>4 DEF Live, RunPcs
  <2>9. \A u \in Turns : ~Live(u) BY <1>0, <1>1, <2>1 DEF CInv, SlotInv
  <2>10. SlotInv' BY <1>0, <1>1, <2>1, <2>2, <2>3, <2>4, <2>6, <2>8, <2>9 DEF CInv, SlotInv
  <2>11. ReportInv' BY <1>0, <1>1, <2>1, <2>6, <2>8 DEF CInv, ReportInv
  <2> QED BY <2>7, <2>10, <2>11 DEF CInv
<1> QED BY <1>2, <1>3, <1>4, <1>5

\* A turn takes itself out of the slot, reports, clears the slot, and is over.
LEMMA FinishClient ==
    ASSUME IInv, CInv, NEW t \in Turns,
           FinCheck(t) \/ FinTake(t) \/ FinReport(t) \/ FinClear(t) \/ WakeCheck(t)
    PROVE  CInv'
<1>0. /\ pc \in [Procs -> PcValues] /\ victim \in [Procs -> Turns \cup {None}]
      /\ starting \in [Procs -> Turns \cup {None}] /\ events \in [Turns -> Seq({"finished", "aborted"})]
      /\ Loop \in Procs /\ Loop # t /\ Guardian # t /\ Realtime # t /\ t \in Procs
      /\ Guardian \in Procs /\ Realtime \in Procs /\ Turns \subseteq Procs /\ None \notin Turns
      /\ Loop \notin Turns /\ Return(t) = "done"
  BY ProcFacts DEF IInv, TypeOK, ProcOK, HistoryOK, Return
<1>1. /\ mailbox' = mailbox /\ mailbox = {} /\ cancelled' = cancelled
      /\ starting[t] = None /\ victim[t] = None
  BY <1>0 DEF FinCheck, FinTake, FinReport, FinClear, WakeCheck, taskVars, CInv, ClientControl
<1>2. /\ \A q \in Procs : starting'[q] = starting[q]
      /\ \A q \in Procs : victim'[q] = victim[q]
  <2>1. Leave(t) \/ (starting' = starting /\ victim' = victim)
    BY DEF FinCheck, FinTake, FinReport, FinClear, WakeCheck, procVars
  <2> QED BY <1>0, <1>1, <2>1 DEF Leave
<1>3. CASE FinCheck(t) /\ ~cancelled[t]
  <2>1. Live(t) /\ pc' = [pc EXCEPT ![t] = "finTake"] BY <1>3 DEF FinCheck, Live
  <2> QED BY <1>1, <1>3, <2>1, LiveStep DEF FinCheck, procVars, ghostVars
<1>4. CASE (FinCheck(t) /\ cancelled[t]) \/ (FinTake(t) /\ active.task = None)
  <2>1. Live(t) /\ Leave(t) /\ active' = active /\ events' = events
    BY <1>4 DEF FinCheck, FinTake, Live, ghostVars
  <2>2. active.task # t /\ victim[Loop] = t BY <1>0, <1>4, <2>1 DEF CInv, SlotInv
  <2>3. \A q \in Procs : pc'[q] = IF q = t THEN "done" ELSE pc[q] BY <1>0, <2>1 DEF Leave
  <2>4. ~Live(t)' /\ \A u \in Turns : u # t => (Live(u)' <=> Live(u)) /\ pc'[u] = pc[u]
    BY <1>0, <2>3 DEF Live, RunPcs
  <2>5. ClientControl' BY <1>0, <1>1, <1>2, <2>3 DEF CInv, ClientControl
  <2>6. SlotInv'
    <3>1. pc'[Loop] = pc[Loop] /\ victim'[Loop] = t /\ pc'[t] = "done" BY <1>0, <1>2, <2>2, <2>3
    <3>2. \A u \in Turns : pc'[u] = "unborn" => ~cancelled'[u]
      BY <1>1, <2>4, <3>1 DEF CInv, SlotInv
    <3>3. \A u \in Turns : active'.task = u => Live(u)' /\ ~cancelled'[u]
      BY <1>1, <2>1, <2>2, <2>4 DEF CInv, SlotInv
    <3>4. \A u \in Turns : Live(u)' => active'.task = u \/ victim'[Loop] = u
      BY <2>1, <2>2, <2>4, <3>1 DEF CInv, SlotInv
    <3> QED BY <2>1, <3>1, <3>2, <3>3, <3>4 DEF CInv, SlotInv
  <2>7. ReportInv' BY <1>0, <1>2, <2>1, <2>2, <2>3, <2>4 DEF CInv, ReportInv
  <2> QED BY <2>5, <2>6, <2>7 DEF CInv
<1>5. CASE FinTake(t) /\ active.task # None
  <2>1. /\ Live(t) /\ active'.task = None /\ events' = events
        /\ \A q \in Procs : pc'[q] = IF q = t THEN "finReport" ELSE pc[q]
    BY <1>0, <1>5 DEF FinTake, Live, ghostVars, IInv, TypeOK, SlotOK
  <2>2. victim[Loop] = None
    BY <1>5 DEF CInv, ClientControl, SlotInv
  <2>3. active.task = t BY <1>0, <2>1, <2>2 DEF CInv, SlotInv
  <2>4. ~Live(t)' /\ \A u \in Turns : u # t => (Live(u)' <=> Live(u)) /\ pc'[u] = pc[u]
    BY <1>0, <2>1 DEF Live, RunPcs
  <2>5. ClientControl' BY <1>0, <1>1, <1>2, <2>1 DEF CInv, ClientControl, FinishPcs
  <2>6. SlotInv'
    <3>1. victim'[Loop] = None BY <1>0, <1>2, <2>2
    <3>2. \A u \in Turns : ~Live(u)'
      BY <1>0, <2>2, <2>3, <2>4 DEF CInv, SlotInv
    <3>3. \A u \in Turns : active'.task # u /\ victim'[Loop] # u BY <1>0, <2>1, <3>1
    <3>4. \A u \in Turns : pc'[u] = "unborn" => ~cancelled'[u]
      BY <1>0, <1>1, <2>1, <2>4 DEF CInv, SlotInv
    <3> QED BY <2>1, <3>2, <3>3, <3>4 DEF SlotInv
  <2>7. ReportInv' BY <1>0, <1>2, <2>1, <2>4 DEF CInv, ReportInv
  <2> QED BY <2>5, <2>6, <2>7 DEF CInv
<1>6. CASE FinReport(t)
  <2>1. /\ pc[t] = "finReport" /\ active' = active
        /\ \A q \in Procs : pc'[q] = IF q = t THEN "finClear" ELSE pc[q]
        /\ \A u \in Turns : u # t => events'[u] = events[u]
    BY <1>0, <1>6 DEF FinReport
  <2>2. ~Live(t) /\ pc[t] # "done" /\ victim[Loop] # t /\ active.task # t
    BY <2>1 DEF CInv, SlotInv, Live, RunPcs
  <2>3. Len(events'[t]) = 1
    <3>1. events[t] = <<>> BY <2>1 DEF CInv, ReportInv
    <3>2. events'[t] = <<TerminalEvent(t)>>
      BY <1>0, <1>6, <3>1 DEF FinReport, IInv, TypeOK, HistoryOK
    <3> QED BY <3>2
  <2>4. ~Live(t)' /\ \A u \in Turns : u # t => (Live(u)' <=> Live(u)) /\ pc'[u] = pc[u]
    BY <1>0, <2>1 DEF Live, RunPcs
  <2>5. ClientControl' BY <1>0, <1>1, <1>2, <2>1 DEF CInv, ClientControl, FinishPcs
  <2>6. SlotInv' BY <1>0, <1>1, <1>2, <2>1, <2>2, <2>4 DEF CInv, SlotInv
  <2>7. ReportInv' BY <1>0, <1>2, <2>1, <2>2, <2>3, <2>4 DEF CInv, ReportInv
  <2> QED BY <2>5, <2>6, <2>7 DEF CInv
<1>7. CASE FinClear(t) \/ WakeCheck(t)
  <2>1. /\ pc[t] \in {"finClear", "wake"} /\ active'.task = active.task /\ events' = events
    BY <1>7 DEF FinClear, WakeCheck, NoActive, ghostVars
  <2>2. PICK x \in {"wake", "done"} : pc' = [pc EXCEPT ![t] = x]
    <3>1. CASE FinClear(t) BY <1>0, <3>1 DEF FinClear, Leave
    <3>2. CASE WakeCheck(t) BY <1>0, <1>1, <3>2 DEF WakeCheck, PendingWork, Leave
    <3> QED BY <1>7, <3>1, <3>2
  <2>3. \A q \in Procs : pc'[q] = IF q = t THEN x ELSE pc[q] BY <1>0, <2>2
  <2>4. ~Live(t) /\ pc[t] # "done" /\ victim[Loop] # t /\ active.task # t
    BY <2>1 DEF CInv, SlotInv, Live, RunPcs
  <2>5. ~Live(t)' /\ \A u \in Turns : u # t => (Live(u)' <=> Live(u)) /\ pc'[u] = pc[u]
    BY <1>0, <2>3 DEF Live, RunPcs
  <2>6. ClientControl' BY <1>0, <1>1, <1>2, <2>3 DEF CInv, ClientControl
  <2>7. SlotInv' BY <1>0, <1>1, <1>2, <2>1, <2>3, <2>4, <2>5 DEF CInv, SlotInv
  <2>8. ReportInv' BY <1>0, <1>2, <2>1, <2>3, <2>4, <2>5 DEF CInv, ReportInv
  <2> QED BY <2>6, <2>7, <2>8 DEF CInv
<1> QED BY <1>3, <1>4, <1>5, <1>6, <1>7 DEF FinCheck, FinTake

LEMMA RunClient ==
    ASSUME IInv, CInv, NEW t \in Turns,
           \/ TurnBegin(t) \/ TurnFailsEarly(t) \/ CompactRuns(t) \/ TurnDrain(t) \/ TurnRecord(t)
           \/ SampleFollowUp(t) \/ SampleFinal(t) \/ SampleError(t) \/ PostCheck(t)
           \/ ObserveCancel(t) \/ HookStopsTurn(t)
    PROVE  CInv'
<1>1. Live(t)
  BY DEF Live, RunPcs, TurnBegin, TurnFailsEarly, CompactRuns, TurnDrain, TurnRecord, SampleFollowUp,
         SampleFinal, SampleError, PostCheck, ObserveCancel, HookStopsTurn
<1>2. \E x \in RunPcs \cup {"finCheck", "finTake"} : pc' = [pc EXCEPT ![t] = x]
  BY DEF RunPcs, TurnBegin, TurnFailsEarly, CompactRuns, TurnDrain, TurnRecord, SampleFollowUp,
         SampleFinal, SampleError, PostCheck, ObserveCancel, HookStopsTurn
<1>3. UNCHANGED <<active, cancelled, starting, victim, events>>
  BY DEF TurnBegin, TurnFailsEarly, CompactRuns, TurnDrain, TurnRecord, SampleFollowUp,
         SampleFinal, SampleError, PostCheck, ObserveCancel, HookStopsTurn, taskVars, procVars, ghostVars
<1>4. mailbox' \subseteq mailbox /\ mailbox = {}
  BY DEF TurnBegin, TurnFailsEarly, CompactRuns, TurnDrain, TurnRecord, SampleFollowUp,
         SampleFinal, SampleError, PostCheck, ObserveCancel, HookStopsTurn, GetPendingInput, CInv, ClientControl
<1>5. mailbox' = {} BY <1>4
<1> QED BY <1>1, <1>2, <1>3, <1>5, LiveStep

LEMMA StepClient ==
    ASSUME IInv, CInv, ClientOnly, [Next]_vars
    PROVE  CInv'
<1>1. CASE UNCHANGED vars
  BY <1>1 DEF vars, taskVars, procVars, ghostVars, CInv, ClientControl, SlotInv, ReportInv, Live
<1>2. CASE ClientOp BY <1>2, ClientOpClient
<1>3. ASSUME NEW p \in Procs, SharedStep(p) PROVE CInv'
  <2>1. CASE p = Loop
    BY <1>3, <2>1, AbortClient, StartClient
       DEF SharedStep, AdmitDeclined, AdmitStarted, WakeReserve, WakeDrain, WakeExtend, CInv,
           ClientControl
  <2>2. CASE p \in Turns
    <3>1. pc[p] \in {"unborn", "done", "wake"} \cup RunPcs \cup FinishPcs
      BY <2>2 DEF CInv, ClientControl
    <3>2. WakeCheck(p)
      BY <1>3, <3>1 DEF RunPcs, FinishPcs, SharedStep, AdmitDeclined, AdmitStarted, TakeActive,
         AbortJoin, AbortReport, WakeReserve, WakeDrain, WakeExtend, StartDrain, StartAttach,
         StartInstall
    <3> QED BY <2>2, <3>2, FinishClient
  <2>3. CASE p \in {Guardian, Realtime}
    <3>1. pc[p] = "idle" BY <2>3 DEF CInv, ClientControl
    <3> QED
      BY <1>3, <3>1 DEF SharedStep, AdmitDeclined, AdmitStarted, TakeActive,
         AbortJoin, AbortReport, WakeCheck, WakeReserve, WakeDrain, WakeExtend, StartDrain,
         StartAttach, StartInstall
  <2> QED BY <2>1, <2>2, <2>3 DEF Procs, Clients
<1>4. ASSUME NEW t \in Turns, TurnStep(t) PROVE CInv'
  BY <1>4, RunClient, FinishClient DEF TurnStep
<1> QED BY <1>1, <1>2, <1>3, <1>4 DEF Next

LEMMA InitClient == Init => CInv
BY ProcFacts
   DEF Init, CInv, ClientControl, SlotInv, ReportInv, Live, RunPcs, NoActive

LEMMA ClientInvariance ==
    ASSUME ClientOnly
    PROVE  Spec => [](IInv /\ CInv)
<1>1. Init => IInv /\ CInv BY InitHolds, InitClient
<1>2. IInv /\ CInv /\ [Next]_vars => (IInv /\ CInv)' BY StepKeeps, StepClient
<1> QED BY <1>1, <1>2, PTL DEF Spec

\* start_task finds the slot it fills without a task (its two debug assertions), for any
\* number of inputs, interrupts, compactions and shutdowns of the submission loop.  With
\* mail this fails: see the run wake_races_spawn.
THEOREM SlotIsFree ==
    ASSUME ClientOnly
    PROVE  Spec => []TaskSlotFree
<1>1. CInv => TaskSlotFree
  <2> SUFFICES ASSUME CInv, NEW p \in Procs, pc[p] \in {"attach", "install"}
               PROVE  active.task = None
    BY DEF TaskSlotFree
  <2>1. p = Loop BY DEF CInv, ClientControl, Procs, Clients, RunPcs, FinishPcs
  <2> QED BY <2>1 DEF CInv, SlotInv
<1> QED BY <1>1, ClientInvariance, PTL

\* Every turn is reported to the client once, as completed or as aborted, however the
\* abort and the turn's own end race.
THEOREM ReportedOnce ==
    ASSUME ClientOnly
    PROVE  Spec => []TerminalOnce
<1>1. CInv => TerminalOnce
  <2> SUFFICES ASSUME CInv, NEW t \in Turns
               PROVE  /\ Len(events[t]) <= 1
                      /\ pc[t] = "done" => events[t] # <<>> \/ \E p \in Procs : victim[p] = t
    BY DEF TerminalOnce
  <2>1. events[t] = <<>> \/ (Len(events[t]) = 1 /\ victim[Loop] # t)
    BY DEF CInv, ClientControl, ReportInv, Live, FinishPcs
  <2>2. events[t] = <<>> => Len(events[t]) = 0 OBVIOUS
  <2>3. pc[t] = "done" /\ events[t] = <<>> => victim[Loop] = t
    <3> SUFFICES ASSUME pc[t] = "done", events[t] = <<>>, victim[Loop] # t PROVE FALSE
      OBVIOUS
    <3>1. Len(events[t]) = 1 BY DEF CInv, ReportInv
    <3> QED BY <2>2, <3>1
  <2>4. Len(events[t]) <= 1
    <3>1. PICK n \in {Len(events[t])} : TRUE OBVIOUS
    <3>2. n = 0 \/ n = 1 BY <2>1, <2>2, <3>1
    <3>3. n <= 1 BY <3>2
    <3> QED BY <3>1, <3>3
  <2>5. pc[t] = "done" => events[t] # <<>> \/ \E p \in Procs : victim[p] = t BY <2>3, ProcFacts
  <2> QED BY <2>4, <2>5
<1> QED BY <1>1, ClientInvariance, PTL

\* A running task is in the slot or in the hands of the loop that aborts it: an interrupt
\* reaches it.
THEOREM AlwaysInterruptible ==
    ASSUME ClientOnly
    PROVE  Spec => []Interruptible
<1>1. CInv => Interruptible BY ProcFacts DEF CInv, SlotInv, Live, Interruptible
<1> QED BY <1>1, ClientInvariance, PTL

-----------------------------------------------------------------------------
(* No input of the client is lost, in a session without injected items.     *)
(* (An item injected after FinReport and before FinClear is not looked at   *)
(* again.)  Where the input is, and who holds which TurnState, is what      *)
(* NoSilentLoss leaves open and its proof needs.                            *)

\* The turn has taken its ActiveTurn and not yet cleared the slot.
Ending(t) == pc[t] \in {"finReport", "finClear"}

\* Items are in hand only between the drain and its record, and a turn has no input of its
\* own before it is created and after it began.
PlacesInv ==
    /\ \A p \in Procs : hand[p] # {} => p \in Turns /\ pc[p] = "turnRecord"
    /\ \A t \in Turns : pc[t] \notin {"unborn", "begin"} => input[t] = {}
    /\ \A t \in Turns : kind[t] = "Compact" \/ t >= nextTurn => input[t] = {}

\* A TurnState in the slot is that of the task beside it, that of the task being started,
\* or that of a turn which is ending and still empties it or has.
StatesInv ==
    /\ active.st < nextState /\ \A p \in Procs : held[p] < nextState
    /\ pc[Loop] \in {"await", "report", "drain", "attach"} => active.st = None
    /\ pc[Loop] \in StartPcs => starting[Loop] # None
    /\ active.st # None /\ (active.task # None \/ pc[Loop] = "install") =>
            \A t \in Turns : Ending(t) => held[t] # active.st
    /\ active.st # None /\ active.task = None /\ pc[Loop] # "install" =>
            \E t \in Turns : Ending(t) /\ held[t] = active.st
    /\ \A t \in Turns : pc[t] = "finClear" => held[t] \in StateIds /\ pending[held[t]] = {}

DInv == PlacesInv /\ StatesInv

Settled(i) == recorded[i] > 0 \/ i \in discarded

Kept(i) ==
    \/ Settled(i) \/ i \in mailbox
    \/ \E t \in Turns : i \in input[t] /\ pc[t] # "done"
    \/ \E p \in Procs : i \in hand[p] /\ pc[p] # "done"
    \/ active.st # None /\ i \in pending[active.st]
    \/ \E p \in Procs : pc[p] \in {"await", "report", "finReport"} /\ i \in pending[held[p]]

AllKept == \A i \in sent : Kept(i)

\* What the proofs below use of the types.
LEMMA ClientTypes ==
    ASSUME IInv
    PROVE  /\ pc \in [Procs -> PcValues] /\ victim \in [Procs -> Turns \cup {None}]
           /\ starting \in [Procs -> Turns \cup {None}] /\ held \in [Procs -> StateIds \cup {None}]
           /\ hand \in [Procs -> SUBSET Items] /\ input \in [Turns -> SUBSET Items]
           /\ pending \in [StateIds -> SUBSET Items] /\ recorded \in [Items -> Nat]
           /\ kind \in [Turns -> {"Regular", "Compact"}] /\ sent \subseteq Items
           /\ active.st \in StateIds \cup {None} /\ active.task \in Turns \cup {None}
           /\ active.st = None => active.task = None
           /\ active = [st |-> active.st, task |-> active.task]
           /\ nextState \in Nat /\ nextState > 0 /\ nextTurn \in Nat /\ nextTurn > 0
           /\ None = 0 /\ StateIds \subseteq Nat /\ Turns \subseteq Nat
           /\ None \notin StateIds /\ None \notin Turns
           /\ Loop \in Procs /\ Loop \notin Turns /\ Turns \subseteq Procs
           /\ Return(Loop) \in {"idle", "exited"} /\ \A t \in Turns : Return(t) = "done"
<1>1. Return(Loop) \in {"idle", "exited"} /\ \A t \in Turns : Return(t) = "done"
  BY ProcFacts DEF Return
<1>2. active = [st |-> active.st, task |-> active.task] BY DEF IInv, TypeOK, SlotOK
<1>3. nextState \in Nat /\ nextState > 0 /\ nextTurn \in Nat /\ nextTurn > 0
  BY SessionAssumption DEF IInv, TypeOK, SlotOK, TaskOK, SessionAssumption
<1> QED BY <1>1, <1>2, <1>3, ProcFacts
        DEF IInv, TypeOK, SlotOK, TaskOK, TurnStateOK, ProcOK, HistoryOK, None

\* A step that leaves the slot and the turns that are ending alone.
LEMMA StatesQuiet ==
    ASSUME IInv, StatesInv, active' = active, nextState' = nextState,
           \A s \in StateIds : pending'[s] \subseteq pending[s],
           pc'[Loop] \in {"await", "report", "drain", "attach"} => active.st = None,
           pc'[Loop] = "install" <=> pc[Loop] = "install",
           pc'[Loop] \in StartPcs => starting'[Loop] # None,
           \A t \in Turns : Ending(t)' <=> Ending(t),
           \A t \in Turns : Ending(t) => pc'[t] = pc[t] /\ held'[t] = held[t],
           \A p \in Procs : held'[p] \in {held[p], None}
    PROVE  StatesInv'
<1>1. active'.st < nextState' /\ \A p \in Procs : held'[p] < nextState'
  BY ClientTypes DEF StatesInv
<1>2. active.st # None /\ (active.task # None \/ pc'[Loop] = "install") =>
          \A t \in Turns : Ending(t)' => held'[t] # active.st
  BY DEF StatesInv
<1>3. active.st # None /\ active.task = None /\ pc'[Loop] # "install" =>
          \E t \in Turns : Ending(t)' /\ held'[t] = active.st
  BY DEF StatesInv
<1>4. \A t \in Turns : pc'[t] = "finClear" => held'[t] \in StateIds /\ pending'[held'[t]] = {}
  <2> SUFFICES ASSUME NEW t \in Turns, pc'[t] = "finClear"
               PROVE  held'[t] \in StateIds /\ pending'[held'[t]] = {}
    OBVIOUS
  <2>1. pc[t] = "finClear" /\ held'[t] = held[t] BY DEF Ending
  <2> QED BY <2>1 DEF StatesInv
<1> QED BY <1>1, <1>2, <1>3, <1>4 DEF StatesInv

\* run_hooks_and_record_inputs settles every item it is given.
LEMMA RecordSettles ==
    ASSUME IInv, NEW S, NEW blocked, RecordAccepted(S, blocked), NEW i \in Items,
           Settled(i) \/ i \in S
    PROVE  Settled(i)'
<1>1. recorded[i] \in Nat /\ recorded'[i] = IF i \in S \ blocked THEN recorded[i] + 1 ELSE recorded[i]
  BY ClientTypes DEF RecordAccepted, Record
<1>2. discarded' = discarded \cup blocked BY DEF RecordAccepted
<1> QED BY <1>1, <1>2 DEF Settled

\* An item is kept if every place it can be in keeps it or settles it.
LEMMA KeptBy ==
    ASSUME NEW i \in Items, Kept(i), Settled(i) => Settled(i)', i \in mailbox => i \in mailbox',
           \A t \in Turns : i \in input[t] /\ pc[t] # "done"
                            => Settled(i)' \/ (i \in input'[t] /\ pc'[t] # "done"),
           \A p \in Procs : i \in hand[p] /\ pc[p] # "done"
                            => Settled(i)' \/ (i \in hand'[p] /\ pc'[p] # "done"),
           active.st # None /\ i \in pending[active.st] => Kept(i)',
           \A p \in Procs : pc[p] \in {"await", "report", "finReport"} /\ i \in pending[held[p]]
                            => Settled(i)' \/ (/\ pc'[p] \in {"await", "report", "finReport"}
                                               /\ i \in pending'[held'[p]])
    PROVE  Kept(i)'
BY DEF Kept

\* A step that moves no item and leaves the slot and the holders of a TurnState alone.
LEMMA NothingMoves ==
    ASSUME AllKept, sent' = sent, active' = active, sent \subseteq Items,
           UNCHANGED <<pending, mailbox, input, hand, recorded, discarded>>,
           \A p \in Procs : pc[p] # "done" => pc'[p] # "done" \/ (hand[p] = {} /\ (p \in Turns => input[p] = {})),
           \A p \in Procs : pc[p] \in {"await", "report", "finReport"} =>
                pc'[p] \in {"await", "report", "finReport"} /\ held'[p] = held[p],
           Turns \subseteq Procs
    PROVE  AllKept'
<1> SUFFICES ASSUME NEW i \in sent PROVE Kept(i)' BY DEF AllKept
<1>1. Kept(i) BY DEF AllKept
<1>2. (Settled(i) <=> Settled(i)') /\ (i \in pending[active.st] <=> i \in pending'[active'.st])
  BY DEF Settled
<1>3. active.st # None /\ i \in pending[active.st] => Kept(i)' BY <1>2 DEF Kept
<1> QED BY <1>1, <1>2, <1>3, KeptBy

\* A client operation adds its input to the TurnState of the running task, refuses it, or
\* makes a turn for it.
LEMMA ClientOpKept ==
    ASSUME IInv, CInv, DInv, AllKept, ClientOnly, Injects = {}, ClientOp
    PROVE  DInv' /\ AllKept'
<1>0. pc \in [Procs -> PcValues] /\ Loop \in Procs /\ Loop \notin Turns /\ Turns \subseteq Procs
      /\ starting \in [Procs -> Turns \cup {None}] /\ pending \in [StateIds -> SUBSET Items]
      /\ input \in [Turns -> SUBSET Items] /\ kind \in [Turns -> {"Regular", "Compact"}]
      /\ sent \subseteq Items
  BY ClientTypes
<1>1. CASE Interrupt \/ Shutdown
  <2>1. /\ pc[Loop] = "idle" /\ \A q \in Procs : pc'[q] = IF q = Loop THEN "take" ELSE pc[q]
        /\ UNCHANGED <<active, pending, nextState, mailbox, starting, held, hand, input, kind,
                       nextTurn, recorded, discarded, sent>>
    BY <1>0, <1>1 DEF Interrupt, Shutdown, procVars, taskVars, ghostVars, stateVars
  <2>2. \A t \in Turns : pc'[t] = pc[t] BY <1>0, <2>1
  <2>3. \A t \in Turns : Ending(t)' <=> Ending(t) BY <2>2 DEF Ending
  <2>4. StatesInv' BY <1>0, <2>1, <2>2, <2>3, StatesQuiet DEF DInv, StartPcs
  <2>5. PlacesInv' BY <1>0, <2>1 DEF DInv, PlacesInv
  <2>6. AllKept' BY <1>0, <2>1, NothingMoves
  <2> QED BY <2>4, <2>5, <2>6 DEF DInv
<1>2. ASSUME NEW i \in Inputs, SteerInput(Loop, i) PROVE DInv' /\ AllKept'
  <2>1. /\ pc[Loop] = "idle" /\ active.task # None /\ active.st \in StateIds /\ sent' = sent \cup {i}
        /\ UNCHANGED <<active, nextState, mailbox, pc, starting, held, hand, input, kind,
                       nextTurn, recorded, discarded>>
        /\ \A s \in StateIds : pending'[s] = IF s = active.st THEN pending[s] \cup {i} ELSE pending[s]
    BY <1>2, ClientTypes DEF SteerInput, Submits, ExtendAndAccept, procVars, taskVars
  <2>2. \A t \in Turns : pc[t] = "finClear" => held[t] # active.st
    BY <2>1, ClientTypes DEF DInv, StatesInv, Ending
  <2>3. StatesInv'
    <3>1. \A t \in Turns : pc[t] = "finClear" => held[t] \in StateIds /\ pending'[held[t]] = {}
      BY <2>1, <2>2 DEF DInv, StatesInv
    <3> QED BY <2>1, <3>1 DEF DInv, StatesInv, Ending
  <2>4. PlacesInv' BY <2>1 DEF DInv, PlacesInv
  <2>5. AllKept'
    <3> SUFFICES ASSUME NEW j \in sent' PROVE Kept(j)' BY DEF AllKept
    <3>1. active.st # None /\ \A s \in StateIds : pending[s] \subseteq pending'[s]
      BY <2>1, ClientTypes
    <3>2. CASE j = i
      <4>1. i \in pending'[active'.st] /\ active'.st # None BY <2>1, ClientTypes
      <4> QED BY <3>2, <4>1 DEF Kept
    <3>3. CASE j \in sent
      <4>1. Kept(j) /\ (Settled(j) <=> Settled(j)') BY <2>1, <3>3 DEF AllKept, Settled
      <4>2. active.st # None /\ j \in pending[active.st] => Kept(j)' BY <2>1, <3>1 DEF Kept
      <4>3. \A p \in Procs : pc[p] \in {"await", "report", "finReport"} => held[p] \in StateIds
        BY DEF IInv, Control, HoldingPcs
      <4> QED BY <1>0, <2>1, <3>1, <3>3, <4>1, <4>2, <4>3, KeptBy
    <3> QED BY <2>1, <3>2, <3>3
  <2> QED BY <2>3, <2>4, <2>5 DEF DInv
<1>3. ASSUME NEW i \in Inputs, DeclineInput(Loop, i) PROVE DInv' /\ AllKept'
  <2>1. /\ discarded' = discarded \cup {i} /\ sent' = sent \cup {i}
        /\ UNCHANGED <<active, pending, nextState, mailbox, pc, starting, held, hand, input, kind,
                       nextTurn, recorded>>
    BY <1>3 DEF DeclineInput, Submits, stateVars, procVars, taskVars
  <2>2. DInv' BY <2>1 DEF DInv, PlacesInv, StatesInv, Ending
  <2>3. AllKept'
    <3> SUFFICES ASSUME NEW j \in sent' PROVE Kept(j)' BY DEF AllKept
    <3>1. CASE j = i BY <2>1, <3>1 DEF Kept, Settled
    <3>2. CASE j \in sent
      <4>1. Kept(j) /\ (Settled(j) => Settled(j)') BY <2>1, <3>2 DEF AllKept, Settled
      <4> QED BY <2>1, <4>1 DEF Kept
    <3> QED BY <2>1, <3>1, <3>2
  <2> QED BY <2>2, <2>3
<1>4. ASSUME NEW k \in {"Regular", "Compact"}, NEW S \in SUBSET Inputs, NewTurn(Loop, k, S),
             k = "Compact" => S = {}, pc[Loop] = "idle", pc' = [pc EXCEPT ![Loop] = "take"],
             sent' = sent \cup S,
             UNCHANGED <<active, pending, nextState, mailbox, held, hand, recorded, discarded>>
      PROVE  DInv' /\ AllKept'
  <2>1. nextTurn \in Turns /\ nextTurn' = nextTurn + 1
    BY <1>4, ClientTypes DEF NewTurn, Turns
  <2>2. /\ \A q \in Procs : pc'[q] = IF q = Loop THEN "take" ELSE pc[q]
        /\ \A t \in Turns : input'[t] = IF t = nextTurn THEN S ELSE input[t]
        /\ \A t \in Turns : kind'[t] = IF t = nextTurn THEN k ELSE kind[t]
    BY <1>0, <1>4 DEF NewTurn
  <2>3. pc[nextTurn] = "unborn" /\ input[nextTurn] = {}
    BY <2>1, ClientTypes DEF IInv, Birth, DInv, PlacesInv
  <2>4. \A t \in Turns : pc'[t] = pc[t] BY <1>0, <2>2
  <2>5. \A t \in Turns : Ending(t)' <=> Ending(t) BY <2>4 DEF Ending
  <2>6. StatesInv' BY <1>0, <1>4, <2>2, <2>4, <2>5, StatesQuiet DEF DInv, StartPcs
  <2>7. PlacesInv'
    <3>1. \A p \in Procs : hand'[p] # {} => p \in Turns /\ pc'[p] = "turnRecord"
      BY <1>0, <1>4, <2>2 DEF DInv, PlacesInv
    <3>2. \A t \in Turns : pc'[t] \notin {"unborn", "begin"} => input'[t] = {}
      BY <2>2, <2>3, <2>4 DEF DInv, PlacesInv
    <3>3. \A t \in Turns : kind'[t] = "Compact" \/ t >= nextTurn' => input'[t] = {}
      BY <1>4, <2>1, <2>2, ClientTypes DEF DInv, PlacesInv
    <3> QED BY <3>1, <3>2, <3>3 DEF PlacesInv
  <2>8. AllKept'
    <3> SUFFICES ASSUME NEW j \in sent' PROVE Kept(j)' BY DEF AllKept
    <3>1. CASE j \in S
      <4>1. j \in input'[nextTurn] /\ pc'[nextTurn] # "done" BY <2>1, <2>2, <2>3, <2>4, <3>1
      <4> QED BY <2>1, <4>1 DEF Kept
    <3>2. CASE j \in sent
      <4>1. Kept(j) /\ (Settled(j) <=> Settled(j)') BY <1>4, <3>2 DEF AllKept, Settled
      <4>2. active.st # None /\ j \in pending[active.st] => Kept(j)' BY <1>4 DEF Kept
      <4>3. \A t \in Turns : input[t] \subseteq input'[t] BY <2>2, <2>3
      <4> QED BY <1>0, <1>4, <2>2, <2>4, <3>2, <4>1, <4>2, <4>3, KeptBy
    <3> QED BY <1>4, <3>1, <3>2
  <2> QED BY <2>6, <2>7, <2>8 DEF DInv
<1>5. ASSUME NEW i \in Inputs, SpawnForInput(Loop, i) PROVE DInv' /\ AllKept'
  BY <1>4, <1>5 DEF SpawnForInput, Submits, stateVars
<1>6. CASE Compact
  <2>1. sent' = sent \cup {} BY <1>6 DEF Compact, ghostVars
  <2> QED BY <1>4, <1>6, <2>1 DEF Compact, stateVars, ghostVars
<1>7. ~ \E t \in Turns : GuardianAbort(t)
  BY SessionAssumption DEF GuardianAbort, ClientOnly, IInv, TypeOK, HistoryOK, SessionAssumption
<1>8. ASSUME NEW p \in {Loop, Realtime}, NEW i \in Inputs,
             SteerInput(p, i) \/ DeclineInput(p, i) \/ SpawnForInput(p, i)
      PROVE  p = Loop
  BY <1>8 DEF SteerInput, DeclineInput, SpawnForInput, Submits, ClientOnly
<1> QED BY <1>1, <1>2, <1>3, <1>5, <1>6, <1>7, <1>8 DEF ClientOp, ClientOnly

\* The loop takes the slot.  One without a task is that of a turn which is ending, and
\* which records what the TurnState holds, or has.
LEMMA TakeKept ==
    ASSUME IInv, CInv, DInv, AllKept, TakeActive(Loop)
    PROVE  DInv' /\ AllKept'
<1>0. /\ pc \in [Procs -> PcValues] /\ Loop \in Procs /\ Loop \notin Turns /\ Turns \subseteq Procs
      /\ held \in [Procs -> StateIds \cup {None}] /\ hand \in [Procs -> SUBSET Items]
      /\ starting \in [Procs -> Turns \cup {None}] /\ sent \subseteq Items
      /\ None \notin StateIds
  BY ClientTypes
<1>1. /\ pc[Loop] = "take" /\ active'.st = None /\ active'.task = None
      /\ UNCHANGED <<pending, nextState, mailbox, input, kind, nextTurn, recorded, discarded, sent>>
  BY DEF TakeActive, NoActive, stateVars, ghostVars
<1>2. hand[Loop] = {} BY <1>0, <1>1 DEF DInv, PlacesInv
<1>3. PICK x \in {"await", "drain", "idle", "exited"} :
         /\ \A q \in Procs : pc'[q] = IF q = Loop THEN x ELSE pc[q]
         /\ x = "await" <=> active.task # None
  BY <1>0, LoopReturn DEF TakeActive, Leave
<1>4. /\ \A p \in Procs : p # Loop => held'[p] = held[p] /\ starting'[p] = starting[p]
      /\ hand' = hand
      /\ held'[Loop] \in {active.st, None, held[Loop]}
      /\ active.task # None => held'[Loop] = active.st
      /\ x = "drain" => starting'[Loop] # None
  <2>1. CASE active.task # None BY <1>0, <1>3, <2>1 DEF TakeActive
  <2>2. CASE active.task = None /\ starting[Loop] # None
    BY <1>0, <1>3, <2>2 DEF TakeActive, procVars
  <2>3. CASE active.task = None /\ starting[Loop] = None
    <3>1. Leave(Loop) BY <2>3 DEF TakeActive
    <3>2. hand' = hand BY <1>0, <1>2, <3>1 DEF Leave
    <3>3. pc'[Loop] \in {"idle", "exited"} BY <1>0, <3>1, LoopReturn DEF Leave
    <3> QED BY <1>0, <1>3, <2>3, <3>1, <3>2, <3>3 DEF Leave
  <2> QED BY <2>1, <2>2, <2>3
<1>5. \A t \in Turns : pc'[t] = pc[t] /\ held'[t] = held[t] BY <1>0, <1>3, <1>4
<1>6. StatesInv'
  <2>1. active'.st < nextState' /\ \A p \in Procs : held'[p] < nextState'
    BY <1>1, <1>4, ClientTypes DEF DInv, StatesInv
  <2>2. \A t \in Turns : pc'[t] = "finClear" => held'[t] \in StateIds /\ pending'[held'[t]] = {}
    BY <1>1, <1>5 DEF DInv, StatesInv
  <2>3. pc'[Loop] \in StartPcs => starting'[Loop] # None BY <1>0, <1>3, <1>4 DEF StartPcs
  <2> QED BY <1>1, <2>1, <2>2, <2>3 DEF StatesInv
<1>7. PlacesInv' BY <1>0, <1>1, <1>3, <1>4, <1>5 DEF DInv, PlacesInv
<1>8. AllKept'
  <2> SUFFICES ASSUME NEW i \in sent PROVE Kept(i)' BY <1>1 DEF AllKept
  <2>1. Kept(i) /\ (Settled(i) <=> Settled(i)') BY <1>1 DEF AllKept, Settled
  <2>2. active.st # None /\ i \in pending[active.st] => Kept(i)'
    <3> SUFFICES ASSUME active.st # None, i \in pending[active.st] PROVE Kept(i)' OBVIOUS
    <3>1. CASE active.task # None
      <4>1. pc'[Loop] = "await" /\ i \in pending'[held'[Loop]] BY <1>0, <1>1, <1>3, <1>4, <3>1
      <4> QED BY <1>0, <4>1 DEF Kept
    <3>2. CASE active.task = None
      <4>1. PICK t \in Turns : Ending(t) /\ held[t] = active.st
        BY <1>1, <3>2 DEF DInv, StatesInv
      <4>2. pc[t] # "finClear" BY <4>1 DEF DInv, StatesInv
      <4>3. pc'[t] = "finReport" /\ i \in pending'[held'[t]] BY <1>1, <1>5, <4>1, <4>2 DEF Ending
      <4> QED BY <1>0, <4>3 DEF Kept
    <3> QED BY <3>1, <3>2
  <2>3. \A p \in Procs : pc[p] \in {"await", "report", "finReport"} => p # Loop BY <1>1
  <2> QED BY <1>0, <1>1, <1>3, <1>4, <1>5, <2>1, <2>2, <2>3, KeptBy
<1> QED BY <1>6, <1>7, <1>8 DEF DInv

\* The loop makes the task stop and drops what it had, with a report, and then what was in
\* its TurnState.
LEMMA AbortKept ==
    ASSUME IInv, CInv, DInv, AllKept, AbortJoin(Loop) \/ AbortReport(Loop)
    PROVE  DInv' /\ AllKept'
<1>0. /\ pc \in [Procs -> PcValues] /\ Loop \in Procs /\ Loop \notin Turns /\ Turns \subseteq Procs
      /\ held \in [Procs -> StateIds \cup {None}] /\ hand \in [Procs -> SUBSET Items]
      /\ starting \in [Procs -> Turns \cup {None}] /\ sent \subseteq Items
      /\ input \in [Turns -> SUBSET Items] /\ pending \in [StateIds -> SUBSET Items]
      /\ victim \in [Procs -> Turns \cup {None}] /\ None \notin StateIds
  BY ClientTypes
<1>1. CASE AbortJoin(Loop)
  <2>1. PICK t \in Turns : t = victim[Loop] BY <1>0, <1>1 DEF AbortJoin, IInv, Control
  <2>2. /\ pc[Loop] = "await"
        /\ UNCHANGED <<active, pending, nextState, mailbox, kind, nextTurn, recorded, sent>>
        /\ \A q \in Procs : pc'[q] = IF q = Loop THEN "report" ELSE IF q = t THEN "done" ELSE pc[q]
        /\ \A q \in Procs : starting'[q] = IF q = t THEN None ELSE starting[q]
        /\ \A q \in Procs : held'[q] = IF q = t THEN None ELSE held[q]
        /\ \A q \in Procs : hand'[q] = IF q = t THEN {} ELSE hand[q]
        /\ \A u \in Turns : input'[u] = IF u = t THEN {} ELSE input[u]
        /\ discarded' = discarded \cup input[t] \cup hand[t]
    BY <1>0, <1>1, <2>1 DEF AbortJoin, stateVars
  <2>3. ~Ending(t) /\ ~Ending(t)' BY <1>0, <2>1, <2>2 DEF CInv, SlotInv, Live, RunPcs, Ending
  <2>4. \A u \in Turns : u # t => pc'[u] = pc[u] /\ held'[u] = held[u] BY <1>0, <2>2
  <2>5. \A u \in Turns : Ending(u)' <=> Ending(u) BY <2>3, <2>4 DEF Ending
  <2>6. StatesInv'
    <3>1. active.st = None BY <2>2 DEF DInv, StatesInv
    <3>2. \A u \in Turns : Ending(u) => pc'[u] = pc[u] /\ held'[u] = held[u] BY <2>3, <2>4
    <3> QED BY <1>0, <2>2, <2>5, <3>1, <3>2, StatesQuiet DEF DInv, StartPcs
  <2>7. PlacesInv'
    <3>1. hand[Loop] = {} BY <1>0 DEF DInv, PlacesInv
    <3> QED BY <1>0, <2>2, <3>1 DEF DInv, PlacesInv
  <2>8. AllKept'
    <3> SUFFICES ASSUME NEW i \in sent PROVE Kept(i)' BY <2>2 DEF AllKept
    <3>1. Kept(i) /\ (Settled(i) => Settled(i)') BY <2>2 DEF AllKept, Settled
    <3>2. active.st # None /\ i \in pending[active.st] => Kept(i)' BY <2>2 DEF Kept
    <3>3. i \in input[t] \/ i \in hand[t] => Settled(i)' BY <2>2 DEF Settled
    <3>4. \A p \in Procs : pc[p] \in {"await", "report", "finReport"} => p # t
      BY <1>0, <2>1, <2>3 DEF Ending, CInv, SlotInv, Live, RunPcs
    <3>5. \A p \in Procs : pc[p] \in {"await", "report", "finReport"} =>
              pc'[p] \in {"await", "report", "finReport"} /\ held'[p] = held[p]
      BY <2>2, <3>4
    <3> QED BY <1>0, <2>2, <3>1, <3>2, <3>3, <3>5, KeptBy
  <2> QED BY <2>6, <2>7, <2>8 DEF DInv
<1>2. CASE AbortReport(Loop)
  <2>1. PICK s \in StateIds : s = held[Loop]
    BY <1>0, <1>2 DEF AbortReport, IInv, Control, HoldingPcs
  <2>2. PICK x \in {"drain", "wake"} :
        /\ \A q \in Procs : pc'[q] = IF q = Loop THEN x ELSE pc[q]
        /\ x = "drain" => starting[Loop] # None
    BY <1>0, <1>2 DEF AbortReport
  <2>3. /\ pc[Loop] = "report"
        /\ UNCHANGED <<active, nextState, mailbox, kind, input, nextTurn, starting, hand, recorded, sent>>
        /\ \A q \in Procs : held'[q] = IF q = Loop THEN None ELSE held[q]
        /\ \A r \in StateIds : pending'[r] = IF r = s THEN {} ELSE pending[r]
        /\ discarded' = discarded \cup pending[s]
    BY <1>0, <1>2, <2>1 DEF AbortReport, taskVars
  <2>4. \A u \in Turns : pc'[u] = pc[u] /\ held'[u] = held[u] BY <1>0, <2>2, <2>3
  <2>5. \A u \in Turns : Ending(u)' <=> Ending(u) BY <2>4 DEF Ending
  <2>6. StatesInv'
    <3>1. active.st = None BY <2>3 DEF DInv, StatesInv
    <3> QED BY <1>0, <2>2, <2>3, <2>4, <2>5, <3>1, StatesQuiet DEF DInv, StartPcs
  <2>7. PlacesInv' BY <1>0, <2>2, <2>3, <2>4 DEF DInv, PlacesInv
  <2>8. AllKept'
    <3> SUFFICES ASSUME NEW i \in sent PROVE Kept(i)' BY <2>3 DEF AllKept
    <3>1. Kept(i) /\ (Settled(i) => Settled(i)') BY <2>3 DEF AllKept, Settled
    <3>2. i \in pending[s] => Settled(i)' BY <2>3 DEF Settled
    <3>3. active.st = None BY <2>3 DEF DInv, StatesInv
    <3>4. \A p \in Procs : pc[p] \in {"await", "report", "finReport"} => held[p] \in StateIds
      BY DEF IInv, Control, HoldingPcs
    <3>5. \A p \in Procs : pc[p] \in {"await", "report", "finReport"} /\ i \in pending[held[p]]
             => Settled(i)' \/ (/\ pc'[p] \in {"await", "report", "finReport"}
                                /\ i \in pending'[held'[p]])
      <4> SUFFICES ASSUME NEW p \in Procs, pc[p] \in {"await", "report", "finReport"},
                          i \in pending[held[p]], ~Settled(i)'
                   PROVE  /\ pc'[p] \in {"await", "report", "finReport"} 
                          /\ i \in pending'[held'[p]]
        OBVIOUS
      <4>1. held[p] \in StateIds /\ held[p] # s BY <3>2, <3>4
      <4>2. p # Loop BY <2>1, <4>1
      <4> QED BY <2>2, <2>3, <4>1, <4>2
    <3> QED BY <1>0, <2>2, <2>3, <2>4, <3>1, <3>3, <3>5, KeptBy
  <2> QED BY <2>6, <2>7, <2>8 DEF DInv
<1> QED BY <1>1, <1>2

\* The loop starts a task.
LEMMA StartKept ==
    ASSUME IInv, CInv, DInv, AllKept,
           StartDrain(Loop) \/ StartAttach(Loop) \/ StartInstall(Loop) \/ WakeCheck(Loop)
    PROVE  DInv' /\ AllKept'
<1>0. /\ pc \in [Procs -> PcValues] /\ Loop \in Procs /\ Loop \notin Turns /\ Turns \subseteq Procs
      /\ held \in [Procs -> StateIds \cup {None}] /\ hand \in [Procs -> SUBSET Items]
      /\ starting \in [Procs -> Turns \cup {None}] /\ sent \subseteq Items
      /\ input \in [Turns -> SUBSET Items] /\ pending \in [StateIds -> SUBSET Items]
      /\ None \notin StateIds /\ None \notin Turns
      /\ active = [st |-> active.st, task |-> active.task] /\ active.st \in StateIds \cup {None}
  BY ClientTypes
<1>1. mailbox = {} /\ hand[Loop] = {} BY <1>0 DEF CInv, ClientControl, DInv, PlacesInv
<1>2. CASE StartDrain(Loop) \/ WakeCheck(Loop)
  <2>1. PICK x \in {"attach", "idle", "exited"} :
        /\ \A q \in Procs : pc'[q] = IF q = Loop THEN x ELSE pc[q]
        /\ x = "attach" => pc[Loop] = "drain" /\ starting' = starting
    BY <1>0, <1>1, <1>2, LoopReturn DEF StartDrain, WakeCheck, PendingWork, Leave
  <2>2. /\ UNCHANGED <<active, pending, nextState, mailbox, kind, input, nextTurn, recorded,
                       discarded, sent>>
        /\ hand' = hand
        /\ \A q \in Procs : held'[q] = held[q] \/ (q = Loop /\ held'[q] = None)
        /\ pc[Loop] \in {"drain", "wake"}
    <3>1. CASE StartDrain(Loop)
      BY <1>0, <1>1, <3>1 DEF StartDrain, stateVars, taskVars, ghostVars
    <3>2. CASE WakeCheck(Loop)
      <4>1. Leave(Loop) BY <1>1, <3>2 DEF WakeCheck, PendingWork
      <4> QED BY <1>0, <1>1, <3>2, <4>1 DEF WakeCheck, Leave, stateVars, taskVars, ghostVars
    <3> QED BY <1>2, <3>1, <3>2
  <2>3. \A u \in Turns : pc'[u] = pc[u] /\ held'[u] = held[u] BY <1>0, <2>1, <2>2
  <2>4. \A u \in Turns : Ending(u)' <=> Ending(u) BY <2>3 DEF Ending
  <2>5. StatesInv'
    <3>1. x = "attach" => active.st = None /\ starting'[Loop] # None
      BY <2>1 DEF DInv, StatesInv, StartPcs
    <3> QED BY <1>0, <2>1, <2>2, <2>3, <2>4, <3>1, StatesQuiet DEF DInv, StartPcs
  <2>6. PlacesInv' BY <1>0, <2>1, <2>2, <2>3 DEF DInv, PlacesInv
  <2>7. AllKept' BY <1>0, <2>1, <2>2, NothingMoves
  <2> QED BY <2>5, <2>6, <2>7 DEF DInv
<1>3. CASE StartAttach(Loop)
  <2>1. pc[Loop] = "attach" /\ active.st = None /\ active.task = None
    BY <1>3 DEF StartAttach, DInv, StatesInv, CInv, SlotInv
  <2>2. PICK s \in StateIds : /\ s = nextState /\ nextState' = nextState + 1
                              /\ active'.st = s /\ active'.task = None /\ pending' = pending
    BY <1>0, <1>1, <1>3, <2>1 DEF StartAttach, GetOrInsert
  <2>3. /\ \A q \in Procs : pc'[q] = IF q = Loop THEN "install" ELSE pc[q]
        /\ hand' = hand
        /\ UNCHANGED <<mailbox, kind, input, nextTurn, starting, held, recorded, discarded, sent>>
    BY <1>0, <1>1, <1>3 DEF StartAttach, taskVars, ghostVars
  <2>4. \A u \in Turns : pc'[u] = pc[u] BY <1>0, <2>3
  <2>5. StatesInv'
    <3>1. active'.st < nextState' /\ \A p \in Procs : held'[p] < nextState' /\ held[p] # s
      BY <2>2, <2>3, ClientTypes DEF DInv, StatesInv
    <3>2. pc'[Loop] = "install" /\ starting'[Loop] # None
      BY <1>0, <2>1, <2>3 DEF DInv, StatesInv, StartPcs
    <3>3. \A t \in Turns : pc'[t] = "finClear" => held'[t] \in StateIds /\ pending'[held'[t]] = {}
      BY <2>2, <2>3, <2>4 DEF DInv, StatesInv
    <3> QED BY <1>0, <2>2, <2>3, <3>1, <3>2, <3>3 DEF StatesInv
  <2>6. PlacesInv' BY <1>0, <1>1, <2>3, <2>4 DEF DInv, PlacesInv
  <2>7. AllKept'
    <3> SUFFICES ASSUME NEW i \in sent PROVE Kept(i)' BY <2>3 DEF AllKept
    <3>1. Kept(i) /\ (Settled(i) <=> Settled(i)') BY <2>3 DEF AllKept, Settled
    <3> QED BY <1>0, <2>1, <2>2, <2>3, <3>1, KeptBy
  <2> QED BY <2>5, <2>6, <2>7 DEF DInv
<1>4. CASE StartInstall(Loop)
  <2>1. pc[Loop] = "install" /\ active.task = None
    BY <1>4 DEF StartInstall, CInv, SlotInv
  <2>2. PICK t \in Turns : t = starting[Loop] BY <1>0, <2>1 DEF DInv, StatesInv, StartPcs
  <2>3. PICK x \in {"idle", "exited"} :
          \A q \in Procs : pc'[q] = IF q = t THEN "begin" ELSE IF q = Loop THEN x ELSE pc[q]
    BY <1>0, <1>4, <2>1, <2>2, LoopReturn, ProcFacts DEF StartInstall
  <2>4. PICK s \in StateIds :
           /\ s = IF active.st = None THEN nextState ELSE active.st
           /\ nextState' = IF active.st = None THEN nextState + 1 ELSE nextState
           /\ active'.st = s /\ active'.task = t
    BY <1>4, <2>2 DEF StartInstall, GetOrInsert
  <2>5. /\ \A q \in Procs : held'[q] = IF q = Loop THEN None ELSE held[q]
        /\ UNCHANGED <<pending, mailbox, kind, input, nextTurn, hand, recorded, discarded, sent>>
    BY <1>0, <1>4 DEF StartInstall, taskVars, ghostVars
  <2>6. pc[t] = "unborn" BY <1>0, <2>2 DEF IInv, Birth
  <2>7. \A u \in Turns : held'[u] = held[u] /\ (Ending(u)' => Ending(u)) /\ (pc'[u] = "finClear" => pc[u] = "finClear")
    BY <1>0, <2>3, <2>5 DEF Ending
  <2>8. StatesInv'
    <3>1. active'.st < nextState' /\ \A p \in Procs : held'[p] < nextState'
      BY <2>4, <2>5, ClientTypes DEF DInv, StatesInv
    <3>2. \A u \in Turns : Ending(u)' => held'[u] # s
      <4>1. CASE active.st = None BY <1>0, <2>4, <2>7, <4>1, ClientTypes DEF DInv, StatesInv
      <4>2. CASE active.st # None BY <2>1, <2>4, <2>7, <4>2 DEF DInv, StatesInv
      <4> QED BY <4>1, <4>2
    <3>3. \A u \in Turns : pc'[u] = "finClear" => held'[u] \in StateIds /\ pending'[held'[u]] = {}
      BY <2>5, <2>7 DEF DInv, StatesInv
    <3>4. pc'[Loop] \in {"idle", "exited"} /\ t # None BY <1>0, <2>2, <2>3
    <3> QED BY <2>4, <3>1, <3>2, <3>3, <3>4 DEF StatesInv, StartPcs
  <2>9. PlacesInv' BY <1>0, <1>1, <2>3, <2>5, <2>6 DEF DInv, PlacesInv
  <2>10. AllKept'
    <3> SUFFICES ASSUME NEW i \in sent PROVE Kept(i)' BY <2>5 DEF AllKept
    <3>1. Kept(i) /\ (Settled(i) <=> Settled(i)') BY <2>5 DEF AllKept, Settled
    <3>2. active.st # None /\ i \in pending[active.st] => Kept(i)' BY <1>0, <2>4, <2>5 DEF Kept
    <3>3. \A p \in Procs : pc[p] \in {"await", "report", "finReport"} =>
            pc'[p] = pc[p] /\ held'[p] = held[p]
      BY <1>0, <2>1, <2>3, <2>5, <2>6
    <3>4. \A p \in Procs : pc[p] # "done" => pc'[p] # "done" BY <2>3
    <3> QED BY <1>0, <2>5, <3>1, <3>2, <3>3, <3>4, KeptBy
  <2> QED BY <2>8, <2>9, <2>10 DEF DInv
<1> QED BY <1>2, <1>3, <1>4

\* A turn begins, drains, records, samples, or looks whether it is cancelled.
LEMMA RunKept ==
    ASSUME IInv, CInv, DInv, AllKept, NEW t \in Turns,
           \/ TurnBegin(t) \/ TurnFailsEarly(t) \/ CompactRuns(t) \/ TurnDrain(t) \/ TurnRecord(t)
           \/ SampleFollowUp(t) \/ SampleFinal(t) \/ SampleError(t) \/ PostCheck(t)
           \/ ObserveCancel(t) \/ HookStopsTurn(t)
    PROVE  DInv' /\ AllKept'
<1>0. /\ pc \in [Procs -> PcValues] /\ Loop \in Procs /\ Loop \notin Turns /\ Turns \subseteq Procs
      /\ hand \in [Procs -> SUBSET Items] /\ t \in Procs /\ Loop # t
      /\ sent \subseteq Items /\ input \in [Turns -> SUBSET Items]
      /\ pending \in [StateIds -> SUBSET Items] /\ None \notin StateIds
      /\ active.st \in StateIds \cup {None}
  BY ClientTypes
<1>1. PICK x \in RunPcs \cup {"finCheck"} : pc' = [pc EXCEPT ![t] = x]
  BY DEF RunPcs, TurnBegin, TurnFailsEarly, CompactRuns, TurnDrain, TurnRecord, SampleFollowUp,
         SampleFinal, SampleError, PostCheck, ObserveCancel, HookStopsTurn
<1>2. \A q \in Procs : pc'[q] = IF q = t THEN x ELSE pc[q] BY <1>0, <1>1
<1>3. /\ pc[t] \in RunPcs /\ UNCHANGED <<active, nextState, starting, held, kind, nextTurn, sent>>
  BY DEF RunPcs, TurnBegin, TurnFailsEarly, CompactRuns, TurnDrain, TurnRecord, SampleFollowUp,
         SampleFinal, SampleError, PostCheck, ObserveCancel, HookStopsTurn, taskVars, procVars, ghostVars, stateVars
<1>4. ~Ending(t) /\ ~Ending(t)' /\ x # "done" BY <1>0, <1>2, <1>3 DEF Ending, RunPcs
<1>5. \A u \in Turns : (Ending(u)' <=> Ending(u)) /\ (Ending(u) => pc'[u] = pc[u])
  BY <1>0, <1>2, <1>4 DEF Ending
<1>6. ASSUME \A s \in StateIds : pending'[s] \subseteq pending[s] PROVE StatesInv'
  <2>1. pc'[Loop] = pc[Loop] BY <1>0, <1>2
  <2> QED BY <1>0, <1>3, <1>5, <1>6, <2>1, StatesQuiet DEF DInv, StatesInv
<1>7. \A p \in Procs : pc[p] \in {"await", "report", "finReport"} =>
          pc'[p] \in {"await", "report", "finReport"} /\ held'[p] = held[p]
  BY <1>2, <1>3 DEF RunPcs
<1>8. pc[t] # "turnRecord" => hand[t] = {} BY <1>0 DEF DInv, PlacesInv
<1>9. CASE \/ TurnBegin(t) \/ TurnFailsEarly(t) \/ CompactRuns(t) \/ ObserveCancel(t)
           \/ HookStopsTurn(t)
  <2>1. /\ \A u \in Turns : input'[u] = IF u = t THEN {} ELSE input[u]
        /\ UNCHANGED <<pending, mailbox, hand>>
    <3>1. CompactRuns(t) => input[t] = {} BY DEF CompactRuns, DInv, PlacesInv
    <3> QED BY <1>0, <1>9, <3>1 DEF TurnBegin, TurnFailsEarly, CompactRuns, ObserveCancel, HookStopsTurn, stateVars,
            procVars, taskVars
  <2>2. pc[t] # "turnRecord"
    BY <1>9 DEF TurnBegin, TurnFailsEarly, CompactRuns, ObserveCancel, HookStopsTurn
  <2>3. PlacesInv' BY <1>0, <1>2, <1>3, <1>8, <2>1, <2>2 DEF DInv, PlacesInv
  <2>4. \A i \in sent : Settled(i) \/ i \in input[t] => Settled(i)'
    <3>1. TurnBegin(t) \/ HookStopsTurn(t) => \E b : RecordAccepted(input[t], b)
      BY DEF TurnBegin, HookStopsTurn
    <3>2. TurnFailsEarly(t) => discarded' = discarded \cup input[t] /\ recorded' = recorded
      BY DEF TurnFailsEarly
    <3>3. CompactRuns(t) => input[t] = {} /\ discarded' = discarded /\ recorded' = recorded
      BY DEF CompactRuns, ghostVars, DInv, PlacesInv
    <3>4. ObserveCancel(t) => \/ \E b : RecordAccepted(input[t], b)
                              \/ discarded' = discarded \cup input[t] /\ recorded' = recorded
      BY DEF ObserveCancel
    <3>5. CASE \E b : RecordAccepted(input[t], b) BY <1>0, <3>5, RecordSettles
    <3>6. CASE discarded' = discarded \cup input[t] /\ recorded' = recorded BY <3>6 DEF Settled
    <3>7. CASE input[t] = {} /\ discarded' = discarded /\ recorded' = recorded BY <3>7 DEF Settled
    <3> QED BY <1>9, <3>1, <3>2, <3>3, <3>4, <3>5, <3>6, <3>7
  <2>5. AllKept'
    <3> SUFFICES ASSUME NEW i \in sent PROVE Kept(i)' BY <1>3 DEF AllKept
    <3>1. Kept(i) /\ (Settled(i) => Settled(i)') /\ (i \in input[t] => Settled(i)')
      BY <2>4 DEF AllKept
    <3>2. active.st # None /\ i \in pending[active.st] => Kept(i)' BY <1>3, <2>1 DEF Kept
    <3> QED BY <1>0, <1>2, <1>4, <1>7, <2>1, <3>1, <3>2, KeptBy
  <2>6. StatesInv' BY <1>6, <2>1
  <2> QED BY <2>3, <2>5, <2>6 DEF DInv
<1>10. CASE TurnDrain(t)
  <2>1. /\ pc[t] = "turnDrain" /\ x = "turnRecord" /\ UNCHANGED <<input, recorded, discarded>>
        /\ mailbox' = {} /\ mailbox = {}
        /\ \A q \in Procs : q # t => hand'[q] = hand[q]
        /\ \A s \in StateIds : pending'[s] = pending[s] \/ (s = active.st /\ pending'[s] = {} /\ hand'[t] = pending[s])
    BY <1>0, <1>2, <1>10 DEF TurnDrain, GetPendingInput, taskVars, ghostVars, CInv, ClientControl
  <2>2. StatesInv' BY <1>6, <2>1
  <2>3. PlacesInv' BY <1>0, <1>2, <1>3, <2>1 DEF DInv, PlacesInv
  <2>4. AllKept'
    <3> SUFFICES ASSUME NEW i \in sent PROVE Kept(i)' BY <1>3 DEF AllKept
    <3>1. Kept(i) /\ (Settled(i) <=> Settled(i)') BY <2>1 DEF AllKept, Settled
    <3>2. pc'[t] # "done" BY <1>0, <1>2, <1>4
    <3>3. active.st # None /\ i \in pending[active.st] => Kept(i)'
      BY <1>0, <1>3, <2>1, <3>2 DEF Kept
    <3>4. \A p \in Procs : pc[p] \in {"await", "report", "finReport"} => held[p] \in StateIds
      BY DEF IInv, Control, HoldingPcs
    <3>5. ASSUME NEW p \in Procs, pc[p] \in {"await", "report", "finReport"}, i \in pending[held[p]]
          PROVE  Kept(i)'
      <4>1. CASE held[p] = active.st BY <1>0, <3>3, <3>4, <3>5, <4>1
      <4>2. CASE held[p] # active.st
        <5>1. i \in pending'[held'[p]] BY <1>7, <2>1, <3>4, <3>5, <4>2
        <5> QED BY <1>7, <3>5, <5>1 DEF Kept
      <4> QED BY <4>1, <4>2
    <3>6. ASSUME NEW u \in Turns, i \in input[u], pc[u] # "done" PROVE Kept(i)'
      BY <1>0, <1>2, <1>4, <2>1, <3>6 DEF Kept
    <3>7. ASSUME NEW p \in Procs, i \in hand[p], pc[p] # "done" PROVE Kept(i)'
      BY <1>2, <1>4, <1>8, <2>1, <3>7 DEF Kept
    <3>8. Settled(i) => Kept(i)' BY <3>1 DEF Kept
    <3> QED BY <2>1, <3>1, <3>3, <3>5, <3>6, <3>7, <3>8 DEF Kept
  <2> QED BY <2>2, <2>3, <2>4 DEF DInv
<1>11. CASE TurnRecord(t)
  <2>1. PICK b : RecordAccepted(hand[t], b) BY <1>11 DEF TurnRecord
  <2>2. /\ \A q \in Procs : hand'[q] = IF q = t THEN {} ELSE hand[q]
        /\ UNCHANGED <<pending, mailbox, input>> /\ x # "begin" /\ pc[t] = "turnRecord"
    BY <1>0, <1>2, <1>11 DEF TurnRecord, stateVars, taskVars
  <2>3. StatesInv' BY <1>6, <2>2
  <2>4. PlacesInv' BY <1>0, <1>2, <1>3, <2>2 DEF DInv, PlacesInv
  <2>5. AllKept'
    <3> SUFFICES ASSUME NEW i \in sent PROVE Kept(i)' BY <1>3 DEF AllKept
    <3>1. Kept(i) /\ (Settled(i) => Settled(i)') /\ (i \in hand[t] => Settled(i)')
      BY <1>0, <2>1, RecordSettles DEF AllKept
    <3>2. active.st # None /\ i \in pending[active.st] => Kept(i)' BY <1>3, <2>2 DEF Kept
    <3> QED BY <1>0, <1>2, <1>4, <1>7, <2>2, <3>1, <3>2, KeptBy
  <2> QED BY <2>3, <2>4, <2>5 DEF DInv
<1>12. CASE SampleFollowUp(t) \/ SampleFinal(t) \/ SampleError(t) \/ PostCheck(t)
  <2>1. /\ UNCHANGED <<pending, mailbox, input, hand, recorded, discarded>>
        /\ pc[t] \in {"sample", "post"}
    BY <1>12 DEF SampleFollowUp, SampleFinal, SampleError, PostCheck, stateVars, taskVars, procVars,
       ghostVars
  <2>2. StatesInv' BY <1>6, <2>1
  <2>3. PlacesInv' BY <1>0, <1>2, <1>3, <1>8, <2>1 DEF DInv, PlacesInv
  <2>4. AllKept' BY <1>0, <1>2, <1>3, <1>4, <1>7, <2>1, NothingMoves
  <2> QED BY <2>2, <2>3, <2>4 DEF DInv
<1> QED BY <1>9, <1>10, <1>11, <1>12

\* A turn takes the slot, records what came late, reports, and clears the slot.
LEMMA FinishKept ==
    ASSUME IInv, CInv, DInv, AllKept, NEW t \in Turns,
           FinCheck(t) \/ FinTake(t) \/ FinReport(t) \/ FinClear(t) \/ WakeCheck(t)
    PROVE  DInv' /\ AllKept'
<1>0. /\ pc \in [Procs -> PcValues] /\ Loop \in Procs /\ Loop \notin Turns /\ Turns \subseteq Procs
      /\ held \in [Procs -> StateIds \cup {None}] /\ hand \in [Procs -> SUBSET Items]
      /\ starting \in [Procs -> Turns \cup {None}] /\ sent \subseteq Items /\ t \in Procs /\ Loop # t
      /\ pending \in [StateIds -> SUBSET Items] /\ None \notin StateIds /\ None \notin Turns
      /\ active.st \in StateIds \cup {None} /\ (active.st = None => active.task = None)
      /\ active = [st |-> active.st, task |-> active.task] /\ Return(t) = "done"
  BY ClientTypes
<1>1. hand[t] = {} /\ input[t] = {}
  BY <1>0 DEF FinCheck, FinTake, FinReport, FinClear, WakeCheck, DInv, PlacesInv
<1>2. /\ UNCHANGED <<nextState, mailbox, kind, input, nextTurn, sent>>
      /\ hand' = hand
      /\ starting'[Loop] = starting[Loop]
      /\ \A q \in Procs : q # t => held'[q] = held[q] /\ pc'[q] = pc[q]
  <2>1. Leave(t) => /\ hand' = hand /\ starting'[Loop] = starting[Loop]
                    /\ \A q \in Procs : q # t => held'[q] = held[q] /\ pc'[q] = pc[q]
    BY <1>0, <1>1 DEF Leave
  <2> QED BY <1>0, <2>1
          DEF FinCheck, FinTake, FinReport, FinClear, WakeCheck, stateVars, taskVars, procVars, ghostVars
<1>3. pc'[t] \in FinishPcs \cup {"wake", "done"}
  BY <1>0 DEF FinCheck, FinTake, FinReport, FinClear, WakeCheck, FinishPcs, Leave,
              PendingWork, CInv, ClientControl
<1>4. PlacesInv' BY <1>0, <1>1, <1>2, <1>3 DEF DInv, PlacesInv, FinishPcs
<1>5. pc'[Loop] = pc[Loop] /\ \A u \in Turns : u # t => (Ending(u)' <=> Ending(u))
  BY <1>0, <1>2 DEF Ending
<1>6. CASE FinCheck(t) \/ WakeCheck(t) \/ (FinTake(t) /\ active.task = None)
  <2>1. /\ ~Ending(t) /\ ~Ending(t)' /\ held'[t] \in {held[t], None}
        /\ UNCHANGED <<active, pending, recorded, discarded>>
    BY <1>0, <1>6 DEF FinCheck, WakeCheck, FinTake, Leave, Ending, PendingWork, CInv, ClientControl,
                      stateVars, procVars, ghostVars
  <2>2. StatesInv' BY <1>0, <1>2, <1>5, <2>1, StatesQuiet DEF DInv, StatesInv
  <2>3. pc[t] \in {"finCheck", "wake", "finTake"} BY <1>6 DEF FinCheck, WakeCheck, FinTake
  <2>4. \A p \in Procs : pc[p] # "done" => pc'[p] # "done" \/ (hand[p] = {} /\ (p \in Turns => input[p] = {}))
    BY <1>1, <1>2
  <2>5. \A p \in Procs : pc[p] \in {"await", "report", "finReport"} =>
            pc'[p] \in {"await", "report", "finReport"} /\ held'[p] = held[p]
    BY <1>2, <2>3
  <2>6. AllKept' BY <1>0, <1>2, <2>1, <2>4, <2>5, NothingMoves
  <2> QED BY <1>4, <2>2, <2>6 DEF DInv
<1>7. CASE FinTake(t) /\ active.task # None
  <2>1. /\ pc[t] = "finTake" /\ pc'[t] = "finReport" /\ active'.task = None /\ active'.st = active.st
        /\ held'[t] = active.st /\ UNCHANGED <<pending, recorded, discarded>>
    BY <1>0, <1>7 DEF FinTake, stateVars, ghostVars
  <2>2. pc[Loop] # "install" /\ active.st # None BY <1>0, <1>7 DEF CInv, SlotInv
  <2>3. StatesInv'
    <3>1. active'.st < nextState' /\ \A p \in Procs : held'[p] < nextState'
      BY <1>2, <2>1 DEF DInv, StatesInv
    <3>2. \A u \in Turns : pc'[u] = "finClear" => held'[u] \in StateIds /\ pending'[held'[u]] = {}
      BY <1>0, <1>2, <2>1 DEF DInv, StatesInv
    <3>3. \E u \in Turns : Ending(u)' /\ held'[u] = active'.st BY <2>1 DEF Ending
    <3> QED BY <1>2, <1>5, <2>1, <2>2, <3>1, <3>2, <3>3 DEF DInv, StatesInv
  <2>4. AllKept'
    <3> SUFFICES ASSUME NEW i \in sent PROVE Kept(i)' BY <1>2 DEF AllKept
    <3>1. Kept(i) /\ (Settled(i) <=> Settled(i)') BY <2>1 DEF AllKept, Settled
    <3>2. active.st # None /\ i \in pending[active.st] => Kept(i)' BY <2>1 DEF Kept
    <3> QED BY <1>0, <1>1, <1>2, <2>1, <3>1, <3>2, KeptBy
  <2> QED BY <1>4, <2>3, <2>4 DEF DInv
<1>8. CASE FinReport(t)
  <2>1. PICK s \in StateIds : s = held[t]
    BY <1>0, <1>8 DEF FinReport, IInv, Control, HoldingPcs
  <2>2. PICK b : RecordAccepted(pending[s], b) BY <1>8, <2>1 DEF FinReport
  <2>3. /\ pc[t] = "finReport" /\ pc'[t] = "finClear" /\ active' = active /\ held' = held
        /\ \A r \in StateIds : pending'[r] = IF r = s THEN {} ELSE pending[r]
    BY <1>0, <1>8, <2>1 DEF FinReport, procVars
  <2>4. StatesInv'
    <3>1. \A u \in Turns : Ending(u)' <=> Ending(u) BY <1>5, <2>3 DEF Ending
    <3>2. \A u \in Turns : pc'[u] = "finClear" => held'[u] \in StateIds /\ pending'[held'[u]] = {}
      BY <1>0, <1>2, <2>1, <2>3 DEF DInv, StatesInv
    <3> QED BY <1>2, <1>5, <2>3, <3>1, <3>2 DEF DInv, StatesInv
  <2>5. AllKept'
    <3> SUFFICES ASSUME NEW i \in sent PROVE Kept(i)' BY <1>2 DEF AllKept
    <3>1. Kept(i) /\ (Settled(i) => Settled(i)') /\ (i \in pending[s] => Settled(i)')
      BY <1>0, <2>2, RecordSettles DEF AllKept
    <3>2. active.st # None /\ i \in pending[active.st] => Kept(i)'
      BY <1>0, <2>3, <3>1 DEF Kept
    <3>3. \A p \in Procs : pc[p] \in {"await", "report", "finReport"} => held[p] \in StateIds
      BY DEF IInv, Control, HoldingPcs
    <3>4. \A p \in Procs : pc[p] \in {"await", "report", "finReport"} /\ i \in pending[held[p]]
             => Settled(i)' \/ (/\ pc'[p] \in {"await", "report", "finReport"}
                                /\ i \in pending'[held'[p]])
      BY <1>2, <2>1, <2>3, <3>1, <3>3
    <3> QED BY <1>0, <1>1, <1>2, <2>3, <3>1, <3>2, <3>4, KeptBy
  <2> QED BY <1>4, <2>4, <2>5 DEF DInv
<1>9. CASE FinClear(t)
  <2>1. /\ pc[t] = "finClear" /\ ~Ending(t)' /\ held'[t] = None
        /\ UNCHANGED <<pending, recorded, discarded>>
        /\ held[t] \in StateIds /\ pending[held[t]] = {}
    BY <1>0, <1>9 DEF FinClear, Leave, Ending, DInv, StatesInv, stateVars, ghostVars
  <2>2. \/ active'.st = None /\ active'.task = None /\ active.st = held[t] /\ active.task = None
        \/ active' = active /\ (active.st # held[t] \/ active.task # None)
    BY <1>9 DEF FinClear, NoActive
  <2>3. active' = active => active.st # held[t]
    BY <1>0, <2>1, <2>2 DEF DInv, StatesInv, Ending, NoActive
  <2>4. StatesInv'
    <3>1. \A p \in Procs : held'[p] < nextState' BY <1>2, <2>1, ClientTypes DEF DInv, StatesInv
    <3>2. \A u \in Turns : pc'[u] = "finClear" => held'[u] \in StateIds /\ pending'[held'[u]] = {}
      BY <1>0, <1>2, <2>1 DEF DInv, StatesInv, Ending
    <3>3. CASE active' = active
      <4>1. \A u \in Turns : Ending(u) /\ held[u] = active.st => Ending(u)' /\ held'[u] = active.st
        BY <1>0, <1>2, <1>5, <2>3, <3>3
      <4>2. active.st # None /\ (active.task # None \/ pc[Loop] = "install") =>
               \A u \in Turns : Ending(u)' => held'[u] # active.st
        BY <1>0, <1>2, <1>5, <2>1 DEF DInv, StatesInv
      <4> QED BY <1>2, <1>5, <3>1, <3>2, <3>3, <4>1, <4>2 DEF DInv, StatesInv
    <3>4. CASE active'.st = None /\ active'.task = None
      BY <1>2, <1>5, <3>1, <3>2, <3>4, ClientTypes DEF DInv, StatesInv
    <3> QED BY <2>2, <3>3, <3>4
  <2>5. AllKept'
    <3> SUFFICES ASSUME NEW i \in sent PROVE Kept(i)' BY <1>2 DEF AllKept
    <3>1. Kept(i) /\ (Settled(i) <=> Settled(i)') BY <2>1 DEF AllKept, Settled
    <3>2. active.st # None /\ i \in pending[active.st] => Kept(i)' BY <2>1, <2>2 DEF Kept
    <3> QED BY <1>0, <1>1, <1>2, <2>1, <3>1, <3>2, KeptBy
  <2> QED BY <1>4, <2>4, <2>5 DEF DInv
<1> QED BY <1>6, <1>7, <1>8, <1>9

LEMMA StepKept ==
    ASSUME IInv, CInv, DInv, AllKept, ClientOnly, Injects = {}, [Next]_vars
    PROVE  DInv' /\ AllKept'
<1>1. CASE UNCHANGED vars
  BY <1>1 DEF vars, stateVars, taskVars, procVars, ghostVars, DInv, PlacesInv, StatesInv, Ending,
              AllKept, Kept, Settled
<1>2. CASE ClientOp BY <1>2, ClientOpKept
<1>3. ASSUME NEW p \in Procs, SharedStep(p) PROVE DInv' /\ AllKept'
  <2>1. CASE p = Loop
    BY <1>3, <2>1, TakeKept, AbortKept, StartKept
       DEF SharedStep, AdmitDeclined, AdmitStarted, WakeReserve, WakeDrain, WakeExtend, CInv,
           ClientControl
  <2>2. CASE p \in Turns
    <3>1. pc[p] \in {"unborn", "done", "wake"} \cup RunPcs \cup FinishPcs
      BY <2>2 DEF CInv, ClientControl
    <3>2. WakeCheck(p)
      BY <1>3, <3>1 DEF RunPcs, FinishPcs, SharedStep, AdmitDeclined, AdmitStarted, TakeActive,
         AbortJoin, AbortReport, WakeReserve, WakeDrain, WakeExtend, StartDrain, StartAttach,
         StartInstall
    <3> QED BY <2>2, <3>2, FinishKept
  <2>3. CASE p \in {Guardian, Realtime}
    <3>1. pc[p] = "idle" BY <2>3 DEF CInv, ClientControl
    <3> QED
      BY <1>3, <3>1 DEF SharedStep, AdmitDeclined, AdmitStarted, TakeActive,
         AbortJoin, AbortReport, WakeCheck, WakeReserve, WakeDrain, WakeExtend, StartDrain,
         StartAttach, StartInstall
  <2> QED BY <2>1, <2>2, <2>3 DEF Procs, Clients
<1>4. ASSUME NEW t \in Turns, TurnStep(t) PROVE DInv' /\ AllKept'
  BY <1>4, RunKept, FinishKept DEF TurnStep
<1> QED BY <1>1, <1>2, <1>3, <1>4 DEF Next

LEMMA InitKept == Init => DInv /\ AllKept
<1> SUFFICES ASSUME Init PROVE DInv /\ AllKept OBVIOUS
<1>1. PlacesInv BY ProcFacts DEF Init, PlacesInv
<1>2. StatesInv BY ProcFacts DEF Init, StatesInv, Ending, NoActive, None, StartPcs
<1>3. AllKept BY DEF Init, AllKept
<1> QED BY <1>1, <1>2, <1>3 DEF DInv

\* An input that the client submitted is recorded, refused or dropped with a report, or
\* somewhere the session still looks, whatever interrupts, compactions and shutdowns race
\* with the turn that is to take it and whatever the hooks reject.
THEOREM NothingIsLost ==
    ASSUME ClientOnly, Injects = {}
    PROVE  Spec => []NoSilentLoss
<1>1. Init => IInv /\ CInv /\ DInv /\ AllKept BY InitHolds, InitClient, InitKept
<1>2. IInv /\ CInv /\ DInv /\ AllKept /\ [Next]_vars => (IInv /\ CInv /\ DInv /\ AllKept)'
  BY StepKeeps, StepClient, StepKept
<1>3. AllKept => NoSilentLoss BY DEF AllKept, Kept, Settled, NoSilentLoss
<1> QED BY <1>1, <1>2, <1>3, PTL DEF Spec
=============================================================================
