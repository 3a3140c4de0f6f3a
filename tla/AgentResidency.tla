--------------------------- MODULE AgentResidency ---------------------------
(***************************************************************************)
(* Residency of V2 sub-agents: a session tree keeps at most Capacity agent *)
(* threads loaded.  Spawning or messaging an agent reserves a slot, which  *)
(* may unload the least recently used idle agent; an unloaded agent stays  *)
(* known and is reloaded from its stored history by the next message.      *)
(*                                                                         *)
(* Code: core/src/agent/control/residency.rs, agent/control/spawn.rs       *)
(* (spawn_agent_internal, ensure_v2_agent_loaded), agent/control.rs        *)
(* (send_inter_agent_communication, handle_thread_request_result),         *)
(* agent/registry.rs and the thread map of core/src/thread_manager.rs.     *)
(*                                                                         *)
(* A caller is the session of one agent of the tree: it handles one tool   *)
(* call at a time, and callers run concurrently.  One action is the code   *)
(* between two acquisitions of the residency mutex, the registry mutex,    *)
(* the thread map's lock, or two points where a caller waits for a thread. *)
(* A call is dropped where it awaits when the caller's turn is aborted     *)
(* (tools/parallel.rs).                                                    *)
(*                                                                         *)
(* Abstractions: a runtime (Arc<RexuxThread>) is a number; what its turn   *)
(* does is one step that records the messages it was given; configuration, *)
(* roles, nicknames and the environments saved at eviction are data; the   *)
(* reads of the store may fail, as one outcome of the step they lead to.   *)
(***************************************************************************)
EXTENDS Integers, Sequences, FiniteSets

CONSTANTS
    Callers,     \* agents that spawn and message other agents
    Capacity,    \* effective_agent_max_threads(V2)
    MaxThreads,  \* bound: agents spawned
    MaxFollowUps, \* bound: messages sent to agents that exist
    MaxCalls,    \* bound: both together
    MaxRuntimes, \* bound: runtimes created
    MaxCrashes,  \* bound: session loops that end on their own
    MaxDrops,    \* bound: tool calls dropped with their turn
    MaxFaults    \* bound: both together

Threads  == 1..MaxThreads
Runtimes == 1..MaxRuntimes
Msgs     == 1..(MaxThreads + MaxFollowUps)
None     == 0

ASSUME ResidencyAssumption ==
    /\ Capacity \in Nat /\ MaxThreads \in Nat /\ MaxFollowUps \in Nat
    /\ MaxRuntimes \in Nat /\ MaxCrashes \in Nat /\ MaxDrops \in Nat
    /\ MaxCalls \in Nat /\ MaxFaults \in Nat
    /\ IsFiniteSet(Callers) /\ Callers # {}

VARIABLES
    manager,      \* ThreadManagerState::threads
    known,        \* AgentRegistry: the threads it has metadata for
    residents,    \* V2ResidencyState::residents, least recently used first
    pendingSlots, \* V2ResidencyState::pending_slots
    life,         \* what each runtime does
    closing,      \* runtimes whose Op::Shutdown is queued
    queue,        \* messages submitted to a runtime's loop and not taken up
    inbox,        \* messages a runtime has taken up and not recorded
    nextRuntime,  \* the next runtime to create
    of,           \* the thread of each runtime
    pc,           \* where each caller is
    op,           \* its operation: [kind, thread, msg]
    left,         \* candidates try_unload_one_resident may still look at
    cand,         \* the candidate it popped: [thread, runtime]
    accepted,     \* messages whose sender was told they were sent
    recorded,     \* messages in a thread's history
    exposed,      \* messages a crash took, or an eviction may take (see Exposes)
    strays,       \* threads let go of without being put back into the residents
    escapes,      \* how often that happened
    spawned,      \* agents spawned so far; the thread ids are 1..spawned
    followUps,    \* messages sent to agents that exist so far
    crashes,      \* session loops that ended on their own so far
    drops         \* tool calls dropped so far

agentVars  == <<manager, known>>
slotVars   == <<residents, pendingSlots>>
runVars    == <<life, closing, queue, inbox, nextRuntime, of>>
callVars   == <<op, left, cand>>
logVars    == <<accepted, recorded, exposed>>
strayVars  == <<strays, escapes>>
countVars  == <<spawned, followUps, crashes, drops>>
vars == <<agentVars, slotVars, runVars, pc, callVars, logVars, strayVars, countVars>>

\* Where a caller owns a V2ResidencySlot that is neither committed nor dropped.
SlotPcs == {"create", "register", "commit", "resume", "finish", "settle"}
\* Where a caller has taken a candidate out of the residents.
CandPcs == {"check", "evict", "wait", "remove"}
\* Where a caller goes on to unload the candidate it has found idle.
EvictPcs == {"evict", "wait", "remove"}
PcValues == {"idle", "ensure", "reserve", "count", "pop", "touch", "send",
             "bury", "forget", "unregister"} \cup SlotPcs \cup CandPcs

NoOp   == [kind |-> "none", thread |-> None, msg |-> None]
NoCand == [thread |-> None, runtime |-> None]

Distinct(s) == \A i, j \in 1..Len(s) : i # j => s[i] # s[j]

ThreadsOK ==
    /\ manager \in [Threads -> Runtimes \cup {None}]
    /\ known \subseteq Threads

ResidencyOK ==
    /\ residents \in Seq(Threads) /\ Distinct(residents)
    /\ pendingSlots \in Nat

RuntimesOK ==
    /\ life \in [Runtimes -> {"unborn", "init", "busy", "idle", "stopped"}]
    /\ closing \subseteq Runtimes
    /\ queue \in [Runtimes -> SUBSET Msgs]
    /\ inbox \in [Runtimes -> SUBSET Msgs]
    /\ of \in [Runtimes -> Threads \cup {None}]
    /\ nextRuntime \in 1..(MaxRuntimes + 1)

CallersOK ==
    /\ pc \in [Callers -> PcValues]
    /\ op \in [Callers -> [kind : {"none", "spawn", "message"},
                           thread : Threads \cup {None}, msg : Msgs \cup {None}]]
    /\ left \in [Callers -> Nat]
    /\ cand \in [Callers -> [thread : Threads \cup {None}, runtime : Runtimes \cup {None}]]

LogOK ==
    /\ accepted \subseteq Msgs /\ recorded \subseteq Msgs /\ exposed \subseteq Msgs
    /\ strays \subseteq Threads /\ escapes \in Nat
    /\ spawned \in 0..MaxThreads /\ followUps \in 0..MaxFollowUps
    /\ crashes \in 0..MaxCrashes /\ drops \in 0..MaxDrops

\* Every variable has its type, and no thread is a resident twice: a thread
\* takes one slot however often it is touched, committed or put back.
TypeOK == ThreadsOK /\ ResidencyOK /\ RuntimesOK /\ CallersOK /\ LogOK

Init ==
    /\ manager = [t \in Threads |-> None]
    /\ known = {}
    /\ residents = <<>>
    /\ pendingSlots = 0
    /\ life = [r \in Runtimes |-> "unborn"]
    /\ closing = {}
    /\ queue = [r \in Runtimes |-> {}]
    /\ inbox = [r \in Runtimes |-> {}]
    /\ nextRuntime = 1
    /\ of = [r \in Runtimes |-> None]
    /\ pc = [p \in Callers |-> "idle"]
    /\ op = [p \in Callers |-> NoOp]
    /\ left = [p \in Callers |-> 0]
    /\ cand = [p \in Callers |-> NoCand]
    /\ accepted = {} /\ recorded = {} /\ exposed = {}
    /\ strays = {} /\ escapes = 0
    /\ spawned = 0 /\ followUps = 0 /\ crashes = 0 /\ drops = 0

-----------------------------------------------------------------------------
(* Helpers.                                                                *)

Target(p) == op[p].thread
NewMsg == spawned + followUps + 1
ResidentSet == {residents[i] : i \in 1..Len(residents)}

\* retain(|resident| resident != t); the residents are distinct.
Without(t) ==
    LET at == CHOOSE i \in 1..Len(residents) : residents[i] = t
    IN  IF t \notin ResidentSet THEN residents
        ELSE [i \in 1..(Len(residents) - 1) |-> residents[IF i < at THEN i ELSE i + 1]]

\* Variant of TouchResident: the old place is kept.
TouchResidentTwice(t) == Append(residents, t)

\* touch_resident: t becomes the most recently used resident.
TouchResident(t) == Append(Without(t), t)

Goto(p, where) == pc' = [pc EXCEPT ![p] = where]

\* The tool call is over; its local variables are gone.
Finish(p) ==
    /\ Goto(p, "idle")
    /\ op' = [op EXCEPT ![p] = NoOp]
    /\ left' = [left EXCEPT ![p] = 0]
    /\ cand' = [cand EXCEPT ![p] = NoCand]

\* release_pending_slot.
ReleaseSlot == pendingSlots' = IF pendingSlots = 0 THEN 0 ELSE pendingSlots - 1

\* A new session for thread t, stored in the thread map.  Its status is
\* PendingInit ("init"), except that a resumed session whose last turn was
\* interrupted says so and may be unloaded again.
NewRuntime(t, statuses) ==
    /\ nextRuntime <= MaxRuntimes
    /\ nextRuntime' = nextRuntime + 1
    /\ \E s \in statuses : life' = [life EXCEPT ![nextRuntime] = s]
    /\ manager' = [manager EXCEPT ![t] = nextRuntime]
    /\ of' = [of EXCEPT ![nextRuntime] = t]

\* RexuxThread::is_running: the session loop still receives.
Running(r) == life[r] # "stopped"

\* The loaded agents that only caller p would make residents or unload.
InHand(p) ==
    IF pc[p] \in CandPcs THEN {cand[p].thread}
    ELSE IF pc[p] \in {"register", "commit"} THEN {Target(p)} ELSE {}

\* The threads S are let go of, or thread t is a resident again.
LetGo(S) == strays' = strays \cup S /\ escapes' = escapes + Cardinality(S)
TakeBack(t) == strays' = strays \ {t} /\ UNCHANGED escapes

\* The runtimes that have to stop: a caller found them idle, or their
\* Op::Shutdown is queued.
Doomed(r) == r \in closing \/ \E p \in Callers : pc[p] \in EvictPcs /\ cand[p].runtime = r
Exposes(S) == exposed' = exposed \cup S

-----------------------------------------------------------------------------
(* Tool calls.                                                             *)

\* spawn_agent_internal for a V2 sub-agent, up to the residency slot.
Spawn(p) ==
    /\ pc[p] = "idle"
    /\ spawned < MaxThreads /\ spawned + followUps < MaxCalls
    /\ spawned' = spawned + 1
    /\ op' = [op EXCEPT ![p] = [kind |-> "spawn", thread |-> spawned + 1, msg |-> NewMsg]]
    /\ Goto(p, "reserve")
    /\ UNCHANGED <<agentVars, slotVars, runVars, left, cand, logVars, strayVars,
                   followUps, crashes, drops>>

\* send_message and followup_task: the receiver must be known.
Message(p, t) ==
    /\ pc[p] = "idle"
    /\ t \in known
    /\ followUps < MaxFollowUps /\ spawned + followUps < MaxCalls
    /\ followUps' = followUps + 1
    /\ op' = [op EXCEPT ![p] = [kind |-> "message", thread |-> t, msg |-> NewMsg]]
    /\ Goto(p, "ensure")
    /\ UNCHANGED <<agentVars, slotVars, runVars, left, cand, logVars, strayVars,
                   spawned, crashes, drops>>

\* ensure_v2_agent_loaded: a loaded agent is touched, an unloaded one that is
\* still known is reloaded (reading its stored history may fail).
EnsureLoaded(p) ==
    /\ pc[p] = "ensure"
    /\ \/ /\ manager[Target(p)] # None
          /\ Goto(p, "touch") /\ UNCHANGED callVars
       \/ /\ manager[Target(p)] = None /\ Target(p) \in known
          /\ Goto(p, "reserve") /\ UNCHANGED callVars
       \/ manager[Target(p)] = None /\ Finish(p)
    /\ UNCHANGED <<agentVars, slotVars, runVars, logVars, strayVars, countVars>>

\* touch_loaded_v2_residency.
Touch(p) ==
    /\ pc[p] = "touch"
    /\ residents' = IF manager[Target(p)] = None THEN residents
                    ELSE TouchResident(Target(p))
    /\ IF manager[Target(p)] = None THEN UNCHANGED strayVars ELSE TakeBack(Target(p))
    /\ Goto(p, "send")
    /\ UNCHANGED <<agentVars, pendingSlots, runVars, callVars, logVars, countVars>>

-----------------------------------------------------------------------------
(* reserve_slot: reserve a pending slot, or unload a resident and retry.   *)

\* Variant of TryReserve: only the agents being loaded are counted.
TryReservePendingOnly(p) ==
    /\ pc[p] = "reserve"
    /\ IF pendingSlots < Capacity
       THEN /\ pendingSlots' = pendingSlots + 1
            /\ Goto(p, IF op[p].kind = "spawn" THEN "create" ELSE "resume")
       ELSE Goto(p, "count") /\ UNCHANGED pendingSlots
    /\ UNCHANGED <<agentVars, residents, runVars, callVars, logVars, strayVars, countVars>>

\* try_reserve_pending_slot.
TryReserve(p) ==
    /\ pc[p] = "reserve"
    /\ IF Len(residents) + pendingSlots < Capacity
       THEN /\ pendingSlots' = pendingSlots + 1
            /\ Goto(p, IF op[p].kind = "spawn" THEN "create" ELSE "resume")
       ELSE Goto(p, "count") /\ UNCHANGED pendingSlots
    /\ UNCHANGED <<agentVars, residents, runVars, callVars, logVars, strayVars, countVars>>

\* try_unload_one_resident looks at as many candidates as there are residents.
CountResidents(p) ==
    /\ pc[p] = "count"
    /\ left' = [left EXCEPT ![p] = Len(residents)]
    /\ Goto(p, "pop")
    /\ UNCHANGED <<agentVars, slotVars, runVars, op, cand, logVars, strayVars, countVars>>

\* The agent a caller is reloading must not be unloaded by its own reservation.
Protected(p) == IF op[p].kind = "message" THEN Target(p) ELSE None

\* Variant of PopCandidate: the scan is not limited to one round.
PopCandidateForever(p) ==
    /\ pc[p] = "pop"
    /\ IF residents = <<>> \/ Head(residents) = Protected(p)
       THEN Finish(p) /\ UNCHANGED residents
       ELSE /\ residents' = Tail(residents)
            /\ cand' = [cand EXCEPT ![p] = [thread |-> Head(residents), runtime |-> None]]
            /\ Goto(p, "check")
            /\ UNCHANGED <<op, left>>
    /\ UNCHANGED <<agentVars, pendingSlots, runVars, logVars, strayVars, countVars>>

\* pop_lru_candidate: a protected agent in front goes to the back.
Rotated(p) ==
    IF residents # <<>> /\ Head(residents) = Protected(p)
    THEN Append(Tail(residents), Head(residents)) ELSE residents

\* Without another candidate the call fails with AgentLimitReached.
PopCandidate(p) ==
    /\ pc[p] = "pop"
    /\ IF left[p] = 0 \/ Rotated(p) = <<>> \/ Head(Rotated(p)) = Protected(p)
       THEN /\ Finish(p)
            /\ residents' = IF left[p] = 0 THEN residents ELSE Rotated(p)
       ELSE /\ residents' = Tail(Rotated(p))
            /\ left' = [left EXCEPT ![p] = @ - 1]
            /\ cand' = [cand EXCEPT ![p] = [thread |-> Head(Rotated(p)), runtime |-> None]]
            /\ Goto(p, "check")
            /\ UNCHANGED op
    /\ UNCHANGED <<agentVars, pendingSlots, runVars, logVars, strayVars, countVars>>

\* Variant of CheckCandidate: an agent that is in use is not put back.
CheckCandidateForgets(p) ==
    LET t == cand[p].thread
        r == manager[t]
    IN  /\ pc[p] = "check"
        /\ IF r # None /\ life[r] = "idle"
           THEN /\ cand' = [cand EXCEPT ![p].runtime = r]
                /\ Exposes(queue[r])
                /\ Goto(p, "evict")
           ELSE /\ cand' = [cand EXCEPT ![p] = NoCand]
                /\ Goto(p, "pop")
                /\ UNCHANGED exposed
        /\ UNCHANGED <<agentVars, slotVars, runVars, op, left, accepted, recorded, strayVars,
                       countVars>>

\* Variant of CheckCandidate: an agent is unloaded whatever it does.
CheckCandidateAnyStatus(p) ==
    LET t == cand[p].thread
        r == manager[t]
    IN  /\ pc[p] = "check"
        /\ IF r # None
           THEN /\ cand' = [cand EXCEPT ![p].runtime = r]
                /\ Exposes(queue[r])
                /\ Goto(p, "evict")
           ELSE /\ cand' = [cand EXCEPT ![p] = NoCand]
                /\ Goto(p, "pop")
                /\ UNCHANGED exposed
        /\ UNCHANGED <<agentVars, slotVars, runVars, op, left, accepted, recorded, strayVars,
                       countVars>>

\* A candidate that is no longer loaded is forgotten; one that is in use
\* (is_unloadable: a final status, no turn, no mail) is touched.  A message
\* whose Op the session loop has not taken up yet is not seen.
CheckCandidate(p) ==
    LET t == cand[p].thread
        r == manager[t]
    IN  /\ pc[p] = "check"
        /\ IF r # None /\ life[r] = "idle"
           THEN /\ cand' = [cand EXCEPT ![p].runtime = r]
                /\ Exposes(queue[r])
                /\ Goto(p, "evict")
                /\ UNCHANGED <<residents, strayVars>>
           ELSE /\ residents' = IF r = None THEN residents ELSE TouchResident(t)
                /\ IF r = None THEN UNCHANGED strayVars ELSE TakeBack(t)
                /\ cand' = [cand EXCEPT ![p] = NoCand]
                /\ Goto(p, "pop")
                /\ UNCHANGED exposed
        /\ UNCHANGED <<agentVars, pendingSlots, runVars, op, left, accepted, recorded, countVars>>

\* shutdown_and_wait queues Op::Shutdown, also if the loop has ended already ...
EvictSubmit(p) ==
    /\ pc[p] = "evict"
    /\ closing' = closing \cup {cand[p].runtime}
    /\ Goto(p, "wait")
    /\ UNCHANGED <<agentVars, slotVars, life, queue, inbox, nextRuntime, of, callVars, logVars,
                   strayVars, countVars>>

\* Variant of EvictWait: the session is removed while it is shutting down.
EvictWaitNot(p) ==
    /\ pc[p] = "wait"
    /\ Goto(p, "remove")
    /\ UNCHANGED <<agentVars, slotVars, runVars, callVars, logVars, strayVars, countVars>>

\* ... and waits for the end of the session loop.
EvictWait(p) ==
    /\ pc[p] = "wait"
    /\ ~Running(cand[p].runtime)
    /\ Goto(p, "remove")
    /\ UNCHANGED <<agentVars, slotVars, runVars, callVars, logVars, strayVars, countVars>>

\* remove_thread, by thread id; then reserve_slot tries again.
EvictRemove(p) ==
    /\ pc[p] = "remove"
    /\ manager' = [manager EXCEPT ![cand[p].thread] = None]
    /\ cand' = [cand EXCEPT ![p] = NoCand]
    /\ Goto(p, "reserve")
    /\ UNCHANGED <<known, slotVars, runVars, op, left, logVars, strayVars, countVars>>

-----------------------------------------------------------------------------
(* The rest of spawn_agent_internal.                                       *)

\* The registry reservation, the path and the new session ...
CreateThread(p) ==
    /\ pc[p] = "create"
    /\ NewRuntime(Target(p), {"init"})
    /\ Goto(p, "register")
    /\ UNCHANGED <<known, slotVars, closing, queue, inbox, callVars, logVars, strayVars, countVars>>

\* ... any of which may fail: both reservations are dropped.
CreateFails(p) ==
    /\ pc[p] = "create"
    /\ ReleaseSlot
    /\ Finish(p)
    /\ UNCHANGED <<agentVars, residents, runVars, logVars, strayVars, countVars>>

\* SpawnReservation::commit.
Register(p) ==
    /\ pc[p] = "register"
    /\ known' = known \cup {Target(p)}
    /\ Goto(p, "commit")
    /\ UNCHANGED <<manager, slotVars, runVars, callVars, logVars, strayVars, countVars>>

\* V2ResidencySlot::commit, of a spawned or of a reloaded agent.
Commit(p) ==
    /\ pc[p] = "commit"
    /\ ReleaseSlot
    /\ residents' = TouchResident(Target(p))
    /\ TakeBack(Target(p))
    /\ Goto(p, "send")
    /\ UNCHANGED <<agentVars, runVars, callVars, logVars, countVars>>

-----------------------------------------------------------------------------
(* The rest of ensure_v2_agent_loaded: spawn_thread for a resumed thread.  *)

\* A runtime that is still running is taken as it is (or refused, if it writes
\* another rollout file); one that has stopped is removed from the thread map.
ResumeBegin(p) ==
    LET r == manager[Target(p)]
    IN  /\ pc[p] = "resume"
        /\ IF r # None /\ Running(r)
           THEN (Goto(p, "commit") \/ Goto(p, "settle")) /\ UNCHANGED manager
           ELSE Goto(p, "finish") /\ manager' = [manager EXCEPT ![Target(p)] = None]
        /\ UNCHANGED <<known, slotVars, runVars, callVars, logVars, strayVars, countVars>>

\* finalize_thread_spawn stores the session unless the id is taken; starting
\* the session may fail too.
ResumeFinish(p) ==
    /\ pc[p] = "finish"
    /\ \/ /\ manager[Target(p)] = None
          /\ NewRuntime(Target(p), {"init", "idle"})
          /\ Goto(p, "commit")
          /\ UNCHANGED <<closing, queue, inbox>>
       \/ Goto(p, "settle") /\ UNCHANGED <<manager, runVars>>
    /\ UNCHANGED <<known, slotVars, callVars, logVars, strayVars, countVars>>

\* The error branch: the slot is dropped; if the agent is loaded by now, it
\* is touched and used.
ResumeSettle(p) ==
    /\ pc[p] = "settle"
    /\ ReleaseSlot
    /\ IF manager[Target(p)] # None THEN Goto(p, "touch") /\ UNCHANGED callVars
       ELSE Finish(p)
    /\ UNCHANGED <<agentVars, residents, runVars, logVars, strayVars, countVars>>

-----------------------------------------------------------------------------
(* Sending the message.                                                    *)

\* send_op only queues the Op; behind Op::Shutdown it is accepted, too, and
\* never handled.
Send(p) ==
    LET r == manager[Target(p)]
    IN  /\ pc[p] = "send"
        /\ r # None /\ Running(r)
        /\ accepted' = accepted \cup {op[p].msg}
        /\ queue' = IF r \in closing THEN queue
                    ELSE [queue EXCEPT ![r] = @ \cup {op[p].msg}]
        /\ Exposes(IF Doomed(r) THEN {op[p].msg} ELSE {})
        /\ Finish(p)
        /\ UNCHANGED <<agentVars, slotVars, life, closing, inbox, nextRuntime, of, recorded,
                       strayVars, countVars>>

\* ThreadNotFound, or no execution capacity for a new turn.
SendFails(p) ==
    /\ pc[p] = "send"
    /\ manager[Target(p)] = None \/ op[p].kind = "message"
    /\ Finish(p)
    /\ UNCHANGED <<agentVars, slotVars, runVars, logVars, strayVars, countVars>>

\* InternalAgentDied: handle_thread_request_result removes the thread ...
SendFindsDead(p) ==
    LET r == manager[Target(p)]
    IN  /\ pc[p] = "send"
        /\ r # None /\ ~Running(r)
        /\ Goto(p, "bury")
        /\ UNCHANGED <<agentVars, slotVars, runVars, callVars, logVars, strayVars, countVars>>

BuryRemove(p) ==
    /\ pc[p] = "bury"
    /\ manager' = [manager EXCEPT ![Target(p)] = None]
    /\ Goto(p, "forget")
    /\ UNCHANGED <<known, slotVars, runVars, callVars, logVars, strayVars, countVars>>

\* ... forgets its residency, which may be that of a session loaded since ...
BuryForget(p) ==
    /\ pc[p] = "forget"
    /\ residents' = Without(Target(p))
    /\ LetGo(IF manager[Target(p)] = None THEN {} ELSE {Target(p)})
    /\ Goto(p, "unregister")
    /\ UNCHANGED <<agentVars, pendingSlots, runVars, callVars, logVars, countVars>>

\* ... and releases it in the registry.
BuryRelease(p) ==
    /\ pc[p] = "unregister"
    /\ known' = known \ {Target(p)}
    /\ Finish(p)
    /\ UNCHANGED <<manager, slotVars, runVars, logVars, strayVars, countVars>>

-----------------------------------------------------------------------------
(* The caller's turn is aborted: the future of its tool call is dropped.   *)

\* Where a call awaits.  (After Register a spawn commits at once.)
Awaits(p) ==
    \/ pc[p] \in {"ensure", "touch", "create", "register", "resume", "finish", "settle",
                  "send", "bury"} \cup CandPcs
    \/ pc[p] = "commit" /\ op[p].kind = "message"

\* Variant of Drop: the V2ResidencySlot has no Drop implementation.
DropKeepsSlot(p) ==
    /\ Awaits(p)
    /\ drops < MaxDrops /\ crashes + drops < MaxFaults
    /\ drops' = drops + 1
    /\ LetGo(InHand(p))
    /\ Finish(p)
    /\ UNCHANGED <<agentVars, slotVars, runVars, logVars, spawned, followUps, crashes>>

\* A slot is released by its Drop; a candidate is not put back, and a session
\* that was stored stays in the thread map.
Drop(p) ==
    /\ Awaits(p)
    /\ drops < MaxDrops /\ crashes + drops < MaxFaults
    /\ drops' = drops + 1
    /\ IF pc[p] \in SlotPcs THEN ReleaseSlot ELSE UNCHANGED pendingSlots
    /\ LetGo(InHand(p))
    /\ Finish(p)
    /\ UNCHANGED <<agentVars, residents, runVars, logVars, spawned, followUps, crashes>>

-----------------------------------------------------------------------------
(* The runtimes.                                                           *)

\* The session loop takes up what was submitted: a turn starts, or the mail
\* waits in the mailbox; either keeps the agent from being unloaded.
Receive(r) ==
    /\ life[r] \in {"init", "busy", "idle"}
    /\ queue[r] # {}
    /\ inbox' = [inbox EXCEPT ![r] = @ \cup queue[r]]
    /\ queue' = [queue EXCEPT ![r] = {}]
    /\ life' = [life EXCEPT ![r] = "busy"]
    /\ UNCHANGED <<agentVars, slotVars, closing, nextRuntime, of, pc, callVars, logVars,
                   strayVars, countVars>>

\* A turn records what it was given and ends with a final status.
Work(r) ==
    /\ life[r] = "busy"
    /\ recorded' = recorded \cup inbox[r]
    /\ inbox' = [inbox EXCEPT ![r] = {}]
    /\ life' = [life EXCEPT ![r] = "idle"]
    /\ UNCHANGED <<agentVars, slotVars, closing, queue, nextRuntime, of, pc, callVars,
                   accepted, exposed, strayVars, countVars>>

\* The session loop reaches Op::Shutdown, behind the Ops before it, and ends.
Stop(r) ==
    /\ r \in closing /\ Running(r) /\ queue[r] = {}
    /\ life' = [life EXCEPT ![r] = "stopped"]
    /\ inbox' = [inbox EXCEPT ![r] = {}]
    /\ UNCHANGED <<agentVars, slotVars, closing, queue, nextRuntime, of, pc, callVars,
                   logVars, strayVars, countVars>>

\* The session loop ends on its own.
Crash(r) ==
    /\ life[r] \in {"init", "busy", "idle"}
    /\ crashes < MaxCrashes /\ crashes + drops < MaxFaults
    /\ crashes' = crashes + 1
    /\ life' = [life EXCEPT ![r] = "stopped"]
    /\ Exposes(queue[r] \cup inbox[r])
    /\ queue' = [queue EXCEPT ![r] = {}]
    /\ inbox' = [inbox EXCEPT ![r] = {}]
    /\ UNCHANGED <<agentVars, slotVars, closing, nextRuntime, of, pc, callVars,
                   accepted, recorded, strayVars, spawned, followUps, drops>>

-----------------------------------------------------------------------------
ToolCall(p) == Spawn(p) \/ \E t \in Threads : Message(p, t)

\* The steps a tool call takes once it is made.
CallerStep(p) ==
    \/ EnsureLoaded(p) \/ Touch(p)
    \/ TryReserve(p) \/ CountResidents(p) \/ PopCandidate(p) \/ CheckCandidate(p)
    \/ EvictSubmit(p) \/ EvictWait(p) \/ EvictRemove(p)
    \/ CreateThread(p) \/ CreateFails(p) \/ Register(p) \/ Commit(p)
    \/ ResumeBegin(p) \/ ResumeFinish(p) \/ ResumeSettle(p)
    \/ Send(p) \/ SendFails(p) \/ SendFindsDead(p)
    \/ BuryRemove(p) \/ BuryForget(p) \/ BuryRelease(p)

Next ==
    \/ \E p \in Callers : ToolCall(p) \/ CallerStep(p) \/ Drop(p)
    \/ \E r \in Runtimes : Receive(r) \/ Work(r) \/ Stop(r) \/ Crash(r)

Spec == Init /\ [][Next]_vars

\* tokio polls every ready task, and a session loop reaches its queued Shutdown.
FairSpec ==
    /\ Spec
    /\ \A p \in Callers : WF_vars(CallerStep(p))
    /\ \A r \in Runtimes : WF_vars(Receive(r)) /\ WF_vars(Stop(r))

-----------------------------------------------------------------------------
(* Properties.                                                             *)

Holders == {p \in Callers : pc[p] \in SlotPcs}

\* Every path out of reserve_slot, the failing ones too, commits or drops its
\* V2ResidencySlot once: no slot leaks and none is given back twice.
SlotsExact == pendingSlots = Cardinality(Holders)

\* The threads that are resident, being loaded, being looked at for eviction,
\* or let go of.
Claimed ==
    ResidentSet \cup {Target(p) : p \in Holders}
    \cup {cand[p].thread : p \in {q \in Callers : pc[q] \in CandPcs}}
    \cup strays

\* pop_lru_candidate hides a candidate from the count while it is looked at, so
\* concurrent callers may overshoot the capacity, but only by one for each
\* caller besides the one that reserves, and by one for each agent that was
\* let go of, however often they repeat it.
OvershootBounded == Cardinality(Claimed) < Capacity + Cardinality(Callers) + escapes

\* A loaded agent is where the least-recently-used scan will find it, or in
\* the hands of a caller that is about to put it there or to unload it.  The
\* only others are the agents that a call held when it was dropped with its
\* turn, and those whose residency a burial forgot after they were reloaded.
LoadedAccounted ==
    \A t \in Threads : manager[t] # None =>
        t \in ResidentSet \cup strays \cup UNION {InHand(p) : p \in Callers}

\* remove_thread goes by the thread id, after an eviction and after a burial,
\* so it may hit a replacement; but a session that runs and that its thread id
\* does not lead to has replaced one that ended: no removal ever takes the
\* session away that the remover was waiting for or an agent's only session.
RunningReachable ==
    \A r \in Runtimes : life[r] \in {"init", "busy", "idle"} =>
        \/ manager[of[r]] = r
        \/ \E r0 \in Runtimes : r0 < r /\ of[r0] = of[r] /\ life[r0] = "stopped"

\* "The message will be delivered promptly": a message the sender was told is
\* sent is recorded, or waits in a session, unless its session crashed, or was
\* already found idle by an eviction when the message was sent or still
\* queued.  is_unloadable protects every message the session has taken up.
AcceptedNotLost ==
    \A m \in accepted :
        m \in recorded \cup exposed \cup UNION {queue[r] \cup inbox[r] : r \in Runtimes}

\* Every tool call comes to an end: the reservation loop does not spin and
\* nobody waits for a session that will not stop.
CallsEnd == \A p \in Callers : pc[p] # "idle" ~> pc[p] = "idle"

=============================================================================
