--------------------------- MODULE AgentRegistry ---------------------------
(***************************************************************************)
(* The registry of a session's agents and the slots it hands out, under    *)
(* the calls that share it: spawns and resumes (which hold a               *)
(* SpawnReservation from the slot to the registration), the restoration of *)
(* stored agents, closes, and threads that are unloaded behind its back.   *)
(*   src/core/src/agent/registry.rs                                        *)
(*   src/core/src/agent/control.rs, control/spawn.rs, control/legacy.rs    *)
(* Calls run on different threads of the runtime; an action is what one    *)
(* holds a lock for, or one atomic operation on the count.                 *)
(***************************************************************************)
EXTENDS Integers, FiniteSets

CONSTANTS
    Threads,      \* ids of agent threads
    Paths,        \* agent paths below the root
    Callers,      \* concurrent spawn, resume and restore calls
    Closers,      \* concurrent calls that end an agent
    MaxThreads,   \* agents.max_threads
    MaxRestarts,  \* bound: restarts of the process
    NoPath,       \* a V1 agent has no path
    Unborn,       \* a thread id not yet given out
    Root,         \* the root thread
    RootPath,     \* AgentPath::ROOT
    None

Ids == Threads \cup {Root}

\* register_spawned_thread files an agent under its path, or thread:{id}.
Keys == Paths \cup Threads \cup {RootPath}

\* What the tree has under a key: nothing, a path reserved by a call (agent_id
\* is None), or an agent.
Vacant == None
Reserved == NoPath
Entries == {Vacant, Reserved} \cup Ids

ASSUME ConstantsAssumption ==
    /\ IsFiniteSet(Threads) /\ IsFiniteSet(Callers) /\ IsFiniteSet(Closers)
    /\ Callers \cap Closers = {}
    /\ MaxThreads \in Nat \ {0} /\ MaxRestarts \in Nat
    /\ Threads \cap Paths = {}
    /\ {Root, RootPath, None, NoPath, Unborn} \cap (Threads \cup Paths) = {}
    /\ Root # None /\ Root # NoPath /\ None # NoPath /\ Unborn # NoPath
    /\ None \notin Keys /\ NoPath \notin Keys

VARIABLES
    count,      \* total_count
    owed,       \* the calls that changed the maps and have their fetch_sub still to make
    tree,       \* agent_tree: key -> agent_id of its metadata
    paths,      \* thread_paths: id -> key
    live,       \* ThreadManagerState::threads
    stored,     \* thread store: the path a thread was created with
    open,       \* spawn edges with status Open
    call,       \* caller -> its spawn, resume or restore
    closing,    \* closer -> the thread it has taken out of live
    restarts

regVars == <<count, owed, tree, paths>>
vars == <<regVars, live, stored, open, call, closing, restarts>>

Idle == [pc |-> "idle", kind |-> "none", thread |-> None, path |-> NoPath]

Init ==
    /\ count = 0 /\ owed = {}
    /\ tree = [k \in Keys |-> Vacant]
    /\ paths = [t \in Ids |-> None]
    /\ live = {} /\ open = {}
    /\ stored = [t \in Threads |-> Unborn]
    /\ call = [c \in Callers |-> Idle]
    /\ closing = [k \in Closers |-> None]
    /\ restarts = 0

-----------------------------------------------------------------------------
(* Operations of the registry *)

Key(t, p) == IF p = NoPath THEN t ELSE p

\* register_spawned_thread: the thread leaves the key it had, and the thread
\* that had this key is forgotten. The count is not touched.
Register(t, k) ==
    /\ tree' = [j \in Keys |-> CASE j = k -> t
                                 [] j # k /\ j = paths[t] -> Vacant
                                 [] OTHER -> tree[j]]
    /\ paths' = [u \in Ids |-> CASE u = t -> k
                                 [] u # t /\ u = tree[k] -> None
                                 [] OTHER -> paths[u]]

\* A bug to exclude: a slot is given back whether or not an agent was removed.
ReleaseAlways(k, t) ==
    /\ paths' = [paths EXCEPT ![t] = None]
    /\ tree' = [j \in Keys |-> IF j = paths[t] THEN Vacant ELSE tree[j]]
    /\ owed' = owed \cup {k}
    /\ UNCHANGED count

\* A bug to exclude: the agent leaves the tree and its thread still points there.
ReleaseTreeOnly(k, t) ==
    /\ tree' = [j \in Keys |-> IF j = paths[t] THEN Vacant ELSE tree[j]]
    /\ owed' = IF paths[t] \in {None, RootPath} THEN owed ELSE owed \cup {k}
    /\ UNCHANGED <<count, paths>>

\* release_spawned_thread: the root has no slot, and neither has an unknown id.
Release(k, t) ==
    /\ paths' = [paths EXCEPT ![t] = None]
    /\ tree' = [j \in Keys |-> IF j = paths[t] THEN Vacant ELSE tree[j]]
    /\ owed' = IF paths[t] \in {None, RootPath} THEN owed ELSE owed \cup {k}
    /\ UNCHANGED count

\* The fetch_sub that follows a release or a drop.
Settle(a) ==
    /\ a \in owed
    /\ owed' = owed \ {a} /\ count' = count - 1
    /\ UNCHANGED <<tree, paths, live, stored, open, call, closing, restarts>>

\* A session without a parent, or the first spawn below it, registers the root.
RegisterRoot ==
    /\ paths[Root] = None
    /\ tree' = [tree EXCEPT ![RootPath] = Root]
    /\ paths' = [paths EXCEPT ![Root] = RootPath]
    /\ UNCHANGED <<count, owed, live, stored, open, call, closing, restarts>>

-----------------------------------------------------------------------------
(* Spawn, resume and restore *)

Begin(c, kind, t, p) ==
    /\ call[c] = Idle /\ c \notin owed
    /\ call' = [call EXCEPT ![c] = [pc |-> "begun", kind |-> kind, thread |-> t, path |-> p]]
    /\ UNCHANGED <<regVars, live, stored, open, closing, restarts>>

\* spawn_agent_internal: a V1 agent without a path, a V2 agent with one.
Spawn(c, t, p) ==
    /\ stored[t] = Unborn /\ \A d \in Callers : call[d].thread # t
    /\ Begin(c, "spawn", t, p)

\* resume_single_agent_from_rollout, for a thread that was seen not to run.
Resume(c, t) ==
    /\ stored[t] # Unborn /\ t \notin live
    /\ Begin(c, "resume", t, stored[t])

\* restore_v2_agent_metadata, for an open descendant seen not to be known.
Restore(c, t) ==
    /\ t \in open /\ stored[t] \in Paths /\ paths[t] = None
    /\ Begin(c, "restore", t, stored[t])

\* V2 spawns are limited by residency and restored agents not at all.
Limited(c) == call[c].kind = "resume" \/ (call[c].kind = "spawn" /\ call[c].path = NoPath)

\* A bug to exclude: the limit itself still lets one more in.
ReserveSlotInclusive(c) ==
    /\ call[c].pc = "begun"
    /\ IF Limited(c) /\ count > MaxThreads
       THEN call' = [call EXCEPT ![c] = Idle] /\ UNCHANGED count
       ELSE call' = [call EXCEPT ![c].pc = "reserved"] /\ count' = count + 1
    /\ UNCHANGED <<owed, tree, paths, live, stored, open, closing, restarts>>

\* reserve_spawn_slot: compare_exchange below the limit, or fetch_add.
ReserveSlot(c) ==
    /\ call[c].pc = "begun"
    /\ IF Limited(c) /\ count >= MaxThreads
       THEN call' = [call EXCEPT ![c] = Idle] /\ UNCHANGED count
       ELSE call' = [call EXCEPT ![c].pc = "reserved"] /\ count' = count + 1
    /\ UNCHANGED <<owed, tree, paths, live, stored, open, closing, restarts>>

\* A bug to exclude: a failed call keeps the path it had reserved.
DropKeepingPath(c) ==
    /\ call' = [call EXCEPT ![c] = Idle]
    /\ owed' = owed \cup {c}
    /\ UNCHANGED <<count, tree, paths, live, stored, open, closing, restarts>>

\* Drop of an uncommitted SpawnReservation.
Drop(c) ==
    /\ call' = [call EXCEPT ![c] = Idle]
    /\ tree' = [k \in Keys |-> IF /\ call[c].pc \in {"prepared", "created"}
                                  /\ k = call[c].path /\ tree[k] = Reserved
                               THEN Vacant ELSE tree[k]]
    /\ owed' = owed \cup {c}
    /\ UNCHANGED <<count, paths, live, stored, open, closing, restarts>>

\* prepare_agent_metadata: an occupied path ends the call.
Prepare(c) ==
    /\ call[c].pc = "reserved"
    /\ IF call[c].path # NoPath /\ tree[call[c].path] # Vacant
       THEN Drop(c)
       ELSE /\ call' = [call EXCEPT ![c].pc = "prepared"]
            /\ tree' = [k \in Keys |-> IF k = call[c].path THEN Reserved ELSE tree[k]]
            /\ UNCHANGED <<count, owed, paths, live, stored, open, closing, restarts>>

\* The call fails (no nickname, a store error, a session that does not start)
\* or its future is dropped with the turn that made it, which it may be with
\* the thread already in the thread map.
Fail(c) ==
    /\ call[c].pc \in {"reserved", "prepared", "created"}
    /\ Drop(c)

\* spawn_thread hands a resume the runtime it finds; a different
\* rollout path, or a runtime that came up since, makes the call fail
\* (finalize_thread_spawn refuses a second runtime of a thread).
Create(c) ==
    /\ call[c].pc = "prepared" /\ call[c].kind # "restore"
    /\ \/ call[c].thread \in live /\ Drop(c)
       \/ /\ call[c].thread \in live /\ call[c].kind = "resume"
          /\ call' = [call EXCEPT ![c].pc = "created"]
          /\ UNCHANGED <<regVars, live, stored, open, closing, restarts>>
       \/ /\ call[c].thread \notin live
          /\ live' = live \cup {call[c].thread}
          /\ stored' = [stored EXCEPT ![call[c].thread] = call[c].path]
          /\ call' = [call EXCEPT ![c].pc = "created"]
          /\ UNCHANGED <<regVars, open, closing, restarts>>

\* SpawnReservation::commit
Commit(c) ==
    /\ \/ call[c].pc = "created"
       \/ call[c].pc = "prepared" /\ call[c].kind = "restore"
    /\ Register(call[c].thread, Key(call[c].thread, call[c].path))
    /\ call' = [call EXCEPT ![c] = IF @.kind = "restore" THEN Idle
                                   ELSE [@ EXCEPT !.pc = "committed"]]
    /\ UNCHANGED <<count, owed, live, stored, open, closing, restarts>>

\* The spawn edge of a new runtime is written open, unless the store fails or
\* the future is dropped.
PersistEdge(c) ==
    /\ call[c].pc = "committed"
    /\ open' \in {open, open \cup {call[c].thread}}
    /\ call' = [call EXCEPT ![c] = Idle]
    /\ UNCHANGED <<regVars, live, stored, closing, restarts>>

-----------------------------------------------------------------------------
(* Ends of agents *)

\* close_agent marks the spawn edge closed before it shuts the agent down.
CloseEdge(t) ==
    /\ t \in open
    /\ open' = open \ {t}
    /\ UNCHANGED <<regVars, live, stored, call, closing, restarts>>

\* shutdown_live_agent, or a request that met a dead session: the runtime
\* leaves the thread map first.
CloseBegin(k, t) ==
    /\ closing[k] = None /\ k \notin owed
    /\ t \in {Root} \cup {u \in Threads : stored[u] # Unborn}
    /\ closing' = [closing EXCEPT ![k] = t]
    /\ live' = live \ {t}
    /\ UNCHANGED <<regVars, stored, open, call, restarts>>

CloseRelease(k) ==
    /\ closing[k] # None
    /\ Release(k, closing[k])
    /\ closing' = [closing EXCEPT ![k] = None]
    /\ UNCHANGED <<live, stored, open, call, restarts>>

\* The app server unloads an idle thread nobody is subscribed to; the registry
\* is not told.
Unload(t) ==
    /\ t \in live
    /\ live' = live \ {t}
    /\ UNCHANGED <<regVars, stored, open, call, closing, restarts>>

\* The process ends, at any moment, and starts again with an empty registry.
Restart ==
    /\ restarts < MaxRestarts
    /\ restarts' = restarts + 1
    /\ count' = 0 /\ owed' = {}
    /\ tree' = [k \in Keys |-> Vacant]
    /\ paths' = [t \in Ids |-> None]
    /\ live' = {}
    /\ call' = [c \in Callers |-> Idle]
    /\ closing' = [k \in Closers |-> None]
    /\ UNCHANGED <<stored, open>>

CallStep(c) == ReserveSlot(c) \/ Prepare(c) \/ Create(c) \/ Commit(c) \/ PersistEdge(c)

Next ==
    \/ \E c \in Callers, t \in Threads :
          \/ \E p \in Paths \cup {NoPath} : Spawn(c, t, p)
          \/ Resume(c, t) \/ Restore(c, t)
    \/ \E c \in Callers : CallStep(c) \/ Fail(c)
    \/ \E k \in Closers : CloseRelease(k) \/ \E t \in Ids : CloseBegin(k, t)
    \/ \E t \in Threads : Unload(t) \/ CloseEdge(t)
    \/ \E a \in Callers \cup Closers : Settle(a)
    \/ RegisterRoot \/ Restart

Spec == Init /\ [][Next]_vars

-----------------------------------------------------------------------------
(* Properties *)

Calls == {Idle} \cup
    [pc : {"begun", "reserved", "prepared", "created", "committed"},
     kind : {"spawn", "resume", "restore"}, thread : Threads, path : Paths \cup {NoPath}]

\* The values the maps, calls and stores can have.
Shape ==
    /\ owed \subseteq Callers \cup Closers
    /\ tree \in [Keys -> Entries]
    /\ paths \in [Ids -> Keys \cup {None}]
    /\ live \subseteq Threads /\ open \subseteq Threads
    /\ stored \in [Threads -> Paths \cup {NoPath, Unborn}]
    /\ call \in [Callers -> Calls]
    /\ closing \in [Closers -> Ids \cup {None}]
    /\ restarts \in 0..MaxRestarts

\* The type invariant; a total_count (usize) that is taken below zero would wrap.
TypeOK == count \in Nat /\ Shape

\* agent_tree and thread_paths are inverse to each other, however agents are
\* closed, resumed and registered over one another: an id leads to the metadata
\* that has this id, and an agent can be found by its thread.
Identity ==
    \A t \in Ids, k \in Keys : paths[t] = k <=> tree[k] = t

\* The calls that have their path in the tree.
Holds(c, p) == call[c].pc \in {"prepared", "created"} /\ call[c].path = p /\ p # NoPath

\* A reserved path belongs to exactly one call in progress, which finds it
\* reserved until it commits or fails: no name is taken from a call, and none is
\* left behind that no call will ever give back.
PathsOwned ==
    /\ \A k \in Keys : tree[k] = Reserved => \E c \in Callers : Holds(c, k)
    /\ \A c \in Callers, k \in Keys :
          Holds(c, k) => /\ tree[k] = Reserved
                         /\ \A d \in Callers : Holds(d, k) => d = c

Registered == {t \in Threads : paths[t] # None}
Holding == {c \in Callers : call[c].pc \in {"reserved", "prepared", "created"}}

\* Every registered agent, every reservation and every decrement to come has its
\* unit in the count: it cannot wrap below zero, and a limited spawn is never
\* let in because somebody's slot was given back twice.
CountCovers == Cardinality(Registered) + Cardinality(Holding) + Cardinality(owed) <= count

V1Registered == {t \in Registered : stored[t] = NoPath}
V1Holding == {c \in Holding : call[c].path = NoPath}

\* agents.max_threads is kept: the V1 agents that are registered or being
\* created never outnumber it, whatever closes, unloads, resumes, restarts and
\* failed spawns overlap, and although V2 agents share the count without limit.
LimitKept == Cardinality(V1Registered) + Cardinality(V1Holding) <= MaxThreads
=============================================================================
