------------------------ MODULE AgentResidencyProofs ------------------------
(***************************************************************************)
(* Proofs about AgentResidency, for every number of callers, agents,       *)
(* messages and runtimes and every capacity: the state keeps its type, no  *)
(* thread is a resident twice, and the pending slots are exactly the slots *)
(* that callers hold, so no path of a spawn or of a reload leaks its       *)
(* reservation or gives it back twice.                                     *)
(*                                                                         *)
(* Neither is inductive alone: a caller that moves on uses the thread, the *)
(* message and the candidate it stored steps ago. Control says that these  *)
(* are there, and SlotsExact needs that callers are finitely many and that *)
(* a caller is in one place.                                               *)
(*                                                                         *)
(* With messages, reloads, crashes and dropped calls at will also:         *)
(*   - LoadedAccounted, which is inductive with the type invariant;        *)
(*   - OvershootBounded, from the count of what is claimed at the moment a *)
(*     slot is reserved: no other step claims a thread nobody claimed,     *)
(*     since LoadedAccounted says who claims an agent that is touched;     *)
(*   - RunningReachable, with SInv: nobody else knows the thread id of an  *)
(*     agent before it is created, a thread id leads to the latest of its  *)
(*     sessions, and who removes a session by thread id has seen one of    *)
(*     the thread's sessions ended;                                        *)
(*   - AcceptedNotLost, with DInv: only a busy session has taken up        *)
(*     messages, and what a session that has to stop was given is exposed. *)
(***************************************************************************)
EXTENDS AgentResidency, FiniteSetTheorems, SequenceTheorems, TLAPS

Control ==
    \A p \in Callers :
        /\ pc[p] # "idle" => op[p].thread \in Threads /\ op[p].msg \in Msgs
        /\ pc[p] \in CandPcs => cand[p].thread \in Threads
        /\ pc[p] \in EvictPcs => cand[p].runtime \in Runtimes

IInv == TypeOK /\ Control /\ SlotsExact

\* None is neither a thread nor a runtime nor a message.
LEMMA NoneFacts == None \notin Threads /\ None \notin Runtimes /\ None \notin Msgs
BY ResidencyAssumption DEF ResidencyAssumption, None, Threads, Runtimes, Msgs

-----------------------------------------------------------------------------
(* The residents stay distinct.                                            *)

\* retain(|resident| resident != t) keeps the others, once each.
LEMMA WithoutFacts ==
    ASSUME NEW t, residents \in Seq(Threads), Distinct(residents)
    PROVE  /\ Without(t) \in Seq(Threads) /\ Distinct(Without(t))
           /\ \A i \in 1..Len(Without(t)) : Without(t)[i] # t
<1> DEFINE n == Len(residents)
           at == CHOOSE i \in 1..n : residents[i] = t
           short == [i \in 1..(n - 1) |-> residents[IF i < at THEN i ELSE i + 1]]
<1>n. n \in Nat /\ residents \in [1..n -> Threads] BY LenProperties
<1>1. CASE t \notin ResidentSet
    <2>1. Without(t) = residents BY <1>1 DEF Without
    <2>2. QED BY <2>1, <1>1 DEF ResidentSet
<1>2. CASE t \in ResidentSet
    <2>1. Without(t) = short BY <1>2 DEF Without
    <2>2. at \in 1..n /\ residents[at] = t BY <1>2 DEF ResidentSet
    <2>3. n - 1 \in Nat BY <1>n, <2>2
    <2>m. \A i \in 1..(n - 1) : (IF i < at THEN i ELSE i + 1) \in (1..n) \ {at}
        <3> HIDE DEF at, n
        <3>1. QED BY <1>n, <2>2
    <2>4. short \in [1..(n - 1) -> Threads] BY <1>n, <2>m
    <2>5. short \in Seq(Threads) BY <2>3, <2>4, SeqDef
    <2>6. Len(short) = n - 1 BY <2>3, <2>4, <2>5, LenProperties
    <2>7. \A i \in 1..(n - 1) : short[i] # t
        BY <1>n, <2>2, <2>m DEF Distinct
    <2>8. \A i, j \in 1..(n - 1) : i # j => short[i] # short[j]
        <3> SUFFICES ASSUME NEW i \in 1..(n - 1), NEW j \in 1..(n - 1), i # j
                     PROVE  short[i] # short[j]
            OBVIOUS
        <3> DEFINE a == IF i < at THEN i ELSE i + 1
                   b == IF j < at THEN j ELSE j + 1
        <3>1. a \in 1..n /\ b \in 1..n BY <2>m
        <3>2. a # b BY <1>n, <2>2
        <3>3. short[i] = residents[a] /\ short[j] = residents[b] OBVIOUS
        <3>4. QED BY <3>1, <3>2, <3>3 DEF Distinct
    <2>9. QED BY <2>1, <2>5, <2>6, <2>7, <2>8 DEF Distinct
<1>3. QED BY <1>1, <1>2

\* touch_resident keeps the residents distinct.
LEMMA TouchFacts ==
    ASSUME NEW t \in Threads, residents \in Seq(Threads), Distinct(residents)
    PROVE  TouchResident(t) \in Seq(Threads) /\ Distinct(TouchResident(t))
<1>1. Without(t) \in Seq(Threads) /\ Distinct(Without(t))
      /\ \A i \in 1..Len(Without(t)) : Without(t)[i] # t
    BY WithoutFacts
<1> DEFINE w == Without(t)
<1> HIDE DEF w
<1>2. w \in Seq(Threads) /\ Distinct(w) /\ \A i \in 1..Len(w) : w[i] # t BY <1>1 DEF w
<1>3. Append(w, t) \in Seq(Threads) /\ Distinct(Append(w, t)) BY <1>2 DEF Distinct
<1>4. QED BY <1>3 DEF TouchResident, w

\* Neither taking the first resident nor moving it to the back repeats one.
LEMMA RotatedFacts ==
    ASSUME NEW p, residents \in Seq(Threads), Distinct(residents)
    PROVE  /\ Rotated(p) \in Seq(Threads) /\ Distinct(Rotated(p))
           /\ Rotated(p) # <<>> => /\ Head(Rotated(p)) \in Threads
                                   /\ Tail(Rotated(p)) \in Seq(Threads)
                                   /\ Distinct(Tail(Rotated(p)))
<1>1. ASSUME NEW s \in Seq(Threads), Distinct(s), s # <<>>
      PROVE  Head(s) \in Threads /\ Tail(s) \in Seq(Threads) /\ Distinct(Tail(s))
    BY <1>1 DEF Distinct
<1>2. ASSUME NEW s \in Seq(Threads), Distinct(s), s # <<>>
      PROVE  Append(Tail(s), Head(s)) \in Seq(Threads) /\ Distinct(Append(Tail(s), Head(s)))
    BY <1>2 DEF Distinct
<1>3. Rotated(p) \in Seq(Threads) /\ Distinct(Rotated(p)) BY <1>2 DEF Rotated
<1>4. QED BY <1>1, <1>3

-----------------------------------------------------------------------------
(* What one caller's step does to the pending slots and to the callers.    *)

\* Cardinality counts the callers, so that it is a natural number.
LEMMA HoldersFinite == IsFiniteSet(Holders) /\ Cardinality(Holders) \in Nat
<1>1. IsFiniteSet(Holders) BY ResidencyAssumption, FS_Subset DEF ResidencyAssumption, Holders
<1>2. QED BY <1>1, FS_CardinalityType

\* A caller that goes on without taking or giving back a slot.
LEMMA SlotKept ==
    ASSUME CallersOK, SlotsExact, NEW p \in Callers, NEW w \in PcValues, Goto(p, w),
           pc[p] \in SlotPcs <=> w \in SlotPcs, pendingSlots' = pendingSlots
    PROVE  SlotsExact'
<1>1. Holders' = Holders BY DEF CallersOK, Goto, Holders
<1>2. QED BY <1>1 DEF SlotsExact

\* A caller that reserves a slot.
LEMMA SlotTaken ==
    ASSUME CallersOK, SlotsExact, NEW p \in Callers, NEW w \in SlotPcs, Goto(p, w),
           pc[p] \notin SlotPcs, pendingSlots' = pendingSlots + 1
    PROVE  SlotsExact'
<1>1. Holders' = Holders \cup {p} /\ p \notin Holders BY DEF CallersOK, Goto, Holders
<1>2. QED BY <1>1, HoldersFinite, FS_AddElement DEF SlotsExact

\* A caller that commits or drops its slot.
LEMMA SlotGiven ==
    ASSUME CallersOK, SlotsExact, NEW p \in Callers, NEW w \in PcValues \ SlotPcs, Goto(p, w),
           pc[p] \in SlotPcs, ReleaseSlot
    PROVE  SlotsExact'
<1>1. Holders' = Holders \ {p} /\ p \in Holders BY DEF CallersOK, Goto, Holders
<1>2. Cardinality(Holders) # 0 BY <1>1, HoldersFinite, FS_EmptySet
<1>3. Cardinality(Holders') = Cardinality(Holders) - 1
    BY <1>1, HoldersFinite, FS_RemoveElement
<1>4. QED BY <1>2, <1>3, HoldersFinite DEF SlotsExact, ReleaseSlot

\* A caller that goes on with the operation and the candidate it has.
LEMMA MovesOn ==
    ASSUME CallersOK, Control, NEW p \in Callers, NEW w \in PcValues, Goto(p, w),
           UNCHANGED callVars, pc[p] # "idle",
           w \in CandPcs => pc[p] \in {"evict", "wait"}
    PROVE  CallersOK' /\ Control'
BY DEF CallersOK, Control, Goto, callVars, CandPcs, EvictPcs

\* A tool call that is over.
LEMMA FinishFacts ==
    ASSUME CallersOK, Control, NEW p \in Callers, Finish(p)
    PROVE  CallersOK' /\ Control' /\ Goto(p, "idle")
BY DEF CallersOK, Control, Finish, Goto, PcValues, NoOp, NoCand, CandPcs, EvictPcs

\* A new session is stored under its thread id.
LEMMA NewRuntimeFacts ==
    ASSUME ThreadsOK, RuntimesOK, NEW t, NEW S \in SUBSET {"init", "idle"}, NewRuntime(t, S)
    PROVE  /\ manager' \in [Threads -> Runtimes \cup {None}]
           /\ t \in Threads /\ UNCHANGED <<closing, queue, inbox>> => RuntimesOK'
<1>1. nextRuntime \in Runtimes /\ nextRuntime' = nextRuntime + 1
      /\ nextRuntime' \in 1..(MaxRuntimes + 1)
    BY ResidencyAssumption DEF ResidencyAssumption, NewRuntime, RuntimesOK, Runtimes
<1>2. PICK s \in S : life' = [life EXCEPT ![nextRuntime] = s] BY DEF NewRuntime
<1>3. manager' \in [Threads -> Runtimes \cup {None}] BY <1>1 DEF NewRuntime, ThreadsOK
<1>4. ASSUME t \in Threads, UNCHANGED <<closing, queue, inbox>> PROVE RuntimesOK'
    BY <1>1, <1>2, <1>4 DEF RuntimesOK, NewRuntime
<1>5. QED BY <1>3, <1>4

\* What a call holds when it is dropped, and letting go of it.
LEMMA InHandFacts ==
    ASSUME Control, NEW p \in Callers
    PROVE  InHand(p) \subseteq Threads /\ IsFiniteSet(InHand(p)) /\ Cardinality(InHand(p)) \in Nat
<1>1. \/ InHand(p) = {}
      \/ pc[p] \in CandPcs /\ InHand(p) = {cand[p].thread}
      \/ pc[p] \in {"register", "commit"} /\ InHand(p) = {Target(p)}
    BY DEF InHand
<1>2. InHand(p) \subseteq Threads BY <1>1 DEF Control, Target
<1>3. IsFiniteSet({}) /\ IsFiniteSet({cand[p].thread}) /\ IsFiniteSet({Target(p)})
    BY FS_EmptySet, FS_Singleton
<1>4. IsFiniteSet(InHand(p)) BY <1>1, <1>3
<1> QED BY <1>2, <1>4, FS_CardinalityType

LEMMA LetGoFacts ==
    ASSUME LogOK, NEW S, S \subseteq Threads, IsFiniteSet(S), LetGo(S),
           UNCHANGED <<logVars, countVars>>
    PROVE  LogOK'
<1>1. Cardinality(S) \in Nat BY FS_CardinalityType
<1> QED BY <1>1 DEF LogOK, LetGo, logVars, countVars

-----------------------------------------------------------------------------
(* Every action keeps the inductive invariant.                             *)

LEMMA SpawnKeeps ==
    ASSUME IInv, NEW p \in Callers, Spawn(p)
    PROVE  IInv'
<1> USE DEF IInv, TypeOK
<1>1. ThreadsOK' /\ ResidencyOK' /\ RuntimesOK'
    BY DEF Spawn, ThreadsOK, ResidencyOK, RuntimesOK, agentVars, slotVars, runVars, Distinct
<1>2. LogOK'
    BY ResidencyAssumption DEF ResidencyAssumption, Spawn, LogOK, logVars, strayVars
<1>3. CallersOK' /\ Control'
    <2>1. NewMsg \in Msgs /\ spawned + 1 \in Threads
        BY ResidencyAssumption DEF ResidencyAssumption, NewMsg, Msgs, Spawn, LogOK, Threads
    <2>2. PICK x \in [kind : {"none", "spawn", "message"}, thread : Threads, msg : Msgs] :
                op' = [op EXCEPT ![p] = x]
        BY <2>1 DEF Spawn
    <2>3. /\ pc[p] = "idle" /\ pc' = [pc EXCEPT ![p] = "reserve"]
          /\ UNCHANGED <<left, cand>>
        BY DEF Spawn, Goto
    <2>4. CallersOK' BY <2>2, <2>3 DEF CallersOK, PcValues
    <2>5. Control' BY <2>2, <2>3, <2>4 DEF CallersOK, Control, CandPcs, EvictPcs
    <2>6. QED BY <2>4, <2>5
<1>4. SlotsExact'
    BY SlotKept DEF Spawn, slotVars, PcValues, SlotPcs, CandPcs, EvictPcs
<1>5. QED BY <1>1, <1>2, <1>3, <1>4

LEMMA MessageKeeps ==
    ASSUME IInv, NEW p \in Callers, NEW t \in Threads, Message(p, t)
    PROVE  IInv'
<1> USE DEF IInv, TypeOK
<1>1. ThreadsOK' /\ ResidencyOK' /\ RuntimesOK'
    BY DEF Message, ThreadsOK, ResidencyOK, RuntimesOK, agentVars, slotVars, runVars, Distinct
<1>2. LogOK'
    BY ResidencyAssumption DEF ResidencyAssumption, Message, LogOK, logVars, strayVars
<1>3. CallersOK' /\ Control'
    <2>1. NewMsg \in Msgs /\ t \in Threads
        BY ResidencyAssumption DEF ResidencyAssumption, NewMsg, Msgs, Message, LogOK, Threads
    <2>2. PICK x \in [kind : {"none", "spawn", "message"}, thread : Threads, msg : Msgs] :
                op' = [op EXCEPT ![p] = x]
        BY <2>1 DEF Message
    <2>3. /\ pc[p] = "idle" /\ pc' = [pc EXCEPT ![p] = "ensure"]
          /\ UNCHANGED <<left, cand>>
        BY DEF Message, Goto
    <2>4. CallersOK' BY <2>2, <2>3 DEF CallersOK, PcValues
    <2>5. Control' BY <2>2, <2>3, <2>4 DEF CallersOK, Control, CandPcs, EvictPcs
    <2>6. QED BY <2>4, <2>5
<1>4. SlotsExact'
    BY SlotKept DEF Message, slotVars, PcValues, SlotPcs, CandPcs, EvictPcs
<1>5. QED BY <1>1, <1>2, <1>3, <1>4

LEMMA EnsureLoadedKeeps ==
    ASSUME IInv, NEW p \in Callers, EnsureLoaded(p)
    PROVE  IInv'
<1> USE DEF IInv, TypeOK
<1>1. ThreadsOK' /\ ResidencyOK' /\ RuntimesOK' /\ LogOK'
    BY DEF EnsureLoaded, ThreadsOK, ResidencyOK, RuntimesOK, LogOK, agentVars, slotVars, runVars,
       countVars, logVars, strayVars, Distinct
<1>2. CallersOK' /\ Control' /\ SlotsExact'
    <2>1. ASSUME NEW w \in {"touch", "reserve"}, Goto(p, w), UNCHANGED callVars
          PROVE  CallersOK' /\ Control' /\ SlotsExact'
        BY <2>1, MovesOn, SlotKept DEF EnsureLoaded, slotVars, PcValues, SlotPcs, CandPcs, EvictPcs
    <2>2. ASSUME Finish(p) PROVE CallersOK' /\ Control' /\ SlotsExact'
        BY <2>2, FinishFacts, SlotKept DEF EnsureLoaded, slotVars, PcValues, SlotPcs, CandPcs,
           EvictPcs
    <2>3. QED BY <2>1, <2>2 DEF EnsureLoaded
<1>3. QED BY <1>1, <1>2

LEMMA TouchKeeps ==
    ASSUME IInv, NEW p \in Callers, Touch(p)
    PROVE  IInv'
<1> USE DEF IInv, TypeOK
<1>1. ThreadsOK' /\ RuntimesOK' /\ LogOK'
    BY DEF Touch, TakeBack, ThreadsOK, RuntimesOK, LogOK, agentVars, runVars, countVars, logVars,
       strayVars
<1>2. ResidencyOK'
    <2>1. Target(p) \in Threads BY DEF Touch, Control, Target
    <2>2. QED BY <2>1, TouchFacts DEF Touch, ResidencyOK
<1>3. CallersOK' /\ Control' /\ SlotsExact'
    <2>1. pc[p] = "touch" /\ Goto(p, "send") /\ UNCHANGED callVars BY DEF Touch
    <2>2. CallersOK' /\ Control' BY <2>1, MovesOn DEF PcValues, SlotPcs, CandPcs, EvictPcs
    <2>3. SlotsExact' BY <2>1, SlotKept DEF Touch, slotVars, PcValues, SlotPcs, CandPcs, EvictPcs
    <2>4. QED BY <2>2, <2>3
<1>4. QED BY <1>1, <1>2, <1>3

LEMMA TryReserveKeeps ==
    ASSUME IInv, NEW p \in Callers, TryReserve(p)
    PROVE  IInv'
<1> USE DEF IInv, TypeOK
<1>1. ThreadsOK' /\ RuntimesOK' /\ LogOK'
    BY DEF TryReserve, ThreadsOK, RuntimesOK, LogOK, agentVars, runVars, countVars, logVars,
       strayVars
<1>2. ResidencyOK'
    BY DEF TryReserve, ResidencyOK, Distinct
<1>3. CallersOK' /\ Control' /\ SlotsExact'
    <2>1. pc[p] = "reserve" /\ UNCHANGED callVars BY DEF TryReserve
    <2>2. ASSUME NEW w \in {"create", "resume"}, Goto(p, w), pendingSlots' = pendingSlots + 1
          PROVE  CallersOK' /\ Control' /\ SlotsExact'
        BY <2>1, <2>2, MovesOn, SlotTaken DEF PcValues, SlotPcs, CandPcs, EvictPcs
    <2>3. ASSUME Goto(p, "count"), UNCHANGED pendingSlots
          PROVE  CallersOK' /\ Control' /\ SlotsExact'
        BY <2>1, <2>3, MovesOn, SlotKept DEF PcValues, SlotPcs, CandPcs, EvictPcs
    <2>4. QED BY <2>2, <2>3 DEF TryReserve
<1>4. QED BY <1>1, <1>2, <1>3

LEMMA CountResidentsKeeps ==
    ASSUME IInv, NEW p \in Callers, CountResidents(p)
    PROVE  IInv'
<1> USE DEF IInv, TypeOK
<1>1. ThreadsOK' /\ ResidencyOK' /\ RuntimesOK' /\ LogOK'
    BY DEF CountResidents, ThreadsOK, ResidencyOK, RuntimesOK, LogOK, agentVars, slotVars,
       runVars, countVars, logVars, strayVars, Distinct
<1>2. CallersOK' /\ Control'
    <2>1. Len(residents) \in Nat BY LenProperties DEF ResidencyOK
    <2>2. QED BY <2>1 DEF CountResidents, Goto, CallersOK, Control, PcValues, CandPcs, EvictPcs
<1>3. SlotsExact'
    BY SlotKept DEF CountResidents, slotVars, PcValues, SlotPcs, CandPcs, EvictPcs
<1>4. QED BY <1>1, <1>2, <1>3

LEMMA PopCandidateKeeps ==
    ASSUME IInv, NEW p \in Callers, PopCandidate(p)
    PROVE  IInv'
<1> USE DEF IInv, TypeOK
<1>1. ThreadsOK' /\ RuntimesOK' /\ LogOK'
    BY DEF PopCandidate, ThreadsOK, RuntimesOK, LogOK, agentVars, runVars, countVars, logVars,
       strayVars
<1>2. ResidencyOK'
    BY RotatedFacts DEF PopCandidate, ResidencyOK
<1>3. CallersOK' /\ Control' /\ SlotsExact'
    <2>1. CASE Finish(p)
        BY <2>1, FinishFacts, SlotKept DEF PopCandidate, PcValues, SlotPcs, CandPcs, EvictPcs
    <2>2. CASE ~Finish(p)
        <3>1. PICK x \in [thread : Threads, runtime : {None}] : cand' = [cand EXCEPT ![p] = x]
            BY <2>2, RotatedFacts DEF PopCandidate, ResidencyOK
        <3>2. /\ pc[p] = "pop" /\ Goto(p, "check") /\ UNCHANGED <<op, pendingSlots>>
              /\ left[p] # 0 /\ left' = [left EXCEPT ![p] = left[p] - 1]
            BY <2>2 DEF PopCandidate
        <3>k. left \in [Callers -> Nat] BY DEF CallersOK
        <3>j. left[p] - 1 \in Nat BY <3>2, <3>k
        <3>l. left' \in [Callers -> Nat] BY <3>2, <3>j, <3>k
        <3>3. CallersOK' BY <3>1, <3>2, <3>l DEF CallersOK, Goto, PcValues, CandPcs, EvictPcs
        <3>4. Control' BY <3>1, <3>2, <3>3 DEF CallersOK, Control, Goto, CandPcs, EvictPcs
        <3>5. SlotsExact' BY <3>2, SlotKept DEF PcValues, SlotPcs, CandPcs, EvictPcs
        <3>6. QED BY <3>3, <3>4, <3>5
    <2>3. QED BY <2>1, <2>2
<1>4. QED BY <1>1, <1>2, <1>3

LEMMA CheckCandidateKeeps ==
    ASSUME IInv, NEW p \in Callers, CheckCandidate(p)
    PROVE  IInv'
<1> USE DEF IInv, TypeOK
<1>1. ThreadsOK' /\ RuntimesOK'
    BY DEF CheckCandidate, ThreadsOK, RuntimesOK, agentVars, runVars
<1>l. LogOK'
    <2>1. cand[p].thread \in Threads BY DEF CheckCandidate, Control, CandPcs, EvictPcs
    <2> DEFINE r == manager[cand[p].thread]
    <2>2. r \in Runtimes \cup {None} BY <2>1 DEF ThreadsOK
    <2>3. r # None => queue[r] \subseteq Msgs BY <2>2 DEF RuntimesOK
    <2>4. exposed' = exposed \/ (r # None /\ exposed' = exposed \cup queue[r])
        BY DEF CheckCandidate, Exposes
    <2>5. strays' \subseteq strays /\ UNCHANGED <<accepted, recorded, escapes, countVars>>
        BY DEF CheckCandidate, TakeBack, strayVars
    <2> QED BY <2>3, <2>4, <2>5 DEF LogOK, countVars
<1>2. ResidencyOK'
    <2>1. cand[p].thread \in Threads BY DEF CheckCandidate, Control, CandPcs, EvictPcs
    <2>2. QED BY <2>1, TouchFacts DEF CheckCandidate, ResidencyOK
<1>3. CallersOK' /\ Control'
    <2>0. cand[p].thread \in Threads BY DEF CheckCandidate, Control, CandPcs, EvictPcs
    <2> DEFINE r == manager[cand[p].thread]
    <2>1. r \in Runtimes \cup {None} BY <2>0 DEF ThreadsOK
    <2>2. CASE r # None /\ life[r] = "idle"
        <3>1. /\ pc[p] = "check" /\ Goto(p, "evict") /\ UNCHANGED <<op, left>>
              /\ cand' = [cand EXCEPT ![p].runtime = r]
            BY <2>2 DEF CheckCandidate
        <3>2. QED BY <2>0, <2>1, <2>2, <3>1 DEF CallersOK, Control, Goto, PcValues, CandPcs,
           EvictPcs
    <2>3. CASE ~(r # None /\ life[r] = "idle")
        <3>1. /\ pc[p] = "check" /\ Goto(p, "pop") /\ UNCHANGED <<op, left>>
              /\ cand' = [cand EXCEPT ![p] = NoCand]
            BY <2>3 DEF CheckCandidate
        <3>2. QED BY <3>1 DEF CallersOK, Control, Goto, PcValues, CandPcs, EvictPcs, NoCand
    <2>4. QED BY <2>2, <2>3
<1>4. SlotsExact'
    <2>1. \E w \in {"evict", "pop"} : Goto(p, w) BY DEF CheckCandidate
    <2>2. QED BY <2>1, SlotKept DEF CheckCandidate, PcValues, SlotPcs, CandPcs, EvictPcs
<1>5. QED BY <1>1, <1>l, <1>2, <1>3, <1>4

LEMMA EvictSubmitKeeps ==
    ASSUME IInv, NEW p \in Callers, EvictSubmit(p)
    PROVE  IInv'
<1> USE DEF IInv, TypeOK
<1>1. ThreadsOK' /\ ResidencyOK' /\ LogOK'
    BY DEF EvictSubmit, ThreadsOK, ResidencyOK, LogOK, agentVars, slotVars, countVars, logVars,
       strayVars, Distinct
<1>2. RuntimesOK'
    BY DEF EvictSubmit, RuntimesOK, Control, EvictPcs
<1>3. CallersOK' /\ Control' /\ SlotsExact'
    <2>1. pc[p] = "evict" /\ Goto(p, "wait") /\ UNCHANGED callVars BY DEF EvictSubmit
    <2>2. CallersOK' /\ Control' BY <2>1, MovesOn DEF PcValues, SlotPcs, CandPcs, EvictPcs
    <2>3. SlotsExact' BY <2>1, SlotKept DEF EvictSubmit, slotVars, PcValues, SlotPcs, CandPcs,
       EvictPcs
    <2>4. QED BY <2>2, <2>3
<1>4. QED BY <1>1, <1>2, <1>3

LEMMA EvictWaitKeeps ==
    ASSUME IInv, NEW p \in Callers, EvictWait(p)
    PROVE  IInv'
<1> USE DEF IInv, TypeOK
<1>1. ThreadsOK' /\ ResidencyOK' /\ RuntimesOK' /\ LogOK'
    BY DEF EvictWait, ThreadsOK, ResidencyOK, RuntimesOK, LogOK, agentVars, slotVars, runVars,
       countVars, logVars, strayVars, Distinct
<1>2. CallersOK' /\ Control' /\ SlotsExact'
    <2>1. pc[p] = "wait" /\ Goto(p, "remove") /\ UNCHANGED callVars BY DEF EvictWait
    <2>2. CallersOK' /\ Control' BY <2>1, MovesOn DEF PcValues, SlotPcs, CandPcs, EvictPcs
    <2>3. SlotsExact' BY <2>1, SlotKept DEF EvictWait, slotVars, PcValues, SlotPcs, CandPcs,
       EvictPcs
    <2>4. QED BY <2>2, <2>3
<1>3. QED BY <1>1, <1>2

LEMMA EvictRemoveKeeps ==
    ASSUME IInv, NEW p \in Callers, EvictRemove(p)
    PROVE  IInv'
<1> USE DEF IInv, TypeOK
<1>1. ResidencyOK' /\ RuntimesOK' /\ LogOK'
    BY DEF EvictRemove, ResidencyOK, RuntimesOK, LogOK, slotVars, runVars, countVars, logVars,
       strayVars, Distinct
<1>2. ThreadsOK'
    BY DEF EvictRemove, ThreadsOK
<1>3. CallersOK' /\ Control'
    BY DEF EvictRemove, Goto, CallersOK, Control, PcValues, CandPcs, EvictPcs, NoCand
<1>4. SlotsExact'
    BY SlotKept DEF EvictRemove, slotVars, PcValues, SlotPcs, CandPcs, EvictPcs
<1>5. QED BY <1>1, <1>2, <1>3, <1>4

LEMMA CreateThreadKeeps ==
    ASSUME IInv, NEW p \in Callers, CreateThread(p)
    PROVE  IInv'
<1> USE DEF IInv, TypeOK
<1>1. ResidencyOK' /\ LogOK'
    BY DEF CreateThread, ResidencyOK, LogOK, slotVars, countVars, logVars, strayVars, Distinct
<1>2. ThreadsOK'
    BY NewRuntimeFacts DEF CreateThread, ThreadsOK
<1>3. RuntimesOK'
    <2>1. Target(p) \in Threads BY DEF CreateThread, Control, Target
    <2> QED BY <2>1, NewRuntimeFacts DEF CreateThread
<1>4. CallersOK' /\ Control' /\ SlotsExact'
    <2>1. pc[p] = "create" /\ Goto(p, "register") /\ UNCHANGED callVars BY DEF CreateThread
    <2>2. CallersOK' /\ Control' BY <2>1, MovesOn DEF PcValues, SlotPcs, CandPcs, EvictPcs
    <2>3. SlotsExact' BY <2>1, SlotKept DEF CreateThread, slotVars, PcValues, SlotPcs, CandPcs,
       EvictPcs
    <2>4. QED BY <2>2, <2>3
<1>5. QED BY <1>1, <1>2, <1>3, <1>4

LEMMA CreateFailsKeeps ==
    ASSUME IInv, NEW p \in Callers, CreateFails(p)
    PROVE  IInv'
<1> USE DEF IInv, TypeOK
<1>1. ThreadsOK' /\ RuntimesOK' /\ LogOK'
    BY DEF CreateFails, ThreadsOK, RuntimesOK, LogOK, agentVars, runVars, countVars, logVars,
       strayVars
<1>2. ResidencyOK'
    BY DEF CreateFails, ReleaseSlot, ResidencyOK, Distinct
<1>3. CallersOK' /\ Control' /\ SlotsExact'
    <2>1. pc[p] = "create" /\ Finish(p) BY DEF CreateFails
    <2>2. CallersOK' /\ Control' /\ Goto(p, "idle") BY <2>1, FinishFacts
    <2>3. SlotsExact' BY <2>1, <2>2, SlotGiven DEF CreateFails, slotVars, PcValues, SlotPcs,
       CandPcs, EvictPcs
    <2>4. QED BY <2>2, <2>3
<1>4. QED BY <1>1, <1>2, <1>3

LEMMA RegisterKeeps ==
    ASSUME IInv, NEW p \in Callers, Register(p)
    PROVE  IInv'
<1> USE DEF IInv, TypeOK
<1>1. ResidencyOK' /\ RuntimesOK' /\ LogOK'
    BY DEF Register, ResidencyOK, RuntimesOK, LogOK, slotVars, runVars, countVars, logVars,
       strayVars, Distinct
<1>2. ThreadsOK'
    <2>1. Target(p) \in Threads BY DEF Register, Control, Target
    <2>2. QED BY <2>1 DEF Register, ThreadsOK
<1>3. CallersOK' /\ Control' /\ SlotsExact'
    <2>1. pc[p] = "register" /\ Goto(p, "commit") /\ UNCHANGED callVars BY DEF Register
    <2>2. CallersOK' /\ Control' BY <2>1, MovesOn DEF PcValues, SlotPcs, CandPcs, EvictPcs
    <2>3. SlotsExact' BY <2>1, SlotKept DEF Register, slotVars, PcValues, SlotPcs, CandPcs, EvictPcs
    <2>4. QED BY <2>2, <2>3
<1>4. QED BY <1>1, <1>2, <1>3

LEMMA CommitKeeps ==
    ASSUME IInv, NEW p \in Callers, Commit(p)
    PROVE  IInv'
<1> USE DEF IInv, TypeOK
<1>1. ThreadsOK' /\ RuntimesOK' /\ LogOK'
    BY DEF Commit, TakeBack, ThreadsOK, RuntimesOK, LogOK, agentVars, runVars, countVars,
       logVars, strayVars
<1>2. ResidencyOK'
    <2>1. Target(p) \in Threads BY DEF Commit, Control, Target
    <2>2. QED BY <2>1, TouchFacts DEF Commit, ReleaseSlot, ResidencyOK
<1>3. CallersOK' /\ Control' /\ SlotsExact'
    <2>1. pc[p] = "commit" /\ Goto(p, "send") /\ UNCHANGED callVars BY DEF Commit
    <2>2. CallersOK' /\ Control' BY <2>1, MovesOn DEF PcValues, SlotPcs, CandPcs, EvictPcs
    <2>3. SlotsExact' BY <2>1, SlotGiven DEF Commit, slotVars, PcValues, SlotPcs, CandPcs, EvictPcs
    <2>4. QED BY <2>2, <2>3
<1>4. QED BY <1>1, <1>2, <1>3

LEMMA ResumeBeginKeeps ==
    ASSUME IInv, NEW p \in Callers, ResumeBegin(p)
    PROVE  IInv'
<1> USE DEF IInv, TypeOK
<1>1. ResidencyOK' /\ RuntimesOK' /\ LogOK'
    BY DEF ResumeBegin, ResidencyOK, RuntimesOK, LogOK, slotVars, runVars, countVars, logVars,
       strayVars, Distinct
<1>2. ThreadsOK'
    BY DEF ResumeBegin, ThreadsOK
<1>3. CallersOK' /\ Control' /\ SlotsExact'
    <2>1. PICK w \in {"commit", "settle", "finish"} : Goto(p, w) BY DEF ResumeBegin
    <2>2. QED BY <2>1, MovesOn, SlotKept DEF ResumeBegin, slotVars, PcValues, SlotPcs, CandPcs,
       EvictPcs
<1>4. QED BY <1>1, <1>2, <1>3

LEMMA ResumeFinishKeeps ==
    ASSUME IInv, NEW p \in Callers, ResumeFinish(p)
    PROVE  IInv'
<1> USE DEF IInv, TypeOK
<1>1. ResidencyOK' /\ LogOK'
    BY DEF ResumeFinish, ResidencyOK, LogOK, slotVars, countVars, logVars, strayVars, Distinct
<1>2. ThreadsOK'
    <2>1. CASE UNCHANGED manager BY <2>1 DEF ResumeFinish, ThreadsOK
    <2>2. CASE NewRuntime(Target(p), {"init", "idle"})
        BY <2>2, NewRuntimeFacts DEF ResumeFinish, ThreadsOK
    <2>3. QED BY <2>1, <2>2 DEF ResumeFinish
<1>3. RuntimesOK'
    <2>1. CASE UNCHANGED runVars BY <2>1 DEF runVars, RuntimesOK
    <2>2. CASE NewRuntime(Target(p), {"init", "idle"}) /\ UNCHANGED <<closing, queue, inbox>>
        <3>1. Target(p) \in Threads BY DEF ResumeFinish, Control, Target
        <3> QED BY <2>2, <3>1, NewRuntimeFacts
    <2>3. QED BY <2>1, <2>2 DEF ResumeFinish
<1>4. CallersOK' /\ Control' /\ SlotsExact'
    <2>1. PICK w \in {"commit", "settle"} : Goto(p, w) BY DEF ResumeFinish
    <2>2. QED BY <2>1, MovesOn, SlotKept DEF ResumeFinish, slotVars, PcValues, SlotPcs, CandPcs,
       EvictPcs
<1>5. QED BY <1>1, <1>2, <1>3, <1>4

LEMMA ResumeSettleKeeps ==
    ASSUME IInv, NEW p \in Callers, ResumeSettle(p)
    PROVE  IInv'
<1> USE DEF IInv, TypeOK
<1>1. ThreadsOK' /\ RuntimesOK' /\ LogOK'
    BY DEF ResumeSettle, ThreadsOK, RuntimesOK, LogOK, agentVars, runVars, countVars, logVars,
       strayVars
<1>2. ResidencyOK'
    BY DEF ResumeSettle, ReleaseSlot, ResidencyOK, Distinct
<1>3. CallersOK' /\ Control' /\ SlotsExact'
    <2>1. pc[p] = "settle" /\ ReleaseSlot BY DEF ResumeSettle
    <2>2. ASSUME Goto(p, "touch"), UNCHANGED callVars PROVE CallersOK' /\ Control' /\ SlotsExact'
        BY <2>1, <2>2, MovesOn, SlotGiven DEF PcValues, SlotPcs, CandPcs, EvictPcs
    <2>3. ASSUME Finish(p) PROVE CallersOK' /\ Control' /\ SlotsExact'
        BY <2>1, <2>3, FinishFacts, SlotGiven DEF PcValues, SlotPcs, CandPcs, EvictPcs
    <2>4. QED BY <2>2, <2>3 DEF ResumeSettle
<1>4. QED BY <1>1, <1>2, <1>3

LEMMA SendKeeps ==
    ASSUME IInv, NEW p \in Callers, Send(p)
    PROVE  IInv'
<1> USE DEF IInv, TypeOK
<1>1. ThreadsOK' /\ ResidencyOK'
    BY DEF Send, ThreadsOK, ResidencyOK, agentVars, slotVars, Distinct
<1>2. RuntimesOK'
    <2>1. Target(p) \in Threads /\ op[p].msg \in Msgs BY DEF Send, Control, Target
    <2> DEFINE r == manager[Target(p)]
    <2>2. r \in Runtimes BY <2>1 DEF Send, ThreadsOK
    <2>3. CASE r \in closing BY <2>3 DEF Send, RuntimesOK
    <2>4. CASE r \notin closing
        <3>1. /\ queue' = [queue EXCEPT ![r] = queue[r] \cup {op[p].msg}]
              /\ UNCHANGED <<life, inbox, closing, nextRuntime, of>>
            BY <2>4 DEF Send
        <3>2. QED BY <2>1, <2>2, <3>1 DEF RuntimesOK
    <2>5. QED BY <2>3, <2>4
<1>3. LogOK'
    BY DEF Send, Exposes, Control, LogOK, countVars, strayVars
<1>4. CallersOK' /\ Control' /\ SlotsExact'
    <2>1. pc[p] = "send" /\ Finish(p) BY DEF Send
    <2>2. CallersOK' /\ Control' /\ Goto(p, "idle") BY <2>1, FinishFacts
    <2>3. SlotsExact' BY <2>1, <2>2, SlotKept DEF Send, slotVars, PcValues, SlotPcs, CandPcs,
       EvictPcs
    <2>4. QED BY <2>2, <2>3
<1>5. QED BY <1>1, <1>2, <1>3, <1>4

LEMMA SendFailsKeeps ==
    ASSUME IInv, NEW p \in Callers, SendFails(p)
    PROVE  IInv'
<1> USE DEF IInv, TypeOK
<1>1. ThreadsOK' /\ ResidencyOK' /\ RuntimesOK' /\ LogOK'
    BY DEF SendFails, ThreadsOK, ResidencyOK, RuntimesOK, LogOK, agentVars, slotVars, runVars,
       countVars, logVars, strayVars, Distinct
<1>2. CallersOK' /\ Control' /\ SlotsExact'
    <2>1. pc[p] = "send" /\ Finish(p) BY DEF SendFails
    <2>2. CallersOK' /\ Control' /\ Goto(p, "idle") BY <2>1, FinishFacts
    <2>3. SlotsExact' BY <2>1, <2>2, SlotKept DEF SendFails, slotVars, PcValues, SlotPcs,
       CandPcs, EvictPcs
    <2>4. QED BY <2>2, <2>3
<1>3. QED BY <1>1, <1>2

LEMMA SendFindsDeadKeeps ==
    ASSUME IInv, NEW p \in Callers, SendFindsDead(p)
    PROVE  IInv'
<1> USE DEF IInv, TypeOK
<1>1. ThreadsOK' /\ ResidencyOK' /\ RuntimesOK' /\ LogOK'
    BY DEF SendFindsDead, ThreadsOK, ResidencyOK, RuntimesOK, LogOK, agentVars, slotVars,
       runVars, countVars, logVars, strayVars, Distinct
<1>2. CallersOK' /\ Control' /\ SlotsExact'
    <2>1. pc[p] = "send" /\ Goto(p, "bury") /\ UNCHANGED callVars BY DEF SendFindsDead
    <2>2. CallersOK' /\ Control' BY <2>1, MovesOn DEF PcValues, SlotPcs, CandPcs, EvictPcs
    <2>3. SlotsExact' BY <2>1, SlotKept DEF SendFindsDead, slotVars, PcValues, SlotPcs, CandPcs,
       EvictPcs
    <2>4. QED BY <2>2, <2>3
<1>3. QED BY <1>1, <1>2

LEMMA BuryRemoveKeeps ==
    ASSUME IInv, NEW p \in Callers, BuryRemove(p)
    PROVE  IInv'
<1> USE DEF IInv, TypeOK
<1>1. ResidencyOK' /\ RuntimesOK' /\ LogOK'
    BY DEF BuryRemove, ResidencyOK, RuntimesOK, LogOK, slotVars, runVars, countVars, logVars,
       strayVars, Distinct
<1>2. ThreadsOK'
    BY DEF BuryRemove, ThreadsOK
<1>3. CallersOK' /\ Control' /\ SlotsExact'
    <2>1. pc[p] = "bury" /\ Goto(p, "forget") /\ UNCHANGED callVars BY DEF BuryRemove
    <2>2. CallersOK' /\ Control' BY <2>1, MovesOn DEF PcValues, SlotPcs, CandPcs, EvictPcs
    <2>3. SlotsExact' BY <2>1, SlotKept DEF BuryRemove, slotVars, PcValues, SlotPcs, CandPcs,
       EvictPcs
    <2>4. QED BY <2>2, <2>3
<1>4. QED BY <1>1, <1>2, <1>3

LEMMA BuryForgetKeeps ==
    ASSUME IInv, NEW p \in Callers, BuryForget(p)
    PROVE  IInv'
<1> USE DEF IInv, TypeOK
<1>1. ThreadsOK' /\ RuntimesOK'
    BY DEF BuryForget, ThreadsOK, RuntimesOK, agentVars, runVars
<1>l. LogOK'
    <2> DEFINE S == IF manager[Target(p)] = None THEN {} ELSE {Target(p)}
    <2>1. Target(p) \in Threads BY DEF BuryForget, Control, Target
    <2>2. IsFiniteSet(S) /\ S \subseteq Threads BY <2>1, FS_EmptySet, FS_Singleton
    <2>3. LetGo(S) /\ UNCHANGED <<logVars, countVars>> BY DEF BuryForget
    <2> QED BY <2>2, <2>3, LetGoFacts
<1>2. ResidencyOK'
    BY WithoutFacts DEF BuryForget, ResidencyOK
<1>3. CallersOK' /\ Control' /\ SlotsExact'
    <2>1. pc[p] = "forget" /\ Goto(p, "unregister") /\ UNCHANGED callVars BY DEF BuryForget
    <2>2. CallersOK' /\ Control' BY <2>1, MovesOn DEF PcValues, SlotPcs, CandPcs, EvictPcs
    <2>3. SlotsExact' BY <2>1, SlotKept DEF BuryForget, slotVars, PcValues, SlotPcs, CandPcs,
       EvictPcs
    <2>4. QED BY <2>2, <2>3
<1>4. QED BY <1>1, <1>l, <1>2, <1>3

LEMMA BuryReleaseKeeps ==
    ASSUME IInv, NEW p \in Callers, BuryRelease(p)
    PROVE  IInv'
<1> USE DEF IInv, TypeOK
<1>1. ResidencyOK' /\ RuntimesOK' /\ LogOK'
    BY DEF BuryRelease, ResidencyOK, RuntimesOK, LogOK, slotVars, runVars, countVars, logVars,
       strayVars, Distinct
<1>2. ThreadsOK'
    BY DEF BuryRelease, ThreadsOK
<1>3. CallersOK' /\ Control' /\ SlotsExact'
    <2>1. pc[p] = "unregister" /\ Finish(p) BY DEF BuryRelease
    <2>2. CallersOK' /\ Control' /\ Goto(p, "idle") BY <2>1, FinishFacts
    <2>3. SlotsExact' BY <2>1, <2>2, SlotKept DEF BuryRelease, slotVars, PcValues, SlotPcs,
       CandPcs, EvictPcs
    <2>4. QED BY <2>2, <2>3
<1>4. QED BY <1>1, <1>2, <1>3

LEMMA DropKeeps ==
    ASSUME IInv, NEW p \in Callers, Drop(p)
    PROVE  IInv'
<1> USE DEF IInv, TypeOK
<1>1. ThreadsOK' /\ RuntimesOK'
    BY DEF Drop, ThreadsOK, RuntimesOK, agentVars, runVars
<1>2. ResidencyOK'
    BY DEF Drop, ReleaseSlot, ResidencyOK, Distinct
<1>3. LogOK'
    <2>1. drops' \in 0..MaxDrops
        BY ResidencyAssumption DEF ResidencyAssumption, Drop, LogOK
    <2>2. strays' \subseteq Threads /\ escapes' \in Nat
        BY InHandFacts DEF Drop, LetGo, LogOK
    <2> QED BY <2>1, <2>2 DEF Drop, LogOK, logVars
<1>4. CallersOK' /\ Control' /\ Goto(p, "idle") BY FinishFacts DEF Drop
<1>5. SlotsExact'
    <2>1. CASE pc[p] \in SlotPcs
        BY <1>4, <2>1, SlotGiven DEF Drop, PcValues, SlotPcs, CandPcs, EvictPcs
    <2>2. CASE pc[p] \notin SlotPcs
        BY <1>4, <2>2, SlotKept DEF Drop, PcValues, SlotPcs, CandPcs, EvictPcs
    <2> QED BY <2>1, <2>2
<1>6. QED BY <1>1, <1>2, <1>3, <1>4, <1>5

LEMMA ReceiveKeeps ==
    ASSUME IInv, NEW r \in Runtimes, Receive(r)
    PROVE  IInv'
<1> USE DEF IInv, TypeOK
<1>1. ThreadsOK' /\ ResidencyOK' /\ LogOK'
    BY DEF Receive, ThreadsOK, ResidencyOK, LogOK, agentVars, slotVars, countVars, logVars,
           strayVars, Distinct
<1>2. RuntimesOK'
    BY DEF Receive, RuntimesOK
<1>3. CallersOK' /\ Control' /\ SlotsExact'
    BY DEF Receive, callVars, slotVars, CallersOK, Control, SlotsExact, Holders
<1>4. QED BY <1>1, <1>2, <1>3

LEMMA WorkKeeps ==
    ASSUME IInv, NEW r \in Runtimes, Work(r)
    PROVE  IInv'
<1> USE DEF IInv, TypeOK
<1>1. ThreadsOK' /\ ResidencyOK'
    BY DEF Work, ThreadsOK, ResidencyOK, agentVars, slotVars, Distinct
<1>2. RuntimesOK'
    BY DEF Work, RuntimesOK
<1>3. LogOK'
    BY DEF Work, RuntimesOK, LogOK, countVars, strayVars
<1>4. CallersOK' /\ Control' /\ SlotsExact'
    BY DEF Work, callVars, slotVars, CallersOK, Control, SlotsExact, Holders
<1>5. QED BY <1>1, <1>2, <1>3, <1>4

LEMMA StopKeeps ==
    ASSUME IInv, NEW r \in Runtimes, Stop(r)
    PROVE  IInv'
<1> USE DEF IInv, TypeOK
<1>1. ThreadsOK' /\ ResidencyOK' /\ LogOK'
    BY DEF Stop, ThreadsOK, ResidencyOK, LogOK, agentVars, slotVars, countVars, logVars,
       strayVars, Distinct
<1>2. RuntimesOK'
    BY DEF Stop, RuntimesOK
<1>3. CallersOK' /\ Control' /\ SlotsExact'
    BY DEF Stop, callVars, slotVars, CallersOK, Control, SlotsExact, Holders
<1>4. QED BY <1>1, <1>2, <1>3

LEMMA CrashKeeps ==
    ASSUME IInv, NEW r \in Runtimes, Crash(r)
    PROVE  IInv'
<1> USE DEF IInv, TypeOK
<1>1. ThreadsOK' /\ ResidencyOK'
    BY DEF Crash, ThreadsOK, ResidencyOK, agentVars, slotVars, Distinct
<1>2. RuntimesOK'
    BY DEF Crash, RuntimesOK
<1>3. LogOK'
    BY ResidencyAssumption DEF ResidencyAssumption, Crash, Exposes, RuntimesOK, LogOK, strayVars
<1>4. CallersOK' /\ Control' /\ SlotsExact'
    BY DEF Crash, callVars, slotVars, CallersOK, Control, SlotsExact, Holders
<1>5. QED BY <1>1, <1>2, <1>3, <1>4

-----------------------------------------------------------------------------
LEMMA InitIInv == Init => IInv
<1> SUFFICES ASSUME Init PROVE IInv OBVIOUS
<1>1. ThreadsOK BY DEF Init, ThreadsOK
<1>2. ResidencyOK
    <2>1. residents = <<>> /\ pendingSlots = 0 BY DEF Init
    <2>2. QED BY <2>1 DEF ResidencyOK, Distinct
<1>3. RuntimesOK BY ResidencyAssumption DEF ResidencyAssumption, Init, RuntimesOK
<1>4. CallersOK BY DEF Init, CallersOK, PcValues, NoOp, NoCand
<1>5. LogOK BY ResidencyAssumption DEF ResidencyAssumption, Init, LogOK
<1>6. Control BY DEF Init, Control, CandPcs, EvictPcs
<1>7. SlotsExact
    <2>1. Holders = {} BY DEF Init, Holders, SlotPcs
    <2>2. QED BY <2>1, FS_EmptySet DEF Init, SlotsExact
<1>8. QED BY <1>1, <1>2, <1>3, <1>4, <1>5, <1>6, <1>7 DEF IInv, TypeOK

LEMMA NextIInv == IInv /\ [Next]_vars => IInv'
<1> SUFFICES ASSUME IInv, [Next]_vars PROVE IInv' OBVIOUS
<1>1. ASSUME NEW p \in Callers, ToolCall(p) PROVE IInv'
    BY <1>1, SpawnKeeps, MessageKeeps DEF ToolCall
<1>2. ASSUME NEW p \in Callers, CallerStep(p) PROVE IInv'
    BY <1>2, EnsureLoadedKeeps, TouchKeeps, TryReserveKeeps,
       CountResidentsKeeps, PopCandidateKeeps, CheckCandidateKeeps,
       EvictSubmitKeeps, EvictWaitKeeps, EvictRemoveKeeps, CreateThreadKeeps,
       CreateFailsKeeps, RegisterKeeps, CommitKeeps, ResumeBeginKeeps,
       ResumeFinishKeeps, ResumeSettleKeeps, SendKeeps, SendFailsKeeps,
       SendFindsDeadKeeps, BuryRemoveKeeps, BuryForgetKeeps, BuryReleaseKeeps
       DEF CallerStep
<1>3. ASSUME NEW r \in Runtimes, Receive(r) \/ Work(r) \/ Stop(r) \/ Crash(r) PROVE IInv'
    BY <1>3, ReceiveKeeps, WorkKeeps, StopKeeps, CrashKeeps
<1>4. CASE UNCHANGED vars
    BY <1>4 DEF vars, agentVars, slotVars, runVars, callVars, countVars, logVars, strayVars,
       IInv, TypeOK,
                ThreadsOK, ResidencyOK, RuntimesOK, CallersOK, LogOK, Control, SlotsExact,
                Holders
<1>5. ASSUME NEW p \in Callers, Drop(p) PROVE IInv'
    BY <1>5, DropKeeps
<1>6. QED BY <1>1, <1>2, <1>3, <1>4, <1>5 DEF Next

\* Every reachable state has its type, and no thread is a resident twice.
THEOREM TypeCorrect == Spec => []TypeOK
<1>1. IInv => TypeOK BY DEF IInv
<1>2. QED BY InitIInv, NextIInv, <1>1, PTL DEF Spec

\* V2ResidencySlot: the pending slots are those the callers hold.  A slot is
\* committed or dropped once on every path, failures included.
THEOREM SlotsNeverLeak == Spec => []SlotsExact
<1>1. IInv => SlotsExact BY DEF IInv
<1>2. QED BY InitIInv, NextIInv, <1>1, PTL DEF Spec

-----------------------------------------------------------------------------
(* The residents as a set.                                                 *)

\* retain takes t out and leaves the others.
LEMMA WithoutSet ==
    ASSUME NEW t, residents \in Seq(Threads), Distinct(residents), NEW w, w = Without(t)
    PROVE  {w[i] : i \in 1..Len(w)} = ResidentSet \ {t} /\ Len(w) <= Len(residents)
<1> DEFINE n == Len(residents)
           at == CHOOSE i \in 1..n : residents[i] = t
           short == [i \in 1..(n - 1) |-> residents[IF i < at THEN i ELSE i + 1]]
<1>n. n \in Nat /\ residents \in [1..n -> Threads] BY LenProperties
<1>1. CASE t \notin ResidentSet
    <2>1. w = residents BY <1>1 DEF Without
    <2>2. {w[i] : i \in 1..Len(w)} = ResidentSet BY <2>1 DEF ResidentSet
    <2>3. ResidentSet = ResidentSet \ {t} BY <1>1
    <2>4. Len(w) <= Len(residents) BY <1>n, <2>1
    <2> QED BY <2>2, <2>3, <2>4
<1>2. CASE t \in ResidentSet
    <2>1. w = short BY <1>2 DEF Without
    <2>2. at \in 1..n /\ residents[at] = t BY <1>2 DEF ResidentSet
    <2>3. n - 1 \in Nat /\ n - 1 <= n BY <1>n, <2>2
    <2>m. \A i \in 1..(n - 1) : (IF i < at THEN i ELSE i + 1) \in (1..n) \ {at}
        <3> HIDE DEF at, n
        <3>1. QED BY <1>n, <2>2
    <2>4. short \in [1..(n - 1) -> Threads] BY <1>n, <2>m
    <2>5. Len(short) = n - 1 BY <2>3, <2>4, SeqDef, LenProperties
    <2>6. \A i \in 1..(n - 1) : short[i] \in ResidentSet \ {t}
        BY <1>n, <2>2, <2>m DEF Distinct, ResidentSet
    <2>7. \A j \in 1..n : j # at => \E i \in 1..(n - 1) : short[i] = residents[j]
        <3> SUFFICES ASSUME NEW j \in 1..n, j # at
                     PROVE  \E i \in 1..(n - 1) : short[i] = residents[j]
            OBVIOUS
        <3> DEFINE i == IF j < at THEN j ELSE j - 1
        <3>1. i \in 1..(n - 1) /\ (IF i < at THEN i ELSE i + 1) = j
            <4> HIDE DEF at, n
            <4>1. QED BY <1>n, <2>2
        <3> QED BY <3>1
    <2>8. \A x \in ResidentSet \ {t} : \E i \in 1..(n - 1) : short[i] = x
        <3> SUFFICES ASSUME NEW x \in ResidentSet, x # t
                     PROVE  \E i \in 1..(n - 1) : short[i] = x
            OBVIOUS
        <3>1. PICK j \in 1..n : residents[j] = x BY DEF ResidentSet
        <3>2. j # at BY <2>2, <3>1
        <3> QED BY <2>7, <3>1, <3>2
    <2> HIDE DEF short, n, at
    <2>9. {short[i] : i \in 1..(n - 1)} = ResidentSet \ {t} BY <2>6, <2>8
    <2>10. Len(w) = n - 1 BY <2>1, <2>5
    <2>11. {w[i] : i \in 1..Len(w)} = ResidentSet \ {t} BY <2>1, <2>9, <2>10
    <2>12. Len(w) <= Len(residents) BY <2>3, <2>10 DEF n
    <2> QED BY <2>11, <2>12
<1>3. QED BY <1>1, <1>2

\* forget_resident.
LEMMA ForgetSet ==
    ASSUME NEW t, residents \in Seq(Threads), Distinct(residents), residents' = Without(t)
    PROVE  ResidentSet' = ResidentSet \ {t} /\ Len(residents') <= Len(residents)
<1>1. /\ {residents'[i] : i \in 1..Len(residents')} = ResidentSet \ {t}
      /\ Len(residents') <= Len(residents)
    BY WithoutSet
<1>2. ResidentSet' = {residents'[i] : i \in 1..Len(residents')} BY DEF ResidentSet
<1> QED BY <1>1, <1>2

\* touch_resident adds t, and at most one place.
LEMMA TouchSet ==
    ASSUME NEW t \in Threads, residents \in Seq(Threads), Distinct(residents),
           residents' = TouchResident(t)
    PROVE  ResidentSet' = ResidentSet \cup {t} /\ Len(residents') <= Len(residents) + 1
<1> DEFINE w == Without(t)
<1> HIDE DEF w
<1>1. w \in Seq(Threads) BY WithoutFacts DEF w
<1>2. {w[i] : i \in 1..Len(w)} = ResidentSet \ {t} /\ Len(w) <= Len(residents)
    BY WithoutSet DEF w
<1>3. residents' = Append(w, t) BY DEF TouchResident, w
<1>4. /\ Len(residents') = Len(w) + 1 /\ residents'[Len(w) + 1] = t
      /\ \A i \in 1..Len(w) : residents'[i] = w[i]
    BY <1>1, <1>3
<1>5. \A i \in 1..(Len(w) + 1) : i \in 1..Len(w) \/ i = Len(w) + 1 BY <1>1
<1>6. ResidentSet' = {residents'[i] : i \in 1..(Len(w) + 1)} BY <1>4 DEF ResidentSet
<1>7. Len(w) \in Nat /\ Len(w) + 1 \in 1..(Len(w) + 1) /\ 1..Len(w) \subseteq 1..(Len(w) + 1)
    BY <1>1
<1>8. ResidentSet' = {w[i] : i \in 1..Len(w)} \cup {t} BY <1>4, <1>5, <1>6, <1>7
<1>9. Len(residents) \in Nat BY LenProperties
<1>10. Len(residents') <= Len(residents) + 1 BY <1>2, <1>4, <1>7, <1>9
<1> QED BY <1>2, <1>8, <1>10

\* What a protected agent in front is moved back from and to is the same set.
LEMMA RotateSet ==
    ASSUME NEW p, residents \in Seq(Threads), NEW s, s = Rotated(p)
    PROVE  {s[i] : i \in 1..Len(s)} = ResidentSet /\ Len(s) = Len(residents)
<1>1. CASE ~(residents # <<>> /\ Head(residents) = Protected(p))
    <2>1. s = residents BY <1>1 DEF Rotated
    <2> QED BY <2>1 DEF ResidentSet
<1>2. CASE residents # <<>> /\ Head(residents) = Protected(p)
    <2>1. s = Append(Tail(residents), Head(residents)) BY <1>2 DEF Rotated
    <2>2. PICK n \in Nat : n = Len(residents) /\ n > 0 BY <1>2, LenProperties, EmptySeq
    <2>3. /\ Len(Tail(residents)) = n - 1 /\ Tail(residents) \in Seq(Threads)
          /\ \A i \in 1..(n - 1) : Tail(residents)[i] = residents[i + 1]
          /\ Head(residents) = residents[1] /\ Head(residents) \in Threads
        BY <1>2, <2>2, HeadTailProperties
    <2>4. Len(s) = n /\ s[n] = residents[1] /\ \A i \in 1..(n - 1) : s[i] = residents[i + 1]
        BY <2>1, <2>2, <2>3
    <2>5. \A i \in 1..n : s[i] \in ResidentSet
        <3> SUFFICES ASSUME NEW i \in 1..n PROVE \E j \in 1..n : s[i] = residents[j]
            BY <2>2 DEF ResidentSet
        <3>1. CASE i = n BY <2>2, <2>4, <3>1
        <3>2. CASE i # n
            <4>1. i \in 1..(n - 1) /\ i + 1 \in 1..n BY <2>2, <3>2
            <4> QED BY <2>4, <4>1
        <3> QED BY <3>1, <3>2
    <2>6. \A j \in 1..n : \E i \in 1..n : s[i] = residents[j]
        <3> SUFFICES ASSUME NEW j \in 1..n PROVE \E i \in 1..n : s[i] = residents[j] OBVIOUS
        <3>1. CASE j = 1
            <4>1. n \in 1..n BY <2>2
            <4> QED BY <2>4, <3>1, <4>1
        <3>2. CASE j # 1
            <4>1. j - 1 \in 1..(n - 1) /\ j - 1 \in 1..n /\ (j - 1) + 1 = j BY <2>2, <3>2
            <4> QED BY <2>4, <4>1
        <3> QED BY <3>1, <3>2
    <2>7. \A x \in ResidentSet : \E i \in 1..n : s[i] = x BY <2>2, <2>6 DEF ResidentSet
    <2>8. {s[i] : i \in 1..n} = ResidentSet BY <2>5, <2>7
    <2> QED BY <2>2, <2>4, <2>8
<1> QED BY <1>1, <1>2

-----------------------------------------------------------------------------
(* Where a step takes its caller.                                          *)

\* The other callers stay where they are.
Others(p) == \A q \in Callers : q # p => pc'[q] = pc[q] /\ op'[q] = op[q] /\ cand'[q] = cand[q]

\* Caller p goes from one place to another; its operation stays unless it is over.
Moves(p, from, to) ==
    /\ pc[p] \in from /\ pc'[p] \in to
    /\ pc'[p] # "idle" => op'[p] = op[p]
    /\ Others(p)

Keeps(p) == op'[p] = op[p] /\ cand'[p] = cand[p]

LEMMA CallerTypes ==
    ASSUME IInv
    PROVE  /\ pc \in [Callers -> PcValues]
           /\ op \in [Callers -> [kind : {"none", "spawn", "message"},
                           thread : Threads \cup {None}, msg : Msgs \cup {None}]]
           /\ cand \in [Callers -> [thread : Threads \cup {None}, runtime : Runtimes \cup {None}]]
           /\ manager \in [Threads -> Runtimes \cup {None}]
           /\ life \in [Runtimes -> {"unborn", "init", "busy", "idle", "stopped"}]
           /\ of \in [Runtimes -> Threads \cup {None}]
           /\ closing \subseteq Runtimes
           /\ queue \in [Runtimes -> SUBSET Msgs] /\ inbox \in [Runtimes -> SUBSET Msgs]
           /\ residents \in Seq(Threads) /\ Distinct(residents)
           /\ spawned \in Nat /\ nextRuntime \in Nat /\ nextRuntime > 0
           /\ Threads \subseteq Nat /\ Runtimes \subseteq Nat /\ None = 0
           /\ None \notin Threads /\ None \notin Runtimes
           /\ \A q \in Callers : pc[q] # "idle" => Target(q) \in Threads
           /\ \A q \in Callers : pc[q] \in CandPcs => cand[q].thread \in Threads
           /\ \A q \in Callers : pc[q] \in EvictPcs => cand[q].runtime \in Runtimes
<1>1. spawned \in Nat /\ nextRuntime \in Nat /\ nextRuntime > 0 /\ Threads \subseteq Nat
      /\ Runtimes \subseteq Nat /\ None = 0
    BY ResidencyAssumption
       DEF IInv, TypeOK, LogOK, RuntimesOK, Threads, Runtimes, None, ResidencyAssumption
<1> QED BY <1>1, NoneFacts
        DEF IInv, TypeOK, CallersOK, ThreadsOK, RuntimesOK, ResidencyOK, Control, Target

\* The steps that neither take nor lose a candidate.
LEMMA PlainMoves ==
    ASSUME IInv, NEW p \in Callers
    PROVE  /\ EnsureLoaded(p) => Moves(p, {"ensure"}, {"touch", "reserve", "idle"})
           /\ Touch(p) => Moves(p, {"touch"}, {"send"})
           /\ TryReserve(p) => Moves(p, {"reserve"}, {"create", "resume", "count"})
           /\ CountResidents(p) => Moves(p, {"count"}, {"pop"})
           /\ CreateThread(p) => Moves(p, {"create"}, {"register"})
           /\ CreateFails(p) => Moves(p, {"create"}, {"idle"})
           /\ Register(p) => Moves(p, {"register"}, {"commit"})
           /\ Commit(p) => Moves(p, {"commit"}, {"send"})
           /\ ResumeBegin(p) => Moves(p, {"resume"}, {"commit", "settle", "finish"})
           /\ ResumeFinish(p) => Moves(p, {"finish"}, {"commit", "settle"})
           /\ ResumeSettle(p) => Moves(p, {"settle"}, {"touch", "idle"})
           /\ Send(p) => Moves(p, {"send"}, {"idle"})
           /\ SendFails(p) => Moves(p, {"send"}, {"idle"})
           /\ SendFindsDead(p) => Moves(p, {"send"}, {"bury"})
           /\ BuryRemove(p) => Moves(p, {"bury"}, {"forget"})
           /\ BuryForget(p) => Moves(p, {"forget"}, {"unregister"})
           /\ BuryRelease(p) => Moves(p, {"unregister"}, {"idle"})
           /\ Drop(p) => Moves(p, PcValues, {"idle"}) /\ pc[p] # "idle"
<1>0. pc \in [Callers -> PcValues] /\ op \in [Callers -> [kind : {"none", "spawn", "message"},
                           thread : Threads \cup {None}, msg : Msgs \cup {None}]]
      /\ cand \in [Callers -> [thread : Threads \cup {None}, runtime : Runtimes \cup {None}]]
    BY CallerTypes
<1>g. ASSUME NEW from, NEW to, NEW w \in to, pc[p] \in from, Goto(p, w), UNCHANGED <<op, cand>>
      PROVE  Moves(p, from, to)
    BY <1>0, <1>g DEF Moves, Others, Goto
<1>f. ASSUME NEW from, NEW to, "idle" \in to, pc[p] \in from, Finish(p)
      PROVE  Moves(p, from, to)
    BY <1>0, <1>f DEF Moves, Others, Goto, Finish
<1>1. EnsureLoaded(p) => Moves(p, {"ensure"}, {"touch", "reserve", "idle"})
    BY <1>g, <1>f DEF EnsureLoaded, callVars
<1>2. Touch(p) => Moves(p, {"touch"}, {"send"}) BY <1>g DEF Touch, callVars
<1>3. TryReserve(p) => Moves(p, {"reserve"}, {"create", "resume", "count"})
    <2> SUFFICES ASSUME TryReserve(p) PROVE Moves(p, {"reserve"}, {"create", "resume", "count"})
        OBVIOUS
    <2>1. \E w \in {"create", "resume", "count"} : Goto(p, w) BY DEF TryReserve
    <2> QED BY <1>g, <2>1 DEF TryReserve, callVars
<1>4. CountResidents(p) => Moves(p, {"count"}, {"pop"}) BY <1>g DEF CountResidents
<1>5. CreateThread(p) => Moves(p, {"create"}, {"register"}) BY <1>g DEF CreateThread, callVars
<1>6. CreateFails(p) => Moves(p, {"create"}, {"idle"}) BY <1>f DEF CreateFails
<1>7. Register(p) => Moves(p, {"register"}, {"commit"}) BY <1>g DEF Register, callVars
<1>8. Commit(p) => Moves(p, {"commit"}, {"send"}) BY <1>g DEF Commit, callVars
<1>9. ResumeBegin(p) => Moves(p, {"resume"}, {"commit", "settle", "finish"})
    BY <1>g DEF ResumeBegin, callVars
<1>10. ResumeFinish(p) => Moves(p, {"finish"}, {"commit", "settle"})
    BY <1>g DEF ResumeFinish, callVars
<1>11. ResumeSettle(p) => Moves(p, {"settle"}, {"touch", "idle"})
    BY <1>g, <1>f DEF ResumeSettle, callVars
<1>12. Send(p) => Moves(p, {"send"}, {"idle"}) BY <1>f DEF Send
<1>13. SendFails(p) => Moves(p, {"send"}, {"idle"}) BY <1>f DEF SendFails
<1>14. SendFindsDead(p) => Moves(p, {"send"}, {"bury"}) BY <1>g DEF SendFindsDead, callVars
<1>15. BuryRemove(p) => Moves(p, {"bury"}, {"forget"}) BY <1>g DEF BuryRemove, callVars
<1>16. BuryForget(p) => Moves(p, {"forget"}, {"unregister"}) BY <1>g DEF BuryForget, callVars
<1>17. BuryRelease(p) => Moves(p, {"unregister"}, {"idle"}) BY <1>f DEF BuryRelease
<1>18. Drop(p) => Moves(p, PcValues, {"idle"}) /\ pc[p] # "idle"
    BY <1>0, <1>f DEF Drop, Awaits, CandPcs
<1> QED BY <1>1, <1>2, <1>3, <1>4, <1>5, <1>6, <1>7, <1>8, <1>9, <1>10, <1>11, <1>12, <1>13,
           <1>14, <1>15, <1>16, <1>17, <1>18

\* The tool calls, and the steps of try_unload_one_resident.
LEMMA CallMoves ==
    ASSUME IInv, NEW p \in Callers
    PROVE  /\ Spawn(p) => /\ pc[p] = "idle" /\ pc'[p] = "reserve" /\ Others(p)
                          /\ op'[p].kind = "spawn" /\ op'[p].thread = spawned + 1
           /\ \A t \in Threads : Message(p, t) =>
                          /\ pc[p] = "idle" /\ pc'[p] = "ensure" /\ Others(p)
                          /\ op'[p].kind = "message" /\ op'[p].thread = t
<1>0. pc \in [Callers -> PcValues] /\ op \in [Callers -> [kind : {"none", "spawn", "message"},
                           thread : Threads \cup {None}, msg : Msgs \cup {None}]]
    BY CallerTypes
<1>1. Spawn(p) => /\ pc[p] = "idle" /\ pc'[p] = "reserve" /\ Others(p)
                  /\ op'[p].kind = "spawn" /\ op'[p].thread = spawned + 1
    BY <1>0 DEF Spawn, Goto, Others
<1>2. ASSUME NEW t \in Threads, Message(p, t)
      PROVE  /\ pc[p] = "idle" /\ pc'[p] = "ensure" /\ Others(p)
             /\ op'[p].kind = "message" /\ op'[p].thread = t
    BY <1>0, <1>2 DEF Message, Goto, Others
<1> QED BY <1>1, <1>2

LEMMA UnloadMoves ==
    ASSUME IInv, NEW p \in Callers
    PROVE  /\ EvictSubmit(p) => Moves(p, {"evict"}, {"wait"}) /\ Keeps(p)
           /\ EvictWait(p) => Moves(p, {"wait"}, {"remove"}) /\ Keeps(p)
           /\ EvictRemove(p) => Moves(p, {"remove"}, {"reserve"})
           /\ PopCandidate(p) => Moves(p, {"pop"}, {"check", "idle"})
           /\ CheckCandidate(p) => /\ Moves(p, {"check"}, {"evict", "pop"})
                                   /\ pc'[p] = "evict" => cand'[p].thread = cand[p].thread
<1>0. pc \in [Callers -> PcValues] /\ op \in [Callers -> [kind : {"none", "spawn", "message"},
                           thread : Threads \cup {None}, msg : Msgs \cup {None}]]
      /\ cand \in [Callers -> [thread : Threads \cup {None}, runtime : Runtimes \cup {None}]]
    BY CallerTypes
<1>1. EvictSubmit(p) => Moves(p, {"evict"}, {"wait"}) /\ Keeps(p)
    BY <1>0 DEF EvictSubmit, Goto, callVars, Moves, Others, Keeps
<1>2. EvictWait(p) => Moves(p, {"wait"}, {"remove"}) /\ Keeps(p)
    BY <1>0 DEF EvictWait, Goto, callVars, Moves, Others, Keeps
<1>3. EvictRemove(p) => Moves(p, {"remove"}, {"reserve"})
    BY <1>0 DEF EvictRemove, Goto, Moves, Others
<1>4. PopCandidate(p) => Moves(p, {"pop"}, {"check", "idle"})
    <2> SUFFICES ASSUME PopCandidate(p) PROVE Moves(p, {"pop"}, {"check", "idle"}) OBVIOUS
    <2>1. CASE Finish(p) BY <1>0, <2>1 DEF PopCandidate, Finish, Goto, Moves, Others
    <2>2. CASE ~Finish(p) BY <1>0, <2>2 DEF PopCandidate, Goto, Moves, Others
    <2> QED BY <2>1, <2>2
<1>5. CheckCandidate(p) => /\ Moves(p, {"check"}, {"evict", "pop"})
                           /\ pc'[p] = "evict" => cand'[p].thread = cand[p].thread
    BY <1>0 DEF CheckCandidate, Goto, Moves, Others
<1> QED BY <1>1, <1>2, <1>3, <1>4, <1>5

\* pop_lru_candidate: the candidate leaves the residents, or they stay the same.
LEMMA PopFacts ==
    ASSUME IInv, NEW p \in Callers, PopCandidate(p)
    PROVE  \/ pc'[p] = "idle" /\ ResidentSet' = ResidentSet
           \/ /\ pc'[p] = "check" /\ cand'[p].thread \in Threads /\ cand'[p].runtime = None
              /\ ResidentSet = ResidentSet' \cup {cand'[p].thread}
<1>0. /\ pc \in [Callers -> PcValues] /\ residents \in Seq(Threads) /\ Distinct(residents)
      /\ cand \in [Callers -> [thread : Threads \cup {None}, runtime : Runtimes \cup {None}]]
    BY CallerTypes
<1> DEFINE s == Rotated(p)
<1>1. s \in Seq(Threads) BY <1>0, RotatedFacts
<1>2. {s[i] : i \in 1..Len(s)} = ResidentSet BY <1>0, RotateSet, ZenonT(60)
<1> HIDE DEF s
<1>3. CASE Finish(p) /\ (residents' = residents \/ residents' = s)
    <2>1. pc'[p] = "idle" BY <1>0, <1>3 DEF Finish, Goto
    <2>2. ResidentSet' = ResidentSet
        <3>1. CASE residents' = residents BY <3>1 DEF ResidentSet
        <3>2. CASE residents' = s
            <4>1. ResidentSet' = {s[i] : i \in 1..Len(s)} BY <3>2 DEF ResidentSet
            <4> QED BY <1>2, <4>1
        <3> QED BY <1>3, <3>1, <3>2
    <2> QED BY <2>1, <2>2
<1>4. CASE /\ s # <<>> /\ residents' = Tail(s) /\ Goto(p, "check")
           /\ cand' = [cand EXCEPT ![p] = [thread |-> Head(s), runtime |-> None]]
    <2>1. pc'[p] = "check" /\ cand'[p].thread = Head(s) /\ cand'[p].runtime = None
        BY <1>0, <1>4 DEF Goto
    <2>2. PICK n \in Nat : n = Len(s) /\ n > 0 BY <1>1, <1>4, LenProperties, EmptySeq
    <2>3. /\ Len(residents') = n - 1 /\ \A i \in 1..(n - 1) : residents'[i] = s[i + 1]
          /\ Head(s) = s[1] /\ Head(s) \in Threads
        BY <1>1, <1>4, <2>2, HeadTailProperties
    <2>4. \A i \in 1..n : i = 1 \/ (i - 1 \in 1..(n - 1) /\ (i - 1) + 1 = i) BY <2>2
    <2>5. \A i \in 1..(n - 1) : i + 1 \in 1..n BY <2>2
    <2>6. 1 \in 1..n BY <2>2
    <2>7. ResidentSet' = {residents'[i] : i \in 1..(n - 1)} BY <2>3 DEF ResidentSet
    <2>8. \A i \in 1..n : s[i] = Head(s) \/ s[i] \in ResidentSet'
        <3> SUFFICES ASSUME NEW i \in 1..n, i # 1 PROVE s[i] \in ResidentSet' BY <2>3
        <3>1. i - 1 \in 1..(n - 1) /\ residents'[i - 1] = s[i] BY <2>3, <2>4
        <3> QED BY <2>7, <3>1
    <2>9. {s[i] : i \in 1..n} = ResidentSet' \cup {Head(s)} BY <2>3, <2>5, <2>6, <2>7, <2>8
    <2> QED BY <1>2, <2>1, <2>2, <2>3, <2>9
<1> QED BY <1>3, <1>4 DEF PopCandidate, s

-----------------------------------------------------------------------------
(* Every loaded agent is accounted for.                                    *)

\* A step accounts for what its caller had in hand and for what it loads.
LEMMA LoadedOn ==
    ASSUME LoadedAccounted, NEW p \in Callers, Others(p),
           \A t \in Threads : manager'[t] # None =>
               \/ t \in ResidentSet' \cup strays' \cup InHand(p)'
               \/ manager[t] # None /\ t \notin ResidentSet \cup strays \cup InHand(p)
    PROVE  LoadedAccounted'
<1> SUFFICES ASSUME NEW t \in Threads, manager'[t] # None
             PROVE  t \in ResidentSet' \cup strays' \/ \E q \in Callers : t \in InHand(q)'
    BY DEF LoadedAccounted
<1>1. CASE t \in ResidentSet' \cup strays' \cup InHand(p)' BY <1>1
<1>2. CASE manager[t] # None /\ t \notin ResidentSet \cup strays \cup InHand(p)
    <2>1. PICK q \in Callers : t \in InHand(q) BY <1>2 DEF LoadedAccounted
    <2>2. q # p BY <1>2, <2>1
    <2>3. t \in InHand(q)' BY <2>1, <2>2 DEF InHand, Others, Target
    <2> QED BY <2>3
<1> QED BY <1>1, <1>2

\* Steps that leave the sessions and the residents alone.
LEMMA StillLoaded ==
    ASSUME IInv, LoadedAccounted, NEW p \in Callers,
           \/ Spawn(p) \/ (\E t \in Threads : Message(p, t)) \/ EnsureLoaded(p) \/ TryReserve(p)
           \/ CountResidents(p) \/ EvictSubmit(p) \/ EvictWait(p) \/ CreateFails(p) \/ Register(p)
           \/ ResumeSettle(p) \/ Send(p) \/ SendFails(p) \/ SendFindsDead(p) \/ BuryRelease(p)
    PROVE  LoadedAccounted'
<1>1. UNCHANGED <<manager, residents, strays>>
    BY DEF Spawn, Message, EnsureLoaded, TryReserve, CountResidents, EvictSubmit, EvictWait,
           CreateFails, Register, ResumeSettle, Send, SendFails, SendFindsDead, BuryRelease,
           agentVars, slotVars, strayVars
<1>2. Others(p) /\ InHand(p) \subseteq InHand(p)'
    <2>1. CASE Spawn(p) \/ \E t \in Threads : Message(p, t)
        BY <2>1, CallMoves DEF InHand, CandPcs
    <2>2. CASE EvictSubmit(p) \/ EvictWait(p)
        BY <2>2, UnloadMoves DEF Moves, Keeps, InHand, CandPcs
    <2>3. CASE Register(p)
        BY <2>3, PlainMoves DEF Moves, InHand, CandPcs, Target
    <2>4. CASE \/ EnsureLoaded(p) \/ TryReserve(p) \/ CountResidents(p) \/ CreateFails(p)
               \/ ResumeSettle(p) \/ Send(p) \/ SendFails(p) \/ SendFindsDead(p) \/ BuryRelease(p)
        <3>1. /\ Others(p)
              /\ pc[p] \in {"ensure", "reserve", "count", "create", "settle", "send", "unregister"}
            BY <2>4, PlainMoves DEF Moves
        <3> QED BY <3>1 DEF InHand, CandPcs
    <2> QED BY <2>1, <2>2, <2>3, <2>4
<1>3. ResidentSet' = ResidentSet BY <1>1 DEF ResidentSet
<1> QED BY <1>1, <1>2, <1>3, LoadedOn

\* touch_resident and commit put an agent back.
LEMMA TouchLoads ==
    ASSUME IInv, LoadedAccounted, NEW p \in Callers, Touch(p) \/ Commit(p)
    PROVE  LoadedAccounted'
<1>0. residents \in Seq(Threads) /\ Distinct(residents) BY CallerTypes
<1>1. PICK t \in Threads : t = Target(p)
    BY CallerTypes DEF Touch, Commit
<1>2. UNCHANGED manager /\ Others(p) /\ InHand(p) \subseteq {t}
    BY <1>1, PlainMoves DEF Touch, Commit, Moves, InHand, CandPcs, agentVars
<1>3. CASE manager[t] = None /\ Touch(p)
    <2>1. UNCHANGED <<residents, strays>> BY <1>1, <1>3 DEF Touch, strayVars
    <2>2. ResidentSet' = ResidentSet BY <2>1 DEF ResidentSet
    <2> QED BY <1>2, <1>3, <2>1, <2>2, LoadedOn
<1>4. CASE ~(manager[t] = None /\ Touch(p))
    <2>1. residents' = TouchResident(t) /\ strays' = strays \ {t}
        BY <1>1, <1>4 DEF Touch, Commit, TakeBack
    <2>2. ResidentSet' = ResidentSet \cup {t} BY <1>0, <2>1, TouchSet
    <2> QED BY <1>2, <2>1, <2>2, LoadedOn
<1> QED BY <1>3, <1>4

\* try_unload_one_resident: a candidate is in the caller's hand until it is
\* put back, found not to be loaded, or removed.
LEMMA UnloadLoads ==
    ASSUME IInv, LoadedAccounted, NEW p \in Callers,
           PopCandidate(p) \/ CheckCandidate(p) \/ EvictRemove(p)
    PROVE  LoadedAccounted'
<1>0. /\ residents \in Seq(Threads) /\ Distinct(residents)
      /\ manager \in [Threads -> Runtimes \cup {None}]
    BY CallerTypes
<1>1. CASE PopCandidate(p)
    <2>1. Others(p) /\ pc[p] = "pop" BY <1>1, UnloadMoves DEF Moves
    <2>2. UNCHANGED <<manager, strays>> BY <1>1 DEF PopCandidate, agentVars, strayVars
    <2>3. InHand(p) = {} BY <2>1 DEF InHand, CandPcs
    <2>4. ResidentSet \subseteq ResidentSet' \cup InHand(p)'
        BY <1>1, PopFacts DEF InHand, CandPcs
    <2> QED BY <2>1, <2>2, <2>3, <2>4, LoadedOn
<1>2. CASE CheckCandidate(p)
    <2>1. /\ Others(p) /\ pc[p] = "check" /\ pc'[p] \in {"evict", "pop"}
          /\ pc'[p] = "evict" => cand'[p].thread = cand[p].thread
        BY <1>2, UnloadMoves DEF Moves
    <2>2. PICK t \in Threads : t = cand[p].thread BY <2>1, CallerTypes DEF CandPcs
    <2>3. UNCHANGED manager /\ InHand(p) = {t}
        BY <1>2, <2>1, <2>2 DEF CheckCandidate, agentVars, InHand, CandPcs
    <2>4. CASE pc'[p] = "evict"
        <3>1. UNCHANGED <<residents, strays>>
            BY <1>2, <2>4, CallerTypes DEF CheckCandidate, Goto, strayVars
        <3>2. InHand(p)' = {t} BY <2>1, <2>2, <2>4 DEF InHand, CandPcs
        <3>3. ResidentSet' = ResidentSet BY <3>1 DEF ResidentSet
        <3> QED BY <2>1, <2>3, <3>1, <3>2, <3>3, LoadedOn
    <2>5. CASE pc'[p] = "pop" /\ manager[t] = None
        <3>1. UNCHANGED <<residents, strays>>
            BY <1>2, <2>2, <2>5 DEF CheckCandidate, strayVars
        <3>2. ResidentSet' = ResidentSet BY <3>1 DEF ResidentSet
        <3> QED BY <2>1, <2>3, <2>5, <3>1, <3>2, LoadedOn
    <2>6. CASE pc'[p] = "pop" /\ manager[t] # None
        <3>1. residents' = TouchResident(t) /\ strays' = strays \ {t}
            BY <1>2, <2>2, <2>6, CallerTypes DEF CheckCandidate, Goto, TakeBack
        <3>2. ResidentSet' = ResidentSet \cup {t} BY <1>0, <3>1, TouchSet
        <3> QED BY <2>1, <2>3, <3>1, <3>2, LoadedOn
    <2> QED BY <2>1, <2>4, <2>5, <2>6
<1>3. CASE EvictRemove(p)
    <2>1. Others(p) /\ pc[p] = "remove" BY <1>3, UnloadMoves DEF Moves
    <2>2. PICK t \in Threads : t = cand[p].thread BY <2>1, CallerTypes DEF CandPcs
    <2>3. /\ InHand(p) = {t} /\ UNCHANGED <<residents, strays>>
          /\ \A u \in Threads : manager'[u] = IF u = t THEN None ELSE manager[u]
        BY <1>0, <1>3, <2>1, <2>2 DEF EvictRemove, slotVars, strayVars, InHand, CandPcs
    <2>4. ResidentSet' = ResidentSet BY <2>3 DEF ResidentSet
    <2> QED BY <2>1, <2>3, <2>4, LoadedOn
<1> QED BY <1>1, <1>2, <1>3

\* Sessions that are stored or removed by their thread's id.
LEMMA SessionLoads ==
    ASSUME IInv, LoadedAccounted, NEW p \in Callers,
           CreateThread(p) \/ ResumeBegin(p) \/ ResumeFinish(p) \/ BuryRemove(p)
    PROVE  LoadedAccounted'
<1>0. manager \in [Threads -> Runtimes \cup {None}] BY CallerTypes
<1>1. /\ Others(p) /\ pc[p] \in {"create", "resume", "finish", "bury"}
      /\ pc'[p] # "idle" => op'[p] = op[p]
    BY PlainMoves DEF Moves
<1>2. PICK t \in Threads : t = Target(p) BY <1>1, CallerTypes
<1>3. InHand(p) = {} /\ UNCHANGED <<residents, strays>>
    BY <1>1 DEF InHand, CandPcs, CreateThread, ResumeBegin, ResumeFinish, BuryRemove, slotVars,
                strayVars
<1>4. \A u \in Threads : manager'[u] # None => manager'[u] = manager[u] \/ u \in InHand(p)'
    <2>1. CASE CreateThread(p)
        BY <1>0, <1>2, <2>1, PlainMoves
           DEF CreateThread, NewRuntime, Moves, InHand, CandPcs, Target
    <2>2. CASE ResumeBegin(p) BY <1>0, <1>2, <2>2 DEF ResumeBegin
    <2>3. CASE ResumeFinish(p)
        <3>1. CASE NewRuntime(Target(p), {"init", "idle"}) /\ Goto(p, "commit")
            <4>1. pc'[p] = "commit" /\ op'[p] = op[p] BY <1>1, <3>1, CallerTypes DEF Goto
            <4> QED BY <1>0, <1>2, <3>1, <4>1 DEF NewRuntime, InHand, CandPcs, Target
        <3>2. CASE UNCHANGED manager BY <3>2
        <3> QED BY <2>3, <3>1, <3>2 DEF ResumeFinish
    <2>4. CASE BuryRemove(p) BY <1>0, <1>2, <2>4 DEF BuryRemove
    <2> QED BY <2>1, <2>2, <2>3, <2>4
<1>5. ResidentSet' = ResidentSet BY <1>3 DEF ResidentSet
<1> QED BY <1>1, <1>3, <1>4, <1>5, LoadedOn

\* Burials and dropped calls let go of agents, which become strays.
LEMMA LetGoLoads ==
    ASSUME IInv, LoadedAccounted, NEW p \in Callers, BuryForget(p) \/ Drop(p)
    PROVE  LoadedAccounted'
<1>0. residents \in Seq(Threads) /\ Distinct(residents) BY CallerTypes
<1>1. Others(p) /\ UNCHANGED manager
    BY PlainMoves DEF Moves, BuryForget, Drop, agentVars
<1>2. CASE BuryForget(p)
    <2>1. ResidentSet' = ResidentSet \ {Target(p)} BY <1>0, <1>2, ForgetSet DEF BuryForget
    <2>2. /\ strays \subseteq strays' /\ InHand(p) = {}
          /\ manager[Target(p)] # None => Target(p) \in strays'
        BY <1>2 DEF BuryForget, LetGo, InHand, CandPcs
    <2> QED BY <1>1, <2>1, <2>2, LoadedOn
<1>3. CASE Drop(p)
    <2>1. strays' = strays \cup InHand(p) /\ UNCHANGED residents BY <1>3 DEF Drop, LetGo
    <2>2. ResidentSet' = ResidentSet BY <2>1 DEF ResidentSet
    <2> QED BY <1>1, <2>1, <2>2, LoadedOn
<1> QED BY <1>2, <1>3

LEMMA NextLoaded == IInv /\ LoadedAccounted /\ [Next]_vars => LoadedAccounted'
<1> SUFFICES ASSUME IInv, LoadedAccounted, [Next]_vars PROVE LoadedAccounted' OBVIOUS
<1>1. ASSUME NEW p \in Callers, ToolCall(p) \/ CallerStep(p) \/ Drop(p) PROVE LoadedAccounted'
    BY <1>1, StillLoaded, TouchLoads, UnloadLoads, SessionLoads, LetGoLoads
       DEF ToolCall, CallerStep
<1>2. ASSUME UNCHANGED <<manager, residents, strays, pc, op, cand>> PROVE LoadedAccounted'
    BY <1>2 DEF LoadedAccounted, ResidentSet, InHand, Target
<1>3. ASSUME NEW r \in Runtimes, Receive(r) \/ Work(r) \/ Stop(r) \/ Crash(r) PROVE LoadedAccounted'
    BY <1>2, <1>3 DEF Receive, Work, Stop, Crash, agentVars, slotVars, callVars, strayVars
<1>4. CASE UNCHANGED vars BY <1>2, <1>4 DEF vars, agentVars, slotVars, callVars, strayVars
<1> QED BY <1>1, <1>3, <1>4 DEF Next

\* A loaded agent is among the residents, in the hands of a caller that puts it there or
\* unloads it, or one that a dropped call or a burial of its predecessor let go of: the
\* residency loses no other agent, whatever the callers, crashes and reloads do.
THEOREM LoadedIsAccounted == Spec => []LoadedAccounted
<1>1. Init => LoadedAccounted BY DEF Init, LoadedAccounted
<1> QED BY <1>1, InitIInv, NextIInv, NextLoaded, PTL DEF Spec

-----------------------------------------------------------------------------
(* How far concurrent callers overshoot the capacity.                      *)

Looking == {q \in Callers : pc[q] \in CandPcs}
Loading == {Target(p) : p \in Holders}
Viewed  == {cand[p].thread : p \in Looking}

\* Each stray was let go of once at least since it was last a resident.
StraysCounted == Cardinality(strays) <= escapes

\* The sum of two finite sets' sizes bounds their union's.
LEMMA UnionBound ==
    ASSUME NEW S, NEW T, IsFiniteSet(S), IsFiniteSet(T)
    PROVE  /\ IsFiniteSet(S \cup T) /\ Cardinality(S \cup T) \in Nat
           /\ Cardinality(S) \in Nat /\ Cardinality(T) \in Nat
           /\ Cardinality(S \cup T) <= Cardinality(S) + Cardinality(T)
<1>1. /\ IsFiniteSet(S \cup T)
      /\ Cardinality(S \cup T) = Cardinality(S) + Cardinality(T) - Cardinality(S \cap T)
    BY FS_Union
<1>2. IsFiniteSet(S \cap T) BY FS_Subset
<1>3. /\ Cardinality(S) \in Nat /\ Cardinality(T) \in Nat /\ Cardinality(S \cap T) \in Nat
      /\ Cardinality(S \cup T) \in Nat
    BY <1>1, <1>2, FS_CardinalityType
<1> QED BY <1>1, <1>3

LEMMA StraysFinite == LogOK => IsFiniteSet(strays) /\ Cardinality(strays) \in Nat /\ escapes \in Nat
<1>1. IsFiniteSet(Threads) BY ResidencyAssumption, FS_Interval DEF ResidencyAssumption, Threads
<1>2. LogOK => IsFiniteSet(strays) /\ escapes \in Nat BY <1>1, FS_Subset DEF LogOK
<1> QED BY <1>2, FS_CardinalityType

\* A claim is a place among the residents, a slot, a candidate or a stray.
ClaimsCount ==
    /\ IsFiniteSet(Claimed) /\ Cardinality(Claimed) \in Nat
    /\ Cardinality(Claimed) <= Len(residents) + Cardinality(Holders) + Cardinality(Looking)
                               + Cardinality(strays)

LEMMA ClaimedBound == residents \in Seq(Threads) /\ LogOK => ClaimsCount
<1> SUFFICES ASSUME residents \in Seq(Threads), LogOK PROVE ClaimsCount OBVIOUS
<1>1. PICK n \in Nat : n = Len(residents) BY LenProperties
<1>2. IsFiniteSet(Looking) BY ResidencyAssumption, FS_Subset DEF ResidencyAssumption, Looking
<1>3. IsFiniteSet(ResidentSet) /\ Cardinality(ResidentSet) <= n
    <2>1. [i \in 1..n |-> residents[i]] \in Surjection(1..n, ResidentSet)
        BY <1>1 DEF Surjection, ResidentSet
    <2>2. IsFiniteSet(1..n) /\ Cardinality(1..n) = n
        <3>1. IsFiniteSet(1..n) /\ Cardinality(1..n) = IF 1 > n THEN 0 ELSE n - 1 + 1
            BY FS_Interval
        <3> QED BY <3>1
    <2> QED BY <2>1, <2>2, FS_Surjection
<1>4. IsFiniteSet(Loading) /\ Cardinality(Loading) <= Cardinality(Holders)
    <2>1. [p \in Holders |-> Target(p)] \in Surjection(Holders, Loading)
        BY DEF Surjection, Loading
    <2> QED BY <2>1, HoldersFinite, FS_Surjection
<1>5. IsFiniteSet(Viewed) /\ Cardinality(Viewed) <= Cardinality(Looking)
    <2>1. [p \in Looking |-> cand[p].thread] \in Surjection(Looking, Viewed)
        BY DEF Surjection, Viewed
    <2> QED BY <1>2, <2>1, FS_Surjection
<1> DEFINE A == ResidentSet \cup Loading
           B == A \cup Viewed
<1>6. /\ IsFiniteSet(A) /\ Cardinality(A) \in Nat /\ Cardinality(ResidentSet) \in Nat
      /\ Cardinality(Loading) \in Nat
      /\ Cardinality(A) <= Cardinality(ResidentSet) + Cardinality(Loading)
    BY <1>3, <1>4, UnionBound
<1> HIDE DEF A
<1>7. /\ IsFiniteSet(B) /\ Cardinality(B) \in Nat /\ Cardinality(Viewed) \in Nat
      /\ Cardinality(B) <= Cardinality(A) + Cardinality(Viewed)
    BY <1>5, <1>6, UnionBound
<1> HIDE DEF B
<1>8. /\ IsFiniteSet(B \cup strays) /\ Cardinality(B \cup strays) \in Nat
      /\ Cardinality(strays) \in Nat
      /\ Cardinality(B \cup strays) <= Cardinality(B) + Cardinality(strays)
    BY <1>7, StraysFinite, UnionBound
<1>9. Claimed = B \cup strays BY DEF Claimed, Loading, Viewed, Looking, A, B
<1>10. Cardinality(Looking) \in Nat BY <1>2, FS_CardinalityType
<1>11. Cardinality(B \cup strays) <= n + Cardinality(Holders) + Cardinality(Looking)
                                     + Cardinality(strays)
    BY <1>1, <1>3, <1>4, <1>5, <1>6, <1>7, <1>8, <1>10, HoldersFinite, SMTT(30)
<1> QED BY <1>1, <1>8, <1>9, <1>11 DEF ClaimsCount

\* A caller that finds room has no candidate, so the others hide at most one each.
LEMMA ReserveBounded ==
    ASSUME IInv, StraysCounted, NEW p \in Callers, TryReserve(p),
           Len(residents) + pendingSlots < Capacity
    PROVE  OvershootBounded'
<1>0. residents \in Seq(Threads) /\ pc \in [Callers -> PcValues] BY CallerTypes
<1>1. UNCHANGED <<residents, strays, escapes>> BY DEF TryReserve, strayVars
<1>2. Moves(p, {"reserve"}, {"create", "resume", "count"}) /\ pendingSlots' = pendingSlots + 1
    BY PlainMoves DEF TryReserve
<1>3. Looking' \subseteq Callers \ {p} BY <1>2 DEF Moves, Looking, CandPcs
<1>4. /\ IsFiniteSet(Callers) /\ IsFiniteSet(Callers \ {p})
      /\ Cardinality(Callers \ {p}) = Cardinality(Callers) - 1
    BY ResidencyAssumption, FS_RemoveElement DEF ResidencyAssumption
<1>5. IsFiniteSet(Looking') /\ Cardinality(Looking') <= Cardinality(Callers) - 1
    BY <1>3, <1>4, FS_Subset
<1>6. IInv' BY TryReserveKeeps
<1>7. Cardinality(Holders') = pendingSlots + 1 BY <1>2, <1>6 DEF IInv, SlotsExact
<1>8. /\ Cardinality(Claimed') \in Nat
      /\ Cardinality(Claimed') <= Len(residents') + Cardinality(Holders') + Cardinality(Looking')
                                  + Cardinality(strays')
    <2>1. (residents \in Seq(Threads) /\ LogOK)' => ClaimsCount' BY ClaimedBound, PTL
    <2> QED BY <1>0, <1>1, <1>6, <2>1 DEF ClaimsCount, IInv, TypeOK
<1>9. /\ Cardinality(Callers) \in Nat /\ Cardinality(Looking') \in Nat /\ Capacity \in Nat
      /\ pendingSlots \in Nat /\ Len(residents) \in Nat
    BY <1>0, <1>4, <1>5, ResidencyAssumption, FS_CardinalityType, LenProperties
       DEF ResidencyAssumption, IInv, TypeOK, ResidencyOK
<1>10. Len(residents') = Len(residents) /\ Cardinality(strays') = Cardinality(strays)
       /\ Cardinality(strays) \in Nat /\ escapes \in Nat /\ escapes' = escapes
    BY <1>1, StraysFinite DEF IInv, TypeOK
<1> QED BY <1>5, <1>7, <1>8, <1>9, <1>10, SMTT(30) DEF OvershootBounded, StraysCounted

\* What caller p alone claims.
Claims(p) ==
    IF pc[p] \in SlotPcs THEN {Target(p)}
    ELSE IF pc[p] \in CandPcs THEN {cand[p].thread} ELSE {}

LEMMA ClaimsHeld ==
    /\ ResidentSet \subseteq Claimed /\ strays \subseteq Claimed
    /\ \A q \in Callers : Claims(q) \subseteq Claimed /\ InHand(q) \subseteq Claims(q)
<1>1. SlotPcs \cap CandPcs = {} /\ {"register", "commit"} \subseteq SlotPcs
    BY DEF SlotPcs, CandPcs
<1> QED BY <1>1 DEF Claimed, Claims, Holders, InHand

\* A step that claims no other thread keeps the bound.
LEMMA ClaimsNothing ==
    ASSUME IInv, OvershootBounded, NEW p \in Callers, Others(p),
           ResidentSet' \subseteq Claimed, strays' \subseteq Claimed, Claims(p)' \subseteq Claimed,
           escapes' \in Nat, escapes' >= escapes
    PROVE  OvershootBounded'
<1>1. \A q \in Callers : Claims(q)' \subseteq Claimed
    BY ClaimsHeld DEF Claims, Others, Target
<1>2. Claimed' \subseteq ResidentSet' \cup strays' \cup UNION {Claims(q)' : q \in Callers}
    <2>1. SlotPcs \cap CandPcs = {} BY DEF SlotPcs, CandPcs
    <2> QED BY <2>1 DEF Claimed, Claims, Holders
<1>3. Claimed' \subseteq Claimed BY <1>1, <1>2
<1>4. IsFiniteSet(Claimed) /\ Cardinality(Claimed) \in Nat
    BY ClaimedBound, CallerTypes DEF ClaimsCount, IInv, TypeOK
<1>5. IsFiniteSet(Claimed') /\ Cardinality(Claimed') <= Cardinality(Claimed)
    BY <1>3, <1>4, FS_Subset
<1>6. Cardinality(Claimed') \in Nat BY <1>5, FS_CardinalityType
<1>7. Cardinality(Callers) \in Nat /\ Capacity \in Nat /\ escapes \in Nat
    BY ResidencyAssumption, FS_CardinalityType DEF ResidencyAssumption, IInv, TypeOK, LogOK
<1> QED BY <1>4, <1>5, <1>6, <1>7 DEF OvershootBounded

\* The steps after which the caller holds nothing new, and leaves the residents alone.
LEMMA StillBounded ==
    ASSUME IInv, OvershootBounded, NEW p \in Callers,
           \/ Spawn(p) \/ (\E t \in Threads : Message(p, t)) \/ EnsureLoaded(p)
           \/ (TryReserve(p) /\ ~(Len(residents) + pendingSlots < Capacity))
           \/ CountResidents(p) \/ EvictSubmit(p) \/ EvictWait(p) \/ EvictRemove(p)
           \/ CreateThread(p) \/ CreateFails(p) \/ Register(p) \/ ResumeBegin(p)
           \/ ResumeFinish(p) \/ ResumeSettle(p) \/ Send(p) \/ SendFails(p)
           \/ SendFindsDead(p) \/ BuryRemove(p) \/ BuryRelease(p)
    PROVE  OvershootBounded'
<1>1. UNCHANGED <<residents, strays, escapes>>
    BY DEF Spawn, Message, EnsureLoaded, TryReserve, CountResidents, EvictSubmit, EvictWait,
           EvictRemove, CreateThread, CreateFails, Register, ResumeBegin, ResumeFinish,
           ResumeSettle, Send, SendFails, SendFindsDead, BuryRemove, BuryRelease, slotVars,
           strayVars
<1>2. Others(p) /\ Claims(p)' \subseteq Claims(p)
    <2>1. CASE Spawn(p) \/ \E t \in Threads : Message(p, t)
        BY <2>1, CallMoves DEF Claims, SlotPcs, CandPcs
    <2>2. CASE EvictSubmit(p) \/ EvictWait(p) \/ EvictRemove(p)
        BY <2>2, UnloadMoves DEF Moves, Keeps, Claims, SlotPcs, CandPcs
    <2>3. CASE CreateThread(p) \/ Register(p) \/ ResumeBegin(p) \/ ResumeFinish(p)
        <3>1. /\ Others(p) /\ op'[p] = op[p]
              /\ pc[p] \in {"create", "register", "resume", "finish"}
              /\ pc'[p] \in {"register", "commit", "settle", "finish"}
            BY <2>3, PlainMoves DEF Moves
        <3> QED BY <3>1 DEF Claims, SlotPcs, Target
    <2>4. CASE TryReserve(p) /\ ~(Len(residents) + pendingSlots < Capacity)
        <3>1. pc'[p] = "count" BY <2>4, CallerTypes DEF TryReserve, Goto
        <3> QED BY <2>4, <3>1, PlainMoves DEF Moves, Claims, SlotPcs, CandPcs
    <2>5. CASE \/ EnsureLoaded(p) \/ CountResidents(p) \/ CreateFails(p) \/ ResumeSettle(p)
               \/ Send(p) \/ SendFails(p) \/ SendFindsDead(p) \/ BuryRemove(p) \/ BuryRelease(p)
        <3>1. Others(p) /\ pc'[p] \in {"touch", "reserve", "idle", "pop", "bury", "forget"}
            BY <2>5, PlainMoves DEF Moves
        <3> QED BY <3>1 DEF Claims, SlotPcs, CandPcs
    <2> QED BY <2>1, <2>2, <2>3, <2>4, <2>5
<1>3. ResidentSet' = ResidentSet BY <1>1 DEF ResidentSet
<1>4. escapes \in Nat BY DEF IInv, TypeOK, LogOK
<1> QED BY <1>1, <1>2, <1>3, <1>4, ClaimsHeld, ClaimsNothing

\* The steps that change the residents or the strays claim what was claimed before.
LEMMA ResidentsBounded ==
    ASSUME IInv, LoadedAccounted, OvershootBounded, NEW p \in Callers,
           \/ Touch(p) \/ PopCandidate(p) \/ CheckCandidate(p) \/ Commit(p)
           \/ BuryForget(p) \/ Drop(p)
    PROVE  OvershootBounded'
<1>0. residents \in Seq(Threads) /\ Distinct(residents) BY CallerTypes
<1>e. escapes \in Nat BY DEF IInv, TypeOK, LogOK
<1>l. \A t \in Threads : manager[t] # None => t \in Claimed
    BY ClaimsHeld DEF LoadedAccounted
<1>1. CASE Touch(p) \/ Commit(p)
    <2>1. PICK t \in Threads : t = Target(p) BY <1>1, CallerTypes DEF Touch, Commit
    <2>2. Others(p) /\ pc'[p] = "send" BY <1>1, PlainMoves DEF Moves
    <2>3. Claims(p)' = {} BY <2>2 DEF Claims, SlotPcs, CandPcs
    <2>4. ResidentSet' \subseteq Claimed
        <3>1. CASE residents' = residents
            <4>1. ResidentSet' = ResidentSet BY <3>1 DEF ResidentSet
            <4> QED BY <4>1, ClaimsHeld
        <3>2. CASE residents' # residents
            <4>1. residents' = TouchResident(t) /\ (Commit(p) \/ manager[t] # None)
                BY <1>1, <2>1, <3>2 DEF Touch, Commit
            <4>2. Commit(p) => t \in Claims(p) BY <2>1 DEF Commit, Claims, SlotPcs
            <4>3. t \in Claimed BY <1>l, <4>1, <4>2, ClaimsHeld
            <4>4. ResidentSet' = ResidentSet \cup {t} BY <1>0, <4>1, TouchSet
            <4> QED BY <4>3, <4>4, ClaimsHeld
        <3> QED BY <3>1, <3>2
    <2>5. strays' \subseteq strays /\ escapes' = escapes
        BY <1>1 DEF Touch, Commit, TakeBack, strayVars
    <2> QED BY <1>e, <2>2, <2>3, <2>4, <2>5, ClaimsHeld, ClaimsNothing
<1>2. CASE PopCandidate(p)
    <2>1. Others(p) /\ pc'[p] \in {"check", "idle"} BY <1>2, UnloadMoves DEF Moves
    <2>2. ResidentSet' \subseteq ResidentSet /\ Claims(p)' \subseteq ResidentSet
        BY <1>2, PopFacts DEF Claims, SlotPcs, CandPcs
    <2>3. UNCHANGED <<strays, escapes>> BY <1>2 DEF PopCandidate, strayVars
    <2> QED BY <1>e, <2>1, <2>2, <2>3, ClaimsHeld, ClaimsNothing
<1>3. CASE CheckCandidate(p)
    <2>1. /\ Others(p) /\ pc[p] = "check" /\ pc'[p] \in {"evict", "pop"}
          /\ pc'[p] = "evict" => cand'[p].thread = cand[p].thread
        BY <1>3, UnloadMoves DEF Moves
    <2>2. PICK t \in Threads : t = cand[p].thread BY <2>1, CallerTypes DEF CandPcs
    <2>3. Claims(p) = {t} /\ Claims(p)' \subseteq {t}
        BY <2>1, <2>2 DEF Claims, SlotPcs, CandPcs
    <2>4. residents' = residents \/ residents' = TouchResident(t)
        BY <1>3, <2>2 DEF CheckCandidate
    <2>5. ResidentSet' \subseteq ResidentSet \cup {t}
        <3>1. CASE residents' = residents BY <3>1 DEF ResidentSet
        <3>2. CASE residents' = TouchResident(t) BY <1>0, <3>2, TouchSet
        <3> QED BY <2>4, <3>1, <3>2
    <2>6. strays' \subseteq strays /\ escapes' = escapes
        BY <1>3 DEF CheckCandidate, TakeBack, strayVars
    <2>7. {t} \subseteq Claimed BY <2>3, ClaimsHeld
    <2> QED BY <1>e, <2>1, <2>3, <2>5, <2>6, <2>7, ClaimsHeld, ClaimsNothing
<1>4. CASE BuryForget(p)
    <2>1. PICK t \in Threads : t = Target(p) BY <1>4, CallerTypes DEF BuryForget
    <2>2. Others(p) /\ pc'[p] = "unregister" BY <1>4, PlainMoves DEF Moves
    <2>3. Claims(p)' = {} BY <2>2 DEF Claims, SlotPcs, CandPcs
    <2>4. ResidentSet' = ResidentSet \ {t} BY <1>0, <1>4, <2>1, ForgetSet DEF BuryForget
    <2> DEFINE S == IF manager[t] = None THEN {} ELSE {t}
    <2>5. strays' = strays \cup S /\ escapes' = escapes + Cardinality(S)
        BY <1>4, <2>1 DEF BuryForget, LetGo
    <2>6. S \subseteq Claimed BY <1>l
    <2>7. Cardinality(S) \in Nat
        <3>1. IsFiniteSet(S) BY FS_EmptySet, FS_Singleton
        <3> QED BY <3>1, FS_CardinalityType
    <2> HIDE DEF S
    <2> QED BY <1>e, <2>2, <2>3, <2>4, <2>5, <2>6, <2>7, ClaimsHeld, ClaimsNothing
<1>5. CASE Drop(p)
    <2>1. Others(p) /\ pc'[p] = "idle" BY <1>5, PlainMoves DEF Moves
    <2>2. Claims(p)' = {} BY <2>1 DEF Claims, SlotPcs, CandPcs
    <2>3. /\ UNCHANGED residents /\ strays' = strays \cup InHand(p)
          /\ escapes' = escapes + Cardinality(InHand(p)) /\ Cardinality(InHand(p)) \in Nat
        BY <1>5, InHandFacts DEF Drop, LetGo, IInv
    <2>4. ResidentSet' = ResidentSet BY <2>3 DEF ResidentSet
    <2>5. escapes' \in Nat /\ escapes' >= escapes BY <1>e, <2>3
    <2> QED BY <2>1, <2>2, <2>3, <2>4, <2>5, ClaimsHeld, ClaimsNothing
<1> QED BY <1>1, <1>2, <1>3, <1>4, <1>5

\* Strays are made by LetGo only.
LEMMA StraysStep ==
    ASSUME IInv, StraysCounted, NEW S, IsFiniteSet(S),
           \/ strays' \subseteq strays /\ escapes' = escapes
           \/ LetGo(S)
    PROVE  StraysCounted'
<1>1. IsFiniteSet(strays) /\ Cardinality(strays) \in Nat /\ escapes \in Nat
    BY StraysFinite DEF IInv, TypeOK
<1>2. CASE strays' \subseteq strays /\ escapes' = escapes
    <2>1. IsFiniteSet(strays') /\ Cardinality(strays') <= Cardinality(strays)
        BY <1>1, <1>2, FS_Subset
    <2>2. Cardinality(strays') \in Nat BY <2>1, FS_CardinalityType
    <2> QED BY <1>1, <1>2, <2>1, <2>2 DEF StraysCounted
<1>3. CASE LetGo(S)
    BY <1>1, <1>3, UnionBound DEF LetGo, StraysCounted
<1> QED BY <1>2, <1>3

LEMMA NextStrays == IInv /\ StraysCounted /\ [Next]_vars => StraysCounted'
<1> SUFFICES ASSUME IInv, StraysCounted, [Next]_vars PROVE StraysCounted' OBVIOUS
<1>0. IsFiniteSet({}) BY FS_EmptySet
<1>1. ASSUME strays' \subseteq strays, escapes' = escapes PROVE StraysCounted'
    BY <1>0, <1>1, StraysStep
<1>2. ASSUME NEW p \in Callers, Drop(p) PROVE StraysCounted'
    BY <1>2, InHandFacts, StraysStep DEF Drop, IInv
<1>3. ASSUME NEW p \in Callers, BuryForget(p) PROVE StraysCounted'
    <2>1. IsFiniteSet(IF manager[Target(p)] = None THEN {} ELSE {Target(p)})
        BY FS_EmptySet, FS_Singleton
    <2> QED BY <1>3, <2>1, StraysStep DEF BuryForget
<1>4. ASSUME NEW p \in Callers, ToolCall(p) \/ CallerStep(p), ~BuryForget(p) PROVE StraysCounted'
    BY <1>1, <1>4
       DEF ToolCall, CallerStep, Spawn, Message, EnsureLoaded, Touch, TryReserve, CountResidents,
           PopCandidate, CheckCandidate, EvictSubmit, EvictWait, EvictRemove, CreateThread,
           CreateFails, Register, Commit, ResumeBegin, ResumeFinish, ResumeSettle, Send, SendFails,
           SendFindsDead, BuryRemove, BuryRelease, TakeBack, strayVars
<1>5. ASSUME NEW r \in Runtimes, Receive(r) \/ Work(r) \/ Stop(r) \/ Crash(r) PROVE StraysCounted'
    BY <1>1, <1>5 DEF Receive, Work, Stop, Crash, strayVars
<1>6. CASE UNCHANGED vars BY <1>1, <1>6 DEF vars, strayVars
<1> QED BY <1>2, <1>3, <1>4, <1>5, <1>6 DEF Next

LEMMA NextBounded ==
    IInv /\ LoadedAccounted /\ StraysCounted /\ OvershootBounded /\ [Next]_vars => OvershootBounded'
<1> SUFFICES ASSUME IInv, LoadedAccounted, StraysCounted, OvershootBounded, [Next]_vars
             PROVE  OvershootBounded'
    OBVIOUS
<1>1. ASSUME NEW p \in Callers, ToolCall(p) \/ CallerStep(p) \/ Drop(p) PROVE OvershootBounded'
    BY <1>1, StillBounded, ResidentsBounded, ReserveBounded DEF ToolCall, CallerStep
<1>2. ASSUME UNCHANGED <<residents, strays, escapes, pc, op, cand>> PROVE OvershootBounded'
    BY <1>2 DEF OvershootBounded, Claimed, ResidentSet, Holders, Target
<1>3. ASSUME NEW r \in Runtimes, Receive(r) \/ Work(r) \/ Stop(r) \/ Crash(r)
      PROVE  OvershootBounded'
    BY <1>2, <1>3 DEF Receive, Work, Stop, Crash, slotVars, callVars, strayVars
<1>4. CASE UNCHANGED vars BY <1>2, <1>4 DEF vars, slotVars, callVars, strayVars
<1> QED BY <1>1, <1>3, <1>4 DEF Next

LEMMA InitBounded == Init => StraysCounted /\ OvershootBounded
<1> SUFFICES ASSUME Init PROVE StraysCounted /\ OvershootBounded OBVIOUS
<1>1. /\ residents = <<>> /\ strays = {} /\ escapes = 0
      /\ \A p \in Callers : pc[p] = "idle"
    BY DEF Init
<1>2. Len(residents) = 0 BY <1>1
<1>3. Claimed = {} BY <1>1, <1>2 DEF Claimed, ResidentSet, Holders, SlotPcs, CandPcs
<1>4. Cardinality(Callers) \in Nat /\ Cardinality(Callers) # 0 /\ Capacity \in Nat
    BY ResidencyAssumption, FS_CardinalityType, FS_EmptySet DEF ResidencyAssumption
<1>5. Cardinality(Claimed) = 0 /\ Cardinality(strays) = 0 BY <1>1, <1>3, FS_EmptySet
<1> QED BY <1>1, <1>4, <1>5 DEF OvershootBounded, StraysCounted

\* However many spawns and reloads race, and however often they hide candidates from each
\* other, the agents that are loaded, being loaded or being looked at exceed the capacity by
\* less than the number of callers and of the agents that were let go of.
THEOREM OvershootIsBounded == Spec => []OvershootBounded
<1> DEFINE I == IInv /\ LoadedAccounted /\ StraysCounted /\ OvershootBounded
<1>1. Init => I
    BY InitIInv, InitBounded DEF Init, LoadedAccounted
<1>2. I /\ [Next]_vars => I'
    BY NextIInv, NextLoaded, NextStrays, NextBounded
<1> QED BY <1>1, <1>2, PTL DEF Spec

-----------------------------------------------------------------------------
(* A session that runs is the one its thread id leads to, or a replacement. *)

\* Where a call has not stored a session yet.
EarlyPcs == {"reserve", "count", "pop", "create"} \cup CandPcs

\* Nobody but its spawner knows the thread id of an agent that is not created yet.
Fresh ==
    /\ \A p \in Callers : pc[p] # "idle" => Target(p) <= spawned
    /\ \A t \in known : t <= spawned
    /\ \A r \in Runtimes : of[r] <= spawned
    /\ \A p \in Callers : pc[p] = "create" => op[p].kind = "spawn"
    /\ \A p \in Callers : pc[p] = "ensure" => op[p].kind = "message"
    /\ \A p \in Callers : pc[p] \in EarlyPcs /\ op[p].kind = "spawn" =>
            /\ Target(p) \notin known
            /\ \A r \in Runtimes : of[r] # Target(p)
            /\ \A q \in Callers : q # p /\ pc[q] # "idle" => Target(q) # Target(p)

\* A thread id leads to the latest of the thread's sessions, or to none.
Sessions ==
    /\ \A r \in Runtimes : life[r] = "unborn" <=> r >= nextRuntime
    /\ \A r \in Runtimes : of[r] = None <=> r >= nextRuntime
    /\ \A r \in closing : r < nextRuntime
    /\ \A t \in Threads : manager[t] # None =>
            of[manager[t]] = t /\ \A r \in Runtimes : of[r] = t => r <= manager[t]

\* A caller that removes a thread by its id has seen a session of it that has ended.
Removals ==
    /\ \A p \in Callers : pc[p] \in EvictPcs => of[cand[p].runtime] = cand[p].thread
    /\ \A p \in Callers : pc[p] = "remove" => life[cand[p].runtime] = "stopped"
    /\ \A p \in Callers : pc[p] = "bury" =>
            \E r \in Runtimes : of[r] = Target(p) /\ life[r] = "stopped"

SInv == Fresh /\ Sessions /\ Removals /\ RunningReachable

Alive == {"init", "busy", "idle"}

\* Steps of a call under way.
LEMMA FreshOn ==
    ASSUME IInv, Fresh, NEW p \in Callers, NEW from, NEW to, Moves(p, from, to), pc[p] # "idle",
           UNCHANGED spawned,
           known' \subseteq known \cup {Target(p)},
           \A r \in Runtimes : of'[r] \in {of[r], Target(p)},
           pc'[p] \in EarlyPcs => pc[p] \in EarlyPcs \/ op[p].kind # "spawn",
           pc'[p] \in EarlyPcs => known' \subseteq known /\ UNCHANGED of,
           pc'[p] = "create" => op[p].kind = "spawn", pc'[p] # "ensure"
    PROVE  Fresh'
<1>0. "idle" \notin EarlyPcs BY DEF EarlyPcs, CandPcs
<1>1. \A q \in Callers : pc'[q] # "idle" => pc[q] # "idle" /\ op'[q] = op[q]
    BY DEF Moves, Others
<1>2. \A q \in Callers : pc'[q] # "idle" => Target(q)' <= spawned' BY <1>1 DEF Fresh, Target
<1>3. Target(p) <= spawned BY DEF Fresh
<1>4. \A t \in known' : t <= spawned' BY <1>3 DEF Fresh
<1>5. \A r \in Runtimes : of'[r] <= spawned' BY <1>3 DEF Fresh
<1>6. \A q \in Callers : /\ pc'[q] = "create" => op'[q].kind = "spawn"
                         /\ pc'[q] = "ensure" => op'[q].kind = "message"
    BY <1>1 DEF Fresh, Moves, Others
<1>7. ASSUME NEW q \in Callers, pc'[q] \in EarlyPcs, op'[q].kind = "spawn"
      PROVE  /\ Target(q)' \notin known'
             /\ \A r \in Runtimes : of'[r] # Target(q)'
             /\ \A u \in Callers : u # q /\ pc'[u] # "idle" => Target(u)' # Target(q)'
    <2>1. op'[q] = op[q] /\ pc[q] # "idle" BY <1>0, <1>1, <1>7
    <2>2. pc[q] \in EarlyPcs BY <1>7, <2>1 DEF Moves, Others
    <2>3. /\ Target(q) \notin known
          /\ \A r \in Runtimes : of[r] # Target(q)
          /\ \A u \in Callers : u # q /\ pc[u] # "idle" => Target(u) # Target(q)
        BY <1>7, <2>1, <2>2 DEF Fresh
    <2>4. Target(q)' = Target(q) BY <2>1 DEF Target
    <2>5. \A u \in Callers : u # q /\ pc'[u] # "idle" => Target(u)' # Target(q)'
        BY <1>1, <2>3, <2>4 DEF Target
    <2>6. CASE q = p BY <1>7, <2>3, <2>4, <2>5, <2>6
    <2>7. CASE q # p
        <3>1. Target(p) # Target(q) BY <2>3, <2>7
        <3> QED BY <2>3, <2>4, <2>5, <3>1
    <2> QED BY <2>6, <2>7
<1> QED BY <1>2, <1>4, <1>5, <1>6, <1>7 DEF Fresh

LEMMA CallFresh ==
    ASSUME IInv, Fresh, NEW p \in Callers, Spawn(p) \/ \E t \in Threads : Message(p, t)
    PROVE  Fresh'
<1>0. /\ spawned \in Nat /\ Threads \subseteq Nat /\ Runtimes \subseteq Nat /\ None = 0
      /\ of \in [Runtimes -> Threads \cup {None}] /\ known \subseteq Threads
      /\ \A q \in Callers : pc[q] # "idle" => Target(q) \in Threads
    BY CallerTypes DEF IInv, TypeOK, ThreadsOK
<1>n. /\ \A r \in Runtimes : of[r] \in Nat /\ \A t \in known : t \in Nat
      /\ \A q \in Callers : pc[q] # "idle" => Target(q) \in Nat
    <2>0. Threads \subseteq Nat /\ None \in Nat BY DEF Threads, None
    <2>1. \A r \in Runtimes : of[r] \in Threads \/ of[r] = None BY <1>0
    <2>2. \A r \in Runtimes : of[r] \in Nat
        <3> SUFFICES ASSUME NEW r \in Runtimes PROVE of[r] \in Nat OBVIOUS
        <3> QED BY <2>0, <2>1
    <2>3. \A t \in known : t \in Nat BY <1>0
    <2>4. \A q \in Callers : pc[q] # "idle" => Target(q) \in Nat BY <1>0
    <2> QED BY <2>2, <2>3, <2>4
<1>1. UNCHANGED <<known, of>> BY DEF Spawn, Message, agentVars, runVars
<1>2. CASE Spawn(p)
    <2>1. /\ pc[p] = "idle" /\ pc'[p] = "reserve" /\ Others(p) /\ op'[p].kind = "spawn"
          /\ op'[p].thread = spawned + 1 /\ spawned' = spawned + 1
        BY <1>2, CallMoves DEF Spawn
    <2>2. \A q \in Callers : q # p /\ pc'[q] # "idle" =>
              /\ Target(q)' = Target(q) /\ Target(q) <= spawned /\ Target(q) # spawned + 1
              /\ Target(q) <= spawned + 1
        <3>1. \A q \in Callers : q # p /\ pc'[q] # "idle" =>
                  Target(q)' = Target(q) /\ Target(q) <= spawned /\ Target(q) \in Nat
            BY <1>n, <2>1 DEF Others, Fresh, Target
        <3>2. \A n \in Nat : n <= spawned => n # spawned + 1 /\ n <= spawned + 1 BY <1>0
        <3> QED BY <3>1, <3>2
    <2>3. Target(p)' = spawned + 1 BY <2>1 DEF Target
    <2>4. \A r \in Runtimes : of[r] <= spawned /\ of[r] # spawned + 1 /\ of[r] <= spawned + 1
        <3>1. \A r \in Runtimes : of[r] <= spawned BY DEF Fresh
        <3>2. \A n \in Nat : n <= spawned => n # spawned + 1 /\ n <= spawned + 1 BY <1>0
        <3> QED BY <1>n, <3>1, <3>2
    <2>5. \A t \in known : t <= spawned /\ t # spawned + 1 /\ t <= spawned + 1
        BY <1>0 DEF Fresh
    <2>6. \A q \in Callers : pc'[q] # "idle" => Target(q)' <= spawned'
        <3>1. spawned + 1 <= spawned' BY <1>0, <2>1
        <3> QED BY <2>1, <2>2, <2>3, <3>1
    <2>7. \A q \in Callers : /\ pc'[q] = "create" => op'[q].kind = "spawn"
                             /\ pc'[q] = "ensure" => op'[q].kind = "message"
        BY <2>1 DEF Others, Fresh
    <2>8. ASSUME NEW q \in Callers, pc'[q] \in EarlyPcs, op'[q].kind = "spawn"
          PROVE  /\ Target(q)' \notin known'
                 /\ \A r \in Runtimes : of'[r] # Target(q)'
                 /\ \A u \in Callers : u # q /\ pc'[u] # "idle" => Target(u)' # Target(q)'
        <3>1. CASE q = p BY <1>1, <2>2, <2>3, <2>4, <2>5, <3>1
        <3>2. CASE q # p
            <4>1. pc[q] = pc'[q] /\ op'[q] = op[q] /\ pc'[q] # "idle"
                BY <2>1, <2>8, <3>2 DEF Others, EarlyPcs, CandPcs
            <4>2. Target(q)' = Target(q) /\ Target(q) # spawned + 1 BY <2>2, <3>2, <4>1
            <4>3. /\ Target(q) \notin known
                  /\ \A r \in Runtimes : of[r] # Target(q)
                  /\ \A u \in Callers : u # q /\ pc[u] # "idle" => Target(u) # Target(q)
                BY <2>8, <4>1 DEF Fresh
            <4>4. ASSUME NEW u \in Callers, u # q, pc'[u] # "idle" PROVE Target(u)' # Target(q)'
                <5>1. CASE u = p BY <2>3, <4>2, <5>1
                <5>2. CASE u # p
                    BY <2>1, <4>2, <4>3, <4>4, <5>2 DEF Others, Target
                <5> QED BY <5>1, <5>2
            <4> QED BY <1>1, <4>2, <4>3, <4>4
        <3> QED BY <3>1, <3>2
    <2> QED BY <1>1, <2>1, <2>4, <2>5, <2>6, <2>7, <2>8 DEF Fresh
<1>3. ASSUME NEW t \in Threads, Message(p, t) PROVE Fresh'
    <2>1. /\ pc[p] = "idle" /\ pc'[p] = "ensure" /\ Others(p) /\ op'[p].thread = t
          /\ op'[p].kind = "message" /\ t \in known /\ UNCHANGED spawned
        BY <1>3, CallMoves DEF Message
    <2>2. Target(p)' = t BY <2>1 DEF Target
    <2>3. "ensure" \notin EarlyPcs /\ "idle" \notin EarlyPcs BY DEF EarlyPcs, CandPcs
    <2>4. \A q \in Callers : pc'[q] # "idle" => Target(q)' <= spawned'
        BY <2>1, <2>2 DEF Fresh, Others, Target
    <2>5. \A q \in Callers : /\ pc'[q] = "create" => op'[q].kind = "spawn"
                             /\ pc'[q] = "ensure" => op'[q].kind = "message"
        BY <2>1 DEF Others, Fresh
    <2>6. ASSUME NEW q \in Callers, pc'[q] \in EarlyPcs, op'[q].kind = "spawn"
          PROVE  /\ Target(q)' \notin known'
                 /\ \A r \in Runtimes : of'[r] # Target(q)'
                 /\ \A u \in Callers : u # q /\ pc'[u] # "idle" => Target(u)' # Target(q)'
        <3>1. q # p /\ pc[q] = pc'[q] /\ op'[q] = op[q] /\ Target(q)' = Target(q)
            BY <2>1, <2>3, <2>6 DEF Others, Target
        <3>2. /\ Target(q) \notin known
              /\ \A r \in Runtimes : of[r] # Target(q)
              /\ \A u \in Callers : u # q /\ pc[u] # "idle" => Target(u) # Target(q)
            BY <2>6, <3>1 DEF Fresh
        <3>3. ASSUME NEW u \in Callers, u # q, pc'[u] # "idle" PROVE Target(u)' # Target(q)'
            <4>1. CASE u = p BY <2>1, <2>2, <3>1, <3>2, <4>1
            <4>2. CASE u # p BY <2>1, <3>1, <3>2, <3>3, <4>2 DEF Others, Target
            <4> QED BY <4>1, <4>2
        <3> QED BY <1>1, <3>1, <3>2, <3>3
    <2> QED BY <1>1, <2>1, <2>4, <2>5, <2>6 DEF Fresh
<1> QED BY <1>2, <1>3

LEMMA StepFresh ==
    ASSUME IInv, Fresh, NEW p \in Callers, CallerStep(p) \/ Drop(p)
    PROVE  Fresh'
<1>1. UNCHANGED spawned
    BY DEF CallerStep, Drop, EnsureLoaded, Touch, TryReserve, CountResidents, PopCandidate,
           CheckCandidate, EvictSubmit, EvictWait, EvictRemove, CreateThread, CreateFails, Register,
           Commit, ResumeBegin, ResumeFinish, ResumeSettle, Send, SendFails, SendFindsDead,
           BuryRemove, BuryForget, BuryRelease, countVars
<1>2. CASE CreateThread(p) \/ ResumeFinish(p)
    <2>1. /\ Moves(p, {"create", "finish"}, {"register", "commit", "settle"}) /\ UNCHANGED known
        BY <1>2, PlainMoves DEF CreateThread, ResumeFinish, Moves
    <2>2. \A r \in Runtimes : of'[r] \in {of[r], Target(p)}
        BY <1>2, CallerTypes DEF CreateThread, ResumeFinish, NewRuntime, runVars
    <2>3. pc'[p] \notin EarlyPcs /\ pc'[p] \notin {"create", "ensure"} /\ pc[p] # "idle"
        BY <2>1 DEF Moves, EarlyPcs, CandPcs
    <2> QED BY <1>1, <2>1, <2>2, <2>3, FreshOn
<1>3. CASE Register(p) \/ BuryRelease(p)
    <2>1. /\ Moves(p, {"register", "unregister"}, {"commit", "idle"}) /\ UNCHANGED of
          /\ known' \subseteq known \cup {Target(p)}
        BY <1>3, PlainMoves DEF Register, BuryRelease, Moves, runVars
    <2>2. pc'[p] \notin EarlyPcs /\ pc'[p] \notin {"create", "ensure"} /\ pc[p] # "idle"
        BY <2>1 DEF Moves, EarlyPcs, CandPcs
    <2> QED BY <1>1, <2>1, <2>2, FreshOn
<1>4. CASE \/ EnsureLoaded(p) \/ TryReserve(p)
    <2>1. /\ Moves(p, {"ensure", "reserve"}, {"touch", "reserve", "idle", "create", "resume", "count"})
          /\ UNCHANGED <<known, of>> /\ pc[p] # "idle"
        BY <1>4, PlainMoves DEF EnsureLoaded, TryReserve, Moves, agentVars, runVars
    <2>2. pc'[p] = "create" => op[p].kind = "spawn"
        <3>1. TryReserve(p) /\ pc'[p] = "create" => op[p].kind = "spawn"
            BY CallerTypes DEF TryReserve, Goto
        <3>2. EnsureLoaded(p) => pc'[p] # "create" BY PlainMoves DEF Moves
        <3> QED BY <1>4, <3>1, <3>2
    <2>3. pc'[p] \in EarlyPcs => pc[p] \in EarlyPcs \/ op[p].kind # "spawn"
        <3>1. CASE TryReserve(p) BY <3>1 DEF TryReserve, EarlyPcs
        <3>2. CASE EnsureLoaded(p)
            BY <3>2 DEF EnsureLoaded, Fresh
        <3> QED BY <1>4, <3>1, <3>2
    <2>4. pc'[p] # "ensure" BY <2>1 DEF Moves
    <2> QED BY <1>1, <2>1, <2>2, <2>3, <2>4, FreshOn
<1>5. CASE \/ Touch(p) \/ CreateFails(p) \/ Commit(p) \/ ResumeBegin(p) \/ ResumeSettle(p) \/ Send(p)
           \/ SendFails(p) \/ SendFindsDead(p) \/ BuryRemove(p) \/ BuryForget(p) \/ Drop(p)
    <2>1. /\ Moves(p, PcValues, {"send", "idle", "commit", "settle", "finish", "touch", "bury",
                                 "forget", "unregister"})
          /\ pc[p] # "idle"
        BY <1>5, PlainMoves, CallerTypes DEF Moves
    <2>2. UNCHANGED <<known, of>>
        BY <1>5 DEF Touch, CreateFails, Commit, ResumeBegin, ResumeSettle, Send, SendFails,
                    SendFindsDead, BuryRemove, BuryForget, Drop, agentVars, runVars
    <2>3. pc'[p] \notin EarlyPcs /\ pc'[p] \notin {"create", "ensure"}
        BY <2>1 DEF Moves, EarlyPcs, CandPcs
    <2> QED BY <1>1, <2>1, <2>2, <2>3, FreshOn
<1>6. CASE \/ CountResidents(p) \/ PopCandidate(p) \/ CheckCandidate(p) \/ EvictSubmit(p)
           \/ EvictWait(p) \/ EvictRemove(p)
    <2>1. /\ Moves(p, {"count", "pop", "check", "evict", "wait", "remove"},
                   {"pop", "check", "idle", "evict", "wait", "remove", "reserve"})
        BY <1>6, PlainMoves, UnloadMoves DEF Moves
    <2>2. UNCHANGED <<known, of>>
        BY <1>6 DEF CountResidents, PopCandidate, CheckCandidate, EvictSubmit, EvictWait,
                    EvictRemove, agentVars, runVars
    <2>3. pc[p] \in EarlyPcs /\ pc'[p] \notin {"create", "ensure"} /\ pc[p] # "idle"
        BY <2>1 DEF Moves, EarlyPcs, CandPcs
    <2> QED BY <1>1, <2>1, <2>2, <2>3, FreshOn
<1> QED BY <1>2, <1>3, <1>4, <1>5, <1>6 DEF CallerStep

\* Callers that remove a thread by its id, or are about to.
LEMMA RemovalsOn ==
    ASSUME IInv, Removals, NEW p \in Callers, Others(p),
           \A r \in Runtimes : of[r] # None => of'[r] = of[r],
           \A r \in Runtimes : life[r] = "stopped" => life'[r] = "stopped",
           pc'[p] \in EvictPcs => of'[cand'[p].runtime] = cand'[p].thread,
           pc'[p] = "remove" => life'[cand'[p].runtime] = "stopped",
           pc'[p] = "bury" => \E r \in Runtimes : of'[r] = Target(p)' /\ life'[r] = "stopped"
    PROVE  Removals'
<1>0. None \notin Threads BY NoneFacts
<1>1. ASSUME NEW q \in Callers, pc'[q] \in EvictPcs PROVE of'[cand'[q].runtime] = cand'[q].thread
    <2>1. CASE q = p BY <1>1, <2>1
    <2>2. CASE q # p
        <3>1. /\ pc[q] \in EvictPcs /\ cand'[q] = cand[q] /\ cand[q].runtime \in Runtimes
              /\ cand[q].thread \in Threads
            BY <1>1, <2>2, CallerTypes DEF Others, EvictPcs, CandPcs
        <3> QED BY <1>0, <3>1 DEF Removals
    <2> QED BY <2>1, <2>2
<1>2. ASSUME NEW q \in Callers, pc'[q] = "remove" PROVE life'[cand'[q].runtime] = "stopped"
    <2>1. CASE q = p BY <1>2, <2>1
    <2>2. CASE q # p
        <3>1. pc[q] = "remove" /\ cand'[q] = cand[q] /\ cand[q].runtime \in Runtimes
            BY <1>2, <2>2, CallerTypes DEF Others, EvictPcs
        <3> QED BY <3>1 DEF Removals
    <2> QED BY <2>1, <2>2
<1>3. ASSUME NEW q \in Callers, pc'[q] = "bury"
      PROVE  \E r \in Runtimes : of'[r] = Target(q)' /\ life'[r] = "stopped"
    <2>1. CASE q = p BY <1>3, <2>1
    <2>2. CASE q # p
        <3>1. pc[q] = "bury" /\ Target(q)' = Target(q) /\ Target(q) \in Threads
            BY <1>3, <2>2, CallerTypes DEF Others, Target
        <3>2. PICK r \in Runtimes : of[r] = Target(q) /\ life[r] = "stopped"
            BY <3>1 DEF Removals
        <3>3. of'[r] = of[r] /\ life'[r] = "stopped" BY <1>0, <3>1, <3>2
        <3> QED BY <3>1, <3>2, <3>3
    <2> QED BY <2>1, <2>2
<1> QED BY <1>1, <1>2, <1>3 DEF Removals

\* A session that runs belongs to a thread.
LEMMA AliveFacts ==
    ASSUME IInv, Sessions
    PROVE  \A r \in Runtimes : life[r] # "unborn" => r < nextRuntime /\ of[r] \in Threads
<1>1. /\ of \in [Runtimes -> Threads \cup {None}] /\ Runtimes \subseteq Nat /\ nextRuntime \in Nat
    BY CallerTypes
<1>2. \A r \in Runtimes : life[r] # "unborn" => ~(r >= nextRuntime) /\ of[r] # None
    BY DEF Sessions
<1>3. \A r \in Runtimes : ~(r >= nextRuntime) => r < nextRuntime BY <1>1
<1> QED BY <1>1, <1>2, <1>3

\* remove_thread, after a session of the thread was seen to have ended.
LEMMA RemoveSessions ==
    ASSUME IInv, Sessions, RunningReachable, NEW t \in Threads,
           manager' = [manager EXCEPT ![t] = None], UNCHANGED <<life, nextRuntime, of, closing>>,
           manager[t] # None => \E r \in Runtimes : of[r] = t /\ life[r] = "stopped"
    PROVE  Sessions' /\ RunningReachable'
<1>0. manager \in [Threads -> Runtimes \cup {None}] /\ Runtimes \subseteq Nat /\ None \notin Runtimes
    BY CallerTypes
<1>1. \A u \in Threads : manager'[u] = IF u = t THEN None ELSE manager[u] BY <1>0
<1>2. Sessions' BY <1>1 DEF Sessions
<1>3. RunningReachable'
    <2> SUFFICES ASSUME NEW r \in Runtimes, life[r] \in Alive
                 PROVE  \/ manager'[of[r]] = r
                        \/ \E s \in Runtimes : s < r /\ of[s] = of[r] /\ life[s] = "stopped"
        BY DEF RunningReachable, Alive
    <2>1. of[r] \in Threads BY AliveFacts DEF Alive
    <2>2. CASE \E s \in Runtimes : s < r /\ of[s] = of[r] /\ life[s] = "stopped" BY <2>2
    <2>3. CASE manager[of[r]] = r
        <3>1. CASE of[r] # t BY <1>1, <2>1, <2>3, <3>1
        <3>2. CASE of[r] = t
            <4>1. PICK s \in Runtimes : of[s] = t /\ life[s] = "stopped" BY <1>0, <2>3, <3>2
            <4>2. s <= r /\ s # r BY <1>0, <2>3, <3>2, <4>1 DEF Sessions, Alive
            <4>3. s < r BY <1>0, <4>2
            <4> QED BY <3>2, <4>1, <4>3
        <3> QED BY <3>1, <3>2
    <2> QED BY <2>2, <2>3 DEF RunningReachable, Alive
<1> QED BY <1>2, <1>3

\* A session is stored under the id of a thread that has none.
LEMMA NewSessions ==
    ASSUME IInv, Sessions, RunningReachable, NEW t \in Threads, NEW S \in SUBSET {"init", "idle"},
           NewRuntime(t, S), manager[t] = None, UNCHANGED closing
    PROVE  /\ Sessions' /\ RunningReachable'
           /\ \A r \in Runtimes : of[r] # None => of'[r] = of[r]
           /\ \A r \in Runtimes : life[r] = "stopped" => life'[r] = "stopped"
<1>0. /\ manager \in [Threads -> Runtimes \cup {None}] /\ of \in [Runtimes -> Threads \cup {None}]
      /\ life \in [Runtimes -> {"unborn", "init", "busy", "idle", "stopped"}]
      /\ Runtimes \subseteq Nat /\ nextRuntime \in Nat /\ None \notin Threads /\ None \notin Runtimes
      /\ closing \subseteq Runtimes
    BY CallerTypes
<1>1. PICK n \in Runtimes : n = nextRuntime
    BY ResidencyAssumption DEF ResidencyAssumption, NewRuntime, IInv, TypeOK, RuntimesOK, Runtimes
<1>2. /\ nextRuntime' = n + 1 /\ n \in Nat
      /\ \A r \in Runtimes : of'[r] = IF r = n THEN t ELSE of[r]
      /\ \A u \in Threads : manager'[u] = IF u = t THEN n ELSE manager[u]
    BY <1>0, <1>1 DEF NewRuntime
<1>3. PICK s \in {"init", "idle"} : \A r \in Runtimes : life'[r] = IF r = n THEN s ELSE life[r]
    BY <1>0, <1>1 DEF NewRuntime
<1>4. \A r \in Runtimes : r \in Nat /\ (r >= n + 1 <=> r >= n /\ r # n) /\ (r < n => r < n + 1)
      /\ (r < n \/ r >= n) /\ ~(r < n /\ r >= n)
    BY <1>0, <1>2
<1>5. of[n] = None /\ life[n] = "unborn" BY <1>1, <1>2 DEF Sessions
<1>6. \A r \in Runtimes : (life[r] = "unborn" <=> r >= n) /\ (of[r] = None <=> r >= n)
    BY <1>1 DEF Sessions
<1>7. \A r \in Runtimes : life'[r] = "unborn" <=> r >= nextRuntime'
    BY <1>2, <1>3, <1>4, <1>6
<1>8. \A r \in Runtimes : of'[r] = None <=> r >= nextRuntime'
    BY <1>0, <1>2, <1>4, <1>6
<1>9. \A r \in closing' : r < nextRuntime' BY <1>0, <1>1, <1>2, <1>4 DEF Sessions
<1>10. ASSUME NEW u \in Threads, manager'[u] # None
       PROVE  of'[manager'[u]] = u /\ \A r \in Runtimes : of'[r] = u => r <= manager'[u]
    <2>1. CASE u = t
        <3>1. manager'[u] = n /\ of'[n] = t BY <1>2, <2>1
        <3>2. \A r \in Runtimes : of'[r] = t => r = n \/ r < n BY <1>0, <1>2, <1>4, <1>6
        <3>3. \A r \in Runtimes : r = n \/ r < n => r <= n BY <1>0, <1>2
        <3> QED BY <2>1, <3>1, <3>2, <3>3
    <2>2. CASE u # t
        <3>1. manager'[u] = manager[u] /\ manager[u] \in Runtimes BY <1>0, <1>2, <1>10, <2>2
        <3>2. of[manager[u]] = u /\ \A r \in Runtimes : of[r] = u => r <= manager[u]
            BY <1>10, <3>1 DEF Sessions
        <3>3. manager[u] # n BY <1>0, <1>5, <3>2
        <3> QED BY <1>2, <2>2, <3>1, <3>2, <3>3
    <2> QED BY <2>1, <2>2
<1>11. Sessions' BY <1>7, <1>8, <1>9, <1>10 DEF Sessions
<1>12. RunningReachable'
    <2> SUFFICES ASSUME NEW r \in Runtimes, life'[r] \in Alive
                 PROVE  \/ manager'[of'[r]] = r
                        \/ \E q \in Runtimes : q < r /\ of'[q] = of'[r] /\ life'[q] = "stopped"
        BY DEF RunningReachable, Alive
    <2>1. CASE r = n BY <1>2, <2>1
    <2>2. CASE r # n
        <3>1. life[r] \in Alive /\ of'[r] = of[r] BY <1>2, <1>3, <2>2
        <3>2. of[r] \in Threads BY <3>1, AliveFacts DEF Alive
        <3>3. CASE manager[of[r]] = r
            <4>1. of[r] # t BY <1>0, <3>3
            <4> QED BY <1>2, <3>1, <3>2, <3>3, <4>1
        <3>4. ASSUME NEW q \in Runtimes, q < r, of[q] = of[r], life[q] = "stopped"
              PROVE  q < r /\ of'[q] = of'[r] /\ life'[q] = "stopped"
            BY <1>2, <1>3, <1>5, <3>1, <3>4
        <3> QED BY <3>1, <3>3, <3>4 DEF RunningReachable, Alive
    <2> QED BY <2>1, <2>2
<1>13. \A r \in Runtimes : of[r] # None => of'[r] = of[r] BY <1>2, <1>5
<1>14. \A r \in Runtimes : life[r] = "stopped" => life'[r] = "stopped" BY <1>3, <1>5
<1> QED BY <1>11, <1>12, <1>13, <1>14

\* Steps that leave the sessions alone.
LEMMA StillSessions ==
    ASSUME IInv, SInv, NEW p \in Callers,
           \/ Spawn(p) \/ (\E t \in Threads : Message(p, t)) \/ EnsureLoaded(p) \/ Touch(p)
           \/ TryReserve(p) \/ CountResidents(p) \/ PopCandidate(p) \/ CheckCandidate(p)
           \/ EvictSubmit(p) \/ EvictWait(p) \/ CreateFails(p) \/ Register(p) \/ Commit(p)
           \/ ResumeSettle(p) \/ Send(p) \/ SendFails(p) \/ SendFindsDead(p) \/ BuryForget(p)
           \/ BuryRelease(p) \/ Drop(p)
    PROVE  Sessions' /\ Removals' /\ RunningReachable'
<1>0. /\ manager \in [Threads -> Runtimes \cup {None}] /\ None \notin Threads
      /\ Runtimes \subseteq Nat /\ nextRuntime \in Nat
    BY CallerTypes
<1>1. UNCHANGED <<manager, life, nextRuntime, of>>
    BY DEF Spawn, Message, EnsureLoaded, Touch, TryReserve, CountResidents, PopCandidate,
           CheckCandidate, EvictSubmit, EvictWait, CreateFails, Register, Commit, ResumeSettle,
           Send, SendFails, SendFindsDead, BuryForget, BuryRelease, Drop, agentVars, runVars
<1>2. RunningReachable' BY <1>1 DEF SInv, RunningReachable
<1>3. CASE EvictSubmit(p)
    <2>1. Moves(p, {"evict"}, {"wait"}) /\ Keeps(p) BY <1>3, UnloadMoves
    <2>2. of[cand[p].runtime] = cand[p].thread BY <2>1 DEF SInv, Removals, Moves, EvictPcs
    <2>3. cand[p].runtime \in Runtimes /\ cand[p].thread \in Threads
        BY <2>1, CallerTypes DEF Moves, EvictPcs, CandPcs
    <2>4. ~(cand[p].runtime >= nextRuntime) BY <1>0, <2>2, <2>3 DEF SInv, Sessions
    <2>5. cand[p].runtime < nextRuntime
        <3>1. PICK n \in Nat : n = cand[p].runtime BY <1>0, <2>3
        <3> QED BY <1>0, <2>4, <3>1
    <2>6. closing' = closing \cup {cand[p].runtime} BY <1>3 DEF EvictSubmit
    <2>7. Sessions' BY <1>1, <2>5, <2>6 DEF SInv, Sessions
    <2>8. Removals' BY <1>1, <2>1, <2>2, RemovalsOn DEF SInv, Moves, Keeps
    <2> QED BY <1>2, <2>7, <2>8
<1>4. ASSUME ~EvictSubmit(p) PROVE Sessions'
    <2>1. UNCHANGED closing
        BY <1>4 DEF Spawn, Message, EnsureLoaded, Touch, TryReserve, CountResidents, PopCandidate,
           CheckCandidate, EvictWait, CreateFails, Register, Commit, ResumeSettle,
           Send, SendFails, SendFindsDead, BuryForget, BuryRelease, Drop, runVars
    <2> QED BY <1>1, <2>1 DEF SInv, Sessions
<1>5. CASE CheckCandidate(p)
    <2>1. Moves(p, {"check"}, {"evict", "pop"}) BY <1>5, UnloadMoves
    <2>2. PICK t \in Threads : t = cand[p].thread BY <2>1, CallerTypes DEF Moves, CandPcs
    <2>3. pc'[p] = "evict" => /\ manager[t] # None /\ cand'[p].runtime = manager[t]
                              /\ cand'[p].thread = t
        BY <1>5, <2>2, CallerTypes DEF CheckCandidate, Goto
    <2>4. pc'[p] \in EvictPcs => of'[cand'[p].runtime] = cand'[p].thread
        BY <1>1, <2>1, <2>3 DEF Moves, EvictPcs, SInv, Sessions
    <2>5. Removals' BY <1>1, <2>1, <2>4, RemovalsOn DEF SInv, Moves
    <2> QED BY <1>2, <1>4, <1>5, <2>1, <2>5, UnloadMoves DEF Moves
<1>6. CASE EvictWait(p)
    <2>1. Moves(p, {"wait"}, {"remove"}) /\ Keeps(p) BY <1>6, UnloadMoves
    <2>2. of[cand[p].runtime] = cand[p].thread BY <2>1 DEF SInv, Removals, Moves, EvictPcs
    <2>3. life[cand[p].runtime] = "stopped" BY <1>6 DEF EvictWait, Running
    <2>4. Removals' BY <1>1, <2>1, <2>2, <2>3, RemovalsOn DEF SInv, Moves, Keeps
    <2> QED BY <1>2, <1>4, <2>1, <2>4, UnloadMoves DEF Moves
<1>7. CASE SendFindsDead(p)
    <2>1. Moves(p, {"send"}, {"bury"}) BY <1>7, PlainMoves
    <2>2. PICK t \in Threads : t = Target(p) BY <2>1, CallerTypes DEF Moves
    <2>3. manager[t] \in Runtimes /\ life[manager[t]] = "stopped" /\ of[manager[t]] = t
        BY <1>0, <1>7, <2>2 DEF SendFindsDead, Running, SInv, Sessions
    <2>4. Target(p)' = t BY <2>1, <2>2 DEF Moves, Target
    <2>5. \E r \in Runtimes : of'[r] = Target(p)' /\ life'[r] = "stopped" BY <1>1, <2>3, <2>4
    <2>6. Removals' BY <1>1, <2>1, <2>5, RemovalsOn DEF SInv, Moves, EvictPcs
    <2> QED BY <1>2, <1>4, <2>1, <2>6, UnloadMoves DEF Moves
<1>8. CASE \/ Spawn(p) \/ (\E t \in Threads : Message(p, t)) \/ EnsureLoaded(p) \/ Touch(p)
           \/ TryReserve(p) \/ CountResidents(p) \/ PopCandidate(p) \/ CreateFails(p)
           \/ Register(p) \/ Commit(p) \/ ResumeSettle(p) \/ Send(p) \/ SendFails(p)
           \/ BuryForget(p) \/ BuryRelease(p) \/ Drop(p)
    <2>1. Others(p) /\ pc'[p] \notin EvictPcs \cup {"bury"}
        <3>1. CASE Spawn(p) \/ \E t \in Threads : Message(p, t) BY <3>1, CallMoves DEF EvictPcs
        <3>2. CASE PopCandidate(p) BY <3>2, UnloadMoves DEF Moves, EvictPcs
        <3>3. CASE \/ EnsureLoaded(p) \/ Touch(p) \/ TryReserve(p) \/ CountResidents(p)
                   \/ CreateFails(p) \/ Register(p) \/ Commit(p) \/ ResumeSettle(p) \/ Send(p)
                   \/ SendFails(p) \/ BuryForget(p) \/ BuryRelease(p) \/ Drop(p)
            <4>1. /\ Others(p)
                  /\ pc'[p] \in {"touch", "reserve", "idle", "send", "create", "resume", "count",
                                 "pop", "commit", "unregister"}
                BY <3>3, PlainMoves DEF Moves
            <4> QED BY <4>1 DEF EvictPcs
        <3> QED BY <1>8, <3>1, <3>2, <3>3
    <2>2. Removals' BY <1>1, <2>1, RemovalsOn DEF SInv, EvictPcs
    <2>3. ~EvictSubmit(p)
        <3>1. EvictSubmit(p) => pc'[p] = "wait" BY UnloadMoves DEF Moves
        <3> QED BY <2>1, <3>1 DEF EvictPcs
    <2> QED BY <1>2, <1>4, <2>2, <2>3
<1> QED BY <1>3, <1>5, <1>6, <1>7, <1>8

\* Sessions that are stored or removed by their thread's id.
LEMMA ChangeSessions ==
    ASSUME IInv, SInv, NEW p \in Callers,
           \/ EvictRemove(p) \/ BuryRemove(p) \/ ResumeBegin(p) \/ ResumeFinish(p)
           \/ CreateThread(p)
    PROVE  Sessions' /\ Removals' /\ RunningReachable'
<1>0. manager \in [Threads -> Runtimes \cup {None}] BY CallerTypes
<1>1. /\ Others(p) /\ pc'[p] \notin EvictPcs \cup {"bury"}
      /\ pc[p] \in {"remove", "bury", "resume", "finish", "create"}
    <2>1. CASE EvictRemove(p) BY <2>1, UnloadMoves DEF Moves, EvictPcs
    <2>2. CASE ~EvictRemove(p) BY <2>2, PlainMoves DEF Moves, EvictPcs
    <2> QED BY <2>1, <2>2
<1>r. ASSUME \A r \in Runtimes : of[r] # None => of'[r] = of[r],
             \A r \in Runtimes : life[r] = "stopped" => life'[r] = "stopped"
      PROVE  Removals'
    BY <1>1, <1>r, RemovalsOn DEF SInv, EvictPcs
<1>2. CASE EvictRemove(p)
    <2>1. /\ UNCHANGED <<life, nextRuntime, of, closing>> /\ pc[p] = "remove"
          /\ manager' = [manager EXCEPT ![cand[p].thread] = None]
        BY <1>2 DEF EvictRemove, runVars
    <2>2. /\ cand[p].thread \in Threads /\ cand[p].runtime \in Runtimes
          /\ of[cand[p].runtime] = cand[p].thread /\ life[cand[p].runtime] = "stopped"
        BY <2>1, CallerTypes DEF SInv, Removals, EvictPcs, CandPcs
    <2>3. Sessions' /\ RunningReachable' BY <2>1, <2>2, RemoveSessions DEF SInv
    <2> QED BY <1>r, <2>1, <2>3
<1>3. CASE BuryRemove(p)
    <2>1. /\ UNCHANGED <<life, nextRuntime, of, closing>> /\ pc[p] = "bury"
          /\ manager' = [manager EXCEPT ![Target(p)] = None]
        BY <1>3 DEF BuryRemove, runVars
    <2>2. /\ Target(p) \in Threads
          /\ \E r \in Runtimes : of[r] = Target(p) /\ life[r] = "stopped"
        BY <2>1, CallerTypes DEF SInv, Removals
    <2>3. Sessions' /\ RunningReachable' BY <2>1, <2>2, RemoveSessions DEF SInv
    <2> QED BY <1>r, <2>1, <2>3
<1>4. CASE ResumeBegin(p)
    <2>1. UNCHANGED <<life, nextRuntime, of, closing>> BY <1>4 DEF ResumeBegin, runVars
    <2>2. PICK t \in Threads : t = Target(p) BY <1>1, CallerTypes
    <2>3. CASE UNCHANGED manager
        <3>1. Sessions' /\ RunningReachable' BY <2>1, <2>3 DEF SInv, Sessions, RunningReachable
        <3> QED BY <1>r, <2>1, <3>1
    <2>4. CASE manager' # manager
        <3>1. /\ manager' = [manager EXCEPT ![t] = None]
              /\ manager[t] # None => life[manager[t]] = "stopped"
            BY <1>4, <2>2, <2>4 DEF ResumeBegin, Running
        <3>2. manager[t] # None => \E r \in Runtimes : of[r] = t /\ life[r] = "stopped"
            BY <1>0, <3>1 DEF SInv, Sessions
        <3>3. Sessions' /\ RunningReachable' BY <2>1, <3>1, <3>2, RemoveSessions DEF SInv
        <3> QED BY <1>r, <2>1, <3>3
    <2> QED BY <2>3, <2>4
<1>5. ASSUME NEW S \in SUBSET {"init", "idle"}, NewRuntime(Target(p), S),
             manager[Target(p)] = None, UNCHANGED closing
      PROVE  Sessions' /\ Removals' /\ RunningReachable'
    <2>1. Target(p) \in Threads BY <1>1, CallerTypes
    <2> QED BY <1>r, <1>5, <2>1, NewSessions DEF SInv
<1>6. CASE CreateThread(p)
    <2>1. /\ pc[p] = "create" /\ NewRuntime(Target(p), {"init"}) /\ UNCHANGED closing
          /\ Target(p) \in Threads
        BY <1>6, CallerTypes DEF CreateThread
    <2>2. \A r \in Runtimes : of[r] # Target(p) BY <2>1 DEF SInv, Fresh, EarlyPcs
    <2>3. manager[Target(p)] = None BY <1>0, <2>1, <2>2 DEF SInv, Sessions
    <2> QED BY <1>5, <2>1, <2>3
<1>7. CASE ResumeFinish(p)
    <2>1. CASE UNCHANGED <<manager, runVars>>
        <3>1. Sessions' /\ RunningReachable' BY <2>1 DEF runVars, SInv, Sessions, RunningReachable
        <3> QED BY <1>r, <2>1, <3>1 DEF runVars
    <2>2. CASE /\ manager[Target(p)] = None /\ NewRuntime(Target(p), {"init", "idle"})
               /\ UNCHANGED closing
        BY <1>5, <2>2
    <2> QED BY <1>7, <2>1, <2>2 DEF ResumeFinish
<1> QED BY <1>2, <1>3, <1>4, <1>6, <1>7

\* What the sessions do themselves.
LEMMA RuntimeSessions ==
    ASSUME IInv, SInv, NEW r \in Runtimes, Receive(r) \/ Work(r) \/ Stop(r) \/ Crash(r)
    PROVE  SInv'
<1>0. /\ life \in [Runtimes -> {"unborn", "init", "busy", "idle", "stopped"}]
      /\ Runtimes \subseteq Nat /\ nextRuntime \in Nat
    BY CallerTypes
<1>1. UNCHANGED <<manager, known, nextRuntime, of, closing, pc, op, cand, spawned>>
    BY DEF Receive, Work, Stop, Crash, agentVars, callVars, countVars
<1>2. PICK s \in {"busy", "idle", "stopped"} :
         /\ \A q \in Runtimes : life'[q] = IF q = r THEN s ELSE life[q]
         /\ s # "stopped" => life[r] \in Alive
    BY <1>0 DEF Receive, Work, Stop, Crash, Alive
<1>3. life[r] \notin {"unborn", "stopped"}
    <2>1. CASE Stop(r)
        <3>1. r < nextRuntime BY <2>1 DEF Stop, SInv, Sessions
        <3>2. ~(r >= nextRuntime) BY <1>0, <3>1
        <3> QED BY <2>1, <3>2 DEF Stop, Running, SInv, Sessions
    <2>2. CASE Receive(r) \/ Work(r) \/ Crash(r) BY <2>2 DEF Receive, Work, Crash
    <2> QED BY <2>1, <2>2
<1>4. Fresh' BY <1>1 DEF SInv, Fresh, Target
<1>5. Sessions'
    <2>1. \A q \in Runtimes : life'[q] = "unborn" <=> life[q] = "unborn" BY <1>2, <1>3
    <2> QED BY <1>1, <2>1 DEF SInv, Sessions
<1>6. \A q \in Runtimes : life[q] = "stopped" => life'[q] = "stopped" BY <1>2, <1>3
<1>7. Removals'
    <2>1. \A p \in Callers : pc[p] = "remove" => life'[cand[p].runtime] = "stopped"
        BY <1>6, CallerTypes DEF SInv, Removals, EvictPcs
    <2>2. \A p \in Callers : pc[p] = "bury" =>
              \E q \in Runtimes : of[q] = Target(p) /\ life'[q] = "stopped"
        BY <1>6 DEF SInv, Removals
    <2> QED BY <1>1, <2>1, <2>2 DEF SInv, Removals, Target
<1>8. RunningReachable'
    <2>1. \A q \in Runtimes : life'[q] \in Alive => life[q] \in Alive BY <1>2 DEF Alive
    <2> QED BY <1>1, <1>6, <2>1 DEF SInv, RunningReachable, Alive
<1> QED BY <1>4, <1>5, <1>7, <1>8 DEF SInv

LEMMA NextSInv == IInv /\ SInv /\ [Next]_vars => SInv'
<1> SUFFICES ASSUME IInv, SInv, [Next]_vars PROVE SInv' OBVIOUS
<1>1. ASSUME NEW p \in Callers, ToolCall(p) \/ CallerStep(p) \/ Drop(p) PROVE SInv'
    <2>1. Fresh' BY <1>1, CallFresh, StepFresh DEF ToolCall, SInv
    <2>2. Sessions' /\ Removals' /\ RunningReachable'
        BY <1>1, StillSessions, ChangeSessions DEF ToolCall, CallerStep
    <2> QED BY <2>1, <2>2 DEF SInv
<1>2. ASSUME NEW r \in Runtimes, Receive(r) \/ Work(r) \/ Stop(r) \/ Crash(r) PROVE SInv'
    BY <1>2, RuntimeSessions
<1>3. CASE UNCHANGED vars
    BY <1>3 DEF vars, agentVars, runVars, callVars, countVars, SInv, Fresh, Sessions, Removals,
                RunningReachable, Target
<1> QED BY <1>1, <1>2, <1>3 DEF Next

LEMMA InitSInv == Init => SInv
<1> SUFFICES ASSUME Init PROVE SInv OBVIOUS
<1>1. /\ \A p \in Callers : pc[p] = "idle"
      /\ \A r \in Runtimes : of[r] = None /\ life[r] = "unborn"
      /\ known = {} /\ closing = {} /\ nextRuntime = 1 /\ spawned = 0
      /\ \A t \in Threads : manager[t] = None
    BY DEF Init
<1>2. None = 0 /\ \A r \in Runtimes : r >= 1 BY DEF None, Runtimes
<1>3. Fresh BY <1>1, <1>2 DEF Fresh, EarlyPcs, CandPcs
<1>4. Sessions BY <1>1, <1>2 DEF Sessions
<1>5. Removals BY <1>1 DEF Removals, EvictPcs
<1>6. RunningReachable BY <1>1 DEF RunningReachable
<1> QED BY <1>3, <1>4, <1>5, <1>6 DEF SInv

\* A removal by thread id never takes away an agent's only session, nor the one that the
\* remover saw, while it runs: a session that runs and is not found under its thread's id
\* has replaced one that ended.
THEOREM RunningIsReachable == Spec => []RunningReachable
<1>1. SInv => RunningReachable BY DEF SInv
<1> QED BY <1>1, InitIInv, NextIInv, InitSInv, NextSInv, PTL DEF Spec

-----------------------------------------------------------------------------
(* A message that was accepted is not lost, except where it is exposed.    *)

\* Only a busy session has taken up messages, and everything given to a session that has to
\* stop counts as exposed.
Deliveries ==
    /\ \A r \in Runtimes : life[r] # "busy" => inbox[r] = {}
    /\ \A r \in Runtimes : life[r] \in {"unborn", "stopped"} => queue[r] = {}
    /\ \A r \in Runtimes : Doomed(r) => queue[r] \cup inbox[r] \subseteq exposed

DInv == Deliveries /\ AcceptedNotLost

mailVars == <<queue, inbox, accepted, recorded>>

\* A caller's step that gives no session a message and evicts none.
LEMMA DeliveriesOn ==
    ASSUME DInv, NEW p \in Callers, Others(p), UNCHANGED <<mailVars, closing, exposed>>,
           \A r \in Runtimes : life'[r] = "busy" <=> life[r] = "busy",
           \A r \in Runtimes : life'[r] \in {"unborn", "stopped"} => life[r] \in {"unborn", "stopped"},
           pc'[p] \in EvictPcs => pc[p] \in EvictPcs /\ cand'[p] = cand[p]
    PROVE  DInv'
<1>1. \A r \in Runtimes : Doomed(r)' => Doomed(r) BY DEF Doomed, Others
<1>2. Deliveries' BY <1>1 DEF DInv, Deliveries, mailVars
<1>3. AcceptedNotLost' BY DEF DInv, AcceptedNotLost, mailVars
<1> QED BY <1>2, <1>3 DEF DInv

LEMMA StillDelivers ==
    ASSUME IInv, SInv, DInv, NEW p \in Callers,
           \/ Spawn(p) \/ (\E t \in Threads : Message(p, t)) \/ EnsureLoaded(p) \/ Touch(p)
           \/ TryReserve(p) \/ CountResidents(p) \/ PopCandidate(p) \/ EvictWait(p)
           \/ EvictRemove(p) \/ CreateThread(p) \/ CreateFails(p) \/ Register(p) \/ Commit(p)
           \/ ResumeBegin(p) \/ ResumeFinish(p) \/ ResumeSettle(p) \/ SendFails(p)
           \/ SendFindsDead(p) \/ BuryRemove(p) \/ BuryForget(p) \/ BuryRelease(p) \/ Drop(p)
    PROVE  DInv'
<1>1. UNCHANGED <<mailVars, closing, exposed>>
    BY DEF Spawn, Message, EnsureLoaded, Touch, TryReserve, CountResidents, PopCandidate,
           EvictWait, EvictRemove, CreateThread, CreateFails, Register, Commit, ResumeBegin,
           ResumeFinish, ResumeSettle, SendFails, SendFindsDead, BuryRemove, BuryForget,
           BuryRelease, Drop, runVars, logVars, mailVars
<1>2. Others(p) /\ (pc'[p] \in EvictPcs => pc[p] \in EvictPcs /\ cand'[p] = cand[p])
    <2>1. CASE Spawn(p) \/ \E t \in Threads : Message(p, t) BY <2>1, CallMoves DEF EvictPcs
    <2>2. CASE PopCandidate(p) \/ EvictWait(p) \/ EvictRemove(p)
        BY <2>2, UnloadMoves DEF Moves, Keeps, EvictPcs
    <2>3. CASE \/ EnsureLoaded(p) \/ Touch(p) \/ TryReserve(p) \/ CountResidents(p)
               \/ CreateThread(p) \/ CreateFails(p) \/ Register(p) \/ Commit(p)
               \/ ResumeBegin(p) \/ ResumeFinish(p) \/ ResumeSettle(p) \/ SendFails(p)
               \/ SendFindsDead(p) \/ BuryRemove(p) \/ BuryForget(p) \/ BuryRelease(p) \/ Drop(p)
        <3>1. /\ Others(p)
              /\ pc'[p] \in {"touch", "reserve", "idle", "send", "create", "resume", "count", "pop",
                             "register", "commit", "settle", "finish", "bury", "forget",
                             "unregister"}
            BY <2>3, PlainMoves DEF Moves
        <3> QED BY <3>1 DEF EvictPcs
    <2> QED BY <2>1, <2>2, <2>3
<1>3. /\ \A r \in Runtimes : life'[r] = "busy" <=> life[r] = "busy"
      /\ \A r \in Runtimes : life'[r] \in {"unborn", "stopped"} => life[r] \in {"unborn", "stopped"}
    <2>1. CASE UNCHANGED life BY <2>1
    <2>2. CASE ~UNCHANGED life
        <3>1. \E S \in SUBSET {"init", "idle"} : NewRuntime(Target(p), S)
            BY <2>2 DEF Spawn, Message, EnsureLoaded, Touch, TryReserve, CountResidents,
               PopCandidate, EvictWait, EvictRemove, CreateThread, CreateFails, Register, Commit,
               ResumeBegin, ResumeFinish, ResumeSettle, SendFails, SendFindsDead, BuryRemove,
               BuryForget, BuryRelease, Drop, runVars
        <3>2. PICK s \in {"init", "idle"} : life' = [life EXCEPT ![nextRuntime] = s]
            BY <3>1 DEF NewRuntime
        <3>3. nextRuntime \in Runtimes => life[nextRuntime] = "unborn"
            BY CallerTypes DEF SInv, Sessions
        <3>4. life \in [Runtimes -> {"unborn", "init", "busy", "idle", "stopped"}] BY CallerTypes
        <3> QED BY <3>2, <3>3, <3>4
    <2> QED BY <2>1, <2>2
<1> QED BY <1>1, <1>2, <1>3, DeliveriesOn

\* is_unloadable: an idle session has taken up nothing, and what waits in its queue is exposed.
LEMMA CheckDelivers ==
    ASSUME IInv, DInv, NEW p \in Callers, CheckCandidate(p)
    PROVE  DInv'
<1>1. Moves(p, {"check"}, {"evict", "pop"}) BY UnloadMoves
<1>2. PICK t \in Threads : t = cand[p].thread BY <1>1, CallerTypes DEF Moves, CandPcs
<1>3. UNCHANGED <<mailVars, closing, life>>
    BY DEF CheckCandidate, runVars, mailVars
<1>4. CASE pc'[p] = "pop"
    <2>1. UNCHANGED exposed BY <1>4, CallerTypes DEF CheckCandidate, Goto
    <2> QED BY <1>1, <1>3, <1>4, <2>1, DeliveriesOn DEF Moves, EvictPcs
<1>5. CASE pc'[p] = "evict"
    <2>1. PICK r \in Runtimes : r = manager[t] /\ life[r] = "idle"
        BY <1>2, <1>5, CallerTypes DEF CheckCandidate, Goto
    <2>2. exposed' = exposed \cup queue[r] /\ cand'[p].runtime = r
        BY <1>2, <1>5, <2>1, CallerTypes DEF CheckCandidate, Goto, Exposes
    <2>3. inbox[r] = {} BY <2>1 DEF DInv, Deliveries
    <2>4. \A q \in Runtimes : Doomed(q)' => Doomed(q) \/ q = r
        BY <1>1, <1>3, <2>2 DEF Doomed, Moves, Others
    <2>5. \A q \in Runtimes : Doomed(q)' => queue'[q] \cup inbox'[q] \subseteq exposed'
        BY <1>3, <2>2, <2>3, <2>4 DEF DInv, Deliveries, mailVars
    <2>6. Deliveries' BY <1>3, <2>5 DEF DInv, Deliveries, mailVars
    <2>7. AcceptedNotLost' BY <1>3, <2>2 DEF DInv, AcceptedNotLost, mailVars
    <2> QED BY <2>6, <2>7 DEF DInv
<1> QED BY <1>1, <1>4, <1>5 DEF Moves

LEMMA SubmitDelivers ==
    ASSUME IInv, DInv, NEW p \in Callers, EvictSubmit(p)
    PROVE  DInv'
<1>1. Moves(p, {"evict"}, {"wait"}) /\ Keeps(p) BY UnloadMoves
<1>2. UNCHANGED <<mailVars, life, exposed>> /\ closing' = closing \cup {cand[p].runtime}
    BY DEF EvictSubmit, mailVars, logVars
<1>3. \A r \in Runtimes : Doomed(r)' => Doomed(r)
    BY <1>1, <1>2 DEF Doomed, Moves, Others, Keeps, EvictPcs
<1>4. Deliveries' BY <1>2, <1>3 DEF DInv, Deliveries, mailVars
<1>5. AcceptedNotLost' BY <1>2 DEF DInv, AcceptedNotLost, mailVars
<1> QED BY <1>4, <1>5 DEF DInv

\* send_op: a message queued for a session that has to stop is exposed.
LEMMA SendDelivers ==
    ASSUME IInv, SInv, DInv, NEW p \in Callers, Send(p)
    PROVE  DInv'
<1>1. Moves(p, {"send"}, {"idle"}) BY PlainMoves
<1>2. PICK t \in Threads : t = Target(p) BY <1>1, CallerTypes DEF Moves
<1>3. PICK r \in Runtimes : r = manager[t] /\ life[r] # "stopped"
    BY <1>2, CallerTypes DEF Send, Running
<1>4. life[r] # "unborn"
    <2>1. of[r] = t /\ t # None BY <1>2, <1>3, CallerTypes DEF SInv, Sessions
    <2> QED BY <2>1 DEF SInv, Sessions
<1> DEFINE m == op[p].msg
<1>5. /\ accepted' = accepted \cup {m} /\ UNCHANGED <<life, closing, inbox, recorded>>
      /\ exposed' = exposed \cup (IF Doomed(r) THEN {m} ELSE {})
      /\ \A q \in Runtimes : queue'[q] = IF q = r /\ r \notin closing THEN queue[q] \cup {m}
                                         ELSE queue[q]
    BY <1>2, <1>3, CallerTypes DEF Send, Exposes
<1> HIDE DEF m
<1>6. \A q \in Runtimes : Doomed(q)' => Doomed(q)
    BY <1>1, <1>5 DEF Doomed, Moves, Others, EvictPcs
<1>7. r \in closing => Doomed(r) BY DEF Doomed
<1>8. \A q \in Runtimes : queue[q] \subseteq queue'[q] BY <1>5
<1>9. Deliveries'
    <2>1. \A q \in Runtimes : life'[q] # "busy" => inbox'[q] = {} BY <1>5 DEF DInv, Deliveries
    <2>2. \A q \in Runtimes : life'[q] \in {"unborn", "stopped"} => queue'[q] = {}
        BY <1>3, <1>4, <1>5 DEF DInv, Deliveries
    <2>3. \A q \in Runtimes : Doomed(q)' => queue'[q] \cup inbox'[q] \subseteq exposed'
        BY <1>5, <1>6 DEF DInv, Deliveries
    <2> QED BY <2>1, <2>2, <2>3 DEF Deliveries
<1>10. AcceptedNotLost'
    <2>1. m \in exposed' \/ m \in queue'[r] BY <1>5, <1>7
    <2>2. \A x \in accepted : \/ x \in recorded' \/ x \in exposed'
                              \/ \E q \in Runtimes : x \in queue'[q] \cup inbox'[q]
        BY <1>5, <1>8 DEF DInv, AcceptedNotLost
    <2> QED BY <1>5, <2>1, <2>2 DEF AcceptedNotLost
<1> QED BY <1>9, <1>10 DEF DInv

\* What the sessions do themselves.
LEMMA RuntimeDelivers ==
    ASSUME IInv, DInv, NEW r \in Runtimes, Receive(r) \/ Work(r) \/ Stop(r) \/ Crash(r)
    PROVE  DInv'
<1>0. /\ life \in [Runtimes -> {"unborn", "init", "busy", "idle", "stopped"}]
      /\ queue \in [Runtimes -> SUBSET Msgs] /\ inbox \in [Runtimes -> SUBSET Msgs]
    BY CallerTypes
<1>1. UNCHANGED <<closing, pc, cand, accepted>>
    BY DEF Receive, Work, Stop, Crash, callVars, logVars
<1>2. \A q \in Runtimes : Doomed(q)' <=> Doomed(q) BY <1>1 DEF Doomed
<1>3. \A q \in Runtimes : q # r => life'[q] = life[q] /\ queue'[q] = queue[q] /\ inbox'[q] = inbox[q]
    BY <1>0 DEF Receive, Work, Stop, Crash
<1>4. exposed \subseteq exposed' /\ recorded \subseteq recorded'
    BY DEF Receive, Work, Stop, Crash, Exposes, logVars
<1>5. /\ life'[r] # "busy" => inbox'[r] = {}
      /\ life'[r] \in {"unborn", "stopped"} => queue'[r] = {}
      /\ queue'[r] \cup inbox'[r] \subseteq queue[r] \cup inbox[r]
    BY <1>0 DEF Receive, Work, Stop, Crash
<1>6. queue[r] \cup inbox[r] \subseteq queue'[r] \cup inbox'[r] \cup exposed' \cup recorded'
    <2>1. CASE Receive(r) BY <1>0, <2>1 DEF Receive
    <2>2. CASE Work(r) BY <1>0, <2>2 DEF Work
    <2>3. CASE Stop(r)
        <3>1. queue[r] = {} /\ inbox[r] \subseteq exposed
            BY <2>3 DEF Stop, Doomed, DInv, Deliveries
        <3> QED BY <1>4, <3>1
    <2>4. CASE Crash(r) BY <2>4 DEF Crash, Exposes
    <2> QED BY <2>1, <2>2, <2>3, <2>4
<1>7. Deliveries' BY <1>2, <1>3, <1>4, <1>5 DEF DInv, Deliveries
<1>8. AcceptedNotLost'
    <2> SUFFICES ASSUME NEW m \in accepted
                 PROVE  \/ m \in recorded' \cup exposed'
                        \/ \E q \in Runtimes : m \in queue'[q] \cup inbox'[q]
        BY <1>1 DEF AcceptedNotLost
    <2>1. CASE m \in recorded \cup exposed BY <1>4, <2>1
    <2>2. ASSUME NEW q \in Runtimes, m \in queue[q] \cup inbox[q]
          PROVE  \/ m \in recorded' \cup exposed'
                 \/ \E u \in Runtimes : m \in queue'[u] \cup inbox'[u]
        BY <1>3, <1>6, <2>2
    <2> QED BY <2>1, <2>2 DEF DInv, AcceptedNotLost
<1> QED BY <1>7, <1>8 DEF DInv

LEMMA NextDInv == IInv /\ SInv /\ DInv /\ [Next]_vars => DInv'
<1> SUFFICES ASSUME IInv, SInv, DInv, [Next]_vars PROVE DInv' OBVIOUS
<1>1. ASSUME NEW p \in Callers, ToolCall(p) \/ CallerStep(p) \/ Drop(p) PROVE DInv'
    BY <1>1, StillDelivers, CheckDelivers, SubmitDelivers, SendDelivers DEF ToolCall, CallerStep
<1>2. ASSUME NEW r \in Runtimes, Receive(r) \/ Work(r) \/ Stop(r) \/ Crash(r) PROVE DInv'
    BY <1>2, RuntimeDelivers
<1>3. CASE UNCHANGED vars
    BY <1>3 DEF vars, runVars, callVars, logVars, DInv, Deliveries, Doomed, AcceptedNotLost
<1> QED BY <1>1, <1>2, <1>3 DEF Next

\* A message that its sender was told is sent is recorded or waits in a session, unless its
\* session crashed, or an eviction had found the session idle when it was sent or queued.
THEOREM AcceptedIsNotLost == Spec => []AcceptedNotLost
<1>1. Init => DInv
    BY DEF Init, DInv, Deliveries, AcceptedNotLost, Doomed, EvictPcs
<1>2. DInv => AcceptedNotLost BY DEF DInv
<1> QED BY <1>1, <1>2, InitIInv, NextIInv, InitSInv, NextSInv, NextDInv, PTL DEF Spec

=============================================================================
