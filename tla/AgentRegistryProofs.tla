------------------------ MODULE AgentRegistryProofs ------------------------
(***************************************************************************)
(* Proofs about AgentRegistry: the maps stay inverse to each other, a      *)
(* reserved path has one owner, the count covers what it is for, and       *)
(* agents.max_threads is kept, for any number of threads, paths, callers   *)
(* and closers.                                                            *)
(***************************************************************************)
EXTENDS AgentRegistry, FiniteSetTheorems, TLAPS

-----------------------------------------------------------------------------
(* Cardinalities *)

LEMMA CardSub ==
    ASSUME NEW S, NEW T, IsFiniteSet(S), T \subseteq S
    PROVE  /\ IsFiniteSet(T)
           /\ Cardinality(T) \in Nat /\ Cardinality(S) \in Nat
           /\ Cardinality(T) <= Cardinality(S)
<1>1. IsFiniteSet(T) /\ Cardinality(T) <= Cardinality(S)
  BY FS_Subset
<1>2. Cardinality(T) \in Nat /\ Cardinality(S) \in Nat
  BY <1>1, FS_CardinalityType
<1> QED BY <1>1, <1>2

LEMMA CardGrow ==
    ASSUME NEW S, NEW T, NEW x, IsFiniteSet(S), T \subseteq S \cup {x}
    PROVE  /\ Cardinality(T) \in Nat /\ Cardinality(S) \in Nat
           /\ Cardinality(T) <= Cardinality(S) + 1
<1>1. IsFiniteSet(S \cup {x}) /\ Cardinality(S) \in Nat
      /\ Cardinality(S \cup {x}) \in {Cardinality(S), Cardinality(S) + 1}
  <2>1. IsFiniteSet(S \cup {x})
        /\ Cardinality(S \cup {x}) = IF x \in S THEN Cardinality(S) ELSE Cardinality(S) + 1
    BY FS_AddElement
  <2>2. Cardinality(S) \in Nat
    BY FS_CardinalityType
  <2> QED BY <2>1, <2>2
<1>2. /\ Cardinality(T) \in Nat /\ Cardinality(S \cup {x}) \in Nat
      /\ Cardinality(T) <= Cardinality(S \cup {x})
  BY <1>1, CardSub
<1> QED BY <1>1, <1>2

LEMMA CardShrink ==
    ASSUME NEW S, NEW T, NEW x \in S, IsFiniteSet(S), T \subseteq S \ {x}
    PROVE  /\ Cardinality(T) \in Nat /\ Cardinality(S) \in Nat
           /\ Cardinality(T) + 1 <= Cardinality(S)
<1>1. IsFiniteSet(S \ {x}) /\ Cardinality(S \ {x}) = Cardinality(S) - 1
  BY FS_RemoveElement
<1>2. Cardinality(S) \in Nat
  BY FS_CardinalityType
<1>3. /\ Cardinality(T) \in Nat /\ Cardinality(S \ {x}) \in Nat
      /\ Cardinality(T) <= Cardinality(S \ {x})
  BY <1>1, CardSub
<1> QED BY <1>1, <1>2, <1>3
-----------------------------------------------------------------------------
(* The inductive invariant *)

\* The root's path is the root's alone.
RootApart ==
    /\ paths[Root] \in {None, RootPath}
    /\ \A t \in Threads : paths[t] # RootPath

\* The call is for a thread that does not exist yet.
Fresh(c) == call[c].kind = "spawn" /\ call[c].pc \in {"begun", "reserved", "prepared"}

\* A spawn has its thread to itself until it has created it; any other call has
\* the path the thread was created with.
CallStored ==
    \A c \in Callers : call[c].pc # "idle" =>
        /\ Fresh(c) => /\ stored[call[c].thread] = Unborn
                       /\ \A d \in Callers : call[d].thread = call[c].thread => d = c
        /\ ~Fresh(c) => stored[call[c].thread] = call[c].path
        /\ call[c].kind = "restore" => call[c].path \in Paths

\* A registered agent has been created.
KnownStored == \A t \in Threads : paths[t] # None => stored[t] # Unborn

LEMMA ShapeStep ==
    ASSUME Shape, [Next]_vars
    PROVE  Shape'
<1> USE ConstantsAssumption DEF Ids, Keys, Entries, Vacant, Reserved, regVars
<1>1. ASSUME NEW c \in Callers, NEW t \in Threads, NEW p \in Paths \cup {NoPath}, Spawn(c, t, p) PROVE Shape'
  BY <1>1 DEF Shape, Calls, Spawn, Begin, Idle
<1>2. ASSUME NEW c \in Callers, NEW t \in Threads, Resume(c, t) PROVE Shape'
  BY <1>2 DEF Shape, Calls, Resume, Begin, Idle
<1>3. ASSUME NEW c \in Callers, NEW t \in Threads, Restore(c, t) PROVE Shape'
  BY <1>3 DEF Shape, Calls, Restore, Begin, Idle
<1>4. ASSUME NEW c \in Callers, ReserveSlot(c) PROVE Shape'
  BY <1>4 DEF Shape, Calls, ReserveSlot, Idle
<1>5. ASSUME NEW c \in Callers, Prepare(c) PROVE Shape'
  BY <1>5 DEF Shape, Calls, Prepare, Drop, Idle
<1>6. ASSUME NEW c \in Callers, Create(c) PROVE Shape'
  BY <1>6 DEF Shape, Calls, Create, Drop, Idle
<1>7. ASSUME NEW c \in Callers, Commit(c) PROVE Shape'
  BY <1>7 DEF Shape, Calls, Commit, Register, Key, Idle
<1>8. ASSUME NEW c \in Callers, Fail(c) PROVE Shape'
  BY <1>8 DEF Shape, Calls, Fail, Drop, Idle
<1>9. ASSUME NEW k \in Closers, CloseRelease(k) PROVE Shape'
  BY <1>9 DEF Shape, Calls, CloseRelease, Release
<1>10. ASSUME NEW k \in Closers, NEW t \in Ids, CloseBegin(k, t) PROVE Shape'
  BY <1>10 DEF Shape, Calls, CloseBegin
<1>11. ASSUME NEW t \in Threads, Unload(t) PROVE Shape'
  BY <1>11 DEF Shape, Calls, Unload
<1>12. ASSUME NEW a \in Callers \cup Closers, Settle(a) PROVE Shape'
  BY <1>12 DEF Shape, Calls, Settle
<1>13. CASE RegisterRoot
  BY <1>13 DEF Shape, Calls, RegisterRoot
<1>14. CASE Restart
  BY <1>14 DEF Shape, Calls, Restart, Idle
<1>15. CASE UNCHANGED vars
  BY <1>15 DEF Shape, Calls, vars
<1>16. ASSUME NEW t \in Threads, CloseEdge(t) PROVE Shape'
  BY <1>16 DEF Shape, Calls, CloseEdge
<1>17. ASSUME NEW c \in Callers, PersistEdge(c) PROVE Shape'
  BY <1>17 DEF Shape, Calls, PersistEdge, Idle
<1> QED BY <1>1, <1>2, <1>3, <1>4, <1>5, <1>6, <1>7, <1>8, <1>9, <1>10, <1>11, <1>12, <1>13, <1>14,
          <1>15, <1>16, <1>17 DEF Next, CallStep

LEMMA RootApartStep ==
    ASSUME Shape, RootApart, [Next]_vars
    PROVE  RootApart'
<1> USE ConstantsAssumption DEF Ids, Keys, Entries, Vacant, Reserved, regVars
<1>1. ASSUME NEW c \in Callers, NEW t \in Threads, NEW p \in Paths \cup {NoPath}, Spawn(c, t, p) PROVE RootApart'
  BY <1>1 DEF RootApart, Shape, Calls, Spawn, Begin, Idle
<1>2. ASSUME NEW c \in Callers, NEW t \in Threads, Resume(c, t) PROVE RootApart'
  BY <1>2 DEF RootApart, Shape, Calls, Resume, Begin, Idle
<1>3. ASSUME NEW c \in Callers, NEW t \in Threads, Restore(c, t) PROVE RootApart'
  BY <1>3 DEF RootApart, Shape, Calls, Restore, Begin, Idle
<1>4. ASSUME NEW c \in Callers, ReserveSlot(c) PROVE RootApart'
  BY <1>4 DEF RootApart, Shape, Calls, ReserveSlot, Idle
<1>5. ASSUME NEW c \in Callers, Prepare(c) PROVE RootApart'
  BY <1>5 DEF RootApart, Shape, Calls, Prepare, Drop, Idle
<1>6. ASSUME NEW c \in Callers, Create(c) PROVE RootApart'
  BY <1>6 DEF RootApart, Shape, Calls, Create, Drop, Idle
<1>7. ASSUME NEW c \in Callers, Commit(c) PROVE RootApart'
  BY <1>7 DEF RootApart, Shape, Calls, Commit, Register, Key, Idle
<1>8. ASSUME NEW c \in Callers, Fail(c) PROVE RootApart'
  BY <1>8 DEF RootApart, Shape, Calls, Fail, Drop, Idle
<1>9. ASSUME NEW k \in Closers, CloseRelease(k) PROVE RootApart'
  BY <1>9 DEF RootApart, Shape, Calls, CloseRelease, Release
<1>10. ASSUME NEW k \in Closers, NEW t \in Ids, CloseBegin(k, t) PROVE RootApart'
  BY <1>10 DEF RootApart, Shape, Calls, CloseBegin
<1>11. ASSUME NEW t \in Threads, Unload(t) PROVE RootApart'
  BY <1>11 DEF RootApart, Shape, Calls, Unload
<1>12. ASSUME NEW a \in Callers \cup Closers, Settle(a) PROVE RootApart'
  BY <1>12 DEF RootApart, Shape, Calls, Settle
<1>13. CASE RegisterRoot
  BY <1>13 DEF RootApart, Shape, Calls, RegisterRoot
<1>14. CASE Restart
  BY <1>14 DEF RootApart, Shape, Calls, Restart, Idle
<1>15. CASE UNCHANGED vars
  BY <1>15 DEF RootApart, Shape, Calls, vars
<1>16. ASSUME NEW t \in Threads, CloseEdge(t) PROVE RootApart'
  BY <1>16 DEF RootApart, Shape, Calls, CloseEdge
<1>17. ASSUME NEW c \in Callers, PersistEdge(c) PROVE RootApart'
  BY <1>17 DEF RootApart, Shape, Calls, PersistEdge, Idle
<1> QED BY <1>1, <1>2, <1>3, <1>4, <1>5, <1>6, <1>7, <1>8, <1>9, <1>10, <1>11, <1>12, <1>13, <1>14,
          <1>15, <1>16, <1>17 DEF Next, CallStep

LEMMA IdentityStep ==
    ASSUME Shape, RootApart, Identity, [Next]_vars
    PROVE  Identity'
<1> USE ConstantsAssumption DEF Ids, Keys, Entries, Vacant, Reserved, regVars
<1>1. ASSUME NEW c \in Callers, NEW t \in Threads, NEW p \in Paths \cup {NoPath}, Spawn(c, t, p) PROVE Identity'
  BY <1>1 DEF Identity, RootApart, Shape, Calls, Spawn, Begin, Idle
<1>2. ASSUME NEW c \in Callers, NEW t \in Threads, Resume(c, t) PROVE Identity'
  BY <1>2 DEF Identity, RootApart, Shape, Calls, Resume, Begin, Idle
<1>3. ASSUME NEW c \in Callers, NEW t \in Threads, Restore(c, t) PROVE Identity'
  BY <1>3 DEF Identity, RootApart, Shape, Calls, Restore, Begin, Idle
<1>4. ASSUME NEW c \in Callers, ReserveSlot(c) PROVE Identity'
  BY <1>4 DEF Identity, RootApart, Shape, Calls, ReserveSlot, Idle
<1>5. ASSUME NEW c \in Callers, Prepare(c) PROVE Identity'
  BY <1>5 DEF Identity, RootApart, Shape, Calls, Prepare, Drop, Idle
<1>6. ASSUME NEW c \in Callers, Create(c) PROVE Identity'
  BY <1>6 DEF Identity, RootApart, Shape, Calls, Create, Drop, Idle
<1>7. ASSUME NEW c \in Callers, Commit(c) PROVE Identity'
  BY <1>7 DEF Identity, RootApart, Shape, Calls, Commit, Register, Key, Idle
<1>8. ASSUME NEW c \in Callers, Fail(c) PROVE Identity'
  BY <1>8 DEF Identity, RootApart, Shape, Calls, Fail, Drop, Idle
<1>9. ASSUME NEW k \in Closers, CloseRelease(k) PROVE Identity'
  BY <1>9 DEF Identity, RootApart, Shape, Calls, CloseRelease, Release
<1>10. ASSUME NEW k \in Closers, NEW t \in Ids, CloseBegin(k, t) PROVE Identity'
  BY <1>10 DEF Identity, RootApart, Shape, Calls, CloseBegin
<1>11. ASSUME NEW t \in Threads, Unload(t) PROVE Identity'
  BY <1>11 DEF Identity, RootApart, Shape, Calls, Unload
<1>12. ASSUME NEW a \in Callers \cup Closers, Settle(a) PROVE Identity'
  BY <1>12 DEF Identity, RootApart, Shape, Calls, Settle
<1>13. CASE RegisterRoot
  BY <1>13 DEF Identity, RootApart, Shape, Calls, RegisterRoot
<1>14. CASE Restart
  BY <1>14 DEF Identity, RootApart, Shape, Calls, Restart, Idle
<1>15. CASE UNCHANGED vars
  BY <1>15 DEF Identity, RootApart, Shape, Calls, vars
<1>16. ASSUME NEW t \in Threads, CloseEdge(t) PROVE Identity'
  BY <1>16 DEF Identity, RootApart, Shape, Calls, CloseEdge
<1>17. ASSUME NEW c \in Callers, PersistEdge(c) PROVE Identity'
  BY <1>17 DEF Identity, RootApart, Shape, Calls, PersistEdge, Idle
<1> QED BY <1>1, <1>2, <1>3, <1>4, <1>5, <1>6, <1>7, <1>8, <1>9, <1>10, <1>11, <1>12, <1>13, <1>14,
          <1>15, <1>16, <1>17 DEF Next, CallStep

LEMMA CallStoredStep ==
    ASSUME Shape, CallStored, [Next]_vars
    PROVE  CallStored'
<1> USE ConstantsAssumption DEF Ids, Keys, Entries, Vacant, Reserved, regVars
<1>1. ASSUME NEW c \in Callers, NEW t \in Threads, NEW p \in Paths \cup {NoPath}, Spawn(c, t, p) PROVE CallStored'
  BY <1>1 DEF CallStored, Fresh, Shape, Calls, Spawn, Begin, Idle
<1>2. ASSUME NEW c \in Callers, NEW t \in Threads, Resume(c, t) PROVE CallStored'
  BY <1>2 DEF CallStored, Fresh, Shape, Calls, Resume, Begin, Idle
<1>3. ASSUME NEW c \in Callers, NEW t \in Threads, Restore(c, t) PROVE CallStored'
  BY <1>3 DEF CallStored, Fresh, Shape, Calls, Restore, Begin, Idle
<1>4. ASSUME NEW c \in Callers, ReserveSlot(c) PROVE CallStored'
  BY <1>4 DEF CallStored, Fresh, Shape, Calls, ReserveSlot, Idle
<1>5. ASSUME NEW c \in Callers, Prepare(c) PROVE CallStored'
  BY <1>5 DEF CallStored, Fresh, Shape, Calls, Prepare, Drop, Idle
<1>6. ASSUME NEW c \in Callers, Create(c) PROVE CallStored'
  BY <1>6 DEF CallStored, Fresh, Shape, Calls, Create, Drop, Idle
<1>7. ASSUME NEW c \in Callers, Commit(c) PROVE CallStored'
  BY <1>7 DEF CallStored, Fresh, Shape, Calls, Commit, Register, Key, Idle
<1>8. ASSUME NEW c \in Callers, Fail(c) PROVE CallStored'
  BY <1>8 DEF CallStored, Fresh, Shape, Calls, Fail, Drop, Idle
<1>9. ASSUME NEW k \in Closers, CloseRelease(k) PROVE CallStored'
  BY <1>9 DEF CallStored, Fresh, Shape, Calls, CloseRelease, Release
<1>10. ASSUME NEW k \in Closers, NEW t \in Ids, CloseBegin(k, t) PROVE CallStored'
  BY <1>10 DEF CallStored, Fresh, Shape, Calls, CloseBegin
<1>11. ASSUME NEW t \in Threads, Unload(t) PROVE CallStored'
  BY <1>11 DEF CallStored, Fresh, Shape, Calls, Unload
<1>12. ASSUME NEW a \in Callers \cup Closers, Settle(a) PROVE CallStored'
  BY <1>12 DEF CallStored, Fresh, Shape, Calls, Settle
<1>13. CASE RegisterRoot
  BY <1>13 DEF CallStored, Fresh, Shape, Calls, RegisterRoot
<1>14. CASE Restart
  BY <1>14 DEF CallStored, Fresh, Shape, Calls, Restart, Idle
<1>15. CASE UNCHANGED vars
  BY <1>15 DEF CallStored, Fresh, Shape, Calls, vars
<1>16. ASSUME NEW t \in Threads, CloseEdge(t) PROVE CallStored'
  BY <1>16 DEF CallStored, Fresh, Shape, Calls, CloseEdge
<1>17. ASSUME NEW c \in Callers, PersistEdge(c) PROVE CallStored'
  BY <1>17 DEF CallStored, Fresh, Shape, Calls, PersistEdge, Idle
<1> QED BY <1>1, <1>2, <1>3, <1>4, <1>5, <1>6, <1>7, <1>8, <1>9, <1>10, <1>11, <1>12, <1>13, <1>14,
          <1>15, <1>16, <1>17 DEF Next, CallStep

LEMMA KnownStoredStep ==
    ASSUME Shape, CallStored, KnownStored, [Next]_vars
    PROVE  KnownStored'
<1> USE ConstantsAssumption DEF Ids, Keys, Entries, Vacant, Reserved, regVars
<1>1. ASSUME NEW c \in Callers, NEW t \in Threads, NEW p \in Paths \cup {NoPath}, Spawn(c, t, p) PROVE KnownStored'
  BY <1>1 DEF KnownStored, CallStored, Fresh, Shape, Calls, Spawn, Begin, Idle
<1>2. ASSUME NEW c \in Callers, NEW t \in Threads, Resume(c, t) PROVE KnownStored'
  BY <1>2 DEF KnownStored, CallStored, Fresh, Shape, Calls, Resume, Begin, Idle
<1>3. ASSUME NEW c \in Callers, NEW t \in Threads, Restore(c, t) PROVE KnownStored'
  BY <1>3 DEF KnownStored, CallStored, Fresh, Shape, Calls, Restore, Begin, Idle
<1>4. ASSUME NEW c \in Callers, ReserveSlot(c) PROVE KnownStored'
  BY <1>4 DEF KnownStored, CallStored, Fresh, Shape, Calls, ReserveSlot, Idle
<1>5. ASSUME NEW c \in Callers, Prepare(c) PROVE KnownStored'
  BY <1>5 DEF KnownStored, CallStored, Fresh, Shape, Calls, Prepare, Drop, Idle
<1>6. ASSUME NEW c \in Callers, Create(c) PROVE KnownStored'
  BY <1>6 DEF KnownStored, CallStored, Fresh, Shape, Calls, Create, Drop, Idle
<1>7. ASSUME NEW c \in Callers, Commit(c) PROVE KnownStored'
  BY <1>7 DEF KnownStored, CallStored, Fresh, Shape, Calls, Commit, Register, Key, Idle
<1>8. ASSUME NEW c \in Callers, Fail(c) PROVE KnownStored'
  BY <1>8 DEF KnownStored, CallStored, Fresh, Shape, Calls, Fail, Drop, Idle
<1>9. ASSUME NEW k \in Closers, CloseRelease(k) PROVE KnownStored'
  BY <1>9 DEF KnownStored, CallStored, Fresh, Shape, Calls, CloseRelease, Release
<1>10. ASSUME NEW k \in Closers, NEW t \in Ids, CloseBegin(k, t) PROVE KnownStored'
  BY <1>10 DEF KnownStored, CallStored, Fresh, Shape, Calls, CloseBegin
<1>11. ASSUME NEW t \in Threads, Unload(t) PROVE KnownStored'
  BY <1>11 DEF KnownStored, CallStored, Fresh, Shape, Calls, Unload
<1>12. ASSUME NEW a \in Callers \cup Closers, Settle(a) PROVE KnownStored'
  BY <1>12 DEF KnownStored, CallStored, Fresh, Shape, Calls, Settle
<1>13. CASE RegisterRoot
  BY <1>13 DEF KnownStored, CallStored, Fresh, Shape, Calls, RegisterRoot
<1>14. CASE Restart
  BY <1>14 DEF KnownStored, CallStored, Fresh, Shape, Calls, Restart, Idle
<1>15. CASE UNCHANGED vars
  BY <1>15 DEF KnownStored, CallStored, Fresh, Shape, Calls, vars
<1>16. ASSUME NEW t \in Threads, CloseEdge(t) PROVE KnownStored'
  BY <1>16 DEF KnownStored, CallStored, Fresh, Shape, Calls, CloseEdge
<1>17. ASSUME NEW c \in Callers, PersistEdge(c) PROVE KnownStored'
  BY <1>17 DEF KnownStored, CallStored, Fresh, Shape, Calls, PersistEdge, Idle
<1> QED BY <1>1, <1>2, <1>3, <1>4, <1>5, <1>6, <1>7, <1>8, <1>9, <1>10, <1>11, <1>12, <1>13, <1>14,
          <1>15, <1>16, <1>17 DEF Next, CallStep

LEMMA PathsOwnedStep ==
    ASSUME Shape, Identity, PathsOwned, [Next]_vars
    PROVE  PathsOwned'
<1> USE ConstantsAssumption DEF Ids, Keys, Entries, Vacant, Reserved, regVars
<1>1. ASSUME NEW c \in Callers, NEW t \in Threads, NEW p \in Paths \cup {NoPath}, Spawn(c, t, p) PROVE PathsOwned'
  BY <1>1 DEF PathsOwned, Holds, Identity, Shape, Calls, Spawn, Begin, Idle
<1>2. ASSUME NEW c \in Callers, NEW t \in Threads, Resume(c, t) PROVE PathsOwned'
  BY <1>2 DEF PathsOwned, Holds, Identity, Shape, Calls, Resume, Begin, Idle
<1>3. ASSUME NEW c \in Callers, NEW t \in Threads, Restore(c, t) PROVE PathsOwned'
  BY <1>3 DEF PathsOwned, Holds, Identity, Shape, Calls, Restore, Begin, Idle
<1>4. ASSUME NEW c \in Callers, ReserveSlot(c) PROVE PathsOwned'
  BY <1>4 DEF PathsOwned, Holds, Identity, Shape, Calls, ReserveSlot, Idle
<1>5. ASSUME NEW c \in Callers, Prepare(c) PROVE PathsOwned'
  BY <1>5 DEF PathsOwned, Holds, Identity, Shape, Calls, Prepare, Drop, Idle
<1>6. ASSUME NEW c \in Callers, Create(c) PROVE PathsOwned'
  BY <1>6 DEF PathsOwned, Holds, Identity, Shape, Calls, Create, Drop, Idle
<1>7. ASSUME NEW c \in Callers, Commit(c) PROVE PathsOwned'
  BY <1>7 DEF PathsOwned, Holds, Identity, Shape, Calls, Commit, Register, Key, Idle
<1>8. ASSUME NEW c \in Callers, Fail(c) PROVE PathsOwned'
  BY <1>8 DEF PathsOwned, Holds, Identity, Shape, Calls, Fail, Drop, Idle
<1>9. ASSUME NEW k \in Closers, CloseRelease(k) PROVE PathsOwned'
  BY <1>9 DEF PathsOwned, Holds, Identity, Shape, Calls, CloseRelease, Release
<1>10. ASSUME NEW k \in Closers, NEW t \in Ids, CloseBegin(k, t) PROVE PathsOwned'
  BY <1>10 DEF PathsOwned, Holds, Identity, Shape, Calls, CloseBegin
<1>11. ASSUME NEW t \in Threads, Unload(t) PROVE PathsOwned'
  BY <1>11 DEF PathsOwned, Holds, Identity, Shape, Calls, Unload
<1>12. ASSUME NEW a \in Callers \cup Closers, Settle(a) PROVE PathsOwned'
  BY <1>12 DEF PathsOwned, Holds, Identity, Shape, Calls, Settle
<1>13. CASE RegisterRoot
  <2>1. \A d \in Callers, k \in Keys : Holds(d, k)' <=> Holds(d, k)
    BY <1>13 DEF Holds, RegisterRoot
  <2>2. \A d \in Callers : ~Holds(d, RootPath)
    BY DEF Holds, Shape, Calls, Idle
  <2>3. \A k \in Keys : tree'[k] = IF k = RootPath THEN Root ELSE tree[k]
    BY <1>13 DEF RegisterRoot, Shape
  <2> QED BY <2>1, <2>2, <2>3 DEF PathsOwned
<1>14. CASE Restart
  BY <1>14 DEF PathsOwned, Holds, Identity, Shape, Calls, Restart, Idle
<1>15. CASE UNCHANGED vars
  BY <1>15 DEF PathsOwned, Holds, Identity, Shape, Calls, vars
<1>16. ASSUME NEW t \in Threads, CloseEdge(t) PROVE PathsOwned'
  BY <1>16 DEF PathsOwned, Holds, Identity, Shape, Calls, CloseEdge
<1>17. ASSUME NEW c \in Callers, PersistEdge(c) PROVE PathsOwned'
  BY <1>17 DEF PathsOwned, Holds, Identity, Shape, Calls, PersistEdge, Idle
<1> QED BY <1>1, <1>2, <1>3, <1>4, <1>5, <1>6, <1>7, <1>8, <1>9, <1>10, <1>11, <1>12, <1>13, <1>14,
          <1>15, <1>16, <1>17 DEF Next, CallStep

-----------------------------------------------------------------------------
(* The count *)

LEMMA FiniteParts ==
    ASSUME Shape
    PROVE  /\ IsFiniteSet(Registered) /\ IsFiniteSet(Holding) /\ IsFiniteSet(owed)
           /\ IsFiniteSet(V1Registered) /\ IsFiniteSet(V1Holding)
<1>1. IsFiniteSet(Callers \cup Closers) /\ IsFiniteSet(Callers) /\ IsFiniteSet(Threads)
  BY ConstantsAssumption, FS_Union
<1>2. IsFiniteSet(Registered) /\ IsFiniteSet(V1Registered)
  BY <1>1, FS_Subset DEF Registered, V1Registered
<1>3. IsFiniteSet(Holding) /\ IsFiniteSet(V1Holding)
  BY <1>1, FS_Subset DEF Holding, V1Holding
<1>4. IsFiniteSet(owed)
  BY <1>1, FS_Subset DEF Shape
<1> QED BY <1>2, <1>3, <1>4

LEMMA FinitePartsNext ==
    ASSUME Shape'
    PROVE  /\ IsFiniteSet(Registered') /\ IsFiniteSet(Holding') /\ IsFiniteSet(owed')
           /\ IsFiniteSet(V1Registered') /\ IsFiniteSet(V1Holding')
<1>1. IsFiniteSet(Callers \cup Closers) /\ IsFiniteSet(Callers) /\ IsFiniteSet(Threads)
  BY ConstantsAssumption, FS_Union
<1>2. IsFiniteSet(Registered') /\ IsFiniteSet(V1Registered')
  BY <1>1, FS_Subset DEF Registered, V1Registered
<1>3. IsFiniteSet(Holding') /\ IsFiniteSet(V1Holding')
  BY <1>1, FS_Subset DEF Holding, V1Holding
<1>4. IsFiniteSet(owed')
  BY <1>1, FS_Subset DEF Shape
<1> QED BY <1>2, <1>3, <1>4

\* What a step may do to the three sets the count covers.
LEMMA Covered ==
    ASSUME Shape, Shape', CountCovers, count \in Int,
           \/ /\ Registered' \subseteq Registered /\ Holding' \subseteq Holding
              /\ owed' \subseteq owed /\ count' = count
           \/ \E c : /\ Registered' \subseteq Registered /\ Holding' \subseteq Holding \cup {c}
                     /\ owed' \subseteq owed /\ count' = count + 1
           \/ \E c \in Holding : \E t :
                 /\ Registered' \subseteq Registered \cup {t} /\ Holding' \subseteq Holding \ {c}
                 /\ owed' \subseteq owed /\ count' = count
           \/ \E c \in Holding :
                 /\ Registered' \subseteq Registered /\ Holding' \subseteq Holding \ {c}
                 /\ owed' \subseteq owed \cup {c} /\ count' = count
           \/ \E t \in Registered : \E k :
                 /\ Registered' \subseteq Registered \ {t} /\ Holding' \subseteq Holding
                 /\ owed' \subseteq owed \cup {k} /\ count' = count
           \/ \E a \in owed :
                 /\ Registered' \subseteq Registered /\ Holding' \subseteq Holding
                 /\ owed' \subseteq owed \ {a} /\ count' = count - 1
           \/ /\ Registered' = {} /\ Holding' = {} /\ owed' = {} /\ count' = 0
    PROVE  CountCovers' /\ count' \in Int
<1> DEFINE R == Cardinality(Registered)
           H == Cardinality(Holding)
           O == Cardinality(owed)
           R2 == Cardinality(Registered')
           H2 == Cardinality(Holding')
           O2 == Cardinality(owed')
<1>0. /\ IsFiniteSet(Registered) /\ IsFiniteSet(Holding) /\ IsFiniteSet(owed)
      /\ IsFiniteSet(Registered') /\ IsFiniteSet(Holding') /\ IsFiniteSet(owed')
  BY FiniteParts, FinitePartsNext
<1>1. R \in Nat /\ H \in Nat /\ O \in Nat /\ R2 \in Nat /\ H2 \in Nat /\ O2 \in Nat
  BY <1>0, FS_CardinalityType
<1>2. R + H + O <= count
  BY DEF CountCovers
<1> SUFFICES R2 + H2 + O2 <= count' /\ count' \in Int
  BY DEF CountCovers
<1>3. Registered' \subseteq Registered => R2 <= R
  BY <1>0, CardSub
<1>4. Holding' \subseteq Holding => H2 <= H
  BY <1>0, CardSub
<1>5. owed' \subseteq owed => O2 <= O
  BY <1>0, CardSub
<1>6a. \A x : (Registered' \subseteq Registered \cup {x}) => R2 <= R + 1
  BY <1>0, CardGrow
<1>6b. \A x : (Holding' \subseteq Holding \cup {x}) => H2 <= H + 1
  BY <1>0, CardGrow
<1>6c. \A x : (owed' \subseteq owed \cup {x}) => O2 <= O + 1
  BY <1>0, CardGrow
<1>7a. \A x \in Registered : (Registered' \subseteq Registered \ {x}) => R2 + 1 <= R
  BY <1>0, CardShrink
<1>7b. \A x \in Holding : (Holding' \subseteq Holding \ {x}) => H2 + 1 <= H
  BY <1>0, CardShrink
<1>7c. \A x \in owed : (owed' \subseteq owed \ {x}) => O2 + 1 <= O
  BY <1>0, CardShrink
<1>7d. /\ Registered' = {} => R2 = 0
       /\ Holding' = {} => H2 = 0
       /\ owed' = {} => O2 = 0
  BY FS_EmptySet
<1>8. \/ R2 <= R /\ H2 <= H /\ O2 <= O /\ count' = count
      \/ R2 <= R /\ H2 <= H + 1 /\ O2 <= O /\ count' = count + 1
      \/ R2 <= R + 1 /\ H2 + 1 <= H /\ O2 <= O /\ count' = count
      \/ R2 <= R /\ H2 + 1 <= H /\ O2 <= O + 1 /\ count' = count
      \/ R2 + 1 <= R /\ H2 <= H /\ O2 <= O + 1 /\ count' = count
      \/ R2 <= R /\ H2 <= H /\ O2 + 1 <= O /\ count' = count - 1
      \/ R2 = 0 /\ H2 = 0 /\ O2 = 0 /\ count' = 0
  BY <1>3, <1>4, <1>5, <1>6a, <1>6b, <1>6c, <1>7a, <1>7b, <1>7c, <1>7d, Zenon
<1> HIDE DEF R, H, O, R2, H2, O2
<1> QED BY <1>1, <1>2, <1>8

LEMMA CountCoversStep ==
    ASSUME Shape, Shape', RootApart, count \in Int, CountCovers, [Next]_vars
    PROVE  CountCovers' /\ count' \in Int
<1> USE ConstantsAssumption DEF Ids, Keys, Entries, Vacant, Reserved, regVars
<1>1. ASSUME NEW c \in Callers, NEW t \in Threads, NEW p \in Paths \cup {NoPath}, Spawn(c, t, p) PROVE CountCovers' /\ count' \in Int
  <2>1. Registered' \subseteq Registered /\ Holding' \subseteq Holding
        /\ owed' \subseteq owed /\ count' = count
    BY <1>1 DEF Registered, Holding, Shape, Calls, Spawn, Begin, Idle
  <2> QED BY <2>1, Covered
<1>2. ASSUME NEW c \in Callers, NEW t \in Threads, Resume(c, t) PROVE CountCovers' /\ count' \in Int
  <2>1. Registered' \subseteq Registered /\ Holding' \subseteq Holding
        /\ owed' \subseteq owed /\ count' = count
    BY <1>2 DEF Registered, Holding, Shape, Calls, Resume, Begin, Idle
  <2> QED BY <2>1, Covered
<1>3. ASSUME NEW c \in Callers, NEW t \in Threads, Restore(c, t) PROVE CountCovers' /\ count' \in Int
  <2>1. Registered' \subseteq Registered /\ Holding' \subseteq Holding
        /\ owed' \subseteq owed /\ count' = count
    BY <1>3 DEF Registered, Holding, Shape, Calls, Restore, Begin, Idle
  <2> QED BY <2>1, Covered
<1>4. ASSUME NEW c \in Callers, ReserveSlot(c) PROVE CountCovers' /\ count' \in Int
  <2>1. \/ Registered' \subseteq Registered /\ Holding' \subseteq Holding
           /\ owed' \subseteq owed /\ count' = count
        \/ Registered' \subseteq Registered /\ Holding' \subseteq Holding \cup {c}
           /\ owed' \subseteq owed /\ count' = count + 1
    BY <1>4 DEF Registered, Holding, Shape, Calls, ReserveSlot, Idle
  <2> QED BY <2>1, Covered
<1>5. ASSUME NEW c \in Callers, Prepare(c) PROVE CountCovers' /\ count' \in Int
  <2>1. \/ Registered' \subseteq Registered /\ Holding' \subseteq Holding
           /\ owed' \subseteq owed /\ count' = count
        \/ /\ c \in Holding /\ Registered' \subseteq Registered
           /\ Holding' \subseteq Holding \ {c}
           /\ owed' \subseteq owed \cup {c} /\ count' = count
    BY <1>5 DEF Registered, Holding, Shape, Calls, Prepare, Drop, Idle
  <2> QED BY <2>1, Covered
<1>6. ASSUME NEW c \in Callers, Create(c) PROVE CountCovers' /\ count' \in Int
  <2>1. \/ Registered' \subseteq Registered /\ Holding' \subseteq Holding
           /\ owed' \subseteq owed /\ count' = count
        \/ /\ c \in Holding /\ Registered' \subseteq Registered
           /\ Holding' \subseteq Holding \ {c}
           /\ owed' \subseteq owed \cup {c} /\ count' = count
    BY <1>6 DEF Registered, Holding, Shape, Calls, Create, Drop, Idle
  <2> QED BY <2>1, Covered
<1>7. ASSUME NEW c \in Callers, Commit(c) PROVE CountCovers' /\ count' \in Int
  <2>1. c \in Holding
    BY <1>7 DEF Holding, Commit
  <2>2. /\ Registered' \subseteq Registered \cup {call[c].thread} /\ Holding' \subseteq Holding \ {c}
        /\ owed' \subseteq owed /\ count' = count
    BY <1>7 DEF Registered, Holding, Shape, Calls, Commit, Register, Key, Idle
  <2> QED BY <2>1, <2>2, Covered
<1>8. ASSUME NEW c \in Callers, Fail(c) PROVE CountCovers' /\ count' \in Int
  <2>1. \/ Registered' \subseteq Registered /\ Holding' \subseteq Holding
           /\ owed' \subseteq owed /\ count' = count
        \/ /\ c \in Holding /\ Registered' \subseteq Registered
           /\ Holding' \subseteq Holding \ {c}
           /\ owed' \subseteq owed \cup {c} /\ count' = count
    BY <1>8 DEF Registered, Holding, Shape, Calls, Fail, Drop, Idle
  <2> QED BY <2>1, Covered
<1>9. ASSUME NEW k \in Closers, CloseRelease(k) PROVE CountCovers' /\ count' \in Int
  <2>1. \/ Registered' \subseteq Registered /\ Holding' \subseteq Holding
           /\ owed' \subseteq owed /\ count' = count
        \/ /\ closing[k] \in Registered /\ Registered' \subseteq Registered \ {closing[k]}
           /\ Holding' \subseteq Holding
           /\ owed' \subseteq owed \cup {k} /\ count' = count
    BY <1>9 DEF Registered, Holding, Shape, Calls, CloseRelease, Release, RootApart
  <2> QED BY <2>1, Covered
<1>10. ASSUME NEW k \in Closers, NEW t \in Ids, CloseBegin(k, t) PROVE CountCovers' /\ count' \in Int
  <2>1. Registered' \subseteq Registered /\ Holding' \subseteq Holding
        /\ owed' \subseteq owed /\ count' = count
    BY <1>10 DEF Registered, Holding, Shape, Calls, CloseBegin
  <2> QED BY <2>1, Covered
<1>11. ASSUME NEW t \in Threads, Unload(t) PROVE CountCovers' /\ count' \in Int
  <2>1. Registered' \subseteq Registered /\ Holding' \subseteq Holding
        /\ owed' \subseteq owed /\ count' = count
    BY <1>11 DEF Registered, Holding, Shape, Calls, Unload
  <2> QED BY <2>1, Covered
<1>12. ASSUME NEW a \in Callers \cup Closers, Settle(a) PROVE CountCovers' /\ count' \in Int
  <2>1. /\ a \in owed /\ Registered' \subseteq Registered /\ Holding' \subseteq Holding
        /\ owed' \subseteq owed \ {a} /\ count' = count - 1
    BY <1>12 DEF Registered, Holding, Shape, Calls, Settle
  <2> QED BY <2>1, Covered
<1>13. CASE RegisterRoot
  <2>1. Registered' \subseteq Registered /\ Holding' \subseteq Holding
        /\ owed' \subseteq owed /\ count' = count
    BY <1>13 DEF Registered, Holding, Shape, Calls, RegisterRoot
  <2> QED BY <2>1, Covered
<1>14. CASE Restart
  <2>1. Registered' = {} /\ Holding' = {} /\ owed' = {} /\ count' = 0
    BY <1>14 DEF Registered, Holding, Shape, Calls, Restart, Idle
  <2> QED BY <2>1, Covered
<1>15. CASE UNCHANGED vars
  <2>1. Registered' \subseteq Registered /\ Holding' \subseteq Holding
        /\ owed' \subseteq owed /\ count' = count
    BY <1>15 DEF Registered, Holding, Shape, Calls, vars
  <2> QED BY <2>1, Covered
<1>16. ASSUME NEW t \in Threads, CloseEdge(t) PROVE CountCovers' /\ count' \in Int
  <2>1. Registered' \subseteq Registered /\ Holding' \subseteq Holding
        /\ owed' \subseteq owed /\ count' = count
    BY <1>16 DEF Registered, Holding, Shape, Calls, CloseEdge
  <2> QED BY <2>1, Covered
<1>17. ASSUME NEW c \in Callers, PersistEdge(c) PROVE CountCovers' /\ count' \in Int
  <2>1. Registered' \subseteq Registered /\ Holding' \subseteq Holding
        /\ owed' \subseteq owed /\ count' = count
    BY <1>17 DEF Registered, Holding, Shape, Calls, PersistEdge, Idle
  <2> QED BY <2>1, Covered
<1> QED BY <1>1, <1>2, <1>3, <1>4, <1>5, <1>6, <1>7, <1>8, <1>9, <1>10, <1>11, <1>12, <1>13, <1>14,
          <1>15, <1>16, <1>17 DEF Next, CallStep

\* What a step may do to the two sets the limit is about.
LEMMA Kept ==
    ASSUME Shape, Shape', LimitKept,
           \/ V1Registered' \subseteq V1Registered /\ V1Holding' \subseteq V1Holding
           \/ \E c \in V1Holding : \E t :
                 V1Registered' \subseteq V1Registered \cup {t} /\ V1Holding' \subseteq V1Holding \ {c}
    PROVE  LimitKept'
<1> DEFINE R == Cardinality(V1Registered)
           H == Cardinality(V1Holding)
           R2 == Cardinality(V1Registered')
           H2 == Cardinality(V1Holding')
<1>0. /\ IsFiniteSet(V1Registered) /\ IsFiniteSet(V1Holding)
      /\ IsFiniteSet(V1Registered') /\ IsFiniteSet(V1Holding')
  BY FiniteParts, FinitePartsNext
<1>1. R \in Nat /\ H \in Nat /\ R2 \in Nat /\ H2 \in Nat /\ MaxThreads \in Nat
  BY <1>0, FS_CardinalityType, ConstantsAssumption
<1>2. R + H <= MaxThreads
  BY DEF LimitKept
<1> SUFFICES R2 + H2 <= MaxThreads
  BY DEF LimitKept
<1>3. V1Registered' \subseteq V1Registered => R2 <= R
  BY <1>0, CardSub
<1>4. V1Holding' \subseteq V1Holding => H2 <= H
  BY <1>0, CardSub
<1>5. \A x : V1Registered' \subseteq V1Registered \cup {x} => R2 <= R + 1
  BY <1>0, CardGrow
<1>6. \A x \in V1Holding : V1Holding' \subseteq V1Holding \ {x} => H2 + 1 <= H
  BY <1>0, CardShrink
<1>7. \/ R2 <= R /\ H2 <= H
      \/ R2 <= R + 1 /\ H2 + 1 <= H
  BY <1>3, <1>4, <1>5, <1>6, Zenon
<1> HIDE DEF R, H, R2, H2
<1> QED BY <1>1, <1>2, <1>7

\* A limited call that is let in finds the count, and so everything it covers,
\* below the limit.
LEMMA LetIn ==
    ASSUME Shape, Shape', count \in Int, CountCovers, count < MaxThreads, NEW c,
           V1Registered' \subseteq V1Registered, V1Holding' \subseteq V1Holding \cup {c}
    PROVE  LimitKept'
<1> DEFINE R == Cardinality(Registered)
           H == Cardinality(Holding)
           O == Cardinality(owed)
           R2 == Cardinality(V1Registered')
           H2 == Cardinality(V1Holding')
<1>0. /\ IsFiniteSet(Registered) /\ IsFiniteSet(Holding) /\ IsFiniteSet(owed)
      /\ IsFiniteSet(V1Registered') /\ IsFiniteSet(V1Holding')
  BY FiniteParts, FinitePartsNext
<1>1. R \in Nat /\ H \in Nat /\ O \in Nat /\ R2 \in Nat /\ H2 \in Nat /\ MaxThreads \in Nat
  BY <1>0, FS_CardinalityType, ConstantsAssumption
<1>2. R2 <= R
  <2>1. V1Registered' \subseteq Registered
    BY DEF V1Registered, Registered
  <2> QED BY <1>0, <2>1, CardSub
<1>3. H2 <= H + 1
  <2>1. V1Holding' \subseteq Holding \cup {c}
    BY DEF V1Holding
  <2> QED BY <1>0, <2>1, CardGrow
<1>4. R + H + O <= count
  BY DEF CountCovers
<1> SUFFICES R2 + H2 <= MaxThreads
  BY DEF LimitKept
<1> HIDE DEF R, H, O, R2, H2
<1> QED BY <1>1, <1>2, <1>3, <1>4

LEMMA LimitKeptStep ==
    ASSUME Shape, Shape', CallStored, KnownStored, count \in Int, CountCovers, LimitKept,
           [Next]_vars
    PROVE  LimitKept'
<1> USE ConstantsAssumption DEF Ids, Keys, Entries, Vacant, Reserved, regVars
<1>1. ASSUME NEW c \in Callers, NEW t \in Threads, NEW p \in Paths \cup {NoPath}, Spawn(c, t, p) PROVE LimitKept'
  <2>1. V1Registered' \subseteq V1Registered /\ V1Holding' \subseteq V1Holding
    BY <1>1 DEF V1Registered, V1Holding, Registered, Holding, Shape, Calls, Spawn, Begin, Idle
  <2> QED BY <2>1, Kept
<1>2. ASSUME NEW c \in Callers, NEW t \in Threads, Resume(c, t) PROVE LimitKept'
  <2>1. V1Registered' \subseteq V1Registered /\ V1Holding' \subseteq V1Holding
    BY <1>2 DEF V1Registered, V1Holding, Registered, Holding, Shape, Calls, Resume, Begin, Idle
  <2> QED BY <2>1, Kept
<1>3. ASSUME NEW c \in Callers, NEW t \in Threads, Restore(c, t) PROVE LimitKept'
  <2>1. V1Registered' \subseteq V1Registered /\ V1Holding' \subseteq V1Holding
    BY <1>3 DEF V1Registered, V1Holding, Registered, Holding, Shape, Calls, Restore, Begin, Idle
  <2> QED BY <2>1, Kept
<1>4. ASSUME NEW c \in Callers, ReserveSlot(c) PROVE LimitKept'
  <2>1. CASE count < MaxThreads
    <3>1. V1Registered' \subseteq V1Registered /\ V1Holding' \subseteq V1Holding \cup {c}
      BY <1>4 DEF V1Registered, V1Holding, Registered, Holding, Shape, Calls, ReserveSlot, Idle
    <3> QED BY <2>1, <3>1, LetIn
  <2>2. CASE ~(count < MaxThreads)
    <3>1. Limited(c) => count >= MaxThreads
      BY <2>2
    <3>2. V1Registered' \subseteq V1Registered /\ V1Holding' \subseteq V1Holding
      BY <1>4, <3>1 DEF V1Registered, V1Holding, Registered, Holding, Shape, Calls, ReserveSlot, Idle, Limited, CallStored
    <3> QED BY <3>2, Kept
  <2> QED BY <2>1, <2>2
<1>5. ASSUME NEW c \in Callers, Prepare(c) PROVE LimitKept'
  <2>1. V1Registered' \subseteq V1Registered /\ V1Holding' \subseteq V1Holding
    BY <1>5 DEF V1Registered, V1Holding, Registered, Holding, Shape, Calls, Prepare, Drop, Idle
  <2> QED BY <2>1, Kept
<1>6. ASSUME NEW c \in Callers, Create(c) PROVE LimitKept'
  <2>1. V1Registered' \subseteq V1Registered /\ V1Holding' \subseteq V1Holding
    BY <1>6 DEF V1Registered, V1Holding, Registered, Holding, Shape, Calls, Create, Drop, Idle, KnownStored, CallStored, Fresh
  <2> QED BY <2>1, Kept
<1>7. ASSUME NEW c \in Callers, Commit(c) PROVE LimitKept'
  <2>0. stored[call[c].thread] = call[c].path /\ c \in Holding
    BY <1>7 DEF Commit, CallStored, Fresh, Holding, Shape, Calls
  <2>1. CASE call[c].path = NoPath
    <3>1. c \in V1Holding
      BY <2>0, <2>1 DEF V1Holding
    <3>2. /\ V1Registered' \subseteq V1Registered \cup {call[c].thread}
          /\ V1Holding' \subseteq V1Holding \ {c}
      BY <1>7 DEF V1Registered, V1Holding, Registered, Holding, Shape, Calls, Commit, Register, Key, Idle
    <3> QED BY <3>1, <3>2, Kept
  <2>2. CASE call[c].path # NoPath
    <3>1. V1Registered' \subseteq V1Registered /\ V1Holding' \subseteq V1Holding
      BY <1>7, <2>0, <2>2 DEF V1Registered, V1Holding, Registered, Holding, Shape, Calls, Commit, Register, Key, Idle
    <3> QED BY <3>1, Kept
  <2> QED BY <2>1, <2>2
<1>8. ASSUME NEW c \in Callers, Fail(c) PROVE LimitKept'
  <2>1. V1Registered' \subseteq V1Registered /\ V1Holding' \subseteq V1Holding
    BY <1>8 DEF V1Registered, V1Holding, Registered, Holding, Shape, Calls, Fail, Drop, Idle
  <2> QED BY <2>1, Kept
<1>9. ASSUME NEW k \in Closers, CloseRelease(k) PROVE LimitKept'
  <2>1. V1Registered' \subseteq V1Registered /\ V1Holding' \subseteq V1Holding
    BY <1>9 DEF V1Registered, V1Holding, Registered, Holding, Shape, Calls, CloseRelease, Release
  <2> QED BY <2>1, Kept
<1>10. ASSUME NEW k \in Closers, NEW t \in Ids, CloseBegin(k, t) PROVE LimitKept'
  <2>1. V1Registered' \subseteq V1Registered /\ V1Holding' \subseteq V1Holding
    BY <1>10 DEF V1Registered, V1Holding, Registered, Holding, Shape, Calls, CloseBegin
  <2> QED BY <2>1, Kept
<1>11. ASSUME NEW t \in Threads, Unload(t) PROVE LimitKept'
  <2>1. V1Registered' \subseteq V1Registered /\ V1Holding' \subseteq V1Holding
    BY <1>11 DEF V1Registered, V1Holding, Registered, Holding, Shape, Calls, Unload
  <2> QED BY <2>1, Kept
<1>12. ASSUME NEW a \in Callers \cup Closers, Settle(a) PROVE LimitKept'
  <2>1. V1Registered' \subseteq V1Registered /\ V1Holding' \subseteq V1Holding
    BY <1>12 DEF V1Registered, V1Holding, Registered, Holding, Shape, Calls, Settle
  <2> QED BY <2>1, Kept
<1>13. CASE RegisterRoot
  <2>1. V1Registered' \subseteq V1Registered /\ V1Holding' \subseteq V1Holding
    BY <1>13 DEF V1Registered, V1Holding, Registered, Holding, Shape, Calls, RegisterRoot
  <2> QED BY <2>1, Kept
<1>14. CASE Restart
  <2>1. V1Registered' \subseteq V1Registered /\ V1Holding' \subseteq V1Holding
    BY <1>14 DEF V1Registered, V1Holding, Registered, Holding, Shape, Calls, Restart, Idle
  <2> QED BY <2>1, Kept
<1>15. CASE UNCHANGED vars
  <2>1. V1Registered' \subseteq V1Registered /\ V1Holding' \subseteq V1Holding
    BY <1>15 DEF V1Registered, V1Holding, Registered, Holding, Shape, Calls, vars
  <2> QED BY <2>1, Kept
<1>16. ASSUME NEW t \in Threads, CloseEdge(t) PROVE LimitKept'
  <2>1. V1Registered' \subseteq V1Registered /\ V1Holding' \subseteq V1Holding
    BY <1>16 DEF V1Registered, V1Holding, Registered, Holding, Shape, Calls, CloseEdge
  <2> QED BY <2>1, Kept
<1>17. ASSUME NEW c \in Callers, PersistEdge(c) PROVE LimitKept'
  <2>1. V1Registered' \subseteq V1Registered /\ V1Holding' \subseteq V1Holding
    BY <1>17 DEF V1Registered, V1Holding, Registered, Holding, Shape, Calls, PersistEdge, Idle
  <2> QED BY <2>1, Kept
<1> QED BY <1>1, <1>2, <1>3, <1>4, <1>5, <1>6, <1>7, <1>8, <1>9, <1>10, <1>11, <1>12, <1>13, <1>14,
          <1>15, <1>16, <1>17 DEF Next, CallStep

-----------------------------------------------------------------------------
(* Theorems *)

IInv ==
    /\ Shape /\ count \in Int
    /\ RootApart /\ Identity /\ CallStored /\ KnownStored
    /\ PathsOwned /\ CountCovers /\ LimitKept

LEMMA InitIInv ==
    ASSUME Init
    PROVE  IInv
<1> USE ConstantsAssumption DEF Init, Ids, Keys, Entries, Vacant, Reserved, Idle
<1>1. Shape /\ count \in Int
  BY DEF Shape, Calls
<1>2. RootApart /\ Identity /\ CallStored /\ KnownStored /\ PathsOwned
  BY DEF RootApart, Identity, CallStored, KnownStored, PathsOwned, Holds
<1>3. Registered = {} /\ Holding = {} /\ owed = {} /\ V1Registered = {} /\ V1Holding = {}
  BY DEF Registered, Holding, V1Registered, V1Holding
<1>4. CountCovers /\ LimitKept
  BY <1>3, FS_EmptySet DEF CountCovers, LimitKept
<1> QED BY <1>1, <1>2, <1>4 DEF IInv

LEMMA NextIInv ==
    ASSUME IInv, [Next]_vars
    PROVE  IInv'
<1>1. Shape'
  BY ShapeStep DEF IInv
<1>2. RootApart' /\ Identity' /\ CallStored' /\ KnownStored' /\ PathsOwned'
  BY RootApartStep, IdentityStep, CallStoredStep, KnownStoredStep, PathsOwnedStep DEF IInv
<1>3. CountCovers' /\ (count \in Int)'
  BY <1>1, CountCoversStep DEF IInv
<1>4. LimitKept'
  BY <1>1, LimitKeptStep DEF IInv
<1> QED BY <1>1, <1>2, <1>3, <1>4 DEF IInv

LEMMA IInvType ==
    ASSUME IInv
    PROVE  TypeOK
<1>1. /\ Cardinality(Registered) \in Nat /\ Cardinality(Holding) \in Nat
      /\ Cardinality(owed) \in Nat
  BY FiniteParts, FS_CardinalityType DEF IInv
<1>2. Cardinality(Registered) + Cardinality(Holding) + Cardinality(owed) <= count /\ count \in Int
  BY DEF IInv, CountCovers
<1>3. count \in Nat
  BY <1>1, <1>2
<1> QED BY <1>3 DEF IInv, TypeOK

LEMMA Inductive == Spec => []IInv
BY InitIInv, NextIInv, PTL DEF Spec

\* The registry's maps, the calls in progress and the stores keep their types,
\* and total_count never wraps below zero, for every set of threads and calls.
THEOREM TypeCorrect == Spec => []TypeOK
BY Inductive, IInvType, PTL

\* The two maps of ActiveAgents stay inverse to each other under every overlap
\* of registrations, releases and failed reservations.
THEOREM MapsInverse == Spec => []Identity
<1>1. IInv => Identity
  BY DEF IInv
<1> QED BY Inductive, <1>1, PTL

\* A path reserved by reserve_agent_path belongs to exactly one call until that
\* call commits or its reservation is dropped.
THEOREM PathOwnership == Spec => []PathsOwned
<1>1. IInv => PathsOwned
  BY DEF IInv
<1> QED BY Inductive, <1>1, PTL

\* Every registered agent, reservation and outstanding decrement has its unit in
\* total_count.
THEOREM CountIsEnough == Spec => []CountCovers
<1>1. IInv => CountCovers
  BY DEF IInv
<1> QED BY Inductive, <1>1, PTL

\* agents.max_threads bounds the V1 agents registered or being created, for
\* every limit and any number of concurrent calls.
THEOREM LimitRespected == Spec => []LimitKept
<1>1. IInv => LimitKept
  BY DEF IInv
<1> QED BY Inductive, <1>1, PTL
=============================================================================
