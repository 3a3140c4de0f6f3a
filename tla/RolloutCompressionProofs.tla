---------------------- MODULE RolloutCompressionProofs ----------------------
(***************************************************************************)
(* Proofs about RolloutCompression, for any number of sessions and forks   *)
(* that open the rollout, readers, records, weeks, runs of the worker and  *)
(* reopens.  What the properties except, raced, is all that the proofs     *)
(* need to except: as long as no two materializations have overlapped,     *)
(* whoever materializes owns the change of form (MaterializeOK).           *)
(***************************************************************************)
EXTENDS RolloutCompression, SequenceTheorems, FiniteSetTheorems, TLAPS

-----------------------------------------------------------------------------
(* The inductive invariant *)

AllRecords == Records \cup {Base}
Files == [recs : SUBSET AllRecords, mtime : Nat]
OpPcs == {"idle", "look", "lookzst", "decode", "link", "times", "drop", "open", "touch"}
Ops == [pc : OpPcs, kind : {"none", "resume", "fork", "reopen"}, refresh : BOOLEAN,
        temp : SUBSET AllRecords, mtime : Nat, inode : Nat]
WorkerPcs == {"idle", "exists", "encode", "check", "publish", "recheck", "remove"}
Workers == [pc : WorkerPcs, len : Nat, mtime : Nat, temp : SUBSET AllRecords]
ReaderPcs == {"idle", "stat", "statzst", "open", "openzst", "done", "notfound"}
ReaderStates == [pc : ReaderPcs, tries : Nat, moves : Nat]

TypeOK ==
    /\ now \in Nat /\ files \in Seq(Files) /\ plain \in 0..Len(files)
    /\ zst \in Files \cup {NoFile}
    /\ op \in [Procs -> Ops] /\ handle \in [Procs -> 0..Len(files)]
    /\ worker \in Workers /\ reader \in [Readers -> ReaderStates]
    /\ acked \subseteq AllRecords /\ late \subseteq AllRecords
    /\ runs \in Nat /\ reopens \in Nat /\ forks \in Nat

\* What must not be lost.
Safe == acked \ late

Kept == Safe \subseteq OnDisk

\* The rollout always has one of its forms, and the plain one while the worker is at it.
Exists == (plain # 0 \/ zst # NoFile) /\ (worker.pc # "idle" => plain # 0)

\* Whoever materializes has found no plain file, and nobody else makes or removes one
\* until the copy of the compressed file is in place and complete.
MaterializeOK(p) ==
    /\ op[p].pc \in {"lookzst", "decode", "link"} => plain = 0
    /\ op[p].pc \in {"decode", "link", "times", "drop"} => zst # NoFile
    /\ op[p].pc = "link" => Safe \subseteq op[p].temp
    /\ op[p].pc \in {"times", "drop"} =>
          plain # 0 /\ worker.pc \in {"idle", "exists"} /\ Safe \subseteq files[plain].recs

\* As long as the modified time is the one it noted, the worker's copy is that of the file:
\* a write would have brought it to the present.
WorkerOK ==
    /\ worker.pc # "idle" => worker.mtime < now
    /\ worker.pc \in {"encode", "check", "publish", "recheck"} => Safe \subseteq files[plain].recs
    /\ worker.pc \in {"check", "publish", "recheck"} /\ files[plain].mtime = worker.mtime
          => files[plain].recs = worker.temp
    /\ worker.pc \in {"recheck", "remove"} => zst # NoFile /\ zst.recs = worker.temp
    /\ worker.pc = "remove" => Safe \subseteq zst.recs

\* A failed attempt of a reader is owed to a move, and so is one that is going to fail.
ReaderOK(r) ==
    LET doomed == reader[r].moves >= reader[r].tries + 1
    IN /\ reader[r].pc # "done" => reader[r].moves >= reader[r].tries
       /\ reader[r].pc = "open" => plain # 0 \/ doomed
       /\ reader[r].pc \in {"statzst", "openzst"} => zst # NoFile \/ doomed
       /\ reader[r].pc = "notfound" => reader[r].tries >= Attempts

FormsInv == Exists /\ (\A p \in Procs : MaterializeOK(p)) /\ WorkerOK /\ Kept

ReadersInv == \A r \in Readers : ReaderOK(r)

IInv == TypeOK /\ FormsInv /\ ReadersInv

USE ConstantsAssumption

-----------------------------------------------------------------------------
(* Files *)

LEMMA FileParts ==
    ASSUME TypeOK, NEW i \in 1..Len(files)
    PROVE  /\ files[i] \in Files /\ files[i].recs \subseteq AllRecords /\ files[i].mtime \in Nat
           /\ DOMAIN files = 1..Len(files) /\ Len(files) \in Nat
<1>1. files \in Seq(Files) BY DEF TypeOK
<1>2. files[i] \in Files /\ Len(files) \in Nat BY <1>1, ElementOfSeq, LenProperties
<1> QED BY <1>1, <1>2, LenProperties DEF Files

\* A new file is added after the others.
LEMMA Added ==
    ASSUME TypeOK, NEW f \in Files
    PROVE  /\ Append(files, f) \in Seq(Files) /\ Len(files) \in Nat
           /\ Len(Append(files, f)) = Len(files) + 1
           /\ Append(files, f)[Len(files) + 1] = f
           /\ \A i \in 1..Len(files) : Append(files, f)[i] = files[i]
<1>1. files \in Seq(Files) BY DEF TypeOK
<1> QED BY <1>1, AppendProperties, LenProperties

\* A file is written to, or gets another modified time.
LEMMA Written ==
    ASSUME TypeOK, NEW g, DOMAIN g = DOMAIN files, \A i \in 1..Len(files) : g[i] \in Files,
           g = [i \in DOMAIN g |-> g[i]]
    PROVE  g \in Seq(Files) /\ Len(g) = Len(files)
<1>1. files \in Seq(Files) BY DEF TypeOK
<1>2. DOMAIN files = 1..Len(files) /\ Len(files) \in Nat BY <1>1, LenProperties
<1>3. g \in [1..Len(files) -> Files] BY <1>2
<1> QED BY <1>2, <1>3

\* A compressed file is not the absence of one.
LEMMA SomeFile ==
    ASSUME NEW f \in Files
    PROVE  f # NoFile
BY DEF Files, AllRecords

-----------------------------------------------------------------------------
(* Readers *)

\* No name of the rollout goes away.
LEMMA ReadersStay ==
    ASSUME ReadersInv, reader' = reader, plain # 0 => plain' # 0, zst # NoFile => zst' # NoFile
    PROVE  ReadersInv'
<1> SUFFICES ASSUME NEW r \in Readers PROVE ReaderOK(r)'
  BY DEF ReadersInv
<1>1. ReaderOK(r) BY DEF ReadersInv
<1> QED BY <1>1 DEF ReaderOK, Attempts

LEMMA MovedParts ==
    ASSUME TypeOK, Moved, NEW r \in Readers
    PROVE  /\ reader'[r] \in ReaderStates /\ reader[r] \in ReaderStates
           /\ reader'[r].pc = reader[r].pc /\ reader'[r].tries = reader[r].tries
           /\ reader[r].pc \in {"idle", "done", "notfound"} => reader'[r] = reader[r]
           /\ reader[r].pc \notin {"idle", "done", "notfound"} =>
                 reader'[r].moves = reader[r].moves + 1
<1>1. reader[r] \in ReaderStates BY DEF TypeOK
<1>2. reader'[r] = IF reader[r].pc \in {"idle", "done", "notfound"} THEN reader[r]
                   ELSE [reader[r] EXCEPT !.moves = @ + 1]
  BY DEF Moved
<1> QED BY <1>1, <1>2 DEF ReaderStates

\* A name goes away: every attempt that is under way may fail.
LEMMA ReadersMove ==
    ASSUME TypeOK, ReadersInv, Moved
    PROVE  ReadersInv' /\ reader' \in [Readers -> ReaderStates]
<1>1. ASSUME NEW r \in Readers PROVE ReaderOK(r)'
  <2>1. ReaderOK(r) BY DEF ReadersInv
  <2>2. /\ reader[r].pc \in ReaderPcs /\ reader[r].tries \in Nat /\ reader[r].moves \in Nat
    BY MovedParts DEF ReaderStates
  <2>3. CASE reader[r].pc \in {"idle", "done", "notfound"}
    BY <2>1, <2>3, MovedParts DEF ReaderOK
  <2>4. CASE reader[r].pc \notin {"idle", "done", "notfound"}
    BY <2>1, <2>2, <2>4, MovedParts DEF ReaderOK
  <2> QED BY <2>3, <2>4
<1>2. \A r \in Readers : reader'[r] \in ReaderStates BY MovedParts
<1>3. reader' = [r \in Readers |-> reader'[r]] BY DEF Moved
<1> QED BY <1>1, <1>2, <1>3 DEF ReadersInv

LEMMA ReadStep ==
    ASSUME IInv, NEW r \in Readers, Read(r)
    PROVE  ReadersInv' /\ reader' \in [Readers -> ReaderStates]
<1>0. /\ reader \in [Readers -> ReaderStates] /\ plain' = plain /\ zst' = zst
      /\ plain # 0 \/ zst # NoFile
  BY DEF IInv, FormsInv, Exists, TypeOK, Read, ReaderStart, StatPlain, StatCompressed, OpenFound
<1>1. ReaderOK(r) /\ \A q \in Readers : ReaderOK(q) BY DEF IInv, ReadersInv
<1>2. /\ reader[r] \in ReaderStates /\ reader[r].pc \in ReaderPcs
      /\ reader[r].tries \in Nat /\ reader[r].moves \in Nat
  BY <1>0 DEF ReaderStates
<1>3. ASSUME NEW v \in ReaderStates, reader' = [reader EXCEPT ![r] = v],
             LET doomed == v.moves >= v.tries + 1
             IN /\ v.pc # "done" => v.moves >= v.tries
                /\ v.pc = "open" => plain # 0 \/ doomed
                /\ v.pc \in {"statzst", "openzst"} => zst # NoFile \/ doomed
                /\ v.pc = "notfound" => v.tries >= Attempts
      PROVE  ReadersInv' /\ reader' \in [Readers -> ReaderStates]
  <2>1. reader' \in [Readers -> ReaderStates] BY <1>0, <1>3
  <2>2. ASSUME NEW q \in Readers PROVE ReaderOK(q)'
    <3>1. CASE q = r
      <4>1. reader'[q] = v BY <1>0, <1>3, <3>1
      <4> QED BY <1>0, <1>3, <4>1 DEF ReaderOK
    <3>2. CASE q # r
      <4>1. reader'[q] = reader[q] BY <1>0, <1>3, <3>2
      <4> QED BY <1>0, <1>1, <4>1 DEF ReaderOK
    <3> QED BY <3>1, <3>2
  <2> QED BY <2>1, <2>2 DEF ReadersInv
<1>4. CASE ReaderStart(r)
  <2>1. reader' = [reader EXCEPT ![r] = [reader[r] EXCEPT !.pc = "stat"]]
    BY <1>0, <1>4 DEF ReaderStart, ReaderGoto
  <2>2. reader[r].pc = "idle" BY <1>4 DEF ReaderStart, ReaderIdle
  <2>3. reader[r].moves >= reader[r].tries BY <1>1, <2>2 DEF ReaderOK
  <2>4. [reader[r] EXCEPT !.pc = "stat"] \in ReaderStates BY <1>2 DEF ReaderStates, ReaderPcs
  <2> QED BY <1>2, <1>3, <2>1, <2>3, <2>4 DEF ReaderStates
<1>5. CASE StatPlain(r)
  <2>1. reader' = [reader EXCEPT ![r] =
                     [reader[r] EXCEPT !.pc = IF plain # 0 THEN "open" ELSE "statzst"]]
    BY <1>0, <1>5 DEF StatPlain, ReaderGoto
  <2> QED BY <1>0, <1>1, <1>2, <1>3, <1>5, <2>1 DEF ReaderStates, ReaderPcs, ReaderOK, StatPlain
<1>6. CASE StatCompressed(r)
  <2>1. reader' = [reader EXCEPT ![r] =
                     [reader[r] EXCEPT !.pc = IF zst # NoFile THEN "openzst" ELSE "open"]]
    BY <1>0, <1>6 DEF StatCompressed, ReaderGoto
  <2> QED BY <1>0, <1>1, <1>2, <1>3, <1>6, <2>1 DEF ReaderStates, ReaderPcs, ReaderOK, StatCompressed
<1>7. CASE OpenFound(r)
  <2> DEFINE found == IF reader[r].pc = "open" THEN plain # 0 ELSE zst # NoFile
             tries == reader[r].tries + 1
             pc == IF found THEN "done" ELSE IF tries < Attempts THEN "stat" ELSE "notfound"
  <2>1. reader' = [reader EXCEPT ![r] = [reader[r] EXCEPT !.tries = tries, !.pc = pc]]
    BY <1>0, <1>7 DEF OpenFound
  <2>2. pc # "done" => reader[r].moves >= tries BY <1>1, <1>2, <1>7 DEF ReaderOK, OpenFound
  <2>3. tries \in Nat /\ pc \in ReaderPcs BY <1>2 DEF ReaderPcs
  <2>4. /\ pc \in {"done", "stat", "notfound"}
        /\ pc = "notfound" => tries >= Attempts
    BY <1>2 DEF Attempts
  <2> HIDE DEF tries, pc, found
  <2> DEFINE v == [reader[r] EXCEPT !.tries = tries, !.pc = pc]
  <2>5. v \in ReaderStates /\ v.tries = tries /\ v.pc = pc /\ v.moves = reader[r].moves
    BY <1>2, <2>3 DEF ReaderStates
  <2>6. reader' = [reader EXCEPT ![r] = v] BY <2>1
  <2>7. /\ v.pc # "done" => v.moves >= v.tries
        /\ v.pc # "open" /\ v.pc \notin {"statzst", "openzst"}
        /\ v.pc = "notfound" => v.tries >= Attempts
    <3> HIDE DEF v
    <3> QED BY <2>2, <2>4, <2>5
  <2> HIDE DEF v
  <2> QED BY <1>3, <2>5, <2>6, <2>7
<1> QED BY <1>4, <1>5, <1>6, <1>7 DEF Read

-----------------------------------------------------------------------------
(* The process *)

LEMMA OpParts ==
    ASSUME TypeOK, NEW p \in Procs
    PROVE  /\ op[p] \in Ops /\ op[p].pc \in OpPcs /\ op[p].temp \subseteq AllRecords
           /\ op[p].mtime \in Nat /\ op[p].inode \in Nat
           /\ handle[p] \in 0..Len(files) /\ Len(files) \in Nat
<1>1. files \in Seq(Files) BY DEF TypeOK
<1>2. Len(files) \in Nat BY <1>1, LenProperties
<1> QED BY <1>2 DEF TypeOK, Ops

LEMMA IdleOp == NoOp \in Ops /\ NoOp.pc = "idle"
BY DEF NoOp, Ops, OpPcs

\* The process moves on and the files stay as they are.
LEMMA OnlyOp ==
    ASSUME IInv, ~Racing, NEW p \in Procs, NEW v \in Ops, op' = [op EXCEPT ![p] = v],
           UNCHANGED <<now, files, plain, zst, worker, reader, acked, late>>,
           handle' \in [Procs -> 0..Len(files)], reopens' \in Nat, forks' \in Nat, runs' = runs,
           /\ v.pc \in {"lookzst", "decode", "link"} => plain = 0
           /\ v.pc \in {"decode", "link", "times", "drop"} => zst # NoFile
           /\ v.pc = "link" => Safe \subseteq v.temp
           /\ v.pc \in {"times", "drop"} =>
                 plain # 0 /\ worker.pc \in {"idle", "exists"} /\ Safe \subseteq files[plain].recs
    PROVE  IInv'
<1>1. TypeOK' BY DEF IInv, TypeOK
<1>2. ReadersInv' BY ReadersStay DEF IInv
<1>3. Exists' /\ WorkerOK' /\ Kept'
  BY DEF IInv, FormsInv, Exists, WorkerOK, Kept, OnDisk, Safe
<1>4. ASSUME NEW q \in Procs PROVE MaterializeOK(q)'
  <2>1. CASE q = p
    <3>1. op'[q] = v BY <2>1 DEF IInv, TypeOK
    <3> QED BY <3>1 DEF MaterializeOK, Safe
  <2>2. CASE q # p
    <3>1. op'[q] = op[q] /\ MaterializeOK(q) BY <2>2 DEF IInv, TypeOK, FormsInv
    <3> QED BY <3>1 DEF MaterializeOK, Safe
  <2> QED BY <2>1, <2>2
<1> QED BY <1>1, <1>2, <1>3, <1>4 DEF IInv, FormsInv

LEMMA OpStep ==
    ASSUME IInv, ~Racing, NEW p \in Procs,
           Resume(p) \/ Fork(p) \/ Reopen(p) \/ LookPlain(p) \/ LookCompressed(p) \/ Decode(p)
           \/ Leave(p)
    PROVE  IInv'
<1>0. /\ TypeOK /\ Exists /\ MaterializeOK(p) /\ Kept
      /\ op \in [Procs -> Ops] /\ handle \in [Procs -> 0..Len(files)]
      /\ runs \in Nat /\ reopens \in Nat /\ forks \in Nat
  BY DEF IInv, FormsInv, TypeOK
<1>1. op[p] \in Ops /\ Len(files) \in Nat BY <1>0, OpParts
<1>2. /\ UNCHANGED <<now, files, plain, zst, worker, reader, acked, late>> /\ runs' = runs
      /\ reopens' \in Nat /\ forks' \in Nat /\ handle' \in [Procs -> 0..Len(files)]
  BY <1>0, <1>1 DEF Resume, Fork, Reopen, LookPlain, LookCompressed, Decode, Leave, counters
<1>3. ASSUME NEW v \in Ops, op' = [op EXCEPT ![p] = v], v.pc \in {"idle", "look", "open"}
      PROVE  IInv'
  BY <1>2, <1>3, OnlyOp
<1>4. CASE Resume(p) \/ Fork(p) \/ Reopen(p)
  <2>1. PICK kind \in {"resume", "fork", "reopen"} : Start(p, kind)
    BY <1>4 DEF Resume, Fork, Reopen
  <2> DEFINE v == [NoOp EXCEPT !.pc = "look", !.kind = kind, !.refresh = plain = 0]
  <2>2. op' = [op EXCEPT ![p] = v] BY <2>1 DEF Start, Continue
  <2>3. v \in Ops /\ v.pc = "look" BY DEF Ops, OpPcs, NoOp
  <2> QED BY <1>3, <2>2, <2>3
<1>5. CASE LookPlain(p)
  <2> DEFINE v == [op[p] EXCEPT !.pc = IF plain # 0 THEN "open" ELSE "lookzst"]
  <2>1. op' = [op EXCEPT ![p] = v] BY <1>0, <1>5 DEF LookPlain, Goto, Continue
  <2>2. v \in Ops /\ v.pc = IF plain # 0 THEN "open" ELSE "lookzst" BY <1>1 DEF Ops, OpPcs
  <2> HIDE DEF v
  <2> QED BY <1>2, <2>1, <2>2, OnlyOp
<1>6. CASE LookCompressed(p)
  <2> DEFINE v == [op[p] EXCEPT !.pc = IF zst = NoFile THEN "open" ELSE "decode"]
  <2>1. op' = [op EXCEPT ![p] = v] BY <1>0, <1>6 DEF LookCompressed, Goto, Continue
  <2>2. v \in Ops /\ v.pc = IF zst = NoFile THEN "open" ELSE "decode" BY <1>1 DEF Ops, OpPcs
  <2>3. plain = 0 BY <1>0, <1>6 DEF LookCompressed, MaterializeOK
  <2> HIDE DEF v
  <2> QED BY <1>2, <2>1, <2>2, <2>3, OnlyOp
<1>7. CASE Decode(p)
  <2>1. plain = 0 /\ zst # NoFile /\ zst \in Files
    BY <1>0, <1>7 DEF Decode, MaterializeOK, TypeOK
  <2> DEFINE v == [op[p] EXCEPT !.pc = "link", !.temp = zst.recs, !.mtime = zst.mtime]
  <2>2. op' = [op EXCEPT ![p] = v] BY <1>0, <1>7, <2>1 DEF Decode, Continue
  <2>3. v \in Ops /\ v.pc = "link" /\ v.temp = zst.recs BY <1>1, <2>1 DEF Ops, OpPcs, Files
  <2>4. Safe \subseteq v.temp BY <1>0, <2>1, <2>3 DEF Kept, OnDisk, Safe
  <2> HIDE DEF v
  <2> QED BY <1>2, <2>1, <2>2, <2>3, <2>4, OnlyOp
<1>8. CASE Leave(p)
  <2>1. op' = [op EXCEPT ![p] = NoOp] BY <1>8 DEF Leave, Done, Continue
  <2> QED BY <1>3, <2>1, IdleOp
<1> QED BY <1>4, <1>5, <1>6, <1>7, <1>8

\* Nobody else materializes while this one does.
LEMMA OthersIdle ==
    ASSUME ~Racing, NEW p \in Procs, Materializing(p), MaterializeOK(p)',
           \A q \in Procs \ {p} : op'[q] = op[q]
    PROVE  (\A q \in Procs : MaterializeOK(q))'
<1> SUFFICES ASSUME NEW q \in Procs, q # p PROVE MaterializeOK(q)'
  OBVIOUS
<1>1. op'[q] = op[q] /\ ~Materializing(q) BY DEF Racing
<1> QED BY <1>1 DEF Materializing, MaterializeOK

LEMMA LinkStep ==
    ASSUME IInv, ~Racing, NEW p \in Procs, Link(p)
    PROVE  IInv'
<1>0. /\ TypeOK /\ Exists /\ MaterializeOK(p) /\ Kept /\ WorkerOK /\ ReadersInv
      /\ op \in [Procs -> Ops] /\ handle \in [Procs -> 0..Len(files)] /\ now \in Nat
  BY DEF IInv, FormsInv, TypeOK
<1>1. op[p] \in Ops /\ Len(files) \in Nat /\ op[p].temp \subseteq AllRecords BY <1>0, OpParts
<1>2. plain = 0 /\ zst # NoFile /\ Safe \subseteq op[p].temp /\ worker.pc = "idle"
  BY <1>0 DEF Link, MaterializeOK, Exists
<1> DEFINE f == [recs |-> op[p].temp, mtime |-> now]
           n == Len(files) + 1
           v == [op[p] EXCEPT !.pc = "times", !.inode = n]
<1>3. f \in Files /\ f.recs = op[p].temp BY <1>0, <1>1 DEF Files
<1>4. /\ Append(files, f) \in Seq(Files) /\ Len(Append(files, f)) = n
      /\ Append(files, f)[n] = f
  BY <1>0, <1>3, Added
<1>5. /\ files' = Append(files, f) /\ plain' = Len(files')
      /\ op' = [op EXCEPT ![p] = [op[p] EXCEPT !.pc = "times", !.inode = Len(files')]]
      /\ UNCHANGED <<now, zst, handle, worker, reader, acked, late, runs, reopens, forks>>
  BY <1>2 DEF Link, Continue, counters
<1>6. Len(files') = n /\ plain' = n /\ n \in Nat /\ n # 0 /\ files'[n] = f /\ files' \in Seq(Files)
  BY <1>1, <1>4, <1>5
<1>7. v \in Ops /\ v.pc = "times" BY <1>1, <1>6 DEF Ops, OpPcs
<1>8. op' = [op EXCEPT ![p] = v] BY <1>0, <1>5, <1>6
<1>9. op'[p].pc = "times" /\ op' \in [Procs -> Ops] /\ \A q \in Procs \ {p} : op'[q] = op[q]
  <2> HIDE DEF v
  <2> QED BY <1>0, <1>7, <1>8
<1>10. Safe' = Safe /\ Safe \subseteq files'[plain'].recs
  BY <1>2, <1>3, <1>5, <1>6 DEF Safe
<1> HIDE DEF f, n, v
<1>11. TypeOK'
  <2>1. handle' \in [Procs -> 0..Len(files')] BY <1>0, <1>1, <1>5, <1>6 DEF n
  <2>2. plain' \in 0..Len(files') BY <1>6
  <2> QED BY <1>0, <1>5, <1>6, <1>9, <2>1, <2>2 DEF TypeOK
<1>12. MaterializeOK(p)' BY <1>2, <1>5, <1>6, <1>9, <1>10 DEF MaterializeOK
<1>13. Exists' /\ WorkerOK' BY <1>2, <1>5, <1>6 DEF Exists, WorkerOK
<1>14. Kept' BY <1>6, <1>10 DEF Kept, OnDisk, Safe
<1>15. ReadersInv' BY <1>0, <1>2, <1>5, ReadersStay
<1>16. Materializing(p) BY DEF Link, Materializing
<1> QED BY <1>9, <1>11, <1>12, <1>13, <1>14, <1>15, <1>16, OthersIdle DEF IInv, FormsInv

LEMMA SetTimesStep ==
    ASSUME IInv, ~Racing, NEW p \in Procs, SetTimes(p)
    PROVE  IInv'
<1>0. /\ TypeOK /\ Exists /\ MaterializeOK(p) /\ Kept /\ WorkerOK /\ ReadersInv
      /\ op \in [Procs -> Ops] /\ files \in Seq(Files) /\ plain \in 0..Len(files)
  BY DEF IInv, FormsInv, TypeOK
<1>1. op[p] \in Ops /\ Len(files) \in Nat /\ op[p].mtime \in Nat /\ DOMAIN files = 1..Len(files)
  BY <1>0, OpParts, LenProperties
<1>2. /\ op[p].pc = "times" /\ plain # 0 /\ zst # NoFile /\ worker.pc \in {"idle", "exists"}
      /\ Safe \subseteq files[plain].recs
  BY <1>0 DEF SetTimes, MaterializeOK
<1>3. /\ files' = [i \in DOMAIN files |-> IF i = op[p].inode
                     THEN [files[i] EXCEPT !.mtime = op[p].mtime] ELSE files[i]]
      /\ op' = [op EXCEPT ![p] = [op[p] EXCEPT !.pc = "drop"]]
      /\ UNCHANGED <<now, plain, zst, handle, worker, reader, acked, late, runs, reopens, forks>>
  BY DEF SetTimes, Goto, Continue, counters
<1>4. \A i \in 1..Len(files) : files'[i] \in Files /\ files'[i].recs = files[i].recs
  <2> SUFFICES ASSUME NEW i \in 1..Len(files)
               PROVE  files'[i] \in Files /\ files'[i].recs = files[i].recs
    OBVIOUS
  <2>1. files[i] \in Files BY <1>0, FileParts
  <2>2. [files[i] EXCEPT !.mtime = op[p].mtime] \in Files BY <1>1, <2>1 DEF Files
  <2>3. [files[i] EXCEPT !.mtime = op[p].mtime].recs = files[i].recs BY <2>1 DEF Files
  <2>4. files'[i] \in {files[i], [files[i] EXCEPT !.mtime = op[p].mtime]} BY <1>1, <1>3
  <2> QED BY <2>1, <2>2, <2>3, <2>4
<1>5. files' \in Seq(Files) /\ Len(files') = Len(files)
  <2>1. DOMAIN files' = DOMAIN files /\ files' = [i \in DOMAIN files' |-> files'[i]] BY <1>3
  <2> QED BY <1>0, <1>4, <2>1, Written
<1>6. op' \in [Procs -> Ops] /\ op'[p].pc = "drop" /\ \A q \in Procs \ {p} : op'[q] = op[q]
  BY <1>0, <1>1, <1>3 DEF Ops, OpPcs
<1>7. plain \in 1..Len(files) /\ files'[plain].recs = files[plain].recs BY <1>0, <1>1, <1>2, <1>4
<1>8. TypeOK' BY <1>0, <1>3, <1>5, <1>6 DEF TypeOK
<1>9. MaterializeOK(p)' BY <1>2, <1>3, <1>6, <1>7 DEF MaterializeOK, Safe
<1>10. Exists' /\ WorkerOK' BY <1>0, <1>2, <1>3 DEF Exists, WorkerOK
<1>11. Kept' BY <1>2, <1>3, <1>7 DEF Kept, OnDisk, Safe
<1>12. ReadersInv' BY <1>0, <1>2, <1>3, ReadersStay
<1>13. Materializing(p) BY <1>2 DEF Materializing
<1> QED BY <1>6, <1>8, <1>9, <1>10, <1>11, <1>12, <1>13, OthersIdle DEF IInv, FormsInv

LEMMA DropStep ==
    ASSUME IInv, ~Racing, NEW p \in Procs, DropCompressed(p)
    PROVE  IInv'
<1>0. /\ TypeOK /\ Exists /\ MaterializeOK(p) /\ WorkerOK /\ ReadersInv
      /\ op \in [Procs -> Ops] /\ op[p] \in Ops
  BY DEF IInv, FormsInv, TypeOK
<1>1. /\ op[p].pc = "drop" /\ plain # 0 /\ zst # NoFile /\ worker.pc \in {"idle", "exists"}
      /\ Safe \subseteq files[plain].recs
  BY <1>0 DEF DropCompressed, MaterializeOK
<1>2. /\ zst' = NoFile /\ Moved /\ op' = [op EXCEPT ![p] = [op[p] EXCEPT !.pc = "open"]]
      /\ UNCHANGED <<now, files, plain, handle, worker, acked, late, runs, reopens, forks>>
  BY <1>1 DEF DropCompressed, Goto, Continue, counters
<1>3. op' \in [Procs -> Ops] /\ op'[p].pc = "open" /\ \A q \in Procs \ {p} : op'[q] = op[q]
  BY <1>0, <1>2 DEF Ops, OpPcs
<1>4. ReadersInv' /\ reader' \in [Readers -> ReaderStates] BY <1>0, <1>2, ReadersMove
<1>5. TypeOK' BY <1>0, <1>2, <1>3, <1>4 DEF TypeOK
<1>6. MaterializeOK(p)' BY <1>3 DEF MaterializeOK
<1>7. Exists' /\ WorkerOK' BY <1>0, <1>1, <1>2 DEF Exists, WorkerOK
<1>8. Kept' BY <1>1, <1>2 DEF Kept, OnDisk, Safe
<1>9. Materializing(p) BY <1>1 DEF Materializing
<1> QED BY <1>3, <1>4, <1>5, <1>6, <1>7, <1>8, <1>9, OthersIdle DEF IInv, FormsInv

\* A process that finds no file opens none, or makes a new one; the worker is at neither.
LEMMA OpenStep ==
    ASSUME IInv, ~Racing, NEW p \in Procs, Open(p)
    PROVE  IInv'
<1>0. /\ TypeOK /\ Exists /\ Kept /\ WorkerOK /\ ReadersInv
      /\ op \in [Procs -> Ops] /\ handle \in [Procs -> 0..Len(files)] /\ now \in Nat
      /\ files \in Seq(Files) /\ plain \in 0..Len(files)
  BY DEF IInv, FormsInv, TypeOK
<1>1. op[p] \in Ops /\ Len(files) \in Nat BY <1>0, OpParts
<1>2. /\ op' \in [Procs -> Ops] /\ op'[p].pc \in {"touch", "idle"}
      /\ \A q \in Procs \ {p} : op'[q] = op[q]
  <2>1. op' \in {[op EXCEPT ![p] = NoOp], [op EXCEPT ![p] = [op[p] EXCEPT !.pc = "touch"]]}
    BY DEF Open, Done, Goto, Continue
  <2>2. CASE op' = [op EXCEPT ![p] = NoOp] BY <1>0, <2>2, IdleOp
  <2>3. CASE op' = [op EXCEPT ![p] = [op[p] EXCEPT !.pc = "touch"]]
    BY <1>0, <1>1, <2>3 DEF Ops, OpPcs
  <2> QED BY <2>1, <2>2, <2>3
<1>3. /\ UNCHANGED <<now, zst, worker, reader, acked, late, runs, reopens, forks>>
      /\ handle' = handle \/ handle' = [handle EXCEPT ![p] = plain']
  BY DEF Open, counters
<1>4. MaterializeOK(p)' BY <1>2 DEF MaterializeOK
<1>5. CASE files' = files /\ plain' = plain
  <2>1. handle' \in [Procs -> 0..Len(files)] BY <1>0, <1>3, <1>5
  <2>2. TypeOK' BY <1>0, <1>2, <1>3, <1>5, <2>1 DEF TypeOK
  <2>3. Exists' /\ WorkerOK' /\ Kept'
    BY <1>0, <1>3, <1>5 DEF Exists, WorkerOK, Kept, OnDisk, Safe
  <2>4. ReadersInv' BY <1>0, <1>3, <1>5, ReadersStay
  <2>5. ASSUME NEW q \in Procs, q # p PROVE MaterializeOK(q)'
    <3>1. op'[q] = op[q] /\ MaterializeOK(q) BY <1>2, <2>5 DEF IInv, FormsInv
    <3> QED BY <1>3, <1>5, <3>1 DEF MaterializeOK, Safe
  <2> QED BY <1>4, <2>2, <2>3, <2>4, <2>5 DEF IInv, FormsInv
<1>6. CASE /\ plain = 0 /\ files' = Append(files, [recs |-> {}, mtime |-> now]) /\ plain' = Len(files')
           /\ op[p].pc = "open" /\ op[p].kind = "reopen"
  <2> DEFINE f == [recs |-> {}, mtime |-> now]
             n == Len(files) + 1
  <2>1. f \in Files BY <1>0 DEF Files
  <2>2. /\ Append(files, f) \in Seq(Files) /\ Len(Append(files, f)) = n
    BY <1>0, <2>1, Added
  <2>3. files' \in Seq(Files) /\ Len(files') = n /\ plain' = n /\ n \in Nat /\ n # 0
    BY <1>1, <1>6, <2>2
  <2>4. handle' \in [Procs -> 0..n]
    <3>1. handle \in [Procs -> 0..n] BY <1>0, <1>1
    <3> HIDE DEF n
    <3> QED BY <1>3, <2>3, <3>1
  <2>5. plain' \in 0..Len(files') /\ handle' \in [Procs -> 0..Len(files')]
    <3> HIDE DEF n
    <3> QED BY <2>3, <2>4
  <2>6. TypeOK' BY <1>0, <1>2, <1>3, <2>3, <2>5 DEF TypeOK
  <2>7. worker.pc = "idle" /\ zst # NoFile BY <1>0, <1>6 DEF Exists
  <2>8. Exists' /\ WorkerOK' BY <1>3, <2>3, <2>7 DEF Exists, WorkerOK
  <2>9. Safe \subseteq zst.recs BY <1>0, <1>6, <2>7 DEF Kept, OnDisk, Safe
  <2>10. Kept' BY <1>3, <2>7, <2>9 DEF Kept, OnDisk, Safe
  <2>11. ReadersInv' BY <1>0, <1>3, <1>6, <2>7, ReadersStay
  <2>12. ASSUME NEW q \in Procs, q # p PROVE MaterializeOK(q)'
    <3>1. op'[q] = op[q] /\ ~Materializing(q) BY <1>2, <1>6, <2>12 DEF Racing
    <3> QED BY <3>1 DEF Materializing, MaterializeOK
  <2> QED BY <1>4, <2>6, <2>8, <2>10, <2>11, <2>12 DEF IInv, FormsInv
<1> QED BY <1>5, <1>6 DEF Open

\* A file is written to, or made to look new: nothing of it goes, and a worker that looks
\* at it again finds the modified time changed.
LEMMA WriteStep ==
    ASSUME IInv, ~Racing, NEW p \in Procs, Touch(p) \/ \E r \in Records : AppendLine(p, r)
    PROVE  IInv'
<1>0. /\ TypeOK /\ Exists /\ Kept /\ WorkerOK /\ ReadersInv
      /\ op \in [Procs -> Ops] /\ handle \in [Procs -> 0..Len(files)] /\ now \in Nat
      /\ files \in Seq(Files) /\ plain \in 0..Len(files) /\ worker \in Workers
      /\ acked \subseteq AllRecords /\ late \subseteq AllRecords
  BY DEF IInv, FormsInv, TypeOK
<1>1. op[p] \in Ops /\ Len(files) \in Nat /\ DOMAIN files = 1..Len(files) BY <1>0, OpParts, LenProperties
<1>2. PICK more \in SUBSET Records :
        /\ files' = [files EXCEPT ![handle[p]] = [recs |-> @.recs \cup more, mtime |-> now]]
        /\ acked' = acked \cup more
        /\ late' = late \/ late' = late \cup more
        /\ more # {} /\ (handle[p] # plain \/ worker.pc = "remove") => late' = late \cup more
  <2>1. CASE Touch(p)
    <3>1. files' = [files EXCEPT ![handle[p]].mtime = now] /\ acked' = acked /\ late' = late
      BY <2>1 DEF Touch
    <3>2. \A i \in 1..Len(files) :
            [files[i] EXCEPT !.mtime = now] = [recs |-> files[i].recs \cup {}, mtime |-> now]
      BY <1>0, FileParts, SMTT(30) DEF Files
    <3>3. files' = [files EXCEPT ![handle[p]] = [recs |-> @.recs \cup {}, mtime |-> now]]
      BY <1>1, <3>1, <3>2
    <3> QED BY <3>1, <3>3
  <2>2. CASE \E r \in Records : AppendLine(p, r)
    <3>1. PICK r \in Records : AppendLine(p, r) BY <2>2
    <3> QED BY <3>1 DEF AppendLine
  <2> QED BY <2>1, <2>2
<1>3. UNCHANGED <<now, plain, zst, handle, worker, reader, runs, reopens, forks>>
  BY DEF Touch, AppendLine, counters
<1>4. op' \in [Procs -> Ops] /\ op'[p].pc = "idle" /\ \A q \in Procs \ {p} : op'[q] = op[q]
  <2>1. CASE Touch(p) BY <1>0, <2>1, IdleOp DEF Touch, Done, Continue
  <2>2. CASE \E r \in Records : AppendLine(p, r) BY <1>0, <2>2, IdleOp DEF AppendLine, opVars
  <2> QED BY <2>1, <2>2
<1>5. \A i \in 1..Len(files) :
        /\ files'[i] \in Files /\ files[i].recs \subseteq files'[i].recs
        /\ files'[i] # files[i] => i = handle[p]
        /\ i = handle[p] => more \subseteq files'[i].recs /\ files'[i].mtime = now
  <2> SUFFICES ASSUME NEW i \in 1..Len(files)
               PROVE  /\ files'[i] \in Files /\ files[i].recs \subseteq files'[i].recs
                      /\ files'[i] # files[i] => i = handle[p]
                      /\ i = handle[p] => more \subseteq files'[i].recs /\ files'[i].mtime = now
    OBVIOUS
  <2>1. files[i] \in Files /\ files[i].recs \subseteq AllRecords BY <1>0, FileParts
  <2>2. CASE i = handle[p]
    <3>1. files'[i] = [recs |-> files[i].recs \cup more, mtime |-> now] BY <1>1, <1>2, <2>2
    <3>2. files'[i] \in Files BY <1>0, <2>1, <3>1 DEF Files, AllRecords
    <3> QED BY <2>2, <3>1, <3>2
  <2>3. CASE i # handle[p]
    <3>1. files'[i] = files[i] BY <1>1, <1>2, <2>3
    <3> QED BY <2>1, <2>3, <3>1
  <2> QED BY <2>2, <2>3
<1>6. files' \in Seq(Files) /\ Len(files') = Len(files)
  <2>1. DOMAIN files' = DOMAIN files /\ files' = [i \in DOMAIN files' |-> files'[i]] BY <1>2
  <2> QED BY <1>0, <1>5, <2>1, Written
<1>7. TypeOK'
  <2>1. acked' \subseteq AllRecords /\ late' \subseteq AllRecords BY <1>0, <1>2 DEF AllRecords
  <2> QED BY <1>0, <1>3, <1>4, <1>6, <2>1 DEF TypeOK
<1>8. MaterializeOK(p)' BY <1>4 DEF MaterializeOK
<1>9. Exists' BY <1>0, <1>3 DEF Exists
<1>10. ReadersInv' BY <1>0, <1>3, ReadersStay
<1>11. Safe' \subseteq Safe \cup more BY <1>2 DEF Safe
<1>12. plain # 0 => plain \in 1..Len(files) BY <1>0, <1>1
<1>13. handle[p] # plain \/ worker.pc = "remove" => Safe' \subseteq Safe BY <1>2 DEF Safe
<1>14. plain # 0 /\ Safe \subseteq files[plain].recs => Safe' \subseteq files'[plain].recs
  <2> SUFFICES ASSUME plain # 0, Safe \subseteq files[plain].recs
               PROVE  Safe' \subseteq files'[plain].recs
    OBVIOUS
  <2>1. CASE handle[p] = plain BY <1>5, <1>11, <1>12, <2>1
  <2>2. CASE handle[p] # plain BY <1>5, <1>12, <1>13, <2>2
  <2> QED BY <2>1, <2>2
<1>15. Kept'
  <2>1. CASE handle[p] = plain /\ plain # 0
    BY <1>0, <1>3, <1>5, <1>11, <1>12, <2>1 DEF Kept, OnDisk, Safe
  <2>2. CASE handle[p] # plain
    BY <1>0, <1>3, <1>5, <1>12, <1>13, <2>2 DEF Kept, OnDisk, Safe
  <2>3. CASE handle[p] = 0 /\ plain = 0
    <3>1. acked' = acked /\ late' = late
      BY <2>3, <1>0, IdleOp DEF AppendLine, Touch
    <3> QED BY <1>0, <1>3, <2>3, <3>1 DEF Kept, OnDisk, Safe
  <2> QED BY <2>1, <2>2, <2>3
<1>16. WorkerOK'
  <2>1. worker.pc # "idle" => plain \in 1..Len(files) /\ plain # 0 /\ worker.mtime < now
    BY <1>0, <1>12 DEF Exists, WorkerOK
  <2>2. worker.pc \in {"encode", "check", "publish", "recheck"} => Safe' \subseteq files'[plain].recs
    BY <1>0, <1>14, <2>1 DEF WorkerOK
  <2>3. worker.pc \in {"check", "publish", "recheck"} /\ files'[plain].mtime = worker.mtime
        => files'[plain].recs = worker.temp
    <3> SUFFICES ASSUME worker.pc \in {"check", "publish", "recheck"},
                        files'[plain].mtime = worker.mtime
                 PROVE  files'[plain].recs = worker.temp
      OBVIOUS
    <3>1. plain \in 1..Len(files) /\ worker.mtime < now /\ worker.mtime \in Nat
      BY <1>0, <2>1 DEF Workers
    <3>2. plain # handle[p] BY <1>0, <1>5, <3>1
    <3>3. files'[plain] = files[plain] BY <1>5, <3>1, <3>2
    <3> QED BY <1>0, <3>3 DEF WorkerOK
  <2>4. worker.pc = "remove" => Safe' \subseteq zst.recs BY <1>0, <1>13 DEF WorkerOK
  <2> QED BY <1>0, <1>3, <2>2, <2>3, <2>4 DEF WorkerOK
<1>17. ASSUME NEW q \in Procs, q # p PROVE MaterializeOK(q)'
  <2>1. op'[q] = op[q] /\ MaterializeOK(q) BY <1>4, <1>17 DEF IInv, FormsInv
  <2>2. plain = 0 => Safe' \subseteq Safe
    <3>1. CASE handle[p] = 0
      <4>1. acked' = acked /\ late' = late BY <3>1, <1>0, IdleOp DEF AppendLine, Touch
      <4> QED BY <4>1 DEF Safe
    <3>2. CASE handle[p] # 0 BY <1>13, <3>2
    <3> QED BY <3>1, <3>2
  <2> QED BY <1>3, <1>14, <2>1, <2>2 DEF MaterializeOK
<1> QED BY <1>7, <1>8, <1>9, <1>10, <1>15, <1>16, <1>17 DEF IInv, FormsInv

-----------------------------------------------------------------------------
(* The worker *)

LEMMA IdleWorker == WorkerIdle \in Workers /\ WorkerIdle.pc = "idle"
BY DEF WorkerIdle, Workers, WorkerPcs

LEMMA LengthType ==
    ASSUME TypeOK, NEW i \in 1..Len(files)
    PROVE  Len64(i) \in Nat
<1>1. files[i].recs \subseteq AllRecords BY FileParts
<1>2. IsFiniteSet(Records) /\ IsFiniteSet({Base}) BY FS_Singleton
<1>3. IsFiniteSet(AllRecords) BY <1>2, FS_Union DEF AllRecords
<1>4. IsFiniteSet(files[i].recs) BY <1>1, <1>3, FS_Subset
<1> QED BY <1>4, FS_CardinalityType DEF Len64

\* The worker moves on and the files stay as they are.
LEMMA OnlyWorker ==
    ASSUME IInv, NEW w \in Workers, worker' = w,
           UNCHANGED <<now, files, plain, zst, op, handle, reader, acked, late, reopens, forks>>,
           runs' \in Nat, WorkerOK',
           w.pc # "idle" => plain # 0,
           w.pc \in {"idle", "exists"} \/ worker.pc \notin {"idle", "exists"} \/ zst = NoFile
    PROVE  IInv'
<1>1. TypeOK' BY DEF IInv, TypeOK
<1>2. ReadersInv' BY ReadersStay DEF IInv
<1>3. Exists' /\ Kept' BY DEF IInv, FormsInv, Exists, Kept, OnDisk, Safe
<1>4. ASSUME NEW q \in Procs PROVE MaterializeOK(q)'
  <2>1. MaterializeOK(q) BY DEF IInv, FormsInv
  <2> QED BY <2>1 DEF MaterializeOK, Safe
<1> QED BY <1>1, <1>2, <1>3, <1>4 DEF IInv, FormsInv

\* The worker stops.
LEMMA StopStep ==
    ASSUME IInv, worker' = WorkerIdle,
           UNCHANGED <<now, files, plain, zst, op, handle, reader, acked, late, counters>>
    PROVE  IInv'
<1>1. WorkerOK' BY IdleWorker DEF WorkerOK
<1>2. runs' \in Nat /\ reopens' = reopens /\ forks' = forks BY DEF IInv, TypeOK, counters
<1> QED BY <1>1, <1>2, IdleWorker, OnlyWorker

\* A write after the worker noted the modified time would have changed it.
LEMMA LookStep ==
    ASSUME IInv, Inspect \/ SkipCompressed \/ Encode \/ Check
    PROVE  IInv'
<1>0. /\ TypeOK /\ Exists /\ Kept /\ WorkerOK
      /\ files \in Seq(Files) /\ plain \in 0..Len(files) /\ worker \in Workers /\ now \in Nat
      /\ runs \in Nat
  BY DEF IInv, FormsInv, TypeOK
<1>1. Len(files) \in Nat /\ (plain # 0 => plain \in 1..Len(files)) BY <1>0, LenProperties
<1>2. UNCHANGED <<now, files, plain, zst, op, handle, reader, acked, late, reopens, forks>>
  BY DEF Inspect, SkipCompressed, Encode, Check, counters, opVars
<1>3. runs' \in Nat BY <1>0 DEF Inspect, SkipCompressed, Encode, Check, counters, opVars
<1>4. CASE Inspect
  <2> DEFINE w == [worker EXCEPT !.pc = "exists", !.len = Len64(plain), !.mtime = files[plain].mtime]
  <2>1. plain # 0 /\ files[plain].mtime < now /\ worker' = w BY <1>4 DEF Inspect
  <2>2. Len64(plain) \in Nat /\ files[plain].mtime \in Nat
    BY <1>0, <1>1, <2>1, LengthType, FileParts
  <2>3. w \in Workers /\ w.pc = "exists" /\ w.mtime = files[plain].mtime
    BY <1>0, <2>2 DEF Workers, WorkerPcs
  <2> HIDE DEF w
  <2>4. WorkerOK' BY <1>2, <2>1, <2>3 DEF WorkerOK
  <2> QED BY <1>2, <1>3, <2>1, <2>3, <2>4, OnlyWorker
<1>5. CASE SkipCompressed
  <2>1. CASE zst = NoFile
    <3> DEFINE w == [worker EXCEPT !.pc = "encode"]
    <3>1. worker' = w /\ worker.pc = "exists" BY <1>5, <2>1 DEF SkipCompressed
    <3>2. w \in Workers /\ w.pc = "encode" /\ w.mtime = worker.mtime
      BY <1>0 DEF Workers, WorkerPcs
    <3>3. plain # 0 /\ worker.mtime < now BY <1>0, <3>1 DEF Exists, WorkerOK
    <3>4. Safe \subseteq files[plain].recs BY <1>0, <2>1, <3>3 DEF Kept, OnDisk, Safe
    <3> HIDE DEF w
    <3>5. WorkerOK' BY <1>2, <3>1, <3>2, <3>3, <3>4 DEF WorkerOK, Safe
    <3> QED BY <1>2, <1>3, <2>1, <3>1, <3>2, <3>3, <3>5, OnlyWorker
  <2>2. CASE zst # NoFile BY <1>5, <2>2, StopStep DEF SkipCompressed, opVars
  <2> QED BY <2>1, <2>2
<1>6. CASE Encode
  <2>1. worker.pc = "encode" BY <1>6 DEF Encode
  <2>2. plain # 0 /\ worker.mtime < now /\ Safe \subseteq files[plain].recs
    BY <1>0, <2>1 DEF Exists, WorkerOK
  <2> DEFINE w == [worker EXCEPT !.pc = "check", !.temp = files[plain].recs]
  <2>3. worker' = w BY <1>6, <2>2 DEF Encode
  <2>4. files[plain].recs \subseteq AllRecords BY <1>0, <1>1, <2>2, FileParts
  <2>5. w \in Workers /\ w.pc = "check" /\ w.mtime = worker.mtime /\ w.temp = files[plain].recs
    BY <1>0, <2>4 DEF Workers, WorkerPcs
  <2> HIDE DEF w
  <2>6. WorkerOK' BY <1>2, <2>2, <2>3, <2>5 DEF WorkerOK, Safe
  <2> QED BY <1>2, <1>3, <2>1, <2>2, <2>3, <2>5, <2>6, OnlyWorker
<1>7. CASE Check
  <2>1. worker.pc = "check" BY <1>7 DEF Check
  <2>2. plain # 0 BY <1>0, <2>1 DEF Exists
  <2>3. CASE Same
    <3> DEFINE w == [worker EXCEPT !.pc = "publish"]
    <3>1. worker' = w BY <1>7, <2>3 DEF Check
    <3>2. w \in Workers /\ w.pc = "publish" /\ w.mtime = worker.mtime /\ w.temp = worker.temp
      BY <1>0 DEF Workers, WorkerPcs
    <3> HIDE DEF w
    <3>3. WorkerOK' BY <1>0, <1>2, <2>1, <3>1, <3>2 DEF WorkerOK, Safe
    <3> QED BY <1>2, <1>3, <2>1, <2>2, <3>1, <3>2, <3>3, OnlyWorker
  <2>4. CASE ~Same BY <1>7, <2>4, StopStep DEF Check, opVars
  <2> QED BY <2>3, <2>4
<1> QED BY <1>4, <1>5, <1>6, <1>7

LEMMA PublishStep ==
    ASSUME IInv, Publish
    PROVE  IInv'
<1>0. /\ TypeOK /\ Exists /\ Kept /\ WorkerOK /\ ReadersInv /\ worker \in Workers
      /\ \A p \in Procs : MaterializeOK(p)
  BY DEF IInv, FormsInv, TypeOK
<1>1. worker.pc = "publish" BY DEF Publish
<1>2. plain # 0 /\ worker.mtime < now /\ Safe \subseteq files[plain].recs
  BY <1>0, <1>1 DEF Exists, WorkerOK
<1>3. CASE zst = NoFile
  <2> DEFINE f == [recs |-> worker.temp, mtime |-> worker.mtime]
             w == [worker EXCEPT !.pc = "recheck"]
  <2>1. /\ zst' = f /\ worker' = w
        /\ UNCHANGED <<now, files, plain, op, handle, reader, acked, late, runs, reopens, forks>>
    BY <1>3 DEF Publish, counters, opVars
  <2>2. w \in Workers /\ w.pc = "recheck" /\ w.mtime = worker.mtime /\ w.temp = worker.temp
    BY <1>0 DEF Workers, WorkerPcs
  <2>3. f \in Files /\ f.recs = worker.temp BY <1>0 DEF Workers, Files
  <2>4. f # NoFile BY <2>3, SomeFile
  <2> HIDE DEF f, w
  <2>5. TypeOK' BY <1>0, <2>1, <2>2, <2>3 DEF TypeOK
  <2>6. WorkerOK' BY <1>0, <1>1, <2>1, <2>2, <2>3, <2>4 DEF WorkerOK, Safe
  <2>7. Exists' /\ Kept' BY <1>2, <2>1 DEF Exists, Kept, OnDisk, Safe
  <2>8. ASSUME NEW q \in Procs PROVE MaterializeOK(q)'
    <3>1. MaterializeOK(q) BY <1>0
    <3> QED BY <1>3, <2>1, <2>4, <3>1 DEF MaterializeOK, Safe
  <2>9. ReadersInv' BY <1>0, <1>3, <2>1, ReadersStay
  <2> QED BY <2>5, <2>6, <2>7, <2>8, <2>9 DEF IInv, FormsInv
<1>4. CASE zst # NoFile BY <1>4, StopStep DEF Publish, opVars
<1> QED BY <1>3, <1>4

\* The compressed file of a rollout that has changed goes, and the plain one has it all.
LEMMA RecheckStep ==
    ASSUME IInv, Recheck
    PROVE  IInv'
<1>0. /\ TypeOK /\ Exists /\ Kept /\ WorkerOK /\ ReadersInv /\ worker \in Workers
      /\ \A p \in Procs : MaterializeOK(p)
  BY DEF IInv, FormsInv, TypeOK
<1>1. worker.pc = "recheck" BY DEF Recheck
<1>2. /\ plain # 0 /\ worker.mtime < now /\ Safe \subseteq files[plain].recs
      /\ zst # NoFile /\ zst.recs = worker.temp
      /\ files[plain].mtime = worker.mtime => files[plain].recs = worker.temp
  BY <1>0, <1>1 DEF Exists, WorkerOK
<1>3. CASE Same
  <2> DEFINE w == [worker EXCEPT !.pc = "remove"]
  <2>1. /\ worker' = w /\ runs' \in Nat
        /\ UNCHANGED <<now, files, plain, zst, op, handle, reader, acked, late, reopens, forks>>
    BY <1>0, <1>3 DEF Recheck, counters, opVars, TypeOK
  <2>2. w \in Workers /\ w.pc = "remove" /\ w.mtime = worker.mtime /\ w.temp = worker.temp
    BY <1>0 DEF Workers, WorkerPcs
  <2>3. Safe \subseteq zst.recs BY <1>2, <1>3 DEF Same
  <2> HIDE DEF w
  <2>4. WorkerOK' BY <1>2, <2>1, <2>2, <2>3 DEF WorkerOK, Safe
  <2> QED BY <1>1, <1>2, <2>1, <2>2, <2>4, OnlyWorker
<1>4. CASE ~Same
  <2>1. /\ worker' = WorkerIdle /\ zst' = NoFile /\ Moved
        /\ UNCHANGED <<now, files, plain, op, handle, acked, late, runs, reopens, forks>>
    BY <1>4 DEF Recheck, counters, opVars
  <2>2. ReadersInv' /\ reader' \in [Readers -> ReaderStates] BY <1>0, <2>1, ReadersMove
  <2>3. TypeOK' BY <1>0, <2>1, <2>2, IdleWorker DEF TypeOK
  <2>4. Exists' /\ WorkerOK' /\ Kept'
    BY <1>2, <2>1, IdleWorker DEF Exists, WorkerOK, Kept, OnDisk, Safe
  <2>5. ASSUME NEW q \in Procs PROVE MaterializeOK(q)'
    <3>1. MaterializeOK(q) BY <1>0
    <3>2. op[q].pc \notin {"decode", "link", "times", "drop", "lookzst"}
      BY <1>1, <1>2, <3>1 DEF MaterializeOK
    <3> QED BY <2>1, <3>2 DEF MaterializeOK
  <2> QED BY <2>2, <2>3, <2>4, <2>5 DEF IInv, FormsInv
<1> QED BY <1>3, <1>4

\* The plain file goes, and the compressed one has it all.
LEMMA RemoveStep ==
    ASSUME IInv, RemovePlain
    PROVE  IInv'
<1>0. /\ TypeOK /\ Exists /\ Kept /\ WorkerOK /\ ReadersInv
      /\ \A p \in Procs : MaterializeOK(p)
      /\ files \in Seq(Files)
  BY DEF IInv, FormsInv, TypeOK
<1>1. worker.pc = "remove" BY DEF RemovePlain
<1>2. plain # 0 /\ zst # NoFile /\ Safe \subseteq zst.recs BY <1>0, <1>1 DEF Exists, WorkerOK
<1>3. /\ worker' = WorkerIdle /\ plain' = 0 /\ Moved
      /\ UNCHANGED <<now, files, zst, op, handle, acked, late, runs, reopens, forks>>
  BY DEF RemovePlain, counters, opVars
<1>4. ReadersInv' /\ reader' \in [Readers -> ReaderStates] BY <1>0, <1>3, ReadersMove
<1>5. plain' \in 0..Len(files') BY <1>0, <1>3, LenProperties
<1>6. TypeOK' BY <1>0, <1>3, <1>4, <1>5, IdleWorker DEF TypeOK
<1>7. Exists' /\ WorkerOK' /\ Kept'
  BY <1>2, <1>3, IdleWorker DEF Exists, WorkerOK, Kept, OnDisk, Safe
<1>8. ASSUME NEW q \in Procs PROVE MaterializeOK(q)'
  <2>1. MaterializeOK(q) BY <1>0
  <2>2. op[q].pc \notin {"times", "drop"} BY <1>1, <2>1 DEF MaterializeOK
  <2> QED BY <1>3, <2>1, <2>2 DEF MaterializeOK, Safe
<1> QED BY <1>4, <1>6, <1>7, <1>8 DEF IInv, FormsInv

\* No call takes a week.
LEMMA WeekStep ==
    ASSUME IInv, WeekPasses
    PROVE  IInv'
<1>0. /\ TypeOK /\ Exists /\ Kept /\ ReadersInv /\ (\A p \in Procs : MaterializeOK(p))
      /\ now \in Nat
  BY DEF IInv, FormsInv, TypeOK
<1>1. /\ worker = WorkerIdle /\ now' = now + 1
      /\ UNCHANGED <<files, plain, zst, op, handle, worker, reader, acked, late>>
      /\ UNCHANGED <<runs, reopens, forks>>
  BY DEF WeekPasses, counters, opVars
<1>2. TypeOK' BY <1>0, <1>1 DEF TypeOK
<1>3. WorkerOK' BY <1>1, IdleWorker DEF WorkerOK
<1>4. Exists' /\ Kept' BY <1>0, <1>1 DEF Exists, Kept, OnDisk, Safe
<1>5. ASSUME NEW q \in Procs PROVE MaterializeOK(q)'
  <2>1. MaterializeOK(q) BY <1>0
  <2> QED BY <1>1, <2>1 DEF MaterializeOK, Safe
<1>6. ReadersInv' BY <1>0, <1>1, ReadersStay
<1> QED BY <1>2, <1>3, <1>4, <1>5, <1>6 DEF IInv, FormsInv

-----------------------------------------------------------------------------
(* The theorems *)

LEMMA Initially ==
    ASSUME Init
    PROVE  IInv
<1> DEFINE f == [recs |-> {Base}, mtime |-> 0]
<1>1. f \in Files /\ f.recs = {Base} BY DEF Files, AllRecords
<1>2. files = <<f>> /\ Len(files) = 1 /\ files[1] = f /\ files \in Seq(Files) BY <1>1 DEF Init
<1>3. \A r \in Readers : reader[r] = ReaderIdle /\ reader[r] \in ReaderStates
  BY DEF Init, ReaderIdle, ReaderStates, ReaderPcs
<1>4. TypeOK BY <1>2, <1>3, IdleOp, IdleWorker DEF Init, TypeOK, AllRecords
<1>5. Exists /\ WorkerOK BY IdleWorker DEF Init, Exists, WorkerOK
<1>6. \A p \in Procs : MaterializeOK(p) BY IdleOp DEF Init, MaterializeOK
<1>7. Kept BY <1>1, <1>2 DEF Init, Kept, OnDisk, Safe
<1>8. ReadersInv BY <1>3 DEF ReadersInv, ReaderOK, ReaderIdle
<1> QED BY <1>4, <1>5, <1>6, <1>7, <1>8 DEF IInv, FormsInv

LEMMA Inductive ==
    ASSUME IInv, ~Racing, [Next]_vars
    PROVE  IInv'
<1>1. ASSUME NEW p \in Procs, Resume(p) \/ Fork(p) \/ Reopen(p) \/ Materialize(p) \/ Open(p)
                              \/ Touch(p) \/ Leave(p) \/ \E r \in Records : AppendLine(p, r)
      PROVE  IInv'
  BY <1>1, OpStep, LinkStep, SetTimesStep, DropStep, OpenStep, WriteStep DEF Materialize
<1>2. ASSUME NEW r \in Readers, Read(r) PROVE IInv'
  <2>1. ReadersInv' /\ reader' \in [Readers -> ReaderStates] BY <1>2, ReadStep
  <2>2. /\ UNCHANGED <<now, files, plain, zst, op, handle, worker, acked, late>>
        /\ UNCHANGED <<runs, reopens, forks>>
    BY <1>2 DEF Read, ReaderStart, StatPlain, StatCompressed, OpenFound, counters, opVars
  <2>3. TypeOK' BY <2>1, <2>2 DEF IInv, TypeOK
  <2>4. Exists' /\ WorkerOK' /\ Kept'
    BY <2>2 DEF IInv, FormsInv, Exists, WorkerOK, Kept, OnDisk, Safe
  <2>5. ASSUME NEW q \in Procs PROVE MaterializeOK(q)'
    <3>1. MaterializeOK(q) BY DEF IInv, FormsInv
    <3> QED BY <2>2, <3>1 DEF MaterializeOK, Safe
  <2> QED BY <2>1, <2>3, <2>4, <2>5 DEF IInv, FormsInv
<1>3. CASE Worker BY <1>3, LookStep, PublishStep, RecheckStep, RemoveStep DEF Worker
<1>4. CASE WorkerEnds BY <1>4, StopStep DEF WorkerEnds, opVars
<1>5. CASE WeekPasses BY <1>5, WeekStep
<1>6. CASE UNCHANGED vars
  <2>1. /\ UNCHANGED <<now, files, plain, zst, op, handle, worker, reader, acked, late>>
        /\ UNCHANGED <<runs, reopens, forks>>
    BY <1>6 DEF vars, counters, opVars
  <2>2. WorkerOK' /\ runs' \in Nat BY <2>1 DEF IInv, FormsInv, TypeOK, WorkerOK, Safe
  <2>3. worker \in Workers /\ (worker.pc # "idle" => plain # 0) BY DEF IInv, FormsInv, TypeOK, Exists
  <2> QED BY <2>1, <2>2, <2>3, OnlyWorker
<1> QED BY <1>1, <1>2, <1>3, <1>4, <1>5, <1>6 DEF Next

-----------------------------------------------------------------------------
(* Types, raced or not *)

LEMMA TypeOfOp ==
    ASSUME TypeOK, NEW p \in Procs,
           Resume(p) \/ Fork(p) \/ Reopen(p) \/ Materialize(p) \/ Open(p) \/ Touch(p) \/ Leave(p)
    PROVE  op' \in [Procs -> Ops]
<1>0. op[p] \in Ops /\ Len(files) \in Nat /\ op \in [Procs -> Ops] BY OpParts DEF TypeOK
<1>1. ASSUME NEW o \in Ops, Continue(p, o) PROVE op' \in [Procs -> Ops]
  BY <1>0, <1>1 DEF Continue
<1>2. ASSUME NEW pc \in OpPcs, Goto(p, pc) PROVE op' \in [Procs -> Ops]
  <2>1. [op[p] EXCEPT !.pc = pc] \in Ops BY <1>0 DEF Ops
  <2> QED BY <1>1, <1>2, <2>1 DEF Goto
<1>3. ASSUME Done(p) PROVE op' \in [Procs -> Ops] BY <1>1, <1>3, IdleOp DEF Done
<1>4. ASSUME NEW kind \in {"resume", "fork", "reopen"}, Start(p, kind) PROVE op' \in [Procs -> Ops]
  <2>1. [NoOp EXCEPT !.pc = "look", !.kind = kind, !.refresh = plain = 0] \in Ops
    BY DEF Ops, OpPcs, NoOp
  <2> QED BY <1>1, <1>4, <2>1 DEF Start
<1>5. CASE Resume(p) \/ Fork(p) \/ Reopen(p) BY <1>4, <1>5 DEF Resume, Fork, Reopen
<1>6. CASE LookPlain(p) \/ LookCompressed(p)
  BY <1>2, <1>6 DEF LookPlain, LookCompressed, OpPcs
<1>7. CASE Decode(p)
  <2>1. CASE zst = NoFile BY <1>3, <1>7, <2>1 DEF Decode
  <2>2. CASE zst # NoFile
    <3>1. zst.recs \in SUBSET AllRecords /\ zst.mtime \in Nat BY <2>2 DEF TypeOK, Files
    <3>2. [op[p] EXCEPT !.pc = "link", !.temp = zst.recs, !.mtime = zst.mtime] \in Ops
      BY <1>0, <3>1 DEF Ops, OpPcs
    <3> QED BY <1>1, <1>7, <2>2, <3>2 DEF Decode
  <2> QED BY <2>1, <2>2
<1>8. CASE Link(p)
  <2>1. CASE plain # 0 BY <1>2, <1>8, <2>1 DEF Link, OpPcs
  <2>2. CASE plain = 0
    <3>1. Len(files') \in Nat
      <4>1. files' = Append(files, [recs |-> op[p].temp, mtime |-> now]) BY <1>8, <2>2 DEF Link
      <4>2. [recs |-> op[p].temp, mtime |-> now] \in Files BY OpParts DEF Files, TypeOK
      <4> QED BY <1>0, <4>1, <4>2, Added
    <3>2. [op[p] EXCEPT !.pc = "times", !.inode = Len(files')] \in Ops
      BY <1>0, <3>1 DEF Ops, OpPcs
    <3> QED BY <1>1, <1>8, <2>2, <3>2 DEF Link
  <2> QED BY <2>1, <2>2
<1>9. CASE SetTimes(p) \/ DropCompressed(p)
  BY <1>2, <1>9 DEF SetTimes, DropCompressed, OpPcs
<1>10. CASE Open(p)
  <2>1. Done(p) \/ Goto(p, "touch") BY <1>10 DEF Open
  <2> QED BY <1>2, <1>3, <2>1 DEF OpPcs
<1>11. CASE Touch(p) \/ Leave(p) BY <1>3, <1>11 DEF Touch, Leave
<1> QED BY <1>5, <1>6, <1>7, <1>8, <1>9, <1>10, <1>11 DEF Materialize

\* What a process does to the files and its handle.
LEMMA TypeOfFiles ==
    ASSUME TypeOK, NEW p \in Procs,
           \/ Resume(p) \/ Fork(p) \/ Reopen(p) \/ Materialize(p) \/ Open(p) \/ Touch(p) \/ Leave(p)
           \/ \E r \in Records : AppendLine(p, r)
    PROVE  files' \in Seq(Files) /\ plain' \in 0..Len(files') /\ handle' \in [Procs -> 0..Len(files')]
<1>0. /\ files \in Seq(Files) /\ Len(files) \in Nat /\ DOMAIN files = 1..Len(files)
      /\ plain \in 0..Len(files) /\ handle \in [Procs -> 0..Len(files)] /\ now \in Nat
  BY OpParts, LenProperties DEF TypeOK
<1>1. ASSUME NEW f \in Files, files' = Append(files, f), plain' = Len(files'),
             handle' = handle \/ handle' = [handle EXCEPT ![p] = plain']
      PROVE  files' \in Seq(Files) /\ plain' \in 0..Len(files') /\ handle' \in [Procs -> 0..Len(files')]
  <2>1. files' \in Seq(Files) /\ Len(files') = Len(files) + 1 BY <1>1, Added
  <2>2. plain' \in 0..Len(files') BY <1>0, <1>1, <2>1
  <2>3. handle \in [Procs -> 0..Len(files')] BY <1>0, <2>1
  <2> QED BY <1>1, <2>1, <2>2, <2>3
<1>2. ASSUME plain' = plain, handle' = handle, DOMAIN files' = DOMAIN files,
             files' = [i \in DOMAIN files' |-> files'[i]], \A i \in 1..Len(files) : files'[i] \in Files
      PROVE  files' \in Seq(Files) /\ plain' \in 0..Len(files') /\ handle' \in [Procs -> 0..Len(files')]
  <2>1. files' \in Seq(Files) /\ Len(files') = Len(files) BY <1>2, Written
  <2> QED BY <1>0, <1>2, <2>1
<1>3. CASE Resume(p) \/ Fork(p) \/ Reopen(p) \/ LookPlain(p) \/ LookCompressed(p) \/ Decode(p)
           \/ DropCompressed(p) \/ Leave(p)
  <2>1. UNCHANGED <<files, plain>> /\ (handle' = handle \/ handle' = [handle EXCEPT ![p] = 0])
    BY <1>3 DEF Resume, Fork, Reopen, LookPlain, LookCompressed, Decode, DropCompressed, Leave
  <2> QED BY <1>0, <2>1
<1>4. CASE Link(p)
  <2>1. CASE plain = 0
    <3>1. [recs |-> op[p].temp, mtime |-> now] \in Files BY OpParts DEF Files, TypeOK
    <3> QED BY <1>1, <1>4, <2>1, <3>1 DEF Link
  <2>2. CASE plain # 0 BY <1>0, <1>4, <2>2 DEF Link
  <2> QED BY <2>1, <2>2
<1>5. CASE Open(p)
  <2>1. CASE plain = 0 /\ op[p].kind = "reopen"
    <3>1. [recs |-> {}, mtime |-> now] \in Files BY <1>0 DEF Files
    <3> QED BY <1>1, <1>5, <2>1, <3>1 DEF Open
  <2>2. CASE ~(plain = 0 /\ op[p].kind = "reopen")
    <3>1. UNCHANGED <<files, plain>> /\ (handle' = handle \/ handle' = [handle EXCEPT ![p] = plain])
      BY <1>5, <2>2 DEF Open
    <3> QED BY <1>0, <3>1
  <2> QED BY <2>1, <2>2
<1>6. \A i \in 1..Len(files) : \A m \in Nat : [files[i] EXCEPT !.mtime = m] \in Files
  BY FileParts, SMTT(30) DEF Files
<1>7. CASE SetTimes(p)
  <2>1. op[p].mtime \in Nat BY OpParts
  <2>2. \A i \in 1..Len(files) : files'[i] \in {files[i], [files[i] EXCEPT !.mtime = op[p].mtime]}
    BY <1>0, <1>7 DEF SetTimes
  <2>3. \A i \in 1..Len(files) : files'[i] \in Files BY <1>6, <2>1, <2>2, FileParts
  <2>4. plain' = plain /\ handle' = handle /\ DOMAIN files' = DOMAIN files
        /\ files' = [i \in DOMAIN files' |-> files'[i]]
    BY <1>7 DEF SetTimes
  <2> QED BY <1>2, <2>3, <2>4
<1>8. CASE Touch(p)
  <2>1. \A i \in 1..Len(files) : files'[i] \in {files[i], [files[i] EXCEPT !.mtime = now]}
    BY <1>0, <1>8 DEF Touch
  <2>2. \A i \in 1..Len(files) : files'[i] \in Files BY <1>0, <1>6, <2>1, FileParts
  <2>3. plain' = plain /\ handle' = handle /\ DOMAIN files' = DOMAIN files
        /\ files' = [i \in DOMAIN files' |-> files'[i]]
    BY <1>8 DEF Touch
  <2> QED BY <1>2, <2>2, <2>3
<1>9. ASSUME NEW r \in Records, AppendLine(p, r)
      PROVE  files' \in Seq(Files) /\ plain' \in 0..Len(files') /\ handle' \in [Procs -> 0..Len(files')]
  <2>1. \A i \in 1..Len(files) :
           files'[i] \in {files[i], [recs |-> files[i].recs \cup {r}, mtime |-> now]}
    BY <1>0, <1>9 DEF AppendLine
  <2>2. \A i \in 1..Len(files) : [recs |-> files[i].recs \cup {r}, mtime |-> now] \in Files
    BY <1>0, FileParts DEF Files, AllRecords
  <2>3. \A i \in 1..Len(files) : files'[i] \in Files BY <2>1, <2>2, FileParts
  <2>4. plain' = plain /\ handle' = handle /\ DOMAIN files' = DOMAIN files
        /\ files' = [i \in DOMAIN files' |-> files'[i]]
    BY <1>9 DEF AppendLine
  <2> QED BY <1>2, <2>3, <2>4
<1> QED BY <1>3, <1>4, <1>5, <1>7, <1>8, <1>9 DEF Materialize

LEMMA TypeOfMoved ==
    ASSUME TypeOK, Moved
    PROVE  reader' \in [Readers -> ReaderStates]
<1>1. \A r \in Readers : reader'[r] \in ReaderStates BY MovedParts
<1>2. reader' = [r \in Readers |-> reader'[r]] BY DEF Moved
<1> QED BY <1>1, <1>2

LEMMA TypeStep ==
    ASSUME TypeOK, [Next]_vars
    PROVE  TypeOK'
<1>0. /\ now \in Nat /\ files \in Seq(Files) /\ Len(files) \in Nat /\ plain \in 0..Len(files)
      /\ worker \in Workers /\ reader \in [Readers -> ReaderStates]
      /\ runs \in Nat /\ reopens \in Nat /\ forks \in Nat
  BY LenProperties DEF TypeOK
<1>1. ASSUME NEW p \in Procs, Resume(p) \/ Fork(p) \/ Reopen(p) \/ Materialize(p) \/ Open(p)
                              \/ Touch(p) \/ Leave(p)
      PROVE  TypeOK'
  <2>1. op' \in [Procs -> Ops] BY <1>1, TypeOfOp
  <2>2. files' \in Seq(Files) /\ plain' \in 0..Len(files') /\ handle' \in [Procs -> 0..Len(files')]
    BY <1>1, TypeOfFiles
  <2>3. reader' \in [Readers -> ReaderStates] /\ zst' \in Files \cup {NoFile}
    <3>1. UNCHANGED <<reader, zst>> \/ (zst' = NoFile /\ (Moved \/ UNCHANGED reader))
      BY <1>1 DEF Resume, Fork, Reopen, Materialize, LookPlain, LookCompressed, Decode, Link, SetTimes,
                  DropCompressed, Open, Touch, Leave
    <3> QED BY <1>0, <3>1, TypeOfMoved DEF TypeOK
  <2>4. UNCHANGED <<now, worker, acked, late, runs>> /\ reopens' \in Nat /\ forks' \in Nat
    BY <1>0, <1>1 DEF Resume, Fork, Reopen, Materialize, LookPlain, LookCompressed, Decode, Link, SetTimes,
                  DropCompressed, Open, Touch, Leave, counters
  <2> QED BY <2>1, <2>2, <2>3, <2>4 DEF TypeOK
<1>2. ASSUME NEW p \in Procs, NEW r \in Records, AppendLine(p, r) PROVE TypeOK'
  <2>1. files' \in Seq(Files) /\ plain' \in 0..Len(files') /\ handle' \in [Procs -> 0..Len(files')]
    BY <1>2, TypeOfFiles
  <2>2. acked' \subseteq AllRecords /\ late' \subseteq AllRecords
    BY <1>2 DEF AppendLine, TypeOK, AllRecords
  <2> QED BY <1>2, <2>1, <2>2 DEF TypeOK, AppendLine, opVars, counters
<1>3. ASSUME NEW r \in Readers, Read(r) PROVE TypeOK'
  <2>1. /\ UNCHANGED <<now, files, plain, zst, op, handle, worker, acked, late>>
        /\ UNCHANGED <<runs, reopens, forks>>
    BY <1>3 DEF Read, ReaderStart, StatPlain, StatCompressed, OpenFound, counters, opVars
  <2>2. reader[r] \in ReaderStates /\ reader[r].tries + 1 \in Nat BY <1>0 DEF ReaderStates
  <2>3. \A pc \in ReaderPcs : [reader[r] EXCEPT !.pc = pc] \in ReaderStates
    BY <2>2 DEF ReaderStates
  <2>4. \A pc \in ReaderPcs : [reader[r] EXCEPT !.tries = reader[r].tries + 1, !.pc = pc] \in ReaderStates
    BY <2>2 DEF ReaderStates
  <2>5. CASE OpenFound(r)
    <3>1. PICK pc \in ReaderPcs :
             reader' = [reader EXCEPT ![r].tries = reader[r].tries + 1, ![r].pc = pc]
      BY <2>5 DEF OpenFound, ReaderPcs
    <3>2. reader' = [reader EXCEPT ![r] = [reader[r] EXCEPT !.tries = reader[r].tries + 1, !.pc = pc]]
      BY <1>0, <3>1
    <3>3. reader' \in [Readers -> ReaderStates] BY <1>0, <2>4, <3>2
    <3> QED BY <2>1, <3>3 DEF TypeOK
  <2>6. CASE ~OpenFound(r)
    <3>1. PICK pc \in ReaderPcs : reader' = [reader EXCEPT ![r].pc = pc]
      BY <1>3, <2>6 DEF Read, ReaderStart, StatPlain, StatCompressed, ReaderGoto, ReaderPcs
    <3>2. reader' = [reader EXCEPT ![r] = [reader[r] EXCEPT !.pc = pc]] BY <1>0, <3>1
    <3>3. reader' \in [Readers -> ReaderStates] BY <1>0, <2>3, <3>2
    <3> QED BY <2>1, <3>3 DEF TypeOK
  <2> QED BY <2>5, <2>6
<1>4. CASE Worker \/ WorkerEnds
  <2>1. worker' \in Workers /\ runs' \in Nat
    <3>1. CASE worker' = WorkerIdle /\ runs' = runs BY <1>0, <3>1, IdleWorker
    <3>2. CASE Inspect
      <4>1. plain \in 1..Len(files) BY <1>0, <3>2 DEF Inspect
      <4>2. Len64(plain) \in Nat /\ files[plain].mtime \in Nat BY <4>1, LengthType, FileParts
      <4>3. [worker EXCEPT !.pc = "exists", !.len = Len64(plain), !.mtime = files[plain].mtime] \in Workers
        BY <1>0, <4>2 DEF Workers, WorkerPcs
      <4>4. runs' = runs + 1 BY <3>2 DEF Inspect
      <4> QED BY <1>0, <3>2, <4>3, <4>4 DEF Inspect
    <3>3. CASE Encode /\ plain # 0
      <4>1. files[plain].recs \subseteq AllRecords BY <1>0, <3>3, FileParts
      <4> QED BY <1>0, <3>3, <4>1 DEF Encode, Workers, WorkerPcs, counters
    <3>4. ASSUME NEW pc \in WorkerPcs, worker' = [worker EXCEPT !.pc = pc], runs' = runs
          PROVE  worker' \in Workers /\ runs' \in Nat
      BY <1>0, <3>4 DEF Workers
    <3> QED BY <1>4, <3>1, <3>2, <3>3, <3>4 DEF Worker, SkipCompressed, Encode, Check, Publish, Recheck,
                  RemovePlain, WorkerEnds, WorkerPcs, counters
  <2>2. zst' \in Files \cup {NoFile}
    <3>1. [recs |-> worker.temp, mtime |-> worker.mtime] \in Files BY <1>0 DEF Workers, Files
    <3>2. zst' \in {zst, NoFile, [recs |-> worker.temp, mtime |-> worker.mtime]}
      BY <1>4 DEF Worker, Inspect, SkipCompressed, Encode, Check, Publish, Recheck, RemovePlain, WorkerEnds
    <3> QED BY <3>1, <3>2 DEF TypeOK
  <2>3. reader' \in [Readers -> ReaderStates]
    <3>1. Moved \/ UNCHANGED reader
      BY <1>4 DEF Worker, Inspect, SkipCompressed, Encode, Check, Publish, Recheck, RemovePlain, WorkerEnds
    <3> QED BY <1>0, <3>1, TypeOfMoved
  <2>4. /\ UNCHANGED <<now, files, op, handle, acked, late, reopens, forks>>
        /\ plain' = plain \/ plain' = 0
    BY <1>4 DEF Worker, Inspect, SkipCompressed, Encode, Check, Publish, Recheck, RemovePlain, WorkerEnds,
                counters, opVars
  <2>5. plain' \in 0..Len(files') BY <1>0, <2>4
  <2> QED BY <2>1, <2>2, <2>3, <2>4, <2>5 DEF TypeOK
<1>5. CASE WeekPasses BY <1>0, <1>5 DEF WeekPasses, TypeOK, opVars, counters
<1>6. CASE UNCHANGED vars BY <1>6 DEF vars, TypeOK, opVars, counters
<1> QED BY <1>1, <1>2, <1>3, <1>4, <1>5, <1>6 DEF Next

\* The state keeps its types, whatever overlaps; in particular a handle is always that of a
\* file that exists or existed.
THEOREM TypeCorrect == Spec => []TypeOK
<1>1. Init => TypeOK BY Initially DEF IInv
<1>2. TypeOK /\ [Next]_vars => TypeOK' BY TypeStep
<1> QED BY <1>1, <1>2, PTL DEF Spec

-----------------------------------------------------------------------------
(* Overlaps *)

\* Every step that moves a materialization on looks whether two overlap.
LEMMA Watched ==
    ASSUME Racing => raced, [Next]_vars
    PROVE  (Racing => raced)' /\ (raced => raced')
<1>1. ASSUME NEW p, NEW o, Continue(p, o) PROVE (Racing => raced)' /\ (raced => raced')
  BY <1>1 DEF Continue
<1>2. CASE UNCHANGED opVars BY <1>2 DEF opVars, Racing, Materializing
<1>3. ASSUME NEW p \in Procs, Resume(p) \/ Fork(p) \/ Reopen(p) \/ Materialize(p) \/ Open(p)
                              \/ Touch(p) \/ Leave(p)
      PROVE  (Racing => raced)' /\ (raced => raced')
  <2>1. \E o : Continue(p, o)
    <3>1. CASE Resume(p) \/ Fork(p) \/ Reopen(p) BY <3>1 DEF Resume, Fork, Reopen, Start
    <3>2. CASE LookPlain(p) \/ LookCompressed(p) BY <3>2 DEF LookPlain, LookCompressed, Goto
    <3>3. CASE Decode(p) BY <3>3 DEF Decode, Done
    <3>4. CASE Link(p) BY <3>4 DEF Link, Goto
    <3>5. CASE SetTimes(p) \/ DropCompressed(p) BY <3>5 DEF SetTimes, DropCompressed, Goto
    <3>6. CASE Open(p) BY <3>6 DEF Open, Goto, Done
    <3>7. CASE Touch(p) \/ Leave(p) BY <3>7 DEF Touch, Leave, Done
    <3> QED BY <1>3, <3>1, <3>2, <3>3, <3>4, <3>5, <3>6, <3>7 DEF Materialize
  <2> QED BY <1>1, <2>1
<1>4. ASSUME NEW p \in Procs, NEW r \in Records, AppendLine(p, r) PROVE UNCHANGED opVars
  BY <1>4 DEF AppendLine
<1>5. ASSUME NEW r \in Readers, Read(r) PROVE UNCHANGED opVars
  BY <1>5 DEF Read, ReaderStart, StatPlain, StatCompressed, OpenFound
<1>6. CASE Worker \/ WorkerEnds \/ WeekPasses
  BY <1>2, <1>6 DEF Worker, Inspect, SkipCompressed, Encode, Check, Publish, Recheck, RemovePlain,
                    WorkerEnds, WeekPasses
<1>7. CASE UNCHANGED vars BY <1>2, <1>7 DEF vars
<1> QED BY <1>2, <1>3, <1>4, <1>5, <1>6, <1>7 DEF Next

\* Until two materializations overlap, the invariant holds.
WatchInv == (Racing => raced) /\ (raced \/ IInv)

LEMMA Watching == Spec => []WatchInv
<1>1. Init => WatchInv
  <2> SUFFICES ASSUME Init PROVE WatchInv
    OBVIOUS
  <2>1. ~Racing BY IdleOp DEF Init, Racing, Materializing
  <2> QED BY <2>1, Initially DEF WatchInv
<1>2. WatchInv /\ [Next]_vars => WatchInv'
  <2> SUFFICES ASSUME WatchInv, [Next]_vars PROVE WatchInv'
    OBVIOUS
  <2>1. (Racing => raced)' /\ (raced => raced') BY Watched DEF WatchInv
  <2>2. CASE raced BY <2>1, <2>2 DEF WatchInv
  <2>3. CASE ~raced BY <2>1, <2>3, Inductive DEF WatchInv
  <2> QED BY <2>2, <2>3
<1> QED BY <1>1, <1>2, PTL DEF Spec

\* A record whose write succeeded is in one of the two forms of the rollout, wherever any
\* number of sessions and forks, the worker and their crashes are, unless two have
\* materialized it at the same time or it was written after the worker's last look at the
\* file it then removed.
THEOREM WrittenRecordsKept == Spec => []KeptOnDisk
<1>1. WatchInv => KeptOnDisk BY DEF WatchInv, IInv, FormsInv, Kept, Safe, KeptOnDisk
<1> QED BY <1>1, Watching, PTL

\* A reader that finds neither form of the rollout has had one move under it for each of
\* its attempts, unless two have materialized the rollout at the same time: the rollout is
\* at no time without a form.
THEOREM ReadersFind == Spec => []ReaderFinds
<1>1. WatchInv => ReaderFinds
  <2> SUFFICES ASSUME IInv, NEW r \in Readers, reader[r].pc = "notfound"
               PROVE  reader[r].moves >= Attempts
    BY DEF ReaderFinds, WatchInv
  <2>1. reader[r].moves \in Nat /\ reader[r].tries \in Nat BY DEF IInv, TypeOK, ReaderStates
  <2>2. reader[r].moves >= reader[r].tries /\ reader[r].tries >= Attempts
    BY DEF IInv, ReadersInv, ReaderOK
  <2> QED BY <2>1, <2>2 DEF Attempts
<1> QED BY <1>1, Watching, PTL
=============================================================================
