------------------------- MODULE RolloutCompression -------------------------
(***************************************************************************)
(* The two representations of one rollout: the plain .jsonl file sessions  *)
(* append to, and the .jsonl.zst file the compression worker replaces it   *)
(* by once it has been cold for a week. Sessions and forks, in one process *)
(* or in several, turn the compressed file back into a plain one, readers  *)
(* open whichever they find, and none of them takes a lock of the others:  *)
(* an action is one call to the file system.                               *)
(*   src/rollout/src/compression.rs, recorder.rs, maintenance.rs           *)
(*   src/thread-store/src/local/live_writer.rs, rollout_lineage.rs         *)
(***************************************************************************)
EXTENDS Naturals, Sequences, FiniteSets

CONSTANTS
    Procs,        \* those who open the rollout to append to it or to fork it
    Readers,
    Records,      \* what a session appends, each once
    Base,         \* what the rollout holds when the model starts
    NoFile,
    MaxWeeks,     \* bound: weeks that pass
    MaxRuns,      \* bound: files the worker starts to compress
    MaxReopens,   \* bound: writes that fail and make the recorder reopen the file
    MaxForks      \* bound: forks that materialize the rollout

\* A reader looks four times (MAX_NOT_FOUND_RETRIES, and once more).
Attempts == 4

ASSUME ConstantsAssumption ==
    /\ IsFiniteSet(Records) /\ Base \notin Records
    /\ NoFile \notin [recs : SUBSET (Records \cup {Base}), mtime : Nat]
    /\ MaxWeeks \in Nat /\ MaxRuns \in Nat /\ MaxReopens \in Nat /\ MaxForks \in Nat

VARIABLES
    now,       \* the current week
    files,     \* inodes that have been the plain file: records and modified time
    plain,     \* the inode at the .jsonl path, 0 when there is none
    zst,       \* the file at the .jsonl.zst path
    op,        \* process -> the open or materialization it is in
    handle,    \* process -> the inode its recorder has open, 0 when none
    worker,    \* compress_rollout_if_cold_blocking
    reader,    \* reader -> open_rollout_line_reader
    acked,     \* records whose write has succeeded
    late,      \* those written where the worker could no longer see them
    raced,     \* history: two materializations have overlapped
    runs, reopens, forks

opVars == <<op, raced>>
counters == <<runs, reopens, forks>>
vars == <<now, files, plain, zst, opVars, handle, worker, reader, acked, late, counters>>

NoOp == [pc |-> "idle", kind |-> "none", refresh |-> FALSE, temp |-> {}, mtime |-> 0, inode |-> 0]
WorkerIdle == [pc |-> "idle", len |-> 0, mtime |-> 0, temp |-> {}]
ReaderIdle == [pc |-> "idle", tries |-> 0, moves |-> 0]

Init ==
    /\ now = 1
    /\ files = <<[recs |-> {Base}, mtime |-> 0]>>
    /\ plain = 1 /\ zst = NoFile
    /\ op = [p \in Procs |-> NoOp]
    /\ handle = [p \in Procs |-> 0]
    /\ worker = WorkerIdle
    /\ reader = [r \in Readers |-> ReaderIdle]
    /\ acked = {Base} /\ late = {} /\ raced = FALSE
    /\ runs = 0 /\ reopens = 0 /\ forks = 0

\* A name of the rollout goes away; the readers at work may have been after it.
Moved ==
    reader' = [r \in Readers |-> IF reader[r].pc \in {"idle", "done", "notfound"}
                                 THEN reader[r]
                                 ELSE [reader[r] EXCEPT !.moves = @ + 1]]

-----------------------------------------------------------------------------
(* Opening to append: materialize_rollout_for_append_blocking, then open *)

\* Between its look at the compressed file and the file's removal.
Materializing(p) == op[p].pc \in {"lookzst", "decode", "link", "times", "drop"}

\* Two are at it, or one while a recorder is about to create the plain file.
Racing ==
    \E p, q \in Procs :
        /\ p # q /\ Materializing(p)
        /\ Materializing(q) \/ (op[q].pc = "open" /\ op[q].kind = "reopen")

\* raced only watches: no step depends on it.
Continue(p, o) ==
    /\ op' = [op EXCEPT ![p] = o]
    /\ raced' = (raced \/ Racing')

Goto(p, pc) == Continue(p, [op[p] EXCEPT !.pc = pc])

Done(p) == Continue(p, NoOp)

Start(p, kind) ==
    Continue(p, [NoOp EXCEPT !.pc = "look", !.kind = kind, !.refresh = plain = 0])

\* The writer lock of the thread: one session at a time, in any process.
Unwritten == \A q \in Procs : handle[q] = 0 /\ op[q].kind \in {"none", "fork"}

\* RolloutRecorderParams::Resume, under the writer lock.
Resume(p) ==
    /\ op[p] = NoOp /\ Unwritten
    /\ Start(p, "resume")
    /\ UNCHANGED <<now, files, plain, zst, handle, worker, reader, acked, late, counters>>

\* A fork materializes its source without the source's writer lock.
Fork(p) ==
    /\ op[p] = NoOp /\ forks < MaxForks
    /\ forks' = forks + 1
    /\ Start(p, "fork")
    /\ UNCHANGED <<now, files, plain, zst, handle, worker, reader, acked, late, runs, reopens>>

\* A failed write drops the handle; the retry opens the file with open_log_file.
Reopen(p) ==
    /\ op[p] = NoOp /\ handle[p] # 0 /\ reopens < MaxReopens
    /\ reopens' = reopens + 1
    /\ handle' = [handle EXCEPT ![p] = 0]
    /\ Start(p, "reopen")
    /\ UNCHANGED <<now, files, plain, zst, worker, reader, acked, late, runs, forks>>

LookPlain(p) ==
    /\ op[p].pc = "look"
    /\ Goto(p, IF plain # 0 THEN "open" ELSE "lookzst")
    /\ UNCHANGED <<now, files, plain, zst, handle, worker, reader, acked, late, counters>>

LookCompressed(p) ==
    /\ op[p].pc = "lookzst"
    /\ Goto(p, IF zst = NoFile THEN "open" ELSE "decode")
    /\ UNCHANGED <<now, files, plain, zst, handle, worker, reader, acked, late, counters>>

\* A bug to exclude: the compressed file is removed before its copy has the
\* plain file's name.
DecodeAndDrop(p) ==
    /\ op[p].pc = "decode"
    /\ IF zst = NoFile
       THEN Done(p)
       ELSE Continue(p, [op[p] EXCEPT !.pc = "link", !.temp = zst.recs, !.mtime = zst.mtime])
    /\ zst' = NoFile
    /\ UNCHANGED <<now, files, plain, handle, worker, reader, acked, late, counters>>

\* The compressed file is decoded into a temporary one; it may be gone by now.
Decode(p) ==
    /\ op[p].pc = "decode"
    /\ IF zst = NoFile
       THEN Done(p)
       ELSE Continue(p, [op[p] EXCEPT !.pc = "link", !.temp = zst.recs, !.mtime = zst.mtime])
    /\ UNCHANGED <<now, files, plain, zst, handle, worker, reader, acked, late, counters>>

\* hard_link; AlreadyExists is taken for success.
Link(p) ==
    /\ op[p].pc = "link"
    /\ IF plain = 0
       THEN /\ files' = Append(files, [recs |-> op[p].temp, mtime |-> now])
            /\ plain' = Len(files')
            /\ Continue(p, [op[p] EXCEPT !.pc = "times", !.inode = Len(files')])
       ELSE Goto(p, "times") /\ UNCHANGED <<files, plain>>
    /\ UNCHANGED <<now, zst, handle, worker, reader, acked, late, counters>>

\* The decoded file gets the modified time of the compressed one.
SetTimes(p) ==
    /\ op[p].pc = "times"
    /\ files' = [i \in DOMAIN files |->
                    IF i = op[p].inode THEN [files[i] EXCEPT !.mtime = op[p].mtime] ELSE files[i]]
    /\ Goto(p, "drop")
    /\ UNCHANGED <<now, plain, zst, handle, worker, reader, acked, late, counters>>

DropCompressed(p) ==
    /\ op[p].pc = "drop"
    /\ zst' = NoFile
    /\ IF zst # NoFile THEN Moved ELSE UNCHANGED reader
    /\ Goto(p, "open")
    /\ UNCHANGED <<now, files, plain, handle, worker, acked, late, counters>>

\* A fork needs the path only; a resume fails when the file is gone, and
\* open_log_file creates it.
Open(p) ==
    /\ op[p].pc = "open"
    /\ LET created == plain = 0 /\ op[p].kind = "reopen"
           refused == plain = 0 /\ op[p].kind = "resume"
       IN /\ files' = IF created THEN Append(files, [recs |-> {}, mtime |-> now]) ELSE files
          /\ plain' = IF created THEN Len(files') ELSE plain
          /\ IF op[p].kind = "fork" \/ refused
             THEN Done(p) /\ UNCHANGED handle
             ELSE /\ handle' = [handle EXCEPT ![p] = plain']
                  /\ IF op[p].refresh THEN Goto(p, "touch") ELSE Done(p)
    /\ UNCHANGED <<now, zst, worker, reader, acked, late, counters>>

\* A file that was not there before is made to look new.
Touch(p) ==
    /\ op[p].pc = "touch"
    /\ files' = [files EXCEPT ![handle[p]].mtime = now]
    /\ Done(p)
    /\ UNCHANGED <<now, plain, zst, handle, worker, reader, acked, late, counters>>

\* The recorder writes a line through its handle, wherever the file now is.
AppendLine(p, r) ==
    /\ op[p] = NoOp /\ handle[p] # 0 /\ r \in Records \ acked
    /\ files' = [files EXCEPT ![handle[p]] = [recs |-> @.recs \cup {r}, mtime |-> now]]
    /\ acked' = acked \cup {r}
    /\ late' = IF handle[p] # plain \/ worker.pc = "remove" THEN late \cup {r} ELSE late
    /\ UNCHANGED <<now, plain, zst, opVars, handle, worker, reader, counters>>

\* The session is closed, or its process ends at any point of an open.
Leave(p) ==
    /\ op[p] # NoOp \/ handle[p] # 0
    /\ Done(p)
    /\ handle' = [handle EXCEPT ![p] = 0]
    /\ UNCHANGED <<now, files, plain, zst, worker, reader, acked, late, counters>>

-----------------------------------------------------------------------------
(* compress_rollout_if_cold_blocking, by the holder of the maintenance lock *)

Len64(i) == Cardinality(files[i].recs)

\* same_file_state: length and modified time (permissions never differ here).
Same == plain # 0 /\ files[plain].mtime = worker.mtime /\ Len64(plain) = worker.len

\* The file is cold; its state is what the later checks compare with.
Inspect ==
    /\ worker = WorkerIdle /\ runs < MaxRuns
    /\ plain # 0 /\ files[plain].mtime < now
    /\ runs' = runs + 1
    /\ worker' = [worker EXCEPT !.pc = "exists", !.len = Len64(plain), !.mtime = files[plain].mtime]
    /\ UNCHANGED <<now, files, plain, zst, opVars, handle, reader, acked, late, reopens, forks>>

SkipCompressed ==
    /\ worker.pc = "exists"
    /\ worker' = IF zst = NoFile THEN [worker EXCEPT !.pc = "encode"] ELSE WorkerIdle
    /\ UNCHANGED <<now, files, plain, zst, opVars, handle, reader, acked, late, counters>>

Encode ==
    /\ worker.pc = "encode"
    /\ worker' = IF plain = 0 THEN WorkerIdle
                 ELSE [worker EXCEPT !.pc = "check", !.temp = files[plain].recs]
    /\ UNCHANGED <<now, files, plain, zst, opVars, handle, reader, acked, late, counters>>

Check ==
    /\ worker.pc = "check"
    /\ worker' = IF Same THEN [worker EXCEPT !.pc = "publish"] ELSE WorkerIdle
    /\ UNCHANGED <<now, files, plain, zst, opVars, handle, reader, acked, late, counters>>

\* persist_noclobber: the compressed file has the old modified time.
Publish ==
    /\ worker.pc = "publish"
    /\ IF zst = NoFile
       THEN /\ zst' = [recs |-> worker.temp, mtime |-> worker.mtime]
            /\ worker' = [worker EXCEPT !.pc = "recheck"]
       ELSE worker' = WorkerIdle /\ UNCHANGED zst
    /\ UNCHANGED <<now, files, plain, opVars, handle, reader, acked, late, counters>>

\* A file that changed keeps its plain form, and the compressed one goes.
Recheck ==
    /\ worker.pc = "recheck"
    /\ IF Same
       THEN worker' = [worker EXCEPT !.pc = "remove"] /\ UNCHANGED <<zst, reader>>
       ELSE worker' = WorkerIdle /\ zst' = NoFile /\ Moved
    /\ UNCHANGED <<now, files, plain, opVars, handle, acked, late, counters>>

RemovePlain ==
    /\ worker.pc = "remove"
    /\ plain' = 0 /\ Moved
    /\ worker' = WorkerIdle
    /\ UNCHANGED <<now, files, zst, opVars, handle, acked, late, counters>>

\* The worker's process ends, or a call of its fails; its temporary file is
\* not a rollout.
WorkerEnds ==
    /\ worker # WorkerIdle
    /\ worker' = WorkerIdle
    /\ UNCHANGED <<now, files, plain, zst, opVars, handle, reader, acked, late, counters>>

Worker == Inspect \/ SkipCompressed \/ Encode \/ Check \/ Publish \/ Recheck \/ RemovePlain

-----------------------------------------------------------------------------
(* open_rollout_line_reader *)

ReaderGoto(r, pc) == reader' = [reader EXCEPT ![r].pc = pc]

ReaderStart(r) ==
    /\ reader[r] = ReaderIdle
    /\ ReaderGoto(r, "stat")
    /\ UNCHANGED <<now, files, plain, zst, opVars, handle, worker, acked, late, counters>>

StatPlain(r) ==
    /\ reader[r].pc = "stat"
    /\ ReaderGoto(r, IF plain # 0 THEN "open" ELSE "statzst")
    /\ UNCHANGED <<now, files, plain, zst, opVars, handle, worker, acked, late, counters>>

\* Neither was found: the path asked for, the plain one, is opened anyway.
StatCompressed(r) ==
    /\ reader[r].pc = "statzst"
    /\ ReaderGoto(r, IF zst # NoFile THEN "openzst" ELSE "open")
    /\ UNCHANGED <<now, files, plain, zst, opVars, handle, worker, acked, late, counters>>

\* A bug to exclude: a path that has just gone is an answer.
OpenOnce(r) ==
    /\ reader[r].pc \in {"open", "openzst"}
    /\ ReaderGoto(r, IF (IF reader[r].pc = "open" THEN plain # 0 ELSE zst # NoFile)
                     THEN "done" ELSE "notfound")
    /\ UNCHANGED <<now, files, plain, zst, opVars, handle, worker, acked, late, counters>>

\* A file that went away between lookup and open is looked up again.
OpenFound(r) ==
    /\ reader[r].pc \in {"open", "openzst"}
    /\ LET found == IF reader[r].pc = "open" THEN plain # 0 ELSE zst # NoFile
           tries == reader[r].tries + 1
       IN reader' = [reader EXCEPT ![r].tries = tries, ![r].pc =
              IF found THEN "done" ELSE IF tries < Attempts THEN "stat" ELSE "notfound"]
    /\ UNCHANGED <<now, files, plain, zst, opVars, handle, worker, acked, late, counters>>

-----------------------------------------------------------------------------

\* A week without a write. No call takes that long: the worker stops after five
\* hours, and a reader waits 150 ms; an open session may well sit idle.
WeekPasses ==
    /\ now < MaxWeeks
    /\ worker = WorkerIdle
    /\ \A p \in Procs : op[p] = NoOp
    /\ \A r \in Readers : reader[r].pc \in {"idle", "done", "notfound"}
    /\ now' = now + 1
    /\ UNCHANGED <<files, plain, zst, opVars, handle, worker, reader, acked, late, counters>>

Materialize(p) ==
    LookPlain(p) \/ LookCompressed(p) \/ Decode(p) \/ Link(p) \/ SetTimes(p) \/ DropCompressed(p)

Read(r) == ReaderStart(r) \/ StatPlain(r) \/ StatCompressed(r) \/ OpenFound(r)

Next ==
    \/ \E p \in Procs :
          \/ Resume(p) \/ Fork(p) \/ Reopen(p)
          \/ Materialize(p) \/ Open(p) \/ Touch(p) \/ Leave(p)
          \/ \E r \in Records : AppendLine(p, r)
    \/ \E r \in Readers : Read(r)
    \/ Worker \/ WorkerEnds \/ WeekPasses

Spec == Init /\ [][Next]_vars

-----------------------------------------------------------------------------
(* Properties *)

OnDisk == (IF plain # 0 THEN files[plain].recs ELSE {}) \cup
          (IF zst # NoFile THEN zst.recs ELSE {})

\* Whatever the two forms of the file go through, with sessions, forks, failed
\* writes and the worker all in the middle of their steps and ending at any of
\* them, a record that was written is in one of the two files, unless two have
\* materialized the rollout at the same time, or the record was written after
\* the worker's last look at the file it then removed.
KeptOnDisk == raced \/ acked \ late \subseteq OnDisk

\* A reader gives up only if the rollout went from one form to the other under
\* each of its attempts: every look-up that fails is owed to a move of its own,
\* unless two have materialized the rollout at the same time.
ReaderFinds ==
    raced \/ \A r \in Readers : reader[r].pc = "notfound" => reader[r].moves >= Attempts

\* What the writer lock is said to protect: the lines a session was told are
\* written can be read again.
AckedReadable == acked \subseteq OnDisk

\* "callers do not need to know which representation is on disk": there is one,
\* the plain file or the compressed one, also when the plain file is owed to
\* another materialization (hard_link's AlreadyExists) and the worker has since
\* compressed it again.
SomeForm == plain # 0 \/ zst # NoFile
=============================================================================
