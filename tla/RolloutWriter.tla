--------------------------- MODULE RolloutWriter ---------------------------
(***************************************************************************)
(* The rollout file of one paginated thread: the records of a session are  *)
(* queued, buffered and appended as JSON lines by one background writer,   *)
(* which retries a failed write once with a reopened file; after a crash   *)
(* or an unload the file is opened again and continued; and a projection   *)
(* reads it back to rebuild the thread's history tables.                   *)
(*                                                                         *)
(* Code: rollout/src/recorder.rs (RolloutRecorder, RolloutWriterState,     *)
(* rollout_writer), rollout/src/ordinal.rs, and in thread-store/src/local  *)
(* live_writer.rs and thread_history_materialization.rs.                   *)
(*                                                                         *)
(* Records are numbered in the order in which they are queued; record 0 is *)
(* the SessionMeta line.  pending_items always holds a run of consecutive  *)
(* records, written + 1 .. taken.  A line is a record, its ordinal, and    *)
(* whether its JSON and its newline arrived.  Timestamps, git data, the    *)
(* compressed form of the file and Legacy rollouts (the same writer        *)
(* without ordinals) are left out.                                         *)
(***************************************************************************)
EXTENDS Integers, Sequences, FiniteSets

CONSTANTS
    MaxBatch,    \* bound: records in one AddItems
    MaxOps,      \* bound: operations of the live writer
    MaxFailures, \* bound: I/O errors
    MaxCrashes,  \* bound: ends of the process
    MaxResumes,  \* bound: times the file is opened again
    FailCuts,    \* what a failed write may leave: "none", "torn", "bare"
    CrashCuts    \* what a write cut off by the end of the process may leave

ASSUME RolloutAssumption ==
    /\ MaxBatch \in Nat /\ MaxOps \in Nat /\ MaxFailures \in Nat
    /\ MaxCrashes \in Nat /\ MaxResumes \in Nat
    /\ FailCuts \cup CrashCuts \subseteq {"none", "torn", "bare"}

VARIABLES
    file,      \* the lines of the rollout file
    open,      \* RolloutWriterState::writer is Some
    deferred,  \* deferred_creation
    meta,      \* meta is Some: the SessionMeta line is not written yet
    next,      \* RolloutOrdinalState::Paginated::next
    written,   \* records up to here have left pending_items
    taken,     \* records up to here have been received by the writer
    added,     \* records up to here have been queued
    queue,     \* the mpsc channel of RolloutCmd
    cmd,       \* the command being executed
    attempt,   \* which try of write_pending_with_recovery this is
    wpc,       \* where the writer task is
    caller,    \* what the holder of the live writer lock does
    ticket,    \* the operation whose barrier the caller waits for
    due,       \* records that a successful barrier covered
    lost,      \* records that were in memory when the writer went away
    failures, crashes, resumes  \* how often so far

diskVars   == <<file>>
writerVars == <<open, deferred, meta, next, written, taken>>
taskVars   == <<cmd, attempt, wpc>>
chanVars   == <<added, queue>>
callVars   == <<caller, ticket>>
ghostVars  == <<due, lost>>
countVars  == <<failures, crashes, resumes>>
vars == <<diskVars, writerVars, taskVars, chanVars, callVars, ghostVars, countVars>>

Barriers == {"persist", "flush", "shutdown"}
Commands == [kind : {"add"} \cup Barriers, upto : Nat, ticket : Nat]
NoCmd    == [kind |-> "none", upto |-> 0, ticket |-> 0]
Lines    == [item : Nat, ord : Nat, whole : BOOLEAN, newline : BOOLEAN]

DiskOK ==
    /\ file \in Seq(Lines)
    /\ \A i \in 1..Len(file) : i < Len(file) => file[i].newline

WriterOK ==
    /\ open \in BOOLEAN /\ deferred \in BOOLEAN /\ meta \in BOOLEAN
    /\ next \in Nat /\ written \in Nat /\ taken \in Nat /\ added \in Nat
    /\ written <= taken /\ taken <= added
    /\ attempt \in {1, 2}
    /\ wpc \in {"recv", "open", "write", "stopped", "dead"}
    /\ cmd \in Commands \cup {NoCmd}
    /\ queue \in Seq(Commands)

CallerOK ==
    /\ caller \in {"idle", "appended", "waiting"} /\ ticket \in 0..MaxOps
    /\ due \subseteq 0..added /\ lost \subseteq 0..added
    /\ failures \in 0..MaxFailures /\ crashes \in 0..MaxCrashes
    /\ resumes \in 0..MaxResumes

\* Types, and only the last line of the file may lack its newline: whoever
\* appends has terminated what an earlier write left behind.
TypeOK == DiskOK /\ WriterOK /\ CallerOK

Init ==
    /\ file = <<>>
    /\ open = FALSE /\ deferred = TRUE /\ meta = TRUE /\ next = 0
    /\ written = 0 /\ taken = 0 /\ added = 0
    /\ queue = <<>> /\ cmd = NoCmd /\ attempt = 1 /\ wpc = "recv"
    /\ caller = "idle" /\ ticket = 0
    /\ due = {} /\ lost = {}
    /\ failures = 0 /\ crashes = 0 /\ resumes = 0

-----------------------------------------------------------------------------
(* The file.                                                               *)

Line(i, n) == [item |-> i, ord |-> n, whole |-> TRUE, newline |-> TRUE]

\* What is left of record i with ordinal n when its write fails: nothing, a
\* part of the JSON, or all of it without the newline.
CutLines(i, n, cut) ==
    CASE cut = "none" -> <<>>
      [] cut = "torn" -> <<[Line(i, n) EXCEPT !.whole = FALSE, !.newline = FALSE]>>
      [] cut = "bare" -> <<[Line(i, n) EXCEPT !.newline = FALSE]>>

\* ensure_rollout_is_newline_terminated.
Terminated ==
    [i \in 1..Len(file) |-> [file[i] EXCEPT !.newline = TRUE]]

WholeLines == {i \in 1..Len(file) : file[i].whole}
OnDisk == {file[i].item : i \in WholeLines}

\* ordinal_state_for_rollout: the ordinal after the last valid record.
NextOrdinal ==
    LET last == CHOOSE i \in WholeLines : \A j \in WholeLines : j <= i
    IN  file[last].ord + 1

\* read_history_metadata: the first line must parse, as session metadata.  An
\* empty file has no thread to resume: read_thread does not find one.
Resumable == file # <<>> /\ file[1].whole /\ file[1].item = 0

\* read_projection_steps over the complete lines: a line that does not parse
\* is skipped, an ordinal may only go up, and by no more than the number of
\* lines skipped since the last one that was read (line 0 stands for none).
Readable(i) == file[i].newline /\ file[i].whole

LastRead(i) ==
    LET read == {j \in 1..(i - 1) : Readable(j)} \cup {0}
    IN  CHOOSE j \in read : \A k \in read : k <= j

Accepts(i) ==
    LET last     == LastRead(i)
        expected == IF last = 0 THEN 0 ELSE file[last].ord + 1
        rejected == {j \in (last + 1)..(i - 1) : file[j].newline}
    IN  /\ file[i].ord >= expected
        /\ file[i].ord - expected <= Cardinality(rejected)

\* is_deferred.
IsDeferred == ~open /\ deferred

\* The record to write next: the session metadata, then the pending items.
NextItem == IF meta THEN 0 ELSE written + 1
NothingLeft == ~meta /\ written = taken

-----------------------------------------------------------------------------
(* The live writer: one operation at a time under the thread's lock.       *)

Push(kind, upto, t) == queue' = Append(queue, [kind |-> kind, upto |-> upto, ticket |-> t])

\* durable_write(AppendItems): record_canonical_items ...
AppendItems(n) ==
    /\ caller = "idle" /\ wpc \in {"recv", "open", "write"}
    /\ ticket < MaxOps
    /\ ticket' = ticket + 1
    /\ added' = added + n
    /\ Push("add", added + n, ticket + 1)
    /\ caller' = "appended"
    /\ UNCHANGED <<diskVars, writerVars, taskVars, ghostVars, countVars>>

\* ... and then flush.
FlushAppended ==
    /\ caller = "appended"
    /\ Push("flush", added, ticket)
    /\ caller' = "waiting"
    /\ UNCHANGED <<diskVars, writerVars, taskVars, added, ticket, ghostVars, countVars>>

\* persist_thread, flush_thread, shutdown_thread.
Barrier(kind) ==
    /\ caller = "idle" /\ wpc \in {"recv", "open", "write"}
    /\ ticket < MaxOps
    /\ ticket' = ticket + 1
    /\ Push(kind, added, ticket + 1)
    /\ caller' = "waiting"
    /\ UNCHANGED <<diskVars, writerVars, taskVars, added, ghostVars, countVars>>

\* The caller's future is dropped; what it queued stays queued.
Cancel ==
    /\ caller # "idle"
    /\ caller' = "idle"
    /\ UNCHANGED <<diskVars, writerVars, taskVars, chanVars, ticket, ghostVars, countVars>>

-----------------------------------------------------------------------------
(* rollout_writer.                                                         *)

\* What a successful barrier vouches for: everything queued before it, and the
\* session metadata once there is something to keep; what an earlier end of
\* the writer lost was reported lost.
Covered(c) == ((IF c.kind = "persist" \/ c.upto > 0 THEN 0 ELSE 1)..c.upto) \ lost

\* The answer to command c: an acknowledgement reaches the caller if it still
\* waits for this one; a shutdown that succeeded ends the loop, which drops
\* what is still queued.
Answer(c, ok) ==
    LET ends == ok /\ c.kind = "shutdown"
    IN  /\ cmd' = NoCmd
        /\ attempt' = 1
        /\ wpc' = IF ends THEN "stopped" ELSE "recv"
        /\ queue' = IF ends THEN <<>> ELSE IF wpc = "recv" THEN Tail(queue) ELSE queue
        /\ due' = IF ok /\ c.kind \in Barriers THEN due \cup Covered(c) ELSE due
        /\ lost' = IF ends THEN lost \cup ((taken + 1)..added) ELSE lost
        /\ caller' = IF ends \/ (c.kind \in Barriers /\ c.ticket = ticket /\ caller = "waiting")
                     THEN "idle" ELSE caller

\* Variant of Receive: persist creates no file while there are no items.
ReceivePersistLazy ==
    /\ wpc = "recv" /\ queue # <<>>
    /\ LET c == Head(queue)
           got == IF c.kind = "add" THEN c.upto ELSE taken
           idle == IsDeferred /\ (c.kind = "add" \/ written = taken)
       IN  /\ taken' = got
           /\ IF idle THEN Answer(c, TRUE)
              ELSE /\ cmd' = c /\ attempt' = 1 /\ wpc' = "open"
                   /\ queue' = Tail(queue)
                   /\ UNCHANGED <<caller, ghostVars>>
    /\ UNCHANGED <<diskVars, open, deferred, meta, next, written, added, ticket, countVars>>

\* recv: AddItems is buffered, and written at once unless the file does not
\* exist yet; a barrier with nothing to create or to write succeeds.
Receive ==
    /\ wpc = "recv" /\ queue # <<>>
    /\ LET c == Head(queue)
           got == IF c.kind = "add" THEN c.upto ELSE taken
           idle == IF c.kind = "add" THEN IsDeferred
                   ELSE c.kind # "persist" /\ IsDeferred /\ written = taken
       IN  /\ taken' = got
           /\ IF idle THEN Answer(c, TRUE)
              ELSE /\ cmd' = c /\ attempt' = 1 /\ wpc' = "open"
                   /\ queue' = Tail(queue)
                   /\ UNCHANGED <<caller, ghostVars>>
    /\ UNCHANGED <<diskVars, open, deferred, meta, next, written, added, ticket, countVars>>

\* Variant of OpenFile: a torn tail is not terminated.
OpenFileAsIs ==
    /\ wpc = "open"
    /\ open' = TRUE /\ deferred' = FALSE /\ wpc' = "write"
    /\ UNCHANGED <<diskVars, meta, next, written, taken, cmd, attempt, chanVars, callVars,
                   ghostVars, countVars>>

\* ensure_writer_open.
OpenFile ==
    /\ wpc = "open"
    /\ file' = IF open THEN file ELSE Terminated
    /\ open' = TRUE /\ deferred' = FALSE /\ wpc' = "write"
    /\ UNCHANGED <<meta, next, written, taken, cmd, attempt, chanVars, callVars,
                   ghostVars, countVars>>

\* Variant of WriteLine: the record is written with the ordinal after its own.
WriteLineAdvanceFirst ==
    /\ wpc = "write" /\ ~NothingLeft
    /\ file' = Append(file, Line(NextItem, next + 1))
    /\ next' = next + 1
    /\ meta' = FALSE
    /\ written' = IF meta THEN written ELSE written + 1
    /\ UNCHANGED <<open, deferred, taken, taskVars, chanVars, callVars, ghostVars, countVars>>

\* write_rollout_item, of the session metadata or of the next pending item.
WriteLine ==
    /\ wpc = "write" /\ ~NothingLeft
    /\ file' = Append(file, Line(NextItem, next))
    /\ next' = next + 1
    /\ meta' = FALSE
    /\ written' = IF meta THEN written ELSE written + 1
    /\ UNCHANGED <<open, deferred, taken, taskVars, chanVars, callVars, ghostVars, countVars>>

\* Variant of Fail: the pending items are dropped with the handle.
FailDropsItems ==
    /\ open' = FALSE
    /\ written' = taken
    /\ failures' = failures + 1
    /\ IF attempt = 1
       THEN /\ attempt' = 2 /\ wpc' = "open"
            /\ UNCHANGED <<cmd, queue, ghostVars, caller>>
       ELSE Answer(cmd, FALSE)
    /\ UNCHANGED <<deferred, meta, next, taken, added, ticket, crashes, resumes>>

\* Variant of Fail: a retry starts again from the first record.
FailRewinds ==
    /\ open' = FALSE
    /\ written' = 0
    /\ failures' = failures + 1
    /\ IF attempt = 1
       THEN /\ attempt' = 2 /\ wpc' = "open"
            /\ UNCHANGED <<cmd, queue, ghostVars, caller>>
       ELSE Answer(cmd, FALSE)
    /\ UNCHANGED <<deferred, meta, next, taken, added, ticket, crashes, resumes>>

\* Variant of Fail: the second failure waits for the next command instead of
\* being answered.
FailWaits ==
    /\ open' = FALSE
    /\ failures' = failures + 1
    /\ attempt' = IF attempt = 1 THEN 2 ELSE 1
    /\ wpc' = IF attempt = 1 THEN "open" ELSE "recv"
    /\ UNCHANGED <<deferred, meta, next, written, taken, cmd, chanVars, callVars, ghostVars,
                   crashes, resumes>>

\* enter_recovery_mode: the handle is dropped; the first failure is retried,
\* the second one is the answer.
Fail ==
    /\ open' = FALSE
    /\ failures' = failures + 1
    /\ IF attempt = 1
       THEN /\ attempt' = 2 /\ wpc' = "open"
            /\ UNCHANGED <<cmd, queue, ghostVars, caller>>
       ELSE Answer(cmd, FALSE)
    /\ UNCHANGED <<deferred, meta, next, written, taken, added, ticket, crashes, resumes>>

OpenFails ==
    /\ wpc = "open" /\ ~open
    /\ failures < MaxFailures
    /\ Fail
    /\ UNCHANGED diskVars

\* A write that fails may have reached the file in part.
WriteFails(cut) ==
    /\ wpc = "write" /\ ~NothingLeft
    /\ failures < MaxFailures
    /\ file' = file \o CutLines(NextItem, next, cut)
    /\ Fail

\* Everything pending is written: the barrier succeeds.
WriteDone ==
    /\ wpc = "write" /\ NothingLeft
    /\ Answer(cmd, TRUE)
    /\ UNCHANGED <<diskVars, writerVars, added, ticket, countVars>>

-----------------------------------------------------------------------------
(* Crash and resume.                                                       *)

\* The process ends, in the middle of a write perhaps; memory is gone.
Crash(cut) ==
    /\ wpc \notin {"stopped", "dead"}
    /\ crashes < MaxCrashes
    /\ crashes' = crashes + 1
    /\ file' = IF wpc = "write" /\ ~NothingLeft
               THEN file \o CutLines(NextItem, next, cut) ELSE file
    /\ wpc' = "dead"
    /\ lost' = lost \cup ((written + 1)..added)
    /\ queue' = <<>> /\ cmd' = NoCmd /\ attempt' = 1 /\ caller' = "idle" /\ open' = FALSE
    /\ UNCHANGED <<deferred, meta, next, written, taken, added, ticket, due, failures, resumes>>

\* RolloutRecorderParams::Resume: open_rollout_for_append.
Resume ==
    /\ wpc \in {"stopped", "dead"}
    /\ resumes < MaxResumes
    /\ Resumable
    /\ resumes' = resumes + 1
    /\ file' = Terminated
    /\ next' = NextOrdinal
    /\ open' = TRUE /\ deferred' = FALSE /\ meta' = FALSE
    /\ written' = added /\ taken' = added
    /\ wpc' = "recv" /\ attempt' = 1
    /\ UNCHANGED <<cmd, chanVars, callVars, ghostVars, failures, crashes>>

-----------------------------------------------------------------------------
WriterStep ==
    \/ Receive \/ OpenFile \/ OpenFails \/ WriteLine \/ WriteDone
    \/ \E cut \in FailCuts : WriteFails(cut)

Next ==
    \/ \E n \in 1..MaxBatch : AppendItems(n)
    \/ FlushAppended
    \/ \E kind \in Barriers : Barrier(kind)
    \/ Cancel
    \/ WriterStep
    \/ \E cut \in CrashCuts : Crash(cut)
    \/ Resume

Spec == Init /\ [][Next]_vars

\* tokio polls the writer task and the caller that sends its flush.
FairSpec == Spec /\ WF_vars(WriterStep) /\ WF_vars(FlushAppended)

-----------------------------------------------------------------------------
(* Properties.                                                             *)

\* "Flush all queued writes and wait until they are committed": every record
\* that a successful persist, flush or shutdown covered can be read from the
\* file, whatever failed, was retried or crashed before or after.
AckedDurable == due \subseteq OnDisk

\* Readers see the records in the order in which they were queued: a retry
\* never puts an older record behind a newer one.
InOrder ==
    \A i, j \in WholeLines : i < j => file[i].item <= file[j].item

\* The line has the record and the ordinal of the line that was read before it.
Repeats(i) ==
    LET last == LastRead(i)
    IN  last # 0 /\ file[last].item = file[i].item /\ file[last].ord = file[i].ord

\* "SQLite is a rebuildable view" and "a same-ordinal retry [may] replace a
\* failed write": after any crashes and failed writes the projection accepts
\* every line of the file, except for the repetition of a record whose write
\* failed with only its newline missing.  That line read_projection_steps
\* refuses; no other, and none if no write has failed.
Rebuildable ==
    \A i \in 1..Len(file) : Readable(i) => Accepts(i) \/ (failures > 0 /\ Repeats(i))

\* "Persist makes the thread durable": once a barrier has succeeded the thread
\* can be resumed, unless a failed write tore the very line that names it.
ResumeAccepts == due # {} => Resumable \/ (failures > 0 /\ ~file[1].whole)

\* Every operation of the live writer is answered, with an error perhaps.
OperationEnds == caller # "idle" ~> caller = "idle"

=============================================================================
