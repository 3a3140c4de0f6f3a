------------------------ MODULE RolloutWriterProofs ------------------------
(***************************************************************************)
(* Proofs about RolloutWriter, for any number of records, operations, I/O  *)
(* errors, crashes and resumes and for every way in which a write can be   *)
(* cut off: the state keeps its type, with at most the last line of the    *)
(* file unterminated; what a successful barrier covered stays readable in  *)
(* the file, where the records are in the order of the queue; and a thread *)
(* that was made durable can be resumed. The projection accepts every line *)
(* of the file in every state, except for one that repeats the record of a *)
(* write that failed with only its newline missing.                        *)
(*                                                                         *)
(* AckedDurable is not inductive: a barrier succeeds when the buffer is    *)
(* empty. That this says something about the records queued before the     *)
(* barrier rests on the order of the channel (QueueOK: the writer has      *)
(* received everything that was queued before the barrier it executes) and *)
(* on what leaving the buffer means (Kept: a record that is neither        *)
(* buffered nor queued is in the file or was lost with its process).       *)
(*                                                                         *)
(* ResumeAccepts needs to know who can tear the first line (FirstLine),    *)
(* Rebuildable that a whole line has the ordinal after the whole line      *)
(* before it, or repeats it, and the writer goes on from the last one      *)
(* (Dense).                                                                *)
(***************************************************************************)
EXTENDS RolloutWriter, FiniteSetTheorems, SequenceTheorems, TLAPS

Alive == wpc \in {"recv", "open", "write"}

\* Whoever holds a file handle has a terminated file before it.
Clean ==
    /\ wpc = "write" => open
    /\ open => \A i \in 1..Len(file) : file[i].newline

\* A channel that takes the writer from record t to record a: additions go up,
\* a barrier stands for what was queued before it.
Ordered(q, t, a) ==
    /\ \A i \in 1..Len(q) : q[i].upto <= a
    /\ \A i \in 1..Len(q) :
           /\ (IF i = 1 THEN t ELSE q[i - 1].upto) <= q[i].upto
           /\ q[i].kind \in Barriers => q[i].upto = (IF i = 1 THEN t ELSE q[i - 1].upto)
    /\ IF Len(q) = 0 THEN t = a ELSE q[Len(q)].upto = a

QueueOK ==
    /\ Alive => Ordered(queue, taken, added)
    /\ ~Alive => queue = <<>> /\ caller = "idle"
    /\ cmd.kind \in Barriers => cmd.upto <= taken

Kept ==
    /\ meta => written = 0
    /\ deferred => written = 0 /\ ~open
    /\ ~meta => 0 \in OnDisk
    /\ \A r \in 1..written : r \in OnDisk \cup lost
    /\ ~Alive => \A r \in (written + 1)..added : r \in lost

IInv == TypeOK /\ Clean /\ QueueOK /\ Kept /\ AckedDurable

-----------------------------------------------------------------------------
(* The channel.                                                            *)

\* Sending keeps the channel in order.
LEMMA OrderedPush ==
    ASSUME NEW q \in Seq(Commands), NEW c \in Commands, NEW t \in Nat, NEW a \in Nat,
           Ordered(q, t, a), a <= c.upto, c.kind \in Barriers => c.upto = a
    PROVE  Append(q, c) \in Seq(Commands) /\ Ordered(Append(q, c), t, c.upto)
<1> DEFINE s == Append(q, c)
<1>1. /\ s \in Seq(Commands) /\ Len(s) = Len(q) + 1 /\ Len(q) \in Nat
      /\ \A i \in 1..Len(q) : s[i] = q[i]
      /\ s[Len(q) + 1] = c
    OBVIOUS
<1>2. \A i \in 1..Len(q) : q[i] \in Commands OBVIOUS
<1>3. c.upto \in Nat /\ \A i \in 1..Len(q) : q[i].upto \in Nat BY <1>2 DEF Commands
<1> HIDE DEF s
<1>4. \A i \in 1..Len(s) : s[i].upto <= c.upto BY <1>1, <1>3 DEF Ordered
<1>5. ASSUME NEW i \in 1..Len(s)
      PROVE  /\ (IF i = 1 THEN t ELSE s[i - 1].upto) <= s[i].upto
             /\ s[i].kind \in Barriers => s[i].upto = (IF i = 1 THEN t ELSE s[i - 1].upto)
    <2>1. CASE i \in 1..Len(q)
        <3>1. s[i] = q[i] /\ (i # 1 => s[i - 1] = q[i - 1]) BY <1>1, <2>1
        <3>2. QED BY <3>1, <2>1 DEF Ordered
    <2>2. CASE i = Len(q) + 1
        <3>1. s[i] = c BY <1>1, <2>2
        <3>2. (IF i = 1 THEN t ELSE s[i - 1].upto) = a BY <1>1, <2>2 DEF Ordered
        <3>3. QED BY <3>1, <3>2
    <2>3. QED BY <1>1, <2>1, <2>2
<1>6. Ordered(s, t, c.upto) BY <1>1, <1>4, <1>5 DEF Ordered
<1>7. QED BY <1>1, <1>6 DEF s

\* What receiving the first command leaves.
LEMMA OrderedTail ==
    ASSUME NEW q \in Seq(Commands), NEW t \in Nat, NEW a \in Nat, t <= a,
           q # <<>>, Ordered(q, t, a)
    PROVE  LET c == Head(q)
               u == IF c.kind = "add" THEN c.upto ELSE t
           IN  /\ c \in Commands /\ Tail(q) \in Seq(Commands)
               /\ u \in Nat /\ t <= u /\ u <= a
               /\ c.kind \in Barriers => c.upto = u
               /\ Ordered(Tail(q), u, a)
<1> DEFINE c == Head(q)
           s == Tail(q)
           u == IF c.kind = "add" THEN c.upto ELSE t
<1>1. /\ c = q[1] /\ c \in Commands /\ s \in Seq(Commands)
      /\ Len(q) \in Nat /\ Len(q) >= 1 /\ Len(s) = Len(q) - 1
      /\ \A i \in 1..Len(s) : s[i] = q[i + 1]
    OBVIOUS
<1>2. \A i \in 1..Len(q) : q[i].upto \in Nat
    <2>1. \A i \in 1..Len(q) : q[i] \in Commands OBVIOUS
    <2>2. QED BY <2>1 DEF Commands
<1>3. c.kind = "add" \/ c.kind \in Barriers BY <1>1 DEF Commands
<1>4. "add" \notin Barriers BY DEF Barriers
<1> HIDE DEF c, s
<1>5. t <= c.upto /\ c.upto <= a /\ (c.kind \in Barriers => c.upto = t)
    BY <1>1 DEF Ordered
<1>6. u = c.upto BY <1>3, <1>4, <1>5
<1>7. u \in Nat /\ t <= u /\ u <= a BY <1>1, <1>2, <1>5, <1>6
<1>8. ASSUME NEW i \in 1..Len(s)
      PROVE  /\ (IF i = 1 THEN u ELSE s[i - 1].upto) <= s[i].upto
             /\ s[i].kind \in Barriers => s[i].upto = (IF i = 1 THEN u ELSE s[i - 1].upto)
    <2>1. i + 1 \in 1..Len(q) /\ i + 1 # 1 /\ (i + 1) - 1 = i BY <1>1
    <2>2. s[i] = q[i + 1] BY <1>1
    <2>3. (IF i = 1 THEN u ELSE s[i - 1].upto) = q[i].upto
        <3>1. CASE i = 1 BY <3>1, <1>1, <1>6
        <3>2. CASE i # 1
            <4>1. i - 1 \in 1..Len(s) /\ (i - 1) + 1 = i BY <3>2, <1>1
            <4>2. QED BY <4>1, <3>2, <1>1
        <3>3. QED BY <3>1, <3>2
    <2>4. QED BY <2>1, <2>2, <2>3 DEF Ordered
<1>9. \A i \in 1..Len(s) : s[i].upto <= a BY <1>1 DEF Ordered
<1>10. IF Len(s) = 0 THEN u = a ELSE s[Len(s)].upto = a BY <1>1, <1>6 DEF Ordered
<1>11. Ordered(s, u, a)
    <2> HIDE DEF u
    <2>1. QED BY <1>8, <1>9, <1>10 DEF Ordered
<1>12. QED BY <1>1, <1>5, <1>6, <1>7, <1>11 DEF c, s

-----------------------------------------------------------------------------
(* The file only grows.                                                    *)

\* A whole line can be read once it is appended, and so can what was there.
LEMMA AppendKeeps ==
    ASSUME DiskOK, NEW l \in Lines, file' = Append(file, l),
           \A i \in 1..Len(file) : file[i].newline
    PROVE  DiskOK' /\ OnDisk \subseteq OnDisk' /\ (l.whole => l.item \in OnDisk')
           /\ (l.newline => \A i \in 1..Len(file') : file'[i].newline)
<1>1. /\ file' \in Seq(Lines) /\ Len(file') = Len(file) + 1 /\ Len(file) \in Nat
      /\ \A i \in 1..Len(file) : file'[i] = file[i]
      /\ file'[Len(file) + 1] = l
    BY DEF DiskOK
<1>2. DiskOK' BY <1>1 DEF DiskOK
<1>3. WholeLines \subseteq WholeLines' BY <1>1 DEF WholeLines
<1>4. \A i \in WholeLines : file'[i] = file[i] BY <1>1 DEF WholeLines
<1>5. OnDisk \subseteq OnDisk' BY <1>3, <1>4 DEF OnDisk
<1>6. ASSUME l.whole PROVE l.item \in OnDisk'
    <2>1. Len(file) + 1 \in WholeLines' BY <1>1, <1>6 DEF WholeLines
    <2>2. QED BY <1>1, <2>1 DEF OnDisk
<1>7. ASSUME l.newline PROVE \A i \in 1..Len(file') : file'[i].newline BY <1>1, <1>7
<1>8. QED BY <1>2, <1>5, <1>6, <1>7

LEMMA LineType ==
    ASSUME NEW i \in Nat, NEW n \in Nat
    PROVE  Line(i, n) \in Lines /\ Line(i, n).whole /\ Line(i, n).newline /\ Line(i, n).item = i
BY DEF Line, Lines

\* A write that fails leaves the file as it was or one more line.
LEMMA CutKeeps ==
    ASSUME DiskOK, NEW i \in Nat, NEW n \in Nat, NEW cut \in FailCuts \cup CrashCuts,
           file' = file \o CutLines(i, n, cut),
           \A k \in 1..Len(file) : file[k].newline
    PROVE  DiskOK' /\ OnDisk \subseteq OnDisk'
<1> DEFINE torn == [Line(i, n) EXCEPT !.whole = FALSE, !.newline = FALSE]
           bare == [Line(i, n) EXCEPT !.newline = FALSE]
<1>1. torn \in Lines /\ bare \in Lines BY DEF Line, Lines
<1>2. cut \in {"none", "torn", "bare"} BY RolloutAssumption DEF RolloutAssumption
<1> HIDE DEF torn, bare
<1>3. CASE cut = "none"
    <2>1. CutLines(i, n, cut) = <<>> BY <1>3 DEF CutLines
    <2>2. file' = file BY <2>1 DEF DiskOK
    <2>3. QED BY <2>2 DEF DiskOK, OnDisk, WholeLines
<1>4. CASE cut = "torn"
    <2>1. CutLines(i, n, cut) = <<torn>> BY <1>4 DEF CutLines, torn
    <2>2. file' = Append(file, torn) BY <1>1, <2>1 DEF DiskOK
    <2>3. QED BY <1>1, <2>2, AppendKeeps
<1>5. CASE cut = "bare"
    <2>1. CutLines(i, n, cut) = <<bare>> BY <1>5 DEF CutLines, bare
    <2>2. file' = Append(file, bare) BY <1>1, <2>1 DEF DiskOK
    <2>3. QED BY <1>1, <2>2, AppendKeeps
<1>6. QED BY <1>2, <1>3, <1>4, <1>5

\* Terminating the last line loses nothing.
LEMMA TerminatedKeeps ==
    ASSUME DiskOK, file' = Terminated
    PROVE  DiskOK' /\ OnDisk \subseteq OnDisk' /\ \A i \in 1..Len(file') : file'[i].newline
<1>1. Len(file) \in Nat /\ file \in [1..Len(file) -> Lines] BY DEF DiskOK
<1>2. \A i \in 1..Len(file) :
          /\ Terminated[i] \in Lines /\ Terminated[i].newline
          /\ Terminated[i].item = file[i].item /\ Terminated[i].whole = file[i].whole
    BY <1>1 DEF Terminated, Lines
<1>3. Terminated \in [1..Len(file) -> Lines] BY <1>1, <1>2 DEF Terminated
<1>4. Terminated \in Seq(Lines) /\ Len(Terminated) = Len(file)
    BY <1>1, <1>3, SeqDef, LenProperties
<1>5. DiskOK' /\ \A i \in 1..Len(file') : file'[i].newline BY <1>2, <1>4 DEF DiskOK
<1>6. WholeLines' = WholeLines BY <1>2, <1>4 DEF WholeLines
<1>7. \A i \in WholeLines : file'[i].item = file[i].item BY <1>2 DEF WholeLines
<1>8. OnDisk \subseteq OnDisk' BY <1>6, <1>7 DEF OnDisk
<1>9. QED BY <1>5, <1>8

-----------------------------------------------------------------------------
(* One lemma per action.                                                   *)

LEMMA InitOK == Init => IInv
<1> SUFFICES ASSUME Init PROVE IInv OBVIOUS
<1>1. TypeOK
    <2>1. DiskOK BY DEF Init, DiskOK
    <2>2. WriterOK
        <3>1. open \in BOOLEAN /\ deferred \in BOOLEAN /\ meta \in BOOLEAN BY Zenon DEF Init
        <3>2. queue \in Seq(Commands) BY DEF Init
        <3>3. QED BY <3>1, <3>2 DEF Init, WriterOK
    <2>3. CallerOK BY RolloutAssumption DEF RolloutAssumption, Init, CallerOK
    <2>4. QED BY <2>1, <2>2, <2>3 DEF TypeOK
<1>2. Clean BY DEF Init, Clean
<1>3. QueueOK BY DEF Init, QueueOK, Alive, Ordered, NoCmd, Barriers
<1>4. Kept /\ AckedDurable BY DEF Init, Kept, Alive, AckedDurable
<1>5. QED BY <1>1, <1>2, <1>3, <1>4 DEF IInv

\* A caller sends a command: only the channel and the caller change.
LEMMA SendKeeps ==
    ASSUME IInv, Alive, NEW kind \in {"add"} \cup Barriers, NEW upto \in Nat, NEW t \in 0..MaxOps,
           added <= upto, kind \in Barriers => upto = added, Push(kind, upto, t),
           added' = upto, caller' \in {"appended", "waiting"}, ticket' = t,
           UNCHANGED <<diskVars, writerVars, taskVars, ghostVars, countVars>>
    PROVE  IInv'
<1> DEFINE c == [kind |-> kind, upto |-> upto, ticket |-> t]
<1>1. c \in Commands /\ c.upto = upto /\ c.kind = kind BY RolloutAssumption DEF Commands, RolloutAssumption
<1>2. queue' = Append(queue, c) BY DEF Push
<1> HIDE DEF c
<1>3. queue \in Seq(Commands) /\ taken \in Nat /\ added \in Nat BY DEF IInv, TypeOK, WriterOK
<1>4. Ordered(queue, taken, added) BY DEF IInv, QueueOK
<1>5. queue' \in Seq(Commands) /\ Ordered(queue', taken, upto) BY <1>1, <1>2, <1>3, <1>4, OrderedPush
<1>6. QueueOK' BY <1>5 DEF IInv, QueueOK, Alive, writerVars, taskVars
<1>7. DiskOK' /\ Clean' /\ OnDisk' = OnDisk
    BY DEF IInv, TypeOK, DiskOK, Clean, OnDisk, WholeLines, diskVars, writerVars, taskVars
<1>8. WriterOK' BY <1>5 DEF IInv, TypeOK, WriterOK, writerVars, taskVars
<1>9. CallerOK' BY DEF IInv, TypeOK, WriterOK, CallerOK, ghostVars, countVars
<1>10. Kept' /\ AckedDurable'
    BY <1>7 DEF IInv, Kept, Alive, AckedDurable, writerVars, taskVars, ghostVars
<1>11. QED BY <1>6, <1>7, <1>8, <1>9, <1>10 DEF IInv, TypeOK

LEMMA AppendItemsKeeps ==
    ASSUME IInv, NEW n \in 1..MaxBatch, AppendItems(n)
    PROVE  IInv'
<1>1. Alive /\ added \in Nat /\ ticket \in 0..MaxOps
    BY DEF AppendItems, Alive, IInv, TypeOK, WriterOK, CallerOK
<1>2. added + n \in Nat /\ added <= added + n BY <1>1, RolloutAssumption DEF RolloutAssumption
<1>3. ticket + 1 \in 0..MaxOps BY <1>1, RolloutAssumption DEF AppendItems, RolloutAssumption
<1>4. QED BY <1>1, <1>2, <1>3, SendKeeps DEF AppendItems, Barriers

LEMMA FlushAppendedKeeps ==
    ASSUME IInv, FlushAppended
    PROVE  IInv'
<1>1. Alive /\ added \in Nat /\ ticket \in 0..MaxOps
    BY DEF FlushAppended, IInv, QueueOK, TypeOK, WriterOK, CallerOK
<1>2. QED BY <1>1, SendKeeps DEF FlushAppended, Barriers

LEMMA BarrierKeeps ==
    ASSUME IInv, NEW kind \in Barriers, Barrier(kind)
    PROVE  IInv'
<1>1. Alive /\ added \in Nat /\ ticket \in 0..MaxOps
    BY DEF Barrier, Alive, IInv, TypeOK, WriterOK, CallerOK
<1>2. ticket + 1 \in 0..MaxOps BY <1>1, RolloutAssumption DEF Barrier, RolloutAssumption
<1>3. kind \in {"add"} \cup Barriers /\ added <= added BY <1>1
<1>4. /\ Push(kind, added, ticket + 1) /\ added' = added /\ ticket' = ticket + 1
      /\ caller' \in {"appended", "waiting"}
      /\ UNCHANGED <<diskVars, writerVars, taskVars, ghostVars, countVars>>
    BY DEF Barrier
<1>5. QED BY <1>1, <1>2, <1>3, <1>4, SendKeeps

LEMMA CancelKeeps ==
    ASSUME IInv, Cancel
    PROVE  IInv'
<1>1. DiskOK' /\ Clean' /\ OnDisk' = OnDisk
    BY DEF Cancel, IInv, TypeOK, DiskOK, Clean, OnDisk, WholeLines, diskVars, writerVars, taskVars
<1>2. WriterOK' BY DEF Cancel, IInv, TypeOK, WriterOK, writerVars, taskVars, chanVars
<1>3. CallerOK' BY DEF Cancel, IInv, TypeOK, CallerOK, chanVars, ghostVars, countVars
<1>4. QueueOK' BY DEF Cancel, IInv, QueueOK, Alive, writerVars, taskVars, chanVars
<1>5. Kept' /\ AckedDurable'
    BY <1>1 DEF Cancel, IInv, Kept, Alive, AckedDurable, writerVars, taskVars, chanVars, ghostVars
<1>6. QED BY <1>1, <1>2, <1>3, <1>4, <1>5 DEF IInv, TypeOK

\* What an answer does, whoever gives it.
LEMMA AnswerFacts ==
    ASSUME WriterOK, CallerOK, NEW c \in Commands \cup {NoCmd}, NEW ok \in BOOLEAN, Answer(c, ok),
           c.kind \in Barriers => c.upto <= added
    PROVE  /\ cmd' = NoCmd /\ attempt' = 1
           /\ caller' \in {"idle", "appended", "waiting"}
           /\ lost \subseteq lost' /\ lost' \subseteq 0..added /\ due' \subseteq 0..added
           /\ \/ wpc' = "stopped" /\ queue' = <<>> /\ caller' = "idle"
                 /\ ok /\ c.kind = "shutdown"
                 /\ lost' = lost \cup ((taken + 1)..added)
              \/ wpc' = "recv" /\ queue' = (IF wpc = "recv" THEN Tail(queue) ELSE queue)
           /\ due' = due \/ (ok /\ c.kind \in Barriers /\ due' = due \cup Covered(c))
<1>1. cmd' = NoCmd /\ attempt' = 1 BY DEF Answer
<1>2. caller' \in {"idle", "appended", "waiting"} BY DEF Answer, CallerOK
<1>3. lost \subseteq lost' /\ lost' \subseteq 0..added
    <2>1. (taken + 1)..added \subseteq 0..added BY DEF WriterOK
    <2>2. lost' = lost \/ lost' = lost \cup ((taken + 1)..added) BY DEF Answer
    <2>3. QED BY <2>1, <2>2 DEF CallerOK
<1>4. due' = due \/ (ok /\ c.kind \in Barriers /\ due' = due \cup Covered(c)) BY DEF Answer
<1>5. due' \subseteq 0..added
    <2>1. CASE due' = due BY <2>1 DEF CallerOK
    <2>2. CASE c.kind \in Barriers /\ due' = due \cup Covered(c)
        <3>1. c.upto \in Nat BY DEF Commands, NoCmd
        <3>2. Covered(c) \subseteq 0..c.upto BY <3>1 DEF Covered
        <3>3. 0..c.upto \subseteq 0..added BY <3>1, <2>2 DEF WriterOK
        <3>4. QED BY <2>2, <3>2, <3>3 DEF CallerOK
    <2>3. QED BY <1>4, <2>1, <2>2
<1>6. \/ wpc' = "stopped" /\ queue' = <<>> /\ caller' = "idle"
         /\ ok /\ c.kind = "shutdown"
         /\ lost' = lost \cup ((taken + 1)..added)
      \/ wpc' = "recv" /\ queue' = (IF wpc = "recv" THEN Tail(queue) ELSE queue)
    BY DEF Answer
<1>7. QED BY <1>1, <1>2, <1>3, <1>4, <1>5, <1>6

\* A record that is not missing from the buffer is covered by the file.
LEMMA CoveredOnDisk ==
    ASSUME WriterOK, Kept, NEW c \in Commands \cup {NoCmd}, c.upto <= written,
           ~meta \/ (c.kind # "persist" /\ written = 0)
    PROVE  Covered(c) \subseteq OnDisk
<1>1. c.upto \in Nat BY DEF Commands, NoCmd
<1>2. ASSUME NEW r \in Covered(c) PROVE r \in OnDisk
    <2>1. r \in 0..c.upto /\ r \notin lost /\ (r = 0 => c.kind = "persist" \/ c.upto > 0)
        BY <1>1 DEF Covered
    <2>2. CASE r = 0
        <3>1. ~meta BY <1>1, <2>1, <2>2 DEF WriterOK
        <3>2. QED BY <2>2, <3>1 DEF Kept
    <2>3. CASE r # 0
        <3>1. r \in 1..written BY <1>1, <2>1, <2>3 DEF WriterOK
        <3>2. QED BY <2>1, <3>1 DEF Kept
    <2>4. QED BY <2>2, <2>3
<1>3. QED BY <1>2

LEMMA ReceiveKeeps ==
    ASSUME IInv, Receive
    PROVE  IInv'
<1> DEFINE c == Head(queue)
           got == IF c.kind = "add" THEN c.upto ELSE taken
<1>1. queue \in Seq(Commands) /\ queue # <<>> /\ taken \in Nat /\ added \in Nat /\ taken <= added
      /\ written \in Nat /\ written <= taken
    BY DEF Receive, IInv, TypeOK, WriterOK
<1>2. Ordered(queue, taken, added) BY DEF Receive, IInv, QueueOK, Alive
<1>3. /\ c \in Commands /\ Tail(queue) \in Seq(Commands)
      /\ got \in Nat /\ taken <= got /\ got <= added
      /\ c.kind \in Barriers => c.upto = got
      /\ Ordered(Tail(queue), got, added)
    BY <1>1, <1>2, OrderedTail
<1>a. c.kind = "add" => c.kind \notin Barriers BY DEF Barriers
<1>4. /\ wpc = "recv" /\ taken' = got /\ added' = added /\ ticket' = ticket
      /\ UNCHANGED <<diskVars, open, deferred, meta, next, written, countVars>>
    BY DEF Receive
<1>5. \/ /\ Answer(c, TRUE)
         /\ IsDeferred
         /\ c.kind # "add" => c.kind # "persist" /\ written = taken
      \/ /\ cmd' = c /\ attempt' = 1 /\ wpc' = "open" /\ queue' = Tail(queue)
         /\ UNCHANGED <<caller, ghostVars>>
    BY DEF Receive
<1> HIDE DEF c, got
<1>6. DiskOK' /\ OnDisk' = OnDisk
    BY <1>4 DEF IInv, TypeOK, DiskOK, OnDisk, WholeLines, diskVars
<1>7. CASE Answer(c, TRUE) /\ IsDeferred /\ (c.kind # "add" => c.kind # "persist" /\ written = taken)
    <2>1. WriterOK /\ CallerOK /\ Kept BY DEF IInv, TypeOK
    <2>2. /\ cmd' = NoCmd /\ attempt' = 1
          /\ caller' \in {"idle", "appended", "waiting"}
          /\ lost \subseteq lost' /\ lost' \subseteq 0..added /\ due' \subseteq 0..added
          /\ \/ wpc' = "stopped" /\ queue' = <<>> /\ caller' = "idle" /\ c.kind = "shutdown"
                /\ lost' = lost \cup ((taken + 1)..added)
             \/ wpc' = "recv" /\ queue' = Tail(queue)
          /\ due' = due \/ (c.kind \in Barriers /\ due' = due \cup Covered(c))
        BY <1>3, <1>4, <1>7, <2>1, AnswerFacts
    <2>3. Clean' BY <1>4, <2>2 DEF IInv, Clean, diskVars
    <2>4. WriterOK'
        <3>a. <<>> \in Seq(Commands) OBVIOUS
        <3>1. queue' \in Seq(Commands) /\ wpc' \in {"recv", "stopped"} BY <1>3, <2>2, <3>a
        <3>2. QED BY <1>1, <1>3, <1>4, <2>1, <2>2, <3>1 DEF WriterOK
    <2>5. CallerOK' BY <1>4, <2>1, <2>2 DEF CallerOK, countVars
    <2>6. QueueOK' BY <1>3, <1>4, <2>2 DEF QueueOK, Alive, NoCmd, Barriers
    <2>7. c.kind = "shutdown" => written = taken /\ got = taken BY <1>7 DEF got
    <2>8. Kept' BY <1>1, <1>4, <1>6, <2>1, <2>2, <2>7 DEF Kept, Alive
    <2>9. c.kind \in Barriers => Covered(c) \subseteq OnDisk
        <3>1. ASSUME c.kind \in Barriers
              PROVE  c.upto <= written /\ c.kind # "persist" /\ written = 0
            BY <3>1, <1>1, <1>3, <1>a, <1>7, <2>1 DEF IsDeferred, Kept, got
        <3>2. QED BY <1>3, <2>1, <3>1, CoveredOnDisk
    <2>10. AckedDurable' BY <1>6, <2>2, <2>9 DEF IInv, AckedDurable
    <2>11. QED BY <1>6, <2>3, <2>4, <2>5, <2>6, <2>8, <2>10 DEF IInv, TypeOK
<1>8. CASE /\ cmd' = c /\ attempt' = 1 /\ wpc' = "open" /\ queue' = Tail(queue)
           /\ UNCHANGED <<caller, ghostVars>>
    <2>1. Clean' BY <1>4, <1>8 DEF IInv, Clean, diskVars
    <2>2. WriterOK' BY <1>1, <1>3, <1>4, <1>8 DEF IInv, TypeOK, WriterOK
    <2>3. CallerOK' BY <1>4, <1>8 DEF IInv, TypeOK, CallerOK, countVars, ghostVars
    <2>4. QueueOK' BY <1>3, <1>4, <1>8 DEF QueueOK, Alive
    <2>5. Kept' BY <1>4, <1>6, <1>8 DEF IInv, Kept, Alive, ghostVars
    <2>6. AckedDurable' BY <1>6, <1>8 DEF IInv, AckedDurable, ghostVars
    <2>7. QED BY <1>6, <2>1, <2>2, <2>3, <2>4, <2>5, <2>6 DEF IInv, TypeOK
<1>9. QED BY <1>5, <1>7, <1>8

LEMMA OpenFileKeeps ==
    ASSUME IInv, OpenFile
    PROVE  IInv'
<1>1. /\ wpc = "open" /\ file' = (IF open THEN file ELSE Terminated)
      /\ open' = TRUE /\ deferred' = FALSE /\ wpc' = "write"
      /\ UNCHANGED <<meta, next, written, taken, cmd, attempt, added, queue, caller, ticket,
                     due, lost, failures, crashes, resumes>>
    BY DEF OpenFile, chanVars, callVars, ghostVars, countVars
<1>2. DiskOK' /\ OnDisk \subseteq OnDisk' /\ \A i \in 1..Len(file') : file'[i].newline
    <2>1. CASE open BY <1>1, <2>1 DEF IInv, TypeOK, DiskOK, Clean, OnDisk, WholeLines
    <2>2. CASE ~open BY <1>1, <2>2, TerminatedKeeps DEF IInv, TypeOK
    <2>3. QED BY <2>1, <2>2
<1>3. Clean' BY <1>1, <1>2 DEF Clean
<1>4. WriterOK' BY <1>1 DEF IInv, TypeOK, WriterOK
<1>5. CallerOK' BY <1>1 DEF IInv, TypeOK, CallerOK
<1>6. QueueOK' BY <1>1 DEF IInv, QueueOK, Alive
<1>7. Kept' /\ AckedDurable' BY <1>1, <1>2 DEF IInv, Kept, Alive, AckedDurable
<1>8. QED BY <1>2, <1>3, <1>4, <1>5, <1>6, <1>7 DEF IInv, TypeOK

LEMMA WriteLineKeeps ==
    ASSUME IInv, WriteLine
    PROVE  IInv'
<1>1. /\ wpc = "write" /\ ~NothingLeft /\ file' = Append(file, Line(NextItem, next))
      /\ next' = next + 1 /\ meta' = FALSE /\ written' = (IF meta THEN written ELSE written + 1)
      /\ UNCHANGED <<open, deferred, taken, cmd, attempt, wpc, added, queue, caller, ticket,
                     due, lost, failures, crashes, resumes>>
    BY DEF WriteLine, taskVars, chanVars, callVars, ghostVars, countVars
<1>2. /\ written \in Nat /\ taken \in Nat /\ written <= taken /\ next \in Nat /\ meta \in BOOLEAN
    BY DEF IInv, TypeOK, WriterOK
<1>3. NextItem \in Nat BY <1>2 DEF NextItem
<1>4. open BY <1>1 DEF IInv, Clean
<1>5. /\ DiskOK' /\ OnDisk \subseteq OnDisk' /\ NextItem \in OnDisk'
      /\ \A i \in 1..Len(file') : file'[i].newline
    BY <1>1, <1>2, <1>3, <1>4, LineType, AppendKeeps DEF IInv, TypeOK, Clean
<1>6. Clean' BY <1>4, <1>1, <1>5 DEF Clean
<1>7. written' \in Nat /\ written' <= taken BY <1>1, <1>2 DEF NothingLeft
<1>8. WriterOK'
    <2>1. meta' \in BOOLEAN BY <1>1, Zenon
    <2>2. QED BY <1>1, <1>2, <1>7, <2>1 DEF IInv, TypeOK, WriterOK
<1>9. CallerOK' BY <1>1 DEF IInv, TypeOK, CallerOK
<1>10. QueueOK' BY <1>1 DEF IInv, QueueOK, Alive
<1>11. Kept'
    <2>1. Alive' BY <1>1 DEF Alive
    <2>2. 0 \in OnDisk' BY <1>5 DEF NextItem, IInv, Kept
    <2>3. ~deferred BY <1>4 DEF IInv, Kept
    <2>4. \A r \in 1..written' : r \in OnDisk' \cup lost'
        BY <1>1, <1>2, <1>5 DEF NextItem, IInv, Kept
    <2>5. QED BY <1>1, <2>1, <2>2, <2>3, <2>4 DEF Kept
<1>12. AckedDurable' BY <1>1, <1>5 DEF IInv, AckedDurable
<1>13. QED BY <1>5, <1>6, <1>8, <1>9, <1>10, <1>11, <1>12 DEF IInv, TypeOK

\* A failure, whatever it left in the file, keeps the buffer.
LEMMA FailKeeps ==
    ASSUME IInv, Fail, wpc \in {"open", "write"}, failures < MaxFailures,
           DiskOK', OnDisk \subseteq OnDisk'
    PROVE  IInv'
<1>1. /\ open' = FALSE /\ failures' = failures + 1
      /\ UNCHANGED <<deferred, meta, next, written, taken, added, ticket, crashes, resumes>>
    BY DEF Fail
<1>2. /\ WriterOK /\ CallerOK /\ Kept /\ cmd \in Commands \cup {NoCmd}
      /\ cmd.kind \in Barriers => cmd.upto <= taken
    BY DEF IInv, TypeOK, WriterOK, QueueOK
<1>3. cmd.kind \in Barriers => cmd.upto <= added
    <2>1. cmd.upto \in Nat BY <1>2 DEF Commands, NoCmd
    <2>2. QED BY <1>2, <2>1 DEF WriterOK
<1>4. /\ cmd' \in {cmd, NoCmd} /\ attempt' \in {1, 2} /\ wpc' \in {"open", "recv"}
      /\ queue' = queue /\ due' = due /\ lost' = lost
      /\ caller' \in {"idle", "appended", "waiting"}
    <2>1. CASE attempt = 1 BY <1>2, <2>1 DEF Fail, CallerOK, ghostVars
    <2>2. CASE attempt # 1 BY <1>2, <2>2 DEF Fail, Answer, CallerOK
    <2>3. QED BY <2>1, <2>2
<1>5. Clean' BY <1>1, <1>4 DEF Clean
<1>6. WriterOK' BY <1>1, <1>2, <1>4 DEF WriterOK
<1>7. CallerOK' BY <1>1, <1>2, <1>4, RolloutAssumption DEF CallerOK, RolloutAssumption
<1>8. QueueOK' BY <1>1, <1>4 DEF IInv, QueueOK, Alive, NoCmd, Barriers
<1>9. Kept' /\ AckedDurable' BY <1>1, <1>4 DEF IInv, Kept, Alive, AckedDurable
<1>10. QED BY <1>5, <1>6, <1>7, <1>8, <1>9 DEF IInv, TypeOK

LEMMA OpenFailsKeeps ==
    ASSUME IInv, OpenFails
    PROVE  IInv'
<1>1. DiskOK' /\ OnDisk' = OnDisk
    BY DEF OpenFails, diskVars, IInv, TypeOK, DiskOK, OnDisk, WholeLines
<1>2. QED BY <1>1, FailKeeps DEF OpenFails

\* The record a write is about: there is one, and its file is clean.
LEMMA WriteFacts ==
    ASSUME IInv, wpc = "write"
    PROVE  /\ NextItem \in Nat /\ next \in Nat
           /\ \A i \in 1..Len(file) : file[i].newline
<1>1. NextItem \in Nat /\ next \in Nat BY DEF IInv, TypeOK, WriterOK, NextItem
<1>2. QED BY <1>1 DEF IInv, Clean

LEMMA WriteFailsKeeps ==
    ASSUME IInv, NEW cut \in FailCuts, WriteFails(cut)
    PROVE  IInv'
<1>1. DiskOK' /\ OnDisk \subseteq OnDisk'
    BY WriteFacts, CutKeeps DEF WriteFails, IInv, TypeOK
<1>2. QED BY <1>1, FailKeeps DEF WriteFails

LEMMA WriteDoneKeeps ==
    ASSUME IInv, WriteDone
    PROVE  IInv'
<1>1. /\ wpc = "write" /\ NothingLeft /\ Answer(cmd, TRUE)
      /\ UNCHANGED <<file, open, deferred, meta, next, written, taken, added, ticket,
                     failures, crashes, resumes>>
    BY DEF WriteDone, diskVars, writerVars, countVars
<1>2. /\ WriterOK /\ CallerOK /\ Kept /\ cmd \in Commands \cup {NoCmd}
      /\ cmd.kind \in Barriers => cmd.upto <= taken
    BY DEF IInv, TypeOK, WriterOK, QueueOK
<1>3. cmd.kind \in Barriers => cmd.upto <= added
    <2>1. cmd.upto \in Nat BY <1>2 DEF Commands, NoCmd
    <2>2. QED BY <1>2, <2>1 DEF WriterOK
<1>4. /\ cmd' = NoCmd /\ attempt' = 1
      /\ caller' \in {"idle", "appended", "waiting"}
      /\ lost \subseteq lost' /\ lost' \subseteq 0..added /\ due' \subseteq 0..added
      /\ \/ wpc' = "stopped" /\ queue' = <<>> /\ caller' = "idle"
            /\ lost' = lost \cup ((taken + 1)..added)
         \/ wpc' = "recv" /\ queue' = queue
      /\ due' = due \/ (cmd.kind \in Barriers /\ due' = due \cup Covered(cmd))
    BY <1>1, <1>2, <1>3, AnswerFacts
<1>5. DiskOK' /\ OnDisk' = OnDisk BY <1>1 DEF IInv, TypeOK, DiskOK, OnDisk, WholeLines
<1>6. Clean' BY <1>1, <1>4 DEF IInv, Clean
<1>7. WriterOK'
    <2>a. <<>> \in Seq(Commands) OBVIOUS
    <2>1. queue' \in Seq(Commands) /\ wpc' \in {"recv", "stopped"} BY <1>2, <1>4, <2>a DEF WriterOK
    <2>2. QED BY <1>1, <1>2, <1>4, <2>1 DEF WriterOK
<1>8. CallerOK' BY <1>1, <1>2, <1>4 DEF CallerOK
<1>9. QueueOK' BY <1>1, <1>4 DEF IInv, QueueOK, Alive, NoCmd, Barriers
<1>10. Kept' BY <1>1, <1>2, <1>4, <1>5 DEF Kept, Alive, NothingLeft
<1>11. cmd.kind \in Barriers => Covered(cmd) \subseteq OnDisk
    BY <1>1, <1>2, CoveredOnDisk DEF NothingLeft
<1>12. AckedDurable' BY <1>4, <1>5, <1>11 DEF IInv, AckedDurable
<1>13. QED BY <1>5, <1>6, <1>7, <1>8, <1>9, <1>10, <1>12 DEF IInv, TypeOK

LEMMA CrashKeeps ==
    ASSUME IInv, NEW cut \in CrashCuts, Crash(cut)
    PROVE  IInv'
<1>1. /\ crashes < MaxCrashes /\ crashes' = crashes + 1 /\ wpc' = "dead"
      /\ lost' = lost \cup ((written + 1)..added)
      /\ queue' = <<>> /\ cmd' = NoCmd /\ attempt' = 1 /\ caller' = "idle" /\ open' = FALSE
      /\ UNCHANGED <<deferred, meta, next, written, taken, added, ticket, due, failures, resumes>>
    BY DEF Crash
<1>2. DiskOK' /\ OnDisk \subseteq OnDisk'
    <2>1. CASE wpc = "write" /\ ~NothingLeft
        BY <2>1, WriteFacts, CutKeeps DEF Crash, IInv, TypeOK
    <2>2. CASE ~(wpc = "write" /\ ~NothingLeft)
        BY <2>2 DEF Crash, IInv, TypeOK, DiskOK, OnDisk, WholeLines
    <2>3. QED BY <2>1, <2>2
<1>3. Clean' BY <1>1 DEF Clean
<1>4. WriterOK'
    <2>1. queue' \in Seq(Commands) BY <1>1
    <2>2. QED BY <1>1, <2>1 DEF IInv, TypeOK, WriterOK
<1>5. CallerOK'
    <2>1. lost' \subseteq 0..added BY <1>1 DEF IInv, TypeOK, WriterOK, CallerOK
    <2>2. QED BY <1>1, <2>1, RolloutAssumption DEF RolloutAssumption, IInv, TypeOK, CallerOK
<1>6. QueueOK' BY <1>1 DEF QueueOK, Alive, NoCmd, Barriers
<1>7. Kept' /\ AckedDurable' BY <1>1, <1>2 DEF IInv, Kept, Alive, AckedDurable
<1>8. QED BY <1>2, <1>3, <1>4, <1>5, <1>6, <1>7 DEF IInv, TypeOK

\* The last one of some lines.
LEMMA LastExists ==
    ASSUME NEW n \in Nat, NEW S \in SUBSET (1..n), NEW e \in S
    PROVE  \E last \in S : \A j \in S : j <= last
<1> DEFINE T == {n - i : i \in S}
           R == OpToRel(<, Nat)
<1>1. T \subseteq Nat /\ T # {} OBVIOUS
<1>2. IsWellFoundedOn(R, Nat) BY NatLessThanWellFounded
<1>3. ASSUME NEW x \in Nat, NEW y \in Nat, y < x PROVE <<y, x>> \in R BY <1>3 DEF OpToRel
<1> HIDE DEF R
<1>4. PICK x \in T : \A y \in T : ~(<<y, x>> \in R) BY <1>1, <1>2, WFMin
<1>5. \A y \in T : ~(y < x) BY <1>1, <1>3, <1>4
<1>6. PICK last \in S : x = n - last BY <1>4
<1>7. ASSUME NEW j \in S PROVE j <= last
    <2>1. n - j \in T OBVIOUS
    <2> HIDE DEF T
    <2>2. ~(n - j < n - last) BY <1>5, <1>6, <2>1
    <2>3. QED BY <2>2
<1>8. QED BY <1>7

LEMMA ResumeKeeps ==
    ASSUME IInv, Resume
    PROVE  IInv'
<1>1. /\ ~Alive /\ Resumable /\ file' = Terminated /\ next' = NextOrdinal
      /\ resumes < MaxResumes /\ resumes' = resumes + 1
      /\ open' = TRUE /\ deferred' = FALSE /\ meta' = FALSE
      /\ written' = added /\ taken' = added /\ wpc' = "recv" /\ attempt' = 1
      /\ UNCHANGED <<cmd, added, queue, caller, ticket, due, lost, failures, crashes>>
    BY DEF Resume, Alive, chanVars, callVars, ghostVars
<1>2. DiskOK' /\ OnDisk \subseteq OnDisk' /\ \A i \in 1..Len(file') : file'[i].newline
    BY <1>1, TerminatedKeeps DEF IInv, TypeOK
<1>3. 1 \in WholeLines /\ 0 \in OnDisk
    <2>1. Len(file) \in Nat /\ Len(file) >= 1 BY <1>1 DEF Resumable, IInv, TypeOK, DiskOK
    <2>2. 1 \in WholeLines BY <1>1, <2>1 DEF Resumable, WholeLines
    <2>3. QED BY <1>1, <2>2 DEF Resumable, OnDisk
<1>4. next' \in Nat
    <2>1. PICK last \in WholeLines : next' = file[last].ord + 1
        <3>1. \E last \in WholeLines : \A j \in WholeLines : j <= last
            <4>1. WholeLines \subseteq 1..Len(file) /\ Len(file) \in Nat
                BY DEF WholeLines, IInv, TypeOK, DiskOK
            <4>2. QED BY <1>3, <4>1, LastExists
        <3>2. QED BY <1>1, <3>1 DEF NextOrdinal
    <2>2. file[last] \in Lines BY <2>1 DEF WholeLines, IInv, TypeOK, DiskOK
    <2>3. QED BY <2>1, <2>2 DEF Lines
<1>5. Clean' BY <1>1, <1>2 DEF Clean
<1>6. WriterOK'
    <2>1. open' \in BOOLEAN /\ deferred' \in BOOLEAN /\ meta' \in BOOLEAN BY <1>1, Zenon
    <2>2. QED BY <1>1, <1>4, <2>1 DEF IInv, TypeOK, WriterOK
<1>7. CallerOK'
    BY <1>1, RolloutAssumption DEF RolloutAssumption, IInv, TypeOK, CallerOK
<1>8. QueueOK'
    <2>1. Ordered(<<>>, added, added) BY DEF Ordered
    <2>2. queue' = <<>> /\ added' = added /\ taken' = added BY <1>1 DEF IInv, QueueOK
    <2>3. cmd'.kind \in Barriers => cmd'.upto <= taken'
        <3>1. cmd \in Commands \cup {NoCmd} /\ taken <= added /\ taken \in Nat /\ added \in Nat
            BY DEF IInv, TypeOK, WriterOK
        <3>2. cmd.upto \in Nat BY <3>1 DEF Commands, NoCmd
        <3>3. QED BY <1>1, <3>1, <3>2 DEF IInv, QueueOK
    <2>4. QED BY <1>1, <2>1, <2>2, <2>3 DEF QueueOK, Alive
<1>9. Kept'
    <2>1. \A r \in 1..added : r \in OnDisk \cup lost
        <3>1. \A r \in 1..added : r \in 1..written \/ r \in (written + 1)..added
            BY DEF IInv, TypeOK, WriterOK
        <3>2. QED BY <1>1, <3>1 DEF IInv, Kept
    <2>2. QED BY <1>1, <1>2, <1>3, <2>1 DEF Kept, Alive
<1>10. AckedDurable' BY <1>1, <1>2 DEF IInv, AckedDurable
<1>11. QED BY <1>2, <1>5, <1>6, <1>7, <1>8, <1>9, <1>10 DEF IInv, TypeOK

-----------------------------------------------------------------------------
LEMMA NextOK == IInv /\ [Next]_vars => IInv'
<1> SUFFICES ASSUME IInv, [Next]_vars PROVE IInv' OBVIOUS
<1>1. CASE UNCHANGED vars
    <2>1. UNCHANGED <<file, open, deferred, meta, next, written, taken, cmd, attempt, wpc, added,
                      queue, caller, ticket, due, lost, failures, crashes, resumes>>
        BY <1>1 DEF vars, diskVars, writerVars, taskVars, chanVars, callVars, ghostVars, countVars
    <2>2. DiskOK' /\ OnDisk' = OnDisk BY <2>1 DEF IInv, TypeOK, DiskOK, OnDisk, WholeLines
    <2>3. WriterOK' /\ CallerOK' BY <2>1 DEF IInv, TypeOK, WriterOK, CallerOK
    <2>4. Clean' /\ QueueOK' BY <2>1 DEF IInv, Clean, QueueOK, Alive
    <2>5. Kept' /\ AckedDurable' BY <2>1, <2>2 DEF IInv, Kept, Alive, AckedDurable
    <2>6. QED BY <2>2, <2>3, <2>4, <2>5 DEF IInv, TypeOK
<1>2. CASE \E n \in 1..MaxBatch : AppendItems(n) BY <1>2, AppendItemsKeeps
<1>3. CASE FlushAppended BY <1>3, FlushAppendedKeeps
<1>4. CASE \E kind \in Barriers : Barrier(kind) BY <1>4, BarrierKeeps
<1>5. CASE Cancel BY <1>5, CancelKeeps
<1>6. CASE WriterStep
    BY <1>6, ReceiveKeeps, OpenFileKeeps, OpenFailsKeeps, WriteLineKeeps, WriteDoneKeeps,
       WriteFailsKeeps DEF WriterStep
<1>7. CASE \E cut \in CrashCuts : Crash(cut) BY <1>7, CrashKeeps
<1>8. CASE Resume BY <1>8, ResumeKeeps
<1>9. QED BY <1>1, <1>2, <1>3, <1>4, <1>5, <1>6, <1>7, <1>8 DEF Next

\* The writer's state keeps its type and only the last line of the file may
\* be unterminated (open_log_file, open_rollout_for_append).
THEOREM TypeCorrect == Spec => []TypeOK
<1>1. IInv => TypeOK BY DEF IInv
<1>2. QED BY InitOK, NextOK, <1>1, PTL DEF Spec

\* flush, persist and shutdown of the recorder: what a successful barrier
\* covered is in the file for good.
THEOREM AckedRecordsDurable == Spec => []AckedDurable
<1>1. IInv => AckedDurable BY DEF IInv
<1>2. QED BY InitOK, NextOK, <1>1, PTL DEF Spec

-----------------------------------------------------------------------------
(* The order of the records.  A failed write may leave the record that is  *)
(* written next in the file already, but never one behind it.              *)

Behind == \A i \in WholeLines : file[i].item <= NextItem

\* Appending the record to write next, whole or in part, keeps the order.
LEMMA AppendInOrder ==
    ASSUME IInv, InOrder, Behind, NEW l \in Lines, l.item = NextItem, file' = Append(file, l)
    PROVE  InOrder' /\ \A i \in WholeLines' : file'[i].item <= NextItem
<1>1. /\ Len(file') = Len(file) + 1 /\ Len(file) \in Nat
      /\ \A i \in 1..Len(file) : file'[i] = file[i]
      /\ file'[Len(file) + 1] = l
    BY DEF IInv, TypeOK, DiskOK
<1>2. NextItem \in Nat BY DEF IInv, TypeOK, WriterOK, NextItem
<1>3. \A i \in WholeLines' : i \in WholeLines \/ i = Len(file) + 1 BY <1>1 DEF WholeLines
<1>4. \A i \in WholeLines : i \in 1..Len(file) /\ file'[i] = file[i] BY <1>1 DEF WholeLines
<1>5. \A i \in WholeLines' : file'[i].item <= NextItem BY <1>1, <1>2, <1>3, <1>4 DEF Behind
<1>6. ASSUME NEW i \in WholeLines', NEW j \in WholeLines', i < j
      PROVE  file'[i].item <= file'[j].item
    <2>1. i \in WholeLines BY <1>1, <1>3, <1>4, <1>6
    <2>2. CASE j \in WholeLines BY <1>4, <1>6, <2>1, <2>2 DEF InOrder
    <2>3. CASE j = Len(file) + 1 BY <1>1, <1>5, <2>3
    <2>4. QED BY <1>3, <2>2, <2>3
<1>7. QED BY <1>5, <1>6 DEF InOrder

\* Neither does what a write that was cut off leaves disturb it.
LEMMA CutInOrder ==
    ASSUME IInv, InOrder, Behind, NEW cut \in FailCuts \cup CrashCuts,
           file' = file \o CutLines(NextItem, next, cut)
    PROVE  InOrder' /\ \A i \in WholeLines' : file'[i].item <= NextItem
<1> DEFINE torn == [Line(NextItem, next) EXCEPT !.whole = FALSE, !.newline = FALSE]
           bare == [Line(NextItem, next) EXCEPT !.newline = FALSE]
<1>1. NextItem \in Nat /\ next \in Nat BY DEF IInv, TypeOK, WriterOK, NextItem
<1>2. torn \in Lines /\ bare \in Lines /\ torn.item = NextItem /\ bare.item = NextItem
    BY <1>1 DEF Line, Lines
<1>3. cut \in {"none", "torn", "bare"} BY RolloutAssumption DEF RolloutAssumption
<1>4. file \in Seq(Lines) BY DEF IInv, TypeOK, DiskOK
<1> HIDE DEF torn, bare
<1>5. CASE cut = "none"
    <2>1. CutLines(NextItem, next, cut) = <<>> BY <1>5 DEF CutLines
    <2>2. file' = file BY <1>4, <2>1
    <2>3. QED BY <2>2 DEF InOrder, Behind, WholeLines
<1>6. CASE cut = "torn"
    <2>1. CutLines(NextItem, next, cut) = <<torn>> BY <1>6 DEF CutLines, torn
    <2>2. file' = Append(file, torn) BY <1>2, <1>4, <2>1
    <2>3. QED BY <1>2, <2>2, AppendInOrder
<1>7. CASE cut = "bare"
    <2>1. CutLines(NextItem, next, cut) = <<bare>> BY <1>7 DEF CutLines, bare
    <2>2. file' = Append(file, bare) BY <1>2, <1>4, <2>1
    <2>3. QED BY <1>2, <2>2, AppendInOrder
<1>8. QED BY <1>3, <1>5, <1>6, <1>7

\* Nor does terminating the last line.
LEMMA TerminatedInOrder ==
    ASSUME IInv, InOrder, Behind, file' = Terminated
    PROVE  InOrder' /\ \A i \in WholeLines' : file'[i].item <= NextItem
<1>1. Len(file) \in Nat /\ file \in [1..Len(file) -> Lines] BY DEF IInv, TypeOK, DiskOK
<1>2. \A i \in 1..Len(file) :
          /\ Terminated[i] \in Lines
          /\ Terminated[i].item = file[i].item /\ Terminated[i].whole = file[i].whole
    BY <1>1 DEF Terminated, Lines
<1>3. Terminated \in [1..Len(file) -> Lines] BY <1>1, <1>2 DEF Terminated
<1>4. Len(Terminated) = Len(file) BY <1>1, <1>3, SeqDef, LenProperties
<1>5. WholeLines' = WholeLines BY <1>2, <1>4 DEF WholeLines
<1>6. \A i \in WholeLines : file'[i].item = file[i].item BY <1>2 DEF WholeLines
<1>7. QED BY <1>5, <1>6 DEF InOrder, Behind

LEMMA OrderStep ==
    ASSUME IInv, InOrder, Behind, [Next]_vars
    PROVE  InOrder' /\ Behind'
<1>t. /\ written \in Nat /\ taken \in Nat /\ added \in Nat /\ written <= taken /\ taken <= added
      /\ NextItem \in Nat /\ meta \in BOOLEAN /\ (meta => written = 0)
    BY DEF IInv, TypeOK, WriterOK, NextItem, Kept
<1>w. \A i \in WholeLines : file[i].item \in Nat
    <2>1. \A i \in WholeLines : file[i] \in Lines BY DEF WholeLines, IInv, TypeOK, DiskOK
    <2>2. QED BY <2>1 DEF Lines
<1>1. CASE file' = file /\ meta' = meta /\ written' = written
    BY <1>1 DEF InOrder, Behind, WholeLines, NextItem
<1>2. CASE WriterStep
    <2>1. CASE OpenFile
        <3>1. CASE open BY <1>1, <2>1, <3>1 DEF OpenFile
        <3>2. CASE ~open
            BY <2>1, <3>2, TerminatedInOrder DEF OpenFile, Behind, NextItem
        <3>3. QED BY <3>1, <3>2
    <2>2. CASE WriteLine
        <3>1. Line(NextItem, next) \in Lines /\ Line(NextItem, next).item = NextItem
            BY <1>t, LineType DEF IInv, TypeOK, WriterOK
        <3>2. InOrder' /\ \A i \in WholeLines' : file'[i].item <= NextItem
            BY <2>2, <3>1, AppendInOrder DEF WriteLine
        <3>3. NextItem' \in Nat /\ NextItem <= NextItem' BY <1>t, <2>2 DEF WriteLine, NextItem
        <3>4. \A i \in WholeLines' : file'[i].item \in Nat
            <4>1. DiskOK' BY NextOK DEF IInv, TypeOK
            <4>2. \A i \in WholeLines' : file'[i] \in Lines BY <4>1 DEF WholeLines, DiskOK
            <4>3. QED BY <4>2 DEF Lines
        <3>5. QED BY <1>t, <3>2, <3>3, <3>4 DEF Behind
    <2>3. CASE \E cut \in FailCuts : WriteFails(cut)
        <3>1. PICK cut \in FailCuts : WriteFails(cut) BY <2>3
        <3>2. /\ file' = file \o CutLines(NextItem, next, cut)
              /\ meta' = meta /\ written' = written
            BY <3>1 DEF WriteFails, Fail
        <3>3. InOrder' /\ \A i \in WholeLines' : file'[i].item <= NextItem
            BY <3>2, CutInOrder
        <3>4. NextItem' = NextItem BY <3>2 DEF NextItem
        <3>5. QED BY <3>3, <3>4 DEF Behind
    <2>4. CASE Receive \/ OpenFails \/ WriteDone
        BY <1>1, <2>4 DEF Receive, OpenFails, Fail, WriteDone, diskVars, writerVars
    <2>5. QED BY <1>2, <2>1, <2>2, <2>3, <2>4 DEF WriterStep
<1>3. CASE \E cut \in CrashCuts : Crash(cut)
    <2>1. PICK cut \in CrashCuts : Crash(cut) BY <1>3
    <2>2. CASE wpc = "write" /\ ~NothingLeft
        BY <2>1, <2>2, CutInOrder DEF Crash, Behind, NextItem
    <2>3. CASE ~(wpc = "write" /\ ~NothingLeft) BY <1>1, <2>1, <2>3 DEF Crash
    <2>4. QED BY <2>2, <2>3
<1>4. CASE Resume
    <2>1. InOrder' /\ \A i \in WholeLines' : file'[i].item <= NextItem
        BY <1>4, TerminatedInOrder DEF Resume
    <2>2. NextItem' \in Nat /\ NextItem <= NextItem' BY <1>t, <1>4 DEF Resume, NextItem, chanVars
    <2>3. \A i \in WholeLines' : file'[i].item \in Nat
        <3>1. DiskOK' BY NextOK DEF IInv, TypeOK
        <3>2. \A i \in WholeLines' : file'[i] \in Lines BY <3>1 DEF WholeLines, DiskOK
        <3>3. QED BY <3>2 DEF Lines
    <2>4. QED BY <1>t, <2>1, <2>2, <2>3 DEF Behind
<1>5. CASE \/ \E n \in 1..MaxBatch : AppendItems(n)
           \/ FlushAppended
           \/ \E kind \in Barriers : Barrier(kind)
           \/ Cancel
           \/ UNCHANGED vars
    BY <1>1, <1>5 DEF AppendItems, FlushAppended, Barrier, Cancel, vars, diskVars, writerVars
<1>6. QED BY <1>2, <1>3, <1>4, <1>5 DEF Next

\* write_pending_items_once and its retries: the records of the file are in
\* the order in which they were queued.
THEOREM RecordsInOrder == Spec => []InOrder
<1>1. Init => InOrder /\ Behind BY DEF Init, InOrder, Behind, WholeLines
<1>2. IInv /\ InOrder /\ Behind /\ [Next]_vars => InOrder' /\ Behind' BY OrderStep
<1>3. QED BY InitOK, NextOK, <1>1, <1>2, PTL DEF Spec

-----------------------------------------------------------------------------
(* What a step does to the file.                                           *)

\* The file grows by the record to write next, or by what is left of it; it is terminated; or
\* it stays.  Only resuming brings a writer to life.
FileStep ==
    \/ /\ file' = file /\ next' = next /\ meta' = meta /\ failures' >= failures
       /\ (Alive' => Alive) /\ NextItem' = NextItem
       /\ wpc = "dead" => wpc' = "dead"
    \/ /\ file' = Terminated /\ next' = next /\ meta' = meta /\ failures' = failures /\ Alive
       /\ NextItem' = NextItem
    \/ /\ file' = Append(file, Line(NextItem, next)) /\ next' = next + 1
       /\ meta' = FALSE /\ failures' = failures /\ Alive
    \/ /\ \E cut \in FailCuts : file' = file \o CutLines(NextItem, next, cut)
       /\ next' = next /\ meta' = meta /\ failures' = failures + 1 /\ Alive
       /\ NextItem' = NextItem
    \/ /\ \E cut \in CrashCuts : file' = file \o CutLines(NextItem, next, cut)
       /\ next' = next /\ meta' = meta /\ failures' = failures /\ Alive /\ wpc' = "dead"
    \/ /\ Resumable /\ file' = Terminated /\ next' = NextOrdinal /\ meta' = FALSE
       /\ failures' = failures /\ ~Alive

LEMMA FileSteps ==
    ASSUME IInv, [Next]_vars
    PROVE  FileStep
<1>0. failures \in Nat BY RolloutAssumption DEF RolloutAssumption, IInv, TypeOK, CallerOK
<1>1. CASE \/ \E n \in 1..MaxBatch : AppendItems(n)
           \/ FlushAppended
           \/ \E kind \in Barriers : Barrier(kind)
           \/ Cancel
           \/ UNCHANGED vars
    <2>1. UNCHANGED <<file, next, meta, written, failures, wpc>>
        BY <1>1 DEF AppendItems, FlushAppended, Barrier, Cancel, vars, diskVars, writerVars, taskVars, countVars
    <2> QED BY <1>0, <2>1 DEF FileStep, Alive, NextItem
<1>2. CASE Receive
    <2>1. UNCHANGED <<file, next, meta, written, failures>> /\ wpc = "recv"
        BY <1>2 DEF Receive, diskVars, countVars
    <2> QED BY <1>0, <2>1 DEF FileStep, Alive, NextItem
<1>3. CASE WriteDone
    <2>1. UNCHANGED <<file, next, meta, written, failures>> /\ wpc = "write"
        BY <1>3 DEF WriteDone, diskVars, writerVars, countVars
    <2> QED BY <1>0, <2>1 DEF FileStep, Alive, NextItem
<1>4. CASE OpenFile
    <2>1. UNCHANGED <<next, meta, written, failures>> /\ wpc = "open" /\ (file' = file \/ file' = Terminated)
        BY <1>4 DEF OpenFile, countVars
    <2> QED BY <1>0, <2>1 DEF FileStep, Alive, NextItem
<1>5. CASE OpenFails
    <2>1. UNCHANGED <<file, next, meta, written>> /\ wpc = "open" /\ failures' = failures + 1
        BY <1>5 DEF OpenFails, Fail, diskVars
    <2> QED BY <1>0, <2>1 DEF FileStep, Alive, NextItem
<1>6. CASE WriteLine
    <2>1. wpc = "write" /\ failures' = failures BY <1>6 DEF WriteLine, countVars
    <2> QED BY <1>6, <2>1 DEF WriteLine, FileStep, Alive
<1>7. ASSUME NEW cut \in FailCuts, WriteFails(cut) PROVE FileStep
    BY <1>7 DEF WriteFails, Fail, FileStep, Alive, NextItem
<1>8. ASSUME NEW cut \in CrashCuts, Crash(cut) PROVE FileStep
    <2>1. /\ UNCHANGED <<next, meta, written, failures>> /\ wpc' = "dead" /\ wpc \notin {"stopped", "dead"}
          /\ file' = file \/ file' = file \o CutLines(NextItem, next, cut)
        BY <1>8 DEF Crash
    <2>2. Alive BY <2>1 DEF Alive, IInv, TypeOK, WriterOK
    <2> QED BY <1>0, <2>1, <2>2 DEF FileStep, NextItem
<1>9. CASE Resume
    BY <1>9 DEF Resume, FileStep, Alive
<1> QED BY <1>1, <1>2, <1>3, <1>4, <1>5, <1>6, <1>7, <1>8, <1>9 DEF Next, WriterStep

\* What is left of a write is nothing or one line, which is whole if only its newline is missing.
LEMMA CutCases ==
    ASSUME IInv, NEW cut \in FailCuts \cup CrashCuts, file' = file \o CutLines(NextItem, next, cut)
    PROVE  \/ cut = "none" /\ file' = file
           \/ \E l \in Lines : /\ file' = Append(file, l) /\ l.item = NextItem /\ l.ord = next
                               /\ l.whole = (cut = "bare")
<1> DEFINE torn == [Line(NextItem, next) EXCEPT !.whole = FALSE, !.newline = FALSE]
           bare == [Line(NextItem, next) EXCEPT !.newline = FALSE]
<1>1. NextItem \in Nat /\ next \in Nat BY DEF IInv, TypeOK, WriterOK, NextItem
<1>2. torn \in Lines /\ bare \in Lines /\ torn.item = NextItem /\ bare.item = NextItem
      /\ torn.ord = next /\ bare.ord = next /\ torn.whole = FALSE /\ bare.whole = TRUE
    BY <1>1 DEF Line, Lines
<1>3. cut \in {"none", "torn", "bare"} BY RolloutAssumption DEF RolloutAssumption
<1>4. file \in Seq(Lines) BY DEF IInv, TypeOK, DiskOK
<1> HIDE DEF torn, bare
<1>5. CASE cut = "none"
    <2>1. CutLines(NextItem, next, cut) = <<>> BY <1>5 DEF CutLines
    <2>2. file' = file BY <1>4, <2>1
    <2>3. QED BY <1>5, <2>2
<1>6. CASE cut = "torn"
    <2>1. CutLines(NextItem, next, cut) = <<torn>> BY <1>6 DEF CutLines, torn
    <2>2. file' = Append(file, torn) BY <1>2, <1>4, <2>1
    <2>3. torn.whole = (cut = "bare") BY <1>2, <1>6
    <2> QED BY <1>2, <2>2, <2>3
<1>7. CASE cut = "bare"
    <2>1. CutLines(NextItem, next, cut) = <<bare>> BY <1>7 DEF CutLines, bare
    <2>2. file' = Append(file, bare) BY <1>2, <1>4, <2>1
    <2>3. bare.whole = (cut = "bare") BY <1>2, <1>7
    <2> QED BY <1>2, <2>2, <2>3
<1> QED BY <1>3, <1>5, <1>6, <1>7

LEMMA AppendedLine ==
    ASSUME IInv, NEW l \in Lines, file' = Append(file, l)
    PROVE  /\ Len(file') = Len(file) + 1 /\ Len(file) \in Nat
           /\ \A i \in 1..Len(file) : file'[i] = file[i]
           /\ file'[Len(file) + 1] = l
           /\ WholeLines' = IF l.whole THEN WholeLines \cup {Len(file) + 1} ELSE WholeLines
<1>1. /\ Len(file') = Len(file) + 1 /\ Len(file) \in Nat
      /\ \A i \in 1..Len(file) : file'[i] = file[i]
      /\ file'[Len(file) + 1] = l
    BY DEF IInv, TypeOK, DiskOK
<1>2. 1..Len(file') = 1..Len(file) \cup {Len(file) + 1} BY <1>1
<1>3. WholeLines' = IF l.whole THEN WholeLines \cup {Len(file) + 1} ELSE WholeLines
    BY <1>1, <1>2 DEF WholeLines
<1> QED BY <1>1, <1>3

LEMMA TerminatedLines ==
    ASSUME IInv, file' = Terminated
    PROVE  /\ Len(file') = Len(file) /\ Len(file) \in Nat
           /\ \A i \in 1..Len(file) : /\ file'[i].item = file[i].item /\ file'[i].ord = file[i].ord
                                      /\ file'[i].whole = file[i].whole
           /\ WholeLines' = WholeLines
<1>1. Len(file) \in Nat /\ file \in [1..Len(file) -> Lines] BY DEF IInv, TypeOK, DiskOK
<1>2. \A i \in 1..Len(file) :
          /\ Terminated[i] \in Lines /\ Terminated[i].ord = file[i].ord
          /\ Terminated[i].item = file[i].item /\ Terminated[i].whole = file[i].whole
    BY <1>1 DEF Terminated, Lines
<1>3. Terminated \in [1..Len(file) -> Lines] BY <1>1, <1>2 DEF Terminated
<1>4. Len(Terminated) = Len(file) BY <1>1, <1>3, SeqDef, LenProperties
<1>5. WholeLines' = WholeLines BY <1>2, <1>4 DEF WholeLines
<1> QED BY <1>1, <1>2, <1>4, <1>5

-----------------------------------------------------------------------------
(* The first line.                                                         *)

\* The first line is the metadata's, and only a failure or the end of the process tears it.
FirstLine ==
    /\ Len(file) > 0 => file[1].item = 0
    /\ failures = 0 /\ Len(file) > 0 /\ ~file[1].whole => Len(file) = 1 /\ wpc = "dead"
    /\ failures = 0 /\ meta /\ Alive => Len(file) = 0

LEMMA FirstLineKept ==
    ASSUME IInv, FirstLine, [Next]_vars
    PROVE  FirstLine'
<1>0. failures \in Nat /\ Len(file) \in Nat
    BY RolloutAssumption DEF RolloutAssumption, IInv, TypeOK, CallerOK, DiskOK
<1>1. Len(file) = 0 => NextItem = 0
    <2>1. ~meta => 0 \in OnDisk BY DEF IInv, Kept
    <2>2. 0 \in OnDisk => Len(file) > 0 BY <1>0 DEF OnDisk, WholeLines
    <2> QED BY <1>0, <2>1, <2>2 DEF NextItem
<1>a. Alive => wpc # "dead" BY DEF Alive
<1>2. ASSUME NEW l \in Lines, file' = Append(file, l), l.item = NextItem
      PROVE  /\ Len(file') = Len(file) + 1 /\ file'[1].item = 0
             /\ Len(file) > 0 => file'[1] = file[1]
             /\ Len(file) = 0 => file'[1] = l
    <2>1. /\ Len(file') = Len(file) + 1 /\ \A i \in 1..Len(file) : file'[i] = file[i]
          /\ file'[Len(file) + 1] = l
        BY <1>2, AppendedLine
    <2>2. CASE Len(file) = 0 BY <1>0, <1>1, <1>2, <2>1, <2>2
    <2>3. CASE Len(file) > 0
        <3>1. 1 \in 1..Len(file) BY <1>0, <2>3
        <3> QED BY <1>0, <2>1, <2>3, <3>1 DEF FirstLine
    <2> QED BY <1>0, <2>2, <2>3
<1>3. ASSUME file' = file, meta' = meta, failures' >= failures, failures' \in Nat, Alive' => Alive,
             wpc = "dead" => wpc' = "dead"
      PROVE  FirstLine'
    <2>1. failures' = 0 => failures = 0 BY <1>0, <1>3
    <2> QED BY <1>3, <2>1 DEF FirstLine
<1>4. ASSUME file' = Terminated, failures' = failures,
             (meta' = meta /\ Alive) \/ (meta' = FALSE /\ Resumable)
      PROVE  FirstLine'
    <2>1. /\ Len(file') = Len(file)
          /\ \A i \in 1..Len(file) : file'[i].item = file[i].item /\ file'[i].whole = file[i].whole
        BY <1>4, TerminatedLines
    <2>2. Len(file) > 0 => 1 \in 1..Len(file) BY <1>0
    <2>3. failures = 0 /\ Len(file) > 0 => file[1].whole
        BY <1>a, <1>4 DEF FirstLine, Resumable
    <2>4. failures = 0 /\ meta' => Len(file) = 0
        BY <1>4 DEF FirstLine
    <2> QED BY <1>0, <1>4, <2>1, <2>2, <2>3, <2>4 DEF FirstLine
<1>5. CASE file' = Append(file, Line(NextItem, next)) /\ meta' = FALSE /\ failures' = failures /\ Alive
    <2>1. PICK l \in Lines : file' = Append(file, l) /\ l.item = NextItem /\ l.whole
        <3>1. NextItem \in Nat /\ next \in Nat BY DEF IInv, TypeOK, WriterOK, NextItem
        <3> QED BY <1>5, <3>1, LineType
    <2>2. failures = 0 => file'[1].whole BY <1>0, <1>2, <1>5, <1>a, <2>1 DEF FirstLine
    <2> QED BY <1>2, <1>5, <2>1, <2>2 DEF FirstLine
<1>6. ASSUME NEW cut \in FailCuts \cup CrashCuts, file' = file \o CutLines(NextItem, next, cut),
             meta' = meta, Alive,
             failures' = failures + 1 \/ (failures' = failures /\ wpc' = "dead")
      PROVE  FirstLine'
    <2>1. CASE file' = file
        <3>1. failures' = 0 => failures = 0 /\ wpc' = "dead" BY <1>0, <1>6
        <3>2. wpc' = "dead" => ~Alive' BY DEF Alive
        <3> QED BY <1>6, <2>1, <3>1, <3>2 DEF FirstLine
    <2>2. CASE file' # file
        <3>1. PICK l \in Lines : file' = Append(file, l) /\ l.item = NextItem BY <1>6, <2>2, CutCases
        <3>2. failures' = 0 => failures = 0 /\ wpc' = "dead" BY <1>0, <1>6
        <3>3. wpc' = "dead" => ~Alive' BY DEF Alive
        <3>4. failures = 0 /\ ~file'[1].whole => Len(file') = 1
            BY <1>0, <1>2, <1>6, <1>a, <3>1 DEF FirstLine
        <3> QED BY <1>2, <3>1, <3>2, <3>3, <3>4 DEF FirstLine
    <2> QED BY <2>1, <2>2
<1>7. failures' \in Nat
    <2>1. IInv' BY NextOK
    <2> QED BY <2>1, RolloutAssumption DEF RolloutAssumption, IInv, TypeOK, CallerOK
<1> QED BY <1>3, <1>4, <1>5, <1>6, <1>7, FileSteps DEF FileStep

\* Once a barrier has succeeded the thread can be resumed, unless a failed write tore the line
\* that names it: a crash alone, at any point, never costs the thread.
THEOREM ResumeIsAccepted == Spec => []ResumeAccepts
<1>1. Init => FirstLine
    <2> SUFFICES ASSUME Init PROVE FirstLine OBVIOUS
    <2>1. Len(file) = 0 BY DEF Init
    <2> QED BY <2>1 DEF FirstLine
<1>2. IInv /\ FirstLine => ResumeAccepts
    <2> SUFFICES ASSUME IInv, FirstLine, due # {}
                 PROVE  Resumable \/ (failures > 0 /\ ~file[1].whole)
        BY DEF ResumeAccepts
    <2>1. PICK i \in WholeLines : TRUE BY DEF IInv, AckedDurable, OnDisk
    <2>2. Len(file) \in Nat /\ Len(file) > 0 /\ file # <<>> /\ i \in 1..Len(file) /\ file[i].whole
        BY <2>1 DEF WholeLines, IInv, TypeOK, DiskOK
    <2>3. failures \in Nat BY RolloutAssumption DEF RolloutAssumption, IInv, TypeOK, CallerOK
    <2>4. CASE file[1].whole BY <2>2, <2>4 DEF Resumable, FirstLine
    <2>5. CASE ~file[1].whole
        <3>1. failures # 0 BY <2>2, <2>5 DEF FirstLine
        <3> QED BY <2>3, <2>5, <3>1
    <2> QED BY <2>4, <2>5
<1>3. IInv /\ FirstLine /\ [Next]_vars => FirstLine' BY FirstLineKept
<1> QED BY InitOK, NextOK, <1>1, <1>2, <1>3, PTL DEF Spec

-----------------------------------------------------------------------------
(* The ordinals.  A record whose write failed is written again with its     *)
(* ordinal, so the whole lines are numbered without a gap; if it was only   *)
(* the newline that failed, the record and its ordinal are there twice.     *)

\* A line with record r and ordinal n may come after whole line i.
Follows(n, r, i) == n = file[i].ord + 1 \/ (n = file[i].ord /\ r = file[i].item /\ failures > 0)

Dense ==
    /\ \A i, j \in WholeLines :
           i < j /\ (\A k \in WholeLines : k <= i \/ j <= k)
           => Follows(file[j].ord, file[j].item, i)
    /\ \A i \in WholeLines : (\A k \in WholeLines : i <= k) => file[i].ord = 0
    /\ Alive => \A i \in WholeLines : (\A k \in WholeLines : k <= i) => Follows(next, NextItem, i)
    /\ Alive /\ WholeLines = {} => next = 0

\* A file whose whole lines have the same places, records and ordinals, for the same writer.
LEMMA DenseSame ==
    ASSUME IInv, Dense, WholeLines' = WholeLines, failures' >= failures, failures' \in Nat,
           \A i \in WholeLines : file'[i].ord = file[i].ord /\ file'[i].item = file[i].item,
           Alive' => Alive /\ next' = next /\ NextItem' = NextItem
    PROVE  Dense'
<1>0. failures > 0 => failures' > 0
    BY RolloutAssumption DEF RolloutAssumption, IInv, TypeOK, CallerOK
<1>2. \A i, j \in WholeLines :
          Follows(file[j].ord, file[j].item, i) => Follows(file[j].ord, file[j].item, i)'
    BY <1>0 DEF Follows
<1>3. Alive' => \A i \in WholeLines : Follows(next, NextItem, i) => Follows(next, NextItem, i)'
    BY <1>0 DEF Follows
<1> QED BY <1>2, <1>3 DEF Dense

\* One more whole line, with the record and the ordinal that are next.
LEMMA DenseAppend ==
    ASSUME IInv, Dense, Alive, NEW l \in Lines, file' = Append(file, l), l.whole, l.ord = next,
           l.item = NextItem, failures' >= failures, failures' \in Nat,
           Alive' => \/ next' = next + 1
                     \/ next' = next /\ NextItem' = NextItem /\ failures' > 0
    PROVE  Dense'
<1>0. failures > 0 => failures' > 0
    BY RolloutAssumption DEF RolloutAssumption, IInv, TypeOK, CallerOK
<1>1. PICK n \in Nat : n = Len(file) BY AppendedLine
<1>2. /\ WholeLines' = WholeLines \cup {n + 1} /\ WholeLines \subseteq 1..n
      /\ \A i \in WholeLines : file'[i] = file[i]
      /\ file'[n + 1].ord = next /\ file'[n + 1].item = NextItem
    BY <1>1, AppendedLine DEF WholeLines
<1>3. ASSUME NEW i \in WholeLines', NEW j \in WholeLines', i < j,
             \A k \in WholeLines' : k <= i \/ j <= k
      PROVE  Follows(file[j].ord, file[j].item, i)'
    <2>0. i # n + 1
        <3>1. i \in WholeLines \cup {n + 1} /\ j \in WholeLines \cup {n + 1} BY <1>2, <1>3
        <3>2. i \in 1..n \cup {n + 1} /\ j \in 1..n \cup {n + 1} BY <1>2, <3>1
        <3>3. j <= n + 1 /\ i \in Nat /\ j \in Nat BY <3>2
        <3> QED BY <1>3, <3>3
    <2>1. i \in WholeLines /\ (\A k \in WholeLines : k <= i \/ j <= k) BY <1>2, <1>3, <2>0
    <2>2. CASE j \in WholeLines
        <3>1. Follows(file[j].ord, file[j].item, i) BY <1>3, <2>1, <2>2 DEF Dense
        <3> QED BY <1>0, <1>2, <2>1, <2>2, <3>1 DEF Follows
    <2>3. CASE j = n + 1
        <3>1. \A k \in WholeLines : k <= i BY <1>2, <2>1, <2>3
        <3>2. Follows(next, NextItem, i) BY <2>1, <3>1 DEF Dense
        <3> QED BY <1>0, <1>2, <2>1, <2>3, <3>2 DEF Follows
    <2> QED BY <1>2, <2>2, <2>3
<1>4. ASSUME NEW i \in WholeLines', \A k \in WholeLines' : i <= k
      PROVE  file'[i].ord = 0
    <2>1. CASE i \in WholeLines BY <1>2, <1>4, <2>1 DEF Dense
    <2>2. CASE i = n + 1
        <3>1. WholeLines = {} BY <1>2, <1>4, <2>2
        <3> QED BY <1>2, <2>2, <3>1 DEF Dense
    <2> QED BY <1>2, <2>1, <2>2
<1>5. ASSUME Alive', NEW i \in WholeLines', \A k \in WholeLines' : k <= i
      PROVE  Follows(next, NextItem, i)'
    <2>1. i = n + 1 BY <1>2, <1>5
    <2> QED BY <1>2, <1>5, <2>1 DEF Follows
<1>6. WholeLines' # {} BY <1>2
<1> QED BY <1>3, <1>4, <1>5, <1>6 DEF Dense

LEMMA DenseKept ==
    ASSUME IInv, Dense, [Next]_vars
    PROVE  Dense'
<1>0. failures \in Nat /\ failures' \in Nat
    <2>1. IInv' BY NextOK
    <2> QED BY <2>1, RolloutAssumption DEF RolloutAssumption, IInv, TypeOK, CallerOK
<1>1. ASSUME file' = file, next' = next, Alive' => Alive /\ NextItem' = NextItem,
             failures' >= failures
      PROVE  Dense'
    <2>1. WholeLines' = WholeLines BY <1>1 DEF WholeLines
    <2> QED BY <1>0, <1>1, <2>1, DenseSame
<1>2. ASSUME file' = Terminated, next' = next, Alive, NextItem' = NextItem, failures' = failures
      PROVE  Dense'
    <2>1. /\ WholeLines' = WholeLines
          /\ \A i \in WholeLines : file'[i].ord = file[i].ord /\ file'[i].item = file[i].item
        BY <1>2, TerminatedLines DEF WholeLines
    <2> QED BY <1>0, <1>2, <2>1, DenseSame
<1>3. CASE file' = Append(file, Line(NextItem, next)) /\ next' = next + 1 /\ Alive /\ failures' = failures
    <2>1. NextItem \in Nat /\ next \in Nat BY DEF IInv, TypeOK, WriterOK, NextItem
    <2>2. /\ Line(NextItem, next) \in Lines /\ Line(NextItem, next).whole
          /\ Line(NextItem, next).ord = next /\ Line(NextItem, next).item = NextItem
        BY <2>1 DEF Line, Lines
    <2> QED BY <1>0, <1>3, <2>2, DenseAppend
<1>4. ASSUME NEW cut \in FailCuts \cup CrashCuts, file' = file \o CutLines(NextItem, next, cut),
             next' = next, Alive,
             \/ failures' = failures + 1 /\ NextItem' = NextItem
             \/ failures' = failures /\ wpc' = "dead"
      PROVE  Dense'
    <2>0. /\ failures' >= failures
          /\ Alive' => NextItem' = NextItem /\ failures' > 0
        BY <1>0, <1>4 DEF Alive
    <2>1. CASE file' = file BY <1>1, <1>4, <2>0, <2>1
    <2>2. CASE file' # file
        <3>1. PICK l \in Lines : /\ file' = Append(file, l) /\ l.ord = next /\ l.item = NextItem
                                 /\ l.whole = (cut = "bare")
            BY <1>4, <2>2, CutCases
        <3>2. CASE l.whole BY <1>0, <1>4, <2>0, <3>1, <3>2, DenseAppend
        <3>3. CASE ~l.whole
            <4>1. /\ WholeLines' = WholeLines
                  /\ \A i \in WholeLines : file'[i].ord = file[i].ord /\ file'[i].item = file[i].item
                BY <3>1, <3>3, AppendedLine DEF WholeLines
            <4> QED BY <1>0, <1>4, <2>0, <4>1, DenseSame
        <3> QED BY <3>2, <3>3
    <2> QED BY <2>1, <2>2
<1>5. ASSUME Resumable, file' = Terminated, next' = NextOrdinal, failures' = failures PROVE Dense'
    <2>1. /\ WholeLines' = WholeLines
          /\ \A i \in WholeLines : file'[i].ord = file[i].ord /\ file'[i].item = file[i].item
          /\ Len(file) \in Nat /\ WholeLines \subseteq 1..Len(file)
        BY <1>5, TerminatedLines DEF WholeLines
    <2>2. 1 \in WholeLines
        <3>1. Len(file) # 0 BY <1>5 DEF Resumable, IInv, TypeOK, DiskOK
        <3> QED BY <1>5, <2>1, <3>1 DEF Resumable, WholeLines
    <2>3. \E last \in WholeLines : \A j \in WholeLines : j <= last BY <2>1, <2>2, LastExists
    <2>4. PICK last \in WholeLines : next' = file[last].ord + 1 /\ \A j \in WholeLines : j <= last
        BY <1>5, <2>3 DEF NextOrdinal
    <2>5. \A i \in WholeLines : (\A k \in WholeLines : k <= i) => i = last BY <2>1, <2>4
    <2>6. \A i \in WholeLines' : (\A k \in WholeLines' : k <= i) => Follows(next, NextItem, i)'
        BY <2>1, <2>4, <2>5 DEF Follows
    <2>7. \A i, j \in WholeLines' :
             i < j /\ (\A k \in WholeLines' : k <= i \/ j <= k)
             => Follows(file[j].ord, file[j].item, i)'
        BY <1>5, <2>1 DEF Dense, Follows
    <2>8. \A i \in WholeLines' : (\A k \in WholeLines' : i <= k) => file'[i].ord = 0
        BY <2>1 DEF Dense
    <2> QED BY <2>1, <2>2, <2>6, <2>7, <2>8 DEF Dense
<1>6. FileStep BY FileSteps
<1>7. CASE file' = file /\ next' = next /\ failures' >= failures /\ (Alive' => Alive) /\ NextItem' = NextItem
    BY <1>1, <1>7
<1> QED BY <1>0, <1>1, <1>2, <1>3, <1>4, <1>5, <1>6 DEF FileStep

\* The lines of a dense file are accepted or repeat: each complete line has the ordinal after the
\* last one read, or its record and its ordinal.
LEMMA DenseRebuilds ==
    ASSUME IInv, Dense
    PROVE  Rebuildable
<1> SUFFICES ASSUME NEW i \in 1..Len(file), Readable(i) 
             PROVE  Accepts(i) \/ (failures > 0 /\ Repeats(i))
    BY DEF Rebuildable
<1> DEFINE read == {j \in 1..(i - 1) : Readable(j)} \cup {0}
           last == CHOOSE j \in read : \A k \in read : k <= j
           expected == IF last = 0 THEN 0 ELSE file[last].ord + 1
           rejected == {j \in (last + 1)..(i - 1) : file[j].newline}
<1>0. Len(file) \in Nat /\ i \in Nat /\ i >= 1 /\ i <= Len(file) /\ file \in [1..Len(file) -> Lines]
    BY DEF IInv, TypeOK, DiskOK
<1>1. \A j \in 1..(i - 1) : j \in 1..Len(file) /\ file[j].newline
    BY <1>0 DEF IInv, TypeOK, DiskOK
<1>2. i \in WholeLines BY DEF Readable, WholeLines
<1>3. \A j \in WholeLines : j < i => j \in read
    BY <1>0, <1>1 DEF Readable, WholeLines
<1>4. \A j \in read : j = 0 \/ (j \in WholeLines /\ j < i /\ j \in 1..(i - 1))
    BY <1>0, <1>1 DEF Readable, WholeLines
<1> HIDE DEF read
<1>5. last \in read /\ \A k \in read : k <= last
    <2>1. \E m \in read : \A k \in read : k <= m
        <3>1. CASE read \subseteq {0}
            <4>1. 0 \in read BY DEF read
            <4> QED BY <3>1, <4>1
        <3>2. CASE ~(read \subseteq {0})
            <4>1. PICK e \in read : e # 0 BY <3>2
            <4>2. PICK S \in SUBSET (1..Len(file)) : S = {j \in WholeLines : j < i} BY DEF WholeLines
            <4>3. e \in S BY <1>4, <4>1, <4>2
            <4>4. PICK m \in S : \A j \in S : j <= m BY <1>0, <4>2, <4>3, LastExists
            <4>5. m \in read /\ m >= 0 BY <1>0, <1>3, <4>2, <4>4
            <4>6. \A k \in read : k <= m BY <1>4, <4>2, <4>4, <4>5
            <4> QED BY <4>5, <4>6
        <3> QED BY <3>1, <3>2
    <2> QED BY <2>1
<1> HIDE DEF last
<1>6. last \in Nat BY <1>4, <1>5
<1>7. /\ file[i].ord \in Nat
      /\ \/ file[i].ord = expected
         \/ failures > 0 /\ last # 0 /\ file[last].item = file[i].item /\ file[last].ord = file[i].ord
    <2>1. file[i].ord \in Nat BY <1>0 DEF Lines
    <2>2. CASE last = 0
        <3>1. \A k \in WholeLines : i <= k
            <4> SUFFICES ASSUME NEW k \in WholeLines, k < i PROVE FALSE BY <1>0 DEF WholeLines
            <4>1. k \in read /\ k <= 0 BY <1>3, <1>5, <2>2
            <4> QED BY <4>1 DEF WholeLines
        <3> QED BY <1>2, <2>1, <2>2, <3>1 DEF Dense
    <2>3. CASE last # 0
        <3>1. last \in WholeLines /\ last < i BY <1>4, <1>5, <2>3
        <3>2. \A k \in WholeLines : k <= last \/ i <= k BY <1>0, <1>3, <1>5 DEF WholeLines
        <3>3. Follows(file[i].ord, file[i].item, last) BY <1>2, <3>1, <3>2 DEF Dense
        <3> QED BY <2>1, <2>3, <3>3 DEF Follows
    <2> QED BY <2>2, <2>3
<1>8. Cardinality(rejected) \in Nat
    <2>1. IsFiniteSet((last + 1)..(i - 1)) BY <1>0, <1>6, FS_Interval
    <2>2. IsFiniteSet(rejected) BY <2>1, FS_Subset
    <2> QED BY <2>2, FS_CardinalityType
<1>9. Accepts(i) <=> /\ file[i].ord >= expected
                     /\ file[i].ord - expected <= Cardinality(rejected)
    BY DEF Accepts, LastRead, read, last
<1>10. Repeats(i) <=> last # 0 /\ file[last].item = file[i].item /\ file[last].ord = file[i].ord
    BY DEF Repeats, LastRead, read, last
<1> HIDE DEF expected, rejected
<1> QED BY <1>7, <1>8, <1>9, <1>10

\* "SQLite is a rebuildable view": in every state, after any failures and crashes, the projection
\* refuses only a line that repeats the record of a write which failed on its newline.
THEOREM AlwaysRebuildable == Spec => []Rebuildable
<1>1. Init => Dense
    <2> SUFFICES ASSUME Init PROVE Dense OBVIOUS
    <2>1. WholeLines = {} BY DEF Init, WholeLines
    <2> QED BY <2>1 DEF Dense, Init
<1>2. IInv /\ Dense /\ [Next]_vars => Dense' BY DenseKept
<1>3. IInv /\ Dense => Rebuildable BY DenseRebuilds
<1> QED BY InitOK, NextOK, <1>1, <1>2, <1>3, PTL DEF Spec
=============================================================================
