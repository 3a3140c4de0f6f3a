------------------------ MODULE RemoteInboundProofs -------------------------
(***************************************************************************)
(* Proofs about RemoteInbound, for any number of clients, streams,         *)
(* segments, events and faults.                                            *)
(*                                                                         *)
(* What makes the replays hard is that three things remember how far a     *)
(* client has come: the cursor of the backend, the reassembler and the     *)
(* tracker.  The invariant says of each how it relates to the log:         *)
(*  - LogInv: a client uses its seq_ids in order and sends the segments of *)
(*    a message one after the other;                                       *)
(*  - AssemblyInv: the reassembler has the leading segments of a message,  *)
(*    all valid and all read, and nothing past the reader;                 *)
(*  - ConnInv: a connection has what was read for its key, in order, and   *)
(*    two connections of one key have separate ranges of seq_ids;          *)
(*  - GapInv: a whole message before the cursor is with the connection of  *)
(*    its key; a segmented one that is not has all of its segments that    *)
(*    were read in the reassembler, unless its forwarding failed.          *)
(* A step is first reduced to one of six shapes (StepCases), which differ  *)
(* in what they do to the log, to the assembly and to the connections.     *)
(***************************************************************************)
EXTENDS RemoteInbound, SequenceTheorems, TLAPS

\* The types of the state.
Kinds == {"initialize", "message", "chunk", "ping", "closed"}
Entries == [key : Keys, kind : Kinds, seq : Nat, seg : 0..(Segments - 1), ok : BOOLEAN]
ClientStates == [stream : 0..MaxStreams, seq : Nat, segs : 0..(Segments - 1), closed : BOOLEAN]
Assemblies == [stream : 0..MaxStreams, seq : Nat, next : 0..(Segments - 1)]
Conns == [key : Keys, got : Seq(Nat), open : BOOLEAN]

TypeOK ==
    /\ log \in Seq(Entries) /\ client \in [Clients -> ClientStates]
    /\ cursor \in Nat /\ pos \in Nat /\ connected \in BOOLEAN
    /\ assembly \in [Clients -> Assemblies] /\ lastChunk \in [Keys -> Nat]
    /\ clients \in [Keys -> [conn : Nat, last : Nat]]
    /\ conns \in Seq(Conns) /\ finished \subseteq 1..Len(conns)
    /\ faults \in Nat

\* Pings and closed envelopes carry no seq_id.
Numbered(i) == log[i].kind \in {"initialize", "message", "chunk"}

Chunk(i, k, q) == log[i].kind = "chunk" /\ log[i].key = k /\ log[i].seq = q

\* Segment g of message q of key k is at position i of the log.
Segment(i, k, q, g) == Chunk(i, k, q) /\ log[i].seg = g

-----------------------------------------------------------------------------
(* The log: what the clients send *)

\* A client is on its last stream, and has used no seq_id above its own.
ClientAhead ==
    \A i \in 1..Len(log) :
        LET now == client[log[i].key[1]]
        IN /\ log[i].key[2] <= now.stream
           /\ log[i].key[2] = now.stream => log[i].seq <= now.seq
           /\ Numbered(i) => log[i].seq > 0

SeqBounded ==
    /\ Len(log) <= MaxEvents /\ \A c \in Clients : client[c].seq <= Len(log)
    /\ \A i \in 1..Len(log) : log[i].seq <= MaxEvents

\* A client leaves its old stream for good.
StreamsOrdered ==
    \A i, j \in 1..Len(log) :
        i < j /\ log[i].key[1] = log[j].key[1] => log[i].key[2] <= log[j].key[2]

\* Seq_ids go up, and only the segments of a message share theirs.
SeqOrdered ==
    \A i, j \in 1..Len(log) :
        i < j /\ log[i].key = log[j].key /\ Numbered(i) /\ Numbered(j) =>
            \/ log[i].seq < log[j].seq
            \/ /\ log[i].seq = log[j].seq /\ log[i].seg < log[j].seg
               /\ log[i].kind = "chunk" /\ log[j].kind = "chunk"

\* A stream begins with an initialize.
InitializeFirst ==
    /\ \A j \in 1..Len(log) : \E i \in 1..j : log[i].key = log[j].key /\ log[i].kind = "initialize"
    /\ \A c \in Clients : ~client[c].closed =>
          \E i \in 1..Len(log) : log[i].key = <<c, client[c].stream>> /\ log[i].kind = "initialize"

\* Segments are sent in their order, all of them before the next message.
SegmentsInOrder ==
    /\ \A j \in 1..Len(log) : log[j].kind = "chunk" =>
          \A g \in 0..log[j].seg : \E i \in 1..j : Segment(i, log[j].key, log[j].seq, g)
    /\ \A i, j \in 1..Len(log) :
          /\ log[i].kind = "chunk" /\ Numbered(j)
          /\ log[i].key = log[j].key /\ log[i].seq < log[j].seq
          => \A g \in 0..(Segments - 1) : \E h \in 1..j : Segment(h, log[i].key, log[i].seq, g)

\* Where a client is in the message it is sending.
ClientSegments ==
    \A c \in Clients :
        LET now == client[c]
            k == <<c, now.stream>>
        IN /\ now.segs > 0 =>
                 /\ ~now.closed
                 /\ \E i \in 1..Len(log) : Segment(i, k, now.seq, now.segs - 1)
                 /\ \A i \in 1..Len(log) :
                       log[i].key = k /\ log[i].seq = now.seq => log[i].seg < now.segs
           /\ \A i \in 1..Len(log) :
                 /\ log[i].kind = "chunk" /\ log[i].key = k
                 /\ now.segs = 0 \/ log[i].seq < now.seq
                 => \A g \in 0..(Segments - 1) : \E h \in 1..Len(log) : Segment(h, k, log[i].seq, g)

LogInv ==
    /\ ClientAhead /\ SeqBounded /\ StreamsOrdered /\ SeqOrdered /\ InitializeFirst
    /\ SegmentsInOrder /\ ClientSegments

-----------------------------------------------------------------------------
(* The reader *)

\* Since the last envelope it recorded the reader has read segments only.
ReadInv ==
    /\ cursor <= pos /\ pos <= Len(log)
    /\ \A i \in (cursor + 1)..pos : log[i].kind = "chunk"

\* Position p may have been read: nothing after the cursor and before p is forwarded.
Within(p) == \A i \in 1..(p - 1) : cursor < i => log[i].kind = "chunk"

\* What an assembly holds is in the log, was read, and what it waits for was not.
AssemblyOK(c) ==
    LET a == assembly[c]
        k == <<c, a.stream>>
    IN a.stream # 0 =>
          /\ a.seq > lastChunk[k] /\ a.next > 0
          /\ \A g \in 0..(a.next - 1) : \E i \in 1..Len(log) :
                Segment(i, k, a.seq, g) /\ log[i].ok /\ Within(i)
          /\ \A i \in 1..Len(log) : Segment(i, k, a.seq, a.next) => pos < i

AssemblyInv == \A c \in Clients : AssemblyOK(c)

\* The chunk cursor is that of a message handled and recorded.
LastChunkInv ==
    \A k \in Keys : lastChunk[k] > 0 =>
        \E i \in 1..cursor : Segment(i, k, lastChunk[k], Segments - 1)

-----------------------------------------------------------------------------
(* The connections *)

LastOf(got) == IF got = <<>> THEN 0 ELSE got[Len(got)]

\* The tracker's client is that of the last connection of its key.
TrackedInv ==
    \A k \in Keys :
        \/ clients[k] = NoClient
        \/ LET n == clients[k].conn
           IN /\ n \in 1..Len(conns) /\ conns[n].key = k
              /\ clients[k].last = LastOf(conns[n].got)
              /\ \A m \in 1..Len(conns) : n < m => conns[m].key # k

\* What was forwarded is a numbered envelope that was read.
GotRead ==
    \A n \in 1..Len(conns) : \A i \in 1..Len(conns[n].got) :
        \E p \in 1..Len(log) : /\ log[p].key = conns[n].key /\ log[p].seq = conns[n].got[i]
                               /\ Numbered(p) /\ Within(p)

IsInitialize(k, q) ==
    \E i \in 1..Len(log) : log[i].key = k /\ log[i].kind = "initialize" /\ log[i].seq = q

GotOrdered ==
    \A n \in 1..Len(conns) :
        /\ \A i, j \in 1..Len(conns[n].got) : i < j => conns[n].got[i] < conns[n].got[j]
        /\ \A i \in 2..Len(conns[n].got) : ~IsInitialize(conns[n].key, conns[n].got[i])

\* A message of an earlier connection is older than the initialize of a later one.
Separate ==
    \A m, n \in 1..Len(conns) :
        /\ m < n /\ conns[m].key = conns[n].key /\ conns[n].got # <<>>
        /\ IsInitialize(conns[n].key, conns[n].got[1])
        => \A i \in 1..Len(conns[m].got) :
              \/ IsInitialize(conns[m].key, conns[m].got[i])
              \/ conns[m].got[i] < conns[n].got[1]

ConnInv == TrackedInv /\ OpenTracked /\ GotRead /\ GotOrdered /\ Separate /\ OnlyWhole

-----------------------------------------------------------------------------
(* Gaps *)

Has(n, q) == \E i \in 1..Len(conns[n].got) : conns[n].got[i] = q

\* Message q comes after the first one connection n got.
After(n, q) == conns[n].got # <<>> /\ conns[n].got[1] < q

\* A message the reader has recorded is with the connection of its key.
MessagesForwarded ==
    \A k \in Keys : Tracked(k) =>
        \A p \in 1..cursor :
            log[p].kind = "message" /\ log[p].key = k /\ After(clients[k].conn, log[p].seq)
            => Has(clients[k].conn, log[p].seq)

\* Message q of key k is segmented, valid, and complete or still being sent.
Alive(k, q) ==
    /\ \E i \in 1..Len(log) : Chunk(i, k, q)
    /\ \A i \in 1..Len(log) : Chunk(i, k, q) => log[i].ok
    /\ client[k[1]].stream = k[2] \/ \E i \in 1..Len(log) : Segment(i, k, q, Segments - 1)

\* The assembly of k's client holds what the reader has read of message q of key k,
\* and nothing later of that key.
Assembled(k, q) ==
    LET a == assembly[k[1]]
    IN /\ a.stream = k[2] => a.seq <= q
       /\ \A p \in 1..pos : Chunk(p, k, q) =>
             a.stream = k[2] /\ a.seq = q /\ log[p].seg < a.next

\* A segmented message the connection does not have is in the assembly as far as
\* the reader has come.
ChunksAssembled ==
    \A k \in Keys : Tracked(k) =>
        \A q \in Nat :
            /\ Alive(k, q) /\ <<k, q>> \notin cut
            /\ After(clients[k].conn, q) /\ ~Has(clients[k].conn, q)
            => Assembled(k, q)

GapInv == MessagesForwarded /\ ChunksAssembled /\ NoGap

IInv == TypeOK /\ LogInv /\ ReadInv /\ AssemblyInv /\ LastChunkInv /\ ConnInv /\ GapInv

USE ConstantsAssumption

-----------------------------------------------------------------------------
(* Keys, entries and connections *)

LEMMA KeyParts ==
    ASSUME NEW k \in Keys
    PROVE  /\ k[1] \in Clients /\ k[2] \in 1..MaxStreams /\ k[2] \in 0..MaxStreams /\ k[2] # 0
           /\ k = <<k[1], k[2]>>
BY DEF Keys

LEMMA EntryParts ==
    ASSUME TypeOK, NEW i \in 1..Len(log)
    PROVE  /\ log[i] \in Entries /\ log[i].key \in Keys /\ log[i].seq \in Nat
           /\ log[i].key[1] \in Clients /\ log[i].key[2] \in 1..MaxStreams
           /\ log[i].seg \in 0..(Segments - 1) /\ log[i].ok \in BOOLEAN
           /\ log[i].kind \in Kinds
<1>1. log \in Seq(Entries) BY DEF TypeOK
<1>2. log[i] \in Entries BY <1>1, ElementOfSeq
<1>3. log[i].key \in Keys BY <1>2 DEF Entries
<1> QED BY <1>2, <1>3, KeyParts DEF Entries

LEMMA ConnParts ==
    ASSUME TypeOK, NEW n \in 1..Len(conns)
    PROVE  /\ conns[n] \in Conns /\ conns[n].key \in Keys /\ conns[n].got \in Seq(Nat)
           /\ conns[n].open \in BOOLEAN /\ Len(conns[n].got) \in Nat
           /\ \A i \in 1..Len(conns[n].got) : conns[n].got[i] \in Nat
<1>1. conns \in Seq(Conns) BY DEF TypeOK
<1>2. conns[n] \in Conns BY <1>1, ElementOfSeq
<1>3. conns[n].got \in Seq(Nat) BY <1>2 DEF Conns
<1> QED BY <1>2, <1>3, LenProperties, ElementOfSeq DEF Conns

LEMMA Appended ==
    ASSUME NEW S, NEW s \in Seq(S), NEW e \in S
    PROVE  /\ Append(s, e) \in Seq(S) /\ Len(s) \in Nat
           /\ Len(Append(s, e)) = Len(s) + 1
           /\ \A i \in 1..Len(s) : Append(s, e)[i] = s[i]
           /\ Append(s, e)[Len(s) + 1] = e
BY AppendProperties, LenProperties

\* The connections and clients once that of key k is closed.
LEMMA ClosedFacts ==
    ASSUME TypeOK, TrackedInv, NEW k \in Keys
    PROVE  /\ Closed(k) \in Seq(Conns) /\ Len(Closed(k)) = Len(conns) /\ Len(conns) \in Nat
           /\ Ending(k) \subseteq 1..Len(conns)
           /\ \A n \in 1..Len(conns) :
                 /\ Closed(k)[n].key = conns[n].key /\ Closed(k)[n].got = conns[n].got
                 /\ Closed(k)[n].open = IF n = clients[k].conn THEN FALSE ELSE conns[n].open
<1>0. conns \in Seq(Conns) /\ Len(conns) \in Nat /\ finished \subseteq 1..Len(conns)
  BY LenProperties DEF TypeOK
<1>1. CASE Tracked(k)
  <2> DEFINE n == clients[k].conn
  <2>1. n \in 1..Len(conns) BY <1>1 DEF Tracked, TrackedInv
  <2>2. conns[n] \in Conns BY <2>1, ConnParts
  <2>3. [conns[n] EXCEPT !.open = FALSE] \in Conns BY <2>2 DEF Conns
  <2>4. Closed(k) = [conns EXCEPT ![n] = [conns[n] EXCEPT !.open = FALSE]]
    BY <1>1 DEF Closed
  <2> HIDE DEF n
  <2>5. /\ Closed(k) \in Seq(Conns) /\ Len(Closed(k)) = Len(conns)
        /\ \A i \in 1..Len(conns) :
              Closed(k)[i] = IF i = n THEN [conns[n] EXCEPT !.open = FALSE] ELSE conns[i]
    BY <1>0, <2>1, <2>3, <2>4, ExceptSeq
  <2>6. /\ [conns[n] EXCEPT !.open = FALSE].key = conns[n].key
        /\ [conns[n] EXCEPT !.open = FALSE].got = conns[n].got
        /\ [conns[n] EXCEPT !.open = FALSE].open = FALSE
    BY <2>2 DEF Conns
  <2>7. Ending(k) \subseteq 1..Len(conns) BY <1>0, <1>1, <2>1 DEF Ending, n
  <2> QED BY <1>0, <2>5, <2>6, <2>7 DEF n
<1>2. CASE ~Tracked(k)
  <2>1. Closed(k) = conns /\ Ending(k) = finished BY <1>2 DEF Closed, Ending
  <2>2. clients[k].conn = 0 BY <1>2 DEF Tracked, NoClient
  <2>3. \A n \in 1..Len(conns) : n # clients[k].conn BY <2>2, <1>0
  <2> QED BY <1>0, <2>1, <2>3
<1> QED BY <1>1, <1>2

-----------------------------------------------------------------------------
(* What a step does to the connections *)

TrackerOK ==
    /\ clients \in [Keys -> [conn : Nat, last : Nat]]
    /\ conns \in Seq(Conns) /\ finished \subseteq 1..Len(conns)
    /\ TrackedInv /\ OpenTracked

Kept ==
    \A n \in 1..Len(conns) : conns'[n].key = conns[n].key /\ conns'[n].got = conns[n].got

\* Nothing is forwarded; the client of a key may be gone.
Quiet ==
    /\ Len(conns') = Len(conns) /\ Kept
    /\ \A k \in Keys : clients'[k] \in {clients[k], NoClient}

\* A new connection of key k has got g.
Opened(k, g) ==
    /\ Len(conns') = Len(conns) + 1 /\ Kept
    /\ conns'[Len(conns) + 1].key = k /\ conns'[Len(conns) + 1].got = g
    /\ \A l \in Keys \ {k} : clients'[l] = clients[l]
    /\ clients'[k] = NoClient \/ clients'[k].conn = Len(conns) + 1

\* The connection of key k gets q.
Forwarded(k, q) ==
    /\ Tracked(k) /\ clients[k].last < q
    /\ Len(conns') = Len(conns)
    /\ \A n \in 1..Len(conns) :
          /\ conns'[n].key = conns[n].key
          /\ conns'[n].got = IF n = clients[k].conn THEN Append(conns[n].got, q) ELSE conns[n].got
    /\ \A l \in Keys : clients'[l].conn = clients[l].conn /\ (Tracked(l)' <=> Tracked(l))

LEMMA NoClientFacts ==
    /\ NoClient \in [conn : Nat, last : Nat] /\ NoClient.conn = 0 /\ NoClient.last = 0
BY DEF NoClient

LEMMA TrackerNow ==
    ASSUME TypeOK, TrackedInv, OpenTracked
    PROVE  TrackerOK /\ Len(conns) \in Nat
BY LenProperties DEF TypeOK, TrackerOK

LEMMA CloseEffect ==
    ASSUME TypeOK, TrackedInv, OpenTracked, NEW k \in Keys,
           clients' = [clients EXCEPT ![k] = NoClient], conns' = Closed(k),
           finished' \subseteq Ending(k)
    PROVE  TrackerOK' /\ Quiet /\ clients'[k] = NoClient
<1>1. /\ conns' \in Seq(Conns) /\ Len(conns') = Len(conns) /\ Len(conns) \in Nat
      /\ finished' \subseteq 1..Len(conns')
      /\ \A n \in 1..Len(conns) :
            /\ conns'[n].key = conns[n].key /\ conns'[n].got = conns[n].got
            /\ conns'[n].open = IF n = clients[k].conn THEN FALSE ELSE conns[n].open
  BY ClosedFacts
<1>2. clients' \in [Keys -> [conn : Nat, last : Nat]] BY NoClientFacts DEF TypeOK
<1>3. \A l \in Keys : clients'[l] = IF l = k THEN NoClient ELSE clients[l] BY DEF TypeOK
<1>4. Quiet BY <1>1, <1>3 DEF Quiet, Kept
<1>5. TrackedInv'
  <2> SUFFICES ASSUME NEW l \in Keys, clients'[l] # NoClient
               PROVE  LET n == clients'[l].conn
                      IN /\ n \in 1..Len(conns') /\ conns'[n].key = l
                         /\ clients'[l].last = LastOf(conns'[n].got)
                         /\ \A m \in 1..Len(conns') : n < m => conns'[m].key # l
    BY DEF TrackedInv
  <2>1. clients'[l] = clients[l] /\ clients[l] # NoClient BY <1>3
  <2> DEFINE n == clients[l].conn
  <2>2. /\ n \in 1..Len(conns) /\ conns[n].key = l
        /\ clients[l].last = LastOf(conns[n].got)
        /\ \A m \in 1..Len(conns) : n < m => conns[m].key # l
    BY <2>1 DEF TrackedInv
  <2>3. conns'[n].got = conns[n].got BY <1>1, <2>1, <2>2
  <2> QED BY <1>1, <2>1, <2>2, <2>3
<1>6. OpenTracked'
  <2> SUFFICES ASSUME NEW n \in 1..Len(conns)
               PROVE  conns'[n].open <=> clients'[conns'[n].key].conn = n
    BY <1>1 DEF OpenTracked
  <2>1. conns[n].open <=> clients[conns[n].key].conn = n BY DEF OpenTracked
  <2>2. conns[n].key \in Keys /\ conns[n].open \in BOOLEAN BY ConnParts
  <2>3. CASE conns[n].key = k
    <3>1. conns'[n].open = FALSE BY <1>1, <2>1, <2>2, <2>3
    <3>2. clients'[conns'[n].key].conn = 0 BY <1>1, <1>3, <2>3, NoClientFacts
    <3> QED BY <3>1, <3>2
  <2>4. CASE conns[n].key # k
    <3>1. clients'[conns'[n].key] = clients[conns[n].key] BY <1>1, <1>3, <2>2, <2>4
    <3>2. n # clients[k].conn \/ ~Tracked(k) BY <2>4 DEF TrackedInv, Tracked
    <3>3. n # clients[k].conn BY <3>2, <1>1, NoClientFacts DEF Tracked
    <3> QED BY <1>1, <2>1, <2>2, <3>1, <3>3
  <2> QED BY <2>3, <2>4
<1> QED BY <1>1, <1>2, <1>3, <1>4, <1>5, <1>6 DEF TrackerOK, Tracked

LEMMA OpenEffect ==
    ASSUME TypeOK, TrackedInv, OpenTracked, NEW k \in Keys, NEW g \in Seq(Nat),
           NEW o \in BOOLEAN, NEW r \in [conn : Nat, last : Nat],
           IF o THEN r = [conn |-> Len(conns) + 1, last |-> LastOf(g)]
                ELSE r = NoClient,
           clients' = [clients EXCEPT ![k] = r],
           conns' = Append(Closed(k), [key |-> k, got |-> g, open |-> o]),
           finished' \subseteq Ending(k) \cup {Len(conns) + 1}
    PROVE  TrackerOK' /\ Opened(k, g)
<1> DEFINE new == [key |-> k, got |-> g, open |-> o]
<1>0. new \in Conns BY DEF Conns
<1>1. /\ Closed(k) \in Seq(Conns) /\ Len(Closed(k)) = Len(conns) /\ Len(conns) \in Nat
      /\ Ending(k) \subseteq 1..Len(conns)
      /\ \A n \in 1..Len(conns) :
            /\ Closed(k)[n].key = conns[n].key /\ Closed(k)[n].got = conns[n].got
            /\ Closed(k)[n].open = IF n = clients[k].conn THEN FALSE ELSE conns[n].open
  BY ClosedFacts
<1>2. /\ conns' \in Seq(Conns) /\ Len(conns') = Len(conns) + 1
      /\ \A n \in 1..Len(conns) : conns'[n] = Closed(k)[n]
      /\ conns'[Len(conns) + 1] = new
  BY <1>0, <1>1, Appended
<1>3. /\ conns'[Len(conns) + 1].key = k /\ conns'[Len(conns) + 1].got = g
      /\ conns'[Len(conns) + 1].open = o
  BY <1>2
<1> HIDE DEF new
<1>4. \A n \in 1..Len(conns) :
        /\ conns'[n].key = conns[n].key /\ conns'[n].got = conns[n].got
        /\ conns'[n].open = IF n = clients[k].conn THEN FALSE ELSE conns[n].open
  BY <1>1, <1>2
<1>5. finished' \subseteq 1..Len(conns') BY <1>1, <1>2
<1>6. /\ clients' \in [Keys -> [conn : Nat, last : Nat]]
      /\ \A l \in Keys : clients'[l] = IF l = k THEN r ELSE clients[l]
  BY DEF TypeOK
<1>7. IF o THEN r.conn = Len(conns) + 1 ELSE r.conn = 0
  BY NoClientFacts
<1>8. Opened(k, g) BY <1>2, <1>3, <1>4, <1>6, <1>7 DEF Opened, Kept
<1>9. TrackedInv'
  <2> SUFFICES ASSUME NEW l \in Keys, clients'[l] # NoClient
               PROVE  LET n == clients'[l].conn
                      IN /\ n \in 1..Len(conns') /\ conns'[n].key = l
                         /\ clients'[l].last = LastOf(conns'[n].got)
                         /\ \A m \in 1..Len(conns') : n < m => conns'[m].key # l
    BY DEF TrackedInv
  <2>1. CASE l = k
    <3>1. o /\ clients'[l] = r BY <1>6, <2>1
    <3>2. r.conn = Len(conns) + 1 /\ r.last = LastOf(g) BY <3>1
    <3>3. LastOf(conns'[Len(conns) + 1].got) = r.last BY <1>3, <3>2
    <3> QED BY <1>1, <1>2, <1>3, <2>1, <3>1, <3>2, <3>3
  <2>2. CASE l # k
    <3>1. clients'[l] = clients[l] /\ clients[l] # NoClient BY <1>6, <2>2
    <3> DEFINE n == clients[l].conn
    <3>2. /\ n \in 1..Len(conns) /\ conns[n].key = l
          /\ clients[l].last = LastOf(conns[n].got)
          /\ \A m \in 1..Len(conns) : n < m => conns[m].key # l
      BY <3>1 DEF TrackedInv
    <3>3. conns'[n].got = conns[n].got BY <1>4, <3>1, <3>2
    <3>4. \A m \in 1..Len(conns') : m \in 1..Len(conns) \/ m = Len(conns) + 1 BY <1>1, <1>2
    <3>5. \A m \in 1..Len(conns') : n < m => conns'[m].key # l
      BY <3>4, <3>2, <1>3, <1>4, <2>2
    <3>6. n \in 1..Len(conns') /\ conns'[n].key = l
      <4>1. Len(conns') = Len(conns) + 1 /\ Len(conns) \in Nat BY <1>1, <1>2
      <4>2. conns'[n].key = l BY <1>4, <3>2
      <4> HIDE DEF n
      <4> QED BY <4>1, <4>2, <3>2
    <3> QED BY <3>1, <3>2, <3>3, <3>5, <3>6
  <2> QED BY <2>1, <2>2
<1>10. OpenTracked'
  <2> SUFFICES ASSUME NEW n \in 1..Len(conns')
               PROVE  conns'[n].open <=> clients'[conns'[n].key].conn = n
    BY DEF OpenTracked
  <2>1. CASE n = Len(conns) + 1
    BY <1>1, <1>3, <1>6, <1>7, <2>1
  <2>2. CASE n \in 1..Len(conns)
    <3>1. conns[n].open <=> clients[conns[n].key].conn = n BY <2>2 DEF OpenTracked
    <3>2. conns[n].key \in Keys /\ conns[n].open \in BOOLEAN BY <2>2, ConnParts
    <3>3. CASE conns[n].key = k
      <4>1. conns'[n].open = IF n = clients[k].conn THEN FALSE ELSE conns[n].open
        BY <1>4, <2>2
      <4>2. ~conns'[n].open BY <4>1, <3>1, <3>3
      <4>3. clients'[conns'[n].key] = r BY <1>4, <1>6, <2>2, <3>3
      <4>4. r.conn # n BY <1>1, <1>7, <2>2
      <4> QED BY <4>2, <4>3, <4>4
    <3>4. CASE conns[n].key # k
      <4>1. clients'[conns'[n].key] = clients[conns[n].key] BY <1>4, <1>6, <2>2, <3>2, <3>4
      <4>2. n # clients[k].conn \/ ~Tracked(k) BY <3>4 DEF TrackedInv, Tracked
      <4>3. n # clients[k].conn BY <4>2, <1>1, <2>2, NoClientFacts DEF Tracked
      <4> QED BY <1>4, <2>2, <3>1, <3>2, <4>1, <4>3
    <3> QED BY <3>3, <3>4
  <2> QED BY <1>1, <1>2, <2>1, <2>2
<1> QED BY <1>2, <1>5, <1>6, <1>8, <1>9, <1>10 DEF TrackerOK

LEMMA ForwardEffect ==
    ASSUME TypeOK, TrackedInv, OpenTracked, NEW k \in Keys, NEW q \in Nat,
           Tracked(k), clients[k].last < q, q > 0,
           conns' = [conns EXCEPT ![clients[k].conn].got = Append(@, q)],
           clients' = [clients EXCEPT ![k].last = q],
           finished' = finished
    PROVE  TrackerOK' /\ Forwarded(k, q)
<1> DEFINE n0 == clients[k].conn
           new == [conns[n0] EXCEPT !.got = Append(conns[n0].got, q)]
<1>1. /\ n0 \in 1..Len(conns) /\ conns[n0].key = k
      /\ \A m \in 1..Len(conns) : n0 < m => conns[m].key # k
  BY DEF Tracked, TrackedInv
<1>2. conns \in Seq(Conns) /\ Len(conns) \in Nat BY LenProperties DEF TypeOK
<1>3. conns[n0] \in Conns /\ conns[n0].got \in Seq(Nat) BY <1>1, ConnParts
<1>4. Append(conns[n0].got, q) \in Seq(Nat) BY <1>3, Appended
<1>5. /\ new \in Conns /\ new.key = k /\ new.got = Append(conns[n0].got, q)
      /\ new.open = conns[n0].open
  BY <1>1, <1>3, <1>4 DEF Conns
<1>6. conns' = [conns EXCEPT ![n0] = new] OBVIOUS
<1>7. clients[k] \in [conn : Nat, last : Nat] BY DEF TypeOK
<1>8. /\ [clients[k] EXCEPT !.last = q] \in [conn : Nat, last : Nat]
      /\ [clients[k] EXCEPT !.last = q].conn = n0 /\ [clients[k] EXCEPT !.last = q].last = q
  BY <1>7
<1>9. /\ clients' \in [Keys -> [conn : Nat, last : Nat]]
      /\ \A l \in Keys : clients'[l] = IF l = k THEN [clients[k] EXCEPT !.last = q] ELSE clients[l]
  BY <1>8 DEF TypeOK
<1> HIDE DEF n0, new
<1>10. /\ conns' \in Seq(Conns) /\ Len(conns') = Len(conns)
       /\ \A i \in 1..Len(conns) : conns'[i] = IF i = n0 THEN new ELSE conns[i]
  BY ONLY <1>1, <1>2, <1>5, <1>6, ExceptSeq
<1>11. \A i \in 1..Len(conns) :
         /\ conns'[i].key = conns[i].key /\ conns'[i].open = conns[i].open
         /\ conns'[i].got = IF i = n0 THEN Append(conns[i].got, q) ELSE conns[i].got
  BY <1>1, <1>5, <1>10
<1>12. clients'[k] # NoClient BY <1>8, <1>9, NoClientFacts
<1>13. \A l \in Keys : clients'[l].conn = clients[l].conn /\ (Tracked(l)' <=> Tracked(l))
  BY <1>8, <1>9, <1>12 DEF Tracked, n0
<1>14. Forwarded(k, q)
  BY <1>10, <1>11, <1>13 DEF Forwarded, n0
<1>15. TrackedInv'
  <2> SUFFICES ASSUME NEW l \in Keys, clients'[l] # NoClient
               PROVE  LET n == clients'[l].conn
                      IN /\ n \in 1..Len(conns') /\ conns'[n].key = l
                         /\ clients'[l].last = LastOf(conns'[n].got)
                         /\ \A m \in 1..Len(conns') : n < m => conns'[m].key # l
    BY DEF TrackedInv
  <2>1. CASE l = k
    <3>1. clients'[l].conn = n0 /\ clients'[l].last = q BY <1>8, <1>9, <2>1
    <3>2. conns'[n0].got = Append(conns[n0].got, q) BY <1>1, <1>11
    <3>3. /\ Len(Append(conns[n0].got, q)) = Len(conns[n0].got) + 1 /\ Len(conns[n0].got) \in Nat
          /\ Append(conns[n0].got, q)[Len(conns[n0].got) + 1] = q
      BY <1>3, Appended
    <3>4. LastOf(conns'[n0].got) = q
      <4>1. Append(conns[n0].got, q) # <<>> BY <3>3, SMTT(30)
      <4> QED BY <3>2, <3>3, <4>1 DEF LastOf
    <3> QED BY <1>1, <1>10, <1>11, <2>1, <3>1, <3>4
  <2>2. CASE l # k
    <3>1. clients'[l] = clients[l] /\ clients[l] # NoClient BY <1>9, <2>2
    <3> DEFINE n == clients[l].conn
    <3>2. /\ n \in 1..Len(conns) /\ conns[n].key = l
          /\ clients[l].last = LastOf(conns[n].got)
          /\ \A m \in 1..Len(conns) : n < m => conns[m].key # l
      BY <3>1 DEF TrackedInv
    <3>3. n # n0 BY <1>1, <2>2, <3>2
    <3>4. conns'[n].got = conns[n].got BY <1>11, <3>2, <3>3
    <3> QED BY <1>10, <1>11, <3>1, <3>2, <3>4
  <2> QED BY <2>1, <2>2
<1>16. OpenTracked'
  <2> SUFFICES ASSUME NEW n \in 1..Len(conns)
               PROVE  conns'[n].open <=> clients'[conns'[n].key].conn = n
    BY <1>10 DEF OpenTracked
  <2>1. conns[n].open <=> clients[conns[n].key].conn = n BY DEF OpenTracked
  <2>2. conns[n].key \in Keys BY ConnParts
  <2> QED BY <1>11, <1>13, <2>1, <2>2
<1>17. finished' \subseteq 1..Len(conns') BY <1>10 DEF TypeOK
<1> QED BY <1>9, <1>10, <1>14, <1>15, <1>16, <1>17 DEF TrackerOK

-----------------------------------------------------------------------------
(* What reading an envelope does *)

LEMMA IncomingParts ==
    ASSUME TypeOK, pos < Len(log)
    PROVE  /\ pos + 1 \in 1..Len(log) /\ pos \in Nat /\ cursor \in Nat /\ Len(log) \in Nat
           /\ Incoming = log[pos + 1] /\ Incoming \in Entries
           /\ Incoming.key \in Keys /\ Incoming.key[1] \in Clients
           /\ Incoming.key[2] \in 1..MaxStreams /\ Incoming.key[2] # 0
           /\ Incoming.seq \in Nat /\ Incoming.seg \in 0..(Segments - 1)
           /\ Incoming.ok \in BOOLEAN /\ Incoming.kind \in Kinds
<1>1. pos \in Nat /\ cursor \in Nat /\ Len(log) \in Nat BY LenProperties DEF TypeOK
<1>2. pos + 1 \in 1..Len(log) BY <1>1
<1> QED BY <1>1, <1>2, EntryParts DEF Incoming

\* What is left of the assembly of the client whose envelope is read.
LEMMA ObservedFacts ==
    ASSUME TypeOK, pos < Len(log)
    PROVE  LET e == Incoming
               a == assembly[e.key[1]]
               b == Observed(e)[e.key[1]]
           IN /\ Observed(e) \in [Clients -> Assemblies]
              /\ \A d \in Clients : d # e.key[1] => Observed(e)[d] = assembly[d]
              /\ \/ /\ e.kind # "chunk" \/ IgnoreChunk(e) \/ (~e.ok /\ a.stream # e.key[2])
                    /\ b = a
                 \/ /\ e.kind = "chunk" /\ ~IgnoreChunk(e) /\ b = NoAssembly
                    /\ ~e.ok \/ ~Accepts(AssemblyFor(e), e) \/ Completes(e)
                 \/ /\ e.kind = "chunk" /\ ~IgnoreChunk(e) /\ e.ok
                    /\ Accepts(AssemblyFor(e), e) /\ e.seg + 1 < Segments /\ ~Completes(e)
                    /\ b = [stream |-> e.key[2], seq |-> e.seq, next |-> e.seg + 1]
<1> DEFINE e == Incoming
           c == e.key[1]
           a == AssemblyFor(e)
<1>1. /\ e \in Entries /\ e.key \in Keys /\ c \in Clients /\ e.key[2] \in 0..MaxStreams
      /\ e.seq \in Nat /\ e.seg \in 0..(Segments - 1) /\ e.ok \in BOOLEAN
  BY IncomingParts
<1>2. assembly \in [Clients -> Assemblies] /\ assembly[c] \in Assemblies BY <1>1 DEF TypeOK
<1>3. NoAssembly \in Assemblies BY DEF NoAssembly, Assemblies
<1>4. a \in [stream : 0..MaxStreams, seq : Nat, next : Nat] /\ a.stream = e.key[2]
  BY <1>1, <1>2 DEF AssemblyFor, Assemblies
<1> HIDE DEF e, c, a
<1>5. CASE e.kind # "chunk"
  BY <1>2, <1>5 DEF Observed, e, c
<1>6. CASE e.kind = "chunk" /\ IgnoreChunk(e)
  BY <1>2, <1>6 DEF Observed, e, c
<1>7. CASE e.kind = "chunk" /\ ~IgnoreChunk(e) /\ ~e.ok
  <2>1. Observed(e) = RemoveAssembly(e.key) BY <1>7 DEF Observed
  <2>2. Observed(e) = IF assembly[c].stream = e.key[2]
                      THEN [assembly EXCEPT ![c] = NoAssembly] ELSE assembly
    BY <2>1 DEF RemoveAssembly, c
  <2> QED BY <1>1, <1>2, <1>3, <1>7, <2>2 DEF e, c
<1>8. CASE e.kind = "chunk" /\ ~IgnoreChunk(e) /\ e.ok
  <2> DEFINE b == IF Accepts(a, e) /\ ~Completes(e) THEN [a EXCEPT !.next = @ + 1] ELSE NoAssembly
  <2>1. Observed(e) = [assembly EXCEPT ![c] = b] BY <1>8 DEF Observed, a, c
  <2>2. CASE Accepts(a, e) /\ ~Completes(e)
    <3>1. e.seg + 1 # Segments BY <1>8, <2>2 DEF Completes, a
    <3>2. e.seg + 1 < Segments BY <1>1, <3>1
    <3>3. a.seq = e.seq /\ a.next = e.seg BY <2>2 DEF Accepts
    <3>4. b = [stream |-> e.key[2], seq |-> e.seq, next |-> e.seg + 1] BY <1>4, <2>2, <3>3
    <3>5. b \in Assemblies BY <1>1, <3>2, <3>4, SMTT(30) DEF Assemblies
    <3> HIDE DEF b
    <3>6. /\ Observed(e) \in [Clients -> Assemblies] /\ Observed(e)[c] = b
          /\ \A d \in Clients : d # c => Observed(e)[d] = assembly[d]
      BY <1>1, <1>2, <2>1, <3>5
    <3> QED BY <1>8, <2>2, <3>2, <3>4, <3>6 DEF e, c, a
  <2>3. CASE ~(Accepts(a, e) /\ ~Completes(e))
    <3>1. b = NoAssembly BY <2>3
    <3> HIDE DEF b
    <3>2. /\ Observed(e) \in [Clients -> Assemblies] /\ Observed(e)[c] = NoAssembly
          /\ \A d \in Clients : d # c => Observed(e)[d] = assembly[d]
      BY <1>1, <1>2, <1>3, <2>1, <3>1
    <3> QED BY <1>8, <2>3, <3>2 DEF e, c, a
  <2> QED BY <2>2, <2>3
<1> QED BY <1>1, <1>5, <1>6, <1>7, <1>8

\* What the tracker does with the envelope.
Effect(e) ==
    \/ Skips(e) /\ UNCHANGED <<clients, conns>>
    \/ Forwards(e) /\ Forwarded(e.key, e.seq)
    \/ e.kind = "initialize" /\ Opened(e.key, <<e.seq>>)
    \/ e.kind = "closed" /\ Quiet /\ clients'[e.key] = NoClient

\* What it does when the forwarding fails.
FailEffect(e) ==
    \/ Forwards(e) /\ UNCHANGED <<clients, conns>>
    \/ e.kind = "initialize" /\ Opened(e.key, <<>>)
    \/ e.kind \in {"initialize", "closed"} /\ Quiet /\ clients'[e.key] = NoClient

LEMMA SameTracker ==
    ASSUME TypeOK, TrackedInv, OpenTracked, UNCHANGED <<clients, conns>>,
           finished' \subseteq 1..Len(conns)
    PROVE  TrackerOK'
BY DEF TypeOK, TrackerOK, TrackedInv, OpenTracked

LEMMA HandleEffect ==
    ASSUME TypeOK, TrackedInv, OpenTracked, ClientAhead, pos < Len(log), Handle(Incoming)
    PROVE  TrackerOK' /\ Effect(Incoming)
<1> DEFINE e == Incoming
           k == e.key
<1>1. k \in Keys /\ e.seq \in Nat /\ pos + 1 \in 1..Len(log) /\ e = log[pos + 1] /\ Len(conns) \in Nat
  BY IncomingParts, LenProperties DEF TypeOK
<1>2. e.kind \in {"initialize", "message", "chunk"} => e.seq > 0
  BY <1>1 DEF ClientAhead, Numbered
<1>3. finished \subseteq 1..Len(conns) BY DEF TypeOK
<1> HIDE DEF e
<1>4. CASE Skips(e) /\ UNCHANGED trackerVars
  <2>1. UNCHANGED <<clients, conns>> /\ finished' \subseteq 1..Len(conns)
    BY <1>3, <1>4 DEF trackerVars
  <2> QED BY <1>4, <2>1, SameTracker DEF Effect, e
<1>5. CASE /\ Forwards(e)
           /\ conns' = [conns EXCEPT ![clients[k].conn].got = Append(@, e.seq)]
           /\ clients' = [clients EXCEPT ![k].last = LastInbound(e.seq)]
           /\ UNCHANGED finished
  <2>1. Tracked(k) /\ clients[k].last < e.seq /\ e.seq > 0
    BY <1>2, <1>5 DEF Forwards
  <2>2. clients' = [clients EXCEPT ![k].last = e.seq] BY <1>5 DEF LastInbound
  <2>3. TrackerOK' /\ Forwarded(k, e.seq) BY <1>1, <1>5, <2>1, <2>2, ForwardEffect
  <2> QED BY <1>5, <2>3 DEF Effect, e
<1>6. CASE /\ e.kind = "initialize"
           /\ conns' = Append(Opens(k), [key |-> k, got |-> <<e.seq>>, open |-> TRUE])
           /\ clients' = [clients EXCEPT ![k] = [conn |-> Len(conns) + 1,
                                                 last |-> LastInbound(e.seq)]]
           /\ finished' = Ending(k)
  <2>1. /\ conns' = Append(Closed(k), [key |-> k, got |-> <<e.seq>>, open |-> TRUE])
        /\ clients' = [clients EXCEPT ![k] = [conn |-> Len(conns) + 1, last |-> e.seq]]
        /\ finished' \subseteq Ending(k) \cup {Len(conns) + 1}
    BY <1>6 DEF LastInbound, Opens
  <2>2. /\ <<e.seq>> \in Seq(Nat) /\ LastOf(<<e.seq>>) = e.seq
        /\ [conn |-> Len(conns) + 1, last |-> e.seq] \in [conn : Nat, last : Nat]
    BY <1>1 DEF LastOf
  <2>3. TrackerOK' /\ Opened(k, <<e.seq>>) BY <1>1, <2>1, <2>2, OpenEffect
  <2> QED BY <1>6, <2>3 DEF Effect, e
<1>7. CASE e.kind = "closed" /\ CloseClient(k)
  <2>1. TrackerOK' /\ Quiet /\ clients'[k] = NoClient
    BY <1>1, <1>7, CloseEffect DEF CloseClient
  <2> QED BY <1>7, <2>1 DEF Effect, e
<1> QED BY <1>4, <1>5, <1>6, <1>7 DEF Handle, e

LEMMA FailHandleEffect ==
    ASSUME TypeOK, TrackedInv, OpenTracked, pos < Len(log),
           \/ Forwards(Incoming) /\ UNCHANGED trackerVars
           \/ Incoming.kind = "initialize" /\ FailedInitialize(Incoming.key)
           \/ Incoming.kind = "closed" /\ CloseClient(Incoming.key)
    PROVE  TrackerOK' /\ FailEffect(Incoming)
<1> DEFINE e == Incoming
           k == e.key
<1>1. k \in Keys /\ Len(conns) \in Nat
  BY IncomingParts, LenProperties DEF TypeOK
<1> HIDE DEF e
<1>2. CASE Forwards(e) /\ UNCHANGED trackerVars
  <2>1. UNCHANGED <<clients, conns>> /\ finished' \subseteq 1..Len(conns)
    BY <1>2 DEF trackerVars, TypeOK
  <2> QED BY <1>2, <2>1, SameTracker DEF FailEffect, e
<1>3. CASE e.kind \in {"initialize", "closed"} /\ CloseClient(k)
  <2>1. TrackerOK' /\ Quiet /\ clients'[k] = NoClient
    BY <1>1, <1>3, CloseEffect DEF CloseClient
  <2> QED BY <1>3, <2>1 DEF FailEffect, e
<1> DEFINE Open(o, r) ==
              /\ conns' = Append(Closed(k), [key |-> k, got |-> <<>>, open |-> o])
              /\ clients' = [clients EXCEPT ![k] = r]
              /\ finished' \subseteq Ending(k) \cup {Len(conns) + 1}
<1>4. <<>> \in Seq(Nat) /\ LastOf(<<>>) = 0 BY DEF LastOf
<1>5. CASE e.kind = "initialize" /\ Open(FALSE, NoClient)
  <2>1. TrackerOK' /\ Opened(k, <<>>) BY <1>1, <1>4, <1>5, NoClientFacts, OpenEffect
  <2> QED BY <1>5, <2>1 DEF FailEffect, e
<1>6. CASE e.kind = "initialize" /\ Open(TRUE, [conn |-> Len(conns) + 1, last |-> 0])
  <2>1. [conn |-> Len(conns) + 1, last |-> 0] \in [conn : Nat, last : Nat] BY <1>1
  <2>2. TrackerOK' /\ Opened(k, <<>>) BY <1>1, <1>4, <1>6, <2>1, OpenEffect
  <2> QED BY <1>6, <2>2 DEF FailEffect, e
<1> QED BY <1>2, <1>3, <1>5, <1>6 DEF FailedInitialize, e

-----------------------------------------------------------------------------
(* The steps, by what they do to the state the invariant is about *)

\* Client c, which is now at now, has sent envelope e.
Sends(c, e, now) ==
    LET old == client[c]
    IN \/ /\ e.kind = "initialize" /\ e.seq = now.seq /\ e.seg = 0 /\ now.segs = 0 /\ ~now.closed
          /\ \/ now.stream = old.stream /\ now.seq = old.seq + 1 /\ old.segs = 0
             \/ now.stream = old.stream + 1 /\ now.seq = 1
       \/ /\ e.kind = "message" /\ e.seq = now.seq /\ e.seg = 0 /\ ~old.closed
          /\ old.segs = 0 /\ now.segs = 0 /\ ~now.closed
          /\ now.stream = old.stream /\ now.seq = old.seq + 1
       \/ /\ e.kind = "chunk" /\ e.seq = now.seq /\ e.seg = old.segs /\ ~old.closed
          /\ ~now.closed /\ now.stream = old.stream
          /\ now.seq = IF old.segs = 0 THEN old.seq + 1 ELSE old.seq
          /\ now.segs = IF e.seg + 1 = Segments THEN 0 ELSE e.seg + 1
       \/ /\ e.kind \in {"ping", "closed"} /\ e.seq = 0 /\ ~old.closed
          /\ now.stream = old.stream /\ now.seq = old.seq /\ now.segs = old.segs
          /\ e.kind = "closed" => old.segs = 0
          /\ now.closed = (e.kind = "closed")

PostStep(c, e, now) ==
    /\ e \in Entries /\ now \in ClientStates /\ e.key = <<c, now.stream>>
    /\ Sends(c, e, now)
    /\ Len(log) < MaxEvents /\ pos = Len(log)
    /\ log' = Append(log, e) /\ client' = [client EXCEPT ![c] = now]
    /\ UNCHANGED <<cursor, pos, assembly, lastChunk, clients, conns, cut>>

\* Nothing is read; a connection that is lost makes the reader start again.
IdleStep ==
    /\ pos' \in {pos, cursor}
    /\ UNCHANGED <<log, client, cursor, assembly, lastChunk, clients, conns, cut>>

\* The client of key k is closed and forgotten.
CloseStep(k) ==
    /\ Quiet /\ clients'[k] = NoClient /\ Forget(k)
    /\ UNCHANGED <<log, client, cursor, pos, cut>>

SegmentStep ==
    /\ pos < Len(log) /\ ~Completes(Incoming)
    /\ pos' = pos + 1 /\ assembly' = Observed(Incoming)
    /\ UNCHANGED <<log, client, cursor, lastChunk, clients, conns, cut>>

DeliverStep ==
    /\ pos < Len(log) /\ Completes(Incoming) /\ Effect(Incoming)
    /\ pos' = pos + 1 /\ cursor' = pos + 1
    /\ IF Incoming.kind = "closed" THEN Forget(Incoming.key)
       ELSE /\ assembly' = Observed(Incoming)
            /\ lastChunk' = IF Incoming.kind = "chunk"
                            THEN [lastChunk EXCEPT ![Incoming.key] = Incoming.seq]
                            ELSE lastChunk
    /\ UNCHANGED <<log, client, cut>>

\* The envelope is handled, or not, and read again later.
AgainStep ==
    /\ pos < Len(log) /\ Completes(Incoming)
    /\ \/ Effect(Incoming) /\ cut' = cut
       \/ FailEffect(Incoming) /\ cut' = cut \cup {<<Incoming.key, Incoming.seq>>}
    /\ pos' = cursor /\ assembly' = Observed(Incoming)
    /\ UNCHANGED <<log, client, cursor, lastChunk>>

Posted ==
    \E c \in Clients : \E e \in Entries : \E now \in ClientStates : PostStep(c, e, now)

Step ==
    \/ Posted
    \/ IdleStep
    \/ \E k \in Keys : CloseStep(k)
    \/ SegmentStep \/ DeliverStep \/ AgainStep

LEMMA NextSegment ==
    ASSUME NEW g \in 0..(Segments - 1)
    PROVE  /\ (g + 1) % Segments = IF g + 1 = Segments THEN 0 ELSE g + 1
           /\ (g + 1) % Segments \in 0..(Segments - 1)
<1>1. g + 1 = Segments => (g + 1) % Segments = 0 OBVIOUS
<1>2. g + 1 # Segments => g + 1 < Segments OBVIOUS
<1>3. g + 1 < Segments => (g + 1) % Segments = g + 1 OBVIOUS
<1> QED BY <1>1, <1>2, <1>3

LEMMA ClientNow ==
    ASSUME TypeOK, InitializeFirst, NEW c \in Clients
    PROVE  /\ client[c] \in ClientStates /\ client[c].stream \in 0..MaxStreams
           /\ client[c].seq \in Nat /\ client[c].segs \in 0..(Segments - 1)
           /\ client[c].closed \in BOOLEAN
           /\ ~client[c].closed => client[c].stream \in 1..MaxStreams
<1>1. client[c] \in ClientStates BY DEF TypeOK
<1>2. ASSUME ~client[c].closed PROVE client[c].stream \in 1..MaxStreams
  <2>1. PICK i \in 1..Len(log) : log[i].key = <<c, client[c].stream>>
    BY <1>2 DEF InitializeFirst
  <2>2. <<c, client[c].stream>> \in Keys BY <2>1, EntryParts
  <2> QED BY <2>2 DEF Keys
<1> QED BY <1>1, <1>2 DEF ClientStates

LEMMA PostEffect ==
    ASSUME TypeOK,
           NEW c \in Clients, NEW kind \in Kinds, NEW seq \in Nat, NEW seg \in 0..(Segments - 1),
           NEW ok \in BOOLEAN, NEW now \in ClientStates, now.stream # 0,
           Post(c, kind, seq, seg, ok, now),
           Sends(c, [key |-> <<c, now.stream>>, kind |-> kind, seq |-> seq, seg |-> seg,
                     ok |-> ok], now)
    PROVE  Posted /\ UNCHANGED <<connected, finished, faults>>
<1> DEFINE e == [key |-> <<c, now.stream>>, kind |-> kind, seq |-> seq, seg |-> seg, ok |-> ok]
<1>1. <<c, now.stream>> \in Keys BY DEF Keys, ClientStates
<1>2. e \in Entries /\ e.key = <<c, now.stream>> BY <1>1 DEF Entries
<1>3. Len(log) < MaxEvents
  <2>1. Len(log) \in Nat /\ faults \in Nat BY LenProperties DEF TypeOK
  <2>2. Len(log) + faults < MaxEvents BY DEF Post
  <2> QED BY <2>1, <2>2
<1>4. PostStep(c, e, now)
  BY <1>2, <1>3 DEF PostStep, Post, segmentVars, trackerVars, boundVars
<1>5. UNCHANGED <<connected, finished, faults>>
  BY DEF Post, segmentVars, trackerVars, boundVars
<1> HIDE DEF e
<1> QED BY <1>2, <1>4, <1>5 DEF Posted

LEMMA ClientSteps ==
    ASSUME TypeOK, InitializeFirst, ClientStep
    PROVE  Posted /\ UNCHANGED <<connected, finished, faults>>
<1>2. PICK c \in Clients : \/ \E s \in 1..MaxStreams : ClientInitializes(c, s)
                           \/ ClientSends(c) \/ ClientPings(c) \/ ClientCloses(c)
                           \/ \E ok \in BOOLEAN : ClientSendsChunk(c, ok)
  BY DEF ClientStep
<1>3. /\ client[c] \in ClientStates /\ client[c].stream \in 0..MaxStreams
      /\ client[c].seq \in Nat /\ client[c].segs \in 0..(Segments - 1)
      /\ client[c].closed \in BOOLEAN
      /\ ~client[c].closed => client[c].stream \in 1..MaxStreams
  BY ClientNow
<1>z. 0 \in 0..(Segments - 1) /\ TRUE \in BOOLEAN /\ 0 \in Nat OBVIOUS
<1>k. "initialize" \in Kinds /\ "message" \in Kinds /\ "chunk" \in Kinds /\ "ping" \in Kinds
      /\ "closed" \in Kinds
  BY DEF Kinds
<1>4. CASE \E s \in 1..MaxStreams : ClientInitializes(c, s)
  <2>1. PICK s \in 1..MaxStreams : ClientInitializes(c, s) BY <1>4
  <2> DEFINE seq == IF s = client[c].stream THEN client[c].seq + 1 ELSE 1
             now == [stream |-> s, seq |-> seq, segs |-> 0, closed |-> FALSE]
  <2>2. /\ s = client[c].stream \/ s = client[c].stream + 1
        /\ s = client[c].stream => client[c].segs = 0
        /\ Post(c, "initialize", seq, 0, TRUE, now)
    BY <2>1 DEF ClientInitializes
  <2>3. seq \in Nat /\ now \in ClientStates /\ now.stream # 0 BY <1>3, <1>z DEF ClientStates
  <2>4. Sends(c, [key |-> <<c, now.stream>>, kind |-> "initialize", seq |-> seq, seg |-> 0,
                  ok |-> TRUE], now)
    BY <1>3, <2>2 DEF Sends
  <2> HIDE DEF seq, now
  <2> QED BY ONLY TypeOK, c \in Clients, <1>k, <1>z, <2>2, <2>3, <2>4, PostEffect
<1>5. CASE ClientSends(c)
  <2> DEFINE seq == client[c].seq + 1
             now == [client[c] EXCEPT !.seq = seq]
  <2>1. ~client[c].closed /\ client[c].segs = 0 /\ Post(c, "message", seq, 0, TRUE, now)
    BY <1>5 DEF ClientSends
  <2>2. /\ seq \in Nat /\ now \in ClientStates /\ now.stream = client[c].stream
        /\ now.seq = seq /\ now.segs = client[c].segs /\ now.closed = client[c].closed
    BY <1>3 DEF ClientStates
  <2>3. now.stream # 0 BY <1>3, <2>1, <2>2
  <2>4. Sends(c, [key |-> <<c, now.stream>>, kind |-> "message", seq |-> seq, seg |-> 0,
                  ok |-> TRUE], now)
    BY <1>3, <2>1, <2>2 DEF Sends
  <2> HIDE DEF seq, now
  <2> QED BY ONLY TypeOK, c \in Clients, <1>k, <1>z, <2>1, <2>2, <2>3, <2>4, PostEffect
<1>6. CASE ClientPings(c)
  <2>1. ~client[c].closed /\ Post(c, "ping", 0, 0, TRUE, client[c]) BY <1>6 DEF ClientPings
  <2>2. client[c].stream # 0 BY <1>3, <2>1
  <2>3. Sends(c, [key |-> <<c, client[c].stream>>, kind |-> "ping", seq |-> 0, seg |-> 0,
                  ok |-> TRUE], client[c])
    BY <1>3, <2>1 DEF Sends
  <2> QED BY ONLY TypeOK, c \in Clients, <1>k, <1>z, <1>3, <2>1, <2>2, <2>3, PostEffect
<1>7. CASE ClientCloses(c)
  <2> DEFINE now == [client[c] EXCEPT !.closed = TRUE]
  <2>1. ~client[c].closed /\ client[c].segs = 0 /\ Post(c, "closed", 0, 0, TRUE, now)
    BY <1>7 DEF ClientCloses
  <2>2. /\ now \in ClientStates /\ now.stream = client[c].stream
        /\ now.seq = client[c].seq /\ now.segs = client[c].segs /\ now.closed = TRUE
    BY <1>3 DEF ClientStates
  <2>3. now.stream # 0 BY <1>3, <2>1, <2>2
  <2>4. Sends(c, [key |-> <<c, now.stream>>, kind |-> "closed", seq |-> 0, seg |-> 0,
                  ok |-> TRUE], now)
    BY <1>3, <2>1, <2>2 DEF Sends
  <2> HIDE DEF now
  <2> QED BY ONLY TypeOK, c \in Clients, <1>k, <1>z, <2>1, <2>2, <2>3, <2>4, PostEffect
<1>8. CASE \E ok \in BOOLEAN : ClientSendsChunk(c, ok)
  <2>1. PICK ok \in BOOLEAN : ClientSendsChunk(c, ok) BY <1>8
  <2> DEFINE seg == client[c].segs
             seq == IF seg = 0 THEN client[c].seq + 1 ELSE client[c].seq
             segs == (seg + 1) % Segments
             now == [client[c] EXCEPT !.seq = seq, !.segs = segs]
  <2>2. ~client[c].closed /\ Post(c, "chunk", seq, seg, ok, now)
    BY <2>1 DEF ClientSendsChunk
  <2>3. /\ segs = IF seg + 1 = Segments THEN 0 ELSE seg + 1
        /\ segs \in 0..(Segments - 1)
    BY <1>3, NextSegment
  <2>s. seq \in Nat /\ seg \in 0..(Segments - 1) BY <1>3
  <2>e. seq = IF client[c].segs = 0 THEN client[c].seq + 1 ELSE client[c].seq OBVIOUS
  <2> HIDE DEF seq, segs
  <2>4. /\ now \in ClientStates /\ now.stream = client[c].stream
        /\ now.seq = seq /\ now.segs = segs /\ now.closed = client[c].closed
    BY <1>3, <2>3, <2>s DEF ClientStates
  <2> HIDE DEF now
  <2>5. now.stream # 0 BY <1>3, <2>2, <2>4
  <2>6. Sends(c, [key |-> <<c, now.stream>>, kind |-> "chunk", seq |-> seq, seg |-> seg,
                  ok |-> ok], now)
    BY <1>3, <2>2, <2>3, <2>4, <2>e DEF Sends
  <2> HIDE DEF seg
  <2> QED BY ONLY TypeOK, c \in Clients, ok \in BOOLEAN, <1>k, <1>3, <2>s, <2>2, <2>4, <2>5, <2>6, PostEffect
<1> QED BY <1>2, <1>4, <1>5, <1>6, <1>7, <1>8

\* What is left of the assemblies when a key is forgotten.
LEMMA ForgetFacts ==
    ASSUME TypeOK, NEW k \in Keys, Forget(k)
    PROVE  /\ assembly' \in [Clients -> Assemblies] /\ lastChunk' \in [Keys -> Nat]
           /\ \A d \in Clients : assembly'[d] = IF d = k[1] /\ assembly[d].stream = k[2]
                                                THEN NoAssembly ELSE assembly[d]
           /\ \A l \in Keys : lastChunk'[l] = IF l = k THEN 0 ELSE lastChunk[l]
<1>1. k[1] \in Clients BY KeyParts
<1>2. NoAssembly \in Assemblies BY DEF NoAssembly, Assemblies
<1>3. assembly \in [Clients -> Assemblies] /\ lastChunk \in [Keys -> Nat] BY DEF TypeOK
<1>4. assembly' = RemoveAssembly(k) /\ lastChunk' = [lastChunk EXCEPT ![k] = 0] BY DEF Forget
<1>5. assembly' = IF assembly[k[1]].stream = k[2] THEN [assembly EXCEPT ![k[1]] = NoAssembly]
                  ELSE assembly
  BY <1>4 DEF RemoveAssembly
<1> QED BY <1>1, <1>2, <1>3, <1>4, <1>5

LEMMA TypeParts ==
    ASSUME TypeOK
    PROVE  /\ Len(log) \in Nat /\ Len(conns) \in Nat /\ cursor \in Nat /\ pos \in Nat
           /\ faults \in Nat /\ finished \subseteq 1..Len(conns)
BY LenProperties DEF TypeOK

LEMMA StepCases ==
    ASSUME TypeOK, ClientAhead, InitializeFirst, TrackedInv, OpenTracked, [Next]_vars
    PROVE  TypeOK' /\ TrackerOK' /\ Step
<1>0. /\ log \in Seq(Entries) /\ client \in [Clients -> ClientStates]
      /\ cursor \in Nat /\ pos \in Nat /\ connected \in BOOLEAN
      /\ assembly \in [Clients -> Assemblies] /\ lastChunk \in [Keys -> Nat] /\ faults \in Nat
      /\ finished \subseteq 1..Len(conns)
  BY DEF TypeOK
<1>1. CASE ClientStep
  <2>1. Posted /\ UNCHANGED <<connected, finished, faults>> BY <1>1, ClientSteps
  <2>2. PICK c \in Clients, e \in Entries, now \in ClientStates : PostStep(c, e, now)
    BY <2>1 DEF Posted
  <2>3. log' \in Seq(Entries) BY <1>0, <2>2, Appended DEF PostStep
  <2>4. client' \in [Clients -> ClientStates] BY <1>0, <2>2 DEF PostStep
  <2>5. UNCHANGED <<clients, conns>> /\ finished' \subseteq 1..Len(conns)
    BY <1>0, <2>1, <2>2 DEF PostStep
  <2>6. TrackerOK' BY <2>5, SameTracker
  <2>7. TypeOK'
    BY <1>0, <2>1, <2>2, <2>3, <2>4, <2>6 DEF PostStep, TypeOK, TrackerOK
  <2> QED BY <2>1, <2>6, <2>7 DEF Step
<1>2. CASE Connect \/ Disconnect \/ UNCHANGED vars
  <2>1. UNCHANGED <<log, client, cursor, assembly, lastChunk, clients, conns, cut, finished>>
    BY <1>2 DEF Connect, Disconnect, Lose, clientVars, segmentVars, trackerVars, boundVars, vars
  <2>2. pos' \in {pos, cursor} /\ connected' \in BOOLEAN /\ faults' \in Nat
    <3>1. CASE Connect
      <4>1. connected' = TRUE /\ UNCHANGED <<pos, faults>> BY <3>1 DEF Connect, boundVars
      <4>2. connected' \in BOOLEAN BY <4>1
      <4> QED BY <1>0, <4>1, <4>2
    <3>2. CASE Disconnect
      <4>1. connected' = FALSE /\ pos' = cursor /\ faults' = faults + 1
        BY <3>2 DEF Disconnect, Lose, Resume
      <4>2. connected' \in BOOLEAN BY <4>1
      <4> QED BY <1>0, <4>1, <4>2
    <3>3. CASE UNCHANGED vars
      <4>1. UNCHANGED <<pos, connected, faults>> BY <3>3 DEF vars, boundVars
      <4> QED BY <1>0, <4>1
    <3> QED BY <1>2, <3>1, <3>2, <3>3
  <2>3. TrackerOK' BY <1>0, <2>1, SameTracker
  <2>4. TypeOK' BY <1>0, <2>1, <2>2 DEF TypeOK
  <2> QED BY <2>1, <2>2, <2>3, <2>4 DEF Step, IdleStep
<1>3. CASE \E k \in Keys : TaskEnds(k)
  <2>1. PICK k \in Keys : TaskEnds(k) BY <1>3
  <2>2. /\ UNCHANGED <<log, client, cursor, pos, connected, assembly, lastChunk, clients, conns, cut>>
        /\ finished' = finished \cup {clients[k].conn} /\ faults' = faults + 1 /\ Tracked(k)
    BY <2>1 DEF TaskEnds, clientVars, segmentVars
  <2>3. clients[k].conn \in 1..Len(conns) BY <2>2 DEF TrackedInv, Tracked
  <2>4. finished' \subseteq 1..Len(conns) BY <1>0, <2>2, <2>3
  <2>5. TrackerOK' BY <2>2, <2>4, SameTracker
  <2>6. TypeOK' BY <1>0, <2>2, <2>4 DEF TypeOK
  <2> QED BY <2>2, <2>5, <2>6 DEF Step, IdleStep
<1>4. ASSUME NEW k \in Keys, clients' = [clients EXCEPT ![k] = NoClient], conns' = Closed(k),
             finished' \subseteq Ending(k), Forget(k), faults' \in Nat,
             UNCHANGED <<clientVars, cursor, pos, connected, cut>>
      PROVE  TypeOK' /\ TrackerOK' /\ Step
  <2>1. TrackerOK' /\ Quiet /\ clients'[k] = NoClient BY <1>4, CloseEffect
  <2>2. assembly' \in [Clients -> Assemblies] /\ lastChunk' \in [Keys -> Nat]
    BY <1>4, ForgetFacts
  <2>3. UNCHANGED <<log, client, cursor, pos, cut, connected>> BY <1>4 DEF clientVars
  <2>4. TypeOK' BY <1>0, <1>4, <2>1, <2>2, <2>3 DEF TypeOK, TrackerOK
  <2>5. CloseStep(k) BY <1>4, <2>1, <2>3 DEF CloseStep
  <2> QED BY <2>1, <2>4, <2>5 DEF Step
<1>5. CASE \E n \in 1..Len(conns) : Join(n)
  <2>1. PICK n \in 1..Len(conns) : Join(n) BY <1>5
  <2>2. conns[n].key \in Keys BY ConnParts
  <2> DEFINE k == conns[n].key
  <2>3. /\ clients' = [clients EXCEPT ![k] = NoClient] /\ conns' = Closed(k)
        /\ finished' \subseteq Ending(k) /\ Forget(k) /\ faults' \in Nat
        /\ UNCHANGED <<clientVars, cursor, pos, connected, cut>>
    BY <1>0, <2>1 DEF Join, boundVars
  <2> HIDE DEF k
  <2> QED BY <1>4, <2>2, <2>3 DEF k
<1>6. CASE \E k \in Keys : Expire(k)
  <2>1. PICK k \in Keys : Expire(k) BY <1>6
  <2>3. /\ clients' = [clients EXCEPT ![k] = NoClient] /\ conns' = Closed(k)
        /\ finished' \subseteq Ending(k) /\ Forget(k) /\ faults' \in Nat
        /\ UNCHANGED <<clientVars, cursor, pos, connected, cut>>
    BY <1>0, <2>1 DEF Expire, CloseClient
  <2> QED BY <1>4, <2>3
<1>7. CASE ReadSegment
  <2>1. /\ pos < Len(log) /\ ~Completes(Incoming) /\ pos' = pos + 1
        /\ assembly' = Observed(Incoming)
        /\ UNCHANGED <<log, client, cursor, connected, lastChunk, clients, conns, finished, faults, cut>>
    BY <1>7 DEF ReadSegment, clientVars, trackerVars, boundVars
  <2>2. assembly' \in [Clients -> Assemblies] BY <2>1, ObservedFacts
  <2>3. TrackerOK' BY <1>0, <2>1, SameTracker
  <2>4. TypeOK' BY <1>0, <2>1, <2>2 DEF TypeOK
  <2> QED BY <2>1, <2>3, <2>4 DEF Step, SegmentStep
<1>8. CASE Deliver
  <2>1. /\ pos < Len(log) /\ Completes(Incoming) /\ Handle(Incoming)
        /\ pos' = pos + 1 /\ cursor' = pos + 1
        /\ IF Incoming.kind = "closed" THEN Forget(Incoming.key)
           ELSE /\ assembly' = Observed(Incoming)
                /\ lastChunk' = IF Incoming.kind = "chunk"
                                THEN [lastChunk EXCEPT ![Incoming.key] = Incoming.seq]
                                ELSE lastChunk
        /\ UNCHANGED <<log, client, connected, faults, cut>>
    BY <1>8 DEF Deliver, clientVars, boundVars
  <2>2. TrackerOK' /\ Effect(Incoming) BY <2>1, HandleEffect
  <2>3. Incoming.key \in Keys /\ Incoming.seq \in Nat BY <2>1, IncomingParts
  <2>4. assembly' \in [Clients -> Assemblies] /\ lastChunk' \in [Keys -> Nat]
    <3>1. CASE Incoming.kind = "closed" BY <2>1, <2>3, <3>1, ForgetFacts
    <3>2. CASE Incoming.kind # "closed" BY <1>0, <2>1, <2>3, <3>2, ObservedFacts
    <3> QED BY <3>1, <3>2
  <2>5. TypeOK' BY <1>0, <2>1, <2>2, <2>4, SMTT(30) DEF TypeOK, TrackerOK
  <2>6. DeliverStep BY <2>1, <2>2 DEF DeliverStep
  <2> QED BY <2>2, <2>5, <2>6 DEF Step
<1>9. CASE DeliverUnrecorded
  <2>1. /\ pos < Len(log) /\ Completes(Incoming) /\ Handle(Incoming)
        /\ assembly' = Observed(Incoming) /\ pos' = cursor /\ connected' = FALSE
        /\ faults' = faults + 1
        /\ UNCHANGED <<log, client, cursor, lastChunk, cut>>
    BY <1>9 DEF DeliverUnrecorded, Lose, Resume, clientVars
  <2>2. TrackerOK' /\ Effect(Incoming) BY <2>1, HandleEffect
  <2>3. assembly' \in [Clients -> Assemblies] BY <2>1, ObservedFacts
  <2>f. connected' \in BOOLEAN /\ faults' \in Nat
    <3>1. connected' \in BOOLEAN BY <2>1
    <3> QED BY <1>0, <2>1, <3>1
  <2>u. UNCHANGED <<log, client, cursor, lastChunk>> /\ pos' = cursor BY <2>1
  <2>4. TypeOK' BY ONLY <1>0, <2>u, <2>f, <2>2, <2>3 DEF TypeOK, TrackerOK
  <2> QED BY <2>1, <2>2, <2>4 DEF Step, AgainStep
<1>10. CASE DeliverFails
  <2>1. /\ pos < Len(log) /\ Completes(Incoming)
        /\ \/ Forwards(Incoming) /\ UNCHANGED trackerVars
           \/ Incoming.kind = "initialize" /\ FailedInitialize(Incoming.key)
           \/ Incoming.kind = "closed" /\ CloseClient(Incoming.key)
        /\ assembly' = Observed(Incoming) /\ pos' = cursor /\ connected' = FALSE
        /\ faults' = faults + 1
        /\ cut' = cut \cup {<<Incoming.key, Incoming.seq>>}
        /\ UNCHANGED <<log, client, cursor, lastChunk>>
    BY <1>10 DEF DeliverFails, Lose, Resume, clientVars
  <2>2. TrackerOK' /\ FailEffect(Incoming) BY <2>1, FailHandleEffect
  <2>3. assembly' \in [Clients -> Assemblies] BY <2>1, ObservedFacts
  <2>f. connected' \in BOOLEAN /\ faults' \in Nat
    <3>1. connected' \in BOOLEAN BY <2>1
    <3> QED BY <1>0, <2>1, <3>1
  <2>u. UNCHANGED <<log, client, cursor, lastChunk>> /\ pos' = cursor BY <2>1
  <2>4. TypeOK' BY ONLY <1>0, <2>u, <2>f, <2>2, <2>3 DEF TypeOK, TrackerOK
  <2> QED BY <2>1, <2>2, <2>4 DEF Step, AgainStep
<1> QED BY <1>1, <1>2, <1>3, <1>5, <1>6, <1>7, <1>8, <1>9, <1>10 DEF Next

-----------------------------------------------------------------------------
(* The log grows *)

LEMMA PostFacts ==
    ASSUME TypeOK, NEW c \in Clients, NEW e \in Entries, NEW now \in ClientStates,
           PostStep(c, e, now)
    PROVE  /\ Len(log) \in Nat /\ Len(log') = Len(log) + 1 /\ log'[Len(log) + 1] = e
           /\ \A i \in 1..Len(log) : log'[i] = log[i]
           /\ \A i \in 1..Len(log') : i \in 1..Len(log) \/ i = Len(log) + 1
           /\ client'[c] = now /\ \A d \in Clients \ {c} : client'[d] = client[d]
           /\ e.key \in Keys /\ e.key[1] = c /\ e.key[2] = now.stream /\ e.seq \in Nat
           /\ e.seg \in 0..(Segments - 1) /\ e.kind \in Kinds
           /\ now.stream \in 0..MaxStreams /\ now.seq \in Nat /\ now.segs \in 0..(Segments - 1)
           /\ e.key = <<c, now.stream>> /\ Sends(c, e, now)
<1>1. log \in Seq(Entries) /\ client \in [Clients -> ClientStates] BY DEF TypeOK
<1>2. log' = Append(log, e) /\ client' = [client EXCEPT ![c] = now] /\ e.key = <<c, now.stream>>
      /\ Sends(c, e, now)
  BY DEF PostStep
<1>3. /\ Len(log) \in Nat /\ Len(log') = Len(log) + 1 /\ log'[Len(log) + 1] = e
      /\ \A i \in 1..Len(log) : log'[i] = log[i]
  BY <1>1, <1>2, Appended
<1>4. \A i \in 1..Len(log') : i \in 1..Len(log) \/ i = Len(log) + 1 BY <1>3
<1>5. e.key \in Keys /\ e.seq \in Nat /\ e.seg \in 0..(Segments - 1) /\ e.kind \in Kinds
  BY DEF Entries
<1>6. now.stream \in 0..MaxStreams /\ now.seq \in Nat /\ now.segs \in 0..(Segments - 1)
  BY DEF ClientStates
<1>7. e.key[1] = c /\ e.key[2] = now.stream BY <1>2
<1> QED BY <1>1, <1>2, <1>3, <1>4, <1>5, <1>6, <1>7

\* How what a client sends is related to what it sent before.
LEMMA SendFacts ==
    ASSUME TypeOK, LogInv, NEW c \in Clients, NEW e \in Entries, NEW now \in ClientStates,
           PostStep(c, e, now)
    PROVE  LET old == client[c]
           IN /\ now.stream \in {old.stream, old.stream + 1} /\ e.seq <= now.seq
              /\ now.stream = old.stream => now.seq \in {old.seq, old.seq + 1}
              /\ now.stream # old.stream =>
                    e.kind = "initialize" /\ now.seq = 1 /\ now.segs = 0 /\ ~now.closed
              /\ e.kind \in {"initialize", "message", "chunk"} =>
                    /\ e.seq = now.seq /\ e.seq > 0
                    /\ now.stream = old.stream =>
                          \/ e.seq = old.seq + 1 /\ old.segs = 0
                          \/ /\ e.kind = "chunk" /\ old.segs > 0 /\ e.seq = old.seq
                             /\ e.seg = old.segs
              /\ e.kind # "initialize" => now.stream = old.stream /\ ~old.closed
<1> DEFINE old == client[c]
<1>1. old.stream \in 0..MaxStreams /\ old.seq \in Nat /\ old.segs \in 0..(Segments - 1)
  BY ClientNow DEF LogInv
<1>2. Sends(c, e, now) /\ now.stream \in 0..MaxStreams /\ now.seq \in Nat
  BY PostFacts
<1>3. old.segs > 0 => old.seq > 0
  <2>1. ASSUME old.segs > 0
        PROVE  \E i \in 1..Len(log) : Segment(i, <<c, old.stream>>, old.seq, old.segs - 1)
    BY <2>1 DEF LogInv, ClientSegments
  <2>2. \A i \in 1..Len(log) : log[i].kind = "chunk" => log[i].seq > 0
    BY DEF LogInv, ClientAhead, Numbered
  <2> QED BY <2>1, <2>2 DEF Segment, Chunk
<1> HIDE DEF old
<1> QED BY <1>1, <1>2, <1>3 DEF Sends, old

LEMMA PostOrder ==
    ASSUME TypeOK, LogInv, NEW c \in Clients, NEW e \in Entries, NEW now \in ClientStates,
           PostStep(c, e, now)
    PROVE  ClientAhead' /\ SeqBounded' /\ StreamsOrdered' /\ SeqOrdered' /\ InitializeFirst'
<1> DEFINE n == Len(log)
           old == client[c]
<1>1. /\ n \in Nat /\ Len(log') = n + 1 /\ log'[n + 1] = e
      /\ \A i \in 1..n : log'[i] = log[i]
      /\ \A i \in 1..Len(log') : i \in 1..n \/ i = n + 1
      /\ client'[c] = now /\ \A d \in Clients \ {c} : client'[d] = client[d]
      /\ e.key \in Keys /\ e.key[1] = c /\ e.key[2] = now.stream /\ e.seq \in Nat
      /\ now.stream \in 0..MaxStreams /\ now.seq \in Nat /\ e.key = <<c, now.stream>>
      /\ e.seg \in 0..(Segments - 1) /\ Sends(c, e, now)
  BY PostFacts
<1>2. old.stream \in 0..MaxStreams /\ old.seq \in Nat /\ old.segs \in 0..(Segments - 1)
  BY ClientNow DEF LogInv
<1>3. /\ now.stream \in {old.stream, old.stream + 1} /\ e.seq <= now.seq
      /\ now.stream = old.stream => now.seq \in {old.seq, old.seq + 1}
      /\ now.stream # old.stream => e.kind = "initialize" /\ now.seq = 1
      /\ e.kind \in {"initialize", "message", "chunk"} =>
            /\ e.seq = now.seq /\ e.seq > 0
            /\ now.stream = old.stream =>
                  \/ e.seq = old.seq + 1 /\ old.segs = 0
                  \/ /\ e.kind = "chunk" /\ old.segs > 0 /\ e.seq = old.seq
                     /\ e.seg = old.segs
      /\ e.kind # "initialize" => now.stream = old.stream /\ ~old.closed
  BY SendFacts
<1>4. \A i \in 1..n :
        /\ log[i].key \in Keys /\ log[i].key[1] \in Clients /\ log[i].key[2] \in 1..MaxStreams
        /\ log[i].seq \in Nat /\ log[i].seg \in 0..(Segments - 1)
        /\ log[i].key[1] = c => log[i].key[2] <= old.stream
        /\ log[i].key = e.key => now.stream = old.stream /\ log[i].seq <= old.seq
  <2> SUFFICES ASSUME NEW i \in 1..n
               PROVE  /\ log[i].key[1] = c => log[i].key[2] <= old.stream
                      /\ log[i].key = e.key => now.stream = old.stream /\ log[i].seq <= old.seq
    BY EntryParts
  <2>1. log[i].key[2] \in 1..MaxStreams BY EntryParts
  <2>2. log[i].key[1] = c => /\ log[i].key[2] <= old.stream
                             /\ log[i].key[2] = old.stream => log[i].seq <= old.seq
    BY DEF LogInv, ClientAhead
  <2>3. log[i].key = e.key => log[i].key[1] = c /\ log[i].key[2] = now.stream BY <1>1
  <2> HIDE DEF n, old
  <2> QED BY <1>1, <1>2, <1>3, <2>1, <2>2, <2>3
<1>a. ClientAhead'
  <2> SUFFICES ASSUME NEW i \in 1..Len(log')
               PROVE  /\ log'[i].key[2] <= client'[log'[i].key[1]].stream
                      /\ log'[i].key[2] = client'[log'[i].key[1]].stream =>
                            log'[i].seq <= client'[log'[i].key[1]].seq
                      /\ log'[i].kind \in {"initialize", "message", "chunk"} => log'[i].seq > 0
    BY DEF ClientAhead, Numbered
  <2>1. CASE i = n + 1 BY <1>1, <1>3, <2>1
  <2>2. CASE i \in 1..n
    <3>1. /\ log[i].key[2] <= client[log[i].key[1]].stream
          /\ log[i].key[2] = client[log[i].key[1]].stream =>
                log[i].seq <= client[log[i].key[1]].seq
          /\ log[i].kind \in {"initialize", "message", "chunk"} => log[i].seq > 0
      BY <2>2 DEF LogInv, ClientAhead, Numbered
    <3>2. log'[i] = log[i] BY <1>1, <2>2
    <3>3. CASE log[i].key[1] # c BY <1>1, <1>4, <2>2, <3>1, <3>2, <3>3
    <3>4. CASE log[i].key[1] = c
      <4>1. client'[log'[i].key[1]] = now BY <1>1, <3>2, <3>4
      <4>2. log[i].key[2] \in 1..MaxStreams /\ log[i].seq \in Nat BY <1>4, <2>2
      <4>3. /\ log[i].key[2] <= old.stream
            /\ log[i].key[2] = old.stream => log[i].seq <= old.seq
        BY <3>1, <3>4
      <4>4. log[i].key[2] <= now.stream BY <1>1, <1>2, <1>3, <4>2, <4>3, SMTT(30)
      <4>5. log[i].key[2] = now.stream => log[i].seq <= now.seq
        <5>1. CASE now.stream = old.stream
          <6>1. now.seq \in {old.seq, old.seq + 1} BY <1>3, <5>1
          <6> HIDE DEF old
          <6> QED BY ONLY <1>1, <1>2, <6>1, <4>2, <4>3, <5>1, SMTT(30)
        <5>2. CASE now.stream = old.stream + 1 BY <1>2, <4>2, <4>3, <5>2
        <5> QED BY <1>3, <5>1, <5>2
      <4> QED BY <3>1, <3>2, <4>1, <4>4, <4>5
    <3> QED BY <3>3, <3>4
  <2> QED BY <1>1, <2>1, <2>2
<1>b. SeqBounded'
  <2>1. n <= MaxEvents /\ \A d \in Clients : client[d].seq <= n BY DEF LogInv, SeqBounded
  <2>2. n < MaxEvents BY DEF PostStep
  <2>3. \A d \in Clients : client[d].seq \in Nat BY ClientNow DEF LogInv
  <2>4. now.seq <= n + 1
    <3>1. old.seq <= n BY <2>1
    <3> HIDE DEF n, old
    <3> QED BY <1>1, <1>2, <1>3, <3>1
  <2>5. \A d \in Clients : client'[d].seq <= n + 1 BY <1>1, <2>1, <2>3, <2>4, SMTT(30)
  <2>6. e.seq <= MaxEvents BY <1>1, <1>3, <2>2, <2>4
  <2>7. \A i \in 1..n : log[i].seq <= MaxEvents BY DEF LogInv, SeqBounded
  <2>8. \A i \in 1..Len(log') : log'[i].seq <= MaxEvents BY <1>1, <2>6, <2>7
  <2> QED BY <1>1, <2>2, <2>5, <2>8 DEF SeqBounded
<1>c. StreamsOrdered'
  <2> SUFFICES ASSUME NEW i \in 1..Len(log'), NEW j \in 1..Len(log'),
                      i < j, log'[i].key[1] = log'[j].key[1]
               PROVE  log'[i].key[2] <= log'[j].key[2]
    BY DEF StreamsOrdered
  <2>1. i \in 1..n /\ log'[i] = log[i] BY <1>1
  <2>2. CASE j \in 1..n BY <1>1, <2>1, <2>2 DEF LogInv, StreamsOrdered
  <2>3. CASE j = n + 1
    <3>1. log[i].key[2] <= old.stream BY <1>1, <1>4, <2>1, <2>3
    <3>2. log'[j].key[2] = now.stream BY <1>1, <2>3
    <3>3. log[i].key[2] \in 1..MaxStreams BY <1>4, <2>1
    <3> HIDE DEF n, old
    <3> QED BY <1>1, <1>2, <1>3, <2>1, <3>1, <3>2, <3>3, SMTT(30)
  <2> QED BY <1>1, <2>2, <2>3
<1>d. SeqOrdered'
  <2> SUFFICES ASSUME NEW i \in 1..Len(log'), NEW j \in 1..Len(log'),
                      i < j, log'[i].key = log'[j].key,
                      log'[i].kind \in {"initialize", "message", "chunk"},
                      log'[j].kind \in {"initialize", "message", "chunk"}
               PROVE  \/ log'[i].seq < log'[j].seq
                      \/ /\ log'[i].seq = log'[j].seq /\ log'[i].seg < log'[j].seg
                         /\ log'[i].kind = "chunk" /\ log'[j].kind = "chunk"
    BY DEF SeqOrdered, Numbered
  <2>1. i \in 1..n /\ log'[i] = log[i] BY <1>1
  <2>2. CASE j \in 1..n BY <1>1, <2>1, <2>2, SMTT(30) DEF LogInv, SeqOrdered, Numbered
  <2>3. CASE j = n + 1
    <3>1. log'[j] = e /\ log[i].key = e.key BY <1>1, <2>1, <2>3
    <3>2. now.stream = old.stream /\ log[i].seq <= old.seq /\ log[i].seq \in Nat BY <1>4, <2>1, <3>1
    <3>3. CASE e.seq = old.seq + 1 BY <1>2, <2>1, <3>1, <3>2, <3>3
    <3>4. CASE e.seq # old.seq + 1
      <4>1. e.kind = "chunk" /\ old.segs > 0 /\ e.seq = old.seq /\ e.seg = old.segs
        BY <1>3, <2>3, <3>1, <3>2, <3>4
      <4>2. /\ \E h \in 1..n : Segment(h, <<c, old.stream>>, old.seq, old.segs - 1)
            /\ \A h \in 1..n :
                  log[h].key = <<c, old.stream>> /\ log[h].seq = old.seq => log[h].seg < old.segs
        BY <4>1 DEF LogInv, ClientSegments
      <4>3. PICK h \in 1..n : Segment(h, <<c, old.stream>>, old.seq, old.segs - 1) BY <4>2
      <4>4. log[h].kind = "chunk" /\ log[h].key = log[i].key /\ log[h].seq = old.seq
        BY <1>1, <3>1, <3>2, <4>3 DEF Segment, Chunk
      <4>5. log[i].seq = old.seq => log[i].kind = "chunk"
        <5>1. CASE i = h BY <4>4, <5>1
        <5>0. Numbered(i) /\ Numbered(h) BY <2>1, <4>4 DEF Numbered
        <5>2. CASE i < h
          <6>1. \/ log[i].seq < log[h].seq \/ log[i].kind = "chunk"
            BY <2>1, <4>4, <5>0, <5>2 DEF LogInv, SeqOrdered
          <6> QED BY <1>2, <4>4, <6>1
        <5>3. CASE h < i
          <6>1. \/ log[h].seq < log[i].seq \/ log[i].kind = "chunk"
            BY <2>1, <4>4, <5>0, <5>3 DEF LogInv, SeqOrdered
          <6> QED BY <1>2, <4>4, <6>1
        <5> QED BY <5>1, <5>2, <5>3, <2>1
      <4>6. log[i].seq = old.seq => log[i].seg < old.segs BY <1>1, <2>1, <3>1, <3>2, <4>2
      <4> HIDE DEF n, old
      <4> QED BY <1>2, <2>1, <3>1, <3>2, <4>1, <4>5, <4>6
    <3> QED BY <3>3, <3>4
  <2> QED BY <1>1, <2>2, <2>3
<1>e. InitializeFirst'
  <2>1. ASSUME NEW j \in 1..Len(log')
        PROVE  \E i \in 1..j : log'[i].key = log'[j].key /\ log'[i].kind = "initialize"
    <3>1. CASE j \in 1..n
      <4>1. PICK i \in 1..j : log[i].key = log[j].key /\ log[i].kind = "initialize"
        BY <3>1 DEF LogInv, InitializeFirst
      <4>2. i \in 1..n BY <1>1, <3>1
      <4> QED BY <1>1, <3>1, <4>1, <4>2
    <3>2. CASE j = n + 1 /\ e.kind = "initialize"
      <4>1. j \in 1..j BY <1>1, <3>2
      <4> QED BY <1>1, <3>2, <4>1
    <3>3. CASE j = n + 1 /\ e.kind # "initialize"
      <4>1. PICK i \in 1..n : log[i].key = <<c, old.stream>> /\ log[i].kind = "initialize"
        BY <1>3, <3>3 DEF LogInv, InitializeFirst
      <4>2. i \in 1..j BY <1>1, <3>3
      <4>3. log'[i] = log[i] /\ log[i].key = e.key /\ log'[j] = e BY <1>1, <1>3, <3>3, <4>1
      <4> QED BY <4>1, <4>2, <4>3
    <3> QED BY <1>1, <3>1, <3>2, <3>3
  <2>2. ASSUME NEW d \in Clients, ~client'[d].closed
        PROVE  \E i \in 1..Len(log') :
                  log'[i].key = <<d, client'[d].stream>> /\ log'[i].kind = "initialize"
    <3>1. CASE d # c
      <4>1. client'[d] = client[d] BY <1>1, <3>1
      <4>2. PICK i \in 1..n : log[i].key = <<d, client[d].stream>> /\ log[i].kind = "initialize"
        BY <2>2, <4>1 DEF LogInv, InitializeFirst
      <4>3. i \in 1..Len(log') /\ log'[i] = log[i] BY <1>1
      <4> QED BY <4>1, <4>2, <4>3
    <3>2. CASE d = c /\ e.kind = "initialize"
      <4>1. n + 1 \in 1..Len(log') BY <1>1
      <4> QED BY <1>1, <3>2, <4>1
    <3>3. CASE d = c /\ e.kind # "initialize"
      <4>1. PICK i \in 1..n : log[i].key = <<c, old.stream>> /\ log[i].kind = "initialize"
        BY <1>3, <3>3 DEF LogInv, InitializeFirst
      <4>2. i \in 1..Len(log') /\ log'[i] = log[i] BY <1>1
      <4> QED BY <1>1, <1>3, <3>3, <4>1, <4>2
    <3> QED BY <3>1, <3>2, <3>3
  <2> QED BY <2>1, <2>2 DEF InitializeFirst
<1> QED BY <1>a, <1>b, <1>c, <1>d, <1>e

LEMMA PostSegments ==
    ASSUME TypeOK, LogInv, NEW c \in Clients, NEW e \in Entries, NEW now \in ClientStates,
           PostStep(c, e, now)
    PROVE  SegmentsInOrder' /\ ClientSegments'
<1> DEFINE n == Len(log)
           old == client[c]
           k == <<c, now.stream>>
           SegAt(i, l, q, g) == /\ log'[i].kind = "chunk" /\ log'[i].key = l /\ log'[i].seq = q
                                /\ log'[i].seg = g
<1>1. /\ n \in Nat /\ Len(log') = n + 1 /\ log'[n + 1] = e
      /\ \A i \in 1..n : log'[i] = log[i]
      /\ \A i \in 1..Len(log') : i \in 1..n \/ i = n + 1
      /\ client'[c] = now /\ \A d \in Clients \ {c} : client'[d] = client[d]
      /\ e.key[1] = c /\ e.key = k /\ e.seq \in Nat
      /\ now.stream \in 0..MaxStreams /\ now.seq \in Nat /\ now.segs \in 0..(Segments - 1)
      /\ e.seg \in 0..(Segments - 1) /\ Sends(c, e, now)
  BY PostFacts
<1>2. old.stream \in 0..MaxStreams /\ old.seq \in Nat /\ old.segs \in 0..(Segments - 1)
  BY ClientNow DEF LogInv
<1>3. /\ now.stream # old.stream => e.kind = "initialize" /\ now.segs = 0
      /\ e.kind \in {"initialize", "message", "chunk"} =>
            /\ e.seq = now.seq /\ e.seq > 0
            /\ now.stream = old.stream =>
                  \/ e.seq = old.seq + 1 /\ old.segs = 0
                  \/ /\ e.kind = "chunk" /\ old.segs > 0 /\ e.seq = old.seq
                     /\ e.seg = old.segs
      /\ e.kind # "initialize" => now.stream = old.stream /\ ~old.closed
  BY SendFacts
<1>4. \A i \in 1..n :
        /\ log[i].seq \in Nat /\ log[i].seg \in 0..(Segments - 1)
        /\ log[i].key = k => now.stream = old.stream /\ log[i].seq <= old.seq
  <2> SUFFICES ASSUME NEW i \in 1..n
               PROVE  log[i].key = k => now.stream = old.stream /\ log[i].seq <= old.seq
    BY EntryParts
  <2>1. ASSUME log[i].key = k PROVE now.stream = old.stream /\ log[i].seq <= old.seq
    <3>1. log[i].key[1] = c /\ log[i].key[2] = now.stream BY <2>1
    <3>2. now.stream <= old.stream /\ (now.stream = old.stream => log[i].seq <= old.seq)
      BY <3>1 DEF LogInv, ClientAhead
    <3>3. now.stream \in {old.stream, old.stream + 1} BY SendFacts
    <3> HIDE DEF n, old
    <3> QED BY ONLY <1>1, <1>2, <3>2, <3>3
  <2> QED BY <2>1
<1>5. \A i \in 1..n : \A l, q, g : Segment(i, l, q, g) => SegAt(i, l, q, g)
  BY <1>1 DEF Segment, Chunk
<1>6. \A j \in 1..n : log[j].kind = "chunk" =>
         \A g \in 0..log[j].seg : \E i \in 1..j : Segment(i, log[j].key, log[j].seq, g)
  BY DEF LogInv, SegmentsInOrder
<1>7. /\ old.segs > 0 =>
            /\ ~old.closed
            /\ \E i \in 1..n : Segment(i, <<c, old.stream>>, old.seq, old.segs - 1)
            /\ \A i \in 1..n :
                  log[i].key = <<c, old.stream>> /\ log[i].seq = old.seq => log[i].seg < old.segs
      /\ \A i \in 1..n :
            /\ log[i].kind = "chunk" /\ log[i].key = <<c, old.stream>>
            /\ old.segs = 0 \/ log[i].seq < old.seq
            => \A g \in 0..(Segments - 1) : \E h \in 1..n :
                  Segment(h, <<c, old.stream>>, log[i].seq, g)
  BY DEF LogInv, ClientSegments
<1>8. old.segs > 0 => old.seq > 0
  <2>1. \A i \in 1..n : log[i].kind = "chunk" => log[i].seq > 0
    BY DEF LogInv, ClientAhead, Numbered
  <2> QED BY <1>7, <2>1 DEF Segment, Chunk
<1> HIDE DEF n, old
\* The segments up to the new one
<1>a. ASSUME e.kind = "chunk", NEW g \in 0..e.seg
      PROVE  \E i \in 1..(n + 1) : SegAt(i, k, e.seq, g)
  <2>1. n + 1 \in 1..(n + 1) BY <1>1
  <2>2. CASE g = e.seg BY <1>1, <1>a, <2>1, <2>2
  <2>3. CASE g # e.seg
    <3>1. now.stream = old.stream BY <1>3, <1>a
    <3>2. e.seg = old.segs /\ old.segs > 0 /\ e.seq = old.seq
      <4>1. e.seg > 0 BY <1>1, <1>a, <2>3
      <4>2. e.seg = old.segs BY <1>1, <1>a DEF Sends, old
      <4> QED BY <1>3, <1>a, <3>1, <4>1, <4>2
    <3>3. PICK j \in 1..n : Segment(j, <<c, old.stream>>, old.seq, old.segs - 1) BY <1>7, <3>2
    <3>4. /\ log[j].kind = "chunk" /\ log[j].key = k /\ log[j].seq = e.seq
          /\ log[j].seg = old.segs - 1
      BY <3>1, <3>2, <3>3 DEF Segment, Chunk
    <3>5. g \in 0..log[j].seg BY <1>1, <1>2, <2>3, <3>2, <3>4
    <3>6. PICK i \in 1..j : Segment(i, k, e.seq, g) BY <1>6, <3>4, <3>5
    <3>7. i \in 1..n /\ i \in 1..(n + 1) BY <1>1
    <3> QED BY <1>5, <3>6, <3>7
  <2> QED BY <2>2, <2>3
<1>b. ASSUME NEW i \in 1..n, log[i].kind = "chunk", log[i].key = k,
             old.segs = 0 \/ log[i].seq < old.seq, NEW g \in 0..(Segments - 1)
      PROVE  \E h \in 1..(n + 1) : SegAt(h, k, log[i].seq, g)
  <2>1. now.stream = old.stream BY <1>4, <1>b
  <2>2. PICK h \in 1..n : Segment(h, k, log[i].seq, g) BY <1>7, <1>b, <2>1
  <2>3. h \in 1..(n + 1) BY <1>1
  <2> QED BY <1>5, <2>2, <2>3
<1>c. ASSUME NEW j \in 1..Len(log'), log'[j].kind = "chunk", NEW g \in 0..log'[j].seg
      PROVE  \E i \in 1..j : SegAt(i, log'[j].key, log'[j].seq, g)
  <2>1. CASE j \in 1..n
    <3>1. PICK i \in 1..j : Segment(i, log[j].key, log[j].seq, g) BY <1>1, <1>6, <1>c, <2>1
    <3>2. i \in 1..n BY <1>1, <2>1
    <3> QED BY <1>1, <1>5, <2>1, <3>1, <3>2
  <2>2. CASE j = n + 1
    <3>1. log'[j] = e /\ e.key = k /\ e.kind = "chunk" /\ g \in 0..e.seg BY <1>1, <1>c, <2>2
    <3>2. \E i \in 1..j : SegAt(i, k, e.seq, g) BY <1>a, <2>2, <3>1
    <3> HIDE DEF SegAt
    <3> QED BY <3>1, <3>2
  <2> QED BY <1>1, <2>1, <2>2
<1>d. ASSUME NEW i \in 1..Len(log'), NEW j \in 1..Len(log'), log'[i].kind = "chunk",
             log'[j].kind \in {"initialize", "message", "chunk"},
             log'[i].key = log'[j].key, log'[i].seq < log'[j].seq, NEW g \in 0..(Segments - 1)
      PROVE  \E h \in 1..j : SegAt(h, log'[i].key, log'[i].seq, g)
  <2>1. CASE i \in 1..n /\ j \in 1..n
    <3>1. PICK h \in 1..j : Segment(h, log[i].key, log[i].seq, g)
      BY <1>1, <1>d, <2>1 DEF LogInv, SegmentsInOrder, Numbered, n
    <3>2. h \in 1..n BY <1>1, <2>1
    <3> QED BY <1>1, <1>5, <2>1, <3>1, <3>2, SMTT(30)
  <2>2. CASE i \in 1..n /\ j = n + 1
    <3>1. log[i].kind = "chunk" /\ log[i].key = k /\ log[i].seq < e.seq
          /\ e.kind \in {"initialize", "message", "chunk"}
      BY <1>1, <1>d, <2>2
    <3>2. now.stream = old.stream BY <1>4, <2>2, <3>1
    <3>3. old.segs = 0 \/ log[i].seq < old.seq BY <1>3, <3>1, <3>2
    <3>4. \E h \in 1..j : SegAt(h, k, log[i].seq, g) BY <1>b, <2>2, <3>1, <3>3
    <3>5. log'[i] = log[i] BY <1>1, <2>2
    <3> HIDE DEF SegAt
    <3> QED BY <3>1, <3>4, <3>5
  <2>3. CASE i = n + 1 /\ j \in 1..n
    <3>1. log[j].key = k /\ e.kind = "chunk" /\ e.seq < log[j].seq BY <1>1, <1>d, <2>3
    <3>2. now.stream = old.stream /\ log[j].seq <= old.seq /\ log[j].seq \in Nat
      BY <1>4, <2>3, <3>1
    <3>3. e.seq >= old.seq BY <1>2, <1>3, <3>1, <3>2
    <3> QED BY <1>1, <1>2, <3>1, <3>2, <3>3, SMTT(30)
  <2>4. CASE i = n + 1 /\ j = n + 1 BY <1>1, <1>d, <2>4
  <2> QED BY <1>1, <2>1, <2>2, <2>3, <2>4
<1>e. SegmentsInOrder'
  BY <1>c, <1>d DEF SegmentsInOrder, Segment, Chunk, Numbered
\* The client that sends
<1>f. ASSUME now.segs > 0
      PROVE  /\ ~now.closed /\ \E i \in 1..(n + 1) : SegAt(i, k, now.seq, now.segs - 1)
             /\ \A i \in 1..(n + 1) :
                   log'[i].key = k /\ log'[i].seq = now.seq => log'[i].seg < now.segs
  <2>1. now.stream = old.stream BY <1>1, <1>3, <1>f
  <2>2. n + 1 \in 1..(n + 1) BY <1>1
  <2>3. CASE e.kind = "chunk"
    <3>1. e.seq = now.seq /\ now.segs = e.seg + 1 /\ ~now.closed /\ e.seg = old.segs
      BY <1>1, <1>f, <2>3 DEF Sends, old
    <3>2. now.segs - 1 = e.seg BY <1>1, <3>1
    <3>3. SegAt(n + 1, k, now.seq, now.segs - 1) BY <1>1, <2>3, <3>1, <3>2
    <3>4. ASSUME NEW i \in 1..(n + 1), log'[i].key = k, log'[i].seq = now.seq
          PROVE  log'[i].seg < now.segs
      <4>1. CASE i = n + 1 BY <1>1, <3>1, <4>1
      <4>2. CASE i \in 1..n
        <5>1. log[i].key = k /\ log[i].seq = now.seq /\ log'[i] = log[i] BY <1>1, <3>4, <4>2
        <5>2. log[i].seq <= old.seq BY <1>4, <4>2, <5>1
        <5>3. old.segs > 0 /\ e.seq = old.seq BY <1>2, <1>3, <2>1, <2>3, <3>1, <5>1, <5>2
        <5>4. log[i].seg < old.segs BY <1>7, <2>1, <3>1, <4>2, <5>1, <5>3
        <5> QED BY <1>1, <1>2, <1>4, <3>1, <4>2, <5>1, <5>4
      <4> QED BY <1>1, <4>1, <4>2
    <3> QED BY <2>2, <3>1, <3>3, <3>4
  <2>4. CASE e.kind # "chunk"
    <3>1. /\ now.seq = old.seq /\ now.segs = old.segs /\ e.seq = 0
          /\ e.kind = "ping" /\ now.closed = FALSE
      <4>1. e.kind = "ping" BY <1>1, <1>f, <2>4 DEF Sends, old
      <4>2. e.kind # "closed" BY <4>1
      <4> QED BY <1>1, <4>1, <4>2 DEF Sends, old
    <3>2. PICK i \in 1..n : Segment(i, k, now.seq, now.segs - 1) BY <1>7, <1>f, <2>1, <3>1
    <3>3. i \in 1..(n + 1) /\ SegAt(i, k, now.seq, now.segs - 1) BY <1>1, <1>5, <3>2, SMTT(30)
    <3>4. now.seq # 0 BY <1>f, <1>8, <3>1
    <3>5. ASSUME NEW j \in 1..(n + 1), log'[j].key = k, log'[j].seq = now.seq
          PROVE  log'[j].seg < now.segs
      <4>1. j \in 1..n BY <1>1, <3>1, <3>4, <3>5
      <4> QED BY <1>1, <1>7, <1>f, <2>1, <3>1, <3>5, <4>1
    <3> QED BY <3>1, <3>3, <3>5
  <2> QED BY <2>3, <2>4
<1>g. ASSUME NEW i \in 1..(n + 1), log'[i].kind = "chunk", log'[i].key = k,
             now.segs = 0 \/ log'[i].seq < now.seq, NEW g \in 0..(Segments - 1)
      PROVE  \E h \in 1..(n + 1) : SegAt(h, k, log'[i].seq, g)
  <2>1. ASSUME e.kind = "chunk", now.segs = 0 PROVE \E h \in 1..(n + 1) : SegAt(h, k, e.seq, g)
    <3>1. e.seg + 1 = Segments BY <1>1, <2>1 DEF Sends
    <3>2. g \in 0..e.seg BY <1>1, <3>1
    <3> QED BY <1>a, <2>1, <3>2
  <2>2. CASE i = n + 1
    <3>1. log'[i] = e /\ e.kind = "chunk" BY <1>1, <1>g, <2>2
    <3>2. now.segs = 0 BY <1>1, <1>3, <1>g, <3>1
    <3> QED BY <2>1, <3>1, <3>2
  <2>3. CASE i \in 1..n
    <3>1. log'[i] = log[i] /\ log[i].kind = "chunk" /\ log[i].key = k BY <1>1, <1>g, <2>3
    <3>2. now.stream = old.stream /\ log[i].seq <= old.seq /\ log[i].seq \in Nat
      BY <1>4, <2>3, <3>1
    <3>3. CASE old.segs = 0 \/ log[i].seq < old.seq
      <4>1. \E h \in 1..(n + 1) : SegAt(h, k, log[i].seq, g) BY <1>b, <2>3, <3>1, <3>3
      <4> HIDE DEF SegAt
      <4> QED BY <3>1, <4>1
    <3>4. CASE old.segs > 0 /\ log[i].seq = old.seq
      <4>1. e.kind \in {"chunk", "ping"} BY <1>1, <3>2, <3>4, SMTT(30) DEF Sends, old
      <4>2. now.seq = old.seq BY <1>1, <3>2, <3>4, <4>1 DEF Sends, old
      <4>3. now.segs = 0 BY <1>2, <1>g, <3>1, <3>4, <4>2
      <4>4. e.kind = "chunk" BY <1>1, <3>4, <4>1, <4>3 DEF Sends, old
      <4>5. e.seq = log[i].seq BY <1>3, <3>4, <4>2, <4>4
      <4> QED BY <2>1, <3>1, <4>3, <4>4, <4>5
    <3> QED BY <1>2, <3>2, <3>3, <3>4
  <2> QED BY <1>1, <2>2, <2>3
\* Every client
<1>h. ASSUME NEW d \in Clients
      PROVE  /\ client'[d].segs > 0 =>
                   /\ ~client'[d].closed
                   /\ \E i \in 1..Len(log') :
                         SegAt(i, <<d, client'[d].stream>>, client'[d].seq, client'[d].segs - 1)
                   /\ \A i \in 1..Len(log') :
                         log'[i].key = <<d, client'[d].stream>> /\ log'[i].seq = client'[d].seq
                         => log'[i].seg < client'[d].segs
             /\ \A i \in 1..Len(log') :
                   /\ log'[i].kind = "chunk" /\ log'[i].key = <<d, client'[d].stream>>
                   /\ client'[d].segs = 0 \/ log'[i].seq < client'[d].seq
                   => \A g \in 0..(Segments - 1) : \E h \in 1..Len(log') :
                         SegAt(h, <<d, client'[d].stream>>, log'[i].seq, g)
  <2>1. CASE d = c
    <3>1. client'[d] = now /\ Len(log') = n + 1 /\ <<d, client'[d].stream>> = k BY <1>1, <2>1
    <3> HIDE DEF k, SegAt
    <3> QED BY <1>f, <1>g, <3>1
  <2>2. CASE d # c
    <3>1. client'[d] = client[d] BY <1>1, <2>2
    <3> DEFINE l == <<d, client[d].stream>>
    <3>2. \A i \in 1..Len(log') : log'[i].key = l => i \in 1..n /\ log'[i] = log[i]
      BY <1>1, <2>2
    <3>3. \A i \in 1..n : i \in 1..Len(log') BY <1>1
    <3>4. /\ client[d].segs > 0 =>
                /\ ~client[d].closed
                /\ \E i \in 1..n : Segment(i, l, client[d].seq, client[d].segs - 1)
                /\ \A i \in 1..n :
                      log[i].key = l /\ log[i].seq = client[d].seq => log[i].seg < client[d].segs
          /\ \A i \in 1..n :
                /\ log[i].kind = "chunk" /\ log[i].key = l
                /\ client[d].segs = 0 \/ log[i].seq < client[d].seq
                => \A g \in 0..(Segments - 1) : \E h \in 1..n : Segment(h, l, log[i].seq, g)
      BY DEF LogInv, ClientSegments, n
    <3> HIDE DEF l, SegAt
    <3>5. client[d].segs > 0 =>
                /\ ~client[d].closed
                /\ \E i \in 1..Len(log') : SegAt(i, l, client[d].seq, client[d].segs - 1)
                /\ \A i \in 1..Len(log') :
                      log'[i].key = l /\ log'[i].seq = client[d].seq => log'[i].seg < client[d].segs
      BY <1>5, <3>2, <3>3, <3>4
    <3>6. ASSUME NEW i \in 1..Len(log'), log'[i].kind = "chunk", log'[i].key = l,
                 client[d].segs = 0 \/ log'[i].seq < client[d].seq, NEW g \in 0..(Segments - 1)
          PROVE  \E h \in 1..Len(log') : SegAt(h, l, log'[i].seq, g)
      BY <1>5, <3>2, <3>3, <3>4, <3>6
    <3> QED BY <3>1, <3>5, <3>6 DEF l
  <2> QED BY <2>1, <2>2
<1>i. ClientSegments'
  BY <1>h DEF ClientSegments, Segment, Chunk
<1> QED BY <1>e, <1>i

LEMMA PostLog ==
    ASSUME TypeOK, LogInv, Posted
    PROVE  LogInv'
<1>1. PICK c \in Clients, e \in Entries, now \in ClientStates : PostStep(c, e, now) BY DEF Posted
<1> QED BY <1>1, PostOrder, PostSegments DEF LogInv

-----------------------------------------------------------------------------
(* What the reader has read *)

\* The log grows at its end and the cursor does not go back.
Grows ==
    /\ Len(log) \in Nat /\ Len(log') \in Nat /\ Len(log) <= Len(log')
    /\ \A i \in 1..Len(log) : i \in 1..Len(log') /\ log'[i] = log[i]
    /\ cursor <= cursor'
    /\ \A i \in 1..Len(log') : i \in 1..Len(log) \/ pos' < i

LEMMA SameLog ==
    ASSUME LogInv, log' = log, client' = client
    PROVE  LogInv'
<1>1. ClientAhead' BY DEF LogInv, ClientAhead, Numbered
<1>2. SeqBounded' BY DEF LogInv, SeqBounded
<1>3. StreamsOrdered' BY DEF LogInv, StreamsOrdered
<1>4. SeqOrdered' BY DEF LogInv, SeqOrdered, Numbered
<1>5. InitializeFirst' BY DEF LogInv, InitializeFirst
<1>6. SegmentsInOrder' BY DEF LogInv, SegmentsInOrder, Segment, Chunk, Numbered
<1>7. ClientSegments'
  <2>1. ClientSegments BY DEF LogInv
  <2> QED BY ONLY <2>1, log' = log, client' = client, ZenonT(30) DEF ClientSegments, Segment, Chunk
<1> QED BY <1>1, <1>2, <1>3, <1>4, <1>5, <1>6, <1>7 DEF LogInv

LEMMA StepGrows ==
    ASSUME TypeOK, TypeOK', LogInv, ReadInv, Step
    PROVE  Grows /\ ReadInv' /\ LogInv'
<1>1. Len(log) \in Nat /\ Len(log') \in Nat /\ cursor \in Nat /\ pos \in Nat BY TypeParts, LenProperties DEF TypeOK
<1>2. cursor <= pos /\ pos <= Len(log) /\ \A i \in (cursor + 1)..pos : log[i].kind = "chunk"
  BY DEF ReadInv
<1>3. CASE Posted
  <2>1. PICK c \in Clients, e \in Entries, now \in ClientStates : PostStep(c, e, now)
    BY <1>3 DEF Posted
  <2>2. /\ Len(log') = Len(log) + 1 /\ \A i \in 1..Len(log) : log'[i] = log[i]
    BY <2>1, PostFacts
  <2>3. cursor' = cursor /\ pos' = pos /\ pos = Len(log) BY <2>1 DEF PostStep
  <2>4. Grows BY <1>1, <2>2, <2>3 DEF Grows
  <2>5. \A i \in (cursor' + 1)..pos' : log'[i].kind = "chunk" BY <1>1, <1>2, <2>2, <2>3
  <2>6. cursor' <= pos' /\ pos' <= Len(log') BY <1>1, <1>2, <2>2, <2>3
  <2> QED BY <1>3, <2>4, <2>5, <2>6, PostLog DEF ReadInv
<1>4. CASE log' = log /\ client' = client /\ cursor' = cursor /\ pos' \in {pos, cursor}
  <2>1. Grows BY <1>1, <1>2, <1>4 DEF Grows
  <2>2. ReadInv' BY <1>1, <1>2, <1>4 DEF ReadInv
  <2>3. LogInv' BY <1>4, SameLog
  <2> QED BY <2>1, <2>2, <2>3
<1>5. CASE SegmentStep \/ DeliverStep
  <2>1. /\ log' = log /\ client' = client /\ pos < Len(log) /\ pos' = pos + 1
        /\ cursor' \in {cursor, pos + 1}
        /\ cursor' # cursor \/ ~Completes(Incoming) \/ cursor' = pos + 1
    BY <1>5 DEF SegmentStep, DeliverStep
  <2>2. Grows BY <1>1, <1>2, <2>1 DEF Grows
  <2>3. ReadInv'
    <3>1. CASE cursor' = pos + 1 BY <1>1, <2>1, <3>1 DEF ReadInv
    <3>2. CASE cursor' = cursor /\ ~Completes(Incoming)
      <4>1. log[pos + 1].kind = "chunk" BY <3>2 DEF Completes, Incoming
      <4> QED BY <1>1, <1>2, <2>1, <3>2, <4>1 DEF ReadInv
    <3> QED BY <2>1, <3>1, <3>2
  <2>4. LogInv' BY <2>1, SameLog
  <2> QED BY <2>2, <2>3, <2>4
<1> QED BY <1>3, <1>4, <1>5 DEF Step, IdleStep, CloseStep, AgainStep

LEMMA WithinKept ==
    ASSUME TypeOK, TypeOK', Grows, NEW p \in 1..Len(log), Within(p)
    PROVE  Within(p)'
<1>1. cursor \in Nat /\ cursor' \in Nat /\ Len(log) \in Nat BY TypeParts DEF TypeOK
<1>2. \A i \in 1..(p - 1) : i \in 1..Len(log) BY <1>1
<1> QED BY <1>1, <1>2 DEF Within, Grows

LEMMA ReadWithin ==
    ASSUME TypeOK, ReadInv, NEW p \in 1..(pos + 1)
    PROVE  Within(p)
<1>1. cursor \in Nat /\ pos \in Nat BY DEF TypeOK
<1>2. \A i \in 1..(p - 1) : cursor < i => i \in (cursor + 1)..pos BY <1>1
<1> QED BY <1>2 DEF Within, ReadInv

LEMMA AssemblyKept ==
    ASSUME TypeOK, TypeOK', Grows, AssemblyInv, NEW c \in Clients, assembly'[c] = assembly[c],
           assembly[c].stream # 0 =>
              /\ lastChunk'[<<c, assembly[c].stream>>] = lastChunk[<<c, assembly[c].stream>>]
              /\ \/ pos' <= pos
                 \/ /\ pos' = pos + 1
                    /\ ~Segment(pos + 1, <<c, assembly[c].stream>>, assembly[c].seq, assembly[c].next)
    PROVE  AssemblyOK(c)'
<1> DEFINE a == assembly[c]
           k == <<c, a.stream>>
<1>0. assembly'[c] = a OBVIOUS
<1> HIDE DEF a
<1> SUFFICES ASSUME a.stream # 0
             PROVE  /\ a.seq > lastChunk'[k] /\ a.next > 0
                    /\ \A g \in 0..(a.next - 1) : \E i \in 1..Len(log') :
                          /\ log'[i].kind = "chunk" /\ log'[i].key = k /\ log'[i].seq = a.seq
                          /\ log'[i].seg = g /\ log'[i].ok /\ Within(i)'
                    /\ \A i \in 1..Len(log') :
                          /\ log'[i].kind = "chunk" /\ log'[i].key = k /\ log'[i].seq = a.seq
                          /\ log'[i].seg = a.next
                          => pos' < i
  BY <1>0 DEF AssemblyOK, Segment, Chunk
<1> USE DEF a
<1>1. /\ a.seq > lastChunk[k] /\ a.next > 0
      /\ \A g \in 0..(a.next - 1) : \E i \in 1..Len(log) :
            Segment(i, k, a.seq, g) /\ log[i].ok /\ Within(i)
      /\ \A i \in 1..Len(log) : Segment(i, k, a.seq, a.next) => pos < i
  BY DEF AssemblyInv, AssemblyOK
<1>2. lastChunk'[k] = lastChunk[k] OBVIOUS
<1>3. pos \in Nat /\ pos' \in Nat BY DEF TypeOK
<1>4. \A i \in 1..Len(log) : i \in 1..Len(log') /\ log'[i] = log[i] BY DEF Grows
<1>5. ASSUME NEW g \in 0..(a.next - 1)
      PROVE  \E i \in 1..Len(log') :
                /\ log'[i].kind = "chunk" /\ log'[i].key = k /\ log'[i].seq = a.seq
                /\ log'[i].seg = g /\ log'[i].ok /\ Within(i)'
  <2>1. PICK i \in 1..Len(log) : Segment(i, k, a.seq, g) /\ log[i].ok /\ Within(i) BY <1>1
  <2>2. Within(i)' BY <2>1, WithinKept
  <2> QED BY <1>4, <2>1, <2>2 DEF Segment, Chunk
<1>6. ASSUME NEW i \in 1..Len(log'),
             /\ log'[i].kind = "chunk" /\ log'[i].key = k /\ log'[i].seq = a.seq
             /\ log'[i].seg = a.next
      PROVE  pos' < i
  <2>1. CASE i \in 1..Len(log)
    <3>1. Segment(i, k, a.seq, a.next) BY <1>4, <1>6, <2>1 DEF Segment, Chunk
    <3>2. pos < i BY <1>1, <2>1, <3>1
    <3> QED BY <1>3, <2>1, <3>1, <3>2
  <2> QED BY <2>1 DEF Grows
<1> QED BY <1>1, <1>2, <1>5, <1>6

LEMMA NoAssemblyFacts == NoAssembly \in Assemblies /\ NoAssembly.stream = 0
BY DEF NoAssembly, Assemblies

\* An envelope that is forwarded leaves no assembly of its own behind.
LEMMA CompletedFacts ==
    ASSUME TypeOK, pos < Len(log), Completes(Incoming)
    PROVE  /\ \A d \in Clients : \/ Observed(Incoming)[d] = assembly[d]
                                 \/ /\ Observed(Incoming)[d] = NoAssembly
                                    /\ d = Incoming.key[1] /\ Incoming.kind = "chunk"
           /\ Incoming.kind = "chunk" =>
                 /\ Observed(Incoming)[Incoming.key[1]] = NoAssembly
                 /\ Incoming.ok /\ Incoming.seg = Segments - 1 /\ ~IgnoreChunk(Incoming)
                 /\ Accepts(AssemblyFor(Incoming), Incoming)
<1> DEFINE e == Incoming
           c == e.key[1]
<1>1. c \in Clients /\ e.seg \in 0..(Segments - 1) /\ e.ok \in BOOLEAN BY IncomingParts
<1>2. e.kind = "chunk" => /\ e.ok /\ e.seg + 1 = Segments /\ ~IgnoreChunk(e)
                          /\ Accepts(AssemblyFor(e), e)
  BY DEF Completes
<1>3. \A d \in Clients : d # c => Observed(e)[d] = assembly[d] BY ObservedFacts
<1>4. CASE e.kind # "chunk"
  <2>1. Observed(e) = assembly BY <1>4 DEF Observed
  <2> QED BY <1>4, <2>1
<1>5. CASE e.kind = "chunk"
  <2>1. Observed(e)[c] = NoAssembly BY <1>2, <1>5, ObservedFacts
  <2> HIDE DEF e
  <2> QED BY <1>1, <1>2, <1>3, <1>5, <2>1 DEF e
<1> QED BY <1>4, <1>5

\* The segment the assembly of its client waits for is not ignored.
LEMMA AwaitedRead ==
    ASSUME TypeOK, AssemblyInv, pos < Len(log), NEW c \in Clients, assembly[c].stream # 0,
           Segment(pos + 1, <<c, assembly[c].stream>>, assembly[c].seq, assembly[c].next)
    PROVE  /\ Incoming.kind = "chunk" /\ ~IgnoreChunk(Incoming)
           /\ Incoming.key[1] = c /\ Incoming.key[2] = assembly[c].stream
<1> DEFINE a == assembly[c]
           e == Incoming
<1>1. /\ e.kind = "chunk" /\ e.key = <<c, a.stream>> /\ e.seq = a.seq /\ e.seg = a.next
      /\ e.key \in Keys
  BY IncomingParts DEF Segment, Chunk
<1>2. a.seq > lastChunk[e.key] BY <1>1 DEF AssemblyInv, AssemblyOK
<1>3. a \in Assemblies BY DEF TypeOK
<1>4. a.seq \in Nat /\ a.next \in Nat /\ lastChunk[e.key] \in Nat BY <1>1, <1>3 DEF TypeOK, Assemblies
<1>5. e.key[1] = c /\ e.key[2] = a.stream BY <1>1
<1> HIDE DEF e
<1>6. ~IgnoreChunk(e) BY <1>1, <1>2, <1>4, <1>5 DEF IgnoreChunk
<1> QED BY <1>1, <1>5, <1>6 DEF e

LEMMA SegmentRead ==
    ASSUME TypeOK, TypeOK', LogInv, ReadInv, AssemblyInv, Grows, SegmentStep
    PROVE  AssemblyInv'
<1> SUFFICES ASSUME NEW c \in Clients PROVE AssemblyOK(c)' BY DEF AssemblyInv
<1> DEFINE e == Incoming
           a == assembly[c]
<1>1. /\ pos < Len(log) /\ ~Completes(e) /\ pos' = pos + 1 /\ assembly' = Observed(e)
      /\ lastChunk' = lastChunk /\ log' = log /\ cursor' = cursor
  BY DEF SegmentStep
<1>2. /\ pos + 1 \in 1..Len(log) /\ e = log[pos + 1] /\ e.key \in Keys /\ e.key[1] \in Clients
      /\ e.key[2] # 0 /\ e.seq \in Nat /\ e.seg \in 0..(Segments - 1) /\ e.ok \in BOOLEAN
      /\ pos \in Nat
  BY <1>1, IncomingParts
<1>3. e.kind = "chunk" BY <1>1 DEF Completes
<1>4. a \in Assemblies BY DEF TypeOK
<1>5. CASE a.stream # 0 /\ Segment(pos + 1, <<c, a.stream>>, a.seq, a.next) /\ assembly'[c] = a
  <2>1. ~IgnoreChunk(e) /\ e.key[1] = c /\ e.key[2] = a.stream BY <1>1, <1>5, AwaitedRead
  <2>2. Observed(e)[c] = a BY <1>1, <1>5
  <2>3. \/ Observed(e)[c] = NoAssembly
        \/ Observed(e)[c] = [stream |-> e.key[2], seq |-> e.seq, next |-> e.seg + 1]
    BY <1>1, <1>3, <2>1, ObservedFacts
  <2>4. Observed(e)[c] # NoAssembly BY <1>5, <2>2, NoAssemblyFacts
  <2>5. a.next = e.seg + 1 BY <2>2, <2>3, <2>4
  <2>6. e.seg = a.next BY <1>2, <1>5 DEF Segment
  <2> QED BY <1>2, <2>5, <2>6
<1>6. CASE assembly'[c] = a /\ (a.stream # 0 => ~Segment(pos + 1, <<c, a.stream>>, a.seq, a.next))
  BY <1>1, <1>6, AssemblyKept
<1>7. CASE assembly'[c] # a
  <2>1. c = e.key[1] BY <1>1, <1>7, ObservedFacts
  <2>2. CASE Observed(e)[c] = NoAssembly
    <3>1. assembly'[c].stream = 0 BY <1>1, <2>2, NoAssemblyFacts
    <3> QED BY <3>1 DEF AssemblyOK
  <2>3. CASE Observed(e)[c] # NoAssembly
    <3> DEFINE b == [stream |-> e.key[2], seq |-> e.seq, next |-> e.seg + 1]
    <3>1. /\ ~IgnoreChunk(e) /\ e.ok /\ Accepts(AssemblyFor(e), e) /\ e.seg + 1 < Segments
          /\ Observed(e)[c] = b
      BY <1>1, <1>7, <2>1, <2>3, ObservedFacts
    <3>2. e.key = <<c, e.key[2]>> BY <1>2, <2>1, KeyParts
    <3>3. lastChunk[e.key] \in Nat BY <1>2 DEF TypeOK
    <3>4. e.seq > lastChunk[e.key] BY <1>2, <3>1, <3>3 DEF IgnoreChunk
    <3>5. \/ a.stream = e.key[2] /\ a.seq = e.seq /\ a.next = e.seg
          \/ e.seg = 0
      BY <2>1, <3>1 DEF Accepts, AssemblyFor
    <3> HIDE DEF e
    <3>6. ASSUME NEW g \in 0..e.seg
          PROVE  \E i \in 1..Len(log) : Segment(i, e.key, e.seq, g) /\ log[i].ok /\ Within(i)
      <4>1. CASE g = e.seg
        <5>1. Within(pos + 1)
          <6>1. pos + 1 \in 1..(pos + 1) BY <1>2
          <6> QED BY <6>1, ReadWithin
        <5>2. Segment(pos + 1, e.key, e.seq, g) /\ log[pos + 1].ok
          BY <1>2, <1>3, <3>1, <4>1 DEF Segment, Chunk
        <5> QED BY <1>2, <5>1, <5>2
      <4>2. CASE g # e.seg
        <5>1. a.stream = e.key[2] /\ a.seq = e.seq /\ a.next = e.seg BY <1>2, <3>5, <4>2
        <5>2. g \in 0..(a.next - 1) BY <1>2, <4>2, <5>1
        <5>3. <<c, a.stream>> = e.key BY <3>2, <5>1
        <5>4. a.stream # 0 BY <1>2, <5>1
        <5>5. \E i \in 1..Len(log) : Segment(i, <<c, a.stream>>, a.seq, g) /\ log[i].ok /\ Within(i)
          BY <5>2, <5>4 DEF AssemblyInv, AssemblyOK
        <5> QED BY <5>1, <5>3, <5>5
      <4> QED BY <4>1, <4>2
    <3>7. ASSUME NEW i \in 1..Len(log), Segment(i, e.key, e.seq, e.seg + 1) PROVE pos + 1 < i
      <4>1. /\ log[i].kind = "chunk" /\ log[i].key = e.key /\ log[i].seq = e.seq
            /\ log[i].seg = e.seg + 1
        BY <3>7 DEF Segment, Chunk
      <4>2. i # pos + 1 BY <1>2, <4>1
      <4>3. ~(i < pos + 1)
        <5>1. ASSUME i < pos + 1 PROVE log[i].seq < e.seq \/ log[i].seg < e.seg
          BY <1>2, <1>3, <4>1, <5>1 DEF LogInv, SeqOrdered, Numbered
        <5> QED BY <1>2, <4>1, <5>1
      <4> QED BY <1>2, <4>2, <4>3
    <3>8. /\ assembly'[c].stream = e.key[2] /\ assembly'[c].seq = e.seq
          /\ assembly'[c].next = e.seg + 1
      BY <1>1, <3>1 DEF e
    <3>9. \A i \in 1..Len(log) : Within(i)' <=> Within(i) BY <1>1 DEF Within
    <3>10. assembly'[c].next - 1 = e.seg /\ assembly'[c].next > 0 BY <1>2, <3>8
    <3>11. <<c, assembly'[c].stream>> = e.key BY <3>2, <3>8
    <3>12. /\ assembly'[c].seq > lastChunk'[e.key] BY <1>1, <3>4, <3>8
    <3>13. \A g \in 0..(assembly'[c].next - 1) : \E i \in 1..Len(log') :
             /\ log'[i].kind = "chunk" /\ log'[i].key = e.key /\ log'[i].seq = assembly'[c].seq
             /\ log'[i].seg = g /\ log'[i].ok /\ Within(i)'
      BY <1>1, <3>6, <3>8, <3>9, <3>10 DEF Segment, Chunk
    <3>14. \A i \in 1..Len(log') :
             /\ log'[i].kind = "chunk" /\ log'[i].key = e.key /\ log'[i].seq = assembly'[c].seq
             /\ log'[i].seg = assembly'[c].next
             => pos' < i
      BY <1>1, <3>7, <3>8 DEF Segment, Chunk
    <3> QED BY <3>10, <3>11, <3>12, <3>13, <3>14 DEF AssemblyOK, Segment, Chunk
  <2> QED BY <2>2, <2>3
<1> QED BY <1>5, <1>6, <1>7

LEMMA LastChunkKept ==
    ASSUME TypeOK, TypeOK', ReadInv, Grows, LastChunkInv, NEW k \in Keys,
           lastChunk'[k] \in {lastChunk[k], 0}, lastChunk'[k] > 0
    PROVE  \E i \in 1..cursor' : /\ log'[i].kind = "chunk" /\ log'[i].key = k
                                 /\ log'[i].seq = lastChunk'[k] /\ log'[i].seg = Segments - 1
<1>1. lastChunk'[k] = lastChunk[k] /\ lastChunk[k] > 0 OBVIOUS
<1>2. PICK i \in 1..cursor : Segment(i, k, lastChunk[k], Segments - 1) BY <1>1 DEF LastChunkInv
<1>3. cursor \in Nat /\ cursor' \in Nat /\ pos \in Nat /\ Len(log) \in Nat BY TypeParts DEF TypeOK
<1>4. cursor <= cursor' /\ cursor <= pos /\ pos <= Len(log) BY DEF Grows, ReadInv
<1>5. i \in 1..Len(log) /\ i \in 1..cursor' BY <1>3, <1>4
<1>6. log'[i] = log[i] BY <1>5 DEF Grows
<1> QED BY <1>1, <1>2, <1>5, <1>6 DEF Segment, Chunk

LEMMA AssemblyStep ==
    ASSUME TypeOK, TypeOK', LogInv, ReadInv, AssemblyInv, LastChunkInv, Grows, Step
    PROVE  AssemblyInv' /\ LastChunkInv'
<1>0. pos \in Nat /\ cursor \in Nat /\ cursor <= pos BY DEF TypeOK, ReadInv
<1>1. \A c \in Clients : assembly[c].stream # 0 => <<c, assembly[c].stream>> \in Keys
  <2>1. \A c \in Clients : assembly[c].stream \in 0..MaxStreams BY DEF TypeOK, Assemblies
  <2> QED BY <2>1 DEF Keys
<1>2. \A c \in Clients : assembly'[c] = NoAssembly => AssemblyOK(c)'
  BY NoAssemblyFacts DEF AssemblyOK
<1>3. ASSUME \A k \in Keys : lastChunk'[k] \in {lastChunk[k], 0} PROVE LastChunkInv'
  BY <1>3, LastChunkKept DEF LastChunkInv, Segment, Chunk
<1>4. CASE /\ assembly' = assembly /\ lastChunk' = lastChunk /\ pos' \in {pos, cursor}
  <2>1. pos' <= pos BY <1>0, <1>4
  <2>2. AssemblyInv' BY <1>4, <2>1, AssemblyKept DEF AssemblyInv
  <2> QED BY <1>3, <1>4, <2>2
<1>5. ASSUME NEW k \in Keys, Forget(k), \/ pos' = pos
                                        \/ /\ pos' = pos + 1
                                           /\ log[pos + 1].kind # "chunk"
      PROVE  AssemblyInv' /\ LastChunkInv'
  <2>1. /\ \A d \in Clients : assembly'[d] = IF d = k[1] /\ assembly[d].stream = k[2]
                                             THEN NoAssembly ELSE assembly[d]
        /\ \A l \in Keys : lastChunk'[l] = IF l = k THEN 0 ELSE lastChunk[l]
    BY <1>5, ForgetFacts
  <2>2. LastChunkInv' BY <1>3, <2>1
  <2>3. ASSUME NEW c \in Clients PROVE AssemblyOK(c)'
    <3>1. CASE c = k[1] /\ assembly[c].stream = k[2] BY <1>2, <2>1, <3>1
    <3>2. CASE ~(c = k[1] /\ assembly[c].stream = k[2])
      <4>1. assembly'[c] = assembly[c] BY <2>1, <3>2
      <4>2. assembly[c].stream # 0 =>
               lastChunk'[<<c, assembly[c].stream>>] = lastChunk[<<c, assembly[c].stream>>]
        BY <1>1, <2>1, <3>2
      <4>3. \/ pos' <= pos
            \/ /\ pos' = pos + 1
               /\ ~Segment(pos + 1, <<c, assembly[c].stream>>, assembly[c].seq, assembly[c].next)
        BY <1>0, <1>5 DEF Segment, Chunk
      <4> QED BY <4>1, <4>2, <4>3, AssemblyKept
    <3> QED BY <3>1, <3>2
  <2> QED BY <2>2, <2>3 DEF AssemblyInv
<1>6. ASSUME pos < Len(log), Completes(Incoming), assembly' = Observed(Incoming),
             pos' \in {pos + 1, cursor},
             \A l \in Keys : l # Incoming.key \/ Incoming.kind # "chunk" =>
                                lastChunk'[l] = lastChunk[l]
      PROVE  AssemblyInv'
  <2>1. pos' <= pos \/ pos' = pos + 1 BY <1>0, <1>6
  <2>2. ASSUME NEW c \in Clients PROVE AssemblyOK(c)'
    <3>1. CASE assembly'[c] = NoAssembly BY <1>2, <3>1
    <3>2. CASE assembly'[c] # NoAssembly
      <4>1. /\ assembly'[c] = assembly[c]
            /\ c # Incoming.key[1] \/ Incoming.kind # "chunk"
        BY <1>6, <3>2, CompletedFacts
      <4>2. Incoming.kind # "chunk" \/ <<c, assembly[c].stream>> # Incoming.key BY <4>1
      <4>3. ~Segment(pos + 1, <<c, assembly[c].stream>>, assembly[c].seq, assembly[c].next)
        BY <4>2 DEF Segment, Chunk, Incoming
      <4>4. assembly[c].stream # 0 =>
               lastChunk'[<<c, assembly[c].stream>>] = lastChunk[<<c, assembly[c].stream>>]
        BY <1>1, <1>6, <4>2
      <4> QED BY <2>1, <4>1, <4>3, <4>4, AssemblyKept
    <3> QED BY <3>1, <3>2
  <2> QED BY <2>2 DEF AssemblyInv
<1>7. CASE SegmentStep
  <2>1. lastChunk' = lastChunk BY <1>7 DEF SegmentStep
  <2> QED BY <1>3, <1>7, <2>1, SegmentRead
<1>8. CASE DeliverStep
  <2>1. /\ pos < Len(log) /\ Completes(Incoming) /\ pos' = pos + 1 /\ cursor' = pos + 1
        /\ log' = log
    BY <1>8 DEF DeliverStep
  <2>2. /\ Incoming.key \in Keys /\ Incoming = log[pos + 1] /\ Incoming.seq \in Nat
    BY <2>1, IncomingParts
  <2>3. CASE Incoming.kind = "closed"
    <3>1. Forget(Incoming.key) BY <1>8, <2>3 DEF DeliverStep
    <3> QED BY <1>5, <2>1, <2>2, <2>3, <3>1
  <2>4. CASE Incoming.kind # "closed"
    <3>1. /\ assembly' = Observed(Incoming)
          /\ lastChunk' = IF Incoming.kind = "chunk"
                          THEN [lastChunk EXCEPT ![Incoming.key] = Incoming.seq] ELSE lastChunk
      BY <1>8, <2>4 DEF DeliverStep
    <3>2. \A l \in Keys : lastChunk'[l] = IF l = Incoming.key /\ Incoming.kind = "chunk"
                                          THEN Incoming.seq ELSE lastChunk[l]
      BY <3>1 DEF TypeOK
    <3>3. AssemblyInv' BY <1>6, <2>1, <3>1, <3>2
    <3>4. LastChunkInv'
      <4> SUFFICES ASSUME NEW l \in Keys, lastChunk'[l] > 0
                   PROVE  \E i \in 1..cursor' :
                             /\ log'[i].kind = "chunk" /\ log'[i].key = l
                             /\ log'[i].seq = lastChunk'[l] /\ log'[i].seg = Segments - 1
        BY DEF LastChunkInv, Segment, Chunk
      <4>1. CASE l = Incoming.key /\ Incoming.kind = "chunk"
        <5>1. pos + 1 \in 1..cursor' BY <1>0, <2>1
        <5>2. Incoming.seg = Segments - 1 BY <2>1, <4>1, CompletedFacts
        <5> QED BY <2>1, <2>2, <3>2, <4>1, <5>1, <5>2
      <4>2. CASE ~(l = Incoming.key /\ Incoming.kind = "chunk")
        <5>1. lastChunk'[l] \in {lastChunk[l], 0} BY <3>2, <4>2
        <5> QED BY <5>1, LastChunkKept
      <4> QED BY <4>1, <4>2
    <3> QED BY <3>3, <3>4
  <2> QED BY <2>3, <2>4
<1>9. CASE AgainStep
  <2>1. /\ pos < Len(log) /\ Completes(Incoming) /\ assembly' = Observed(Incoming)
        /\ pos' = cursor /\ lastChunk' = lastChunk
    BY <1>9 DEF AgainStep
  <2> QED BY <1>3, <1>6, <2>1
<1>10. CASE \E k \in Keys : CloseStep(k)
  BY <1>5, <1>10 DEF CloseStep
<1>11. CASE Posted \/ IdleStep
  <2>1. assembly' = assembly /\ lastChunk' = lastChunk /\ pos' \in {pos, cursor}
    BY <1>11 DEF Posted, PostStep, IdleStep
  <2> QED BY <1>4, <2>1
<1> QED BY <1>7, <1>8, <1>9, <1>10, <1>11 DEF Step

-----------------------------------------------------------------------------
(* What the app server gets *)

GotSame == Len(conns') = Len(conns) /\ Kept

\* The only steps that change what the connections have got are those that forward.
Gives(e) ==
    \/ e.kind = "initialize" /\ (Opened(e.key, <<>>) \/ Opened(e.key, <<e.seq>>))
    \/ e.kind \in {"message", "chunk"} /\ Forwarded(e.key, e.seq)

LEMMA StepGives ==
    ASSUME Step
    PROVE  \/ GotSame
           \/ pos < Len(log) /\ Completes(Incoming) /\ log' = log /\ Gives(Incoming)
<1>1. CASE conns' = conns BY <1>1 DEF GotSame, Kept
<1>2. CASE Posted \/ IdleStep \/ SegmentStep
  <2>1. conns' = conns BY <1>2 DEF Posted, PostStep, IdleStep, SegmentStep
  <2> QED BY <1>1, <2>1
<1>3. CASE \E k \in Keys : CloseStep(k) BY <1>3 DEF CloseStep, Quiet, GotSame
<1>4. CASE DeliverStep \/ AgainStep
  <2>1. /\ pos < Len(log) /\ Completes(Incoming) /\ log' = log
        /\ Effect(Incoming) \/ FailEffect(Incoming)
    BY <1>4 DEF DeliverStep, AgainStep
  <2>2. conns' = conns \/ Quiet \/ Gives(Incoming)
    BY <2>1 DEF Effect, FailEffect, Gives, Forwards
  <2> QED BY <1>1, <2>1, <2>2 DEF Quiet, GotSame
<1> QED BY <1>2, <1>3, <1>4 DEF Step

\* Whether a seq_id is that of an initialize.
LEMMA InitializeAt ==
    ASSUME TypeOK, LogInv, NEW p \in 1..Len(log), Numbered(p)
    PROVE  IsInitialize(log[p].key, log[p].seq) <=> log[p].kind = "initialize"
<1>1. ASSUME NEW i \in 1..Len(log), log[i].key = log[p].key, log[i].kind = "initialize",
             log[i].seq = log[p].seq
      PROVE  log[p].kind = "initialize"
  <2>1. log[p].seq \in Nat /\ Numbered(i) BY <1>1, EntryParts DEF Numbered
  <2>2. CASE i = p BY <1>1, <2>2
  <2>3. CASE i < p
    <3>1. log[i].seq < log[p].seq \/ log[i].kind = "chunk"
      BY <1>1, <2>1, <2>3 DEF LogInv, SeqOrdered
    <3> QED BY <1>1, <2>1, <3>1
  <2>4. CASE p < i
    <3>1. log[p].seq < log[i].seq \/ log[i].kind = "chunk"
      BY <1>1, <2>1, <2>4 DEF LogInv, SeqOrdered
    <3> QED BY <1>1, <2>1, <3>1
  <2> QED BY <2>2, <2>3, <2>4
<1> QED BY <1>1 DEF IsInitialize

LEMMA InitializeKept ==
    ASSUME TypeOK, TypeOK', LogInv, LogInv', Grows, NEW k, NEW q,
           NEW p \in 1..Len(log), log[p].key = k, log[p].seq = q, Numbered(p)
    PROVE  IsInitialize(k, q)' <=> IsInitialize(k, q)
<1>1. p \in 1..Len(log') /\ log'[p] = log[p] BY DEF Grows
<1>2. ASSUME NEW i \in 1..Len(log'), log'[i].key = k, log'[i].kind = "initialize",
             log'[i].seq = q
      PROVE  log[p].kind = "initialize"
  <2>1. q \in Nat BY EntryParts
  <2>2. log'[p].kind \in {"initialize", "message", "chunk"} BY <1>1 DEF Numbered
  <2>3. CASE i = p BY <1>1, <1>2, <2>3
  <2>4. CASE i < p
    <3>1. log'[i].seq < log'[p].seq \/ log'[i].kind = "chunk"
      BY <1>1, <1>2, <2>1, <2>2, <2>4 DEF LogInv, SeqOrdered, Numbered
    <3> QED BY <1>1, <1>2, <2>1, <3>1
  <2>5. CASE p < i
    <3>1. log'[p].seq < log'[i].seq \/ log'[i].kind = "chunk"
      BY <1>1, <1>2, <2>1, <2>2, <2>5 DEF LogInv, SeqOrdered, Numbered
    <3> QED BY <1>1, <1>2, <2>1, <3>1
  <2> QED BY <2>3, <2>4, <2>5
<1>3. IsInitialize(k, q)' => log[p].kind = "initialize" BY <1>2 DEF IsInitialize
<1>4. IsInitialize(k, q) => log[p].kind = "initialize"
  BY <1>2 DEF IsInitialize, Grows
<1>5. log[p].kind = "initialize" => IsInitialize(k, q) BY DEF IsInitialize
<1>6. log[p].kind = "initialize" => IsInitialize(k, q)' BY <1>1 DEF IsInitialize
<1> QED BY <1>3, <1>4, <1>5, <1>6

\* What a connection had got stays, and what it gets is the envelope just read.
LEMMA GotCases ==
    ASSUME TypeOK, TypeOK', LogInv, TrackedInv, Step, NEW n \in 1..Len(conns')
    PROVE  \/ /\ n \in 1..Len(conns) /\ conns'[n].key = conns[n].key
              /\ conns'[n].got = conns[n].got
           \/ /\ pos < Len(log) /\ Completes(Incoming) /\ log' = log /\ conns'[n].key = Incoming.key
              /\ \/ /\ n = Len(conns) + 1 /\ Incoming.kind = "initialize"
                    /\ conns'[n].got \in {<<>>, <<Incoming.seq>>}
                 \/ /\ n \in 1..Len(conns) /\ Incoming.kind \in {"message", "chunk"}
                    /\ conns[n].key = Incoming.key /\ Tracked(Incoming.key)
                    /\ n = clients[Incoming.key].conn /\ clients[Incoming.key].last < Incoming.seq
                    /\ clients[Incoming.key].last = LastOf(conns[n].got)
                    /\ conns'[n].got = Append(conns[n].got, Incoming.seq)
<1>0. Len(conns) \in Nat BY TypeParts
<1>1. CASE GotSame BY <1>1 DEF GotSame, Kept
<1>2. CASE pos < Len(log) /\ Completes(Incoming) /\ log' = log /\ Gives(Incoming)
  <2>1. Incoming.key \in Keys BY <1>2, IncomingParts
  <2> DEFINE k == Incoming.key
  <2>2. CASE Incoming.kind = "initialize" /\ (Opened(k, <<>>) \/ Opened(k, <<Incoming.seq>>))
    <3>1. /\ Len(conns') = Len(conns) + 1 /\ Kept
          /\ conns'[Len(conns) + 1].key = k
          /\ conns'[Len(conns) + 1].got \in {<<>>, <<Incoming.seq>>}
      BY <2>2 DEF Opened
    <3>2. n \in 1..Len(conns) \/ n = Len(conns) + 1 BY <1>0, <3>1
    <3> QED BY <1>2, <2>2, <3>1, <3>2 DEF Kept
  <2>3. CASE Incoming.kind \in {"message", "chunk"} /\ Forwarded(k, Incoming.seq)
    <3>1. /\ Tracked(k) /\ clients[k].last < Incoming.seq /\ Len(conns') = Len(conns)
          /\ \A m \in 1..Len(conns) :
                /\ conns'[m].key = conns[m].key
                /\ conns'[m].got = IF m = clients[k].conn THEN Append(conns[m].got, Incoming.seq)
                                   ELSE conns[m].got
      BY <2>3 DEF Forwarded
    <3>2. conns[clients[k].conn].key = k /\ clients[k].last = LastOf(conns[clients[k].conn].got)
      BY <2>1, <3>1 DEF TrackedInv, Tracked
    <3> QED BY <1>2, <2>3, <3>1, <3>2
  <2> QED BY <1>2, <2>2, <2>3 DEF Gives
<1> QED BY <1>1, <1>2, StepGives

LEMMA GotReadStep ==
    ASSUME TypeOK, TypeOK', LogInv, ReadInv, TrackedInv, GotRead, Grows, Step
    PROVE  GotRead'
<1> SUFFICES ASSUME NEW n \in 1..Len(conns'), NEW i \in 1..Len(conns'[n].got)
             PROVE  \E p \in 1..Len(log') :
                       /\ log'[p].key = conns'[n].key /\ log'[p].seq = conns'[n].got[i]
                       /\ log'[p].kind \in {"initialize", "message", "chunk"} /\ Within(p)'
  BY DEF GotRead, Numbered
<1>1. ASSUME n \in 1..Len(conns), conns'[n].key = conns[n].key, i \in 1..Len(conns[n].got),
             conns'[n].got[i] = conns[n].got[i]
      PROVE  \E p \in 1..Len(log') :
                /\ log'[p].key = conns'[n].key /\ log'[p].seq = conns'[n].got[i]
                /\ log'[p].kind \in {"initialize", "message", "chunk"} /\ Within(p)'
  <2>1. PICK p \in 1..Len(log) : /\ log[p].key = conns[n].key /\ log[p].seq = conns[n].got[i]
                                 /\ Numbered(p) /\ Within(p)
    BY <1>1 DEF GotRead
  <2>2. p \in 1..Len(log') /\ log'[p] = log[p] BY DEF Grows
  <2>3. Within(p)' BY <2>1, WithinKept
  <2> QED BY <1>1, <2>1, <2>2, <2>3 DEF Numbered
<1>2. ASSUME pos < Len(log), log' = log, conns'[n].key = Incoming.key,
             Incoming.kind \in {"initialize", "message", "chunk"}, conns'[n].got[i] = Incoming.seq
      PROVE  \E p \in 1..Len(log') :
                /\ log'[p].key = conns'[n].key /\ log'[p].seq = conns'[n].got[i]
                /\ log'[p].kind \in {"initialize", "message", "chunk"} /\ Within(p)'
  <2>1. pos + 1 \in 1..Len(log) /\ pos \in Nat /\ Incoming = log[pos + 1] BY <1>2, IncomingParts
  <2>2. pos + 1 \in 1..(pos + 1) BY <2>1
  <2>3. Within(pos + 1) BY <2>2, ReadWithin
  <2> DEFINE p == pos + 1
  <2>4. p \in 1..Len(log) /\ Within(p) BY <2>1, <2>3
  <2> HIDE DEF p
  <2>5. \E r \in 1..Len(log) : r = p /\ Within(r) BY <2>4
  <2>6. PICK r \in 1..Len(log) : r = p /\ Within(r) BY <2>5
  <2>7. Within(r)' BY <2>6, WithinKept
  <2>8. log[r] = Incoming BY <2>1, <2>6 DEF p
  <2> QED BY <1>2, <2>7, <2>8
<1>3. CASE n \in 1..Len(conns) /\ conns'[n].key = conns[n].key /\ conns'[n].got = conns[n].got
  BY <1>1, <1>3
<1>4. CASE /\ pos < Len(log) /\ log' = log /\ conns'[n].key = Incoming.key
           /\ Incoming.kind = "initialize" /\ conns'[n].got \in {<<>>, <<Incoming.seq>>}
  <2>0. conns'[n].got # <<>> OBVIOUS
  <2>1. conns'[n].got = <<Incoming.seq>> BY <1>4, <2>0
  <2>2. i = 1 /\ conns'[n].got[1] = Incoming.seq BY <2>1
  <2> QED BY <1>2, <1>4, <2>2
<1>5. CASE /\ pos < Len(log) /\ log' = log /\ conns'[n].key = Incoming.key
           /\ n \in 1..Len(conns) /\ Incoming.kind \in {"message", "chunk"}
           /\ conns[n].key = Incoming.key /\ conns'[n].got = Append(conns[n].got, Incoming.seq)
  <2>1. Incoming.seq \in Nat /\ conns[n].got \in Seq(Nat) BY <1>5, IncomingParts, ConnParts
  <2>2. /\ Len(conns[n].got) \in Nat /\ Len(conns'[n].got) = Len(conns[n].got) + 1
        /\ \A j \in 1..Len(conns[n].got) : conns'[n].got[j] = conns[n].got[j]
        /\ conns'[n].got[Len(conns[n].got) + 1] = Incoming.seq
    BY <1>5, <2>1, Appended
  <2>3. i \in 1..Len(conns[n].got) \/ i = Len(conns[n].got) + 1 BY <2>2
  <2> QED BY <1>1, <1>2, <1>5, <2>2, <2>3
<1> QED BY <1>3, <1>4, <1>5, GotCases

LEMMA GotInitialize ==
    ASSUME TypeOK, TypeOK', LogInv, LogInv', GotRead, Grows,
           NEW n \in 1..Len(conns), NEW i \in 1..Len(conns[n].got),
           conns'[n].key = conns[n].key, conns'[n].got[i] = conns[n].got[i]
    PROVE  IsInitialize(conns[n].key, conns[n].got[i])' <=>
              IsInitialize(conns[n].key, conns[n].got[i])
<1>1. PICK p \in 1..Len(log) : /\ log[p].key = conns[n].key /\ log[p].seq = conns[n].got[i]
                               /\ Numbered(p)
  BY DEF GotRead
<1>2. PICK k \in {log[p].key}, q \in {log[p].seq} : TRUE OBVIOUS
<1>3. IsInitialize(k, q)' <=> IsInitialize(k, q) BY <1>1, <1>2, InitializeKept
<1> QED BY <1>1, <1>2, <1>3 DEF IsInitialize

LEMMA GotOrderedStep ==
    ASSUME TypeOK, TypeOK', LogInv, LogInv', ReadInv, TrackedInv, GotRead, GotOrdered, Grows, Step
    PROVE  GotOrdered'
<1> SUFFICES ASSUME NEW n \in 1..Len(conns')
             PROVE  /\ \A i, j \in 1..Len(conns'[n].got) :
                          i < j => conns'[n].got[i] < conns'[n].got[j]
                    /\ \A i \in 2..Len(conns'[n].got) :
                          ~IsInitialize(conns[n].key, conns[n].got[i])'
  BY DEF GotOrdered
<1>1. ASSUME n \in 1..Len(conns), NEW i \in 2..Len(conns[n].got), conns'[n].key = conns[n].key,
             conns'[n].got[i] = conns[n].got[i]
      PROVE  ~IsInitialize(conns[n].key, conns[n].got[i])'
  <2>1. i \in 1..Len(conns[n].got) BY <1>1, ConnParts
  <2>2. ~IsInitialize(conns[n].key, conns[n].got[i]) BY <1>1 DEF GotOrdered
  <2> QED BY <1>1, <2>1, <2>2, GotInitialize
<1>2. CASE n \in 1..Len(conns) /\ conns'[n].key = conns[n].key /\ conns'[n].got = conns[n].got
  BY <1>1, <1>2 DEF GotOrdered
<1>3. CASE conns'[n].got \in {<<>>, <<Incoming.seq>>}
  <2>1. conns'[n].got = <<>> \/ conns'[n].got = <<Incoming.seq>> BY <1>3
  <2>2. Len(conns'[n].got) \in {0, 1}
    <3>1. CASE conns'[n].got = <<>> BY <3>1
    <3>2. CASE conns'[n].got = <<Incoming.seq>> BY <3>2
    <3> QED BY <2>1, <3>1, <3>2
  <2> HIDE DEF Incoming
  <2> QED BY <2>2
<1>4. CASE /\ pos < Len(log) /\ log' = log /\ conns'[n].key = Incoming.key
           /\ n \in 1..Len(conns) /\ Incoming.kind \in {"message", "chunk"}
           /\ conns[n].key = Incoming.key /\ clients[Incoming.key].last < Incoming.seq
           /\ clients[Incoming.key].last = LastOf(conns[n].got)
           /\ conns'[n].got = Append(conns[n].got, Incoming.seq)
  <2> DEFINE got == conns[n].got
             q == Incoming.seq
  <2>1. q \in Nat /\ got \in Seq(Nat) /\ \A i \in 1..Len(got) : got[i] \in Nat
    BY <1>4, IncomingParts, ConnParts
  <2>2. /\ Len(got) \in Nat /\ Len(conns'[n].got) = Len(got) + 1
        /\ \A j \in 1..Len(got) : conns'[n].got[j] = got[j]
        /\ conns'[n].got[Len(got) + 1] = q
    BY <1>4, <2>1, Appended
  <2>3. \A i, j \in 1..Len(got) : i < j => got[i] < got[j] BY <1>4 DEF GotOrdered
  <2>4. \A i \in 1..Len(got) : got[i] < q
    <3> SUFFICES ASSUME NEW i \in 1..Len(got) PROVE got[i] < q OBVIOUS
    <3>1. got # <<>> BY <2>1, <2>2
    <3>2. got[Len(got)] < q BY <1>4, <3>1 DEF LastOf
    <3>3. Len(got) \in 1..Len(got) BY <2>2
    <3>4. i = Len(got) \/ got[i] < got[Len(got)] BY <2>2, <2>3, <3>3
    <3> HIDE DEF got, q
    <3> QED BY <2>1, <3>2, <3>3, <3>4
  <2>5. \A i \in 1..Len(conns'[n].got) : i \in 1..Len(got) \/ i = Len(got) + 1 BY <2>2
  <2>6. \A i, j \in 1..Len(conns'[n].got) : i < j => conns'[n].got[i] < conns'[n].got[j]
    <3> HIDE DEF got, q
    <3> SUFFICES ASSUME NEW i \in 1..Len(conns'[n].got), NEW j \in 1..Len(conns'[n].got), i < j
                 PROVE  conns'[n].got[i] < conns'[n].got[j]
      OBVIOUS
    <3>1. i \in 1..Len(got) BY <2>2
    <3> QED BY <2>2, <2>3, <2>4, <2>5, <3>1
  <2>7. ASSUME NEW i \in 2..Len(conns'[n].got) PROVE ~IsInitialize(conns[n].key, conns[n].got[i])'
    <3>1. CASE i \in 1..Len(got)
      <4>1. i \in 2..Len(got) BY <3>1, <2>2
      <4> QED BY <1>1, <1>4, <2>2, <3>1, <4>1
    <3>2. CASE i = Len(got) + 1
      <4>1. pos + 1 \in 1..Len(log) /\ Incoming = log[pos + 1] BY <1>4, IncomingParts
      <4>2. Numbered(pos + 1) BY <1>4, <4>1 DEF Numbered
      <4>3. ~IsInitialize(log[pos + 1].key, log[pos + 1].seq) BY <1>4, <4>1, <4>2, InitializeAt
      <4>4. ~IsInitialize(Incoming.key, q) BY <4>1, <4>3
      <4>5. conns'[n].got[i] = q /\ conns'[n].key = Incoming.key BY <1>4, <2>2, <3>2
      <4> HIDE DEF q
      <4> QED BY <1>4, <4>4, <4>5 DEF IsInitialize
    <3> QED BY <2>5, <2>7, <3>1, <3>2
  <2> QED BY <2>6, <2>7
<1> QED BY <1>2, <1>3, <1>4, GotCases

\* An initialize that is just read is younger than every message already forwarded.
LEMMA InitializeYounger ==
    ASSUME TypeOK, LogInv, ReadInv, GotRead, pos < Len(log), Incoming.kind = "initialize",
           NEW m \in 1..Len(conns), conns[m].key = Incoming.key, NEW i \in 1..Len(conns[m].got)
    PROVE  IsInitialize(conns[m].key, conns[m].got[i]) \/ conns[m].got[i] < Incoming.seq
<1>1. PICK p \in 1..Len(log) : /\ log[p].key = conns[m].key /\ log[p].seq = conns[m].got[i]
                               /\ Numbered(p) /\ Within(p)
  BY DEF GotRead
<1>2. /\ pos + 1 \in 1..Len(log) /\ Incoming = log[pos + 1] /\ pos \in Nat /\ cursor \in Nat
  BY IncomingParts
<1>3. cursor <= pos BY DEF ReadInv
<1>4. CASE p = pos + 1
  <2>1. log[p].kind = "initialize" BY <1>2, <1>4
  <2> QED BY <1>1, <2>1, InitializeAt
<1>5. CASE p < pos + 1
  <2>1. log[p].seq < Incoming.seq \/ Incoming.kind = "chunk"
    <3>1. Numbered(pos + 1) BY <1>2 DEF Numbered
    <3> QED BY <1>1, <1>2, <1>5, <3>1 DEF LogInv, SeqOrdered
  <2> QED BY <1>1, <2>1
<1>6. CASE pos + 1 < p
  <2>1. pos + 1 \in 1..(p - 1) /\ cursor < pos + 1 BY <1>2, <1>3, <1>6
  <2>2. log[pos + 1].kind = "chunk" BY <1>1, <2>1 DEF Within
  <2> QED BY <1>2, <2>2
<1> QED BY <1>2, <1>4, <1>5, <1>6

LEMMA SeparateStep ==
    ASSUME TypeOK, TypeOK', LogInv, LogInv', ReadInv, TrackedInv, GotRead, Separate, Grows, Step
    PROVE  Separate'
<1> SUFFICES ASSUME NEW m \in 1..Len(conns'), NEW n \in 1..Len(conns'),
                    m < n, conns'[m].key = conns'[n].key, conns'[n].got # <<>>,
                    IsInitialize(conns[n].key, conns[n].got[1])',
                    NEW i \in 1..Len(conns'[m].got)
             PROVE  \/ IsInitialize(conns[m].key, conns[m].got[i])'
                    \/ conns'[m].got[i] < conns'[n].got[1]
  BY DEF Separate
<1>0. Len(conns) \in Nat BY TypeParts
<1> DEFINE Same(x) == /\ x \in 1..Len(conns) /\ conns'[x].key = conns[x].key
                      /\ conns'[x].got = conns[x].got
<1>1. Same(m)
  <2>1. ASSUME ~Same(m) PROVE FALSE
    <3>1. /\ pos < Len(log) /\ conns'[m].key = Incoming.key
          /\ \/ m = Len(conns) + 1
             \/ m \in 1..Len(conns) /\ m = clients[Incoming.key].conn /\ Tracked(Incoming.key)
      BY <2>1, GotCases
    <3>2. CASE m = Len(conns) + 1
      <4>1. /\ n \in 1..Len(conns) \/ n = Len(conns) + 1 BY GotCases
      <4> QED BY <1>0, <3>2, <4>1
    <3>3. CASE m \in 1..Len(conns) /\ m = clients[Incoming.key].conn /\ Tracked(Incoming.key)
      <4>1. Incoming.key \in Keys BY <3>1, IncomingParts
      <4>2. \A x \in 1..Len(conns) : m < x => conns[x].key # Incoming.key
        BY <3>3, <4>1 DEF TrackedInv, Tracked
      <4>3. n \in 1..Len(conns)
        <5>1. CASE n = Len(conns) + 1
          <6>1. Incoming.kind = "initialize" BY <1>0, <5>1, GotCases
          <6>2. m = Len(conns) + 1 \/ Incoming.kind \in {"message", "chunk"} BY <2>1, GotCases
          <6> QED BY <1>0, <3>3, <6>1, <6>2
        <5> QED BY <5>1, GotCases
      <4>4. conns'[n].key = conns[n].key BY <1>0, <4>3, GotCases
      <4> QED BY <3>1, <4>2, <4>3, <4>4
    <3> QED BY <3>1, <3>2, <3>3
  <2> QED BY <2>1
<1>2. /\ m \in 1..Len(conns) /\ i \in 1..Len(conns[m].got) /\ conns'[m].key = conns[m].key
      /\ conns'[m].got[i] = conns[m].got[i]
  BY <1>1
<1>3. IsInitialize(conns[m].key, conns[m].got[i])' <=> IsInitialize(conns[m].key, conns[m].got[i])
  BY <1>2, GotInitialize
<1>4. ASSUME n \in 1..Len(conns), conns'[n].key = conns[n].key, conns[n].got # <<>>,
             conns'[n].got[1] = conns[n].got[1]
      PROVE  \/ IsInitialize(conns[m].key, conns[m].got[i])
             \/ conns'[m].got[i] < conns'[n].got[1]
  <2>1. 1 \in 1..Len(conns[n].got) BY <1>4, ConnParts, EmptySeq
  <2>2. IsInitialize(conns[n].key, conns[n].got[1]) BY <1>4, <2>1, GotInitialize
  <2> QED BY <1>2, <1>4, <2>2 DEF Separate
<1>5. CASE Same(n) BY <1>3, <1>4, <1>5
<1>6. CASE /\ pos < Len(log) /\ conns'[n].key = Incoming.key /\ Incoming.kind = "initialize"
           /\ conns'[n].got \in {<<>>, <<Incoming.seq>>}
  <2>1. conns'[n].got = <<Incoming.seq>> BY <1>6
  <2>2. conns'[n].got[1] = Incoming.seq BY <2>1
  <2>3. IsInitialize(conns[m].key, conns[m].got[i]) \/ conns[m].got[i] < Incoming.seq
    BY <1>2, <1>6, InitializeYounger
  <2> QED BY <1>2, <1>3, <2>2, <2>3
<1>7. CASE /\ pos < Len(log) /\ log' = log /\ conns'[n].key = Incoming.key
           /\ n \in 1..Len(conns) /\ Incoming.kind \in {"message", "chunk"}
           /\ conns[n].key = Incoming.key
           /\ conns'[n].got = Append(conns[n].got, Incoming.seq)
  <2>1. Incoming.seq \in Nat /\ conns[n].got \in Seq(Nat) BY <1>7, IncomingParts, ConnParts
  <2>2. /\ Len(conns[n].got) \in Nat
        /\ \A j \in 1..Len(conns[n].got) : conns'[n].got[j] = conns[n].got[j]
        /\ conns'[n].got[Len(conns[n].got) + 1] = Incoming.seq
    BY <1>7, <2>1, Appended, SMTT(30)
  <2>3. CASE conns[n].got # <<>>
    <3>1. 1 \in 1..Len(conns[n].got) BY <2>1, <2>2, <2>3, EmptySeq
    <3> QED BY <1>3, <1>4, <1>7, <2>2, <2>3, <3>1
  <2>4. CASE conns[n].got = <<>>
    <3>1. conns'[n].got[1] = Incoming.seq BY <2>2, <2>4
    <3>2. pos + 1 \in 1..Len(log) /\ Incoming = log[pos + 1] BY <1>7, IncomingParts
    <3>3. Numbered(pos + 1) BY <1>7, <3>2 DEF Numbered
    <3>4. ~IsInitialize(log[pos + 1].key, log[pos + 1].seq) BY <1>7, <3>2, <3>3, InitializeAt
    <3>5. ~IsInitialize(Incoming.key, Incoming.seq) BY <3>2, <3>4
    <3>6. ~IsInitialize(conns[n].key, conns[n].got[1])'
      BY <1>7, <3>1, <3>5 DEF IsInitialize
    <3> QED BY <3>6
  <2> QED BY <2>3, <2>4
<1> QED BY <1>5, <1>6, <1>7, GotCases

-----------------------------------------------------------------------------
(* Whole messages *)

LEMMA SentKept ==
    ASSUME Grows, NEW k
    PROVE  Sent(k) \subseteq Sent(k)' /\ Initializes(k) \subseteq Initializes(k)'
<1>1. \A i \in 1..Len(log) : i \in 1..Len(log') /\ log'[i] = log[i] BY DEF Grows
<1>2. Initializes(k) \subseteq Initializes(k)' BY <1>1 DEF Initializes
<1>3. ASSUME NEW q \in Sent(k) PROVE q \in Sent(k)'
  <2>1. CASE q \in {log[i].seq : i \in {j \in 1..Len(log) : log[j].key = k /\ log[j].kind = "message"}}
    BY <1>1, <2>1 DEF Sent
  <2>2. CASE /\ q \in 1..MaxEvents
             /\ \A seg \in 0..(Segments - 1) : \E i \in 1..Len(log) :
                   log[i] = [key |-> k, kind |-> "chunk", seq |-> q, seg |-> seg, ok |-> TRUE]
    BY <1>1, <2>2 DEF Sent
  <2> QED BY <1>3, <2>1, <2>2 DEF Sent
<1> QED BY <1>2, <1>3

\* What is forwarded was sent in full.
LEMMA CompletedSent ==
    ASSUME TypeOK, LogInv, AssemblyInv, pos < Len(log), Completes(Incoming),
           Incoming.kind \in {"initialize", "message", "chunk"}
    PROVE  Incoming.seq \in Sent(Incoming.key) \cup Initializes(Incoming.key)
<1> DEFINE e == Incoming
           c == e.key[1]
<1>1. /\ pos + 1 \in 1..Len(log) /\ e = log[pos + 1] /\ e \in Entries /\ e.key \in Keys
      /\ c \in Clients /\ e.key[2] # 0 /\ e.seq \in Nat /\ e.seg \in 0..(Segments - 1)
  BY IncomingParts
<1>2. CASE e.kind \in {"initialize", "message"} BY <1>1, <1>2 DEF Sent, Initializes
<1>3. CASE e.kind = "chunk"
  <2>1. e.ok /\ e.seg = Segments - 1 /\ Accepts(AssemblyFor(e), e) BY <1>3, CompletedFacts
  <2>2. e.seq \in 1..MaxEvents
    <3>1. log[pos + 1].seq > 0 BY <1>1, <1>3 DEF LogInv, ClientAhead, Numbered
    <3>2. log[pos + 1].seq <= MaxEvents BY <1>1 DEF LogInv, SeqBounded
    <3> QED BY <1>1, <3>1, <3>2
  <2>3. ASSUME NEW i \in 1..Len(log), NEW g, Segment(i, e.key, e.seq, g), log[i].ok
        PROVE  log[i] = [key |-> e.key, kind |-> "chunk", seq |-> e.seq, seg |-> g, ok |-> TRUE]
    <3>1. log[i] \in Entries BY EntryParts
    <3>2. /\ log[i].kind = "chunk" /\ log[i].key = e.key /\ log[i].seq = e.seq /\ log[i].seg = g
          /\ log[i].ok = TRUE
      BY <2>3, <3>1 DEF Segment, Chunk, Entries
    <3> HIDE DEF e
    <3> QED BY <3>1, <3>2 DEF Entries
  <2>4. ASSUME NEW g \in 0..(Segments - 1)
        PROVE  \E i \in 1..Len(log) : Segment(i, e.key, e.seq, g) /\ log[i].ok
    <3>1. CASE g = e.seg BY <1>1, <1>3, <2>1, <3>1 DEF Segment, Chunk
    <3>2. CASE g # e.seg
      <4>1. e.seg # 0 BY <2>1, <3>2
      <4>2. assembly[c].stream = e.key[2] /\ assembly[c].seq = e.seq /\ assembly[c].next = e.seg
        BY <2>1, <4>1 DEF Accepts, AssemblyFor
      <4>3. <<c, assembly[c].stream>> = e.key BY <1>1, <4>2, KeyParts
      <4>4. g \in 0..(assembly[c].next - 1) BY <1>1, <2>1, <3>2, <4>2
      <4>5. assembly[c].stream # 0 BY <1>1, <4>2
      <4>6. \E i \in 1..Len(log) : Segment(i, <<c, assembly[c].stream>>, assembly[c].seq, g) /\ log[i].ok
        BY <1>1, <4>4, <4>5 DEF AssemblyInv, AssemblyOK
      <4> QED BY <4>2, <4>3, <4>6
    <3> QED BY <3>1, <3>2
  <2>5. \A g \in 0..(Segments - 1) : \E i \in 1..Len(log) :
          log[i] = [key |-> e.key, kind |-> "chunk", seq |-> e.seq, seg |-> g, ok |-> TRUE]
    BY <2>3, <2>4
  <2> HIDE DEF e
  <2> QED BY <2>2, <2>5 DEF Sent, e
<1> QED BY <1>2, <1>3

LEMMA OnlyWholeStep ==
    ASSUME TypeOK, TypeOK', LogInv, AssemblyInv, TrackedInv, OnlyWhole, Grows, Step
    PROVE  OnlyWhole'
<1> SUFFICES ASSUME NEW n \in 1..Len(conns'), NEW i \in 1..Len(conns'[n].got)
             PROVE  conns'[n].got[i] \in Sent(conns[n].key)' \cup Initializes(conns[n].key)'
  BY DEF OnlyWhole
<1>0. PICK k \in {conns'[n].key} : TRUE OBVIOUS
<1>1. Sent(conns[n].key)' = Sent(k)' /\ Initializes(conns[n].key)' = Initializes(k)'
  BY <1>0 DEF Sent, Initializes
<1>2. Sent(k) \subseteq Sent(k)' /\ Initializes(k) \subseteq Initializes(k)' BY SentKept
<1>3. ASSUME n \in 1..Len(conns), conns'[n].key = conns[n].key, i \in 1..Len(conns[n].got),
             conns'[n].got[i] = conns[n].got[i]
      PROVE  conns'[n].got[i] \in Sent(k)' \cup Initializes(k)'
  <2>1. conns[n].got[i] \in Sent(conns[n].key) \cup Initializes(conns[n].key)
    BY <1>3 DEF OnlyWhole
  <2>2. k = conns[n].key BY <1>0, <1>3
  <2> QED BY <1>2, <1>3, <2>1, <2>2
<1>4. ASSUME pos < Len(log), Completes(Incoming), conns'[n].key = Incoming.key,
             Incoming.kind \in {"initialize", "message", "chunk"}, conns'[n].got[i] = Incoming.seq
      PROVE  conns'[n].got[i] \in Sent(k)' \cup Initializes(k)'
  <2>1. k = Incoming.key BY <1>0, <1>4
  <2>2. Incoming.seq \in Sent(k) \cup Initializes(k) BY <1>4, <2>1, CompletedSent
  <2> QED BY <1>2, <1>4, <2>2
<1>5. CASE n \in 1..Len(conns) /\ conns'[n].key = conns[n].key /\ conns'[n].got = conns[n].got
  BY <1>1, <1>3, <1>5
<1>6. CASE /\ pos < Len(log) /\ Completes(Incoming) /\ conns'[n].key = Incoming.key
           /\ Incoming.kind = "initialize" /\ conns'[n].got \in {<<>>, <<Incoming.seq>>}
  <2>0. conns'[n].got # <<>> OBVIOUS
  <2>1. conns'[n].got = <<Incoming.seq>> BY <1>6, <2>0
  <2>2. i = 1 /\ conns'[n].got[1] = Incoming.seq BY <2>1
  <2> QED BY <1>1, <1>4, <1>6, <2>2
<1>7. CASE /\ pos < Len(log) /\ Completes(Incoming) /\ conns'[n].key = Incoming.key
           /\ n \in 1..Len(conns) /\ Incoming.kind \in {"message", "chunk"}
           /\ conns[n].key = Incoming.key
           /\ conns'[n].got = Append(conns[n].got, Incoming.seq)
  <2>1. Incoming.seq \in Nat /\ conns[n].got \in Seq(Nat) BY <1>7, IncomingParts, ConnParts
  <2>2. /\ Len(conns[n].got) \in Nat /\ Len(conns'[n].got) = Len(conns[n].got) + 1
        /\ \A j \in 1..Len(conns[n].got) : conns'[n].got[j] = conns[n].got[j]
        /\ conns'[n].got[Len(conns[n].got) + 1] = Incoming.seq
    BY <1>7, <2>1, Appended, SMTT(30)
  <2>3. i \in 1..Len(conns[n].got) \/ i = Len(conns[n].got) + 1 BY <2>2
  <2> QED BY <1>1, <1>3, <1>4, <1>7, <2>2, <2>3
<1> QED BY <1>5, <1>6, <1>7, GotCases

-----------------------------------------------------------------------------
(* No gaps *)

\* Seq_ids and positions agree.
LEMMA SeqPositions ==
    ASSUME TypeOK, LogInv, NEW i \in 1..Len(log), NEW j \in 1..Len(log),
           log[i].key = log[j].key, Numbered(i), Numbered(j)
    PROVE  /\ i <= j => log[i].seq <= log[j].seq
           /\ log[i].seq < log[j].seq => i < j
           /\ i < j /\ log[i].seq = log[j].seq =>
                 log[i].seg < log[j].seg /\ log[i].kind = "chunk" /\ log[j].kind = "chunk"
           /\ log[i].seq = log[j].seq /\ log[i].seg = log[j].seg => i = j
<1>1. /\ log[i].seq \in Nat /\ log[j].seq \in Nat
      /\ log[i].seg \in 0..(Segments - 1) /\ log[j].seg \in 0..(Segments - 1)
  BY EntryParts
<1>2. i < j => \/ log[i].seq < log[j].seq
               \/ /\ log[i].seq = log[j].seq /\ log[i].seg < log[j].seg
                  /\ log[i].kind = "chunk" /\ log[j].kind = "chunk"
  BY DEF LogInv, SeqOrdered
<1>3. j < i => \/ log[j].seq < log[i].seq
               \/ log[i].seq = log[j].seq /\ log[j].seg < log[i].seg
  BY DEF LogInv, SeqOrdered
<1>4. i \in Nat /\ j \in Nat OBVIOUS
<1>5. i < j \/ i = j \/ j < i BY <1>4
<1>6. CASE i < j BY <1>1, <1>2, <1>4, <1>6
<1>7. CASE i = j BY <1>1, <1>4, <1>7
<1>8. CASE j < i BY <1>1, <1>3, <1>4, <1>8
<1> QED BY <1>5, <1>6, <1>7, <1>8

\* An assembly of the key of an envelope that is no segment is not ahead of it.
LEMMA AssemblyBefore ==
    ASSUME TypeOK, LogInv, ReadInv, AssemblyInv, pos < Len(log),
           Incoming.kind \in {"initialize", "message"},
           assembly[Incoming.key[1]].stream = Incoming.key[2]
    PROVE  assembly[Incoming.key[1]].seq <= Incoming.seq
<1> DEFINE c == Incoming.key[1]
           a == assembly[c]
<1>1. /\ pos + 1 \in 1..Len(log) /\ Incoming = log[pos + 1] /\ Incoming.key \in Keys
      /\ c \in Clients /\ Incoming.key[2] # 0 /\ pos \in Nat /\ cursor \in Nat
  BY IncomingParts
<1>2. <<c, a.stream>> = Incoming.key BY <1>1, KeyParts
<1>3. a.next > 0 /\ \A g \in 0..(a.next - 1) : \E i \in 1..Len(log) :
         Segment(i, <<c, a.stream>>, a.seq, g) /\ log[i].ok /\ Within(i)
  BY <1>1 DEF AssemblyInv, AssemblyOK
<1>4. a.next \in Nat BY <1>1 DEF TypeOK, Assemblies
<1>5. 0 \in 0..(a.next - 1) BY <1>3, <1>4
<1>6. PICK i \in 1..Len(log) : Segment(i, <<c, a.stream>>, a.seq, 0) /\ Within(i) BY <1>3, <1>5
<1>7. log[i].kind = "chunk" /\ log[i].key = log[pos + 1].key /\ log[i].seq = a.seq
  BY <1>1, <1>2, <1>6 DEF Segment, Chunk
<1>8. ~(pos + 1 < i)
  <2>1. ASSUME pos + 1 < i PROVE FALSE
    <3>1. pos + 1 \in 1..(i - 1) /\ cursor < pos + 1 BY <1>1, <2>1 DEF ReadInv
    <3>2. log[pos + 1].kind = "chunk" BY <1>6, <3>1 DEF Within
    <3> QED BY <1>1, <3>2
  <2> QED BY <2>1
<1>9. Numbered(i) /\ Numbered(pos + 1) BY <1>1, <1>7 DEF Numbered
<1>10. i <= pos + 1 BY <1>1, <1>8
<1>11. log[i].seq <= log[pos + 1].seq BY <1>1, <1>7, <1>9, <1>10, SeqPositions
<1> QED BY <1>1, <1>7, <1>11

\* The last segment of a message that is still missing was not read.
LEMMA LastUnread ==
    ASSUME TypeOK, ReadInv, NEW k \in Keys, NEW q, Assembled(k, q), NEW p \in 1..Len(log),
           Segment(p, k, q, Segments - 1)
    PROVE  pos < p
<1>1. k[1] \in Clients BY KeyParts
<1>2. assembly[k[1]].next \in 0..(Segments - 1) BY <1>1 DEF TypeOK, Assemblies
<1>3. pos \in Nat BY DEF TypeOK
<1>4. ASSUME p \in 1..pos PROVE FALSE
  <2>1. log[p].seg < assembly[k[1]].next /\ log[p].seg = Segments - 1
    BY <1>4 DEF Assembled, Segment
  <2> QED BY <1>2, <2>1
<1> QED BY <1>3, <1>4

\* A message that is missing and alive is not behind the segment just read.
LEMMA NotBehind ==
    ASSUME TypeOK, LogInv, ReadInv, NEW k \in Keys, NEW q \in Nat, Assembled(k, q), Alive(k, q),
           pos < Len(log), Incoming.kind = "chunk", Incoming.key = k
    PROVE  Incoming.seq <= q
<1>1. /\ pos + 1 \in 1..Len(log) /\ Incoming = log[pos + 1] /\ Incoming.seq \in Nat
      /\ pos \in Nat
  BY IncomingParts
<1>2. ASSUME q < Incoming.seq PROVE FALSE
  <2>1. PICK i \in 1..Len(log) : Chunk(i, k, q) BY DEF Alive
  <2>2. /\ log[i].kind = "chunk" /\ Numbered(pos + 1) /\ log[i].key = log[pos + 1].key
        /\ log[i].seq < log[pos + 1].seq /\ log[i].key = k /\ log[i].seq = q
    BY <1>1, <1>2, <2>1 DEF Chunk, Numbered
  <2>3. Segments - 1 \in 0..(Segments - 1) OBVIOUS
  <2>4. PICK h \in 1..(pos + 1) : Segment(h, log[i].key, log[i].seq, Segments - 1)
    BY <1>1, <2>2, <2>3 DEF LogInv, SegmentsInOrder
  <2>5. h \in 1..Len(log) BY <1>1
  <2>6. pos < h BY <2>2, <2>4, <2>5, LastUnread
  <2>7. h = pos + 1 BY <1>1, <2>6
  <2>8. log[h].seq = q BY <2>2, <2>4 DEF Segment, Chunk
  <2> QED BY <1>1, <1>2, <2>7, <2>8
<1> QED BY <1>1, <1>2

\* Of a message ahead of the envelope just read, no segment was read.
LEMMA AheadUnread ==
    ASSUME TypeOK, LogInv, NEW k, NEW q \in Nat, pos < Len(log), Incoming.key = k,
           Incoming.kind \in {"initialize", "message", "chunk"}, Incoming.seq < q,
           NEW p \in 1..(pos + 1)
    PROVE  ~Chunk(p, k, q)
<1>1. pos + 1 \in 1..Len(log) /\ Incoming = log[pos + 1] /\ Incoming.seq \in Nat /\ pos \in Nat
  BY IncomingParts
<1>2. p \in 1..Len(log) /\ p <= pos + 1 BY <1>1
<1>3. ASSUME Chunk(p, k, q) PROVE FALSE
  <2>1. Numbered(p) /\ Numbered(pos + 1) /\ log[p].key = log[pos + 1].key /\ log[p].seq = q
    BY <1>1, <1>3 DEF Chunk, Numbered
  <2>2. log[p].seq <= log[pos + 1].seq BY <1>1, <1>2, <2>1, SeqPositions
  <2> QED BY <1>1, <2>1, <2>2
<1> QED BY <1>3

\* When a segment of another stream of its client is read, none of the message was.
LEMMA OtherStream ==
    ASSUME TypeOK, LogInv, ReadInv, NEW k \in Keys, NEW q \in Nat, Assembled(k, q), Alive(k, q),
           pos < Len(log), Incoming.kind = "chunk", Incoming.key[1] = k[1], Incoming.key # k,
           NEW p \in 1..pos
    PROVE  ~Chunk(p, k, q)
<1>1. /\ pos + 1 \in 1..Len(log) /\ Incoming = log[pos + 1] /\ Incoming.key \in Keys
      /\ Incoming.key[2] \in 1..MaxStreams /\ pos \in Nat /\ cursor \in Nat /\ Len(log) \in Nat
  BY IncomingParts
<1>2. k[2] \in 1..MaxStreams /\ k[1] \in Clients BY KeyParts
<1>3. Incoming.key[2] # k[2] BY <1>1, KeyParts
<1>4. ASSUME Chunk(p, k, q) PROVE FALSE
  <2> DEFINE s == Incoming.key[2]
  <2>1. p \in 1..Len(log) /\ p < pos + 1 BY <1>1
  <2>2. log[p].key = k BY <1>4 DEF Chunk
  <2>3. k[2] <= s BY <1>1, <2>1, <2>2 DEF LogInv, StreamsOrdered
  <2>4. k[2] < s BY <1>1, <1>2, <1>3, <2>3
  <2>5. PICK i \in 1..(pos + 1) : log[i].key = log[pos + 1].key /\ log[i].kind = "initialize"
    BY <1>1 DEF LogInv, InitializeFirst
  <2>6. i # pos + 1 BY <1>1, <2>5
  <2>7. i \in 1..pos /\ i \in 1..Len(log) BY <1>1, <2>6
  <2>9. s <= client[k[1]].stream
    BY <1>1 DEF LogInv, ClientAhead
  <2>10. client[k[1]].stream \in 0..MaxStreams BY <1>2, ClientNow DEF LogInv
  <2>11. client[k[1]].stream # k[2] BY <1>1, <1>2, <2>4, <2>9, <2>10
  <2>12. PICK h \in 1..Len(log) : Segment(h, k, q, Segments - 1) BY <2>11 DEF Alive
  <2>13. pos < h BY <2>12, LastUnread
  <2>14. log[h].key = k BY <2>12 DEF Segment, Chunk
  <2>15. i < h BY <1>1, <2>7, <2>13
  <2>16. log[i].key[1] = log[h].key[1] /\ log[i].key[2] = s BY <1>1, <2>5, <2>14
  <2>17. s <= k[2] BY <2>7, <2>14, <2>15, <2>16 DEF LogInv, StreamsOrdered
  <2> HIDE DEF s
  <2> QED BY <1>1, <1>2, <2>4, <2>17 DEF s
<1> QED BY <1>4

\* The next segment of a missing message is the one its assembly waits for, unless the
\* assembly has it already.
LEMMA NextAccepted ==
    ASSUME TypeOK, LogInv, ReadInv, AssemblyInv, LastChunkInv, NEW k \in Keys, NEW q \in Nat,
           Assembled(k, q), pos < Len(log), Incoming.kind = "chunk", Incoming.key = k,
           Incoming.seq = q
    PROVE  LET a == assembly[k[1]]
               e == Incoming
           IN \/ a.stream = k[2] /\ a.seq = q /\ e.seg < a.next
              \/ ~IgnoreChunk(e) /\ Accepts(AssemblyFor(e), e)
<1> DEFINE a == assembly[k[1]]
           e == Incoming
<1>1. /\ pos + 1 \in 1..Len(log) /\ e = log[pos + 1] /\ pos \in Nat /\ cursor \in Nat
      /\ e.seg \in 0..(Segments - 1) /\ Len(log) \in Nat
  BY IncomingParts
<1>2. k[1] \in Clients /\ k[2] # 0 /\ k = <<k[1], k[2]>> BY KeyParts
<1>3. a \in Assemblies /\ a.next \in Nat /\ a.seq \in Nat BY <1>2, SMTT(30) DEF TypeOK, Assemblies
<1>4. Numbered(pos + 1) BY <1>1 DEF Numbered
<1>5. lastChunk[k] < q
  <2>1. lastChunk[k] \in Nat BY DEF TypeOK
  <2>2. ASSUME lastChunk[k] >= q, lastChunk[k] > 0 PROVE FALSE
    <3>1. PICK i \in 1..cursor : Segment(i, k, lastChunk[k], Segments - 1) BY <2>2 DEF LastChunkInv
    <3>2. i \in 1..Len(log) /\ i < pos + 1 /\ i <= pos BY <1>1 DEF ReadInv
    <3>3. /\ Numbered(i) /\ log[i].key = log[pos + 1].key /\ log[i].seq = lastChunk[k]
      BY <1>1, <3>1 DEF Segment, Chunk, Numbered
    <3>4. log[i].seq <= log[pos + 1].seq BY <1>1, <1>4, <3>2, <3>3, SeqPositions
    <3>5. lastChunk[k] = q BY <1>1, <2>1, <2>2, <3>3, <3>4
    <3>6. pos < i BY <3>1, <3>2, <3>5, LastUnread
    <3> QED BY <1>1, <3>2, <3>6
  <2>3. q > 0
    <3>1. log[pos + 1].seq > 0 BY <1>1, <1>4 DEF LogInv, ClientAhead
    <3> QED BY <1>1, <3>1
  <2> QED BY <2>1, <2>2, <2>3
<1>6. \A p \in 1..pos : Chunk(p, k, q) => a.stream = k[2] /\ a.seq = q /\ log[p].seg < a.next
  BY DEF Assembled
<1>7. a.stream = k[2] => a.seq <= q BY DEF Assembled
\* An assembly of an earlier message would wait for a segment that was read.
<1>8. ASSUME a.stream = k[2], a.seq # q PROVE FALSE
  <2>1. a.seq < q BY <1>3, <1>7, <1>8
  <2>2. /\ a.next > 0
        /\ \A g \in 0..(a.next - 1) : \E i \in 1..Len(log) :
              Segment(i, <<k[1], a.stream>>, a.seq, g) /\ log[i].ok /\ Within(i)
        /\ \A i \in 1..Len(log) : Segment(i, <<k[1], a.stream>>, a.seq, a.next) => pos < i
    BY <1>2, <1>8 DEF AssemblyInv, AssemblyOK
  <2>3. <<k[1], a.stream>> = k BY <1>2, <1>8
  <2>4. 0 \in 0..(a.next - 1) BY <1>3, <2>2
  <2>5. PICK i \in 1..Len(log) : Segment(i, k, a.seq, 0) BY <2>2, <2>3, <2>4
  <2>6. log[i].kind = "chunk" /\ log[i].key = k /\ log[i].seq = a.seq BY <2>5 DEF Segment, Chunk
  <2>7. a.next \in 0..(Segments - 1) BY <1>3 DEF Assemblies
  <2>8. PICK h \in 1..(pos + 1) : Segment(h, k, a.seq, a.next)
    BY <1>1, <1>4, <2>1, <2>6, <2>7 DEF LogInv, SegmentsInOrder
  <2>9. log[h].seq = a.seq BY <2>8 DEF Segment, Chunk
  <2>10. h # pos + 1 BY <1>1, <1>3, <2>1, <2>9
  <2>11. h \in 1..Len(log) /\ ~(pos < h) BY <1>1, <2>10
  <2> QED BY <2>2, <2>3, <2>8, <2>11
<1>9. CASE e.seg = 0
  <2>1. CASE a.stream = k[2]
    <3>1. a.seq = q BY <1>8, <2>1
    <3>2. a.next > 0 BY <1>2, <2>1 DEF AssemblyInv, AssemblyOK
    <3> QED BY <1>3, <1>9, <2>1, <3>1, <3>2
  <2>2. CASE a.stream # k[2]
    <3>1. ~IgnoreChunk(e)
      <4>1. lastChunk[k] \in Nat BY DEF TypeOK
      <4> HIDE DEF e
      <4> QED BY <1>5, <2>2, <4>1 DEF IgnoreChunk, e
    <3>2. AssemblyFor(e) = [stream |-> k[2], seq |-> q, next |-> 0] BY <2>2 DEF AssemblyFor
    <3> QED BY <1>9, <3>1, <3>2 DEF Accepts
  <2> QED BY <2>1, <2>2
<1>10. CASE e.seg # 0
  <2>1. e.seg - 1 \in 0..e.seg BY <1>1, <1>10
  <2>2. PICK i \in 1..(pos + 1) : Segment(i, k, q, e.seg - 1)
    BY <1>1, <2>1 DEF LogInv, SegmentsInOrder
  <2>3. log[i].seg = e.seg - 1 /\ Chunk(i, k, q) BY <2>2 DEF Segment
  <2>4. i # pos + 1 BY <1>1, <2>3
  <2>5. i \in 1..pos BY <1>1, <2>4
  <2>6. a.stream = k[2] /\ a.seq = q /\ e.seg - 1 < a.next BY <1>6, <2>3, <2>5
  <2>7. CASE e.seg < a.next BY <2>6, <2>7
  <2>8. CASE a.next = e.seg
    <3>1. ~IgnoreChunk(e)
      <4>1. lastChunk[k] \in Nat BY DEF TypeOK
      <4>2. ~(e.seg < a.next) BY <1>1, <2>8
      <4>3. ~(q < q) /\ ~(lastChunk[k] >= q) BY <1>5, <4>1
      <4>4. e.key = k /\ e.seq = q OBVIOUS
      <4> HIDE DEF e
      <4> QED BY <2>6, <4>2, <4>3, <4>4 DEF IgnoreChunk
    <3>2. AssemblyFor(e) = a BY <2>6 DEF AssemblyFor
    <3> QED BY <2>6, <2>8, <3>1, <3>2 DEF Accepts
  <2> QED BY <1>1, <1>3, <2>6, <2>7, <2>8
<1> QED BY <1>9, <1>10

LEMMA SegmentAssembled ==
    ASSUME TypeOK, LogInv, ReadInv, AssemblyInv, LastChunkInv, NEW k \in Keys, NEW q \in Nat,
           Assembled(k, q), Alive(k, q), SegmentStep
    PROVE  Assembled(k, q)'
<1> DEFINE e == Incoming
           c == k[1]
           a == assembly[c]
           b == assembly'[c]
<1>1. /\ pos < Len(log) /\ ~Completes(e) /\ pos' = pos + 1 /\ assembly' = Observed(e)
      /\ log' = log
  BY DEF SegmentStep
<1>2. /\ pos + 1 \in 1..Len(log) /\ e = log[pos + 1] /\ e.key \in Keys /\ pos \in Nat
      /\ e.seq \in Nat /\ e.seg \in 0..(Segments - 1) /\ e.ok \in BOOLEAN
  BY <1>1, IncomingParts
<1>3. e.kind = "chunk" BY <1>1 DEF Completes
<1>4. c \in Clients /\ k[2] # 0 /\ k = <<k[1], k[2]>> BY KeyParts
<1>5. /\ a.stream = k[2] => a.seq <= q
      /\ \A p \in 1..pos : Chunk(p, k, q) => a.stream = k[2] /\ a.seq = q /\ log[p].seg < a.next
  BY DEF Assembled
<1>6. a.next \in Nat /\ a.seq \in Nat BY <1>4, SMTT(30) DEF TypeOK, Assemblies
<1> SUFFICES /\ b.stream = k[2] => b.seq <= q
             /\ \A p \in 1..(pos + 1) : Chunk(p, k, q) =>
                   b.stream = k[2] /\ b.seq = q /\ log[p].seg < b.next
  BY <1>1 DEF Assembled, Chunk
<1>7. \A p \in 1..(pos + 1) : p \in 1..pos \/ p = pos + 1 BY <1>2
<1>8. /\ e.key[1] # c => b = a
      /\ \/ b = a
         \/ b = NoAssembly
         \/ b = [stream |-> e.key[2], seq |-> e.seq, next |-> e.seg + 1]
  BY <1>1, <1>4, ObservedFacts
<1>9. CASE e.key # k
  <2>1. ~Chunk(pos + 1, k, q) BY <1>2, <1>9 DEF Chunk
  <2>2. CASE b = a BY <1>5, <1>7, <2>1, <2>2
  <2>3. CASE b # a
    <3>1. e.key[1] = c /\ e.key[2] # k[2] BY <1>2, <1>4, <1>8, <1>9, <2>3, KeyParts
    <3>2. \A p \in 1..pos : ~Chunk(p, k, q) BY <1>1, <1>3, <1>9, <3>1, OtherStream
    <3>3. b.stream # k[2] BY <1>4, <1>8, <2>3, <3>1, NoAssemblyFacts
    <3> QED BY <1>7, <2>1, <3>2, <3>3
  <2> QED BY <2>2, <2>3
<1>10. CASE e.key = k /\ e.seq < q
  <2>1. \A p \in 1..(pos + 1) : ~Chunk(p, k, q) BY <1>1, <1>3, <1>10, AheadUnread
  <2>2. b.stream = k[2] => b.seq <= q
    <3>1. CASE b = a BY <1>5, <3>1
    <3>2. CASE b = NoAssembly BY <1>4, <3>2, NoAssemblyFacts
    <3>3. CASE b = [stream |-> e.key[2], seq |-> e.seq, next |-> e.seg + 1]
      <4>1. b.seq = e.seq BY <3>3
      <4> QED BY <1>2, <1>10, <4>1
    <3> QED BY <1>8, <3>1, <3>2, <3>3
  <2> QED BY <2>1, <2>2
<1>11. CASE e.key = k /\ e.seq = q
  <2>1. Chunk(pos + 1, k, q) BY <1>2, <1>3, <1>11 DEF Chunk
  <2>2. e.ok BY <1>2, <2>1 DEF Alive
  <2>3. \/ a.stream = k[2] /\ a.seq = q /\ e.seg < a.next
        \/ ~IgnoreChunk(e) /\ Accepts(AssemblyFor(e), e)
    BY <1>1, <1>3, <1>11, NextAccepted
  <2>4. CASE a.stream = k[2] /\ a.seq = q /\ e.seg < a.next
    <3>1. IgnoreChunk(e) BY <1>11, <2>4 DEF IgnoreChunk
    <3>2. b = a BY <1>1, <1>3, <1>11, <3>1, ObservedFacts
    <3> QED BY <1>2, <1>5, <1>6, <1>7, <2>4, <3>2
  <2>5. CASE ~IgnoreChunk(e) /\ Accepts(AssemblyFor(e), e)
    <3>1. b = [stream |-> k[2], seq |-> q, next |-> e.seg + 1]
      BY <1>1, <1>3, <1>11, <2>2, <2>5, ObservedFacts
    <3>2. b.stream = k[2] /\ b.seq = q /\ b.next = e.seg + 1 BY <3>1
    <3>3. ASSUME NEW p \in 1..pos, Chunk(p, k, q) PROVE log[p].seg < e.seg + 1
      <4>1. p \in 1..Len(log) /\ p < pos + 1 BY <1>1, <1>2
      <4>2. /\ log[p].key = log[pos + 1].key /\ log[p].seq = log[pos + 1].seq
            /\ Numbered(p) /\ Numbered(pos + 1)
        BY <1>2, <1>3, <1>11, <3>3 DEF Chunk, Numbered
      <4>3. log[p].seg < log[pos + 1].seg BY <1>2, <4>1, <4>2, SeqPositions
      <4>4. log[p].seg \in 0..(Segments - 1) BY <4>1, EntryParts
      <4> QED BY <1>2, <4>3, <4>4, SMTT(30)
    <3>4. log[pos + 1].seg < e.seg + 1 BY <1>2
    <3> HIDE DEF b
    <3> QED BY <1>2, <1>7, <3>2, <3>3, <3>4
  <2> QED BY <2>3, <2>4, <2>5
<1>12. e.key = k => e.seq <= q BY <1>1, <1>3, NotBehind
<1> QED BY <1>2, <1>9, <1>10, <1>11, <1>12

\* The connection of a key that misses a message missed it before, or has just got its
\* first one.
LEMMA MissingBefore ==
    ASSUME TypeOK, TypeOK', TrackedInv, Step, NEW k \in Keys, NEW q \in Nat,
           Tracked(k)', After(clients[k].conn, q)', ~Has(clients[k].conn, q)'
    PROVE  \/ /\ Tracked(k) /\ clients'[k].conn = clients[k].conn
              /\ After(clients[k].conn, q) /\ ~Has(clients[k].conn, q)
           \/ /\ DeliverStep \/ AgainStep
              /\ Incoming.key = k /\ Incoming.kind \in {"initialize", "message", "chunk"}
              /\ Incoming.seq < q
<1> DEFINE n == clients[k].conn
           new == clients'[k].conn
<1>0. /\ conns'[new].got # <<>> /\ conns'[new].got[1] < q
      /\ ~\E i \in 1..Len(conns'[new].got) : conns'[new].got[i] = q
  BY DEF After, Has
<1>1. ASSUME Tracked(k), new = n, conns'[n].got = conns[n].got
      PROVE  Tracked(k) /\ new = n /\ After(n, q) /\ ~Has(n, q)
  BY <1>0, <1>1 DEF After, Has
<1>2. Tracked(k) => n \in 1..Len(conns) /\ conns[n].key = k BY DEF TrackedInv, Tracked
<1>3. CASE Quiet
  <2>1. clients'[k] = clients[k] /\ Tracked(k) BY <1>3 DEF Quiet, Tracked
  <2> QED BY <1>1, <1>2, <1>3, <2>1 DEF Quiet, Kept
<1>4. CASE UNCHANGED <<clients, conns>>
  <2>1. Tracked(k) BY <1>4 DEF Tracked
  <2> QED BY <1>1, <1>4, <2>1
<1>5. CASE DeliverStep \/ AgainStep
  <2>0. pos < Len(log) /\ (Effect(Incoming) \/ FailEffect(Incoming))
    BY <1>5 DEF DeliverStep, AgainStep
  <2>1. Incoming.key \in Keys /\ Incoming.seq \in Nat BY <2>0, IncomingParts
  <2> DEFINE l == Incoming.key
  <2>2. Quiet \/ UNCHANGED <<clients, conns>> \/ Gives(Incoming)
    BY <2>0 DEF Effect, FailEffect, Gives, Forwards
  <2>3. ASSUME Incoming.kind = "initialize", NEW g, g \in {<<>>, <<Incoming.seq>>}, Opened(l, g)
        PROVE  \/ Tracked(k) /\ new = n /\ After(n, q) /\ ~Has(n, q)
               \/ Incoming.key = k /\ Incoming.seq < q
    <3>1. CASE k # l
      <4>1. clients'[k] = clients[k] BY <2>3, <3>1 DEF Opened
      <4>2. Tracked(k) BY <4>1 DEF Tracked
      <4> QED BY <1>1, <1>2, <2>3, <4>1, <4>2 DEF Opened, Kept
    <3>2. CASE k = l
      <4>1. new = Len(conns) + 1 /\ conns'[Len(conns) + 1].got = g BY <2>3, <3>2 DEF Opened, Tracked
      <4>2. conns'[new].got = g BY <4>1
      <4>3. g = <<Incoming.seq>> BY <1>0, <2>3, <4>2
      <4>4. g[1] = Incoming.seq BY <4>3
      <4>5. Incoming.seq < q BY <1>0, <4>2, <4>4
      <4> QED BY <3>2, <4>5
    <3> QED BY <3>1, <3>2
  <2>4. ASSUME Incoming.kind \in {"message", "chunk"}, Forwarded(l, Incoming.seq)
        PROVE  \/ Tracked(k) /\ new = n /\ After(n, q) /\ ~Has(n, q)
               \/ Incoming.key = k /\ Incoming.seq < q
    <3>1. /\ Tracked(l) /\ Tracked(k) /\ new = n
          /\ \A m \in 1..Len(conns) :
                conns'[m].got = IF m = clients[l].conn THEN Append(conns[m].got, Incoming.seq)
                                ELSE conns[m].got
      BY <2>4 DEF Forwarded
    <3>2. CASE k # l
      <4>1. conns[clients[l].conn].key = l BY <2>1, <3>1 DEF TrackedInv, Tracked
      <4>2. n # clients[l].conn BY <1>2, <3>1, <3>2, <4>1
      <4> QED BY <1>1, <1>2, <3>1, <4>2
    <3>3. CASE k = l
      <4>1. conns'[n].got = Append(conns[n].got, Incoming.seq) BY <1>2, <3>1, <3>3
      <4>2. conns[n].got \in Seq(Nat) BY <1>2, <3>1, ConnParts
      <4>3. /\ Len(conns[n].got) \in Nat /\ Len(conns'[n].got) = Len(conns[n].got) + 1
            /\ \A j \in 1..Len(conns[n].got) : conns'[n].got[j] = conns[n].got[j]
            /\ conns'[n].got[Len(conns[n].got) + 1] = Incoming.seq
        <5> DEFINE old == conns[n].got
                   f == Incoming.seq
        <5>1. f \in Nat /\ old \in Seq(Nat) /\ conns'[n].got = Append(old, f) BY <2>1, <4>1, <4>2
        <5> HIDE DEF old, f
        <5>2. /\ Len(old) \in Nat /\ Len(Append(old, f)) = Len(old) + 1
              /\ \A j \in 1..Len(old) : Append(old, f)[j] = old[j]
              /\ Append(old, f)[Len(old) + 1] = f
          BY ONLY <5>1, Appended
        <5> QED BY ONLY <5>1, <5>2 DEF old, f
      <4>4. CASE conns[n].got = <<>>
        <5>1. Len(conns[n].got) = 0 BY <4>4
        <5>2. conns'[n].got[1] = Incoming.seq BY <4>3, <5>1
        <5> QED BY <1>0, <3>1, <3>3, <5>2
      <4>5. CASE conns[n].got # <<>>
        <5>1. 1 \in 1..Len(conns[n].got) BY <4>2, <4>3, <4>5, EmptySeq
        <5>2. After(n, q) BY <1>0, <3>1, <4>3, <4>5, <5>1 DEF After
        <5>3. \A j \in 1..Len(conns[n].got) : j \in 1..Len(conns'[n].got) BY <4>3
        <5>4. ~Has(n, q) BY <1>0, <3>1, <4>3, <5>3 DEF Has
        <5> QED BY <3>1, <5>2, <5>4
      <4> QED BY <4>4, <4>5
    <3> QED BY <3>2, <3>3
  <2> HIDE DEF n, new
  <2>5. CASE Gives(Incoming)
    <3>1. CASE /\ Incoming.kind = "initialize"
               /\ Opened(l, <<>>) \/ Opened(l, <<Incoming.seq>>)
      BY <1>5, <2>3, <3>1 DEF n, new
    <3>2. CASE Incoming.kind \in {"message", "chunk"} /\ Forwarded(l, Incoming.seq)
      BY <1>5, <2>4, <3>2 DEF n, new
    <3> QED BY <2>5, <3>1, <3>2 DEF Gives
  <2> QED BY <1>3, <1>4, <2>2, <2>5
<1>6. CASE Posted \/ IdleStep \/ SegmentStep
  <2>1. UNCHANGED <<clients, conns>> BY <1>6 DEF Posted, PostStep, IdleStep, SegmentStep
  <2> QED BY <1>4, <2>1
<1>7. CASE \E l \in Keys : CloseStep(l)
  <2>1. Quiet BY <1>7 DEF CloseStep
  <2> QED BY <1>3, <2>1
<1> QED BY <1>5, <1>6, <1>7 DEF Step

\* What a step that forwards leaves of the assemblies.
LEMMA DeliveredAssembly ==
    ASSUME TypeOK, ReadInv, DeliverStep \/ AgainStep, NEW c \in Clients
    PROVE  /\ pos < Len(log) /\ Completes(Incoming) /\ log' = log /\ pos' <= pos + 1 /\ pos' \in Nat
           /\ client' = client
           /\ \/ assembly'[c] = assembly[c]
              \/ /\ assembly'[c] = NoAssembly /\ c = Incoming.key[1]
                 /\ \/ Incoming.kind = "chunk"
                    \/ /\ Incoming.kind = "closed" /\ clients'[Incoming.key] = NoClient
                       /\ assembly[c].stream = Incoming.key[2]
           /\ Incoming.kind = "chunk" /\ c = Incoming.key[1] => assembly'[c] = NoAssembly
<1>1. /\ pos < Len(log) /\ Completes(Incoming) /\ log' = log /\ client' = client
      /\ pos' \in {pos + 1, cursor}
  BY DEF DeliverStep, AgainStep
<1>2. pos' <= pos + 1 /\ pos' \in Nat BY <1>1 DEF ReadInv, TypeOK
<1>3. CASE assembly' = Observed(Incoming) BY <1>1, <1>2, <1>3, CompletedFacts
<1>4. CASE DeliverStep /\ Incoming.kind = "closed"
  <2>1. Forget(Incoming.key) /\ clients'[Incoming.key] = NoClient
    BY <1>4 DEF DeliverStep, Effect, Skips, Forwards
  <2>2. Incoming.key \in Keys BY <1>1, IncomingParts
  <2>3. assembly'[c] = IF c = Incoming.key[1] /\ assembly[c].stream = Incoming.key[2]
                       THEN NoAssembly ELSE assembly[c]
    BY <2>1, <2>2, ForgetFacts
  <2> QED BY <1>1, <1>2, <1>4, <2>1, <2>3
<1> QED BY <1>3, <1>4 DEF DeliverStep, AgainStep

\* The first message of a connection: what is ahead of it was not read.
LEMMA FreshAssembled ==
    ASSUME TypeOK, LogInv, ReadInv, AssemblyInv, DeliverStep \/ AgainStep, NEW k \in Keys,
           NEW q \in Nat, Incoming.key = k, Incoming.seq < q,
           Incoming.kind \in {"initialize", "message", "chunk"}
    PROVE  Assembled(k, q)'
<1>1. k[1] \in Clients /\ k[2] # 0 BY KeyParts
<1> DEFINE c == k[1]
<1>2. /\ pos < Len(log) /\ log' = log /\ pos' <= pos + 1 /\ pos' \in Nat
      /\ assembly'[c] \in {assembly[c], NoAssembly}
      /\ Incoming.kind = "chunk" => assembly'[c] = NoAssembly
  BY <1>1, DeliveredAssembly
<1>3. pos \in Nat /\ Incoming.seq \in Nat BY <1>2, IncomingParts
<1>4. \A p \in 1..pos' : ~Chunk(p, k, q) BY <1>2, <1>3, AheadUnread
<1>5. assembly'[c].stream = k[2] => assembly'[c].seq <= q
  <2>1. CASE assembly'[c] = NoAssembly BY <1>1, <2>1, NoAssemblyFacts
  <2>2. CASE assembly'[c] # NoAssembly
    <3>1. assembly'[c] = assembly[c] /\ Incoming.kind \in {"initialize", "message"} BY <1>2, <2>2
    <3>2. assembly[c].stream = k[2] => assembly[c].seq <= Incoming.seq
      BY <1>2, <3>1, AssemblyBefore
    <3>3. assembly[c].seq \in Nat BY <1>1 DEF TypeOK, Assemblies
    <3> QED BY <1>3, <3>1, <3>2, <3>3
  <2> QED BY <2>1, <2>2
<1> QED BY <1>2, <1>4, <1>5 DEF Assembled, Chunk

\* A message with a connection is not forwarded again, and when it is not forwarded the
\* connection has it.
LEMMA DeliveredHas ==
    ASSUME TypeOK, LogInv, AssemblyInv, TrackedInv, GotOrdered, NoGap, NEW k \in Keys, pos < Len(log),
           Completes(Incoming), Incoming.key = k, Incoming.kind \in {"message", "chunk"},
           Tracked(k), ~Forwards(Incoming), After(clients[k].conn, Incoming.seq),
           <<k, Incoming.seq>> \notin cut \/ Incoming.kind = "message"
    PROVE  Has(clients[k].conn, Incoming.seq)
<1> DEFINE n == clients[k].conn
           got == conns[n].got
           q == Incoming.seq
<1>1. /\ n \in 1..Len(conns) /\ conns[n].key = k /\ clients[k].last = LastOf(got)
  BY DEF TrackedInv, Tracked
<1>2. clients[k].last >= q
  <2>1. clients[k].last \in Nat BY DEF TypeOK
  <2>2. q \in Nat BY IncomingParts
  <2>3. ~(clients[k].last < q) BY DEF Forwards
  <2> QED BY <2>1, <2>2, <2>3
<1>3. got # <<>> /\ got[1] < q BY DEF After
<1>4. got \in Seq(Nat) /\ Len(got) \in Nat BY <1>1, ConnParts
<1>5. Len(got) \in 1..Len(got) BY <1>3, <1>4, EmptySeq
<1>6. got[Len(got)] >= q /\ got[Len(got)] \in Nat BY <1>1, <1>2, <1>3, <1>5, ConnParts DEF LastOf
<1>7. CASE got[Len(got)] = q BY <1>5, <1>7 DEF Has
<1>8. CASE got[Len(got)] # q
  <2>0. q \in Nat BY IncomingParts
  <2>1. q < got[Len(got)] BY <1>6, <1>8, <2>0
  <2>2. /\ pos + 1 \in 1..Len(log) /\ Incoming = log[pos + 1] BY IncomingParts
  <2>3. Numbered(pos + 1) BY <2>2 DEF Numbered
  <2>4. ~IsInitialize(log[pos + 1].key, log[pos + 1].seq) BY <2>2, <2>3, InitializeAt
  <2>5. q \notin Initializes(k) BY <2>2, <2>4 DEF Initializes, IsInitialize
  <2>6. q \in Sent(k) BY <2>5, CompletedSent
  <2>7. q \notin CutChunks(k)
    <3>1. CASE Incoming.kind = "message"
      <4>1. ASSUME NEW i \in 1..Len(log), log[i].key = k, log[i].seq = q, log[i].kind = "chunk"
            PROVE  FALSE
        <5>1. Numbered(i) /\ log[i].key = log[pos + 1].key /\ log[i].seq = log[pos + 1].seq
          BY <2>2, <4>1 DEF Numbered
        <5>2. i # pos + 1 BY <2>2, <3>1, <4>1
        <5>3. i < pos + 1 \/ pos + 1 < i BY <2>2, <5>2
        <5> QED BY <2>2, <2>3, <3>1, <5>1, <5>3, SeqPositions
      <4> QED BY <4>1 DEF CutChunks
    <3>2. CASE <<k, q>> \notin cut BY <3>2 DEF CutChunks
    <3> QED BY <3>1, <3>2
  <2>8. q \in {got[i] : i \in 1..Len(got)}
    BY <1>1, <1>3, <1>5, <2>1, <2>6, <2>7 DEF NoGap
  <2> QED BY <2>8 DEF Has
<1> QED BY <1>7, <1>8

LEMMA ForwardedHas ==
    ASSUME TypeOK, TrackedInv, NEW k \in Keys, NEW q \in Nat, Forwarded(k, q)
    PROVE  Has(clients[k].conn, q)'
<1> DEFINE n == clients[k].conn
<1>1. Tracked(k) /\ clients'[k].conn = n BY DEF Forwarded
<1>2. n \in 1..Len(conns) BY <1>1 DEF TrackedInv, Tracked
<1>3. conns'[n].got = Append(conns[n].got, q) BY <1>2 DEF Forwarded
<1>4. conns[n].got \in Seq(Nat) BY <1>2, ConnParts
<1>5. /\ Len(conns[n].got) \in Nat /\ Len(conns'[n].got) = Len(conns[n].got) + 1
      /\ conns'[n].got[Len(conns[n].got) + 1] = q
  <2> DEFINE old == conns[n].got
  <2>1. old \in Seq(Nat) /\ conns'[n].got = Append(old, q) BY <1>3, <1>4
  <2> HIDE DEF old
  <2>2. Len(old) \in Nat /\ Len(Append(old, q)) = Len(old) + 1 /\ Append(old, q)[Len(old) + 1] = q
    BY ONLY <2>1, q \in Nat, Appended
  <2> QED BY ONLY <2>1, <2>2 DEF old
<1>6. Len(conns[n].got) + 1 \in 1..Len(conns'[n].got) BY <1>5
<1> QED BY <1>1, <1>5, <1>6 DEF Has

LEMMA DeliveredAssembled ==
    ASSUME TypeOK, LogInv, ReadInv, AssemblyInv, TrackedInv, GotOrdered, NoGap,
           DeliverStep \/ AgainStep, NEW k \in Keys, NEW q \in Nat, Tracked(k), Tracked(k)',
           Assembled(k, q), Alive(k, q), <<k, q>> \notin cut',
           After(clients[k].conn, q), ~Has(clients[k].conn, q), ~Has(clients[k].conn, q)'
    PROVE  Assembled(k, q)'
<1> DEFINE e == Incoming
           c == k[1]
           a == assembly[c]
           b == assembly'[c]
<1>1. c \in Clients /\ k[2] # 0 /\ k = <<k[1], k[2]>> BY KeyParts
<1>2. /\ pos < Len(log) /\ Completes(e) /\ log' = log /\ pos' <= pos + 1 /\ pos' \in Nat
      /\ \/ b = a
         \/ /\ b = NoAssembly /\ c = e.key[1]
            /\ \/ e.kind = "chunk"
               \/ e.kind = "closed" /\ clients'[e.key] = NoClient /\ a.stream = e.key[2]
      /\ e.kind = "chunk" /\ c = e.key[1] => b = NoAssembly
  BY <1>1, DeliveredAssembly
<1>3. e = log[pos + 1] /\ pos \in Nat /\ e.key \in Keys /\ e.seq \in Nat BY <1>2, IncomingParts
<1>4. /\ a.stream = k[2] => a.seq <= q
      /\ \A p \in 1..pos : Chunk(p, k, q) => a.stream = k[2] /\ a.seq = q /\ log[p].seg < a.next
  BY DEF Assembled
<1>5. \A p \in 1..pos' : p \in 1..pos \/ p = pos + 1 BY <1>2, <1>3
<1> SUFFICES /\ b.stream = k[2] => b.seq <= q
             /\ \A p \in 1..pos' : Chunk(p, k, q) =>
                   b.stream = k[2] /\ b.seq = q /\ log[p].seg < b.next
  BY <1>2 DEF Assembled, Chunk
<1>6. ASSUME \A p \in 1..pos : ~Chunk(p, k, q), ~Chunk(pos + 1, k, q), b.stream # k[2]
      PROVE  /\ b.stream = k[2] => b.seq <= q
             /\ \A p \in 1..pos' : Chunk(p, k, q) =>
                   b.stream = k[2] /\ b.seq = q /\ log[p].seg < b.next
  BY <1>5, <1>6
<1>7. ASSUME b = a, ~Chunk(pos + 1, k, q)
      PROVE  /\ b.stream = k[2] => b.seq <= q
             /\ \A p \in 1..pos' : Chunk(p, k, q) =>
                   b.stream = k[2] /\ b.seq = q /\ log[p].seg < b.next
  BY <1>4, <1>5, <1>7
<1>8. CASE e.kind # "chunk"
  <2>1. ~Chunk(pos + 1, k, q) BY <1>3, <1>8 DEF Chunk
  <2>2. CASE b = a BY <1>7, <2>1, <2>2
  <2>3. CASE b # a
    <3>1. b = NoAssembly /\ c = e.key[1] /\ clients'[e.key] = NoClient /\ a.stream = e.key[2]
      BY <1>2, <1>8, <2>3
    <3>2. k # e.key BY <3>1 DEF Tracked
    <3>3. a.stream # k[2] BY <1>1, <1>3, <3>1, <3>2, KeyParts
    <3>4. \A p \in 1..pos : ~Chunk(p, k, q) BY <1>4, <3>3
    <3>5. b.stream # k[2] BY <1>1, <3>1, NoAssemblyFacts
    <3> QED BY <1>6, <2>1, <3>4, <3>5
  <2> QED BY <2>2, <2>3
<1>9. CASE e.kind = "chunk" /\ e.key # k
  <2>1. ~Chunk(pos + 1, k, q) BY <1>3, <1>9 DEF Chunk
  <2>2. CASE e.key[1] # c BY <1>2, <1>7, <2>1, <2>2
  <2>3. CASE e.key[1] = c
    <3>1. \A p \in 1..pos : ~Chunk(p, k, q) BY <1>2, <1>9, <2>3, OtherStream
    <3>2. b.stream # k[2] BY <1>1, <1>2, <1>9, <2>3, NoAssemblyFacts
    <3> QED BY <1>6, <2>1, <3>1, <3>2
  <2> QED BY <2>2, <2>3
<1>10. CASE e.kind = "chunk" /\ e.key = k
  <2>1. e.seq <= q BY <1>2, <1>10, NotBehind
  <2>2. b.stream # k[2] BY <1>1, <1>2, <1>10, NoAssemblyFacts
  <2>3. CASE e.seq < q
    <3>1. \A p \in 1..(pos + 1) : ~Chunk(p, k, q) BY <1>2, <1>10, <2>3, AheadUnread
    <3>2. \A p \in 1..pos : p \in 1..(pos + 1) BY <1>3
    <3>3. pos + 1 \in 1..(pos + 1) BY <1>3
    <3> QED BY <1>6, <2>2, <3>1, <3>2, <3>3
  <2>4. CASE e.seq = q
    <3>0. cut \subseteq cut' BY DEF DeliverStep, AgainStep
    <3>1. ASSUME Effect(e) PROVE FALSE
      <4>1. CASE Forwards(e)
        <5>1. Forwarded(k, q) BY <1>10, <2>4, <3>1, <4>1 DEF Effect, Skips
        <5> QED BY <5>1, ForwardedHas
      <4>2. CASE ~Forwards(e)
        <5>1. Has(clients[k].conn, e.seq) BY <1>2, <1>10, <2>4, <3>0, <4>2, DeliveredHas
        <5> QED BY <2>4, <5>1
      <4> QED BY <4>1, <4>2
    <3>2. <<e.key, e.seq>> \notin cut' BY <1>10, <2>4
    <3> QED BY <3>1, <3>2 DEF DeliverStep, AgainStep
  <2> QED BY <1>3, <2>1, <2>3, <2>4
<1> QED BY <1>8, <1>9, <1>10

LEMMA PostAssembled ==
    ASSUME TypeOK, TypeOK', LogInv, LogInv', AssemblyInv, NEW k \in Keys, NEW q \in Nat, Posted,
           Alive(k, q)', Alive(k, q) => Assembled(k, q)
    PROVE  Assembled(k, q)'
<1>1. PICK d \in Clients, e \in Entries, now \in ClientStates : PostStep(d, e, now)
  BY DEF Posted
<1> DEFINE n == Len(log)
           c == k[1]
           a == assembly[c]
<1>2. /\ n \in Nat /\ Len(log') = n + 1 /\ log'[n + 1] = e
      /\ \A i \in 1..n : log'[i] = log[i]
      /\ \A i \in 1..Len(log') : i \in 1..n \/ i = n + 1
      /\ client'[d] = now /\ \A x \in Clients \ {d} : client'[x] = client[x]
      /\ e.key[1] = d /\ e.key[2] = now.stream
  BY <1>1, PostFacts, SMTT(30)
<1>3. assembly' = assembly /\ pos' = pos /\ pos = n BY <1>1 DEF PostStep
<1>4. /\ now.stream \in {client[d].stream, client[d].stream + 1}
      /\ now.stream # client[d].stream => e.kind = "initialize"
  BY <1>1, SendFacts
<1>5. c \in Clients /\ k[2] \in 1..MaxStreams /\ k[2] # 0 /\ k = <<k[1], k[2]>> BY KeyParts
<1>6. /\ \E i \in 1..Len(log') : log'[i].kind = "chunk" /\ log'[i].key = k /\ log'[i].seq = q
      /\ \A i \in 1..Len(log') :
            log'[i].kind = "chunk" /\ log'[i].key = k /\ log'[i].seq = q => log'[i].ok
      /\ \/ client'[c].stream = k[2]
         \/ \E i \in 1..Len(log') : /\ log'[i].kind = "chunk" /\ log'[i].key = k
                                    /\ log'[i].seq = q /\ log'[i].seg = Segments - 1
  BY DEF Alive, Segment, Chunk
<1>7. \A i \in 1..n : i \in 1..Len(log') BY <1>2
<1>8. CASE \E i \in 1..n : Chunk(i, k, q)
  <2>1. PICK i \in 1..n : Chunk(i, k, q) BY <1>8
  <2>2. \A j \in 1..n : Chunk(j, k, q) => log[j].ok BY <1>2, <1>6, <1>7 DEF Chunk
  <2>3. client[c].stream \in 0..MaxStreams BY <1>5, ClientNow DEF LogInv
  <2>4. k[2] <= client[c].stream BY <2>1 DEF Chunk, LogInv, ClientAhead
  <2>5. client'[c].stream = k[2] => client[c].stream = k[2] BY <1>2, <1>4, <1>5, <2>3, <2>4, SMTT(30)
  <2>6. ASSUME NEW j \in 1..Len(log'), log'[j].kind = "chunk", log'[j].key = k, log'[j].seq = q,
               log'[j].seg = Segments - 1
        PROVE  client[c].stream = k[2] \/ \E h \in 1..n : Segment(h, k, q, Segments - 1)
    <3>1. CASE j \in 1..n BY <1>2, <2>6, <3>1 DEF Segment, Chunk
    <3>2. CASE j = n + 1
      <4>1. e.kind = "chunk" /\ e.key = k BY <1>2, <2>6, <3>2
      <4> QED BY <1>2, <1>4, <4>1
    <3> QED BY <1>2, <3>1, <3>2
  <2>7. Alive(k, q) BY <1>6, <2>1, <2>2, <2>5, <2>6 DEF Alive
  <2>8. Assembled(k, q) BY <2>7
  <2>9. \A p \in 1..pos : log'[p] = log[p] BY <1>2, <1>3
  <2> QED BY <1>3, <2>8, <2>9 DEF Assembled, Chunk
<1>9. CASE \A i \in 1..n : ~Chunk(i, k, q)
  <2>1. e.kind = "chunk" /\ e.key = k /\ e.seq = q BY <1>2, <1>6, <1>9 DEF Chunk
  <2>2. \A p \in 1..pos' : ~(log'[p].kind = "chunk" /\ log'[p].key = k /\ log'[p].seq = q)
    BY <1>2, <1>3, <1>9 DEF Chunk
  <2>3. ASSUME a.stream = k[2] PROVE a.seq <= q
    <3>1. <<c, a.stream>> = k BY <1>5, <2>3
    <3>2. a.next > 0 /\ \A g \in 0..(a.next - 1) : \E i \in 1..Len(log) :
             Segment(i, k, a.seq, g) /\ log[i].ok /\ Within(i)
      BY <1>5, <2>3, <3>1 DEF AssemblyInv, AssemblyOK
    <3>3. a.next \in Nat /\ a.seq \in Nat
      <4>1. assembly \in [Clients -> Assemblies] BY DEF TypeOK
      <4>2. a \in Assemblies BY <1>5, <4>1
      <4> HIDE DEF a
      <4> QED BY <4>2 DEF Assemblies
    <3>4. 0 \in 0..(a.next - 1) BY <3>2, <3>3
    <3>5. PICK i \in 1..n : Segment(i, k, a.seq, 0) BY <3>2, <3>4
    <3>6. log[i].kind = "chunk" /\ log[i].key = k /\ log[i].seq = a.seq BY <3>5 DEF Segment, Chunk
    <3>7. i \in 1..Len(log') /\ n + 1 \in 1..Len(log') /\ i < n + 1 /\ log'[i] = log[i] BY <1>2
    <3>8. log'[i].seq < log'[n + 1].seq \/ log'[i].seq = log'[n + 1].seq
      BY <1>2, <2>1, <3>6, <3>7, SMTT(30) DEF LogInv, SeqOrdered, Numbered
    <3> QED BY <1>2, <2>1, <3>3, <3>6, <3>7, <3>8
  <2> QED BY <1>3, <2>2, <2>3 DEF Assembled, Chunk
<1> QED BY <1>8, <1>9

LEMMA AssembledStep ==
    ASSUME TypeOK, TypeOK', LogInv, LogInv', ReadInv, AssemblyInv, LastChunkInv, TrackedInv,
           GotOrdered, NoGap, ChunksAssembled, Step
    PROVE  ChunksAssembled'
<1> SUFFICES ASSUME NEW k \in Keys, NEW q \in Nat, Tracked(k)', Alive(k, q)', <<k, q>> \notin cut',
                    After(clients[k].conn, q)', ~Has(clients[k].conn, q)'
             PROVE  Assembled(k, q)'
  BY DEF ChunksAssembled
<1>1. CASE /\ DeliverStep \/ AgainStep
           /\ Incoming.key = k /\ Incoming.kind \in {"initialize", "message", "chunk"}
           /\ Incoming.seq < q
  BY <1>1, FreshAssembled
<1>2. CASE /\ Tracked(k) /\ clients'[k].conn = clients[k].conn
           /\ After(clients[k].conn, q) /\ ~Has(clients[k].conn, q)
  <2>1. cut \subseteq cut'
    BY DEF Step, Posted, PostStep, IdleStep, CloseStep, SegmentStep, DeliverStep, AgainStep
  <2>2. Alive(k, q) => Assembled(k, q) BY <1>2, <2>1 DEF ChunksAssembled
  <2>3. CASE Posted BY <2>2, <2>3, PostAssembled
  <2>4. CASE ~Posted
    <3>1. log' = log /\ client' = client
      BY <2>4 DEF Step, IdleStep, CloseStep, SegmentStep, DeliverStep, AgainStep
    <3>2. Alive(k, q) BY <3>1 DEF Alive, Chunk, Segment
    <3>3. Assembled(k, q) BY <2>2, <3>2
    <3>4. CASE IdleStep
      <4>1. assembly' = assembly /\ pos' \in {pos, cursor} BY <3>4 DEF IdleStep
      <4>2. \A p \in 1..pos' : p \in 1..pos BY <4>1, SMTT(30) DEF TypeOK, ReadInv
      <4> QED BY <3>1, <3>3, <4>1, <4>2 DEF Assembled, Chunk
    <3>5. CASE \E l \in Keys : CloseStep(l)
      <4>1. PICK l \in Keys : CloseStep(l) BY <3>5
      <4>2. k # l /\ pos' = pos BY <4>1 DEF CloseStep, Tracked
      <4>3. k[1] \in Clients /\ k[2] # 0 /\ (k[1] # l[1] \/ k[2] # l[2]) BY <4>2, KeyParts
      <4>4. assembly'[k[1]] = IF k[1] = l[1] /\ assembly[k[1]].stream = l[2]
                              THEN NoAssembly ELSE assembly[k[1]]
        BY <4>1, <4>3, ForgetFacts DEF CloseStep
      <4>5. CASE assembly'[k[1]] = assembly[k[1]]
        BY <3>1, <3>3, <4>2, <4>5 DEF Assembled, Chunk
      <4>6. CASE assembly'[k[1]] = NoAssembly /\ assembly[k[1]].stream # k[2]
        <5>1. \A p \in 1..pos : ~Chunk(p, k, q) BY <3>3, <4>6 DEF Assembled
        <5>2. assembly'[k[1]].stream # k[2] BY <4>3, <4>6, NoAssemblyFacts
        <5> QED BY <3>1, <4>2, <5>1, <5>2 DEF Assembled, Chunk
      <4> QED BY <4>3, <4>4, <4>5, <4>6
    <3>6. CASE SegmentStep BY <3>2, <3>3, <3>6, SegmentAssembled
    <3>7. CASE DeliverStep \/ AgainStep BY <1>2, <3>2, <3>3, <3>7, DeliveredAssembled
    <3> QED BY <2>4, <3>4, <3>5, <3>6, <3>7 DEF Step
  <2> QED BY <2>3, <2>4
<1> QED BY <1>1, <1>2, MissingBefore

LEMMA ForwardedStep ==
    ASSUME TypeOK, TypeOK', LogInv, LogInv', ReadInv, AssemblyInv, TrackedInv,
           GotOrdered, NoGap, MessagesForwarded, Grows, Step
    PROVE  MessagesForwarded'
<1> SUFFICES ASSUME NEW k \in Keys, Tracked(k)', NEW p \in 1..cursor', NEW q \in {log'[p].seq},
                    log'[p].kind = "message", log'[p].key = k,
                    After(clients[k].conn, q)', ~Has(clients[k].conn, q)'
             PROVE  FALSE
  BY DEF MessagesForwarded
<1>0. cursor \in Nat /\ pos \in Nat /\ Len(log) \in Nat /\ cursor <= pos /\ pos <= Len(log)
  BY TypeParts DEF ReadInv
<1>1. \/ cursor' = cursor
      \/ DeliverStep /\ cursor' = pos + 1 /\ log' = log /\ pos < Len(log)
  BY DEF Step, Posted, PostStep, IdleStep, CloseStep, SegmentStep, DeliverStep, AgainStep
<1>2. p \in 1..Len(log) /\ p \in 1..(pos + 1) BY <1>0, <1>1
<1>3. log'[p] = log[p] BY <1>2 DEF Grows
<1>4. /\ log[p].kind = "message" /\ log[p].key = k /\ log[p].seq = q /\ q \in Nat
  BY <1>2, <1>3, EntryParts
<1>5. Numbered(p) BY <1>4 DEF Numbered
<1>6. CASE /\ DeliverStep \/ AgainStep
           /\ Incoming.key = k /\ Incoming.kind \in {"initialize", "message", "chunk"}
           /\ Incoming.seq < q
  <2>1. pos < Len(log) BY <1>6 DEF DeliverStep, AgainStep
  <2>2. pos + 1 \in 1..Len(log) /\ Incoming = log[pos + 1] /\ Incoming.seq \in Nat
    BY <2>1, IncomingParts
  <2>3. Numbered(pos + 1) BY <1>6, <2>2 DEF Numbered
  <2>4. log[p].seq <= log[pos + 1].seq BY <1>0, <1>2, <1>4, <1>5, <1>6, <2>2, <2>3, SeqPositions
  <2> QED BY <1>4, <1>6, <2>2, <2>4
<1>7. CASE /\ Tracked(k) /\ clients'[k].conn = clients[k].conn
           /\ After(clients[k].conn, q) /\ ~Has(clients[k].conn, q)
  <2>1. ~(p \in 1..cursor) BY <1>4, <1>7 DEF MessagesForwarded
  <2>2. DeliverStep /\ pos < Len(log) BY <1>1, <2>1
  <2>3. ~(p \in (cursor + 1)..pos) BY <1>4 DEF ReadInv
  <2>4. p = pos + 1 BY <1>0, <1>2, <2>1, <2>3
  <2>5. Incoming = log[p] BY <2>4 DEF Incoming
  <2>6. Completes(Incoming) /\ Effect(Incoming) BY <2>2 DEF DeliverStep
  <2>7. CASE Forwards(Incoming)
    <3>1. Forwarded(k, q) BY <1>4, <2>5, <2>6, <2>7 DEF Effect, Skips
    <3> QED BY <1>4, <3>1, ForwardedHas
  <2>8. CASE ~Forwards(Incoming)
    <3>1. Has(clients[k].conn, Incoming.seq)
      BY <1>4, <1>7, <2>2, <2>5, <2>6, <2>8, DeliveredHas
    <3> QED BY <1>4, <1>7, <2>5, <3>1
  <2> QED BY <2>7, <2>8
<1> QED BY <1>4, <1>6, <1>7, MissingBefore

\* A message sent in full that the reader is past is with the connection of its key.
LEMMA SentHas ==
    ASSUME TypeOK, LogInv, ReadInv, MessagesForwarded, ChunksAssembled, NEW k \in Keys,
           Tracked(k), pos < Len(log), Incoming.key = k, Incoming.kind \in {"message", "chunk"},
           NEW q \in Sent(k), q < Incoming.seq, q \notin CutChunks(k), After(clients[k].conn, q)
    PROVE  Has(clients[k].conn, q)
<1>1. /\ pos + 1 \in 1..Len(log) /\ Incoming = log[pos + 1] /\ pos \in Nat /\ cursor \in Nat
      /\ Len(log) \in Nat
  BY IncomingParts
<1>2. Numbered(pos + 1) BY <1>1 DEF Numbered
<1>3. \A p \in 1..Len(log) :
        log[p].key = k /\ Numbered(p) /\ log[p].seq = q => p \in 1..pos
  <2> SUFFICES ASSUME NEW p \in 1..Len(log), log[p].key = k, Numbered(p), log[p].seq = q
               PROVE  p \in 1..pos
    OBVIOUS
  <2>1. log[p].seq < log[pos + 1].seq => p < pos + 1 BY <1>1, <1>2, SeqPositions
  <2> QED BY <1>1, <2>1
<1>4. CASE \E p \in 1..Len(log) : log[p].key = k /\ log[p].kind = "message" /\ log[p].seq = q
  <2>1. PICK p \in 1..Len(log) : log[p].key = k /\ log[p].kind = "message" /\ log[p].seq = q
    BY <1>4
  <2>2. p \in 1..pos BY <1>3, <2>1 DEF Numbered
  <2>3. ~(p \in (cursor + 1)..pos) BY <2>1 DEF ReadInv
  <2>4. p \in 1..cursor BY <1>1, <2>2, <2>3
  <2> QED BY <2>1, <2>4 DEF MessagesForwarded
<1>5. CASE /\ q \in 1..MaxEvents
           /\ \A seg \in 0..(Segments - 1) : \E i \in 1..Len(log) :
                 log[i] = [key |-> k, kind |-> "chunk", seq |-> q, seg |-> seg, ok |-> TRUE]
  <2>1. \A seg \in 0..(Segments - 1) : \E i \in 1..Len(log) : Segment(i, k, q, seg) /\ log[i].ok
    <3> SUFFICES ASSUME NEW seg \in 0..(Segments - 1)
                 PROVE  \E i \in 1..Len(log) : Segment(i, k, q, seg) /\ log[i].ok
      OBVIOUS
    <3>1. PICK i \in 1..Len(log) :
            log[i] = [key |-> k, kind |-> "chunk", seq |-> q, seg |-> seg, ok |-> TRUE]
      BY <1>5
    <3>2. /\ log[i].key = k /\ log[i].kind = "chunk" /\ log[i].seq = q /\ log[i].seg = seg
          /\ log[i].ok = TRUE
      BY ONLY <3>1
    <3>3. log[i].ok BY ONLY <3>2
    <3> QED BY <3>2, <3>3 DEF Segment, Chunk
  <2>2. Segments - 1 \in 0..(Segments - 1) OBVIOUS
  <2>3. PICK h \in 1..Len(log) : Segment(h, k, q, Segments - 1) BY <2>1, <2>2
  <2>4. log[h].key = k /\ log[h].kind = "chunk" /\ log[h].seq = q BY <2>3 DEF Segment, Chunk
  <2>5. h \in 1..pos BY <1>3, <2>4 DEF Numbered
  <2>6. ASSUME NEW i \in 1..Len(log), Chunk(i, k, q) PROVE log[i].ok
    <3>1. log[i].seg \in 0..(Segments - 1) BY EntryParts
    <3>2. PICK j \in 1..Len(log) : Segment(j, k, q, log[i].seg) /\ log[j].ok BY <2>1, <3>1
    <3>3. /\ Numbered(i) /\ Numbered(j) /\ log[i].key = log[j].key
          /\ log[i].seq = log[j].seq /\ log[i].seg = log[j].seg
      BY <2>6, <3>2 DEF Segment, Chunk, Numbered
    <3>4. i = j BY <3>3, SeqPositions
    <3> QED BY <3>2, <3>4
  <2>7. Alive(k, q) BY <2>3, <2>6 DEF Alive, Segment
  <2>8. <<k, q>> \notin cut BY <2>4 DEF CutChunks
  <2>9. ASSUME ~Has(clients[k].conn, q) PROVE FALSE
    <3>1. q \in Nat BY <1>5
    <3>2. Assembled(k, q) BY <2>7, <2>8, <2>9, <3>1 DEF ChunksAssembled
    <3>3. pos < h BY <2>3, <3>2, LastUnread
    <3> QED BY <1>1, <2>5, <3>3
  <2> QED BY <2>9
<1> QED BY <1>4, <1>5 DEF Sent

\* A message that is behind what was forwarded was sent in full already.
LEMMA SentBefore ==
    ASSUME TypeOK, TypeOK', LogInv, LogInv', Grows, NEW k, NEW q \in Sent(k)',
           NEW p \in 1..Len(log), log[p].key = k, Numbered(p), q < log[p].seq, q \in Nat
    PROVE  q \in Sent(k)
<1>1. p \in 1..Len(log') /\ log'[p] = log[p] /\ log[p].seq \in Nat BY EntryParts DEF Grows
<1>2. \A i \in 1..Len(log) : i \in 1..Len(log') /\ log'[i] = log[i] BY DEF Grows
<1>3. ASSUME NEW i \in 1..Len(log'), log'[i].key = k, log'[i].seq = q,
             log'[i].kind \in {"message", "chunk"}
      PROVE  i \in 1..Len(log)
  <2>1. ASSUME i \notin 1..Len(log) PROVE FALSE
    <3>1. p < i
      <4>1. Len(log) \in Nat BY DEF Grows
      <4> QED BY <2>1, <4>1
    <3>2. log'[p].seq < log'[i].seq \/ log'[p].seq = log'[i].seq
      BY <1>1, <1>3, <3>1 DEF LogInv, SeqOrdered, Numbered
    <3> QED BY <1>1, <1>3, <3>2
  <2> QED BY <2>1
<1>4. CASE \E i \in 1..Len(log') : log'[i].key = k /\ log'[i].kind = "message" /\ log'[i].seq = q
  <2>1. PICK i \in 1..Len(log') : log'[i].key = k /\ log'[i].kind = "message" /\ log'[i].seq = q
    BY <1>4
  <2>2. i \in 1..Len(log) BY <1>3, <2>1
  <2> QED BY <1>2, <2>1, <2>2 DEF Sent
<1>5. CASE /\ q \in 1..MaxEvents
           /\ \A seg \in 0..(Segments - 1) : \E i \in 1..Len(log') :
                 log'[i] = [key |-> k, kind |-> "chunk", seq |-> q, seg |-> seg, ok |-> TRUE]
  <2>1. ASSUME NEW seg \in 0..(Segments - 1)
        PROVE  \E i \in 1..Len(log) :
                  log[i] = [key |-> k, kind |-> "chunk", seq |-> q, seg |-> seg, ok |-> TRUE]
    <3>1. PICK i \in 1..Len(log') :
            log'[i] = [key |-> k, kind |-> "chunk", seq |-> q, seg |-> seg, ok |-> TRUE]
      BY <1>5
    <3>2. log'[i].key = k /\ log'[i].seq = q /\ log'[i].kind = "chunk" BY <3>1
    <3>3. i \in 1..Len(log) BY <1>3, <3>2
    <3> QED BY <1>2, <3>1, <3>3
  <2> QED BY <1>5, <2>1 DEF Sent
<1> QED BY <1>4, <1>5 DEF Sent

LEMMA NoGapStep ==
    ASSUME TypeOK, TypeOK', LogInv, LogInv', ReadInv, TrackedInv, GotRead, NoGap,
           MessagesForwarded, ChunksAssembled, Grows, Step
    PROVE  NoGap'
<1> SUFFICES ASSUME NEW n \in 1..Len(conns'),
                    NEW q \in Sent(conns[n].key)', q \notin CutChunks(conns[n].key)',
                    NEW i \in 1..Len(conns'[n].got), q < conns'[n].got[i], conns'[n].got[1] < q
             PROVE  \E j \in 1..Len(conns'[n].got) : conns'[n].got[j] = q
  BY DEF NoGap
<1>1. PICK k \in {conns'[n].key} : TRUE OBVIOUS
<1>2. Sent(conns[n].key)' = Sent(k)' /\ CutChunks(conns[n].key)' = CutChunks(k)'
  BY <1>1, ZenonT(30) DEF Sent, CutChunks
<1>3. q \in Sent(k)' /\ q \notin CutChunks(k)' BY <1>2
<1>4. q \in Nat
  <2>1. \A j \in 1..Len(log') : log'[j].seq \in Nat
    <3>1. log' \in Seq(Entries) BY DEF TypeOK
    <3>2. \A j \in 1..Len(log') : log'[j] \in Entries BY <3>1, ElementOfSeq
    <3> QED BY <3>2 DEF Entries
  <2> QED BY <1>3, <2>1 DEF Sent
<1>5. cut \subseteq cut'
  BY DEF Step, Posted, PostStep, IdleStep, CloseStep, SegmentStep, DeliverStep, AgainStep
<1>6. q \in Sent(k) => q \notin CutChunks(k)
  BY <1>3, <1>5 DEF CutChunks, Grows
<1>7. ASSUME n \in 1..Len(conns), conns'[n].key = conns[n].key, i \in 1..Len(conns[n].got),
             conns'[n].got[i] = conns[n].got[i], conns'[n].got[1] = conns[n].got[1]
      PROVE  \E j \in 1..Len(conns[n].got) : conns[n].got[j] = q
  <2>1. PICK p \in 1..Len(log) : /\ log[p].key = conns[n].key /\ log[p].seq = conns[n].got[i]
                                 /\ Numbered(p)
    BY <1>7 DEF GotRead
  <2>2. log[p].key = k /\ q < log[p].seq BY <1>1, <1>7, <2>1
  <2>3. q \in Sent(k) BY <1>3, <1>4, <2>1, <2>2, SentBefore
  <2>4. k = conns[n].key BY <1>1, <1>7
  <2>5. q \in {conns[n].got[j] : j \in 1..Len(conns[n].got)}
    BY <1>6, <1>7, <2>3, <2>4 DEF NoGap
  <2> QED BY <2>5
<1>8. CASE n \in 1..Len(conns) /\ conns'[n].key = conns[n].key /\ conns'[n].got = conns[n].got
  BY <1>7, <1>8
<1>9. CASE pos < Len(log) /\ conns'[n].got \in {<<>>, <<Incoming.seq>>}
  <2>0. conns'[n].got # <<>> OBVIOUS
  <2>1. conns'[n].got = <<Incoming.seq>> BY <1>9, <2>0
  <2>2. i = 1 /\ conns'[n].got[1] = Incoming.seq BY <2>1
  <2>3. Incoming.seq \in Nat BY <1>9, IncomingParts
  <2> QED BY <1>4, <2>2, <2>3
<1>10. CASE /\ pos < Len(log) /\ log' = log /\ conns'[n].key = Incoming.key
            /\ n \in 1..Len(conns) /\ Incoming.kind \in {"message", "chunk"}
            /\ conns[n].key = Incoming.key /\ Tracked(Incoming.key)
            /\ n = clients[Incoming.key].conn
            /\ conns'[n].got = Append(conns[n].got, Incoming.seq)
  <2> DEFINE old == conns[n].got
             f == Incoming.seq
  <2>1. f \in Nat /\ old \in Seq(Nat) /\ conns'[n].got = Append(old, f)
    BY <1>10, IncomingParts, ConnParts
  <2>2. /\ Len(old) \in Nat /\ Len(conns'[n].got) = Len(old) + 1
        /\ \A j \in 1..Len(old) : conns'[n].got[j] = old[j]
        /\ conns'[n].got[Len(old) + 1] = f
    <3> HIDE DEF old, f
    <3> QED BY <2>1, Appended
  <2>3. \A j \in 1..Len(old) : j \in 1..Len(conns'[n].got) BY <2>2
  <2>4. CASE old = <<>>
    <3>1. Len(old) = 0 BY <2>4
    <3> HIDE DEF old, f
    <3>2. i = 1 /\ conns'[n].got[1] = f BY <2>2, <3>1
    <3> QED BY <1>4, <2>1, <3>2
  <2>5. CASE old # <<>>
    <3>1. 1 \in 1..Len(old) BY <2>1, <2>2, <2>5, EmptySeq
    <3>2. conns'[n].got[1] = old[1] BY <2>2, <3>1
    <3>3. CASE i \in 1..Len(old)
      <4>1. \E j \in 1..Len(old) : old[j] = q BY <1>7, <1>10, <2>2, <3>2, <3>3
      <4> HIDE DEF old
      <4> QED BY <2>2, <2>3, <4>1
    <3>4. CASE i = Len(old) + 1
      <4>1. q < f BY <2>2, <3>4
      <4>2. k = Incoming.key /\ k \in Keys BY <1>1, <1>10, IncomingParts
      <4>3. After(n, q) BY <2>5, <3>2 DEF After
      <4>4. Sent(k)' = Sent(k)
        <5>1. log' = log BY <1>10
        <5> QED BY ONLY <5>1, Zenon DEF Sent
      <4>5. q \in Sent(k) /\ q \notin CutChunks(k) BY <1>3, <1>6, <4>4
      <4>6. Has(clients[k].conn, q) BY <1>10, <4>1, <4>2, <4>3, <4>5, SentHas
      <4>7. \E j \in 1..Len(old) : old[j] = q BY <1>10, <4>2, <4>6 DEF Has
      <4> HIDE DEF old
      <4> QED BY <2>2, <2>3, <4>7
    <3> QED BY <2>2, <3>3, <3>4
  <2> QED BY <2>4, <2>5
<1> QED BY <1>8, <1>9, <1>10, GotCases

-----------------------------------------------------------------------------
(* The theorems *)

LEMMA Initially ==
    ASSUME Init
    PROVE  IInv
<1>1. log = <<>> /\ conns = <<>> /\ Len(log) = 0 /\ Len(conns) = 0 /\ finished = {} BY DEF Init
<1>2. TypeOK
  <2>1. client \in [Clients -> ClientStates] BY DEF Init, ClientStates
  <2>2. assembly \in [Clients -> Assemblies] BY NoAssemblyFacts DEF Init
  <2>3. clients \in [Keys -> [conn : Nat, last : Nat]] BY NoClientFacts DEF Init
  <2>4. lastChunk \in [Keys -> Nat] /\ cursor \in Nat /\ pos \in Nat /\ faults \in Nat BY DEF Init
  <2>5. connected \in BOOLEAN BY DEF Init
  <2> QED BY <1>1, <2>1, <2>2, <2>3, <2>4, <2>5 DEF TypeOK
<1>3. \A c \in Clients : /\ client[c].seq = 0 /\ client[c].segs = 0 /\ client[c].closed
                         /\ assembly[c].stream = 0
  BY NoAssemblyFacts DEF Init
<1>4. \A k \in Keys : clients[k] = NoClient /\ lastChunk[k] = 0 BY DEF Init
<1>5. cursor = 0 /\ pos = 0 BY DEF Init
<1>6. LogInv
  BY <1>1, <1>3 DEF LogInv, ClientAhead, SeqBounded, StreamsOrdered, SeqOrdered, InitializeFirst,
     SegmentsInOrder, ClientSegments
<1>7. ReadInv BY <1>1, <1>5 DEF ReadInv
<1>8. AssemblyInv /\ LastChunkInv BY <1>3, <1>4 DEF AssemblyInv, AssemblyOK, LastChunkInv
<1>9. ConnInv
  BY <1>1, <1>4 DEF ConnInv, TrackedInv, OpenTracked, GotRead, GotOrdered, Separate, OnlyWhole
<1>10. GapInv
  BY <1>1, <1>4 DEF GapInv, MessagesForwarded, ChunksAssembled, NoGap, Tracked
<1> QED BY <1>2, <1>6, <1>7, <1>8, <1>9, <1>10 DEF IInv

LEMMA Inductive ==
    ASSUME IInv, [Next]_vars
    PROVE  IInv'
<1>0. /\ TypeOK /\ LogInv /\ ReadInv /\ AssemblyInv /\ LastChunkInv
      /\ TrackedInv /\ OpenTracked /\ GotRead /\ GotOrdered /\ Separate /\ OnlyWhole
      /\ MessagesForwarded /\ ChunksAssembled /\ NoGap
  BY DEF IInv, ConnInv, GapInv
<1>1. TypeOK' /\ TrackerOK' /\ Step BY <1>0, StepCases DEF LogInv
<1>2. Grows /\ ReadInv' /\ LogInv' BY <1>0, <1>1, StepGrows
<1>3. AssemblyInv' /\ LastChunkInv' BY <1>0, <1>1, <1>2, AssemblyStep
<1>4. TrackedInv' /\ OpenTracked' BY <1>1 DEF TrackerOK
<1>5. GotRead' BY <1>0, <1>1, <1>2, GotReadStep
<1>6. GotOrdered' BY <1>0, <1>1, <1>2, GotOrderedStep
<1>7. Separate' BY <1>0, <1>1, <1>2, SeparateStep
<1>8. OnlyWhole' BY <1>0, <1>1, <1>2, OnlyWholeStep
<1>9. MessagesForwarded' BY <1>0, <1>1, <1>2, ForwardedStep
<1>10. ChunksAssembled' BY <1>0, <1>1, <1>2, AssembledStep
<1>11. NoGap' BY <1>0, <1>1, <1>2, NoGapStep
<1> QED BY <1>1, <1>2, <1>3, <1>4, <1>5, <1>6, <1>7, <1>8, <1>9, <1>10, <1>11
        DEF IInv, ConnInv, GapInv

LEMMA TakenParts ==
    ASSUME TypeOK, NEW n \in 1..Len(conns)
    PROVE  \/ Taken(n) = <<>>
           \/ /\ Taken(n) = conns[n].got /\ conns[n].got # <<>>
              /\ IsInitialize(conns[n].key, conns[n].got[1])
BY DEF Taken, Initializes, IsInitialize

LEMMA InOrderOnceFollows ==
    ASSUME IInv
    PROVE  InOrderOnce
<1>0. TypeOK /\ GotOrdered /\ Separate BY DEF IInv, ConnInv
<1>1. ASSUME NEW n \in 1..Len(conns)
      PROVE  /\ \A i \in 1..(Len(Taken(n)) - 1) : Taken(n)[i] < Taken(n)[i + 1]
             /\ \A i \in 2..Len(Taken(n)) : Taken(n)[i] \notin Initializes(conns[n].key)
  <2>1. CASE Taken(n) = <<>> BY <2>1
  <2>2. CASE Taken(n) = conns[n].got
    <3>1. Len(conns[n].got) \in Nat BY <1>0, ConnParts
    <3>2. \A i \in 1..(Len(conns[n].got) - 1) : conns[n].got[i] < conns[n].got[i + 1]
      <4> SUFFICES ASSUME NEW i \in 1..(Len(conns[n].got) - 1)
                   PROVE  conns[n].got[i] < conns[n].got[i + 1]
        OBVIOUS
      <4>1. i \in 1..Len(conns[n].got) /\ i + 1 \in 1..Len(conns[n].got) /\ i < i + 1 BY <3>1
      <4> QED BY <1>0, <4>1 DEF GotOrdered
    <3>3. \A i \in 2..Len(conns[n].got) : conns[n].got[i] \notin Initializes(conns[n].key)
      BY <1>0 DEF GotOrdered, Initializes, IsInitialize
    <3> QED BY <2>2, <3>2, <3>3
  <2> QED BY <1>0, <2>1, <2>2, TakenParts
<1>2. ASSUME NEW m \in 1..Len(conns), NEW n \in 1..Len(conns), m < n,
             conns[m].key = conns[n].key, NEW i \in 2..Len(Taken(m)), NEW j \in 2..Len(Taken(n))
      PROVE  Taken(m)[i] < Taken(n)[j]
  <2>1. Taken(m) # <<>> /\ Taken(n) # <<>>
    <3>1. ASSUME Taken(m) = <<>> PROVE FALSE BY <3>1
    <3>2. ASSUME Taken(n) = <<>> PROVE FALSE BY <3>2
    <3> QED BY <3>1, <3>2
  <2>2. /\ Taken(m) = conns[m].got /\ Taken(n) = conns[n].got /\ conns[n].got # <<>>
        /\ IsInitialize(conns[n].key, conns[n].got[1])
    BY <1>0, <2>1, TakenParts
  <2>3. /\ Len(conns[m].got) \in Nat /\ Len(conns[n].got) \in Nat
        /\ \A x \in 1..Len(conns[m].got) : conns[m].got[x] \in Nat
        /\ \A x \in 1..Len(conns[n].got) : conns[n].got[x] \in Nat
    BY <1>0, ConnParts
  <2>4. i \in 2..Len(conns[m].got) /\ j \in 2..Len(conns[n].got) BY <2>2
  <2>5. /\ i \in 1..Len(conns[m].got) /\ j \in 1..Len(conns[n].got) /\ 1 \in 1..Len(conns[n].got)
        /\ 1 < j
    BY <2>3, <2>4
  <2>6. ~IsInitialize(conns[m].key, conns[m].got[i]) BY <1>0, <2>4 DEF GotOrdered
  <2>7. conns[m].got[i] < conns[n].got[1] BY <1>0, <1>2, <2>2, <2>5, <2>6 DEF Separate
  <2>8. conns[n].got[1] < conns[n].got[j] BY <1>0, <2>5 DEF GotOrdered
  <2>9. conns[m].got[i] < conns[n].got[j]
    <3> DEFINE x == conns[m].got[i]
               y == conns[n].got[1]
               z == conns[n].got[j]
    <3>1. x \in Nat /\ y \in Nat /\ z \in Nat BY <2>3, <2>5
    <3>2. x < y /\ y < z BY <2>7, <2>8
    <3> HIDE DEF x, y, z
    <3>3. x < z BY ONLY <3>1, <3>2
    <3> QED BY <3>3 DEF x, z
  <2> QED BY <2>2, <2>9
<1>3. ASSUME NEW m \in 1..Len(conns), NEW n \in 1..Len(conns), m # n,
             conns[m].key = conns[n].key, NEW i \in 2..Len(Taken(m)), NEW j \in 2..Len(Taken(n))
      PROVE  Taken(m)[i] # Taken(n)[j]
  <2>1. ASSUME NEW x \in 1..Len(conns), NEW y \in 2..Len(Taken(x)) PROVE Taken(x)[y] \in Nat
    <3>1. Taken(x) # <<>>
      <4>1. ASSUME Taken(x) = <<>> PROVE FALSE BY <2>1, <4>1
      <4> QED BY <4>1
    <3>2. Taken(x) = conns[x].got BY <1>0, <3>1, TakenParts
    <3>3. Len(conns[x].got) \in Nat /\ \A z \in 1..Len(conns[x].got) : conns[x].got[z] \in Nat
      BY <1>0, ConnParts
    <3>4. y \in 1..Len(conns[x].got) BY <2>1, <3>2, <3>3
    <3> QED BY <3>2, <3>3, <3>4
  <2>2. Taken(m)[i] \in Nat /\ Taken(n)[j] \in Nat BY <2>1
  <2>3. CASE m < n
    <3>1. Taken(m)[i] < Taken(n)[j] BY <1>2, <1>3, <2>3
    <3> QED BY <2>2, <3>1
  <2>4. CASE n < m
    <3>1. Taken(n)[j] < Taken(m)[i] BY <1>2, <1>3, <2>4
    <3> QED BY <2>2, <3>1
  <2>5. m < n \/ n < m BY <1>3
  <2> QED BY <2>3, <2>4, <2>5
<1> QED BY <1>1, <1>3 DEF InOrderOnce

\* The state keeps its types: the log, the cursor, the assemblies, the tracker's
\* clients and the connections, of which every task that has ended is one.
THEOREM TypeCorrect == Spec => []TypeOK
<1>1. Init => IInv BY Initially
<1>2. IInv /\ [Next]_vars => IInv' BY Inductive
<1>3. IInv => TypeOK BY DEF IInv
<1> QED BY <1>1, <1>2, <1>3, PTL DEF Spec

\* A connection is open with the app server exactly when it is the one the tracker has
\* for its key, through every timeout, abort, repeated initialize and end of a task.
THEOREM OpenIsTracked == Spec => []OpenTracked
<1>1. Init => IInv BY Initially
<1>2. IInv /\ [Next]_vars => IInv' BY Inductive
<1>3. IInv => OpenTracked BY DEF IInv, ConnInv
<1> QED BY <1>1, <1>2, <1>3, PTL DEF Spec

\* What the app server takes on a connection is an initialize and then messages in the
\* order of their seq_ids, and no message twice, however often the log is replayed.
THEOREM DeliveredInOrderOnce == Spec => []InOrderOnce
<1>1. Init => IInv BY Initially
<1>2. IInv /\ [Next]_vars => IInv' BY Inductive
<1>3. IInv => InOrderOnce BY InOrderOnceFollows
<1> QED BY <1>1, <1>2, <1>3, PTL DEF Spec

\* Everything forwarded was sent in full: the reassembler never completes a message from
\* fewer or other segments than the client's.
THEOREM ForwardedWhole == Spec => []OnlyWhole
<1>1. Init => IInv BY Initially
<1>2. IInv /\ [Next]_vars => IInv' BY Inductive
<1>3. IInv => OnlyWhole BY DEF IInv, ConnInv
<1> QED BY <1>1, <1>2, <1>3, PTL DEF Spec

\* A connection that has a message has every earlier one since its first, but for a
\* segmented message whose own forwarding failed.
THEOREM NothingSkipped == Spec => []NoGap
<1>1. Init => IInv BY Initially
<1>2. IInv /\ [Next]_vars => IInv' BY Inductive
<1>3. IInv => NoGap BY DEF IInv, GapInv
<1> QED BY <1>1, <1>2, <1>3, PTL DEF Spec
=============================================================================
