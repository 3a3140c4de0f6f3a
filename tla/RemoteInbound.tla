--------------------------- MODULE RemoteInbound ----------------------------
(***************************************************************************)
(* The inbound half of the remote-control websocket: the reader task, the  *)
(* reassembly of segmented messages and the client tracker, which opens an *)
(* app-server connection for every initialize and forwards what follows.   *)
(*   src/app-server-transport/src/transport/remote_control/websocket.rs    *)
(*   src/app-server-transport/src/transport/remote_control/segment.rs      *)
(*   src/app-server-transport/src/transport/remote_control/client_tracker.rs*)
(* Clients and backend are external: the backend keeps what the clients    *)
(* send in one log and resumes it after the cursor it is given.            *)
(***************************************************************************)
EXTENDS Integers, Sequences, FiniteSets

CONSTANTS
    Clients,       \* client ids
    MaxStreams,    \* bound: stream ids a client goes through
    Segments,      \* segment_count of a segmented message
    MaxFaults,     \* bound: connections lost, forwardings timed out or aborted,
                   \* clients gone idle or disconnected by the app server
    MaxEvents      \* bound: envelopes the clients send, and faults

ASSUME ConstantsAssumption ==
    /\ IsFiniteSet(Clients)
    /\ MaxStreams \in Nat \ {0}
    /\ Segments \in Nat \ {0, 1}
    /\ MaxEvents \in Nat /\ MaxFaults \in Nat

\* (client_id, stream_id)
Keys == Clients \X (1..MaxStreams)

VARIABLES
    log,        \* the envelopes in the backend's order; the cursor is an index
    client,     \* where each client is: its stream, seq_id and open segments
    cursor,     \* subscribe_cursor
    pos,        \* how much of the log this connection has read
    connected,  \* a connection is up and its reader is in its loop
    assembly,   \* the reassembler's assembly of each client
    lastChunk,  \* last_completed_client_chunk_seq_id_by_stream
    clients,    \* ClientTracker.clients
    conns,      \* the connections opened with the app server, as it sees them
    finished,   \* join_set: connections whose outbound task has ended
    faults,     \* faults so far
    cut         \* history: (key, seq_id) of the forwardings that failed

clientVars == <<log, client>>
segmentVars == <<assembly, lastChunk>>
trackerVars == <<clients, conns, finished>>
boundVars == <<faults, cut>>
vars == <<clientVars, cursor, pos, connected, segmentVars, trackerVars, boundVars>>

NoAssembly == [stream |-> 0, seq |-> 0, next |-> 0]
NoClient == [conn |-> 0, last |-> 0]

Init ==
    /\ log = <<>>
    /\ client = [c \in Clients |-> [stream |-> 0, seq |-> 0, segs |-> 0, closed |-> TRUE]]
    /\ cursor = 0 /\ pos = 0 /\ connected = FALSE
    /\ assembly = [c \in Clients |-> NoAssembly]
    /\ lastChunk = [k \in Keys |-> 0]
    /\ clients = [k \in Keys |-> NoClient] /\ conns = <<>> /\ finished = {}
    /\ faults = 0 /\ cut = {}

MayFail == faults < MaxFaults /\ Len(log) + faults < MaxEvents

-----------------------------------------------------------------------------
(* The clients *)

\* A new envelope. What the reader does depends on nothing it has not read yet,
\* so that the log need only grow when all of it has been read.
Post(c, kind, seq, seg, ok, now) ==
    /\ Len(log) + faults < MaxEvents
    /\ connected /\ pos = Len(log)
    /\ log' = Append(log, [key |-> <<c, now.stream>>, kind |-> kind, seq |-> seq, seg |-> seg,
                           ok |-> ok])
    /\ client' = [client EXCEPT ![c] = now]
    /\ UNCHANGED <<cursor, pos, connected, segmentVars, trackerVars, boundVars>>

\* A client initializes on a stream of its own, or again on the one it has once
\* its last message is complete. It leaves its old stream for good.
ClientInitializes(c, s) ==
    /\ s \in {client[c].stream, client[c].stream + 1} \cap 1..MaxStreams
    /\ s = client[c].stream => client[c].segs = 0
    /\ LET seq == IF s = client[c].stream THEN client[c].seq + 1 ELSE 1
       IN Post(c, "initialize", seq, 0, TRUE,
               [stream |-> s, seq |-> seq, segs |-> 0, closed |-> FALSE])

ClientSends(c) ==
    /\ ~client[c].closed /\ client[c].segs = 0
    /\ LET seq == client[c].seq + 1
       IN Post(c, "message", seq, 0, TRUE, [client[c] EXCEPT !.seq = seq])

\* The next segment of a large message; one segment of the log may be invalid.
ClientSendsChunk(c, ok) ==
    /\ ~client[c].closed
    /\ ok \/ \A i \in 1..Len(log) : log[i].ok
    /\ LET seg == client[c].segs
           seq == IF seg = 0 THEN client[c].seq + 1 ELSE client[c].seq
       IN Post(c, "chunk", seq, seg, ok,
               [client[c] EXCEPT !.seq = seq, !.segs = (seg + 1) % Segments])

\* Pings and acks carry a cursor and leave the state of this model alone.
ClientPings(c) == ~client[c].closed /\ Post(c, "ping", 0, 0, TRUE, client[c])

ClientCloses(c) ==
    /\ ~client[c].closed /\ client[c].segs = 0
    /\ Post(c, "closed", 0, 0, TRUE, [client[c] EXCEPT !.closed = TRUE])

-----------------------------------------------------------------------------
(* The connection *)

\* A bug to exclude: the backend is asked for what follows the last envelope read.
ResumeAfterRead(read) == read

\* Where the next connection goes on: connect() sends the subscribe cursor.
Resume(read) == cursor

\* A bug to exclude: a connection that is lost is not made again.
ConnectOnce ==
    /\ ~connected /\ faults = 0
    /\ connected' = TRUE
    /\ UNCHANGED <<clientVars, cursor, pos, segmentVars, trackerVars, boundVars>>

\* Tracker and reassembler outlive the connection.
Connect ==
    /\ ~connected
    /\ connected' = TRUE
    /\ UNCHANGED <<clientVars, cursor, pos, segmentVars, trackerVars, boundVars>>

\* A connection ends that has read the first read envelopes.
Lose(read) ==
    /\ connected /\ MayFail
    /\ connected' = FALSE
    /\ faults' = faults + 1
    /\ pos' = Resume(read)

\* The reader returns between two envelopes.
Disconnect ==
    /\ Lose(pos)
    /\ UNCHANGED <<clientVars, cursor, segmentVars, trackerVars, cut>>

-----------------------------------------------------------------------------
(* Reassembly *)

\* A chunk of a message already forwarded, or of one already assembled so far.
IgnoreChunk(e) ==
    LET a == assembly[e.key[1]]
    IN \/ lastChunk[e.key] >= e.seq
       \/ /\ a.stream = e.key[2]
          /\ e.seq < a.seq \/ (e.seq = a.seq /\ e.seg < a.next)

\* remove_assembly: only of the stream the assembly is for.
RemoveAssembly(k) ==
    IF assembly[k[1]].stream = k[2] THEN [assembly EXCEPT ![k[1]] = NoAssembly] ELSE assembly

\* A bug to exclude: segments are taken in whatever order they come.
AcceptsAny(a, e) == a.seq = e.seq

\* The segment is the one the assembly waits for.
Accepts(a, e) == a.seq = e.seq /\ a.next = e.seg

\* The assembly a segment is added to: a new one if the client has none, or one
\* of another stream.
AssemblyFor(e) ==
    IF assembly[e.key[1]].stream = e.key[2] THEN assembly[e.key[1]]
    ELSE [stream |-> e.key[2], seq |-> e.seq, next |-> 0]

\* The envelope is forwarded: it is no segment, or the last one of its message.
Completes(e) ==
    \/ e.kind # "chunk"
    \/ /\ ~IgnoreChunk(e) /\ e.ok /\ Accepts(AssemblyFor(e), e)
       /\ e.seg + 1 = Segments

\* What observe_client_message leaves of the assemblies.
Observed(e) ==
    LET c == e.key[1]
        a == AssemblyFor(e)
    IN CASE e.kind # "chunk" -> assembly
         [] e.kind = "chunk" /\ IgnoreChunk(e) -> assembly
         [] e.kind = "chunk" /\ ~IgnoreChunk(e) /\ ~e.ok -> RemoveAssembly(e.key)
         [] OTHER -> [assembly EXCEPT ![c] =
                         IF Accepts(a, e) /\ ~Completes(e) THEN [a EXCEPT !.next = @ + 1]
                         ELSE NoAssembly]

\* The envelope the reader gets next.
Incoming == log[pos + 1]

\* A segment that completes nothing: the cursor stays.
ReadSegment ==
    /\ connected /\ pos < Len(log) /\ ~Completes(Incoming)
    /\ pos' = pos + 1
    /\ assembly' = Observed(Incoming)
    /\ UNCHANGED <<clientVars, cursor, connected, lastChunk, trackerVars, boundVars>>

-----------------------------------------------------------------------------
(* The client tracker *)

Tracked(k) == clients[k] # NoClient

\* The connections once that of key k, if any, is closed.
Closed(k) == IF Tracked(k) THEN [conns EXCEPT ![clients[k].conn].open = FALSE] ELSE conns

\* Its outbound task ends, as its disconnect token is cancelled.
Ending(k) == IF Tracked(k) THEN finished \cup {clients[k].conn} ELSE finished

\* close_client. The closed event is detached, so that nothing stops it.
CloseClient(k) ==
    /\ clients' = [clients EXCEPT ![k] = NoClient]
    /\ conns' = Closed(k)
    /\ finished' = Ending(k)

\* A bug to exclude: an initialize replaces the client without closing it.
OpensUnclosed(k) == conns

\* An initialize closes the connection its key has.
Opens(k) == Closed(k)

\* A bug to exclude: deliveries are not recorded.
LastForgotten(seq) == 0

\* record_inbound_message_delivery, after the app server has the message.
LastInbound(seq) == seq

\* handle_message forwards a message other than an initialize.
Forwards(e) ==
    /\ e.kind \in {"message", "chunk"}
    /\ Tracked(e.key) /\ clients[e.key].last < e.seq

\* What handle_message drops or answers by itself: a repeated message, one for a
\* connection that is gone, a ping.
Skips(e) ==
    \/ e.kind = "ping"
    \/ e.kind \in {"message", "chunk"} /\ ~Forwards(e)

\* handle_message returns Ok.
Handle(e) ==
    LET k == e.key
    IN \/ Skips(e) /\ UNCHANGED trackerVars
       \/ /\ Forwards(e)
          /\ conns' = [conns EXCEPT ![clients[k].conn].got = Append(@, e.seq)]
          /\ clients' = [clients EXCEPT ![k].last = LastInbound(e.seq)]
          /\ UNCHANGED finished
       \/ /\ e.kind = "initialize"
          /\ conns' = Append(Opens(k), [key |-> k, got |-> <<e.seq>>, open |-> TRUE])
          /\ clients' = [clients EXCEPT ![k] = [conn |-> Len(conns) + 1,
                                                last |-> LastInbound(e.seq)]]
          /\ finished' = Ending(k)
       \/ e.kind = "closed" /\ CloseClient(k)

\* A stream that is closed is forgotten: its assembly and its chunk cursor.
Forget(k) ==
    /\ assembly' = RemoveAssembly(k)
    /\ lastChunk' = [lastChunk EXCEPT ![k] = 0]

\* One turn of the reader's loop, which holds the tracker: observe, handle,
\* record_client_message_delivery, and invalidate a closed stream.
Deliver ==
    /\ connected /\ pos < Len(log) /\ Completes(Incoming)
    /\ Handle(Incoming)
    /\ pos' = pos + 1
    /\ cursor' = pos + 1
    /\ IF Incoming.kind = "closed" THEN Forget(Incoming.key)
       ELSE /\ assembly' = Observed(Incoming)
            /\ lastChunk' = IF Incoming.kind = "chunk"
                            THEN [lastChunk EXCEPT ![Incoming.key] = Incoming.seq]
                            ELSE lastChunk
    /\ UNCHANGED <<clientVars, connected, boundVars>>

\* The connection ends and join_connection_workers aborts the reader when it has
\* handled the envelope and waits for the state lock.
DeliverUnrecorded ==
    /\ pos < Len(log) /\ Completes(Incoming)
    /\ Handle(Incoming)
    /\ assembly' = Observed(Incoming)
    /\ Lose(pos + 1)
    /\ UNCHANGED <<clientVars, cursor, lastChunk, cut>>

\* What an initialize that does not get through leaves behind: the old connection
\* is closed; the new one is not opened, or it is opened and closed again, or
\* (aborted) opened and kept.
FailedInitialize(k) ==
    \/ CloseClient(k)
    \/ /\ conns' = Append(Closed(k), [key |-> k, got |-> <<>>, open |-> FALSE])
       /\ clients' = [clients EXCEPT ![k] = NoClient]
       /\ finished' = Ending(k) \cup {Len(conns) + 1}
    \/ /\ conns' = Append(Closed(k), [key |-> k, got |-> <<>>, open |-> TRUE])
       /\ clients' = [clients EXCEPT ![k] = [conn |-> Len(conns) + 1, last |-> 0]]
       /\ finished' = Ending(k)

\* The app server's queue stays full and handle_message returns Stopped, or the
\* connection ends and the reader is aborted while it waits for the queue.
DeliverFails ==
    /\ pos < Len(log) /\ Completes(Incoming)
    /\ \/ Forwards(Incoming) /\ UNCHANGED trackerVars
       \/ Incoming.kind = "initialize" /\ FailedInitialize(Incoming.key)
       \/ Incoming.kind = "closed" /\ CloseClient(Incoming.key)
    /\ assembly' = Observed(Incoming)
    /\ Lose(pos + 1)
    /\ cut' = cut \cup {<<Incoming.key, Incoming.seq>>}
    /\ UNCHANGED <<clientVars, cursor, lastChunk>>

-----------------------------------------------------------------------------
(* The other arms of the reader's select *)

\* bookkeep_join_set: the task of connection n has ended. Its result is the key
\* alone, and whatever client has that key now is closed.
Join(n) ==
    /\ connected /\ n \in finished
    /\ LET k == conns[n].key
       IN /\ clients' = [clients EXCEPT ![k] = NoClient]
          /\ conns' = Closed(k)
          /\ finished' = Ending(k) \ {n}
          /\ Forget(k)
    /\ UNCHANGED <<clientVars, cursor, pos, connected, boundVars>>

\* close_expired_clients finds one idle.
Expire(k) ==
    /\ connected /\ Tracked(k) /\ MayFail
    /\ faults' = faults + 1
    /\ CloseClient(k)
    /\ Forget(k)
    /\ UNCHANGED <<clientVars, cursor, pos, connected, cut>>

\* The app server disconnects the client: its outbound task ends.
TaskEnds(k) ==
    /\ Tracked(k) /\ clients[k].conn \notin finished /\ MayFail
    /\ faults' = faults + 1
    /\ finished' = finished \cup {clients[k].conn}
    /\ UNCHANGED <<clientVars, cursor, pos, connected, segmentVars, clients, conns, cut>>

ClientStep ==
    \E c \in Clients :
        \/ \E s \in 1..MaxStreams : ClientInitializes(c, s)
        \/ ClientSends(c) \/ ClientPings(c) \/ ClientCloses(c)
        \/ \E ok \in BOOLEAN : ClientSendsChunk(c, ok)

Next ==
    \/ ClientStep
    \/ Connect \/ Disconnect
    \/ ReadSegment \/ Deliver \/ DeliverUnrecorded \/ DeliverFails
    \/ \E n \in 1..Len(conns) : Join(n)
    \/ \E k \in Keys : Expire(k) \/ TaskEnds(k)

\* The loop reconnects after every loss and the reader goes on reading; faults
\* come to an end (MaxFaults).
Fairness == WF_vars(Connect) /\ WF_vars(ReadSegment) /\ WF_vars(Deliver)

Spec == Init /\ [][Next]_vars
FairSpec == Spec /\ Fairness

-----------------------------------------------------------------------------
(* Properties *)

\* Every connection the app server has open belongs to a client that the tracker
\* knows, so that something is left to close it: no timeout, abort, repeated
\* initialize or end of a task leaves one behind.
OpenTracked ==
    \A n \in 1..Len(conns) : conns[n].open <=> clients[conns[n].key].conn = n

\* The seq_ids of key k that are initializes.
Initializes(k) ==
    {log[i].seq : i \in {j \in 1..Len(log) : log[j].key = k /\ log[j].kind = "initialize"}}

\* What the app server takes on connection n: it rejects what comes before an
\* initialize.
Taken(n) ==
    LET got == conns[n].got
    IN IF got # <<>> /\ got[1] \in Initializes(conns[n].key) THEN got ELSE <<>>

\* What the app server takes on a connection is an initialize and then messages,
\* in the order of the client's seq_ids, and it takes no message twice, on this
\* connection or on another, however often the backend replays the log.
InOrderOnce ==
    /\ \A n \in 1..Len(conns) :
          /\ \A i \in 1..(Len(Taken(n)) - 1) : Taken(n)[i] < Taken(n)[i + 1]
          /\ \A i \in 2..Len(Taken(n)) : Taken(n)[i] \notin Initializes(conns[n].key)
    /\ \A m, n \in 1..Len(conns) :
          m # n /\ conns[m].key = conns[n].key =>
              \A i \in 2..Len(Taken(m)), j \in 2..Len(Taken(n)) : Taken(m)[i] # Taken(n)[j]

\* The messages of key k that the clients have sent in full.
Sent(k) ==
    {log[i].seq : i \in {j \in 1..Len(log) : log[j].key = k /\ log[j].kind = "message"}}
    \cup {q \in 1..MaxEvents :
            \A seg \in 0..(Segments - 1) : \E i \in 1..Len(log) :
                log[i] = [key |-> k, kind |-> "chunk", seq |-> q, seg |-> seg, ok |-> TRUE]}

\* Everything that reaches the app server was sent in full: a segmented message is
\* never put together from fewer or other segments than the client's, nor from
\* those of two streams or of two attempts.
OnlyWhole ==
    \A n \in 1..Len(conns) : \A i \in 1..Len(conns[n].got) :
        conns[n].got[i] \in Sent(conns[n].key) \cup Initializes(conns[n].key)

\* The segmented messages whose forwarding was cut short.
CutChunks(k) ==
    {q \in Sent(k) : <<k, q>> \in cut /\ \E i \in 1..Len(log) :
        log[i].key = k /\ log[i].seq = q /\ log[i].kind = "chunk"}

\* No message is skipped: when the app server has a message, it has every earlier
\* one of the connection, whatever connections were lost and forwardings failed in
\* between. Only a segmented message whose own forwarding failed may be missing.
NoGap ==
    \A n \in 1..Len(conns) :
        LET got == conns[n].got
            have == {got[i] : i \in 1..Len(got)}
        IN \A q \in Sent(conns[n].key) \ CutChunks(conns[n].key) :
               (\E i \in 1..Len(got) : q < got[i]) /\ got[1] < q => q \in have

\* Once faults stop, a client that is still connected has got everything across.
CaughtUp ==
    <>[](\A k \in Keys : Tracked(k) =>
            LET got == conns[clients[k].conn].got
            IN /\ got # <<>>
               /\ \A q \in Sent(k) \ CutChunks(k) :
                      got[1] < q => \E i \in 1..Len(got) : got[i] = q)
=============================================================================
