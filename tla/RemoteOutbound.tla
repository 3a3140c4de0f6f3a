--------------------------- MODULE RemoteOutbound ---------------------------
(***************************************************************************)
(* The outbound half of the remote-control websocket: from the queue of    *)
(* server events that all clients share, through the writer task and its   *)
(* buffer of unacknowledged envelopes, to the backend, across reconnects.  *)
(*   src/app-server-transport/src/transport/remote_control/websocket.rs    *)
(* The backend is external: it takes an envelope whose cursor is past the  *)
(* last one it took of the stream, and acknowledges what it has taken, any *)
(* number of times and as late as it likes.                                *)
(***************************************************************************)
EXTENDS Integers, Sequences, FiniteSets

CONSTANTS
    Streams,         \* the (client_id, stream_id) pairs
    Capacity,        \* CHANNEL_CAPACITY: of the event queue and of the buffer
    MaxSegments,     \* REMOTE_CONTROL_SEGMENT_COUNT_MAX: envelopes of one message
    SplitError,      \* split_server_envelope_for_transport fails instead
    MaxMessages,     \* bound: server events queued
    MaxAcks,         \* bound: acknowledgements in flight
    MaxDisconnects   \* bound: connections lost

\* An ack without a segment_id covers every segment of its seq_id.
NoSegment == -1

\* What splitting a message gives: that many envelopes, none if it is too large
\* for any split, or an error.
Splits == (0..MaxSegments) \cup {SplitError}

ASSUME ConstantsAssumption ==
    /\ IsFiniteSet(Streams)
    /\ Capacity \in Nat \ {0}
    /\ MaxSegments \in Nat \ {0}
    /\ SplitError \notin Nat
    /\ MaxMessages \in Nat /\ MaxAcks \in Nat /\ MaxDisconnects \in Nat

VARIABLES
    queue,        \* server_event channel: [stream, split] in order
    queued,       \* how many events were ever queued (bounded by MaxMessages)
    nextSeq,      \* next_seq_id_by_stream
    buffer,       \* buffer_by_stream
    used,         \* the value of the used watch channel
    usedChanged,  \* the writer's receiver has not seen the last change of used
    connected,    \* the websocket of the current connection is usable
    disconnects,  \* connections lost so far
    writer,       \* where the writer task is
    pending,      \* stream -> envelopes the writer has yet to write
    inHand,       \* the event taken from the queue and not yet numbered
    wire,         \* envelopes written and not yet at the backend
    acks,         \* acknowledgements on their way back
    sent,         \* history: every envelope ever put in the buffer
    delivered     \* history: what the backend has taken of each stream

stateVars == <<nextSeq, buffer, used, sent>>
connVars == <<connected, disconnects>>
vars == <<queue, queued, stateVars, usedChanged, connVars, writer, pending, inHand,
          wire, acks, delivered>>

Nothing == [s \in Streams |-> <<>>]

WriterStates == {"down", "starting", "replay", "check", "wait", "recv", "taken", "send"}

Init ==
    /\ queue = <<>> /\ queued = 0
    /\ nextSeq = [s \in Streams |-> 1]
    /\ buffer = Nothing /\ used = 0 /\ usedChanged = FALSE
    /\ connected = FALSE /\ disconnects = 0
    /\ writer = "down" /\ pending = Nothing /\ inHand = <<>>
    /\ wire = <<>> /\ acks = <<>>
    /\ sent = Nothing /\ delivered = Nothing

-----------------------------------------------------------------------------
(* Envelopes and acknowledgements *)

\* The envelopes of one message: one ServerMessage, or numbered chunks.
SplitEnvelope(s, seq, n) ==
    [i \in 1..n |-> [stream |-> s, seq |-> seq, seg |-> i - 1, last |-> i = n]]

\* (seq_id, segment_id) order of two envelopes of one stream.
Before(d, e) == d.seq < e.seq \/ (d.seq = e.seq /\ d.seg < e.seg)

\* A bug to exclude: a chunk's ack taken for an ack of its whole message.
IsAckedBySeq(e, ack) == e.seq <= ack.seq

\* The envelope's cursor is at or below the acknowledged one.
IsAcked(e, ack) ==
    \/ e.seq < ack.seq
    \/ e.seq = ack.seq /\ (ack.seg = NoSegment \/ e.seg <= ack.seg)

\* BoundedOutboundBuffer::ack retains what is not acked: the entries are in
\* cursor order, so that it takes away the first n.
AcksFirst(n, buf, ack) == \A i \in 1..Len(buf) : IsAcked(buf[i], ack) <=> i <= n

\* A bug to exclude: the count is changed without notifying its watchers.
NotifiedNever(n) == usedChanged

\* send_modify on the used channel, once for each of n envelopes.
Notified(n) == usedChanged \/ n > 0

-----------------------------------------------------------------------------
(* The clients' outbound tasks *)

\* run_client_outbound forwards a message or a pong; it waits while the queue
\* is full. How many envelopes the message needs is settled by its size.
Enqueue(s, n) ==
    /\ queued < MaxMessages
    /\ Len(queue) < Capacity
    /\ queue' = Append(queue, [stream |-> s, split |-> n])
    /\ queued' = queued + 1
    /\ UNCHANGED <<stateVars, usedChanged, connVars, writer, pending, inHand, wire, acks,
                   delivered>>

-----------------------------------------------------------------------------
(* The connection *)

\* connect() succeeds and run_connection spawns a writer and a reader. The
\* writer's receiver is a clone of one that never saw a change of used.
Connect ==
    /\ ~connected /\ writer = "down"
    /\ connected' = TRUE
    /\ writer' = "starting"
    /\ usedChanged' = (sent # Nothing)
    /\ UNCHANGED <<queue, queued, stateVars, disconnects, pending, inHand, wire, acks, delivered>>

\* The websocket fails, or remote control is switched off: what is on the way
\* in either direction is lost.
Disconnect ==
    /\ connected /\ disconnects < MaxDisconnects
    /\ connected' = FALSE
    /\ disconnects' = disconnects + 1
    /\ wire' = <<>> /\ acks' = <<>>
    /\ UNCHANGED <<queue, queued, stateVars, usedChanged, writer, pending, inHand, delivered>>

\* A bug to exclude: the writer can be stopped with an event in its hand.
WriterStopsAnywhere ==
    /\ ~connected /\ writer # "down"
    /\ writer' = "down"
    /\ pending' = Nothing
    /\ UNCHANGED <<queue, queued, stateVars, usedChanged, connVars, inHand, wire, acks, delivered>>

\* The writer returns: a send failed, or it saw the shutdown token. It looks
\* at neither between taking an event and having buffered it.
WriterStops ==
    /\ ~connected /\ writer \notin {"down", "taken"}
    /\ writer' = "down"
    /\ pending' = Nothing
    /\ UNCHANGED <<queue, queued, stateVars, usedChanged, connVars, inHand, wire, acks, delivered>>

-----------------------------------------------------------------------------
(* The writer: run_server_writer_inner *)

\* A bug to exclude: a new connection starts with new messages only.
SnapshotEmpty ==
    /\ writer = "starting" /\ connected
    /\ writer' = "replay"
    /\ UNCHANGED <<queue, queued, stateVars, usedChanged, connVars, pending, inHand, wire, acks,
                   delivered>>

\* A snapshot of the buffer is replayed first.
Snapshot ==
    /\ writer = "starting" /\ connected
    /\ pending' = buffer
    /\ writer' = "replay"
    /\ UNCHANGED <<queue, queued, stateVars, usedChanged, connVars, inHand, wire, acks, delivered>>

\* One envelope goes out over the websocket.
Write(s) ==
    /\ connected /\ pending[s] # <<>>
    /\ wire' = Append(wire, Head(pending[s]))
    /\ pending' = [pending EXCEPT ![s] = Tail(@)]
    /\ UNCHANGED <<queue, queued, stateVars, usedChanged, connVars, writer, inHand, acks, delivered>>

\* The streams are replayed in the order of a hash map: in any order.
ReplaySend(s) == writer = "replay" /\ Write(s)

\* A bug to exclude: the replay ends before all of the snapshot is out.
ReplayDoneEarly ==
    /\ writer = "replay"
    /\ writer' = "check"
    /\ pending' = Nothing
    /\ UNCHANGED <<queue, queued, stateVars, usedChanged, connVars, inHand, wire, acks, delivered>>

ReplayDone ==
    /\ writer = "replay" /\ pending = Nothing
    /\ writer' = "check"
    /\ UNCHANGED <<queue, queued, stateVars, usedChanged, connVars, pending, inHand, wire, acks,
                   delivered>>

\* A bug to exclude: one message too many is let in.
CheckCapacityInclusive ==
    /\ writer = "check"
    /\ writer' = IF used <= Capacity THEN "recv" ELSE "wait"
    /\ UNCHANGED <<queue, queued, stateVars, usedChanged, connVars, pending, inHand, wire, acks,
                   delivered>>

\* outbound_has_capacity decides which arm of the select is enabled.
CheckCapacity ==
    /\ writer = "check"
    /\ writer' = IF used < Capacity THEN "recv" ELSE "wait"
    /\ UNCHANGED <<queue, queued, stateVars, usedChanged, connVars, pending, inHand, wire, acks,
                   delivered>>

\* used_rx.changed() resolves and the loop looks again.
CapacityChanged ==
    /\ writer = "wait" /\ usedChanged
    /\ usedChanged' = FALSE
    /\ writer' = "check"
    /\ UNCHANGED <<queue, queued, stateVars, connVars, pending, inHand, wire, acks, delivered>>

Receive ==
    /\ writer = "recv" /\ queue # <<>>
    /\ inHand' = <<Head(queue)>>
    /\ queue' = Tail(queue)
    /\ writer' = "taken"
    /\ UNCHANGED <<queued, stateVars, usedChanged, connVars, pending, wire, acks, delivered>>

\* Under the state lock: number the event, split it and buffer its envelopes.
\* A message that is too large for any split gets no envelope but keeps its
\* seq_id; a failed split drops the event and its number is used again.
Number ==
    /\ writer = "taken"
    /\ LET s   == inHand[1].stream
           n   == inHand[1].split
           new == SplitEnvelope(s, nextSeq[s], n)
       IN IF n = SplitError
          THEN /\ writer' = "check"
               /\ UNCHANGED <<stateVars, usedChanged, pending>>
          ELSE /\ buffer' = [buffer EXCEPT ![s] = @ \o new]
               /\ sent' = [sent EXCEPT ![s] = @ \o new]
               /\ used' = used + n
               /\ usedChanged' = Notified(n)
               /\ nextSeq' = [nextSeq EXCEPT ![s] = @ + 1]
               /\ pending' = [pending EXCEPT ![s] = new]
               /\ writer' = "send"
    /\ inHand' = <<>>
    /\ UNCHANGED <<queue, queued, connVars, wire, acks, delivered>>

Send(s) == writer = "send" /\ Write(s)

\* write_complete_tx is notified and the loop goes round.
SendDone ==
    /\ writer = "send" /\ pending = Nothing
    /\ writer' = "check"
    /\ UNCHANGED <<queue, queued, stateVars, usedChanged, connVars, pending, inHand, wire, acks,
                   delivered>>

-----------------------------------------------------------------------------
(* The backend, and the reader's handling of its acknowledgements *)

BackendTakes ==
    /\ wire # <<>>
    /\ LET e == Head(wire)
           got == delivered[e.stream]
       IN delivered' = IF got = <<>> \/ Before(got[Len(got)], e)
                       THEN [delivered EXCEPT ![e.stream] = Append(@, e)]
                       ELSE delivered
    /\ wire' = Tail(wire)
    /\ UNCHANGED <<queue, queued, stateVars, usedChanged, connVars, writer, pending, inHand, acks>>

\* The acknowledgement of an envelope taken: by its segment, or of the whole
\* seq_id once the last segment is there.
BackendAcks(s, i) ==
    /\ connected /\ Len(acks) < MaxAcks
    /\ i \in 1..Len(delivered[s])
    /\ LET e == delivered[s][i]
       IN \E seg \in {e.seg} \cup (IF e.last THEN {NoSegment} ELSE {}) :
             acks' = Append(acks, [stream |-> s, seq |-> e.seq, seg |-> seg])
    /\ UNCHANGED <<queue, queued, stateVars, usedChanged, connVars, writer, pending, inHand, wire,
                   delivered>>

\* record_client_message_delivery: the reader applies an Ack to the buffer.
ReaderAck ==
    /\ acks # <<>>
    /\ LET ack == Head(acks)
           buf == buffer[ack.stream]
       IN \E n \in 0..Len(buf) :
             /\ AcksFirst(n, buf, ack)
             /\ buffer' = [buffer EXCEPT ![ack.stream] = SubSeq(buf, n + 1, Len(buf))]
             /\ used' = used - n
             /\ usedChanged' = Notified(n)
    /\ acks' = Tail(acks)
    /\ UNCHANGED <<queue, queued, nextSeq, sent, connVars, writer, pending, inHand, wire, delivered>>

WriterStep ==
    \/ WriterStops \/ Snapshot \/ ReplayDone \/ CheckCapacity \/ CapacityChanged
    \/ Receive \/ Number \/ SendDone
    \/ \E s \in Streams : ReplaySend(s) \/ Send(s)

Next ==
    \/ \E s \in Streams, n \in Splits : Enqueue(s, n)
    \/ Connect \/ Disconnect
    \/ WriterStep
    \/ BackendTakes \/ ReaderAck
    \/ \E s \in Streams : \E i \in 1..Len(delivered[s]) : BackendAcks(s, i)

\* The loop reconnects after every loss; the tasks run; the backend takes what
\* reaches it and acknowledges the last envelope it has of a stream again and
\* again. Connections may be lost, but not for ever (MaxDisconnects).
Fairness ==
    /\ WF_vars(Connect) /\ WF_vars(WriterStep)
    /\ WF_vars(BackendTakes) /\ WF_vars(ReaderAck)
    /\ \A s \in Streams : SF_vars(BackendAcks(s, Len(delivered[s])))

Spec == Init /\ [][Next]_vars
FairSpec == Spec /\ Fairness

-----------------------------------------------------------------------------
(* Properties *)

Envelopes == [stream : Streams, seq : Nat, seg : Nat, last : BOOLEAN]

TypeOK ==
    /\ queue \in Seq([stream : Streams, split : Splits]) /\ Len(queue) <= Capacity
    /\ queued \in 0..MaxMessages
    /\ nextSeq \in [Streams -> Nat]
    /\ buffer \in [Streams -> Seq(Envelopes)]
    /\ used \in Int /\ usedChanged \in BOOLEAN
    /\ connected \in BOOLEAN /\ disconnects \in 0..MaxDisconnects
    /\ writer \in WriterStates
    /\ pending \in [Streams -> Seq(Envelopes)]
    /\ inHand \in Seq([stream : Streams, split : Splits])
    /\ (writer = "taken") <=> (Len(inHand) = 1)
    /\ wire \in Seq(Envelopes)
    /\ acks \in Seq([stream : Streams, seq : Nat, seg : Nat \cup {NoSegment}])
    /\ sent \in [Streams -> Seq(Envelopes)]
    /\ delivered \in [Streams -> Seq(Envelopes)]

Buffered == UNION {{buffer[s][i] : i \in 1..Len(buffer[s])} : s \in Streams}

\* The count the writer's back-pressure looks at is the number of envelopes in
\* the buffer (BoundedOutboundBuffer keeps it beside the map, by one up and one
\* down), and it passes CHANNEL_CAPACITY by at most the segments of one message.
UsedExact ==
    /\ used = Cardinality(Buffered)
    /\ used <= Capacity - 1 + MaxSegments

\* Every envelope that the backend has not taken is still in the buffer, ready
\* to be replayed, whatever acknowledgements arrived late, twice, by segment or
\* by message, and whenever the connection went away.
Retained ==
    \A s \in Streams : \A i \in 1..Len(sent[s]) :
        i > Len(delivered[s]) => \E j \in 1..Len(buffer[s]) : buffer[s][j] = sent[s][i]

Delivery == INSTANCE ReliableStream WITH accepted <- sent, arrived <- delivered

\* Across reconnects the backend sees of each stream what the writer buffered
\* for it, in order, without a gap and without a repetition: the transport
\* implements the reliable stream.
DeliverySafe == Delivery!Safe

\* And every envelope that was buffered reaches the backend in the end.
DeliveryLive == Delivery!Live

\* A full buffer never stops the writer for good: once the clients have nothing
\* more to say, the queue and the buffer drain.
EventuallyDrained == <>[](queue = <<>> /\ inHand = <<>> /\ buffer = Nothing)
=============================================================================
