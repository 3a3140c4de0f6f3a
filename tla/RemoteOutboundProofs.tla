------------------------ MODULE RemoteOutboundProofs ------------------------
(***************************************************************************)
(* For any streams, capacity, segment limit and number of lost             *)
(* connections: the writer's count is exact, what the backend lacks is     *)
(* still buffered, and the outbound half of remote control implements the  *)
(* reliable stream (its safety part).                                      *)
(*                                                                         *)
(* The argument: buffer and pending hold suffixes of what was ever sent on *)
(* a stream, the backend holds a prefix; the buffer's suffix starts no     *)
(* later than where the backend's prefix ends, because an acknowledgement  *)
(* only covers what the backend has; and on the wire every envelope comes  *)
(* behind its predecessor unless the backend has that one already.         *)
(***************************************************************************)
EXTENDS RemoteOutbound, FiniteSetTheorems, SequenceTheorems, TLAPS

-----------------------------------------------------------------------------
(* The inductive invariant *)

\* What was sent on a stream is in cursor order, below the next seq_id, and a
\* message's last segment is followed by a later message only.
SentOrdered ==
    \A s \in Streams :
        /\ \A i \in 1..Len(sent[s]) : sent[s][i].stream = s /\ sent[s][i].seq < nextSeq[s]
        /\ \A i, j \in 1..Len(sent[s]) :
              i < j => /\ Before(sent[s][i], sent[s][j])
                       /\ sent[s][i].last => sent[s][i].seq < sent[s][j].seq

IsSuffix(t, s) ==
    /\ Len(t) <= Len(s)
    /\ \A i \in 1..Len(t) : t[i] = s[Len(s) - Len(t) + i]

BufferSuffix ==
    \A s \in Streams :
        /\ IsSuffix(buffer[s], sent[s])
        /\ Len(sent[s]) - Len(buffer[s]) <= Len(delivered[s])

PendingSuffix == \A s \in Streams : IsSuffix(pending[s], sent[s])

PendingEmpty == writer \notin {"replay", "send"} => pending = Nothing

DeliveredPrefix ==
    \A s \in Streams :
        /\ Len(delivered[s]) <= Len(sent[s])
        /\ \A i \in 1..Len(delivered[s]) : delivered[s][i] = sent[s][i]

\* Envelope k of stream s is at the backend or among the first n on the wire.
Reached(s, k, n) ==
    \/ k <= Len(delivered[s])
    \/ \E j \in 1..n : wire[j] = sent[s][k]

WireLinked ==
    \A i \in 1..Len(wire) : \E k \in 1..Len(sent[wire[i].stream]) :
        /\ wire[i] = sent[wire[i].stream][k]
        /\ Reached(wire[i].stream, k - 1, i - 1)

\* On a connection whose snapshot is taken, all that is not pending is out.
WireCovers ==
    connected /\ writer \notin {"down", "starting"} =>
        \A s \in Streams : \A k \in 1..(Len(sent[s]) - Len(pending[s])) :
            Reached(s, k, Len(wire))

AcksCovered ==
    \A i \in 1..Len(acks) :
        /\ acks[i].seq < nextSeq[acks[i].stream]
        /\ \A k \in 1..Len(sent[acks[i].stream]) :
              IsAcked(sent[acks[i].stream][k], acks[i]) => k <= Len(delivered[acks[i].stream])

RoomWhenReceiving == writer \in {"recv", "taken"} => used < Capacity

StreamInv == SentOrdered /\ BufferSuffix /\ PendingSuffix /\ PendingEmpty /\ DeliveredPrefix
WireInv == WireLinked /\ WireCovers /\ AcksCovered
UsedInv == UsedExact /\ RoomWhenReceiving /\ IsFiniteSet(Buffered)

IInv == TypeOK /\ StreamInv /\ WireInv /\ UsedInv

USE ConstantsAssumption

-----------------------------------------------------------------------------
(* The type invariant *)

\* Segment i of the n that an event of stream s becomes.
Segment(s, q, n, i) == [stream |-> s, seq |-> q, seg |-> i - 1, last |-> i = n]

LEMMA SplitType ==
    ASSUME NEW s \in Streams, NEW q \in Nat, NEW n \in Nat
    PROVE  /\ SplitEnvelope(s, q, n) \in Seq(Envelopes)
           /\ Len(SplitEnvelope(s, q, n)) = n
           /\ \A i \in 1..n : SplitEnvelope(s, q, n)[i] = Segment(s, q, n, i)
<1> DEFINE f == SplitEnvelope(s, q, n)
<1>1. f = [i \in 1..n |-> Segment(s, q, n, i)]
  BY DEF SplitEnvelope, Segment
<1>2. \A i \in 1..n : Segment(s, q, n, i) \in Envelopes
  <2> TAKE i \in 1..n
  <2>1. (i = n) \in BOOLEAN OBVIOUS
  <2>2. i - 1 \in Nat OBVIOUS
  <2> QED BY <2>1, <2>2 DEF Envelopes, Segment
<1>3. f \in [1..n -> Envelopes]
  BY <1>1, <1>2
<1>4. f \in Seq(Envelopes) BY <1>3, SeqDef
<1>5. Len(f) = n BY <1>4, <1>3, LenProperties, <1>1
<1> QED BY <1>1, <1>4, <1>5

Events == [stream : Streams, split : Splits]

Acks == [stream : Streams, seq : Nat, seg : Nat \cup {NoSegment}]

LEMMA EmptyTypes ==
    /\ <<>> \in Seq(Events) /\ <<>> \in Seq(Envelopes) /\ <<>> \in Seq(Acks)
    /\ Len(<<>>) = 0
    /\ Nothing \in [Streams -> Seq(Envelopes)]
<1>1. /\ <<>> \in Seq(Events) /\ <<>> \in Seq(Envelopes) /\ <<>> \in Seq(Acks)
      /\ Len(<<>>) = 0
  BY EmptySeq
<1> QED BY <1>1 DEF Nothing

LEMMA InitType == Init => TypeOK
<1> SUFFICES ASSUME Init PROVE TypeOK
  OBVIOUS
<1>1. [s \in Streams |-> 1] \in [Streams -> Nat] OBVIOUS
<1>2. queue \in Seq(Events) /\ Len(queue) <= Capacity /\ inHand \in Seq(Events)
  BY EmptyTypes DEF Init
<1>3. (writer = "taken") <=> (Len(inHand) = 1)
  BY EmptyTypes DEF Init
<1>4. wire \in Seq(Envelopes) /\ acks \in Seq(Acks)
  BY EmptyTypes DEF Init
<1>5. queued \in 0..MaxMessages /\ disconnects \in 0..MaxDisconnects /\ used \in Int
  BY DEF Init
<1>6. connected \in BOOLEAN /\ usedChanged \in BOOLEAN /\ writer \in WriterStates
  BY DEF Init, WriterStates
<1>7. /\ buffer \in [Streams -> Seq(Envelopes)] /\ pending \in [Streams -> Seq(Envelopes)]
      /\ sent \in [Streams -> Seq(Envelopes)] /\ delivered \in [Streams -> Seq(Envelopes)]
  BY EmptyTypes DEF Init
<1>8. nextSeq \in [Streams -> Nat] BY <1>1 DEF Init
<1> QED BY <1>2, <1>3, <1>4, <1>5, <1>6, <1>7, <1>8 DEF TypeOK, Events, Acks

LEMMA NextType == TypeOK /\ [Next]_vars => TypeOK'
<1> SUFFICES ASSUME TypeOK, [Next]_vars PROVE TypeOK'
  OBVIOUS
<1>0. Nothing \in [Streams -> Seq(Envelopes)] BY DEF Nothing
<1>1. ASSUME NEW s \in Streams, NEW n \in Splits, Enqueue(s, n) PROVE TypeOK'
  <2>1. [stream |-> s, split |-> n] \in [stream : Streams, split : Splits] OBVIOUS
  <2> QED BY <1>1, <2>1, AppendProperties DEF Enqueue, TypeOK, stateVars, connVars
<1>2. ASSUME Connect PROVE TypeOK'
  BY <1>2 DEF Connect, TypeOK, stateVars, WriterStates
<1>3. ASSUME Disconnect PROVE TypeOK'
  <2>1. wire' \in Seq(Envelopes) /\ acks' \in Seq(Acks)
    BY <1>3, EmptyTypes DEF Disconnect
  <2>2. connected' \in BOOLEAN BY <1>3 DEF Disconnect
  <2>3. disconnects' \in 0..MaxDisconnects BY <1>3 DEF Disconnect, TypeOK
  <2> QED BY <1>3, <2>1, <2>2, <2>3 DEF Disconnect, TypeOK, stateVars, Acks
<1>4. ASSUME WriterStops PROVE TypeOK'
  BY <1>4, <1>0 DEF WriterStops, TypeOK, stateVars, connVars, WriterStates
<1>5. ASSUME Snapshot PROVE TypeOK'
  BY <1>5 DEF Snapshot, TypeOK, stateVars, connVars, WriterStates
<1>6. ASSUME NEW s \in Streams, Write(s) PROVE TypeOK'
  <2>1. Head(pending[s]) \in Envelopes /\ Tail(pending[s]) \in Seq(Envelopes)
    BY <1>6, HeadTailProperties DEF Write, TypeOK
  <2> QED BY <1>6, <2>1, AppendProperties DEF Write, TypeOK, stateVars, connVars
<1>7. ASSUME ReplayDone \/ CheckCapacity \/ CapacityChanged \/ SendDone PROVE TypeOK'
  BY <1>7 DEF ReplayDone, CheckCapacity, CapacityChanged, SendDone, TypeOK, stateVars, connVars,
              WriterStates
<1>8. ASSUME Receive PROVE TypeOK'
  <2>1. queue \in Seq(Events) /\ queue # <<>> BY <1>8 DEF Receive, TypeOK, Events
  <2>2. Head(queue) \in Events /\ Tail(queue) \in Seq(Events) /\ Len(Tail(queue)) = Len(queue) - 1
        /\ Len(queue) \in Nat
    BY <2>1, HeadTailProperties, LenProperties
  <2>3. <<Head(queue)>> \in Seq(Events) /\ Len(<<Head(queue)>>) = 1
    BY <2>2
  <2>4. queue' \in Seq(Events) /\ Len(queue') <= Capacity
    BY <1>8, <2>2 DEF Receive, TypeOK
  <2>5. inHand' \in Seq(Events) /\ (writer' = "taken" <=> Len(inHand') = 1)
    BY <1>8, <2>3 DEF Receive
  <2> QED BY <1>8, <2>4, <2>5 DEF Receive, TypeOK, stateVars, connVars, WriterStates, Events
<1>9. ASSUME Number PROVE TypeOK'
  <2> DEFINE s == inHand[1].stream
             n == inHand[1].split
             new == SplitEnvelope(s, nextSeq[s], n)
  <2>1. s \in Streams /\ n \in Splits
    <3>1. inHand \in Seq(Events) /\ Len(inHand) = 1 BY <1>9 DEF Number, TypeOK, Events
    <3>2. inHand[1] \in Events BY <3>1, ElementOfSeq
    <3> QED BY <3>2 DEF Events
  <2>2. CASE n = SplitError
    BY <1>9, <2>2, EmptyTypes DEF Number, TypeOK, stateVars, connVars, WriterStates, Events
  <2>3. CASE n # SplitError
    <3>1. n \in Nat BY <2>1, <2>3 DEF Splits
    <3>0. nextSeq[s] \in Nat BY <2>1 DEF TypeOK
    <3>2. new \in Seq(Envelopes) BY <2>1, <3>0, <3>1, SplitType
    <3>3. /\ buffer[s] \o new \in Seq(Envelopes)
          /\ sent[s] \o new \in Seq(Envelopes)
      BY <3>2, <2>1, ConcatProperties DEF TypeOK
    <3> HIDE DEF new
    <3>5. /\ buffer' = [buffer EXCEPT ![s] = buffer[s] \o new]
          /\ sent' = [sent EXCEPT ![s] = sent[s] \o new]
          /\ used' = used + n
          /\ usedChanged' = Notified(n)
          /\ nextSeq' = [nextSeq EXCEPT ![s] = nextSeq[s] + 1]
          /\ pending' = [pending EXCEPT ![s] = new]
          /\ writer' = "send" /\ inHand' = <<>>
          /\ UNCHANGED <<queue, queued, connVars, wire, acks, delivered>>
      BY <1>9, <2>3 DEF Number, new
    <3>4. Notified(n) \in BOOLEAN BY DEF Notified, TypeOK
    <3> HIDE DEF s, n
    <3>6. buffer' \in [Streams -> Seq(Envelopes)] /\ sent' \in [Streams -> Seq(Envelopes)]
      BY <2>1, <3>3, <3>5 DEF TypeOK
    <3>7. pending' \in [Streams -> Seq(Envelopes)] /\ nextSeq' \in [Streams -> Nat]
      BY <2>1, <3>0, <3>2, <3>5 DEF TypeOK
    <3>8. used' \in Int /\ usedChanged' \in BOOLEAN /\ writer' \in WriterStates
      BY <3>1, <3>4, <3>5 DEF TypeOK, WriterStates
    <3>9. inHand' \in Seq(Events) /\ (writer' = "taken" <=> Len(inHand') = 1)
      BY <3>5, EmptyTypes
    <3> QED BY <3>5, <3>6, <3>7, <3>8, <3>9 DEF TypeOK, connVars, Events
  <2> QED BY <2>2, <2>3
<1>10. ASSUME BackendTakes PROVE TypeOK'
  <2>1. Head(wire) \in Envelopes /\ Tail(wire) \in Seq(Envelopes)
    BY <1>10, HeadTailProperties DEF BackendTakes, TypeOK
  <2>2. Head(wire).stream \in Streams BY <2>1 DEF Envelopes
  <2>3. Append(delivered[Head(wire).stream], Head(wire)) \in Seq(Envelopes)
    BY <2>1, <2>2, AppendProperties DEF TypeOK
  <2> QED BY <1>10, <2>1, <2>2, <2>3 DEF BackendTakes, TypeOK, stateVars, connVars
<1>11. ASSUME NEW s \in Streams, NEW i \in 1..Len(delivered[s]), BackendAcks(s, i) PROVE TypeOK'
  <2> DEFINE Ack == [stream : Streams, seq : Nat, seg : Nat \cup {NoSegment}]
  <2>1. delivered[s][i] \in Envelopes BY ElementOfSeq DEF TypeOK
  <2>2. PICK seg \in {delivered[s][i].seg} \cup {NoSegment} :
          acks' = Append(acks, [stream |-> s, seq |-> delivered[s][i].seq, seg |-> seg])
    BY <1>11 DEF BackendAcks
  <2>3. [stream |-> s, seq |-> delivered[s][i].seq, seg |-> seg] \in Ack
    BY <2>1 DEF Envelopes
  <2>4. acks' \in Seq(Ack) BY <2>2, <2>3, AppendProperties DEF TypeOK
  <2> QED BY <1>11, <2>4 DEF BackendAcks, TypeOK, stateVars, connVars
<1>12. ASSUME ReaderAck PROVE TypeOK'
  <2> DEFINE ack == Head(acks)
             buf == buffer[ack.stream]
  <2>0. acks \in Seq(Acks) /\ acks # <<>> BY <1>12 DEF ReaderAck, TypeOK, Acks
  <2>1. ack.stream \in Streams /\ Tail(acks) \in Seq(Acks)
    <3>1. ack \in Acks /\ Tail(acks) \in Seq(Acks) BY <2>0, HeadTailProperties
    <3> QED BY <3>1 DEF Acks
  <2>2. buf \in Seq(Envelopes) BY <2>1 DEF TypeOK
  <2>3. PICK n \in 0..Len(buf) :
          /\ buffer' = [buffer EXCEPT ![ack.stream] = SubSeq(buf, n + 1, Len(buf))]
          /\ used' = used - n
          /\ usedChanged' = Notified(n)
    BY <1>12 DEF ReaderAck
  <2>4. SubSeq(buf, n + 1, Len(buf)) \in Seq(Envelopes)
    <3>1. Len(buf) \in Nat BY <2>2, LenProperties
    <3>2. \A i \in (n + 1)..Len(buf) : buf[i] \in Envelopes BY <2>2, <3>1, ElementOfSeq
    <3> HIDE DEF buf
    <3> QED BY <3>1, <3>2, SubSeqProperties
  <2>5. /\ acks' = Tail(acks)
        /\ UNCHANGED <<queue, queued, nextSeq, sent, connVars, writer, pending, inHand, wire,
                      delivered>>
    BY <1>12 DEF ReaderAck
  <2>6. used' \in Int /\ usedChanged' \in BOOLEAN
    BY <2>3, <2>2, LenProperties DEF TypeOK, Notified
  <2>7. buffer' \in [Streams -> Seq(Envelopes)] BY <2>3, <2>4, <2>1 DEF TypeOK
  <2> QED BY <2>1, <2>5, <2>6, <2>7 DEF TypeOK, connVars, Acks
<1>13. ASSUME UNCHANGED vars PROVE TypeOK'
  BY <1>13 DEF TypeOK, vars, stateVars, connVars
<1> QED
  BY <1>1, <1>2, <1>3, <1>4, <1>5, <1>6, <1>7, <1>8, <1>9, <1>10, <1>11, <1>12, <1>13
  DEF Next, WriterStep, ReplaySend, Send

\* Every reachable state of the outbound half has its type; in particular an
\* event taken from the queue is never left in the hands of a stopped writer.
THEOREM TypeCorrect == Spec => []TypeOK
<1>1. Init => TypeOK BY InitType
<1>2. TypeOK /\ [Next]_vars => TypeOK' BY NextType
<1> QED BY <1>1, <1>2, PTL DEF Spec

-----------------------------------------------------------------------------
(* What the steps do to the sequences, element by element *)

LEMMA Lengths ==
    ASSUME TypeOK, NEW s \in Streams
    PROVE  /\ Len(sent[s]) \in Nat /\ Len(buffer[s]) \in Nat
           /\ Len(pending[s]) \in Nat /\ Len(delivered[s]) \in Nat
           /\ sent[s] \in Seq(Envelopes) /\ buffer[s] \in Seq(Envelopes)
           /\ pending[s] \in Seq(Envelopes) /\ delivered[s] \in Seq(Envelopes)
           /\ \A i \in 1..Len(sent[s]) : sent[s][i].seq \in Nat /\ sent[s][i].seg \in Nat
<1>1. /\ sent[s] \in Seq(Envelopes) /\ buffer[s] \in Seq(Envelopes)
      /\ pending[s] \in Seq(Envelopes) /\ delivered[s] \in Seq(Envelopes)
  BY DEF TypeOK
<1>2. \A i \in 1..Len(sent[s]) : sent[s][i] \in Envelopes BY <1>1, ElementOfSeq
<1>3. \A i \in 1..Len(sent[s]) : sent[s][i].seq \in Nat /\ sent[s][i].seg \in Nat
  BY <1>2 DEF Envelopes
<1> QED BY <1>1, <1>3, LenProperties

LEMMA SuffixIndex ==
    ASSUME NEW a \in Nat, NEW b \in Nat, NEW i \in Int, b <= a, 1 <= i, i <= b
    PROVE  a - b + i \in 1..a
OBVIOUS

LEMMA SuffixFirst ==
    ASSUME NEW a \in Nat, NEW b \in Nat, b <= a, 0 < b
    PROVE  a - b + 1 \in 1..a
OBVIOUS

LEMMA SuffixShift ==
    ASSUME NEW a \in Nat, NEW b \in Nat, NEW i \in Nat
    PROVE  a - b + (i + 1) = a - (b - 1) + i
OBVIOUS

LEMMA SentInjective ==
    ASSUME TypeOK, SentOrdered, NEW s \in Streams,
           NEW i \in 1..Len(sent[s]), NEW j \in 1..Len(sent[s])
    PROVE  /\ sent[s][i] = sent[s][j] => i = j
           /\ Before(sent[s][i], sent[s][j]) <=> i < j
<1>1. /\ i < j => Before(sent[s][i], sent[s][j])
      /\ j < i => Before(sent[s][j], sent[s][i])
  BY DEF SentOrdered
<1>2. i \in Nat /\ j \in Nat BY Lengths
<1>3. /\ sent[s][i].seq \in Nat /\ sent[s][i].seg \in Nat
      /\ sent[s][j].seq \in Nat /\ sent[s][j].seg \in Nat
  BY Lengths
<1> QED BY <1>1, <1>2, <1>3 DEF Before

LEMMA ConcatDoes ==
    ASSUME NEW a \in Seq(Envelopes), NEW b \in Seq(Envelopes)
    PROVE  /\ Len(a \o b) = Len(a) + Len(b)
           /\ \A i \in 1..Len(a) : (a \o b)[i] = a[i]
           /\ \A i \in 1..Len(b) : (a \o b)[Len(a) + i] = b[i]
<1>1. Len(a) \in Nat /\ Len(b) \in Nat BY LenProperties
<1>2. /\ Len(a \o b) = Len(a) + Len(b)
      /\ \A i \in 1 .. Len(a) + Len(b) : (a \o b)[i] =
            IF i <= Len(a) THEN a[i] ELSE b[i - Len(a)]
  BY ConcatProperties
<1> QED BY <1>1, <1>2

\* The effect of numbering an event of stream s that becomes n envelopes.
NumberEffect(s, n) ==
    /\ n \in 0..MaxSegments
    /\ Len(sent'[s]) = Len(sent[s]) + n
    /\ \A i \in 1..Len(sent[s]) : sent'[s][i] = sent[s][i]
    /\ Len(buffer'[s]) = Len(buffer[s]) + n
    /\ \A i \in 1..Len(buffer[s]) : buffer'[s][i] = buffer[s][i]
    /\ Len(pending'[s]) = n
    /\ \A i \in 1..n :
          /\ sent'[s][Len(sent[s]) + i] = Segment(s, nextSeq[s], n, i)
          /\ buffer'[s][Len(buffer[s]) + i] = Segment(s, nextSeq[s], n, i)
          /\ pending'[s][i] = Segment(s, nextSeq[s], n, i)
    /\ nextSeq'[s] = nextSeq[s] + 1
    /\ \A t \in Streams \ {s} :
          /\ sent'[t] = sent[t] /\ buffer'[t] = buffer[t]
          /\ pending'[t] = pending[t] /\ nextSeq'[t] = nextSeq[t]
    /\ used' = used + n /\ writer' = "send"
    /\ UNCHANGED <<connected, wire, acks, delivered>>

LEMMA NumberDoes ==
    ASSUME TypeOK, Number
    PROVE  \/ UNCHANGED <<stateVars, pending, connected, wire, acks, delivered>> /\ writer' = "check"
           \/ \E s \in Streams, n \in Nat : NumberEffect(s, n)
<1> DEFINE s == inHand[1].stream
           n == inHand[1].split
           new == SplitEnvelope(s, nextSeq[s], n)
<1>1. s \in Streams /\ n \in Splits
  <2>1. inHand \in Seq(Events) /\ Len(inHand) = 1 BY DEF Number, TypeOK, Events
  <2>2. inHand[1] \in Events BY <2>1, ElementOfSeq
  <2> QED BY <2>2 DEF Events
<1>2. CASE n = SplitError
  BY <1>2 DEF Number, connVars
<1>3. CASE n # SplitError
  <2>1. n \in Nat /\ n \in 0..MaxSegments /\ nextSeq[s] \in Nat
    BY <1>1, <1>3 DEF Splits, TypeOK
  <2>2. /\ new \in Seq(Envelopes) /\ Len(new) = n
        /\ \A i \in 1..n : new[i] = Segment(s, nextSeq[s], n, i)
    BY <1>1, <2>1, SplitType
  <2>3. /\ buffer' = [buffer EXCEPT ![s] = buffer[s] \o new]
        /\ sent' = [sent EXCEPT ![s] = sent[s] \o new]
        /\ used' = used + n /\ writer' = "send"
        /\ nextSeq' = [nextSeq EXCEPT ![s] = nextSeq[s] + 1]
        /\ pending' = [pending EXCEPT ![s] = new]
        /\ UNCHANGED <<connected, wire, acks, delivered>>
    BY <1>3 DEF Number, connVars
  <2> HIDE DEF new, s, n
  <2>4. /\ sent'[s] = sent[s] \o new /\ buffer'[s] = buffer[s] \o new /\ pending'[s] = new
        /\ nextSeq'[s] = nextSeq[s] + 1
        /\ \A t \in Streams \ {s} :
              /\ sent'[t] = sent[t] /\ buffer'[t] = buffer[t]
              /\ pending'[t] = pending[t] /\ nextSeq'[t] = nextSeq[t]
    BY <1>1, <2>3 DEF TypeOK
  <2>5. /\ Len(sent'[s]) = Len(sent[s]) + n
        /\ \A i \in 1..Len(sent[s]) : sent'[s][i] = sent[s][i]
        /\ \A i \in 1..n : sent'[s][Len(sent[s]) + i] = new[i]
    <3>1. sent[s] \in Seq(Envelopes) /\ Len(sent[s]) \in Nat BY <1>1, Lengths
    <3>2. /\ Len(sent[s] \o new) = Len(sent[s]) + Len(new)
          /\ \A i \in 1..Len(sent[s]) : (sent[s] \o new)[i] = sent[s][i]
          /\ \A i \in 1..Len(new) : (sent[s] \o new)[Len(sent[s]) + i] = new[i]
      BY <3>1, <2>2, ConcatDoes
    <3> QED BY <2>4, <3>2, <2>2
  <2>6. /\ Len(buffer'[s]) = Len(buffer[s]) + n
        /\ \A i \in 1..Len(buffer[s]) : buffer'[s][i] = buffer[s][i]
        /\ \A i \in 1..n : buffer'[s][Len(buffer[s]) + i] = new[i]
    <3>1. buffer[s] \in Seq(Envelopes) /\ Len(buffer[s]) \in Nat BY <1>1, Lengths
    <3>2. /\ Len(buffer[s] \o new) = Len(buffer[s]) + Len(new)
          /\ \A i \in 1..Len(buffer[s]) : (buffer[s] \o new)[i] = buffer[s][i]
          /\ \A i \in 1..Len(new) : (buffer[s] \o new)[Len(buffer[s]) + i] = new[i]
      BY <3>1, <2>2, ConcatDoes
    <3> QED BY <2>4, <3>2, <2>2
  <2>7. NumberEffect(s, n)
    BY <2>1, <2>2, <2>3, <2>4, <2>5, <2>6 DEF NumberEffect
  <2> QED BY <1>1, <2>1, <2>7
<1> QED BY <1>2, <1>3

\* The effect of writing the first pending envelope of stream s.
LEMMA WriteDoes ==
    ASSUME TypeOK, NEW s \in Streams, Write(s)
    PROVE  /\ Len(pending[s]) > 0 /\ Len(pending'[s]) = Len(pending[s]) - 1
           /\ \A i \in 1..Len(pending'[s]) : pending'[s][i] = pending[s][i + 1]
           /\ \A t \in Streams \ {s} : pending'[t] = pending[t]
           /\ Len(wire') = Len(wire) + 1 /\ Len(wire) \in Nat
           /\ \A i \in 1..Len(wire) : wire'[i] = wire[i]
           /\ wire'[Len(wire) + 1] = pending[s][1]
           /\ UNCHANGED <<stateVars, connected, writer, acks, delivered>>
<1>1. pending[s] \in Seq(Envelopes) /\ pending[s] # <<>> /\ wire \in Seq(Envelopes)
  BY DEF Write, TypeOK
<1>2. /\ Len(pending[s]) \in Nat /\ Len(pending[s]) > 0 /\ Len(wire) \in Nat
  BY <1>1, EmptySeq, LenProperties
<1>3. /\ Len(Tail(pending[s])) = Len(pending[s]) - 1
      /\ \A i \in 1..Len(pending[s]) - 1 : Tail(pending[s])[i] = pending[s][i + 1]
      /\ Head(pending[s]) = pending[s][1] /\ Head(pending[s]) \in Envelopes
  BY <1>1, <1>2, HeadTailProperties
<1>4. pending'[s] = Tail(pending[s]) /\ \A t \in Streams \ {s} : pending'[t] = pending[t]
  BY DEF Write, TypeOK
<1>5. /\ Len(wire') = Len(wire) + 1
      /\ \A i \in 1..Len(wire) : wire'[i] = wire[i]
      /\ wire'[Len(wire) + 1] = pending[s][1]
  BY <1>1, <1>3, AppendProperties DEF Write
<1> QED BY <1>2, <1>3, <1>4, <1>5 DEF Write, connVars

-----------------------------------------------------------------------------
(* Numbering an event *)

LEMMA NumberKeepsStreams ==
    ASSUME TypeOK, TypeOK', StreamInv, NEW s \in Streams, NEW n \in Nat, NumberEffect(s, n),
           pending[s] = <<>>
    PROVE  StreamInv'
<1>1. SentOrdered'
  <2> SUFFICES ASSUME NEW t \in Streams
               PROVE /\ \A i \in 1..Len(sent'[t]) : sent'[t][i].stream = t /\ sent'[t][i].seq < nextSeq'[t]
                     /\ \A i, j \in 1..Len(sent'[t]) :
                          i < j => /\ Before(sent'[t][i], sent'[t][j])
                                   /\ sent'[t][i].last => sent'[t][i].seq < sent'[t][j].seq
    BY DEF SentOrdered
  <2>0. /\ \A i \in 1..Len(sent[t]) : sent[t][i].stream = t /\ sent[t][i].seq < nextSeq[t]
        /\ \A i, j \in 1..Len(sent[t]) :
             i < j => /\ Before(sent[t][i], sent[t][j])
                      /\ sent[t][i].last => sent[t][i].seq < sent[t][j].seq
    BY DEF StreamInv, SentOrdered
  <2>1. CASE t # s
    BY <2>0, <2>1 DEF NumberEffect
  <2>2. CASE t = s
    <3> DEFINE L == Len(sent[s])
               N(i) == Segment(s, nextSeq[s], n, i)
    <3>0. L \in Nat /\ nextSeq[s] \in Nat BY Lengths DEF TypeOK
    <3>1. \A i \in 1..n : N(i).stream = s /\ N(i).seq = nextSeq[s] /\ N(i).seg = i - 1
                           /\ (N(i).last <=> i = n)
      BY DEF Segment
    <3>2. \A i \in 1..(L + n) : \/ (i \in 1..L /\ sent'[s][i] = sent[s][i])
                                 \/ (i > L /\ i - L \in 1..n /\ sent'[s][i] = N(i - L))
      <4> TAKE i \in 1..(L + n)
      <4>1. CASE i <= L
        <5>1. i \in 1..L BY <4>1, <3>0
        <5> QED BY <5>1 DEF NumberEffect
      <4>2. CASE i > L
        <5>1. i - L \in 1..n /\ L + (i - L) = i BY <4>2, <3>0
        <5> QED BY <5>1, <4>2 DEF NumberEffect
      <4> QED BY <4>1, <4>2, <3>0
    <3>3. Len(sent'[s]) = L + n /\ nextSeq'[s] = nextSeq[s] + 1 BY DEF NumberEffect
    <3>4. \A i \in 1..L : sent[s][i].seq \in Nat /\ sent[s][i].seg \in Nat BY Lengths
    <3> HIDE DEF L, N
    <3>5. \A i \in 1..(L + n) : sent'[s][i].stream = s /\ sent'[s][i].seq < nextSeq'[s]
      <4> TAKE i \in 1..(L + n)
      <4>1. CASE i \in 1..L /\ sent'[s][i] = sent[s][i]
        BY <4>1, <2>0, <2>2, <3>0, <3>3, <3>4 DEF L
      <4>2. CASE i > L /\ i - L \in 1..n /\ sent'[s][i] = N(i - L)
        BY <4>2, <3>1, <3>0, <3>3
      <4> QED BY <4>1, <4>2, <3>2
    <3>6. ASSUME NEW i \in 1..(L + n), NEW j \in 1..(L + n), i < j
          PROVE  /\ Before(sent'[s][i], sent'[s][j])
                 /\ sent'[s][i].last => sent'[s][i].seq < sent'[s][j].seq
      <4>1. CASE j <= L
        <5>1. i \in 1..L /\ j \in 1..L /\ sent'[s][i] = sent[s][i] /\ sent'[s][j] = sent[s][j]
          BY <3>6, <4>1, <3>2, <3>0
        <5> QED BY <5>1, <2>0, <2>2, <3>6 DEF L
      <4>2. CASE j > L /\ i <= L
        <5>1. i \in 1..L /\ sent'[s][i] = sent[s][i] /\ j - L \in 1..n /\ sent'[s][j] = N(j - L)
          BY <3>6, <4>2, <3>2, <3>0
        <5>2. sent'[s][i].seq < nextSeq[s] BY <5>1, <2>0, <2>2 DEF L
        <5>3. sent'[s][j].seq = nextSeq[s] BY <5>1, <3>1
        <5> QED BY <5>2, <5>3 DEF Before
      <4>3. CASE i > L
        <5>1. /\ i - L \in 1..n /\ sent'[s][i] = N(i - L)
              /\ j - L \in 1..n /\ sent'[s][j] = N(j - L)
          BY <3>6, <4>3, <3>2, <3>0
        <5>2. /\ sent'[s][i].seq = nextSeq[s] /\ sent'[s][j].seq = nextSeq[s]
              /\ sent'[s][i].seg = (i - L) - 1 /\ sent'[s][j].seg = (j - L) - 1
              /\ (sent'[s][i].last <=> i - L = n)
          BY <5>1, <3>1
        <5>3. i - L # n BY <3>6, <5>1, <3>0
        <5>4. sent'[s][i].seg < sent'[s][j].seg BY <5>2, <3>6, <3>0
        <5> QED BY <5>2, <5>3, <5>4 DEF Before
      <4> QED BY <4>1, <4>2, <4>3, <3>0
    <3> QED BY <3>3, <3>5, <3>6, <2>2
  <2> QED BY <2>1, <2>2
<1>2. BufferSuffix'
  <2> SUFFICES ASSUME NEW t \in Streams
               PROVE /\ IsSuffix(buffer'[t], sent'[t])
                     /\ Len(sent'[t]) - Len(buffer'[t]) <= Len(delivered'[t])
    BY DEF BufferSuffix
  <2>0. /\ IsSuffix(buffer[t], sent[t]) /\ Len(sent[t]) - Len(buffer[t]) <= Len(delivered[t])
        /\ delivered' = delivered
    BY DEF StreamInv, BufferSuffix, NumberEffect
  <2>1. CASE t # s BY <2>0, <2>1 DEF NumberEffect
  <2>2. CASE t = s
    <3>1. Len(sent[s]) \in Nat /\ Len(buffer[s]) \in Nat /\ Len(delivered[s]) \in Nat BY Lengths
    <3>2. Len(sent'[s]) = Len(sent[s]) + n /\ Len(buffer'[s]) = Len(buffer[s]) + n
      BY DEF NumberEffect
    <3>3. ASSUME NEW i \in 1..Len(buffer'[s])
          PROVE  buffer'[s][i] = sent'[s][Len(sent'[s]) - Len(buffer'[s]) + i]
      <4>1. CASE i <= Len(buffer[s])
        <5>0. Len(buffer[s]) <= Len(sent[s]) BY <2>0, <2>2 DEF IsSuffix
        <5>a. i \in Int /\ i >= 1 BY <3>1, <3>2
        <5>b. i \in 1..Len(buffer[s]) BY <5>a, <4>1, <3>1
        <5>c. Len(sent[s]) - Len(buffer[s]) + i \in 1..Len(sent[s]) BY <5>0, <5>a, <4>1, <3>1, SuffixIndex
        <5>1. i \in 1..Len(buffer[s]) /\ Len(sent[s]) - Len(buffer[s]) + i \in 1..Len(sent[s])
          BY <5>b, <5>c
        <5>2. buffer'[s][i] = buffer[s][i]
              /\ sent'[s][Len(sent[s]) - Len(buffer[s]) + i] = sent[s][Len(sent[s]) - Len(buffer[s]) + i]
          BY <5>1 DEF NumberEffect
        <5>3. Len(sent'[s]) - Len(buffer'[s]) + i = Len(sent[s]) - Len(buffer[s]) + i BY <3>1, <3>2
        <5> QED BY <5>1, <5>2, <5>3, <2>0, <2>2 DEF IsSuffix
      <4>2. CASE i > Len(buffer[s])
        <5>1. i - Len(buffer[s]) \in 1..n /\ Len(buffer[s]) + (i - Len(buffer[s])) = i
              /\ Len(sent'[s]) - Len(buffer'[s]) + i = Len(sent[s]) + (i - Len(buffer[s]))
          BY <4>2, <3>1, <3>2
        <5> DEFINE m == i - Len(buffer[s])
        <5>2. m \in 1..n BY <5>1
        <5> HIDE DEF m
        <5>3. buffer'[s][Len(buffer[s]) + m] = sent'[s][Len(sent[s]) + m] BY <5>2 DEF NumberEffect
        <5> QED BY <5>1, <5>3 DEF m
      <4> QED BY <4>1, <4>2, <3>1, <3>2
    <3>4. Len(buffer[s]) <= Len(sent[s]) BY <2>0, <2>2 DEF IsSuffix
    <3>5. Len(buffer'[s]) <= Len(sent'[s]) BY <3>1, <3>2, <3>4
    <3>6. Len(sent'[s]) - Len(buffer'[s]) <= Len(delivered'[s])
      <4>1. Len(sent[s]) - Len(buffer[s]) <= Len(delivered[s]) /\ delivered'[s] = delivered[s]
        BY <2>0, <2>2
      <4>2. Len(sent'[s]) - Len(buffer'[s]) = Len(sent[s]) - Len(buffer[s]) BY <3>1, <3>2
      <4> QED BY <4>1, <4>2
    <3> QED BY <3>3, <3>5, <3>6, <2>2 DEF IsSuffix
  <2> QED BY <2>1, <2>2
<1>3. PendingSuffix'
  <2> SUFFICES ASSUME NEW t \in Streams PROVE IsSuffix(pending'[t], sent'[t])
    BY DEF PendingSuffix
  <2>1. CASE t # s BY <2>1 DEF NumberEffect, StreamInv, PendingSuffix
  <2>2. CASE t = s
    <3>1. Len(sent[s]) \in Nat BY Lengths
    <3>2. /\ Len(sent'[s]) = Len(sent[s]) + n /\ Len(pending'[s]) = n
          /\ \A i \in 1..n : pending'[s][i] = sent'[s][Len(sent[s]) + i]
      BY DEF NumberEffect
    <3> QED BY <2>2, <3>1, <3>2 DEF IsSuffix
  <2> QED BY <2>1, <2>2
<1>4. PendingEmpty' BY DEF PendingEmpty, NumberEffect
<1>5. DeliveredPrefix'
  <2> SUFFICES ASSUME NEW t \in Streams
               PROVE /\ Len(delivered'[t]) <= Len(sent'[t])
                     /\ \A i \in 1..Len(delivered'[t]) : delivered'[t][i] = sent'[t][i]
    BY DEF DeliveredPrefix
  <2>0. /\ Len(delivered[t]) <= Len(sent[t]) /\ \A i \in 1..Len(delivered[t]) : delivered[t][i] = sent[t][i]
        /\ delivered' = delivered /\ Len(sent[t]) \in Nat /\ Len(delivered[t]) \in Nat
    BY Lengths DEF StreamInv, DeliveredPrefix, NumberEffect
  <2>1. CASE t # s BY <2>0, <2>1 DEF NumberEffect
  <2>2. CASE t = s BY <2>0, <2>2 DEF NumberEffect
  <2> QED BY <2>1, <2>2
<1> QED BY <1>1, <1>2, <1>3, <1>4, <1>5 DEF StreamInv

LEMMA NumberKeepsWire ==
    ASSUME TypeOK, StreamInv, WireInv, NEW s \in Streams, NEW n \in Nat, NumberEffect(s, n),
           pending[s] = <<>>, writer = "taken"
    PROVE  WireInv'
<1>0. /\ \A t \in Streams : Len(sent[t]) \in Nat /\ Len(delivered[t]) \in Nat
      /\ \A t \in Streams : Len(sent[t]) <= Len(sent'[t])
      /\ \A t \in Streams : \A k \in 1..Len(sent[t]) : sent'[t][k] = sent[t][k]
  <2> SUFFICES ASSUME NEW t \in Streams
               PROVE /\ Len(sent[t]) \in Nat /\ Len(delivered[t]) \in Nat
                     /\ Len(sent[t]) <= Len(sent'[t])
                     /\ \A k \in 1..Len(sent[t]) : sent'[t][k] = sent[t][k]
    OBVIOUS
  <2>1. Len(sent[t]) \in Nat /\ Len(delivered[t]) \in Nat BY Lengths
  <2>2. CASE t = s BY <2>1, <2>2 DEF NumberEffect
  <2>3. CASE t # s BY <2>1, <2>3 DEF NumberEffect
  <2> QED BY <2>1, <2>2, <2>3
<1>1. wire' = wire /\ acks' = acks /\ delivered' = delivered /\ connected' = connected
  BY DEF NumberEffect
<1>2. ASSUME NEW t \in Streams, NEW k \in 0..Len(sent[t]), NEW m, Reached(t, k, m)
      PROVE  Reached(t, k, m)'
  BY <1>0, <1>1, <1>2 DEF Reached
<1>w. \A i \in 1..Len(wire) : wire[i].stream \in Streams
  <2>1. wire \in Seq(Envelopes) BY DEF TypeOK
  <2>2. \A i \in 1..Len(wire) : wire[i] \in Envelopes BY <2>1, ElementOfSeq
  <2> QED BY <2>2 DEF Envelopes
<1>3. WireLinked'
  <2> SUFFICES ASSUME NEW i \in 1..Len(wire)
               PROVE  \E k \in 1..Len(sent'[wire[i].stream]) :
                        /\ wire[i] = sent'[wire[i].stream][k]
                        /\ Reached(wire[i].stream, k - 1, i - 1)'
    BY <1>1 DEF WireLinked
  <2>1. PICK k \in 1..Len(sent[wire[i].stream]) :
          wire[i] = sent[wire[i].stream][k] /\ Reached(wire[i].stream, k - 1, i - 1)
    BY DEF WireInv, WireLinked
  <2>2. wire[i].stream \in Streams BY <1>w
  <2>3. k - 1 \in 0..Len(sent[wire[i].stream]) BY <2>2, <1>0
  <2>4. Reached(wire[i].stream, k - 1, i - 1)' BY <2>1, <2>2, <2>3, <1>1, <1>2
  <2>5. k \in 1..Len(sent'[wire[i].stream]) /\ wire[i] = sent'[wire[i].stream][k]
    BY <2>1, <2>2, <1>0
  <2> QED BY <2>4, <2>5
<1>4. WireCovers'
  <2> SUFFICES ASSUME connected, NEW t \in Streams, NEW k \in 1..(Len(sent'[t]) - Len(pending'[t]))
               PROVE  Reached(t, k, Len(wire))'
    BY <1>1 DEF WireCovers
  <2>1. k \in 1..(Len(sent[t]) - Len(pending[t])) /\ k \in 0..Len(sent[t])
    <3>1. Len(sent[t]) \in Nat /\ Len(pending[t]) \in Nat BY Lengths
    <3>2. CASE t = s
      BY <3>1, <3>2 DEF NumberEffect
    <3>3. CASE t # s BY <3>1, <3>3, SMTT(30) DEF NumberEffect
    <3> QED BY <3>2, <3>3
  <2>2. Reached(t, k, Len(wire)) BY <2>1 DEF WireInv, WireCovers
  <2> QED BY <2>1, <2>2, <1>1, <1>2
<1>5. AcksCovered'
  <2> SUFFICES ASSUME NEW i \in 1..Len(acks)
               PROVE  /\ acks[i].seq < nextSeq'[acks[i].stream]
                      /\ \A k \in 1..Len(sent'[acks[i].stream]) :
                            IsAcked(sent'[acks[i].stream][k], acks[i]) => k <= Len(delivered[acks[i].stream])
    BY <1>1 DEF AcksCovered
  <2> DEFINE t == acks[i].stream
  <2>1. t \in Streams /\ acks[i].seq \in Nat
    <3>1. acks \in Seq(Acks) BY DEF TypeOK, Acks
    <3>2. acks[i] \in Acks BY <3>1, ElementOfSeq
    <3> QED BY <3>2 DEF Acks
  <2>2. /\ acks[i].seq < nextSeq[t]
        /\ \A k \in 1..Len(sent[t]) : IsAcked(sent[t][k], acks[i]) => k <= Len(delivered[t])
    BY DEF WireInv, AcksCovered
  <2>3. nextSeq[t] \in Nat BY <2>1 DEF TypeOK
  <2> HIDE DEF t
  <2>4. CASE t # s BY <2>1, <2>2, <2>4 DEF NumberEffect, t
  <2>5. CASE t = s
    <3>1. nextSeq'[t] = nextSeq[t] + 1 BY <2>5 DEF NumberEffect
    <3>2. ASSUME NEW k \in 1..Len(sent'[t]), IsAcked(sent'[t][k], acks[i])
          PROVE  k <= Len(delivered[t])
      <4>1. CASE k <= Len(sent[t])
        BY <4>1, <3>2, <2>2, <1>0, <2>1
      <4>2. CASE k > Len(sent[t])
        <5>1. k - Len(sent[t]) \in 1..n /\ Len(sent[t]) + (k - Len(sent[t])) = k
          BY <4>2, <2>1, <2>5, <1>0 DEF NumberEffect
        <5> DEFINE m == k - Len(sent[t])
        <5>a. m \in 1..n BY <5>1
        <5> HIDE DEF m
        <5>b. sent'[t][Len(sent[t]) + m] = Segment(t, nextSeq[t], n, m) BY <5>a, <2>5 DEF NumberEffect
        <5>c. Segment(t, nextSeq[t], n, m).seq = nextSeq[t] BY DEF Segment
        <5>2. sent'[t][k].seq = nextSeq[t]
          BY <5>1, <5>b, <5>c DEF m
        <5> QED BY <5>2, <2>2, <2>3, <2>1, <3>2 DEF IsAcked
      <4> QED BY <4>1, <4>2, <2>1, <1>0
    <3> QED BY <3>1, <3>2, <2>2, <2>1, <2>3 DEF t
  <2> QED BY <2>4, <2>5
<1> QED BY <1>3, <1>4, <1>5 DEF WireInv

-----------------------------------------------------------------------------
(* Writing an envelope *)

LEMMA WriteKeepsStreams ==
    ASSUME TypeOK, StreamInv, NEW s \in Streams, Write(s), writer \in {"replay", "send"}
    PROVE  StreamInv'
<1>1. /\ Len(pending[s]) > 0 /\ Len(pending'[s]) = Len(pending[s]) - 1
      /\ \A i \in 1..Len(pending'[s]) : pending'[s][i] = pending[s][i + 1]
      /\ \A t \in Streams \ {s} : pending'[t] = pending[t]
      /\ UNCHANGED <<stateVars, connected, writer, acks, delivered>>
  BY WriteDoes
<1>2. PendingSuffix'
  <2> SUFFICES ASSUME NEW t \in Streams PROVE IsSuffix(pending'[t], sent'[t])
    BY DEF PendingSuffix
  <2>0. IsSuffix(pending[t], sent[t]) /\ sent' = sent BY <1>1 DEF StreamInv, PendingSuffix, stateVars
  <2>1. CASE t # s BY <2>0, <2>1, <1>1
  <2>2. CASE t = s
    <3>1. Len(sent[s]) \in Nat /\ Len(pending[s]) \in Nat BY Lengths
    <3>2. Len(pending[s]) <= Len(sent[s])
          /\ \A i \in 1..Len(pending[s]) : pending[s][i] = sent[s][Len(sent[s]) - Len(pending[s]) + i]
      BY <2>0, <2>2 DEF IsSuffix
    <3>3. ASSUME NEW i \in 1..Len(pending'[s])
          PROVE  pending'[s][i] = sent[s][Len(sent[s]) - Len(pending'[s]) + i]
      <4>1. i + 1 \in 1..Len(pending[s]) /\ i \in Nat BY <1>1, <3>1
      <4>2. Len(sent[s]) - Len(pending[s]) + (i + 1) = Len(sent[s]) - Len(pending'[s]) + i
        <5>1. Len(pending'[s]) = Len(pending[s]) - 1 BY <1>1
        <5>2. Len(sent[s]) - Len(pending[s]) + (i + 1) = Len(sent[s]) - (Len(pending[s]) - 1) + i
          <6>1. i \in Nat BY <4>1
          <6>2. \A a, b, c \in Nat : a - b + (c + 1) = a - (b - 1) + c BY SuffixShift
          <6> QED BY ONLY <3>1, <6>1, <6>2, Zenon
        <5> QED BY <5>1, <5>2
      <4> QED BY <1>1, <3>2, <4>1, <4>2
    <3>4. Len(pending'[s]) <= Len(sent[s]) BY <1>1, <3>1, <3>2
    <3> QED BY <2>0, <2>2, <3>3, <3>4 DEF IsSuffix
  <2> QED BY <2>1, <2>2
<1>3. SentOrdered' /\ BufferSuffix' /\ DeliveredPrefix'
  BY <1>1 DEF StreamInv, SentOrdered, BufferSuffix, DeliveredPrefix, stateVars
<1>4. PendingEmpty' BY <1>1 DEF PendingEmpty
<1> QED BY <1>2, <1>3, <1>4 DEF StreamInv

LEMMA WriteKeepsWire ==
    ASSUME TypeOK, StreamInv, WireInv, NEW s \in Streams, Write(s), writer \in {"replay", "send"}
    PROVE  WireInv'
<1>1. /\ Len(pending[s]) > 0 /\ Len(pending'[s]) = Len(pending[s]) - 1
      /\ \A t \in Streams \ {s} : pending'[t] = pending[t]
      /\ Len(wire') = Len(wire) + 1 /\ Len(wire) \in Nat
      /\ \A i \in 1..Len(wire) : wire'[i] = wire[i]
      /\ wire'[Len(wire) + 1] = pending[s][1]
      /\ sent' = sent /\ nextSeq' = nextSeq /\ delivered' = delivered /\ acks' = acks
      /\ writer' = writer /\ connected' = connected
  BY WriteDoes DEF stateVars
<1>2. connected BY DEF Write
<1>0. Len(sent[s]) \in Nat /\ Len(pending[s]) \in Nat BY Lengths
<1>3. PICK k0 \in 1..Len(sent[s]) :
        /\ k0 - 1 = Len(sent[s]) - Len(pending[s])
        /\ pending[s][1] = sent[s][k0] /\ sent[s][k0].stream = s
  <2> DEFINE k0 == Len(sent[s]) - Len(pending[s]) + 1
  <2>1. Len(sent[s]) \in Nat /\ Len(pending[s]) \in Nat BY Lengths
  <2>2. Len(pending[s]) <= Len(sent[s])
        /\ \A i \in 1..Len(pending[s]) : pending[s][i] = sent[s][Len(sent[s]) - Len(pending[s]) + i]
    BY DEF StreamInv, PendingSuffix, IsSuffix
  <2>0. Len(pending[s]) <= Len(sent[s]) /\ 0 < Len(pending[s])
    <3>1. Len(pending[s]) > 0 BY <1>1
    <3> QED BY <2>1, <2>2, <3>1
  <2>3. k0 \in 1..Len(sent[s]) BY <2>0, <2>1, SuffixFirst
  <2>4. 1 \in 1..Len(pending[s]) BY <2>1, <1>1
  <2>5. sent[s][k0].stream = s BY <2>3 DEF StreamInv, SentOrdered
  <2>6. k0 - 1 = Len(sent[s]) - Len(pending[s]) BY <2>1
  <2>7. pending[s][1] = sent[s][k0] BY <2>2, <2>4
  <2> QED BY <2>3, <2>5, <2>6, <2>7
<1>4. ASSUME NEW t \in Streams, NEW k, NEW m \in 0..Len(wire), Reached(t, k, m)
      PROVE  Reached(t, k, m)'
  BY <1>1, <1>4 DEF Reached
<1>5. \A t \in Streams : \A k \in 1..(Len(sent[t]) - Len(pending[t])) : Reached(t, k, Len(wire))
  BY <1>2 DEF WireInv, WireCovers
<1>6. Reached(s, k0 - 1, Len(wire))
  <2>1. CASE k0 = 1
    <3>1. Len(delivered[s]) \in Nat BY Lengths
    <3> QED BY <2>1, <3>1 DEF Reached
  <2>2. CASE k0 # 1
    <3>1. k0 - 1 \in 1..(k0 - 1) BY <2>2, <1>3, <1>0
    <3> QED BY <3>1, <1>3, <1>5
  <2> QED BY <2>1, <2>2
<1>7. WireLinked'
  <2> SUFFICES ASSUME NEW i \in 1..Len(wire')
               PROVE  \E k \in 1..Len(sent[wire'[i].stream]) :
                        /\ wire'[i] = sent[wire'[i].stream][k]
                        /\ Reached(wire[i].stream, k - 1, i - 1)'
    BY <1>1 DEF WireLinked
  <2>1. CASE i <= Len(wire)
    <3>0. i \in 1..Len(wire) /\ i - 1 \in 0..Len(wire) BY <2>1, <1>1
    <3>1. wire'[i] = wire[i] /\ wire[i].stream \in Streams
      <4>1. wire \in Seq(Envelopes) BY DEF TypeOK
      <4>2. wire[i] \in Envelopes BY <3>0, <4>1, ElementOfSeq
      <4> QED BY <3>0, <4>2, <1>1 DEF Envelopes
    <3>2. PICK k \in 1..Len(sent[wire[i].stream]) :
            wire[i] = sent[wire[i].stream][k] /\ Reached(wire[i].stream, k - 1, i - 1)
      BY <3>0 DEF WireInv, WireLinked
    <3>3. Reached(wire[i].stream, k - 1, i - 1)' BY <3>0, <3>1, <3>2, <1>4
    <3> QED BY <3>1, <3>2, <3>3
  <2>2. CASE i > Len(wire)
    <3>1. i = Len(wire) + 1 /\ i - 1 = Len(wire) BY <2>2, <1>1
    <3>2. wire'[i] = sent[s][k0] /\ wire'[i].stream = s BY <3>1, <1>1, <1>3
    <3>3. Reached(s, k0 - 1, Len(wire)) /\ Len(wire) \in 0..Len(wire) BY <1>6, <1>1
    <3>4. Reached(wire[i].stream, k0 - 1, i - 1)'
      BY <3>1, <3>2, <3>3, <1>1 DEF Reached
    <3> QED BY <1>3, <3>2, <3>4
  <2> QED BY <2>1, <2>2, <1>1
<1>8. WireCovers'
  <2> SUFFICES ASSUME NEW t \in Streams, NEW k \in 1..(Len(sent[t]) - Len(pending'[t]))
               PROVE  Reached(t, k, Len(wire))'
    BY <1>1 DEF WireCovers
  <2>1. CASE k \in 1..(Len(sent[t]) - Len(pending[t]))
    <3>1. Reached(t, k, Len(wire)) BY <2>1, <1>5
    <3> QED BY <3>1, <1>1 DEF Reached
  <2>2. CASE ~(k \in 1..(Len(sent[t]) - Len(pending[t])))
    <3>1. t = s /\ k = k0
      <4>1. Len(sent[t]) \in Nat /\ Len(pending[t]) \in Nat BY Lengths
      <4>2. t = s BY <2>2, <1>1
      <4>3. k \in 1..(Len(sent[s]) - (Len(pending[s]) - 1)) BY <4>2, <1>1
      <4>4. Len(sent[s]) - (Len(pending[s]) - 1) = (k0 - 1) + 1 BY <1>0, <1>3
      <4>5. k \in 1..((k0 - 1) + 1) /\ ~(k \in 1..(k0 - 1)) BY <4>2, <4>3, <4>4, <2>2, <1>3
      <4>6. k = k0 BY <4>5, <1>3, <1>0
      <4> QED BY <4>2, <4>6
    <3>2. wire'[Len(wire')] = sent[s][k0] /\ Len(wire') \in 1..Len(wire') BY <1>1, <1>3
    <3> QED BY <3>1, <3>2, <1>1 DEF Reached
  <2> QED BY <2>1, <2>2
<1>9. AcksCovered' BY <1>1 DEF WireInv, AcksCovered
<1> QED BY <1>7, <1>8, <1>9 DEF WireInv

-----------------------------------------------------------------------------
(* The backend takes an envelope *)

LEMMA TakeDoes ==
    ASSUME TypeOK, StreamInv, WireInv, BackendTakes
    PROVE  LET s == wire[1].stream IN
           /\ Len(wire) > 0 /\ Len(wire) \in Nat /\ s \in Streams
           /\ Len(wire') = Len(wire) - 1
           /\ \A i \in 1..Len(wire') : wire'[i] = wire[i + 1]
           /\ UNCHANGED <<stateVars, connected, writer, pending, acks>>
           /\ \E k \in 1..Len(sent[s]) :
                 /\ wire[1] = sent[s][k] /\ k <= Len(delivered[s]) + 1
                 /\ IF k = Len(delivered[s]) + 1
                    THEN delivered' = [delivered EXCEPT ![s] = Append(delivered[s], sent[s][k])]
                    ELSE delivered' = delivered
<1> DEFINE s == wire[1].stream
           got == delivered[s]
<1>1. wire \in Seq(Envelopes) /\ wire # <<>> BY DEF BackendTakes, TypeOK
<1>2. Len(wire) > 0 /\ Len(wire) \in Nat BY <1>1, EmptySeq, LenProperties
<1>3. /\ Head(wire) = wire[1] /\ wire[1] \in Envelopes
      /\ Len(Tail(wire)) = Len(wire) - 1
      /\ \A i \in 1..Len(Tail(wire)) : Tail(wire)[i] = wire[i + 1]
  BY <1>1, <1>2, HeadTailProperties
<1>4. s \in Streams BY <1>3 DEF Envelopes
<1>5. PICK k \in 1..Len(sent[s]) : wire[1] = sent[s][k] /\ Reached(s, k - 1, 0)
  <2>1. 1 \in 1..Len(wire) BY <1>2
  <2> QED BY <2>1 DEF WireInv, WireLinked
<1>6. k - 1 <= Len(got) BY <1>5 DEF Reached
<1>7. /\ Len(got) \in Nat /\ Len(sent[s]) \in Nat /\ Len(got) <= Len(sent[s])
      /\ \A i \in 1..Len(got) : got[i] = sent[s][i]
  BY <1>4, Lengths DEF StreamInv, DeliveredPrefix
<1>8. delivered' = IF got = <<>> \/ Before(got[Len(got)], wire[1])
                   THEN [delivered EXCEPT ![s] = Append(got, wire[1])]
                   ELSE delivered
  BY <1>3 DEF BackendTakes
<1>9. (got = <<>> \/ Before(got[Len(got)], wire[1])) <=> k = Len(got) + 1
  <2>0. got \in Seq(Envelopes) BY <1>4, Lengths
  <2>1. CASE got = <<>>
    <3>1. Len(got) = 0 BY <2>1, EmptySeq
    <3> QED BY <2>1, <3>1, <1>5, <1>6, <1>7
  <2>2. CASE got # <<>>
    <3>1. Len(got) \in 1..Len(sent[s]) /\ Len(got) \in 1..Len(got)
      BY <2>0, <2>2, EmptySeq, <1>7
    <3>2. got[Len(got)] = sent[s][Len(got)] BY <3>1, <1>7
    <3>3. Before(sent[s][Len(got)], sent[s][k]) <=> Len(got) < k
      BY <1>4, <1>5, <3>1, SentInjective DEF StreamInv
    <3> HIDE DEF got
    <3> QED BY <2>2, <3>2, <3>3, <1>5, <1>6, <1>7
  <2> QED BY <2>1, <2>2
<1>10. /\ wire' = Tail(wire)
       /\ UNCHANGED <<stateVars, connected, writer, pending, acks>>
  BY DEF BackendTakes, connVars
<1>11. k <= Len(got) + 1 BY <1>5, <1>6, <1>7
<1> HIDE DEF s, got
<1>12. /\ wire[1] = sent[s][k] /\ k <= Len(delivered[s]) + 1
       /\ IF k = Len(delivered[s]) + 1
          THEN delivered' = [delivered EXCEPT ![s] = Append(delivered[s], sent[s][k])]
          ELSE delivered' = delivered
  BY <1>5, <1>8, <1>9, <1>11 DEF got
<1> QED BY <1>2, <1>3, <1>4, <1>5, <1>10, <1>12 DEF s

LEMMA TakeKeeps ==
    ASSUME TypeOK, StreamInv, WireInv, BackendTakes
    PROVE  /\ StreamInv' /\ WireInv'
           /\ \/ UNCHANGED <<sent, delivered>>
              \/ \E s \in Streams : /\ Len(delivered[s]) < Len(sent[s])
                                     /\ delivered' = [delivered EXCEPT ![s] =
                                           Append(delivered[s], sent[s][Len(delivered[s]) + 1])]
                                     /\ UNCHANGED sent
<1>0. PICK s \in Streams : s = wire[1].stream BY TakeDoes
<1>1. /\ Len(wire) > 0 /\ Len(wire) \in Nat
      /\ Len(wire') = Len(wire) - 1
      /\ \A i \in 1..Len(wire') : wire'[i] = wire[i + 1]
      /\ sent' = sent /\ buffer' = buffer /\ nextSeq' = nextSeq /\ pending' = pending
      /\ acks' = acks /\ writer' = writer /\ connected' = connected
  BY TakeDoes DEF stateVars
<1>2. PICK k0 \in 1..Len(sent[s]) :
        /\ wire[1] = sent[s][k0] /\ k0 <= Len(delivered[s]) + 1
        /\ IF k0 = Len(delivered[s]) + 1
           THEN delivered' = [delivered EXCEPT ![s] = Append(delivered[s], sent[s][k0])]
           ELSE delivered' = delivered
  BY <1>0, TakeDoes
<1>3. /\ Len(delivered[s]) \in Nat /\ Len(sent[s]) \in Nat /\ delivered[s] \in Seq(Envelopes)
      /\ sent[s][k0] \in Envelopes /\ k0 \in Nat
  BY <1>2, Lengths, ElementOfSeq
<1>4. \A t \in Streams :
        /\ Len(delivered[t]) \in Nat /\ Len(sent[t]) \in Nat
        /\ Len(delivered[t]) <= Len(delivered'[t]) /\ Len(delivered'[t]) \in Nat
        /\ Len(delivered'[t]) <= Len(sent[t])
        /\ \A i \in 1..Len(delivered'[t]) : delivered'[t][i] = sent[t][i]
  <2> SUFFICES ASSUME NEW t \in Streams
               PROVE /\ Len(delivered[t]) \in Nat /\ Len(sent[t]) \in Nat
                     /\ Len(delivered[t]) <= Len(delivered'[t]) /\ Len(delivered'[t]) \in Nat
                     /\ Len(delivered'[t]) <= Len(sent[t])
                     /\ \A i \in 1..Len(delivered'[t]) : delivered'[t][i] = sent[t][i]
    OBVIOUS
  <2>0. /\ Len(delivered[t]) \in Nat /\ Len(sent[t]) \in Nat /\ Len(delivered[t]) <= Len(sent[t])
        /\ \A i \in 1..Len(delivered[t]) : delivered[t][i] = sent[t][i]
    BY Lengths DEF StreamInv, DeliveredPrefix
  <2>1. CASE delivered' = delivered BY <2>0, <2>1
  <2>2. CASE t # s /\ delivered' # delivered
    <3>1. delivered'[t] = delivered[t] BY <1>2, <2>2 DEF TypeOK
    <3> QED BY <2>0, <3>1
  <2>3. CASE t = s /\ delivered' # delivered
    <3>1. /\ k0 = Len(delivered[s]) + 1
          /\ delivered'[s] = Append(delivered[s], sent[s][k0])
      BY <1>2, <2>3 DEF TypeOK
    <3>2. /\ Len(delivered'[s]) = Len(delivered[s]) + 1
          /\ \A i \in 1..Len(delivered[s]) : delivered'[s][i] = delivered[s][i]
          /\ delivered'[s][Len(delivered[s]) + 1] = sent[s][k0]
      BY <3>1, <1>3, AppendProperties
    <3>3. \A i \in 1..Len(delivered'[s]) : i \in 1..Len(delivered[s]) \/ i = Len(delivered[s]) + 1
      BY <3>2, <1>3
    <3>4. \A i \in 1..Len(delivered'[s]) : delivered'[s][i] = sent[s][i]
      BY <3>1, <3>2, <3>3, <2>0, <2>3
    <3>5. Len(delivered'[s]) <= Len(sent[s]) BY <3>1, <3>2, <1>2, <1>3
    <3> QED BY <2>0, <2>3, <3>2, <3>4, <3>5
  <2> QED BY <2>1, <2>2, <2>3
<1>5. k0 <= Len(delivered'[s])
  <2>1. CASE k0 = Len(delivered[s]) + 1
    <3>1. delivered'[s] = Append(delivered[s], sent[s][k0]) BY <1>2, <2>1 DEF TypeOK
    <3> QED BY <2>1, <3>1, <1>3, AppendProperties
  <2>2. CASE k0 # Len(delivered[s]) + 1 BY <1>2, <1>3, <2>2
  <2> QED BY <2>1, <2>2
<1>6. ASSUME NEW t \in Streams, NEW k \in 1..Len(sent[t]), NEW m \in 1..Len(wire), Reached(t, k, m)
      PROVE  \/ k <= Len(delivered'[t])
             \/ \E j \in 1..(m - 1) : wire'[j] = sent'[t][k]
  <2>1. CASE k <= Len(delivered[t])
    BY <2>1, <1>4
  <2>2. CASE \E j \in 1..m : wire[j] = sent[t][k]
    <3>1. PICK j \in 1..m : wire[j] = sent[t][k] BY <2>2
    <3>2. CASE j = 1
      <4>1. sent[t][k].stream = t /\ sent[s][k0].stream = s BY DEF StreamInv, SentOrdered
      <4>2. t = s BY <3>1, <3>2, <1>0, <4>1
      <4>3. k = k0 BY <3>1, <3>2, <1>2, <4>2, SentInjective DEF StreamInv
      <4> QED BY <4>2, <4>3, <1>5
    <3>3. CASE j # 1
      <4>1. j - 1 \in 1..(m - 1) /\ j - 1 \in 1..Len(wire') /\ (j - 1) + 1 = j BY <3>3, <1>1
      <4>2. wire'[j - 1] = sent'[t][k] BY <4>1, <3>1, <1>1
      <4> QED BY <4>1, <4>2
    <3> QED BY <3>2, <3>3
  <2> QED BY <1>6, <2>1, <2>2 DEF Reached
<1>7. StreamInv'
  <2>1. SentOrdered' /\ PendingSuffix' /\ PendingEmpty'
    BY <1>1 DEF StreamInv, SentOrdered, PendingSuffix, PendingEmpty
  <2>2. DeliveredPrefix' BY <1>1, <1>4 DEF DeliveredPrefix
  <2>3. BufferSuffix'
    <3> SUFFICES ASSUME NEW t \in Streams
                 PROVE /\ IsSuffix(buffer[t], sent[t])
                       /\ Len(sent[t]) - Len(buffer[t]) <= Len(delivered'[t])
      BY <1>1 DEF BufferSuffix
    <3>1. IsSuffix(buffer[t], sent[t]) /\ Len(sent[t]) - Len(buffer[t]) <= Len(delivered[t])
      BY DEF StreamInv, BufferSuffix
    <3>2. Len(buffer[t]) \in Nat BY Lengths
    <3>3. /\ Len(delivered[t]) \in Nat /\ Len(sent[t]) \in Nat
          /\ Len(delivered[t]) <= Len(delivered'[t]) /\ Len(delivered'[t]) \in Nat
      BY <1>4
    <3>4. Len(sent[t]) - Len(buffer[t]) <= Len(delivered'[t])
      <4>1. \A a, b, c, d \in Nat : a - b <= c /\ c <= d => a - b <= d OBVIOUS
      <4> QED BY ONLY <3>1, <3>2, <3>3, <4>1, Zenon
    <3> QED BY <3>1, <3>4
  <2> QED BY <2>1, <2>2, <2>3 DEF StreamInv
<1>8. WireLinked'
  <2> SUFFICES ASSUME NEW i \in 1..Len(wire')
               PROVE  \E k \in 1..Len(sent[wire'[i].stream]) :
                        /\ wire'[i] = sent[wire'[i].stream][k]
                        /\ Reached(wire[i].stream, k - 1, i - 1)'
    BY <1>1 DEF WireLinked
  <2>1. /\ i + 1 \in 1..Len(wire) /\ wire'[i] = wire[i + 1] /\ i \in 1..Len(wire)
        /\ (i + 1) - 1 = i
    BY <1>1
  <2>2. PICK t \in Streams : t = wire'[i].stream
    <3>1. wire \in Seq(Envelopes) BY DEF TypeOK
    <3>2. wire[i + 1] \in Envelopes BY <2>1, <3>1, ElementOfSeq
    <3> QED BY <3>2, <2>1 DEF Envelopes
  <2>3. PICK k \in 1..Len(sent[t]) : wire[i + 1] = sent[t][k] /\ Reached(t, k - 1, i)
    BY <2>1, <2>2 DEF WireInv, WireLinked
  <2>4. Reached(t, k - 1, i - 1)'
    <3>1. CASE k - 1 \in 1..Len(sent[t])
      <4>1. \/ k - 1 <= Len(delivered'[t])
            \/ \E j \in 1..(i - 1) : wire'[j] = sent'[t][k - 1]
        BY <3>1, <2>1, <2>3, <1>6
      <4> QED BY ONLY <4>1 DEF Reached
    <3>2. CASE k - 1 = 0
      BY <3>2, <1>4 DEF Reached
    <3>3. Len(sent[t]) \in Nat BY <1>4
    <3>4. k - 1 = 0 \/ k - 1 \in 1..Len(sent[t]) BY <3>3, <2>3
    <3> QED BY <3>1, <3>2, <3>4
  <2>5. Reached(wire[i].stream, k - 1, i - 1)' BY <2>2, <2>4 DEF Reached
  <2> QED BY <2>1, <2>2, <2>3, <2>5
<1>9. WireCovers'
  <2> SUFFICES ASSUME connected, writer \notin {"down", "starting"},
                      NEW t \in Streams, NEW k \in 1..(Len(sent[t]) - Len(pending[t]))
               PROVE  Reached(t, k, Len(wire))'
    BY <1>1 DEF WireCovers
  <2>1. Reached(t, k, Len(wire)) BY DEF WireInv, WireCovers
  <2>2. k \in 1..Len(sent[t])
    <3>1. Len(pending[t]) \in Nat /\ Len(sent[t]) \in Nat BY Lengths
    <3> QED BY <3>1
  <2>3. Len(wire) \in 1..Len(wire) BY <1>1
  <2>4. \/ k <= Len(delivered'[t])
        \/ \E j \in 1..(Len(wire) - 1) : wire'[j] = sent'[t][k]
    BY ONLY <2>1, <2>2, <2>3, <1>6, t \in Streams
  <2>5. Len(wire') = Len(wire) - 1 BY <1>1
  <2> QED BY ONLY <2>4, <2>5 DEF Reached
<1>10. AcksCovered'
  <2> SUFFICES ASSUME NEW i \in 1..Len(acks)
               PROVE  /\ acks[i].seq < nextSeq[acks[i].stream]
                      /\ \A k \in 1..Len(sent[acks[i].stream]) :
                            IsAcked(sent[acks[i].stream][k], acks[i]) => k <= Len(delivered'[acks[i].stream])
    BY <1>1 DEF AcksCovered
  <2>1. PICK t \in Streams : t = acks[i].stream
    <3>1. acks \in Seq(Acks) BY DEF TypeOK, Acks
    <3>2. acks[i] \in Acks BY <3>1, ElementOfSeq
    <3> QED BY <3>2 DEF Acks
  <2>2. /\ acks[i].seq < nextSeq[t]
        /\ \A k \in 1..Len(sent[t]) : IsAcked(sent[t][k], acks[i]) => k <= Len(delivered[t])
    BY <2>1 DEF WireInv, AcksCovered
  <2> QED BY <2>1, <2>2, <1>4
<1>11. \/ UNCHANGED <<sent, delivered>>
       \/ \E x \in Streams : /\ Len(delivered[x]) < Len(sent[x])
                              /\ delivered' = [delivered EXCEPT ![x] =
                                    Append(delivered[x], sent[x][Len(delivered[x]) + 1])]
                              /\ UNCHANGED sent
  <2>1. CASE k0 = Len(delivered[s]) + 1
    <3>1. Len(delivered[s]) < Len(sent[s]) BY <2>1, <1>2, <1>3
    <3> QED BY <3>1, <2>1, <1>1, <1>2
  <2>2. CASE k0 # Len(delivered[s]) + 1 BY <2>2, <1>1, <1>2
  <2> QED BY <2>1, <2>2
<1> QED BY <1>7, <1>8, <1>9, <1>10, <1>11 DEF WireInv

-----------------------------------------------------------------------------
(* The reader applies an acknowledgement *)

LEMMA AckDoes ==
    ASSUME TypeOK, ReaderAck
    PROVE  \E s \in Streams, n \in Nat :
              /\ s = acks[1].stream /\ n <= Len(buffer[s])
              /\ Len(buffer'[s]) = Len(buffer[s]) - n
              /\ \A i \in 1..Len(buffer'[s]) : buffer'[s][i] = buffer[s][n + i]
              /\ \A i \in 1..n : IsAcked(buffer[s][i], acks[1])
              /\ \A t \in Streams \ {s} : buffer'[t] = buffer[t]
              /\ used' = used - n
              /\ Len(acks) > 0 /\ Len(acks) \in Nat /\ Len(acks') = Len(acks) - 1
              /\ \A i \in 1..Len(acks') : acks'[i] = acks[i + 1]
              /\ UNCHANGED <<sent, nextSeq, connected, writer, pending, wire, delivered>>
<1>1. acks \in Seq(Acks) /\ acks # <<>> BY DEF ReaderAck, TypeOK, Acks
<1>2. Len(acks) > 0 /\ Len(acks) \in Nat BY <1>1, EmptySeq, LenProperties
<1>3. /\ Head(acks) = acks[1] /\ acks[1] \in Acks
      /\ Len(Tail(acks)) = Len(acks) - 1
      /\ \A i \in 1..Len(Tail(acks)) : Tail(acks)[i] = acks[i + 1]
  BY <1>1, <1>2, HeadTailProperties
<1>4. PICK s \in Streams : s = acks[1].stream BY <1>3 DEF Acks
<1>5. PICK n \in 0..Len(buffer[s]) :
        /\ AcksFirst(n, buffer[s], acks[1])
        /\ buffer' = [buffer EXCEPT ![s] = SubSeq(buffer[s], n + 1, Len(buffer[s]))]
        /\ used' = used - n
  BY <1>3, <1>4 DEF ReaderAck
<1>6. buffer[s] \in Seq(Envelopes) /\ Len(buffer[s]) \in Nat BY Lengths
<1>7. n \in Nat /\ n <= Len(buffer[s]) BY <1>5, <1>6
<1>8. buffer'[s] = SubSeq(buffer[s], n + 1, Len(buffer[s])) BY <1>5 DEF TypeOK
<1>9. /\ Len(buffer'[s]) = Len(buffer[s]) - n
      /\ \A i \in 1..Len(buffer'[s]) : buffer'[s][i] = buffer[s][n + i]
  <2>1. \A i \in (n + 1)..Len(buffer[s]) : buffer[s][i] \in Envelopes
    BY <1>6, <1>7, ElementOfSeq
  <2>2. SubSeq(buffer[s], n + 1, Len(buffer[s]))
          = [i \in 1..(Len(buffer[s]) - n) |-> buffer[s][n + i]]
    BY <1>6, <1>7, <2>1
  <2>3. Len(SubSeq(buffer[s], n + 1, Len(buffer[s]))) = Len(buffer[s]) - n
    BY <1>6, <1>7, <2>1
  <2> QED BY <1>8, <2>2, <2>3
<1>10. \A i \in 1..n : IsAcked(buffer[s][i], acks[1])
  BY <1>5, <1>6, <1>7 DEF AcksFirst
<1>11. \A t \in Streams \ {s} : buffer'[t] = buffer[t] BY <1>5 DEF TypeOK
<1>12. acks' = Tail(acks) /\ UNCHANGED <<sent, nextSeq, connected, writer, pending, wire, delivered>>
  BY DEF ReaderAck, connVars
<1> QED BY <1>2, <1>3, <1>4, <1>5, <1>7, <1>9, <1>10, <1>11, <1>12

LEMMA AckKeeps ==
    ASSUME TypeOK, StreamInv, WireInv, ReaderAck
    PROVE  StreamInv' /\ WireInv'
<1>1. PICK s \in Streams, n \in Nat :
        /\ s = acks[1].stream /\ n <= Len(buffer[s])
        /\ Len(buffer'[s]) = Len(buffer[s]) - n
        /\ \A i \in 1..Len(buffer'[s]) : buffer'[s][i] = buffer[s][n + i]
        /\ \A i \in 1..n : IsAcked(buffer[s][i], acks[1])
        /\ \A t \in Streams \ {s} : buffer'[t] = buffer[t]
        /\ Len(acks) > 0 /\ Len(acks) \in Nat /\ Len(acks') = Len(acks) - 1
        /\ \A i \in 1..Len(acks') : acks'[i] = acks[i + 1]
        /\ UNCHANGED <<sent, nextSeq, connected, writer, pending, wire, delivered>>
  BY AckDoes
<1>0. n \in Nat OBVIOUS
<1>2. /\ Len(sent[s]) \in Nat /\ Len(buffer[s]) \in Nat /\ Len(delivered[s]) \in Nat
  BY Lengths
<1>3. /\ Len(buffer[s]) <= Len(sent[s])
      /\ \A i \in 1..Len(buffer[s]) : buffer[s][i] = sent[s][Len(sent[s]) - Len(buffer[s]) + i]
      /\ Len(sent[s]) - Len(buffer[s]) <= Len(delivered[s])
  BY DEF StreamInv, BufferSuffix, IsSuffix
<1>4. Len(sent[s]) - Len(buffer[s]) + n <= Len(delivered[s])
  <2>1. CASE n = 0
    <3>1. \A a, b, c \in Nat : a - b <= c => a - b + 0 <= c OBVIOUS
    <3>2. Len(sent[s]) - Len(buffer[s]) + 0 <= Len(delivered[s]) BY ONLY <3>1, <1>2, <1>3, Zenon
    <3> QED BY ONLY <3>2, <2>1, Zenon
  <2>2. CASE n # 0
    <3>1. n \in 1..n /\ n \in 1..Len(buffer[s]) BY <2>2, <1>1, <1>2
    <3>2. PICK k \in 1..Len(sent[s]) : k = Len(sent[s]) - Len(buffer[s]) + n
      <4>1. \A a, b \in Nat : \A c \in 1..b : b <= a => a - b + c \in 1..a OBVIOUS
      <4>2. Len(sent[s]) - Len(buffer[s]) + n \in 1..Len(sent[s])
        BY ONLY <4>1, <3>1, <1>2, <1>3, Zenon
      <4> QED BY <4>2
    <3>3. k \in 1..Len(sent[s]) OBVIOUS
    <3>4. IsAcked(sent[s][k], acks[1]) BY <3>1, <3>2, <1>1, <1>3
    <3>5. 1 \in 1..Len(acks) BY <1>1
    <3>6. k <= Len(delivered[s]) BY <3>3, <3>4, <3>5, <1>1 DEF WireInv, AcksCovered
    <3> QED BY <3>2, <3>6
  <2> QED BY <2>1, <2>2
<1>5. BufferSuffix'
  <2> SUFFICES ASSUME NEW t \in Streams
               PROVE /\ IsSuffix(buffer'[t], sent[t])
                     /\ Len(sent[t]) - Len(buffer'[t]) <= Len(delivered[t])
    BY <1>1 DEF BufferSuffix
  <2>1. CASE t # s BY <2>1, <1>1 DEF StreamInv, BufferSuffix
  <2>2. CASE t = s
    <3>1. Len(buffer'[s]) <= Len(sent[s]) /\ Len(sent[s]) - Len(buffer'[s]) <= Len(delivered[s])
      <4>1. \A a, b, c, d \in Nat : a - b + c <= d => a - (b - c) <= d OBVIOUS
      <4>2. \A a, b, c \in Nat : b <= a => b - c <= a OBVIOUS
      <4>3. Len(buffer[s]) - n <= Len(sent[s]) /\ Len(sent[s]) - (Len(buffer[s]) - n) <= Len(delivered[s])
        BY ONLY <4>1, <4>2, <1>0, <1>2, <1>3, <1>4, Zenon
      <4> QED BY <4>3, <1>1
    <3>2. ASSUME NEW i \in 1..Len(buffer'[s])
          PROVE  buffer'[s][i] = sent[s][Len(sent[s]) - Len(buffer'[s]) + i]
      <4>1. n + i \in 1..Len(buffer[s]) /\ i \in Nat BY <1>1, <1>2
      <4>2. Len(sent[s]) - Len(buffer[s]) + (n + i) = Len(sent[s]) - Len(buffer'[s]) + i
        <5>1. \A a, b, c, d \in Nat : a - b + (c + d) = a - (b - c) + d OBVIOUS
        <5>2. Len(sent[s]) - Len(buffer[s]) + (n + i) = Len(sent[s]) - (Len(buffer[s]) - n) + i
          <6>1. \A c, d \in Nat : Len(sent[s]) - Len(buffer[s]) + (c + d)
                                   = Len(sent[s]) - (Len(buffer[s]) - c) + d
            BY ONLY <5>1, <1>2, Zenon
          <6>2. i \in Nat BY <4>1
          <6> QED BY ONLY <6>1, <6>2, <1>0, Zenon
        <5> QED BY <5>2, <1>1
      <4>3. buffer'[s][i] = buffer[s][n + i] BY <1>1
      <4>4. buffer[s][n + i] = sent[s][Len(sent[s]) - Len(buffer[s]) + (n + i)] BY <4>1, <1>3
      <4> QED BY <4>2, <4>3, <4>4
    <3> QED BY <2>2, <3>1, <3>2 DEF IsSuffix
  <2> QED BY <2>1, <2>2
<1>6. StreamInv'
  BY <1>1, <1>5 DEF StreamInv, SentOrdered, PendingSuffix, PendingEmpty, DeliveredPrefix
<1>7. WireLinked' /\ WireCovers'
  <2>1. UNCHANGED <<sent, connected, writer, pending, wire, delivered>> BY <1>1
  <2>2. WireLinked' BY <2>1 DEF WireInv, WireLinked, Reached
  <2>3. WireCovers' BY <2>1 DEF WireInv, WireCovers, Reached
  <2> QED BY <2>2, <2>3
<1>8. AcksCovered'
  <2>1. \A i \in 1..Len(acks') : i + 1 \in 1..Len(acks) /\ acks'[i] = acks[i + 1] BY <1>1
  <2> QED BY <2>1, <1>1 DEF WireInv, AcksCovered
<1> QED BY <1>6, <1>7, <1>8 DEF WireInv

-----------------------------------------------------------------------------
(* The other steps *)

\* A step that only moves the writer along.
Frame ==
    /\ UNCHANGED <<sent, buffer, nextSeq, pending, delivered, wire, acks, connected>>
    /\ writer' \notin {"replay", "send"} => pending = Nothing
    /\ writer' \notin {"down", "starting"} => writer \notin {"down", "starting"}

LEMMA FrameSteps ==
    ASSUME StreamInv,
           \/ \E s \in Streams, n \in Splits : Enqueue(s, n)
           \/ Connect \/ ReplayDone \/ CheckCapacity \/ CapacityChanged \/ Receive \/ SendDone
           \/ Number /\ inHand[1].split = SplitError
           \/ UNCHANGED vars
    PROVE  \/ Frame
           \/ Connect
<1> USE DEF StreamInv, PendingEmpty, stateVars, connVars
<1>1. ASSUME NEW s \in Streams, NEW n \in Splits, Enqueue(s, n) PROVE Frame
  BY <1>1 DEF Enqueue, Frame
<1>2. ASSUME ReplayDone \/ CheckCapacity \/ CapacityChanged \/ Receive \/ SendDone PROVE Frame
  BY <1>2 DEF ReplayDone, CheckCapacity, CapacityChanged, Receive, SendDone, Frame
<1>3. ASSUME Number, inHand[1].split = SplitError PROVE Frame
  BY <1>3 DEF Number, Frame
<1>4. ASSUME UNCHANGED vars PROVE Frame
  BY <1>4 DEF vars, Frame
<1> QED BY <1>1, <1>2, <1>3, <1>4

LEMMA FrameKeeps ==
    ASSUME StreamInv, WireInv, Frame \/ Connect
    PROVE  StreamInv' /\ WireInv'
<1>1. /\ UNCHANGED <<sent, buffer, nextSeq, pending, delivered, wire, acks>>
      /\ PendingEmpty' /\ WireCovers'
  <2>1. CASE Frame
    BY <2>1 DEF Frame, PendingEmpty, WireInv, WireCovers, Reached
  <2>2. CASE Connect
    BY <2>2 DEF Connect, stateVars, StreamInv, PendingEmpty, WireCovers
  <2> QED BY <2>1, <2>2
<1>2. StreamInv' BY <1>1 DEF StreamInv, SentOrdered, BufferSuffix, PendingSuffix, DeliveredPrefix
<1>3. WireLinked' /\ AcksCovered' BY <1>1 DEF WireInv, WireLinked, AcksCovered, Reached
<1> QED BY <1>1, <1>2, <1>3 DEF WireInv

LEMMA SnapshotKeeps ==
    ASSUME TypeOK, StreamInv, WireInv, Snapshot
    PROVE  StreamInv' /\ WireInv'
<1>1. /\ UNCHANGED <<sent, buffer, nextSeq, delivered, wire, acks, connected>>
      /\ pending' = buffer /\ writer' = "replay"
  BY DEF Snapshot, stateVars, connVars
<1>2. StreamInv'
  BY <1>1 DEF StreamInv, SentOrdered, BufferSuffix, PendingSuffix, PendingEmpty, DeliveredPrefix
<1>3. WireCovers'
  <2> SUFFICES ASSUME NEW s \in Streams, NEW k \in 1..(Len(sent[s]) - Len(buffer[s]))
               PROVE  k <= Len(delivered[s])
    BY <1>1 DEF WireCovers, Reached
  <2>1. Len(sent[s]) - Len(buffer[s]) <= Len(delivered[s]) BY DEF StreamInv, BufferSuffix
  <2>2. Len(sent[s]) \in Nat /\ Len(buffer[s]) \in Nat /\ Len(delivered[s]) \in Nat BY Lengths
  <2>3. \A a, b, c \in Nat : \A m \in 1..(a - b) : a - b <= c => m <= c OBVIOUS
  <2> QED BY <2>1, <2>2, <2>3, Zenon
<1>4. WireLinked' /\ AcksCovered' BY <1>1 DEF WireInv, WireLinked, AcksCovered, Reached
<1> QED BY <1>2, <1>3, <1>4 DEF WireInv

LEMMA StopKeeps ==
    ASSUME TypeOK, StreamInv, WireInv, WriterStops \/ Disconnect
    PROVE  StreamInv' /\ WireInv'
<1>1. UNCHANGED <<sent, buffer, nextSeq, delivered>> BY DEF WriterStops, Disconnect, stateVars
<1>2. SentOrdered' /\ BufferSuffix' /\ DeliveredPrefix'
  BY <1>1 DEF StreamInv, SentOrdered, BufferSuffix, DeliveredPrefix
<1>3. CASE WriterStops
  <2>1. /\ pending' = Nothing /\ writer' = "down" /\ UNCHANGED <<wire, acks, connected>>
    BY <1>3 DEF WriterStops, connVars
  <2>2. PendingSuffix'
    <3> SUFFICES ASSUME NEW s \in Streams PROVE IsSuffix(pending'[s], sent[s])
      BY <1>1 DEF PendingSuffix
    <3>1. Len(pending'[s]) = 0 BY <2>1, EmptyTypes DEF Nothing
    <3>2. Len(sent[s]) \in Nat BY Lengths
    <3> QED BY <3>1, <3>2 DEF IsSuffix
  <2>3. PendingEmpty' BY <2>1 DEF PendingEmpty, Nothing
  <2>4. WireInv' BY <2>1, <1>1 DEF WireInv, WireLinked, WireCovers, AcksCovered, Reached
  <2> QED BY <1>2, <2>2, <2>3, <2>4 DEF StreamInv
<1>4. CASE Disconnect
  <2>1. /\ UNCHANGED <<pending, writer>> /\ connected' = FALSE /\ wire' = <<>> /\ acks' = <<>>
    BY <1>4 DEF Disconnect
  <2>2. PendingSuffix' /\ PendingEmpty'
    BY <2>1, <1>1 DEF StreamInv, PendingSuffix, PendingEmpty, Nothing
  <2>3. WireInv'
    <3>1. Len(wire') = 0 /\ Len(acks') = 0 BY <2>1, EmptyTypes
    <3> QED BY <3>1, <2>1 DEF WireInv, WireLinked, WireCovers, AcksCovered
  <2> QED BY <1>2, <2>2, <2>3 DEF StreamInv
<1> QED BY <1>3, <1>4

LEMMA BackendAcksKeeps ==
    ASSUME TypeOK, StreamInv, WireInv, NEW s \in Streams, NEW i \in 1..Len(delivered[s]),
           BackendAcks(s, i)
    PROVE  StreamInv' /\ WireInv'
<1>1. UNCHANGED <<sent, buffer, nextSeq, pending, delivered, wire, connected, writer>>
  BY DEF BackendAcks, stateVars, connVars
<1>2. PICK seg : /\ seg = delivered[s][i].seg \/ (seg = NoSegment /\ delivered[s][i].last)
                 /\ acks' = Append(acks, [stream |-> s, seq |-> delivered[s][i].seq, seg |-> seg])
  BY DEF BackendAcks
<1>3. i \in 1..Len(sent[s]) /\ delivered[s][i] = sent[s][i] /\ i <= Len(delivered[s]) /\ i \in Nat
  BY Lengths DEF StreamInv, DeliveredPrefix
<1>4. ASSUME NEW k \in 1..Len(sent[s]),
             IsAcked(sent[s][k], [stream |-> s, seq |-> sent[s][i].seq, seg |-> seg])
      PROVE  k <= Len(delivered[s])
  <2>1. /\ sent[s][i].seq \in Nat /\ sent[s][i].seg \in Nat
        /\ sent[s][k].seq \in Nat /\ sent[s][k].seg \in Nat
        /\ k \in Nat /\ Len(delivered[s]) \in Nat
    BY <1>3, Lengths
  <2>2. i < k => /\ Before(sent[s][i], sent[s][k])
                 /\ sent[s][i].last => sent[s][i].seq < sent[s][k].seq
    BY <1>3 DEF StreamInv, SentOrdered
  <2>3. \/ sent[s][k].seq < sent[s][i].seq
        \/ sent[s][k].seq = sent[s][i].seq /\ (seg = NoSegment \/ sent[s][k].seg <= seg)
    BY <1>4 DEF IsAcked
  <2>4. seg = sent[s][i].seg \/ (seg = NoSegment /\ sent[s][i].last) BY <1>2, <1>3
  <2>5. ~(i < k)
    <3> SUFFICES ASSUME i < k PROVE FALSE OBVIOUS
    <3>1. CASE seg = NoSegment /\ sent[s][i].last
      BY <3>1, <2>1, <2>2, <2>3
    <3>2. CASE seg = sent[s][i].seg
      BY <3>2, <2>1, <2>2, <2>3 DEF Before, NoSegment
    <3> QED BY <3>1, <3>2, <2>4
  <2> QED BY <2>1, <2>5, <1>3
<1>5. StreamInv'
  BY <1>1 DEF StreamInv, SentOrdered, BufferSuffix, PendingSuffix, PendingEmpty, DeliveredPrefix
<1>6. WireLinked' /\ WireCovers' BY <1>1 DEF WireInv, WireLinked, WireCovers, Reached
<1>7. AcksCovered'
  <2> SUFFICES ASSUME NEW j \in 1..Len(acks')
               PROVE  /\ acks'[j].seq < nextSeq[acks'[j].stream]
                      /\ \A k \in 1..Len(sent[acks'[j].stream]) :
                            IsAcked(sent[acks'[j].stream][k], acks'[j])
                              => k <= Len(delivered[acks'[j].stream])
    BY <1>1 DEF AcksCovered
  <2>1. acks \in Seq(Acks) BY DEF TypeOK, Acks
  <2>2. [stream |-> s, seq |-> delivered[s][i].seq, seg |-> seg] \in Acks
    <3>1. delivered[s][i].seq \in Nat /\ delivered[s][i].seg \in Nat BY <1>3, Lengths
    <3> QED BY <3>1, <1>2 DEF Acks
  <2>3. /\ Len(acks') = Len(acks) + 1 /\ Len(acks) \in Nat
        /\ \A m \in 1..Len(acks) : acks'[m] = acks[m]
        /\ acks'[Len(acks) + 1] = [stream |-> s, seq |-> delivered[s][i].seq, seg |-> seg]
    BY <1>2, <2>1, <2>2, AppendProperties, LenProperties
  <2>4. CASE j \in 1..Len(acks) BY <2>3, <2>4 DEF WireInv, AcksCovered
  <2>5. CASE j = Len(acks) + 1
    <3>1. acks'[j] = [stream |-> s, seq |-> sent[s][i].seq, seg |-> seg] BY <2>3, <2>5, <1>3
    <3>2. acks'[j].stream = s /\ acks'[j].seq = sent[s][i].seq BY <3>1
    <3>3. sent[s][i].seq < nextSeq[s] BY <1>3 DEF StreamInv, SentOrdered
    <3> QED BY <3>1, <3>2, <3>3, <1>4
  <2> QED BY <2>3, <2>4, <2>5
<1> QED BY <1>5, <1>6, <1>7 DEF WireInv

LEMMA InitStreams == Init => StreamInv /\ WireInv
<1> SUFFICES ASSUME Init PROVE StreamInv /\ WireInv
  OBVIOUS
<1>1. /\ sent = Nothing /\ buffer = Nothing /\ pending = Nothing /\ delivered = Nothing
      /\ wire = <<>> /\ acks = <<>> /\ writer = "down"
  BY DEF Init
<1>2. \A s \in Streams : /\ Len(sent[s]) = 0 /\ Len(buffer[s]) = 0
                         /\ Len(pending[s]) = 0 /\ Len(delivered[s]) = 0
  BY <1>1, EmptyTypes DEF Nothing
<1>3. Len(wire) = 0 /\ Len(acks) = 0 BY <1>1, EmptyTypes
<1>4. SentOrdered /\ BufferSuffix /\ PendingSuffix /\ DeliveredPrefix
  <2>1. SentOrdered BY <1>2 DEF SentOrdered
  <2>2. BufferSuffix
    <3> SUFFICES ASSUME NEW s \in Streams
                 PROVE  IsSuffix(buffer[s], sent[s]) /\ Len(sent[s]) - Len(buffer[s]) <= Len(delivered[s])
      BY DEF BufferSuffix
    <3>1. Len(sent[s]) = 0 /\ Len(buffer[s]) = 0 /\ Len(delivered[s]) = 0 BY <1>2
    <3> QED BY <3>1 DEF IsSuffix
  <2>3. PendingSuffix
    <3> SUFFICES ASSUME NEW s \in Streams PROVE IsSuffix(pending[s], sent[s])
      BY DEF PendingSuffix
    <3>1. Len(sent[s]) = 0 /\ Len(pending[s]) = 0 BY <1>2
    <3> QED BY <3>1 DEF IsSuffix
  <2>4. DeliveredPrefix BY <1>2 DEF DeliveredPrefix
  <2> QED BY <2>1, <2>2, <2>3, <2>4
<1>5. PendingEmpty BY <1>1 DEF PendingEmpty
<1>6. WireInv BY <1>1, <1>3 DEF WireInv, WireLinked, WireCovers, AcksCovered
<1> QED BY <1>4, <1>5, <1>6 DEF StreamInv

\* What a step may do to the two ends of the streams.
StreamsStep ==
    \/ UNCHANGED <<sent, delivered>>
    \/ \E s \in Streams, n \in Nat : NumberEffect(s, n)
    \/ \E s \in Streams : /\ Len(delivered[s]) < Len(sent[s])
                          /\ delivered' = [delivered EXCEPT ![s] =
                                Append(delivered[s], sent[s][Len(delivered[s]) + 1])]
                          /\ UNCHANGED sent

LEMMA NextStreams ==
    ASSUME TypeOK, StreamInv, WireInv, [Next]_vars
    PROVE  StreamInv' /\ WireInv' /\ StreamsStep
<1>0. TypeOK' BY NextType
<1>1. ASSUME NEW s \in Streams, Write(s), writer \in {"replay", "send"}
      PROVE  StreamInv' /\ WireInv' /\ StreamsStep
  <2>1. StreamInv' BY <1>1, WriteKeepsStreams
  <2>2. WireInv' BY <1>1, WriteKeepsWire
  <2>3. StreamsStep BY <1>1 DEF Write, stateVars, StreamsStep
  <2> QED BY <2>1, <2>2, <2>3
<1>2. ASSUME Number
      PROVE  StreamInv' /\ WireInv' /\ StreamsStep
  <2>0. writer = "taken" /\ pending = Nothing BY <1>2 DEF Number, StreamInv, PendingEmpty
  <2>1. CASE UNCHANGED <<stateVars, pending, connected, wire, acks, delivered>> /\ writer' = "check"
    <3>1. Frame BY <2>0, <2>1 DEF Frame, stateVars
    <3>2. StreamsStep BY <2>1 DEF stateVars, StreamsStep
    <3> QED BY <3>1, <3>2, FrameKeeps
  <2>2. ASSUME NEW s \in Streams, NEW n \in Nat, NumberEffect(s, n)
        PROVE  StreamInv' /\ WireInv' /\ StreamsStep
    <3>1. pending[s] = <<>> BY <2>0 DEF Nothing
    <3>2. StreamInv' BY <1>0, <2>2, <3>1, NumberKeepsStreams
    <3>3. WireInv' BY <2>0, <2>2, <3>1, NumberKeepsWire
    <3>4. StreamsStep BY <2>2 DEF StreamsStep
    <3> QED BY <3>2, <3>3, <3>4
  <2> QED BY <1>2, <2>1, <2>2, NumberDoes
<1>3. ASSUME BackendTakes PROVE StreamInv' /\ WireInv' /\ StreamsStep
  <2>1. StreamInv' /\ WireInv' BY <1>3, TakeKeeps
  <2>2. StreamsStep BY <1>3, TakeKeeps DEF StreamsStep
  <2> QED BY <2>1, <2>2
<1>4. ASSUME ReaderAck PROVE StreamInv' /\ WireInv' /\ StreamsStep
  <2>1. StreamsStep BY <1>4 DEF ReaderAck, StreamsStep
  <2> QED BY <1>4, <2>1, AckKeeps
<1>5. ASSUME NEW s \in Streams, NEW i \in 1..Len(delivered[s]), BackendAcks(s, i)
      PROVE  StreamInv' /\ WireInv' /\ StreamsStep
  <2>1. StreamsStep BY <1>5 DEF BackendAcks, stateVars, StreamsStep
  <2> QED BY <1>5, <2>1, BackendAcksKeeps
<1>6. ASSUME Snapshot PROVE StreamInv' /\ WireInv' /\ StreamsStep
  <2>1. StreamsStep BY <1>6 DEF Snapshot, stateVars, StreamsStep
  <2> QED BY <1>6, <2>1, SnapshotKeeps
<1>7. ASSUME WriterStops \/ Disconnect PROVE StreamInv' /\ WireInv' /\ StreamsStep
  <2>1. StreamsStep BY <1>7 DEF WriterStops, Disconnect, stateVars, StreamsStep
  <2> QED BY <1>7, <2>1, StopKeeps
<1>8. ASSUME Frame \/ Connect PROVE StreamInv' /\ WireInv' /\ StreamsStep
  <2>1. StreamsStep BY <1>8 DEF Frame, Connect, stateVars, StreamsStep
  <2> QED BY <1>8, <2>1, FrameKeeps
<1>9. ASSUME \/ \E s \in Streams, n \in Splits : Enqueue(s, n)
             \/ Connect \/ ReplayDone \/ CheckCapacity \/ CapacityChanged \/ Receive \/ SendDone
             \/ UNCHANGED vars
      PROVE  StreamInv' /\ WireInv' /\ StreamsStep
  <2>1. Frame \/ Connect BY <1>9, FrameSteps
  <2> QED BY <2>1, <1>8
<1> QED
  BY <1>1, <1>2, <1>3, <1>4, <1>5, <1>6, <1>7, <1>9 DEF Next, WriterStep, ReplaySend, Send

\* Across reconnects, and whatever is acknowledged late, twice, by segment or
\* by message: every envelope the backend lacks is still in the buffer.
THEOREM NothingUnackedDropped == Spec => []Retained
<1> DEFINE I == TypeOK /\ StreamInv /\ WireInv
<1>1. Init => I BY InitType, InitStreams
<1>2. I /\ [Next]_vars => I' BY NextType, NextStreams
<1>3. I => Retained
  <2> SUFFICES ASSUME TypeOK, StreamInv, NEW s \in Streams, NEW i \in 1..Len(sent[s]),
                      i > Len(delivered[s])
               PROVE  \E j \in 1..Len(buffer[s]) : buffer[s][j] = sent[s][i]
    BY DEF Retained
  <2>1. /\ Len(sent[s]) \in Nat /\ Len(buffer[s]) \in Nat /\ Len(delivered[s]) \in Nat
    BY Lengths
  <2>2. /\ Len(buffer[s]) <= Len(sent[s])
        /\ \A j \in 1..Len(buffer[s]) : buffer[s][j] = sent[s][Len(sent[s]) - Len(buffer[s]) + j]
        /\ Len(sent[s]) - Len(buffer[s]) <= Len(delivered[s])
    BY DEF StreamInv, BufferSuffix, IsSuffix
  <2>3. PICK j \in 1..Len(buffer[s]) : Len(sent[s]) - Len(buffer[s]) + j = i
    <3>1. \A a, b, d \in Nat : \A m \in 1..a :
            a - b <= d /\ m > d => m - (a - b) \in 1..b /\ a - b + (m - (a - b)) = m
      OBVIOUS
    <3>2. \A m \in 1..Len(sent[s]) : m > Len(delivered[s]) =>
             /\ m - (Len(sent[s]) - Len(buffer[s])) \in 1..Len(buffer[s])
             /\ Len(sent[s]) - Len(buffer[s]) + (m - (Len(sent[s]) - Len(buffer[s]))) = m
      BY ONLY <2>1, <2>2, <3>1, Zenon
    <3> QED BY <3>2
  <2> QED BY <2>2, <2>3
<1> QED BY <1>1, <1>2, <1>3, PTL DEF Spec

-----------------------------------------------------------------------------
(* The outbound half implements the reliable stream *)

LEMMA AcceptStep ==
    ASSUME TypeOK, TypeOK', NEW s \in Streams, NEW n \in Nat, NumberEffect(s, n)
    PROVE  Delivery!Accept
<1>1. DOMAIN sent' = Streams BY DEF TypeOK
<1>2. UNCHANGED delivered BY DEF NumberEffect
<1>3. ASSUME NEW t \in Streams PROVE Delivery!Extends(sent'[t], sent[t])
  <2>1. /\ sent[t] \in Seq(Envelopes) /\ sent'[t] \in Seq(Envelopes)
        /\ Len(sent[t]) \in Nat /\ Len(sent'[t]) \in Nat
    BY LenProperties DEF TypeOK
  <2>2. /\ Len(sent[t]) <= Len(sent'[t])
        /\ \A i \in 1..Len(sent[t]) : sent'[t][i] = sent[t][i]
    <3>1. CASE t # s BY <3>1, <2>1 DEF NumberEffect
    <3>2. CASE t = s BY <3>2, <2>1 DEF NumberEffect
    <3> QED BY <3>1, <3>2
  <2>3. SubSeq(sent'[t], 1, Len(sent[t])) = sent[t]
    <3>1. \A i \in 1..Len(sent[t]) : sent'[t][i] \in Envelopes BY <2>1, <2>2, ElementOfSeq
    <3>2. /\ SubSeq(sent'[t], 1, Len(sent[t])) \in Seq(Envelopes)
          /\ Len(SubSeq(sent'[t], 1, Len(sent[t]))) = Len(sent[t])
          /\ \A i \in 1..Len(sent[t]) : SubSeq(sent'[t], 1, Len(sent[t]))[i] = sent'[t][i]
      BY <2>1, <3>1, SubSeqProperties
    <3> QED BY <3>2, <2>1, <2>2, SeqEqual
  <2> QED BY <2>2, <2>3 DEF Delivery!Extends
<1> QED BY <1>1, <1>2, <1>3 DEF Delivery!Accept

\* The detailed protocol (buffering, splitting, acknowledgements by segment,
\* replay on a new connection) implements the abstract stream: the backend's
\* copy of a stream only ever grows by the next item that was accepted for it.
THEOREM ImplementsStream == Spec => DeliverySafe
<1> DEFINE I == TypeOK /\ StreamInv /\ WireInv
<1>1. Init => I BY InitType, InitStreams
<1>2. I /\ [Next]_vars => I' BY NextType, NextStreams
<1>3. Init => Delivery!Init BY DEF Init, Delivery!Init, Nothing
<1>4. I /\ I' /\ [Next]_vars => [Delivery!Next]_(Delivery!vars)
  <2> SUFFICES ASSUME TypeOK, StreamInv, WireInv, TypeOK', [Next]_vars
               PROVE  Delivery!Next \/ UNCHANGED <<sent, delivered>>
    BY DEF Delivery!vars
  <2>1. StreamsStep BY NextStreams
  <2>2. ASSUME NEW s \in Streams, NEW n \in Nat, NumberEffect(s, n) PROVE Delivery!Next
    BY <2>2, AcceptStep DEF Delivery!Next
  <2>3. ASSUME NEW s \in Streams, Len(delivered[s]) < Len(sent[s]),
               delivered' = [delivered EXCEPT ![s] =
                   Append(delivered[s], sent[s][Len(delivered[s]) + 1])],
               UNCHANGED sent
        PROVE  Delivery!Next
    BY <2>3 DEF Delivery!Next, Delivery!Arrive
  <2> QED BY <2>1, <2>2, <2>3 DEF StreamsStep
<1> QED BY <1>1, <1>2, <1>3, <1>4, PTL DEF Spec, DeliverySafe, Delivery!Safe

-----------------------------------------------------------------------------
(* The writer's count *)

LEMMA CountImage ==
    ASSUME NEW n \in Nat, NEW f, f = [i \in 1..n |-> f[i]],
           \A i, j \in 1..n : f[i] = f[j] => i = j
    PROVE  IsFiniteSet({f[i] : i \in 1..n}) /\ Cardinality({f[i] : i \in 1..n}) = n
<1> DEFINE T == {f[i] : i \in 1..n}
<1>1. f \in Bijection(1..n, T)
  <2>1. f \in [1..n -> T]
    <3>1. [i \in 1..n |-> f[i]] \in [1..n -> T] OBVIOUS
    <3> QED BY <3>1
  <2>2. f \in Injection(1..n, T)
    <3>1. DOMAIN f = 1..n BY <2>1
    <3>2. IsInjective(f) BY <3>1 DEF IsInjective
    <3> QED BY <2>1, <3>2 DEF Injection
  <2>3. f \in Surjection(1..n, T) BY <2>1 DEF Surjection
  <2> QED BY <2>2, <2>3 DEF Bijection
<1>2. ExistsBijection(1..n, T) BY <1>1 DEF ExistsBijection
<1>3. Cardinality(T) = n BY <1>2, FS_CountingElements
<1>4. IsFiniteSet(1..n)
  <2>1. 1 \in Int /\ n \in Int OBVIOUS
  <2> HIDE DEF T
  <2> QED BY <2>1, FS_Interval
<1>5. IsFiniteSet(T) BY <1>2, <1>4, FS_Bijection
<1> QED BY <1>3, <1>5

LEMMA BufferedHas ==
    ASSUME NEW e
    PROVE  e \in Buffered <=> \E t \in Streams : \E i \in 1..Len(buffer[t]) : buffer[t][i] = e
BY DEF Buffered

\* The buffered envelopes of a stream carry its name and an earlier seq_id.
LEMMA BufferedOld ==
    ASSUME TypeOK, StreamInv, NEW t \in Streams, NEW i \in 1..Len(buffer[t])
    PROVE  /\ buffer[t][i].stream = t /\ buffer[t][i].seq < nextSeq[t]
           /\ \A j \in 1..Len(buffer[t]) : buffer[t][i] = buffer[t][j] => i = j
<1>1. /\ Len(sent[t]) \in Nat /\ Len(buffer[t]) \in Nat BY Lengths
<1>2. /\ Len(buffer[t]) <= Len(sent[t])
      /\ \A j \in 1..Len(buffer[t]) : buffer[t][j] = sent[t][Len(sent[t]) - Len(buffer[t]) + j]
  BY DEF StreamInv, BufferSuffix, IsSuffix
<1>3. \A j \in 1..Len(buffer[t]) : \E k \in 1..Len(sent[t]) :
        k = Len(sent[t]) - Len(buffer[t]) + j /\ buffer[t][j] = sent[t][k]
  <2>1. \A a, b \in Nat : \A j \in 1..b : b <= a => a - b + j \in 1..a OBVIOUS
  <2>2. \A j \in 1..Len(buffer[t]) : Len(sent[t]) - Len(buffer[t]) + j \in 1..Len(sent[t])
    BY ONLY <2>1, <1>1, <1>2, Zenon
  <2> QED BY <2>2, <1>2
<1>4. PICK k \in 1..Len(sent[t]) :
        k = Len(sent[t]) - Len(buffer[t]) + i /\ buffer[t][i] = sent[t][k]
  BY <1>3
<1>5. buffer[t][i].stream = t /\ buffer[t][i].seq < nextSeq[t]
  BY <1>4, ZenonT(30) DEF StreamInv, SentOrdered
<1>6. ASSUME NEW j \in 1..Len(buffer[t]), buffer[t][i] = buffer[t][j]
      PROVE  i = j
  <2>1. PICK m \in 1..Len(sent[t]) :
          m = Len(sent[t]) - Len(buffer[t]) + j /\ buffer[t][j] = sent[t][m]
    BY <1>3
  <2>2. k = m BY <1>4, <1>6, <2>1, SentInjective DEF StreamInv
  <2>3. \A a, b \in Nat : \A x, y \in 1..b : a - b + x = a - b + y => x = y OBVIOUS
  <2>4. \A x, y \in 1..Len(buffer[t]) :
          Len(sent[t]) - Len(buffer[t]) + x = Len(sent[t]) - Len(buffer[t]) + y => x = y
    BY ONLY <1>1, <2>3, Zenon
  <2> QED BY <1>4, <2>1, <2>2, <2>4
<1> QED BY <1>5, <1>6

LEMMA NumberKeepsUsed ==
    ASSUME TypeOK, StreamInv, UsedInv, NEW s \in Streams, NEW n \in Nat, NumberEffect(s, n),
           writer = "taken"
    PROVE  UsedInv'
<1>q. PICK q \in Nat : q = nextSeq[s] BY DEF TypeOK
<1>0. Len(buffer[s]) \in Nat BY Lengths
<1>f. PICK f : f = [i \in 1..n |-> Segment(s, q, n, i)] OBVIOUS
<1>N. PICK New : New = {f[i] : i \in 1..n} OBVIOUS
<1>1. IsFiniteSet(New) /\ Cardinality(New) = n
  <2>1. ASSUME NEW i \in 1..n, NEW j \in 1..n, f[i] = f[j] PROVE i = j
    <3>1. Segment(s, q, n, i) = Segment(s, q, n, j) BY <2>1, <1>f
    <3>2. Segment(s, q, n, i).seg = i - 1 /\ Segment(s, q, n, j).seg = j - 1 BY DEF Segment
    <3> QED BY <3>1, <3>2
  <2>2. f = [i \in 1..n |-> f[i]] BY <1>f
  <2>3. (\A i, j \in 1..n : f[i] = f[j] => i = j) /\ n \in Nat BY <2>1
  <2>4. IsFiniteSet({f[i] : i \in 1..n}) /\ Cardinality({f[i] : i \in 1..n}) = n
    BY ONLY <2>2, <2>3, CountImage, Zenon
  <2> QED BY <2>4, <1>N
<1>2. \A e : e \in New <=> \E i \in 1..n : e = Segment(s, q, n, i) BY <1>f, <1>N
<1>3. Buffered' = Buffered \cup New
  <2>1. ASSUME NEW e, e \in Buffered \cup New PROVE e \in Buffered'
    <3>1. CASE e \in New
      <4>1. PICK i \in 1..n : e = Segment(s, q, n, i) BY <3>1, <1>2
      <4>2. buffer'[s][Len(buffer[s]) + i] = e BY <4>1, <1>q DEF NumberEffect
      <4>3. Len(buffer[s]) + i \in 1..Len(buffer'[s]) BY <1>0 DEF NumberEffect
      <4> QED BY <4>2, <4>3 DEF Buffered
    <3>2. CASE e \in Buffered
      <4>t. PICK t \in Streams : \E i \in 1..Len(buffer[t]) : buffer[t][i] = e
        BY <3>2, BufferedHas
      <4>1. PICK i \in 1..Len(buffer[t]) : buffer[t][i] = e BY <4>t
      <4>2. i \in 1..Len(buffer'[t]) /\ buffer'[t][i] = e
        <5>1. CASE t = s BY <5>1, <4>1, <1>0 DEF NumberEffect
        <5>2. CASE t # s BY <5>2, <4>1 DEF NumberEffect
        <5> QED BY <5>1, <5>2
      <4> QED BY <4>2 DEF Buffered
    <3> QED BY <2>1, <3>1, <3>2
  <2>2. ASSUME NEW e, e \in Buffered' PROVE e \in Buffered \cup New
    <3>t. PICK t \in Streams : \E i \in 1..Len(buffer'[t]) : buffer'[t][i] = e
      BY <2>2 DEF Buffered
    <3>1. PICK i \in 1..Len(buffer'[t]) : buffer'[t][i] = e BY <3>t
    <3>2. CASE t # s
      <4>1. buffer'[t] = buffer[t] BY <3>2 DEF NumberEffect
      <4> QED BY <4>1, <3>1, BufferedHas
    <3>3. CASE t = s /\ i <= Len(buffer[s])
      <4>1. i \in 1..Len(buffer[s]) /\ buffer[s][i] = e BY <3>1, <3>3, <1>0 DEF NumberEffect
      <4> QED BY <4>1, BufferedHas
    <3>4. CASE t = s /\ i > Len(buffer[s])
      <4>0. Len(buffer'[s]) = Len(buffer[s]) + n BY DEF NumberEffect
      <4>1. PICK j \in 1..n : Len(buffer[s]) + j = i
        <5>1. i - Len(buffer[s]) \in 1..n /\ Len(buffer[s]) + (i - Len(buffer[s])) = i
          BY <3>1, <3>4, <1>0, <4>0
        <5> QED BY <5>1
      <4>2. e = Segment(s, q, n, j) BY <4>1, <3>1, <3>4, <1>q DEF NumberEffect
      <4> QED BY <4>2, <1>2
    <3>5. i \in Nat BY <3>1, <3>2, <3>3, <3>4, <1>0 DEF NumberEffect
    <3> QED BY <3>2, <3>3, <3>4, <3>5, <1>0
  <2> QED BY <2>1, <2>2
<1>4. Buffered \cap New = {}
  <2> SUFFICES ASSUME NEW e \in Buffered, e \in New PROVE FALSE
    OBVIOUS
  <2>t. PICK t \in Streams : \E i \in 1..Len(buffer[t]) : buffer[t][i] = e
    BY BufferedHas
  <2>1. PICK i \in 1..Len(buffer[t]) : buffer[t][i] = e BY <2>t
  <2>2. e.stream = t /\ e.seq < nextSeq[t] BY <2>1, BufferedOld
  <2>3. e.stream = s /\ e.seq = q BY <1>2 DEF Segment
  <2> QED BY <2>2, <2>3, <1>q
<1>5. /\ IsFiniteSet(Buffered) /\ used = Cardinality(Buffered) /\ used <= Capacity - 1 + MaxSegments
      /\ used < Capacity
  BY DEF UsedInv, UsedExact, RoomWhenReceiving
<1>6. /\ IsFiniteSet(Buffered \cup New)
      /\ Cardinality(Buffered \cup New) = Cardinality(Buffered) + n - Cardinality({})
  BY <1>1, <1>4, <1>5, FS_Union
<1>7. Cardinality({}) = 0 BY FS_EmptySet
<1>8. used' = used + n /\ n <= MaxSegments /\ writer' = "send" BY DEF NumberEffect
<1>9. used \in Int BY DEF TypeOK
<1>10. used' = Cardinality(Buffered') BY <1>3, <1>5, <1>6, <1>7, <1>8, <1>9
<1>11. used' <= Capacity - 1 + MaxSegments BY <1>5, <1>8, <1>9
<1>12. IsFiniteSet(Buffered') BY <1>3, <1>6
<1>13. RoomWhenReceiving' BY <1>8 DEF RoomWhenReceiving
<1> QED BY <1>10, <1>11, <1>12, <1>13 DEF UsedInv, UsedExact

LEMMA AckKeepsUsed ==
    ASSUME TypeOK, StreamInv, UsedInv, ReaderAck
    PROVE  UsedInv'
<1>1. PICK s \in Streams, n \in Nat :
        /\ n <= Len(buffer[s])
        /\ Len(buffer'[s]) = Len(buffer[s]) - n
        /\ \A i \in 1..Len(buffer'[s]) : buffer'[s][i] = buffer[s][n + i]
        /\ \A t \in Streams \ {s} : buffer'[t] = buffer[t]
        /\ used' = used - n
        /\ writer' = writer
  BY AckDoes
<1>0. Len(buffer[s]) \in Nat /\ buffer[s] \in Seq(Envelopes) BY Lengths
<1>f. PICK f : f = [i \in 1..n |-> buffer[s][i]] OBVIOUS
<1>N. PICK Old : Old = {f[i] : i \in 1..n} OBVIOUS
<1>2. IsFiniteSet(Old) /\ Cardinality(Old) = n
  <2>1. \A i \in 1..n : i \in 1..Len(buffer[s]) BY <1>0, <1>1
  <2>2. ASSUME NEW i \in 1..n, NEW j \in 1..n, f[i] = f[j] PROVE i = j
    BY <2>1, <2>2, <1>f, BufferedOld
  <2>3. f = [i \in 1..n |-> f[i]] BY <1>f
  <2>4. IsFiniteSet({f[i] : i \in 1..n}) /\ Cardinality({f[i] : i \in 1..n}) = n
    BY <2>2, <2>3, CountImage
  <2> QED BY <2>4, <1>N
<1>3. \A e : e \in Old <=> \E i \in 1..n : e = buffer[s][i] BY <1>f, <1>N
<1>4. Buffered' = Buffered \ Old
  <2>1. ASSUME NEW e, e \in Buffered \ Old PROVE e \in Buffered'
    <3>t. PICK t \in Streams : \E i \in 1..Len(buffer[t]) : buffer[t][i] = e
      BY <2>1, BufferedHas
    <3>1. PICK i \in 1..Len(buffer[t]) : buffer[t][i] = e BY <3>t
    <3>2. CASE t # s
      <4>1. buffer'[t] = buffer[t] BY <3>2, <1>1
      <4> QED BY <4>1, <3>1 DEF Buffered
    <3>3. CASE t = s
      <4>1. ~(i \in 1..n) BY <2>1, <3>1, <3>3, <1>3
      <4>2. PICK j \in 1..Len(buffer'[s]) : n + j = i
        <5>1. i - n \in 1..Len(buffer'[s]) /\ n + (i - n) = i BY <4>1, <3>3, <1>0, <1>1
        <5> QED BY <5>1
      <4>3. buffer'[s][j] = e BY <4>2, <3>1, <3>3, <1>1
      <4> QED BY <4>3 DEF Buffered
    <3> QED BY <3>2, <3>3
  <2>2. ASSUME NEW e, e \in Buffered' PROVE e \in Buffered \ Old
    <3>t. PICK t \in Streams : \E i \in 1..Len(buffer'[t]) : buffer'[t][i] = e
      BY <2>2 DEF Buffered
    <3>1. PICK i \in 1..Len(buffer'[t]) : buffer'[t][i] = e BY <3>t
    <3>2. CASE t # s
      <4>1. buffer'[t] = buffer[t] /\ i \in 1..Len(buffer[t]) /\ buffer[t][i] = e
        BY <3>1, <3>2, <1>1
      <4>2. e.stream = t BY <4>1, BufferedOld
      <4>3. e \notin Old
        <5> SUFFICES ASSUME NEW j \in 1..n, e = buffer[s][j] PROVE FALSE BY <1>3
        <5>1. j \in 1..Len(buffer[s]) BY <1>0, <1>1
        <5>2. e.stream = s BY <5>1, BufferedOld
        <5> QED BY <5>2, <4>2, <3>2
      <4> QED BY <4>1, <4>3, BufferedHas
    <3>3. CASE t = s
      <4>1. n + i \in 1..Len(buffer[s]) /\ buffer[s][n + i] = e BY <3>1, <3>3, <1>0, <1>1
      <4>2. e \notin Old
        <5> SUFFICES ASSUME NEW j \in 1..n, e = buffer[s][j] PROVE FALSE BY <1>3
        <5>1. j \in 1..Len(buffer[s]) BY <1>0, <1>1
        <5>2. n + i = j BY <5>1, <4>1, BufferedOld
        <5>3. i \in 1..Len(buffer'[s]) BY <3>3
        <5> QED BY <5>2, <5>3, <1>0, <1>1
      <4> QED BY <4>1, <4>2, BufferedHas
    <3> QED BY <3>2, <3>3
  <2> QED BY <2>1, <2>2
<1>5. Buffered \cap Old = Old
  <2>1. ASSUME NEW e \in Old PROVE e \in Buffered
    <3>1. PICK j \in 1..n : e = buffer[s][j] BY <1>3
    <3>2. j \in 1..Len(buffer[s]) BY <1>0, <1>1
    <3> QED BY <3>1, <3>2, BufferedHas
  <2> QED BY <2>1
<1>6. /\ IsFiniteSet(Buffered) /\ used = Cardinality(Buffered) /\ used <= Capacity - 1 + MaxSegments
  BY DEF UsedInv, UsedExact
<1>7. IsFiniteSet(Buffered \ Old) /\ Cardinality(Buffered \ Old) = Cardinality(Buffered) - n
  BY <1>2, <1>5, <1>6, FS_Difference
<1>8. used \in Int BY DEF TypeOK
<1>9. used' = Cardinality(Buffered') /\ IsFiniteSet(Buffered') BY <1>1, <1>4, <1>6, <1>7
<1>10. used' <= Capacity - 1 + MaxSegments BY <1>1, <1>6, <1>8
<1>11. RoomWhenReceiving' BY <1>1, <1>8 DEF UsedInv, RoomWhenReceiving
<1> QED BY <1>9, <1>10, <1>11 DEF UsedInv, UsedExact

LEMMA NextUsed ==
    ASSUME TypeOK, StreamInv, UsedInv, [Next]_vars
    PROVE  UsedInv'
<1>1. ASSUME Number PROVE UsedInv'
  <2>0. writer = "taken" BY <1>1 DEF Number
  <2>1. CASE UNCHANGED <<stateVars, pending, connected, wire, acks, delivered>> /\ writer' = "check"
    BY <2>1 DEF UsedInv, UsedExact, Buffered, RoomWhenReceiving, stateVars
  <2>2. ASSUME NEW s \in Streams, NEW n \in Nat, NumberEffect(s, n) PROVE UsedInv'
    BY <2>0, <2>2, NumberKeepsUsed
  <2> QED BY <1>1, <2>1, <2>2, NumberDoes
<1>2. ASSUME ReaderAck PROVE UsedInv' BY <1>2, AckKeepsUsed
<1>3. ASSUME UNCHANGED <<buffer, used>>, RoomWhenReceiving' PROVE UsedInv'
  BY <1>3 DEF UsedInv, UsedExact, Buffered
<1>4. RoomWhenReceiving BY DEF UsedInv
<1> USE DEF stateVars, RoomWhenReceiving
<1>5. ASSUME NEW s \in Streams, NEW n \in Splits, Enqueue(s, n) PROVE UsedInv'
  BY <1>3, <1>4, <1>5 DEF Enqueue
<1>6. ASSUME Connect \/ Disconnect \/ WriterStops \/ Snapshot \/ ReplayDone PROVE UsedInv'
  BY <1>3, <1>4, <1>6 DEF Connect, Disconnect, WriterStops, Snapshot, ReplayDone
<1>7. ASSUME CheckCapacity \/ CapacityChanged \/ Receive \/ SendDone PROVE UsedInv'
  BY <1>3, <1>4, <1>7 DEF CheckCapacity, CapacityChanged, Receive, SendDone
<1>8. ASSUME NEW s \in Streams, Write(s) PROVE UsedInv'
  BY <1>3, <1>4, <1>8 DEF Write
<1>9. ASSUME NEW s \in Streams, NEW i \in 1..Len(delivered[s]), BackendAcks(s, i) PROVE UsedInv'
  BY <1>3, <1>4, <1>9 DEF BackendAcks
<1>10. ASSUME BackendTakes \/ UNCHANGED vars PROVE UsedInv'
  BY <1>3, <1>4, <1>10 DEF BackendTakes, vars
<1> QED
  BY <1>1, <1>2, <1>5, <1>6, <1>7, <1>8, <1>9, <1>10 DEF Next, WriterStep, ReplaySend, Send

\* The count behind the back-pressure is the number of buffered envelopes, over
\* all streams, and passes the capacity by less than one message's segments.
THEOREM BackpressureExact == Spec => []UsedExact
<1>1. Init => IInv
  <2> SUFFICES ASSUME Init PROVE UsedInv BY InitType, InitStreams DEF IInv
  <2>1. Buffered = {}
    <3>1. \A s \in Streams : Len(buffer[s]) = 0 BY EmptyTypes DEF Init, Nothing
    <3> QED BY <3>1 DEF Buffered
  <2>2. IsFiniteSet(Buffered) /\ Cardinality(Buffered) = 0 BY <2>1, FS_EmptySet
  <2>3. used = 0 /\ writer = "down" BY DEF Init
  <2> QED BY <2>2, <2>3 DEF UsedInv, UsedExact, RoomWhenReceiving
<1>2. IInv /\ [Next]_vars => IInv' BY NextType, NextStreams, NextUsed DEF IInv
<1>3. IInv => UsedExact BY DEF IInv, UsedInv
<1> QED BY <1>1, <1>2, <1>3, PTL DEF Spec
=============================================================================
