--------------------------- MODULE ReliableStream ---------------------------
(***************************************************************************)
(* What the remote-control transport promises the two ends of a stream,    *)
(* whatever happens to the websocket in between: what has arrived of a     *)
(* stream is at every moment a prefix of what was accepted for it (nothing *)
(* lost, nothing twice, nothing out of order), and everything accepted     *)
(* arrives in the end.                                                     *)
(***************************************************************************)
EXTENDS Naturals, Sequences

CONSTANT Streams

VARIABLES
    accepted,   \* stream -> the items accepted for it, in order
    arrived     \* stream -> the items that have arrived at the other end

vars == <<accepted, arrived>>

\* t is s with zero or more items added at its end.
Extends(t, s) ==
    /\ Len(s) <= Len(t)
    /\ SubSeq(t, 1, Len(s)) = s

Init ==
    /\ accepted = [s \in Streams |-> <<>>]
    /\ arrived = [s \in Streams |-> <<>>]

\* One message may become several items (the segments of a large message).
Accept ==
    /\ DOMAIN accepted' = Streams
    /\ \A s \in Streams : Extends(accepted'[s], accepted[s])
    /\ UNCHANGED arrived

Arrive(s) ==
    /\ Len(arrived[s]) < Len(accepted[s])
    /\ arrived' = [arrived EXCEPT ![s] = Append(@, accepted[s][Len(@) + 1])]
    /\ UNCHANGED accepted

Next == Accept \/ \E s \in Streams : Arrive(s)

Safe == Init /\ [][Next]_vars

Live == \A s \in Streams : WF_vars(Arrive(s))

Spec == Safe /\ Live
=============================================================================
