-------------------------------- MODULE Pipe --------------------------------
(***************************************************************************)
(* What a viewer promises to its source, whatever its threads do: a FIFO   *)
(* pipe of bounded capacity.  A packet offered to it is lost only when the *)
(* pipe is full, the client gets packets in the order they were offered    *)
(* and none twice, and once the pipe is closed the client gets no more.    *)
(* Packets are numbered in the order the source offers them.               *)
(***************************************************************************)
EXTENDS Naturals, Sequences

CONSTANT Capacity \* packets the pipe holds: max_pkt_count

VARIABLES
    next,      \* number of the next packet to be offered
    buffer,    \* packets accepted, not yet handled
    delivered, \* packets given to the client's muxer
    open       \* the pipe still delivers

pvars == <<next, buffer, delivered, open>>

Init ==
    /\ next = 1
    /\ buffer = <<>>
    /\ delivered = <<>>
    /\ open = TRUE

Offer ==
    /\ next' = next + 1
    /\ buffer' = IF Len(buffer) < Capacity THEN Append(buffer, next) ELSE buffer
    /\ UNCHANGED <<delivered, open>>

\* The oldest packet goes to the client.
Deliver ==
    /\ open /\ buffer # <<>>
    /\ delivered' = Append(delivered, Head(buffer))
    /\ buffer' = Tail(buffer)
    /\ UNCHANGED <<next, open>>

\* The oldest packet belongs to a stream the client's container has no room for.
Skip ==
    /\ open /\ buffer # <<>>
    /\ buffer' = Tail(buffer)
    /\ UNCHANGED <<next, delivered, open>>

Close ==
    /\ open /\ open' = FALSE
    /\ UNCHANGED <<next, buffer, delivered>>

Next == Offer \/ Deliver \/ Skip \/ Close

Spec == Init /\ [][Next]_pvars

-----------------------------------------------------------------------------
Packets(s) == {s[i] : i \in 1..Len(s)}
Increasing(s) == \A i, j \in 1..Len(s) : i < j => s[i] < s[j]

\* The client gets packets in order and none twice, and everything it got is
\* older than everything that waits (the queue of viewer.cpp:24).
InOrder ==
    /\ Increasing(delivered)
    /\ Increasing(buffer)
    /\ \A p \in Packets(delivered), q \in Packets(buffer) : p < q
=============================================================================
