----------------------------- MODULE Recording -----------------------------
(***************************************************************************)
(* What a recorder promises to its source, whatever its threads do: a log  *)
(* of the packets in files.  A packet offered to it is lost only when as   *)
(* many are held as the queue has room for; what is held goes to the       *)
(* current file, the oldest first, and never behind that file's trailer; a *)
(* new file begins only when every earlier one has its trailer.  A file is *)
(* destroyed only by a later opening, done or failed, and only while there *)
(* is a defined file, and only the end of the program loses what is held.  *)
(***************************************************************************)
EXTENDS Naturals, Sequences

CONSTANTS
    Capacity, \* packets the queue has room for: max_pkt_count
    Unmapped  \* packets of streams the files have no room for

VARIABLES
    defined, \* the files share the name of a defined one
    next,    \* number of the next packet to be offered
    held,    \* packets accepted, in no file yet
    log,     \* packets taken, each with the number of its file
    chunk,   \* number of the current file, 0 for none
    sealed,  \* files with a trailer
    lost,    \* files whose content has been destroyed
    alive    \* the program has not crashed

rvars == <<defined, next, held, log, chunk, sealed, lost, alive>>

Init ==
    /\ defined \in BOOLEAN
    /\ next = 1
    /\ held = <<>> /\ log = <<>>
    /\ chunk = 0 /\ sealed = {} /\ lost = {}
    /\ alive = TRUE

Offer ==
    /\ alive
    /\ next' = next + 1
    /\ \/ held' = Append(held, next)
       \/ Len(held) >= Capacity /\ held' = held
    /\ UNCHANGED <<defined, log, chunk, sealed, lost, alive>>

\* The k oldest packets go to the current file; what belongs to a stream that
\* is not recorded goes nowhere, and may do so without a file.
Write(k) ==
    /\ alive
    /\ \/ chunk > 0 /\ chunk \notin sealed
       \/ \A i \in 1..k : held[i] \in Unmapped
    /\ log' = log \o [i \in 1..k |-> [chunk |-> chunk, packet |-> held[i]]]
    /\ held' = SubSeq(held, k + 1, Len(held))
    /\ UNCHANGED <<defined, next, chunk, sealed, lost, alive>>

\* An opening goes over earlier files of the same name, the defined one too.
Destroy ==
    /\ lost \subseteq lost' /\ lost' \subseteq 1..chunk
    /\ lost' # lost => defined
    /\ defined' \in {defined, FALSE}

Open ==
    /\ alive
    /\ 1..chunk \subseteq sealed
    /\ chunk' = chunk + 1
    /\ Destroy
    /\ UNCHANGED <<next, held, log, sealed, alive>>

OpenFails ==
    /\ alive
    /\ 1..chunk \subseteq sealed
    /\ Destroy
    /\ UNCHANGED <<next, held, log, chunk, sealed, alive>>

Seal ==
    /\ alive
    /\ chunk > 0
    /\ sealed' = sealed \cup {chunk}
    /\ UNCHANGED <<defined, next, held, log, chunk, lost, alive>>

Crash ==
    /\ alive /\ alive' = FALSE
    /\ held' = <<>>
    /\ UNCHANGED <<defined, next, log, chunk, sealed, lost>>

Next ==
    \/ Offer \/ Open \/ OpenFails \/ Seal \/ Crash
    \/ \E k \in 1..Len(held) : Write(k)

Spec == Init /\ [][Next]_rvars
=============================================================================
