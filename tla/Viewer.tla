------------------------------- MODULE Viewer -------------------------------
(***************************************************************************)
(* One viewer of a source: viewer::impl (write/viewer.cpp) on top of       *)
(* viewer_data and writer_base.  Two threads use it:                       *)
(*                                                                         *)
(*   - its owner, the source: it starts the viewer, offers it one packet   *)
(*     after the other (viewer::write_packet) and destroys it.  These      *)
(*     calls never overlap, so the owner is one thread (variable opc);     *)
(*   - its own worker, which sets up the container and then hands the      *)
(*     queued packets to the muxer (variable pc).                          *)
(*                                                                         *)
(* They share the queue under a mutex and a condition variable, and the    *)
(* flag running without either.  A wait on the condition variable is       *)
(* three steps: the test of the predicate, the release of the mutex        *)
(* together with going to sleep, and, once woken, taking the mutex again.  *)
(***************************************************************************)
EXTENDS Naturals, Sequences

CONSTANTS
    Capacity,  \* max_pkt_count, 256 in the code
    MaxPackets \* bound: packets the source offers

ASSUME ViewerAssumption ==
    /\ Capacity \in Nat \ {0}
    /\ MaxPackets \in Nat

VARIABLES
    running, \* impl::running
    queue,   \* impl::queue
    mutex,   \* impl::mutex: "none", "worker" or "owner"
    pc,      \* where the worker is
    opc,     \* where the owner is
    next,    \* number of the next packet the owner offers
    sent     \* packets handed to the muxer, which writes them to the client

vars == <<running, queue, mutex, pc, opc, next, sent>>

WorkerPc == {"unstarted", "setup", "top", "lock", "check", "block", "asleep",
             "woken", "drain", "finalize", "stop", "done"}
OwnerPc == {"new", "idle", "push", "notify", "clear", "wake", "join", "gone"}

Init ==
    /\ running = FALSE
    /\ queue = <<>> /\ mutex = "none"
    /\ pc = "unstarted" /\ opc = "new"
    /\ next = 1 /\ sent = <<>>

\* cv.notify_all().
Notify == pc' = IF pc = "asleep" THEN "woken" ELSE pc

-----------------------------------------------------------------------------
(* The owner. *)

\* viewer::start.
Start ==
    /\ opc = "new"
    /\ running' = TRUE
    /\ pc' = "setup"
    /\ opc' = "idle"
    /\ UNCHANGED <<queue, mutex, next, sent>>

\* viewer::write_packet tests the flag; a viewer that refuses is destroyed.
Offer ==
    /\ opc = "idle" /\ next <= MaxPackets
    /\ opc' = IF running THEN "push" ELSE "clear"
    /\ UNCHANGED <<running, queue, mutex, pc, next, sent>>

PushUnbounded == Append(queue, next) \* mutation: no test of queue.size()
PushNewest ==
    IF Len(queue) < Capacity \* mutation: the oldest packet makes room
    THEN Append(queue, next) ELSE Append(Tail(queue), next)
Pushed == IF Len(queue) < Capacity THEN Append(queue, next) ELSE queue

\* It queues the packet if there is room ...
Push ==
    /\ opc = "push" /\ mutex = "none"
    /\ queue' = Pushed
    /\ next' = next + 1
    /\ opc' = "notify"
    /\ UNCHANGED <<running, mutex, pc, sent>>

NotifyNobody == UNCHANGED pc \* mutation: no notify_all()
NotifyPush == Notify

\* ... and notifies.
Notified ==
    /\ opc = "notify"
    /\ NotifyPush
    /\ opc' = "idle"
    /\ UNCHANGED <<running, queue, mutex, next, sent>>

\* The source lets go of the viewer.
Destroy ==
    /\ opc \in {"new", "idle"}
    /\ opc' = "clear"
    /\ UNCHANGED <<running, queue, mutex, pc, next, sent>>

\* ~impl: running = false ...
Clear ==
    /\ opc = "clear"
    /\ running' = FALSE
    /\ opc' = "wake"
    /\ UNCHANGED <<queue, mutex, pc, next, sent>>

\* ... cv.notify_all() ...
Wake ==
    /\ opc = "wake"
    /\ Notify
    /\ opc' = "join"
    /\ UNCHANGED <<running, queue, mutex, next, sent>>

\* ... and worker.join().
Join ==
    /\ opc = "join" /\ pc \in {"unstarted", "done"}
    /\ opc' = "gone"
    /\ UNCHANGED <<running, queue, mutex, pc, next, sent>>

Owner ==
    \/ Start \/ Offer \/ Push \/ Notified \/ Destroy \/ Clear \/ Wake \/ Join

-----------------------------------------------------------------------------
(* The worker. *)

\* setup_output: the input may be gone, the container may refuse the streams,
\* the client may hang up.
Setup(ok) ==
    /\ pc = "setup"
    /\ pc' = IF ok THEN "top" ELSE "stop"
    /\ UNCHANGED <<running, queue, mutex, opc, next, sent>>

\* while (running.load()) ...
Top ==
    /\ pc = "top"
    /\ pc' = IF running THEN "lock" ELSE "finalize"
    /\ UNCHANGED <<running, queue, mutex, opc, next, sent>>

\* Taking the mutex, the first time or after a wait.
Lock ==
    /\ pc \in {"lock", "woken"} /\ mutex = "none"
    /\ mutex' = "worker"
    /\ pc' = "check"
    /\ UNCHANGED <<running, queue, opc, next, sent>>

Awaited == ~running \/ queue # <<>>

\* The predicate of cv.wait ...
Check ==
    /\ pc = "check"
    /\ pc' = IF Awaited THEN "drain" ELSE "block"
    /\ UNCHANGED <<running, queue, mutex, opc, next, sent>>

\* ... and its release of the mutex, atomic with going to sleep.
Block ==
    /\ pc = "block"
    /\ mutex' = "none"
    /\ pc' = "asleep"
    /\ UNCHANGED <<running, queue, opc, next, sent>>

\* A condition variable may wake by itself.
WakeSpuriously ==
    /\ pc = "asleep"
    /\ pc' = "woken"
    /\ UNCHANGED <<running, queue, mutex, opc, next, sent>>

\* The queue is empty: the scope of the lock ends.
Drained ==
    /\ pc = "drain" /\ queue = <<>>
    /\ mutex' = "none"
    /\ pc' = "top"
    /\ UNCHANGED <<running, queue, opc, next, sent>>

Popped == Tail(queue)

\* writer_base::write_packet of the first packet, with the mutex held: it goes
\* to the muxer, or it is ignored because its stream has no output stream.
Write(written) ==
    /\ pc = "drain" /\ queue # <<>>
    /\ sent' = IF written THEN Append(sent, Head(queue)) ELSE sent
    /\ queue' = Popped
    /\ UNCHANGED <<running, mutex, pc, opc, next>>

\* The write fails, or the last one is more than fifteen seconds ago.
WriteFails ==
    /\ pc = "drain" /\ queue # <<>>
    /\ running' = FALSE
    /\ mutex' = "none"
    /\ pc' = "top"
    /\ UNCHANGED <<queue, opc, next, sent>>

\* finalize(): the trailer.
Finalize ==
    /\ pc = "finalize"
    /\ pc' = "stop"
    /\ UNCHANGED <<running, queue, mutex, opc, next, sent>>

Stop ==
    /\ pc = "stop"
    /\ running' = FALSE
    /\ pc' = "done"
    /\ UNCHANGED <<queue, mutex, opc, next, sent>>

Worker ==
    \/ \E ok \in BOOLEAN : Setup(ok)
    \/ Top \/ Lock \/ Check \/ Block \/ Drained
    \/ \E written \in BOOLEAN : Write(written)
    \/ WriteFails \/ Finalize \/ Stop

Finished == opc = "gone" /\ UNCHANGED vars

Next == Owner \/ Worker \/ WakeSpuriously \/ Finished

(***************************************************************************)
(* Fairness: the worker runs, and the owner completes the calls it began.  *)
(* A std::mutex serves its waiters in the end.  That a write returns is    *)
(* part of WF_vars(Worker): the properties that need it are about clients  *)
(* that read on or hang up.  Nobody owes the worker a spurious wakeup.     *)
(***************************************************************************)
Fairness ==
    /\ WF_vars(Worker) /\ SF_vars(Lock)
    /\ SF_vars(Push) /\ WF_vars(Notified \/ Clear \/ Wake \/ Join)

Spec == Init /\ [][Next]_vars /\ Fairness

-----------------------------------------------------------------------------
(* What holds. *)

\* Types; the queue never holds more than Capacity packets, and the mutex is
\* held exactly between taking and releasing it.
TypeOK ==
    /\ running \in BOOLEAN
    /\ queue \in Seq(Nat) /\ Len(queue) <= Capacity
    /\ sent \in Seq(Nat)
    /\ next \in 1..(MaxPackets + 1)
    /\ pc \in WorkerPc /\ opc \in OwnerPc
    /\ mutex \in {"none", "worker"}
    /\ mutex = "worker" <=> pc \in {"check", "block", "drain"}

\* The viewer is a bounded FIFO pipe from the source to the client.
Piped == INSTANCE Pipe WITH buffer <- queue, delivered <- sent,
                            open <- pc # "done"
IsPipe == Piped!Spec

\* The client sees the packets in order, none twice (viewer.cpp:59-66).
SentInOrder == Piped!InOrder

\* No accepted packet waits for ever while the worker lives: push and notify
\* never slip between the test of the predicate and the sleep.
PacketsFlow ==
    \A p \in 1..MaxPackets :
        p \in Piped!Packets(queue) ~>
        p \notin Piped!Packets(queue) \/ pc = "done"

-----------------------------------------------------------------------------
\* "removes source <name>" (streamer.hpp:39): removing a source destroys its
\* viewers, and ~impl has to return for that.
DestructionReturns == opc = "clear" ~> opc = "gone"
=============================================================================
