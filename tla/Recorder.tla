------------------------------ MODULE Recorder ------------------------------
(***************************************************************************)
(* The recorder of a source: recorder::impl (write/recorder.cpp) on top of *)
(* recorder_data and writer_base.  Its owner is the source's worker, which *)
(* starts it, offers it packets and destroys it (variable opc).  Its own   *)
(* thread (variable pc) moves the packets through three places:            *)
(*                                                                         *)
(*   queue       what the owner offered, under the mutex;                  *)
(*   rec_buffer  with a write interval, what waits to be written at once;  *)
(*   recorded    what write_packet took: it is in a file, or was ignored   *)
(*               because its stream has no output stream.                  *)
(*                                                                         *)
(* Files come one after the other: chunk numbers the last one opened.  A   *)
(* file ends with a trailer, and check_limits decides when it is time for  *)
(* the next.  Whether the write interval has passed and whether a limit is *)
(* reached (bytes, seconds, disk space, a gap of thirty seconds) are left  *)
(* open.  record_options do not change in the recorder's life.             *)
(*                                                                         *)
(* An opening tries the formats in turn, the preferred one first, under    *)
(* the same name with another extension.  With a path that names a regular *)
(* file that name is always the same, so a try destroys what an earlier    *)
(* chunk left under it: it is truncated, and removed when the try fails.   *)
(* When the path itself is removed so, the next openings find no file      *)
(* there and go to new names.                                              *)
(***************************************************************************)
EXTENDS Naturals, Sequences, Functions

CONSTANTS
    Capacity,    \* max_pkt_count, 256 in the code
    MaxPackets,  \* bound: packets the source offers
    Formats,     \* number of formats tried, 7 in the code
    Unmapped,    \* packets of streams without an output stream
    Untimed      \* packets without a pts

ASSUME RecorderAssumption ==
    /\ Capacity \in Nat \ {0}
    /\ MaxPackets \in Nat
    /\ Formats \in Nat \ {0}
    /\ Unmapped \subseteq 1..MaxPackets
    /\ Untimed \subseteq 1..MaxPackets

VARIABLES
    batched,    \* record_options.write_interval > 0
    running,    \* impl::running
    queue,      \* impl::queue
    mutex,      \* impl::mutex: "none" or "worker"; the owner's use is one step
    pc,         \* where the recorder's thread is
    opc,        \* where the owner is
    next,       \* number of the next packet the owner offers
    rec_buffer, \* impl::rec_buffer
    output,     \* recorder_data::output is there
    chunk,      \* number of the file opened last, 0 for none
    recorded,   \* packets write_packet took, each with its chunk
    trailers,   \* how many trailers each chunk got
    path,       \* the regular file record_options.path names: 0 for none, else
                \* which of the formats its extension is (the last for another)
    made,       \* the format of each chunk, 0 when its name is a new one
    lost        \* chunks whose content has been destroyed

shared == <<running, queue, mutex, opc, next>>
names == <<path, made, lost>>
files == <<output, chunk, recorded, trailers, names>>
state == <<shared, pc, rec_buffer, files>>
vars == <<batched, state>>

WorkerPc == {"unstarted", "top", "lock", "check", "block", "asleep", "woken",
             "drain", "flush", "limits", "rotate", "close", "finalize", "stop",
             "done", "crashed"}
OwnerPc == {"new", "idle", "push", "notify", "clear", "wake", "join", "close",
            "gone"}

Init ==
    /\ batched \in BOOLEAN
    /\ path \in 0..(Formats + 1) /\ made = <<>> /\ lost = {}
    /\ running = FALSE
    /\ queue = <<>> /\ mutex = "none"
    /\ pc = "unstarted" /\ opc = "new"
    /\ next = 1 /\ rec_buffer = <<>>
    /\ output = FALSE /\ chunk = 0
    /\ recorded = <<>> /\ trailers = <<>>

\* cv.notify_all().
Notify == pc' = IF pc = "asleep" THEN "woken" ELSE pc

\* finalize(): a trailer, if there is an output.
Trailer == IF output THEN [trailers EXCEPT ![chunk] = @ + 1] ELSE trailers

-----------------------------------------------------------------------------
(* The owner. *)

\* recorder::start.
Start ==
    /\ opc = "new"
    /\ running' = TRUE
    /\ pc' = "top"
    /\ opc' = "idle"
    /\ UNCHANGED <<queue, mutex, next, rec_buffer, files>>

\* recorder::write_packet tests the flag; a recorder that refuses is destroyed.
Offer ==
    /\ opc = "idle" /\ next <= MaxPackets
    /\ opc' = IF running THEN "push" ELSE "clear"
    /\ UNCHANGED <<running, queue, mutex, pc, next, rec_buffer, files>>

PushUnbounded == Append(queue, next) \* mutation: no test of queue.size()
Pushed == IF Len(queue) < Capacity THEN Append(queue, next) ELSE queue

Push ==
    /\ opc = "push" /\ mutex = "none"
    /\ queue' = Pushed
    /\ next' = next + 1
    /\ opc' = "notify"
    /\ UNCHANGED <<running, mutex, pc, rec_buffer, files>>

NotifyNobody == UNCHANGED pc \* mutation: no notify_all()
NotifyPush == Notify

Notified ==
    /\ opc = "notify"
    /\ NotifyPush
    /\ opc' = "idle"
    /\ UNCHANGED <<running, queue, mutex, next, rec_buffer, files>>

\* The source resets irecorder: ~impl clears running ...
Destroy ==
    /\ opc \in {"new", "idle", "clear"}
    /\ running' = FALSE
    /\ opc' = "wake"
    /\ UNCHANGED <<queue, mutex, pc, next, rec_buffer, files>>

\* ... notifies ...
Wake ==
    /\ opc = "wake"
    /\ Notify
    /\ opc' = "join"
    /\ UNCHANGED <<running, queue, mutex, next, rec_buffer, files>>

\* ... joins the thread ...
Join ==
    /\ opc = "join" /\ pc \in {"unstarted", "done"}
    /\ opc' = "close"
    /\ UNCHANGED <<running, queue, mutex, pc, next, rec_buffer, files>>

\* ... and ~recorder_data finalizes and closes what is open.
Close ==
    /\ opc = "close"
    /\ trailers' = Trailer
    /\ output' = FALSE
    /\ opc' = "gone"
    /\ UNCHANGED <<running, queue, mutex, pc, next, rec_buffer, chunk, recorded, names>>

Owner ==
    \/ Start \/ Offer \/ Push \/ Notified \/ Destroy \/ Wake \/ Join \/ Close

-----------------------------------------------------------------------------
(* The recorder's thread: waiting for packets. *)

\* setup_output has tried the first n formats: what earlier chunks left under
\* those names is destroyed ...
OneName(n) == IF n = 0 THEN lost ELSE 1..chunk \* mutation: no time in the name
Truncated(n) ==
    IF path = 0 THEN lost ELSE lost \cup {k \in 1..chunk : made[k] \in 1..n}

\* ... and where they failed the file is removed, the path's own too.
Removed(n) == IF path \in 1..n THEN 0 ELSE path

\* while (running.load()): without an output, init_record opens the next file,
\* in the first format whose header can be written.
OpenFile ==
    /\ pc = "top" /\ running /\ ~output
    /\ output' = TRUE
    /\ chunk' = chunk + 1
    /\ trailers' = Append(trailers, 0)
    /\ \E f \in 1..Formats :
          /\ made' = Append(made, IF path = 0 THEN 0 ELSE f)
          /\ lost' = Truncated(f)
          /\ path' = Removed(f - 1)
    /\ pc' = "lock"
    /\ UNCHANGED <<shared, rec_buffer, recorded>>

\* No space or no directory: nothing is tried.  No format fits: all are.
OpenFails ==
    /\ pc = "top" /\ running /\ ~output
    /\ \E n \in {0, Formats} : lost' = Truncated(n) /\ path' = Removed(n)
    /\ pc' = "finalize"
    /\ UNCHANGED <<shared, rec_buffer, output, chunk, recorded, trailers, made>>

Top ==
    /\ pc = "top" /\ (running => output)
    /\ pc' = IF running THEN "lock" ELSE "finalize"
    /\ UNCHANGED <<shared, rec_buffer, files>>

\* Taking the mutex, the first time or after a wait.
Lock ==
    /\ pc \in {"lock", "woken"} /\ mutex = "none"
    /\ mutex' = "worker"
    /\ pc' = "check"
    /\ UNCHANGED <<running, queue, opc, next, rec_buffer, files>>

\* The predicate of cv.wait ...
Check ==
    /\ pc = "check"
    /\ pc' = IF ~running \/ queue # <<>> THEN "drain" ELSE "block"
    /\ UNCHANGED <<shared, rec_buffer, files>>

\* ... and its release of the mutex, atomic with going to sleep.
Block ==
    /\ pc = "block"
    /\ mutex' = "none"
    /\ pc' = "asleep"
    /\ UNCHANGED <<running, queue, opc, next, rec_buffer, files>>

WakeSpuriously ==
    /\ pc = "asleep"
    /\ pc' = "woken"
    /\ UNCHANGED <<shared, rec_buffer, files>>

Drained ==
    /\ pc = "drain" /\ queue = <<>>
    /\ mutex' = "none"
    /\ pc' = "top"
    /\ UNCHANGED <<running, queue, opc, next, rec_buffer, files>>

-----------------------------------------------------------------------------
(* The recorder's thread: one packet, with the mutex held. *)

\* What recorded becomes when write_packet takes these packets.
Written(packets) ==
    recorded \o [i \in 1..Len(packets) |-> [chunk |-> chunk, packet |-> packets[i]]]

\* write_packet dereferences output for every packet of a mapped stream.
Unwritable(packets) == ~output /\ ~(Range(packets) \subseteq Unmapped)

\* So does set_packet_times, before that, for a packet without a pts.
Untimeable == ~output /\ Head(queue) \in Untimed \ Unmapped

Crash ==
    /\ pc' = "crashed"
    /\ UNCHANGED <<shared, rec_buffer, files>>

TimesCrash ==
    /\ pc = "drain" /\ queue # <<>> /\ Untimeable
    /\ Crash

\* No write interval: the packet is written.
WriteDirect ==
    /\ pc = "drain" /\ queue # <<>> /\ ~batched
    /\ ~Untimeable /\ ~Unwritable(<<Head(queue)>>)
    /\ recorded' = Written(<<Head(queue)>>)
    /\ pc' = "limits"
    /\ UNCHANGED <<shared, rec_buffer, output, chunk, trailers, names>>

\* The write fails, or the last one is too long ago.
WriteFails ==
    /\ pc = "drain" /\ queue # <<>> /\ ~batched /\ ~Untimeable
    /\ running' = FALSE
    /\ mutex' = "none"
    /\ pc' = "top"
    /\ UNCHANGED <<queue, opc, next, rec_buffer, files>>

WriteCrashes ==
    /\ pc = "drain" /\ queue # <<>> /\ ~batched
    /\ ~Untimeable /\ Unwritable(<<Head(queue)>>)
    /\ Crash

BufferFirst == <<Head(queue)>> \o rec_buffer \* mutation: a stack for a queue
Buffered == Append(rec_buffer, Head(queue))

\* With a write interval the packet is buffered, and the buffer written if due.
Buffer(due) ==
    /\ pc = "drain" /\ queue # <<>> /\ batched /\ ~Untimeable
    /\ rec_buffer' = Buffered
    /\ pc' = IF due THEN "flush" ELSE "limits"
    /\ UNCHANGED <<shared, files>>

FlushOneMore(k) == SubSeq(rec_buffer, k + 2, Len(rec_buffer)) \* mutation: pop after a failure
Unflushed(k) == SubSeq(rec_buffer, k + 1, Len(rec_buffer))

\* write_buffer: the first k packets are written, and the next one fails.
Flush(k) ==
    /\ pc \in {"flush", "rotate"}
    /\ ~Unwritable(SubSeq(rec_buffer, 1, k))
    /\ recorded' = Written(SubSeq(rec_buffer, 1, k))
    /\ rec_buffer' = Unflushed(k)
    /\ running' = (running /\ k = Len(rec_buffer))
    /\ pc' = IF pc = "flush" THEN "limits" ELSE "close"
    /\ UNCHANGED <<queue, mutex, opc, next, output, chunk, trailers, names>>

FlushCrashes ==
    /\ pc \in {"flush", "rotate"} /\ Unwritable(rec_buffer)
    /\ Crash

\* check_limits lets the file go on.
WithinLimits ==
    /\ pc = "limits"
    /\ queue' = Tail(queue)
    /\ pc' = "drain"
    /\ UNCHANGED <<running, mutex, opc, next, rec_buffer, files>>

\* It does not: finalize_record writes the buffer ...
LimitReached ==
    /\ pc = "limits"
    /\ pc' = "rotate"
    /\ UNCHANGED <<shared, rec_buffer, files>>

NoTrailer == trailers \* mutation: close() without finalize()
RotationTrailer == Trailer

StillOpen == output \* mutation: finalize() without close()
Closed == FALSE

\* ... and the trailer, and closes the file; the loop over the queue goes on.
Rotate ==
    /\ pc = "close"
    /\ trailers' = RotationTrailer
    /\ output' = Closed
    /\ queue' = Tail(queue)
    /\ pc' = "drain"
    /\ UNCHANGED <<running, mutex, opc, next, rec_buffer, chunk, recorded, names>>

Finalize ==
    /\ pc = "finalize"
    /\ trailers' = Trailer
    /\ pc' = "stop"
    /\ UNCHANGED <<shared, rec_buffer, output, chunk, recorded, names>>

Stop ==
    /\ pc = "stop"
    /\ running' = FALSE
    /\ pc' = "done"
    /\ UNCHANGED <<queue, mutex, opc, next, rec_buffer, files>>

Worker ==
    \/ OpenFile \/ OpenFails \/ Top \/ Lock \/ Check \/ Block \/ Drained
    \/ TimesCrash \/ WriteDirect \/ WriteFails \/ WriteCrashes
    \/ \E due \in BOOLEAN : Buffer(due)
    \/ \E k \in 0..Len(rec_buffer) : Flush(k)
    \/ FlushCrashes \/ WithinLimits \/ LimitReached \/ Rotate
    \/ Finalize \/ Stop

\* A crash ends the program.
Finished == (opc = "gone" \/ pc = "crashed") /\ UNCHANGED vars

Next ==
    \/ /\ pc # "crashed" /\ UNCHANGED batched
       /\ Owner \/ Worker \/ WakeSpuriously
    \/ Finished

\* The owner's steps in a call that it has begun.
Completing == Notified \/ (opc = "clear" /\ Destroy) \/ Wake \/ Join \/ Close

(***************************************************************************)
(* Fairness: as for a viewer, the thread runs and the owner completes the  *)
(* calls it began; a mutex serves its waiters in the end.                  *)
(***************************************************************************)
Fairness ==
    /\ WF_state(Worker) /\ SF_state(Lock)
    /\ SF_state(pc # "crashed" /\ Push)
    /\ WF_state(pc # "crashed" /\ Completing)

Spec == Init /\ [][Next]_vars /\ Fairness

-----------------------------------------------------------------------------
(* What holds. *)

\* The packets of the queue the thread has not taken: it pops a packet only
\* after it has dealt with it.
Waiting ==
    IF pc \in {"flush", "limits", "rotate", "close"} THEN Tail(queue) ELSE queue

\* Types; the queue is bounded, the mutex is held exactly while a packet may
\* be dealt with, and an open output is the file opened last.
TypeOK ==
    /\ batched \in BOOLEAN
    /\ path \in 0..(Formats + 1)
    /\ made \in Seq(0..Formats) /\ Len(made) = chunk
    /\ lost \subseteq 1..chunk
    /\ running \in BOOLEAN /\ output \in BOOLEAN
    /\ queue \in Seq(Nat) /\ Len(queue) <= Capacity
    /\ rec_buffer \in Seq(Nat)
    /\ next \in 1..(MaxPackets + 1)
    /\ chunk \in Nat /\ (output => chunk > 0)
    /\ trailers \in Seq(Nat) /\ Len(trailers) = chunk
    /\ recorded \in Seq([chunk : Nat, packet : Nat])
    /\ pc \in WorkerPc /\ opc \in OwnerPc
    /\ mutex \in {"none", "worker"}
    /\ pc # "crashed" =>
         (mutex = "worker" <=> pc \in {"check", "block", "drain", "flush",
                                       "limits", "rotate", "close"})

\* Through queue, buffer and files, over rotations and failed writes, packets
\* stay in the order of the source and none is written twice
\* (recorder.cpp:74-110).
InOrder ==
    LET line == [i \in 1..Len(recorded) |-> recorded[i].packet]
                    \o rec_buffer \o (IF pc = "crashed" THEN <<>> ELSE Waiting)
    IN  \A i, j \in 1..Len(line) : i < j => line[i] < line[j]

\* Every file but the one being written has its trailer, whatever failed
\* (recorder.cpp:98, 163); and once the thread is done every file has it.
FilesAreSealed ==
    \A i \in 1..chunk :
        (i < chunk \/ ~output \/ pc \in {"stop", "done"}) => trailers[i] > 0

\* An accepted packet goes on, from the queue to the buffer to the files
\* (recorder.cpp:74-111), whatever fails; it is lost only when an opening, done
\* or failed, tries its formats under the name of a defined file
\* (recorder_data.cpp:235-246).
Intact == {i \in 1..Len(recorded) : recorded[i].chunk \notin lost}
Kept == Range(queue) \cup Range(rec_buffer) \cup {recorded[i].packet : i \in Intact}
NothingVanishes ==
    [][Kept \subseteq Kept' \/ (pc = "top" /\ ~output /\ path # 0)]_vars

\* The recorder is a log in files (recorder.cpp:64-165): what it holds is the
\* buffer and what waits in the queue, a file with a trailer is sealed.
Held == IF pc = "crashed" THEN <<>> ELSE rec_buffer \o Waiting

Logged == INSTANCE Recording WITH
            defined <- path # 0, held <- Held, log <- recorded,
            sealed <- {i \in 1..chunk : trailers[i] > 0},
            alive <- pc # "crashed"
IsRecording == Logged!Spec

\* No accepted packet waits in the queue for ever while the thread lives.
PacketsFlow ==
    \A p \in 1..MaxPackets :
        p \in Range(queue) ~> p \notin Range(queue) \/ pc \in {"done", "crashed"}

-----------------------------------------------------------------------------
(* What the documentation says and the code does not do. *)

\* "chunked record by size or duration" (README.md:17): the end of one file
\* does not end the program.
RotationSurvives == pc # "crashed"

\* "buffering packets and writing every 3 seconds to disk" (README.md:98): a
\* recorder that is stopped has written what it buffered.
BufferReachesDisk == opc = "gone" => rec_buffer = <<>>
=============================================================================
