------------------------------- MODULE Source -------------------------------
(***************************************************************************)
(* One media source of the streamer: source::impl (source/source.cpp) and  *)
(* the demuxer it drives (source/demuxer.cpp).  Three threads meet here:   *)
(*                                                                         *)
(*   - the source's worker thread, which opens the input, demuxes it, and  *)
(*     feeds the recorder and the viewers (variable wpc);                  *)
(*   - the HTTP thread, which hands over new viewers (add_viewer, hpc);    *)
(*   - the thread of the embedding application, which starts, records and  *)
(*     destroys the source (apc).                                          *)
(*                                                                         *)
(* Each viewer and the recorder own one more thread.  Here such a thread   *)
(* is only its life cycle; modules Viewer and Recorder open it up.         *)
(*                                                                         *)
(* Every access to state shared without the mutex is a step of its own.    *)
(* Packets are abstracted to "how many did the transcoder return", the     *)
(* two elapsed timers to "has the threshold passed".                       *)
(*                                                                         *)
(* Starting a thread and storing a packet may throw.  An exception out of  *)
(* run() is caught by start_worker and skips all that run() does after the *)
(* demuxer returned; unwound remembers that the last run ended that way.   *)
(***************************************************************************)
EXTENDS Naturals

CONSTANTS
    Viewers,    \* identities of viewer objects, reused after destruction
    Options,    \* values of record_options_t an application may pass
    NoOptions,  \* the default record_options of a source never recorded
    MaxBatch,   \* bound: packets transcoder::make_packets returns at once
    Exceptions  \* what may throw: creating a thread, storing a packet

ASSUME SourceAssumption ==
    /\ NoOptions \notin Options
    /\ MaxBatch \in Nat \ {0}
    /\ Exceptions \subseteq {"thread", "memory"}

VARIABLES
    running,      \* source_data::running
    demuxing,     \* source_data::demuxing
    recording,    \* source_data::recording
    options,      \* source_data::record_options
    initialized,  \* demux_data.demuxer_initialized
    interrunning, \* demux_data.inter_handler.running
    mutex,        \* source::impl::mutex: "none" or the thread holding it
    viewers,      \* source_data::viewers
    vstate,       \* life cycle of each viewer object and of its thread
    stalled,      \* viewers whose thread is inside a send() that blocks
    rec,          \* source_data::irecorder and the life of its thread
    recoptions,   \* the options irecorder was created under
    runtimer,     \* run_elapsed_time.seconds() > 5
    viewless,     \* viewless_time.seconds() > 30
    wpc,          \* where the worker thread is
    hpc, hviewer, \* where the HTTP thread is, and the viewer it carries
    apc,          \* where the application thread is
    unwound,      \* history: an exception left run(), no run ended since
    crash         \* how the process died, "no" while it lives

workerVars == <<running, initialized, interrunning, runtimer, viewless>>
viewerVars == <<viewers, vstate, stalled>>
recVars    == <<rec, recoptions>>
userVars   == <<recording, options>>
httpVars   == <<hpc, hviewer>>
vars == <<workerVars, viewerVars, recVars, userVars, httpVars,
          demuxing, mutex, wpc, apc, unwound, crash>>

(***************************************************************************)
(* absent: no object.  ready: initialised, thread not started.  up: thread *)
(* started, impl::running is true.  stopping: impl::running is false but   *)
(* the thread has not returned.  ended: thread returned, not yet joined.   *)
(* hollow and revived: a start() that threw left impl::running true while  *)
(* there is no thread (hollow) or only the old one that returned (revived).*)
(***************************************************************************)
VState == {"absent", "ready", "hollow", "up", "stopping", "ended", "revived"}
RState == {"none", "hollow", "up", "failed", "stopping"}
WPc == {"unstarted", "top", "open", "opened", "on_open", "loop", "read",
        "record", "lock", "write", "timer", "recstart", "timer2", "recstop",
        "quiet", "stall", "end", "clear", "clearing", "recreset", "reset",
        "exit"}
HPc == {"idle", "enter", "start", "put"}
APc == {"idle", "recording", "interrupt", "join", "release", "free", "gone"}
\* terminate: assignment over a joinable std::thread; uncaught: an exception
\* that leaves a thread's function, which ends in std::terminate too.
Crashes == {"no", "terminate", "uncaught", "null_recorder", "use_after_free"}

\* Where the worker thread holds the mutex.
WorkerHolds == {"write", "timer", "recstart", "timer2", "recstop", "quiet",
                "stall", "clearing"}
Joinable(v) == vstate[v] \in {"up", "stopping", "ended", "revived"}
\* viewer::write_packet takes the packet: impl::running is true.
Accepts(v) == vstate[v] \in {"hollow", "up", "revived"}
Alive == crash = "no"
\* The members of the source are being destroyed, or were.
Dangling == apc \in {"release", "free", "gone"}

Init ==
    /\ running = FALSE /\ demuxing = FALSE /\ recording = FALSE
    /\ options = NoOptions
    /\ initialized = FALSE /\ interrunning = TRUE
    /\ mutex = "none" /\ viewers = {}
    /\ vstate = [v \in Viewers |-> "absent"] /\ stalled = {}
    /\ rec = "none" /\ recoptions = NoOptions
    /\ runtimer = FALSE /\ viewless = FALSE
    /\ wpc = "unstarted" /\ hpc = "idle" /\ hviewer = {} /\ apc = "idle"
    /\ unwound = FALSE /\ crash = "no"

-----------------------------------------------------------------------------
(***************************************************************************)
(* viewer::start for every viewer of S.  It assigns a new std::thread to   *)
(* impl::worker; assigning over a joinable thread calls std::terminate.    *)
(***************************************************************************)
StartViewers(S) ==
    IF \E v \in S : Joinable(v)
    THEN crash' = "terminate" /\ UNCHANGED vstate
    ELSE /\ vstate' = [v \in Viewers |-> IF v \in S THEN "up" ELSE vstate[v]]
         /\ UNCHANGED crash

\* What becomes of v when its start() set impl::running and then could not
\* create the thread.  A thread about to return may see the flag and go on.
Flagged(v) == CASE vstate[v] \in {"ready", "hollow"} -> {"hollow"}
                [] vstate[v] \in {"ended", "revived"} -> {"revived"}
                [] vstate[v] = "stopping" -> {"stopping", "up"}
                [] OTHER -> {vstate[v]}

\* viewer::~impl up to the join: the flag is cleared, the thread notified.
StopThreads(S) ==
    [v \in Viewers |-> IF v \in S /\ vstate[v] = "up" THEN "stopping"
                       ELSE vstate[v]]

Joined(S) == \A v \in S : vstate[v] # "stopping"

\* The viewer objects of S are freed.
DestroyedDetached(S) == vstate \* mutation: threads detached, not joined
Destroyed(S) == [v \in Viewers |-> IF v \in S THEN "absent" ELSE vstate[v]]

\* irecorder.reset(): a thread, if there is one, has to be joined.
LetGo(r) == IF r \in {"none", "hollow"} THEN "none" ELSE "stopping"

\* The threads that read the streams of input_ctx.
Reading == rec = "up" \/ \E v \in Viewers : vstate[v] \in {"up", "stopping"}

\* input_ctx is replaced or freed.  A thread that still reads it: undefined.
InputGoes ==
    \/ UNCHANGED crash
    \/ Reading /\ crash' = "use_after_free"

\* An exception leaves run() and is caught in start_worker (source.cpp:60-73).
Unwind ==
    /\ unwound' = TRUE
    /\ mutex' = IF mutex = "worker" THEN "none" ELSE mutex
    /\ wpc' = "top"

-----------------------------------------------------------------------------
(* The worker thread. *)

WantedByBoth == demuxing /\ recording \* mutation: && for ||
Wanted == demuxing \/ recording

\* The loop of the thread started by start_worker: while (running) { ... }.
Top ==
    /\ wpc = "top"
    /\ IF ~running
       THEN wpc' = "exit" /\ UNCHANGED runtimer
       ELSE /\ Wanted
            /\ wpc' = "open"
            /\ runtimer' = FALSE
    /\ UNCHANGED <<running, initialized, interrunning, viewless, viewerVars,
                   recVars, userVars, httpVars, demuxing, mutex, apc, unwound,
                   crash>>

\* load_input and find_info: input_ctx is replaced, set_context re-arms the
\* interrupt handler, the input then opens or fails.
Open(ok) ==
    /\ wpc = "open"
    /\ InputGoes
    /\ interrunning' = TRUE
    /\ wpc' = IF ok THEN "opened" ELSE "clear"
    /\ UNCHANGED <<running, initialized, runtimer, viewless, viewerVars,
                   recVars, userVars, httpVars, demuxing, mutex, apc, unwound>>

Opened ==
    /\ wpc = "opened"
    /\ initialized' = TRUE
    /\ wpc' = "on_open"
    /\ UNCHANGED <<running, interrunning, runtimer, viewless, viewerVars,
                   recVars, userVars, httpVars, demuxing, mutex, apc, unwound,
                   crash>>

OnOpen ==
    /\ wpc = "on_open" /\ mutex = "none"
    /\ StartViewers(viewers)
    /\ wpc' = "loop"
    /\ UNCHANGED <<workerVars, viewers, stalled, recVars, userVars, httpVars,
                   demuxing, mutex, apc, unwound>>

\* The viewers of S are started, then v's thread cannot be created.
OnOpenThrows(S, v) ==
    /\ wpc = "on_open" /\ mutex = "none" /\ "thread" \in Exceptions
    /\ v \in viewers \ S /\ ~\E w \in S : Joinable(w)
    /\ \E state \in Flagged(v) :
          vstate' = [w \in Viewers |-> IF w \in S THEN "up"
                                       ELSE IF w = v THEN state
                                       ELSE vstate[w]]
    /\ Unwind
    /\ UNCHANGED <<workerVars, viewers, stalled, recVars, userVars, httpVars,
                   demuxing, apc, crash>>

\* demuxer::run: while (demuxing) { ... } and the line after the loop.
Loop ==
    /\ wpc = "loop"
    /\ wpc' = IF demuxing THEN "read" ELSE "end"
    /\ UNCHANGED <<workerVars, viewerVars, recVars, userVars, httpVars,
                   demuxing, mutex, apc, unwound, crash>>

\* av_read_frame: a packet worth processing, one to skip (EAGAIN, corrupt or
\* of a stream nobody wants), or the end of the input (error, EOF, interrupt).
Read(result) ==
    /\ wpc = "read"
    /\ wpc' = CASE result = "packet" -> "record"
                [] result = "skip"   -> "loop"
                [] result = "error"  -> "end"
    /\ UNCHANGED <<workerVars, viewerVars, recVars, userVars, httpVars,
                   demuxing, mutex, apc, unwound, crash>>

(***************************************************************************)
(* on_packet, recorder part.  A recorder whose thread gave up refuses the  *)
(* packet and is reset, and the loop over the n packets goes on with the   *)
(* null irecorder.                                                         *)
(***************************************************************************)
Record(n) ==
    /\ wpc = "record"
    /\ wpc' = "lock"
    /\ IF rec = "failed" /\ n > 0
       THEN /\ rec' = "stopping"
            /\ crash' = IF n > 1 THEN "null_recorder" ELSE crash
       ELSE UNCHANGED <<rec, crash>>
    /\ UNCHANGED <<workerVars, viewerVars, recoptions, userVars, httpVars,
                   demuxing, mutex, apc, unwound>>

\* No memory for a packet of the recorder.
RecordThrows ==
    /\ wpc = "record" /\ "memory" \in Exceptions
    /\ Unwind
    /\ UNCHANGED <<workerVars, viewerVars, recVars, userVars, httpVars,
                   demuxing, apc, crash>>

\* irecorder.reset() above returned; on_packet takes the mutex.
Lock ==
    /\ wpc = "lock" /\ rec # "stopping"
    /\ mutex = "none" /\ mutex' = "worker"
    /\ wpc' = "write"
    /\ UNCHANGED <<workerVars, viewerVars, recVars, userVars, httpVars,
                   demuxing, apc, unwound, crash>>

\* on_packet leaves its scope: the mutex is released.
UnlockForgotten == UNCHANGED mutex /\ wpc' = "loop" \* mutation: no unlock
Unlock == mutex' = "none" /\ wpc' = "loop"

\* The viewers whose write_packet refuses one of the n packets.
RefusingAll(n) == {v \in viewers : n > 0} \* mutation: nret <= 0 for nret < 0
Refusing(n) == {v \in viewers : n > 0 /\ ~Accepts(v)}

(***************************************************************************)
(* on_packet, viewer part: each viewer gets the n packets; one that is not *)
(* running refuses them and is erased, which joins its thread.  Pushing to *)
(* a viewer waits for its queue mutex, which its thread holds in send().   *)
(***************************************************************************)
Write(n) ==
    /\ wpc = "write"
    /\ n > 0 => viewers \cap stalled = {}
    /\ Joined(Refusing(n))
    /\ viewers' = viewers \ Refusing(n)
    /\ vstate' = Destroyed(Refusing(n))
    /\ IF runtimer
       THEN wpc' = "timer" /\ UNCHANGED mutex
       ELSE Unlock
    /\ UNCHANGED <<workerVars, stalled, recVars, userVars, httpVars, demuxing,
                   apc, unwound, crash>>

\* No memory for a packet of a viewer; those of S have been erased before.
WriteThrows(S) ==
    /\ wpc = "write" /\ "memory" \in Exceptions
    /\ S \subseteq Refusing(1) /\ Joined(S)
    /\ viewers' = viewers \ S
    /\ vstate' = Destroyed(S)
    /\ Unwind
    /\ UNCHANGED <<workerVars, stalled, recVars, userVars, httpVars, demuxing,
                   apc, crash>>

RecorderDueInverted == recording /\ rec # "none" \* mutation: lost negation
RecorderDue == recording /\ rec = "none"

RecorderDoneInverted == recording /\ rec # "none" \* mutation: lost negation
RecorderDone == ~recording /\ rec # "none"

\* on_packet, every five seconds: if (recording && !irecorder) ...
RecorderWanted ==
    /\ wpc = "timer"
    /\ wpc' = IF RecorderDue THEN "recstart" ELSE "timer2"
    /\ UNCHANGED <<workerVars, viewerVars, recVars, userVars, httpVars,
                   demuxing, mutex, apc, unwound, crash>>

\* ... start_recording(), with recorder::init, which never fails here, and
\* recorder::start, which does when its thread cannot be created ...
StartRecorder(ok) ==
    /\ wpc = "recstart" /\ (ok \/ "thread" \in Exceptions)
    /\ recoptions' = options
    /\ IF ok
       THEN rec' = "up" /\ wpc' = "timer2" /\ UNCHANGED <<mutex, unwound>>
       ELSE rec' = "hollow" /\ Unwind
    /\ UNCHANGED <<workerVars, viewerVars, userVars, httpVars, demuxing, apc,
                   crash>>

\* ... and if (!recording && irecorder) ...
RecorderUnwanted ==
    /\ wpc = "timer2"
    /\ wpc' = IF RecorderDone THEN "recstop" ELSE "quiet"
    /\ UNCHANGED <<workerVars, viewerVars, recVars, userVars, httpVars,
                   demuxing, mutex, apc, unwound, crash>>

\* ... irecorder.reset(), which joins; recording may be on again by now.
StopRecorder ==
    /\ wpc = "recstop"
    /\ wpc' = "quiet"
    /\ rec' = LetGo(rec)
    /\ UNCHANGED <<workerVars, viewerVars, recoptions, userVars, httpVars,
                   demuxing, mutex, apc, unwound, crash>>

UnwatchedIgnoringViewers == viewless /\ ~recording \* mutation: dropped test
UnwatchedInverted ==
    viewers = {} /\ viewless /\ recording \* mutation: lost negation
Unwatched == viewers = {} /\ viewless /\ ~recording

\* on_packet, every five seconds: is anybody still interested?
Quiet ==
    /\ wpc = "quiet" /\ rec # "stopping"
    /\ IF Unwatched
       THEN wpc' = "stall" /\ UNCHANGED <<runtimer, viewless, mutex>>
       ELSE /\ viewless' = (viewless /\ viewers = {})
            /\ runtimer' = FALSE
            /\ Unlock
    /\ UNCHANGED <<running, initialized, interrunning, viewerVars, recVars,
                   userVars, httpVars, demuxing, apc, unwound, crash>>

Stall ==
    /\ wpc = "stall"
    /\ demuxing' = FALSE
    /\ runtimer' = FALSE
    /\ Unlock
    /\ UNCHANGED <<running, initialized, interrunning, viewless, viewerVars,
                   recVars, userVars, httpVars, apc, unwound, crash>>

End ==
    /\ wpc = "end"
    /\ interrunning' = FALSE
    /\ wpc' = "clear"
    /\ UNCHANGED <<running, initialized, runtimer, viewless, viewerVars,
                   recVars, userVars, httpVars, demuxing, mutex, apc, unwound,
                   crash>>

\* source::impl::run after the demuxer returned: viewers.clear() under the
\* mutex, which joins the viewers' threads ...
Clear ==
    /\ wpc = "clear" /\ mutex = "none"
    /\ mutex' = "worker"
    /\ vstate' = StopThreads(viewers)
    /\ wpc' = "clearing"
    /\ UNCHANGED <<workerVars, viewers, stalled, recVars, userVars, httpVars,
                   demuxing, apc, unwound, crash>>

Cleared ==
    /\ wpc = "clearing" /\ Joined(viewers)
    /\ viewers' = {}
    /\ vstate' = Destroyed(viewers)
    /\ mutex' = "none"
    /\ wpc' = "recreset"
    /\ UNCHANGED <<workerVars, stalled, recVars, userVars, httpVars, demuxing,
                   apc, unwound, crash>>

RecorderResetMissing == UNCHANGED rec \* mutation: the recorder is not reset
RecorderReset == rec' = LetGo(rec)

\* ... then irecorder.reset(), which joins the recorder's thread ...
ResetRecorder ==
    /\ wpc = "recreset" /\ rec # "stopping"
    /\ RecorderReset
    /\ wpc' = "reset"
    /\ UNCHANGED <<workerVars, viewerVars, recoptions, userVars, httpVars,
                   demuxing, mutex, apc, unwound, crash>>

\* ... and demux_data.reset().
ResetDemuxData ==
    /\ wpc = "reset" /\ rec # "stopping"
    /\ initialized' = FALSE
    /\ unwound' = FALSE
    /\ wpc' = "top"
    /\ UNCHANGED <<running, interrunning, runtimer, viewless, viewerVars,
                   recVars, userVars, httpVars, demuxing, mutex, apc, crash>>

Worker ==
    \/ Top \/ Opened \/ OnOpen \/ Loop \/ RecordThrows \/ Lock
    \/ RecorderWanted \/ RecorderUnwanted \/ StopRecorder \/ Quiet \/ Stall
    \/ End \/ Clear \/ Cleared \/ ResetRecorder \/ ResetDemuxData
    \/ \E ok \in BOOLEAN : Open(ok) \/ StartRecorder(ok)
    \/ \E S \in SUBSET viewers :
          WriteThrows(S) \/ \E v \in viewers : OnOpenThrows(S, v)
    \/ \E result \in {"packet", "skip", "error"} : Read(result)
    \/ \E n \in 0..MaxBatch : Record(n) \/ Write(n)

-----------------------------------------------------------------------------
(* The HTTP thread: source::add_viewer. *)

\* streamer_data::make_stream found the source and viewer::init took over the
\* socket; the address of the source is now held without protection.
HttpEnter(v) ==
    /\ hpc = "idle" /\ vstate[v] = "absent"
    /\ apc \in {"idle", "recording"}
    /\ hpc' = "enter" /\ hviewer' = {v}
    /\ vstate' = [vstate EXCEPT ![v] = "ready"]
    /\ UNCHANGED <<workerVars, viewers, stalled, recVars, userVars, demuxing,
                   mutex, wpc, apc, unwound, crash>>

\* The lock, and if (demuxing && demuxer_initialized) ...  No step makes
\* demuxing false while the mutex is held, so the two reads are one.
HttpLock ==
    /\ hpc = "enter" /\ ~Dangling /\ mutex = "none"
    /\ mutex' = "http"
    /\ hpc' = IF demuxing /\ initialized THEN "start" ELSE "put"
    /\ UNCHANGED <<workerVars, viewerVars, recVars, userVars, hviewer,
                   demuxing, wpc, apc, unwound, crash>>

\* ... v->start(): by now the worker may have reset demux_data.
HttpStart ==
    /\ hpc = "start" /\ ~Dangling
    /\ StartViewers(hviewer)
    /\ hpc' = "put"
    /\ UNCHANGED <<workerVars, viewers, stalled, recVars, userVars, hviewer,
                   demuxing, mutex, wpc, apc, unwound>>

\* Its thread cannot be created, and nothing on the HTTP thread catches that.
HttpStartThrows ==
    /\ hpc = "start" /\ ~Dangling /\ "thread" \in Exceptions
    /\ crash' = "uncaught"
    /\ UNCHANGED <<workerVars, viewerVars, recVars, userVars, httpVars,
                   demuxing, mutex, wpc, apc, unwound>>

\* viewers.emplace_back(v); demuxing = true; and the mutex is released.
HttpPut ==
    /\ hpc = "put" /\ ~Dangling
    /\ viewers' = viewers \cup hviewer
    /\ demuxing' = TRUE
    /\ mutex' = "none"
    /\ hpc' = "idle" /\ hviewer' = {}
    /\ UNCHANGED <<workerVars, vstate, stalled, recVars, userVars, wpc, apc,
                   unwound, crash>>

\* The source is destroyed between get_source and the end of add_viewer.
HttpDangling ==
    /\ hpc # "idle" /\ Dangling
    /\ crash' = "use_after_free"
    /\ UNCHANGED <<workerVars, viewerVars, recVars, userVars, httpVars,
                   demuxing, mutex, wpc, apc, unwound>>

Http ==
    \/ \E v \in Viewers : HttpEnter(v)
    \/ HttpLock \/ HttpStart \/ HttpStartThrows \/ HttpPut \/ HttpDangling

-----------------------------------------------------------------------------
(* The application's thread. *)

\* source::start: start_worker.
StartWorker ==
    /\ apc = "idle" /\ ~running /\ wpc = "unstarted"
    /\ running' = TRUE
    /\ wpc' = "top"
    /\ UNCHANGED <<initialized, interrunning, runtimer, viewless, viewerVars,
                   recVars, userVars, httpVars, demuxing, mutex, apc, unwound,
                   crash>>

\* source::start_recording, refused while recording ...
StartRecording(o) ==
    /\ apc = "idle" /\ ~recording
    /\ options' = o
    /\ recording' = TRUE
    /\ apc' = "recording"
    /\ UNCHANGED <<workerVars, viewerVars, recVars, httpVars, demuxing, mutex,
                   wpc, unwound, crash>>

\* ... and its last assignment.
StartedRecording ==
    /\ apc = "recording"
    /\ demuxing' = TRUE
    /\ apc' = "idle"
    /\ UNCHANGED <<workerVars, viewerVars, recVars, userVars, httpVars, mutex,
                   wpc, unwound, crash>>

StopRecording ==
    /\ apc = "idle" /\ recording
    /\ recording' = FALSE
    /\ UNCHANGED <<workerVars, viewerVars, recVars, options, httpVars,
                   demuxing, mutex, wpc, apc, unwound, crash>>

\* source::~source: running.store(false) ...
Destroy ==
    /\ apc = "idle"
    /\ running' = FALSE
    /\ apc' = "interrupt"
    /\ UNCHANGED <<initialized, interrunning, runtimer, viewless, viewerVars,
                   recVars, userVars, httpVars, demuxing, mutex, wpc, unwound,
                   crash>>

\* ... inter_handler.running = false ...
Interrupt ==
    /\ apc = "interrupt"
    /\ interrunning' = FALSE
    /\ apc' = "join"
    /\ UNCHANGED <<running, initialized, runtimer, viewless, viewerVars,
                   recVars, userVars, httpVars, demuxing, mutex, wpc, unwound,
                   crash>>

WorkerDetached == TRUE \* mutation: detach() for join()
WorkerDone == wpc \in {"unstarted", "exit"}

\* ... worker.join(), then the members are destroyed in the reverse of their
\* order: input_ctx, the recorder an exception may have left ...
JoinWorker ==
    /\ apc = "join" /\ WorkerDone
    /\ InputGoes
    /\ rec' = LetGo(rec)
    /\ apc' = "release"
    /\ UNCHANGED <<workerVars, viewerVars, recoptions, userVars, httpVars,
                   demuxing, mutex, wpc, unwound>>

\* ... each viewer left in the list stops its thread ...
ReleaseViewers ==
    /\ apc = "release" /\ rec # "stopping"
    /\ vstate' = StopThreads(viewers)
    /\ apc' = "free"
    /\ UNCHANGED <<workerVars, viewers, stalled, recVars, userVars, httpVars,
                   demuxing, mutex, wpc, unwound, crash>>

\* ... and is gone once joined, with the source.
Freed ==
    /\ apc = "free" /\ Joined(viewers)
    /\ viewers' = {}
    /\ vstate' = Destroyed(viewers)
    /\ apc' = "gone"
    /\ UNCHANGED <<workerVars, stalled, recVars, userVars, httpVars, demuxing,
                   mutex, wpc, unwound, crash>>

Destroying == Interrupt \/ JoinWorker \/ ReleaseViewers \/ Freed

Application ==
    \/ StartWorker \/ StartedRecording \/ StopRecording \/ Destroy
    \/ Destroying \/ \E o \in Options : StartRecording(o)

-----------------------------------------------------------------------------
(* The threads of viewers and recorder, the clients, and the clocks. *)

threadFrame == <<workerVars, viewers, recoptions, userVars, httpVars, demuxing,
                 mutex, wpc, apc, unwound, crash>>

\* The worker of viewer::impl left its loop (a write failed, or setup_output
\* did) and cleared impl::running.
ViewerFails(v) ==
    /\ vstate[v] = "up" /\ v \notin stalled
    /\ vstate' = [vstate EXCEPT ![v] = "stopping"]
    /\ UNCHANGED <<stalled, rec, threadFrame>>

\* That thread returns.
ViewerEnds(v) ==
    /\ vstate[v] = "stopping" /\ v \notin stalled
    /\ vstate' = [vstate EXCEPT ![v] = "ended"]
    /\ UNCHANGED <<stalled, rec, threadFrame>>

\* A client stops reading: send() blocks with the viewer's queue locked.
BlockSend(v) ==
    /\ vstate[v] \in {"up", "stopping"} /\ v \notin stalled
    /\ stalled' = stalled \cup {v}
    /\ UNCHANGED <<vstate, rec, threadFrame>>

\* It reads again, or its connection breaks.
UnblockSend(v) ==
    /\ v \in stalled
    /\ stalled' = stalled \ {v}
    /\ UNCHANGED <<vstate, rec, threadFrame>>

\* recorder::impl::run left its loop on an error and cleared impl::running.
RecorderFails ==
    /\ rec = "up" /\ rec' = "failed"
    /\ UNCHANGED <<vstate, stalled, threadFrame>>

\* The recorder's thread returned; irecorder.reset() completes.
RecorderEnds ==
    /\ rec = "stopping" /\ rec' = "none"
    /\ UNCHANGED <<vstate, stalled, threadFrame>>

Threads ==
    \/ \E v \in Viewers : \/ ViewerFails(v) \/ ViewerEnds(v)
                          \/ BlockSend(v) \/ UnblockSend(v)
    \/ RecorderFails \/ RecorderEnds

\* More than five seconds since run_elapsed_time was started.
RunTimer ==
    /\ ~runtimer /\ runtimer' = TRUE
    /\ UNCHANGED <<running, initialized, interrunning, viewless, viewerVars,
                   recVars, userVars, httpVars, demuxing, mutex, wpc, apc,
                   unwound, crash>>

\* More than thirty seconds since viewless_time was started.
ViewlessTimer ==
    /\ ~viewless /\ viewless' = TRUE
    /\ UNCHANGED <<running, initialized, interrunning, runtimer, viewerVars,
                   recVars, userVars, httpVars, demuxing, mutex, wpc, apc,
                   unwound, crash>>

Tick == RunTimer \/ ViewlessTimer

\* The process died, or the source is gone and no thread holds its address.
Over == ~Alive \/ (apc = "gone" /\ hpc = "idle")
Finished == Over /\ UNCHANGED vars

Next ==
    \/ Alive /\ (Worker \/ Http \/ Application \/ Threads \/ Tick)
    \/ Finished

(***************************************************************************)
(* Fairness.  Each thread keeps running: weak fairness, and strong where a *)
(* std::mutex is awaited, whose waiters are eventually served.  Of the     *)
(* input it is assumed that an open retried for ever succeeds in the end,  *)
(* that a stream which is read for ever yields packets, and that a read is *)
(* given up once the interrupt callback says so; of the transcoder, that   *)
(* it does not swallow every packet; of threads and memory asked for again *)
(* and again, that they are had in the end; of the clocks, that they       *)
(* advance.                                                                *)
(* Nothing is assumed of the clients, the application's calls, or the end  *)
(* of a thread that was told to stop.                                      *)
(***************************************************************************)
Fairness ==
    /\ WF_vars(Alive /\ Worker)
    /\ SF_vars(Alive /\ (OnOpen \/ Lock \/ Clear))
    /\ SF_vars(Alive /\ Open(TRUE))
    /\ SF_vars(Alive /\ interrunning /\ Read("packet"))
    /\ SF_vars(Alive /\ ~interrunning /\ Read("error"))
    /\ SF_vars(Alive /\ \E n \in 1..MaxBatch : Record(n))
    /\ SF_vars(Alive /\ \E n \in 1..MaxBatch : Write(n))
    /\ SF_vars(Alive /\ HttpLock)
    /\ WF_vars(Alive /\ (HttpStart \/ HttpPut \/ HttpDangling))
    /\ WF_vars(Alive /\ StartedRecording) /\ WF_vars(Alive /\ Destroying)
    /\ WF_vars(Alive /\ RunTimer) /\ WF_vars(Alive /\ ViewlessTimer)

\* Threads that were told to stop return, and blocked sends end.  The code
\* does not guarantee it by itself; properties that need it say so by using
\* ReturningSpec.
ThreadsReturn ==
    /\ \A v \in Viewers : /\ SF_vars(Alive /\ ViewerEnds(v))
                         /\ SF_vars(Alive /\ UnblockSend(v))
    /\ WF_vars(Alive /\ RecorderEnds)

Spec == Init /\ [][Next]_vars /\ Fairness
ReturningSpec == Spec /\ ThreadsReturn

-----------------------------------------------------------------------------
(* What holds. *)

\* Types.  Of the finer facts: the mutex has an owner exactly where the code
\* holds it, a viewer thread can block in send() only while it lives, and a
\* recorder is only ever created under options the application passed.
TypeOK ==
    /\ running \in BOOLEAN /\ demuxing \in BOOLEAN /\ recording \in BOOLEAN
    /\ initialized \in BOOLEAN /\ interrunning \in BOOLEAN
    /\ runtimer \in BOOLEAN /\ viewless \in BOOLEAN /\ unwound \in BOOLEAN
    /\ options \in Options \cup {NoOptions}
    /\ recording => options \in Options
    /\ recoptions \in Options \cup {NoOptions}
    /\ rec \in RState /\ (rec # "none" => recoptions \in Options)
    /\ viewers \subseteq Viewers /\ hviewer \subseteq Viewers
    /\ vstate \in [Viewers -> VState]
    /\ stalled \subseteq {v \in Viewers : vstate[v] \in {"up", "stopping"}}
    /\ wpc \in WPc /\ hpc \in HPc /\ apc \in APc /\ crash \in Crashes
    /\ mutex \in {"none", "worker", "http"}
    /\ mutex = "worker" <=> wpc \in WorkerHolds
    /\ mutex = "http" <=> hpc \in {"start", "put"}

\* A source that has viewers goes on demuxing: the stall decision of on_packet
\* never overtakes the arrival of a viewer (source.cpp:148-184, 269-273).
WaitingViewersKeepDemuxing == viewers # {} => demuxing

\* A recorder, whose thread reads input_ctx, is not there when load_input
\* replaces the input: run() resets it before demux_data (source.cpp:92-99).
\* An exception skips that, and the recorder lives on into the next run; but
\* the next run that ends in order makes up for all that were left before.
RecorderWithinSession ==
    rec # "none" /\ ~unwound =>
        /\ initialized
        /\ wpc \notin {"unstarted", "top", "open", "opened", "exit"}

\* Every viewer thread belongs to a viewer in the list, or to the one the HTTP
\* thread is about to put there: erasing a viewer never loses its thread.
ViewerThreadsOwned ==
    \A v \in Viewers : Joinable(v) => v \in viewers \cup hviewer

\* Once ~source returned no thread of the source runs any more, but for the
\* viewer an overtaken add_viewer still carries.
NothingLeftRunning ==
    Alive /\ apc = "gone" =>
        /\ wpc \in {"unstarted", "exit"} /\ rec = "none" /\ viewers = {}
        /\ \A v \in Viewers \ hviewer : vstate[v] = "absent"

\* A viewer that is being served is not erased: when it leaves the list its
\* thread was told to stop and has returned, or never ran.
ServedViewersAreKept ==
    [][\A v \in viewers \ viewers' : vstate[v] \notin {"up", "stopping"}]_vars

\* From some point on no run of the source is left by an exception.
Settled == <>[][wpc' = "top" => wpc \in {"unstarted", "reset", "top"}]_vars

\* stop_recording() gets the recorder closed (source.cpp:168-169), or the
\* application starts recording again first.
StopHonoured ==
    Settled =>
        (rec = "up" /\ ~recording ~> rec # "up" \/ recording \/ ~Alive)

\* A viewer waiting in the list of a started source does not wait for ever: it
\* is started when the input opens, or dropped, even if creating its thread
\* failed before.
WaitingViewersResolved ==
    \A v \in Viewers :
        v \in viewers /\ vstate[v] \in {"ready", "hollow"} /\ wpc # "unstarted" ~>
        vstate[v] \notin {"ready", "hollow"} \/ ~Alive

\* From some point on the input delivers: no read fails but those the interrupt
\* callback broke off.  Sessions then outlive the five-second checks.
SteadyInput ==
    <>[][wpc = "read" /\ wpc' = "end" => ~interrunning]_vars

Kept == apc \in {"idle", "recording"}

\* A source that demuxes for nobody stalls in the end (source.cpp:171-177).
UnwatchedSourceStalls ==
    SteadyInput /\ Settled =>
        (demuxing /\ viewers = {} /\ ~recording /\ wpc # "unstarted" ~>
         ~demuxing \/ viewers # {} \/ recording \/ ~Kept \/ ~Alive)

\* A source that demuxes while recording is on gets a recorder
\* (source.cpp:166-167); one without a thread, if that could not be created,
\* counts as one and is kept for the rest of the session.
RecordingBegins ==
    SteadyInput /\ Settled =>
        (recording /\ demuxing /\ wpc # "unstarted" ~>
         rec \in {"up", "hollow"} \/ ~recording \/ ~demuxing \/ ~Kept \/ ~Alive)

-----------------------------------------------------------------------------
(* What the repository says of a source and its code does not keep. *)

\* "adds a client for streaming" (source.hpp:43): adding clients, at any time,
\* does not bring the process down.
ClientsNeverTerminate == crash # "terminate"

\* "adds a client for streaming" (source.hpp:43): a client added to a source
\* whose input is open is streamed to, not dropped by the next packet.
AddedClientIsServed ==
    [][\A v \in viewers \ viewers' : wpc = "write" => vstate[v] # "ready"]_vars

\* "starts recording with options" (source.hpp:33): a request that was accepted
\* is not left for ever without anybody demuxing for it.
RecordingRequestHonoured == []<>(recording => demuxing \/ ~Kept \/ ~Alive)

\* "is false on class destruction" (source_data.hpp:33): once running is false
\* the source is destroyed, ~source returns.
DestructionReturns == apc = "interrupt" ~> apc = "gone" \/ ~Alive
=============================================================================
