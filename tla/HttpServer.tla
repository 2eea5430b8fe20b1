----------------------------- MODULE HttpServer -----------------------------
(***************************************************************************)
(* The life of the HTTP server of a streamer (server/http_server.cpp): the *)
(* application starts it (streamer::start) and destroys it (~streamer),    *)
(* the worker binds, tests itself by connecting to its own port if the     *)
(* scheme is https, and polls.  A worker that leaves its loop before the   *)
(* test succeeded begins a detached thread, the restarter, which joins the *)
(* worker and starts the server again.                                     *)
(*                                                                         *)
(* pimpl is freed in ~http_server.  A step of the worker or the restarter  *)
(* on it afterwards, and a join of a std::thread without a thread, end the *)
(* program: crash.  Requests are left out: they do not touch this state.   *)
(***************************************************************************)
EXTENDS Naturals

CONSTANT MaxTries \* Init_Try_Max, 200 in the code

ASSUME HttpAssumption == MaxTries \in Nat

VARIABLES
    https,         \* streamer_data::https
    super_running, \* streamer_data::running
    running,       \* impl::running
    initialized,   \* impl::initialized, static: another server may have set it
    init_try_count,
    mgr,           \* impl::mgr: "null", or with or without a listener
    client,        \* the connection to its own port is pending
    worker,        \* the std::thread impl::worker: "none", "joinable", or
                   \* "pending": the thread runs and is not yet assigned
    pc,            \* where the worker's thread is
    rpc,           \* where the restarter is
    apc,           \* where the application is
    crash

serverVars == <<running, initialized, init_try_count, mgr, client>>
state == <<super_running, serverVars, worker, pc, rpc, apc>>
vars == <<https, state, crash>>

AppPc == {"new", "starting", "up", "destroy", "join", "free", "gone"}
WorkerPc == {"none", "init", "connect", "ready", "poll", "finished", "returning",
             "done"}
RestarterPc == {"never", "join", "start", "over"}

Init ==
    /\ https \in BOOLEAN /\ initialized \in BOOLEAN
    /\ super_running = FALSE /\ running = FALSE
    /\ init_try_count = 0 /\ mgr = "null" /\ client = FALSE
    /\ worker = "none"
    /\ pc = "none" /\ rpc = "never" /\ apc = "new"
    /\ crash = "none"

Freed == apc = "gone"

\* worker = std::thread{...} begins the thread before the assignment is done.
Spawn ==
    /\ worker' = "pending"
    /\ pc' = "init"

\* mg_mgr_free polls once more: a pending connection may still succeed.
FreeManager ==
    /\ client' = FALSE
    /\ initialized' \in {initialized, initialized \/ client}

-----------------------------------------------------------------------------
(* The application. *)

\* streamer::start: nothing but this starts the server before it restarts.
Start ==
    /\ apc = "new"
    /\ super_running' = TRUE
    /\ Spawn
    /\ apc' = "starting"
    /\ UNCHANGED <<serverVars, rpc>>

\* The assignment, by the application or by the restarter.
Assign ==
    /\ worker = "pending" /\ ~Freed
    /\ worker' = "joinable"
    /\ apc' = IF apc = "starting" THEN "up" ELSE apc
    /\ UNCHANGED <<super_running, serverVars, pc, rpc>>

\* ~streamer::impl; then the member server is destroyed.
Destroy ==
    /\ apc \in {"new", "up"}
    /\ super_running' = FALSE
    /\ apc' = "destroy"
    /\ UNCHANGED <<serverVars, worker, pc, rpc>>

MustJoinNever == FALSE \* mutation: no join
\* if (worker.joinable()) ...
MustJoin == worker = "joinable"

Joinable ==
    /\ apc = "destroy"
    /\ apc' = IF MustJoin THEN "join" ELSE "free"
    /\ UNCHANGED <<super_running, serverVars, worker, pc, rpc>>

\* ... worker.join(), with nobody else joining it.
Join ==
    /\ apc = "join" /\ worker = "joinable" /\ pc = "done"
    /\ worker' = "none"
    /\ apc' = "free"
    /\ UNCHANGED <<super_running, serverVars, pc, rpc>>

\* mg_mgr_free, and the members go; worker must not be joinable then.
Free ==
    /\ apc = "free" /\ worker # "joinable"
    /\ FreeManager
    /\ mgr' = "null"
    /\ apc' = "gone"
    /\ UNCHANGED <<super_running, running, init_try_count, worker, pc, rpc>>

Application == Start \/ Destroy \/ Joinable \/ Join \/ Free

-----------------------------------------------------------------------------
(* The worker. *)

ExhaustedNever == FALSE \* mutation: no limit
ExhaustedInverted == init_try_count <= MaxTries \* mutation: comparison turned
\* init_try_count > Init_Try_Max: initServer gives up, before freeing mgr.
Exhausted == init_try_count > MaxTries

GiveUp ==
    /\ pc = "init" /\ Exhausted
    /\ pc' = "ready"
    /\ UNCHANGED <<super_running, serverVars, worker, rpc, apc>>

\* One round of initServer: the old mgr is freed, and setup makes another,
\* which listens or does not.
Setup(listens) ==
    /\ pc = "init" /\ ~Exhausted
    /\ init_try_count' = init_try_count + 1
    /\ FreeManager
    /\ mgr' = IF listens THEN "listening" ELSE "empty"
    /\ pc' = IF ~listens THEN "init" ELSE IF https THEN "connect" ELSE "ready"
    /\ UNCHANGED <<super_running, running, worker, rpc, apc>>

\* mg_connect_ws, which may return nothing.
Connect ==
    /\ pc = "connect"
    /\ client' \in BOOLEAN
    /\ pc' = "ready"
    /\ UNCHANGED <<super_running, running, initialized, init_try_count, mgr,
                   worker, rpc, apc>>

Ready ==
    /\ pc = "ready"
    /\ running' = TRUE
    /\ pc' = "poll"
    /\ UNCHANGED <<super_running, initialized, init_try_count, mgr, client,
                   worker, rpc, apc>>

PollingAlways == running \* mutation: the streamer's flag is forgotten
Polling == super_running /\ running

\* connect_handler: MG_EV_SEND, then MG_EV_CLOSE of the connection.
Connected ==
    /\ pc = "poll" /\ Polling /\ client
    /\ initialized' = TRUE
    /\ client' = FALSE
    /\ UNCHANGED <<super_running, running, init_try_count, mgr, worker, pc, rpc,
                   apc>>

\* connect_handler: MG_EV_CLOSE alone.
Refused ==
    /\ pc = "poll" /\ Polling /\ client
    /\ client' = FALSE
    /\ running' = (running /\ initialized)
    /\ UNCHANGED <<super_running, initialized, init_try_count, mgr, worker, pc,
                   rpc, apc>>

\* mg_mgr_poll returns after 300 ms, whatever came.
Poll ==
    /\ pc = "poll" /\ Polling
    /\ UNCHANGED state

LeavePoll ==
    /\ pc = "poll" /\ ~Polling
    /\ running' = FALSE
    /\ pc' = "finished"
    /\ UNCHANGED <<super_running, initialized, init_try_count, mgr, client,
                   worker, rpc, apc>>

RestartNever == FALSE \* mutation: nobody restarts
Restarts == ~initialized

\* The detached thread begins, or not; then the lambda returns.
Finish ==
    /\ pc = "finished"
    /\ pc' = "returning"
    /\ rpc' = IF Restarts THEN "join" ELSE rpc
    /\ UNCHANGED <<super_running, serverVars, worker, apc>>

Return ==
    /\ pc = "returning"
    /\ pc' = "done"
    /\ UNCHANGED <<super_running, serverVars, worker, rpc, apc>>

Worker ==
    \/ GiveUp \/ (\E listens \in BOOLEAN : Setup(listens)) \/ Connect \/ Ready
    \/ Poll \/ Connected \/ Refused \/ LeavePoll \/ Finish \/ Return

-----------------------------------------------------------------------------
(* The restarter. *)

JoinAtOnce == TRUE \* mutation: detach instead of join
WorkerReturned == pc = "done"

RestartJoin ==
    /\ rpc = "join" /\ worker = "joinable" /\ WorkerReturned
    /\ worker' = "none"
    /\ rpc' = "start"
    /\ UNCHANGED <<super_running, serverVars, pc, apc>>

\* http_server::start; streamer_data::running is not looked at.
RestartStart ==
    /\ rpc = "start"
    /\ IF running \/ worker = "joinable" THEN UNCHANGED <<worker, pc>> ELSE Spawn
    /\ rpc' = "over"
    /\ UNCHANGED <<super_running, serverVars, apc>>

Restarter == RestartJoin \/ RestartStart

-----------------------------------------------------------------------------
(* The ends of the program. *)

\* join() on a std::thread that has no thread throws, and neither a destructor
\* nor a thread's function lets it through; one that is joinable must not be
\* destroyed.
Terminate ==
    /\ \/ rpc = "join" /\ worker # "joinable" /\ ~Freed
       \/ apc = "join" /\ worker # "joinable"
       \/ apc = "free" /\ worker = "joinable"
    /\ crash' = "terminate"

\* The steps of other threads on a pimpl that is gone.  Return is none: the
\* lambda has finished with it.
Dangle ==
    /\ Freed
    /\ \/ pc \notin {"none", "returning", "done"}
       \/ rpc \in {"join", "start"}
       \/ worker = "pending"
    /\ crash' = "dangling"

Crash ==
    /\ Terminate \/ Dangle
    /\ UNCHANGED <<https, state>>

\* What other threads do to a pimpl that is there.
Server == Assign \/ Worker \/ Restarter

Finished ==
    /\ crash # "none" \/ (Freed /\ pc \in {"none", "done"})
    /\ UNCHANGED vars

Next ==
    \/ /\ crash = "none" /\ UNCHANGED <<https, crash>>
       /\ \/ Application
          \/ ~Freed /\ Server
          \/ Freed /\ Return
    \/ crash = "none" /\ Crash
    \/ Finished

(***************************************************************************)
(* Fairness: threads that can run do, and a poll resolves the connection   *)
(* one way or the other.  Nobody has to destroy the streamer.              *)
(***************************************************************************)
Live(A) == crash = "none" /\ ~Freed /\ A

Fairness ==
    /\ WF_state(Live(Worker)) /\ WF_state(Live(Assign))
    /\ WF_state(Live(Restarter)) /\ WF_state(Live(Joinable \/ Join \/ Free))

Spec == Init /\ [][Next]_vars /\ Fairness

-----------------------------------------------------------------------------
(* What holds. *)

TypeOK ==
    /\ https \in BOOLEAN /\ super_running \in BOOLEAN /\ running \in BOOLEAN
    /\ initialized \in BOOLEAN /\ client \in BOOLEAN
    /\ init_try_count \in 0..(MaxTries + 1)
    /\ mgr \in {"null", "empty", "listening"}
    /\ worker \in {"none", "pending", "joinable"}
    /\ pc \in WorkerPc /\ rpc \in RestarterPc /\ apc \in AppPc
    /\ crash \in {"none", "terminate", "dangling"}

\* The worker never polls without a manager, whichever attempts failed and
\* wherever initServer gave up (http_server.cpp:190-203, 225).
ManagerWhilePolling ==
    pc \in {"connect", "ready", "poll"} => mgr # "null" \/ Freed

\* A worker begins only when the one before it has returned: two never poll
\* the same manager (http_server.cpp:232-233).
OneByOne == [][pc' = "init" /\ pc # "init" => pc \in {"none", "done"}]_vars

\* As long as no restarter was begun, destruction at any moment is clean: the
\* program goes on, and the worker has gone before its server
\* (http_server.cpp:64-68).
CrashNeedsRestart ==
    rpc = "never" => crash = "none" /\ (Freed => pc \in {"none", "done"})

\* An https server whose connection to itself fails is tried again, until it
\* succeeds or the tries are used up (http_server.cpp:108-109, 228-236).
Unchecked == pc = "poll" /\ running /\ ~client
RetriesUntilInitialized ==
    https /\ super_running ~>
        initialized \/ Exhausted \/ Unchecked \/ ~super_running \/ crash # "none"

\* Destruction returns, unless there is a restarter to meet
\* (http_server.cpp:224, 65-66).
DestructionReturns == apc = "destroy" ~> Freed \/ rpc # "never"
=============================================================================
