-------------------------- MODULE HttpServerProofs --------------------------
(***************************************************************************)
(* The HTTP server, for any number of tries: its manager, the succession   *)
(* of its workers, and its destruction as long as nothing restarts it.     *)
(***************************************************************************)
EXTENDS HttpServer, TLAPS

\* A manager exists from the first attempt on.
ManagerInv == init_try_count > 0 => mgr # "null" \/ Freed

\* Before the application starts the server nothing runs, and between its join
\* and its start the restarter is alone.
SuccessionInv ==
    /\ apc = "new" => pc = "none" /\ rpc = "never"
    /\ rpc = "start" => pc = "done"

\* Without a restarter the std::thread follows the application's steps, so that
\* the destructor meets a thread it can join or none at all.
OwnerInv ==
    rpc = "never" =>
        /\ crash = "none"
        /\ apc = "new" => worker = "none"
        /\ apc = "starting" => worker = "pending"
        /\ apc \in {"up", "join"} => worker = "joinable"
        /\ apc = "destroy" =>
             worker = "joinable" \/ (worker = "none" /\ pc = "none")
        /\ apc \in {"free", "gone"} => worker = "none" /\ pc \in {"none", "done"}

Inv == TypeOK /\ ManagerInv /\ ManagerWhilePolling /\ SuccessionInv /\ OwnerInv

USE HttpAssumption
    DEF Inv, ManagerInv, ManagerWhilePolling, SuccessionInv, OwnerInv, Freed,
        AppPc, WorkerPc, RestarterPc, serverVars, state, vars

LEMMA InitInv == Init => Inv
<1> SUFFICES ASSUME Init PROVE Inv
      OBVIOUS
<1>1. /\ https \in BOOLEAN /\ super_running \in BOOLEAN /\ running \in BOOLEAN
      /\ initialized \in BOOLEAN /\ client \in BOOLEAN
      BY Zenon DEF Init
<1> QED
      BY <1>1 DEF Init, TypeOK

LEMMA ApplicationInv ==
    ASSUME Inv, crash = "none", UNCHANGED <<https, crash>>, Application
    PROVE  Inv'
<1> USE DEF TypeOK
<1>1. CASE Start
  <2>1. super_running' \in BOOLEAN
        BY <1>1, Zenon DEF Start
  <2> QED
        BY <1>1, <2>1 DEF Start, Spawn
<1>2. CASE Destroy
  <2>1. super_running' \in BOOLEAN
        BY <1>2, Zenon DEF Destroy
  <2> QED
        BY <1>2, <2>1 DEF Destroy
<1>3. CASE Joinable
      BY <1>3 DEF Joinable, MustJoin
<1>4. CASE Join
      BY <1>4 DEF Join
<1>5. CASE Free
  <2>1. client' \in BOOLEAN /\ initialized' \in BOOLEAN
        BY <1>5, Zenon DEF Free, FreeManager
  <2> QED
        BY <1>5, <2>1 DEF Free
<1> QED
      BY <1>1, <1>2, <1>3, <1>4, <1>5 DEF Application

LEMMA WorkerInv ==
    ASSUME Inv, crash = "none", UNCHANGED <<https, crash>>, ~Freed, Worker
    PROVE  Inv'
<1> USE DEF TypeOK
<1>1. CASE GiveUp
      BY <1>1 DEF GiveUp, Exhausted
<1>2. ASSUME NEW listens \in BOOLEAN, Setup(listens) PROVE Inv'
  <2>1. client' \in BOOLEAN /\ initialized' \in BOOLEAN
        BY <1>2, Zenon DEF Setup, FreeManager
  <2> QED
        BY <1>2, <2>1 DEF Setup, Exhausted
<1>3. CASE Connect
      BY <1>3 DEF Connect
<1>4. CASE Ready
  <2>1. running' \in BOOLEAN
        BY <1>4, Zenon DEF Ready
  <2> QED
        BY <1>4, <2>1 DEF Ready
<1>5. CASE Poll
      BY <1>5 DEF Poll
<1>6. CASE Connected
  <2>1. client' \in BOOLEAN /\ initialized' \in BOOLEAN
        BY <1>6, Zenon DEF Connected
  <2> QED
        BY <1>6, <2>1 DEF Connected
<1>7. CASE Refused
  <2>1. client' \in BOOLEAN /\ running' \in BOOLEAN
        BY <1>7, Zenon DEF Refused
  <2> QED
        BY <1>7, <2>1 DEF Refused
<1>8. CASE LeavePoll
  <2>1. running' \in BOOLEAN
        BY <1>8, Zenon DEF LeavePoll
  <2> QED
        BY <1>8, <2>1 DEF LeavePoll
<1>9. CASE Finish
      BY <1>9 DEF Finish
<1>10. CASE Return
      BY <1>10 DEF Return
<1> QED
      BY <1>1, <1>2, <1>3, <1>4, <1>5, <1>6, <1>7, <1>8, <1>9, <1>10 DEF Worker

LEMMA NextInv == Inv /\ [Next]_vars => Inv'
<1> SUFFICES ASSUME Inv, [Next]_vars PROVE Inv'
      OBVIOUS
<1> USE DEF TypeOK
<1>1. CASE crash = "none" /\ UNCHANGED <<https, crash>> /\ ~Freed /\ Assign
      BY <1>1 DEF Assign
<1>2. CASE crash = "none" /\ UNCHANGED <<https, crash>> /\ ~Freed /\ RestartJoin
      BY <1>2 DEF RestartJoin, WorkerReturned
<1>3. CASE crash = "none" /\ UNCHANGED <<https, crash>> /\ ~Freed /\ RestartStart
      BY <1>3 DEF RestartStart, Spawn
<1>4. CASE crash = "none" /\ UNCHANGED <<https, crash>> /\ Return
      BY <1>4 DEF Return
<1>5. CASE crash = "none" /\ Crash
      BY <1>5 DEF Crash, Terminate, Dangle
<1>6. CASE UNCHANGED vars
      BY <1>6
<1> QED
      BY <1>1, <1>2, <1>3, <1>4, <1>5, <1>6, ApplicationInv, WorkerInv
      DEF Next, Server, Restarter, Finished

LEMMA InvHolds == Spec => []Inv
BY InitInv, NextInv, PTL DEF Spec

\* The types, for any limit of the tries.
THEOREM TypeCorrect == Spec => []TypeOK
BY InvHolds, PTL

\* The worker polls a manager, however many attempts failed.
THEOREM PollsManager == Spec => []ManagerWhilePolling
BY InvHolds, PTL

\* Two workers never run at a time, over any number of restarts.
THEOREM WorkersOneByOne == Spec => OneByOne
<1>1. Inv /\ [Next]_vars => [pc' = "init" /\ pc # "init" => pc \in {"none", "done"}]_vars
  <2> SUFFICES ASSUME Inv, [Next]_vars, pc' = "init", pc # "init"
               PROVE  pc \in {"none", "done"}
        OBVIOUS
  <2>1. CASE Worker
        BY <2>1 DEF Worker, GiveUp, Setup, Connect, Ready, Poll, Connected, Refused,
                    LeavePoll, Finish, Return
  <2>2. CASE Restarter
        BY <2>2 DEF Restarter, RestartJoin, RestartStart, Spawn
  <2>3. CASE Application
        BY <2>3 DEF Application, Start, Destroy, Joinable, Join, Free, Spawn
  <2> QED
        BY <2>1, <2>2, <2>3 DEF Next, Server, Assign, Return, Crash, Finished
<1> QED
      BY <1>1, InvHolds, PTL DEF Spec, OneByOne

\* Without a restarter destruction is clean at any moment.
THEOREM CleanWithoutRestart == Spec => []CrashNeedsRestart
<1>1. Inv => CrashNeedsRestart
      BY DEF CrashNeedsRestart
<1> QED
      BY <1>1, InvHolds, PTL
=============================================================================
