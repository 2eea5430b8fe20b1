---------------------------- MODULE SourceProofs ----------------------------
(***************************************************************************)
(* Proofs about Source, for any set of viewers, any set of recording       *)
(* options, any batch size and any of the exceptions.                      *)
(*                                                                         *)
(* None of the invariants is inductive by itself.  Inv adds what the code  *)
(* relies on without saying it: which program points of the worker lie     *)
(* inside a session, that the stall decision and the clearing of viewers   *)
(* are shielded by the mutex, and that the list, the HTTP thread and       *)
(* nobody else own the viewer objects.                                     *)
(***************************************************************************)
EXTENDS Source, TLAPS

\* Program points at which demuxer_initialized is set.
InSession == {"on_open", "loop", "read", "record", "lock", "write", "timer",
              "recstart", "timer2", "recstop", "quiet", "stall", "end"}

\* The session as the worker thread sees it.
SessionInv ==
    /\ wpc \in InSession => initialized
    /\ rec # "none" /\ ~unwound => initialized
    /\ wpc \in {"unstarted", "top", "open", "opened", "exit"} /\ ~unwound =>
          rec = "none"
    /\ wpc = "reset" => rec \in {"none", "stopping"}
    /\ wpc = "recstart" => options \in Options

\* What the mutex protects.
ListInv ==
    /\ viewers # {} => demuxing
    /\ wpc = "stall" => viewers = {}
    /\ wpc = "clearing" \/ apc = "free" => \A v \in viewers : vstate[v] # "up"

\* Who owns a viewer object.
OwnerInv ==
    /\ hpc = "idle" => hviewer = {}
    /\ viewers \cap hviewer = {}
    /\ \A v \in Viewers : vstate[v] = "absent" <=> v \notin viewers \cup hviewer

\* What ~source leaves behind.
DestroyedInv ==
    /\ apc \in {"release", "free", "gone"} => wpc \in {"unstarted", "exit"}
    /\ apc = "release" => rec \in {"none", "stopping"}
    /\ apc \in {"free", "gone"} => rec = "none"
    /\ apc = "gone" => viewers = {}

Inv == TypeOK /\ SessionInv /\ ListInv /\ OwnerInv /\ DestroyedInv

USE DEF VState, RState, WPc, HPc, APc, Crashes, WorkerHolds, InSession,
        workerVars, viewerVars, recVars, userVars, httpVars, threadFrame

-----------------------------------------------------------------------------
(***************************************************************************)
(* Inv is inductive.                                                       *)
(***************************************************************************)
LEMMA InitEstablishesInv == Init => Inv
BY SourceAssumption
   DEF Init, Inv, TypeOK, SessionInv, ListInv, OwnerInv, DestroyedInv

LEMMA WorkerKeepsInv == ASSUME Inv, Worker PROVE Inv'
<1> USE SourceAssumption
        DEF Inv, TypeOK, SessionInv, ListInv, OwnerInv, DestroyedInv
<1>1. CASE Top
  <2>1. runtimer' \in BOOLEAN
        BY <1>1, Zenon DEF Top, Wanted
  <2> QED
        BY <1>1, <2>1 DEF Top, Wanted
<1>2. CASE Opened
      BY <1>2 DEF Opened
<1>3. CASE OnOpen
      BY <1>3 DEF OnOpen, StartViewers, Joinable
<1>4. CASE Loop
      BY <1>4 DEF Loop
<1>5. CASE RecordThrows
      BY <1>5 DEF RecordThrows, Unwind
<1>6. CASE Lock
      BY <1>6 DEF Lock
<1>7. CASE RecorderWanted
      BY <1>7 DEF RecorderWanted, RecorderDue
<1>8. CASE RecorderUnwanted
      BY <1>8 DEF RecorderUnwanted, RecorderDone
<1>9. CASE StopRecorder
      BY <1>9 DEF StopRecorder, LetGo
<1>10. CASE Quiet
  <2>1. viewless' \in BOOLEAN /\ runtimer' \in BOOLEAN
        BY <1>10, Zenon DEF Quiet, Unwatched, Unlock
  <2> QED
        BY <1>10, <2>1 DEF Quiet, Unwatched, Unlock
<1>11. CASE Stall
  <2>1. demuxing' \in BOOLEAN /\ runtimer' \in BOOLEAN /\ ~demuxing' /\ ~runtimer'
        BY <1>11, Zenon DEF Stall, Unlock
  <2> QED
        BY <1>11, <2>1 DEF Stall, Unlock
<1>12. CASE End
  <2>1. interrunning' \in BOOLEAN /\ ~interrunning'
        BY <1>12, Zenon DEF End
  <2> QED
        BY <1>12, <2>1 DEF End
<1>13. CASE Clear
      BY <1>13 DEF Clear, StopThreads
<1>14. CASE Cleared
      BY <1>14 DEF Cleared, Joined, Destroyed
<1>15. CASE ResetRecorder
      BY <1>15 DEF ResetRecorder, RecorderReset, LetGo
<1>16. CASE ResetDemuxData
  <2>1. /\ initialized' \in BOOLEAN /\ ~initialized'
        /\ unwound' \in BOOLEAN /\ ~unwound'
        BY <1>16, Zenon DEF ResetDemuxData
  <2> QED
        BY <1>16, <2>1 DEF ResetDemuxData
<1>17. ASSUME NEW ok \in BOOLEAN, Open(ok) PROVE Inv'
      BY <1>17 DEF Open, InputGoes
<1>18. ASSUME NEW ok \in BOOLEAN, StartRecorder(ok) PROVE Inv'
  <2>1. unwound' \in BOOLEAN /\ (wpc' = "top" => unwound')
        BY <1>18, Zenon DEF StartRecorder, Unwind
  <2> QED
        BY <1>18, <2>1 DEF StartRecorder, Unwind
<1>19. ASSUME NEW result \in {"packet", "skip", "error"}, Read(result) PROVE Inv'
      BY <1>19 DEF Read
<1>20. ASSUME NEW n \in 0..MaxBatch, Record(n) PROVE Inv'
      BY <1>20 DEF Record
<1>21. ASSUME NEW n \in 0..MaxBatch, Write(n) PROVE Inv'
      BY <1>21 DEF Write, Refusing, Accepts, Joined, Destroyed, Unlock
<1>22. ASSUME NEW S \in SUBSET viewers, WriteThrows(S) PROVE Inv'
      BY <1>22 DEF WriteThrows, Refusing, Accepts, Joined, Destroyed, Unwind
<1>23. ASSUME NEW S \in SUBSET viewers, NEW v \in viewers, OnOpenThrows(S, v)
       PROVE  Inv'
  <2>1. PICK state \in Flagged(v) :
          vstate' = [w \in Viewers |-> IF w \in S THEN "up"
                                       ELSE IF w = v THEN state
                                       ELSE vstate[w]]
        BY <1>23 DEF OnOpenThrows
  <2>2. v \in Viewers /\ vstate[v] # "absent"
        OBVIOUS
  <2>3. state \in VState \ {"absent"}
    <3>1. vstate[v] \in VState \ {"absent"}
          BY <2>2
    <3> QED
          BY <3>1 DEF Flagged
  <2>4. vstate[v] \in {"up", "stopping"} => state \in {"up", "stopping"}
        BY DEF Flagged
  <2> QED
        BY <1>23, <2>1, <2>2, <2>3, <2>4 DEF OnOpenThrows, Unwind
<1> QED
      BY <1>1, <1>2, <1>3, <1>4, <1>5, <1>6, <1>7, <1>8, <1>9, <1>10,
         <1>11, <1>12, <1>13, <1>14, <1>15, <1>16, <1>17, <1>18, <1>19,
         <1>20, <1>21, <1>22, <1>23
      DEF Worker

LEMMA HttpKeepsInv == ASSUME Inv, Http PROVE Inv'
<1> USE SourceAssumption
        DEF Inv, TypeOK, SessionInv, ListInv, OwnerInv, DestroyedInv
<1>1. CASE HttpLock
      BY <1>1 DEF HttpLock, Dangling
<1>2. CASE HttpStart
      BY <1>2 DEF HttpStart, Dangling, StartViewers, Joinable
<1>3. CASE HttpPut
      BY <1>3 DEF HttpPut, Dangling
<1>4. CASE HttpDangling
      BY <1>4 DEF HttpDangling, Dangling
<1>5. CASE HttpStartThrows
      BY <1>5 DEF HttpStartThrows
<1>6. ASSUME NEW v \in Viewers, HttpEnter(v) PROVE Inv'
      BY <1>6 DEF HttpEnter
<1> QED
      BY <1>1, <1>2, <1>3, <1>4, <1>5, <1>6
      DEF Http

LEMMA ApplicationKeepsInv == ASSUME Inv, Application PROVE Inv'
<1> USE SourceAssumption
        DEF Inv, TypeOK, SessionInv, ListInv, OwnerInv, DestroyedInv
<1>1. CASE StartWorker
      BY <1>1 DEF StartWorker
<1>2. CASE StartedRecording
      BY <1>2 DEF StartedRecording
<1>3. CASE StopRecording
  <2>1. recording' \in BOOLEAN /\ ~recording'
        BY <1>3, Zenon DEF StopRecording
  <2> QED
        BY <1>3, <2>1 DEF StopRecording
<1>4. CASE Destroy
  <2>1. running' \in BOOLEAN /\ ~running'
        BY <1>4, Zenon DEF Destroy
  <2> QED
        BY <1>4, <2>1 DEF Destroy
<1>5. CASE Interrupt
  <2>1. interrunning' \in BOOLEAN /\ ~interrunning'
        BY <1>5, Zenon DEF Interrupt
  <2> QED
        BY <1>5, <2>1 DEF Interrupt
<1>6. CASE JoinWorker
      BY <1>6 DEF JoinWorker, WorkerDone, InputGoes, LetGo
<1>7. CASE ReleaseViewers
      BY <1>7 DEF ReleaseViewers, StopThreads
<1>8. CASE Freed
      BY <1>8 DEF Freed, Joined, Destroyed
<1>9. ASSUME NEW o \in Options, StartRecording(o) PROVE Inv'
      BY <1>9 DEF StartRecording
<1> QED
      BY <1>1, <1>2, <1>3, <1>4, <1>5, <1>6, <1>7, <1>8, <1>9
      DEF Application, Destroying

LEMMA ThreadsKeepInv == ASSUME Inv, Threads PROVE Inv'
<1> USE SourceAssumption
        DEF Inv, TypeOK, SessionInv, ListInv, OwnerInv, DestroyedInv
<1>1. CASE RecorderFails
      BY <1>1 DEF RecorderFails
<1>2. CASE RecorderEnds
      BY <1>2 DEF RecorderEnds
<1>3. ASSUME NEW v \in Viewers, ViewerFails(v) PROVE Inv'
      BY <1>3 DEF ViewerFails
<1>4. ASSUME NEW v \in Viewers, ViewerEnds(v) PROVE Inv'
      BY <1>4 DEF ViewerEnds
<1>5. ASSUME NEW v \in Viewers, BlockSend(v) PROVE Inv'
      BY <1>5 DEF BlockSend
<1>6. ASSUME NEW v \in Viewers, UnblockSend(v) PROVE Inv'
      BY <1>6 DEF UnblockSend
<1> QED
      BY <1>1, <1>2, <1>3, <1>4, <1>5, <1>6
      DEF Threads

LEMMA NextKeepsInv == Inv /\ [Next]_vars => Inv'
<1> SUFFICES ASSUME Inv, [Next]_vars PROVE Inv'
      OBVIOUS
<1>1. CASE Worker
      BY <1>1, WorkerKeepsInv
<1>2. CASE Http
      BY <1>2, HttpKeepsInv
<1>3. CASE Application
      BY <1>3, ApplicationKeepsInv
<1>4. CASE Threads
      BY <1>4, ThreadsKeepInv
<1>5. CASE Tick
  <2>1. runtimer' \in BOOLEAN /\ viewless' \in BOOLEAN
        BY <1>5, Zenon DEF Tick, RunTimer, ViewlessTimer, Inv, TypeOK
  <2> QED
        BY <1>5, <2>1 DEF Tick, RunTimer, ViewlessTimer, Inv, TypeOK, SessionInv,
                          ListInv, OwnerInv, DestroyedInv
<1>6. CASE UNCHANGED vars
      BY <1>6 DEF vars, Inv, TypeOK, SessionInv, ListInv, OwnerInv, DestroyedInv
<1> QED
      BY <1>1, <1>2, <1>3, <1>4, <1>5, <1>6 DEF Next, Finished

THEOREM InvHolds == Spec => []Inv
BY InitEstablishesInv, NextKeepsInv, PTL DEF Spec

-----------------------------------------------------------------------------
(***************************************************************************)
(* What follows from it.                                                   *)
(***************************************************************************)

\* The variables of a source keep their types; the mutex is owned exactly
\* where the code holds it.
THEOREM TypeCorrect == Spec => []TypeOK
BY InvHolds, PTL DEF Inv

\* A source with viewers never stops demuxing, whatever the threads do.
THEOREM ViewersKeepDemuxing == Spec => []WaitingViewersKeepDemuxing
<1>1. Inv => WaitingViewersKeepDemuxing
      BY DEF Inv, ListInv, WaitingViewersKeepDemuxing
<1> QED
      BY <1>1, InvHolds, PTL

\* No recorder exists when the input is replaced, whatever exceptions left the
\* runs before, unless one left the last of them.
THEOREM RecorderInSession == Spec => []RecorderWithinSession
<1>1. Inv => RecorderWithinSession
      BY DEF Inv, SessionInv, RecorderWithinSession
<1> QED
      BY <1>1, InvHolds, PTL

\* No viewer thread is ever lost track of.
THEOREM ThreadsOwned == Spec => []ViewerThreadsOwned
<1>1. Inv => ViewerThreadsOwned
      BY DEF Inv, OwnerInv, ViewerThreadsOwned, Joinable
<1> QED
      BY <1>1, InvHolds, PTL

\* A destroyed source leaves no thread behind.
THEOREM DestructionIsClean == Spec => []NothingLeftRunning
<1>1. Inv => NothingLeftRunning
      BY DEF Inv, SessionInv, OwnerInv, DestroyedInv, NothingLeftRunning
<1> QED
      BY <1>1, InvHolds, PTL

\* A viewer whose thread serves its client is never erased.
THEOREM ServedKept == Spec => ServedViewersAreKept
<1>1. Inv /\ [Next]_vars =>
      [\A v \in viewers \ viewers' : vstate[v] \notin {"up", "stopping"}]_vars
  <2> SUFFICES ASSUME Inv, Next
               PROVE  \A v \in viewers \ viewers' : vstate[v] \notin {"up", "stopping"}
        OBVIOUS
  <2> USE DEF Inv, TypeOK, ListInv, OwnerInv
  <2>1. ASSUME NEW n \in 0..MaxBatch, Write(n)
        PROVE  \A v \in viewers \ viewers' : vstate[v] \notin {"up", "stopping"}
        BY <2>1 DEF Write, Refusing, Accepts, Joined
  <2>2. ASSUME NEW S \in SUBSET viewers, WriteThrows(S)
        PROVE  \A v \in viewers \ viewers' : vstate[v] \notin {"up", "stopping"}
        BY <2>2 DEF WriteThrows, Refusing, Accepts, Joined
  <2>3. CASE Cleared
        BY <2>3 DEF Cleared, Joined
  <2>4. CASE Freed
        BY <2>4 DEF Freed, Joined
  <2>5. CASE \A v \in viewers : v \in viewers'
        BY <2>5
  <2> QED
        BY <2>1, <2>2, <2>3, <2>4, <2>5
        DEF Next, Finished, vars,
            Worker, Top, Opened, OnOpen, OnOpenThrows, Loop, RecordThrows, Lock,
            RecorderWanted, StartRecorder, RecorderUnwanted, StopRecorder,
            Quiet, Stall, End, Clear, ResetRecorder, ResetDemuxData, Open, Read,
            Record, Http, HttpEnter, HttpLock, HttpStart, HttpStartThrows,
            HttpPut, HttpDangling, Application, Destroying, StartWorker,
            StartRecording, StartedRecording, StopRecording, Destroy, Interrupt,
            JoinWorker, ReleaseViewers,
            Threads, ViewerFails, ViewerEnds, BlockSend, UnblockSend,
            RecorderFails, RecorderEnds, Tick, RunTimer, ViewlessTimer
<1> QED
      BY <1>1, InvHolds, PTL DEF Spec, ServedViewersAreKept
=============================================================================
