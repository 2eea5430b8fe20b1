---------------------------- MODULE ViewerProofs ----------------------------
(***************************************************************************)
(* A viewer, for any queue capacity and any number of packets, implements  *)
(* Pipe, and so delivers in order.                                         *)
(***************************************************************************)
EXTENDS Viewer, TLAPS

\* TypeOK is inductive up to two facts: the owner has started the worker before
\* it offers anything, and it offers no more than MaxPackets packets.
ViewerInv ==
    /\ TypeOK
    /\ opc = "new" => pc = "unstarted"
    /\ opc \in {"idle", "push", "notify"} => pc # "unstarted"
    /\ opc = "push" => next <= MaxPackets

LEMMA InitInv == Init => ViewerInv
<1> SUFFICES ASSUME Init PROVE ViewerInv
      OBVIOUS
<1>1. running \in BOOLEAN
      BY Zenon DEF Init
<1>2. /\ queue \in Seq(Nat) /\ Len(queue) <= Capacity /\ sent \in Seq(Nat)
      /\ next \in 1..(MaxPackets + 1)
      BY ViewerAssumption DEF Init
<1> QED
      BY <1>1, <1>2 DEF Init, ViewerInv, TypeOK, WorkerPc, OwnerPc

LEMMA NextInv == ViewerInv /\ [Next]_vars => ViewerInv'
<1> SUFFICES ASSUME ViewerInv, [Next]_vars PROVE ViewerInv'
      OBVIOUS
<1> USE ViewerAssumption DEF ViewerInv, TypeOK, WorkerPc, OwnerPc
<1>1. CASE Start
      BY <1>1 DEF Start
<1>2. CASE Offer
      BY <1>2 DEF Offer
<1>3. CASE Push
  <2>1. next \in Nat /\ next + 1 \in Nat /\ next' = next + 1
        BY <1>3 DEF Push
  <2>2. queue' \in Seq(Nat) /\ Len(queue') <= Capacity
        BY <1>3, <2>1 DEF Push, Pushed
  <2>3. next' \in 1..(MaxPackets + 1)
        BY <1>3, <2>1 DEF Push
  <2> QED
        BY <1>3, <2>2, <2>3 DEF Push
<1>4. CASE Notified
      BY <1>4 DEF Notified, NotifyPush, Notify
<1>5. CASE Destroy
      BY <1>5 DEF Destroy
<1>6. CASE Clear
      BY <1>6 DEF Clear
<1>7. CASE Wake
      BY <1>7 DEF Wake, Notify
<1>8. CASE Join
      BY <1>8 DEF Join
<1>9. ASSUME NEW ok \in BOOLEAN, Setup(ok) PROVE ViewerInv'
      BY <1>9 DEF Setup
<1>10. CASE Top
      BY <1>10 DEF Top
<1>11. CASE Lock
      BY <1>11 DEF Lock
<1>12. CASE Check
      BY <1>12 DEF Check, Awaited
<1>13. CASE Block
      BY <1>13 DEF Block
<1>14. CASE Drained
      BY <1>14 DEF Drained
<1>15. ASSUME NEW written \in BOOLEAN, Write(written) PROVE ViewerInv'
      BY <1>15 DEF Write, Popped
<1>16. CASE WriteFails
      BY <1>16 DEF WriteFails
<1>17. CASE Finalize
      BY <1>17 DEF Finalize
<1>18. CASE Stop
      BY <1>18 DEF Stop
<1>19. CASE WakeSpuriously
      BY <1>19 DEF WakeSpuriously
<1>20. CASE UNCHANGED vars
      BY <1>20 DEF vars
<1> QED
      BY <1>1, <1>2, <1>3, <1>4, <1>5, <1>6, <1>7, <1>8, <1>9, <1>10, <1>11,
         <1>12, <1>13, <1>14, <1>15, <1>16, <1>17, <1>18, <1>19, <1>20
      DEF Next, Owner, Worker, Finished

THEOREM ViewerInvHolds == Spec => []ViewerInv
BY InitInv, NextInv, PTL DEF Spec

\* The queue is bounded and the mutex owned where the code says, always.
THEOREM TypeCorrect == Spec => []TypeOK
BY ViewerInvHolds, PTL DEF ViewerInv

-----------------------------------------------------------------------------
(***************************************************************************)
(* The refinement: a push offers, a write delivers or skips, the end of    *)
(* the worker closes the pipe, and every other step stutters.              *)
(***************************************************************************)
LEMMA InitRefines == Init => Piped!Init
BY DEF Init, Piped!Init

LEMMA StepRefines == ViewerInv /\ [Next]_vars => [Piped!Next]_(Piped!pvars)
<1> SUFFICES ASSUME ViewerInv, [Next]_vars
             PROVE  Piped!Next \/ UNCHANGED Piped!pvars
      OBVIOUS
<1> USE DEF ViewerInv, TypeOK, Piped!Next, Piped!pvars
<1>1. CASE Push
      BY <1>1 DEF Push, Pushed, Piped!Offer
<1>2. ASSUME NEW written \in BOOLEAN, Write(written)
      PROVE  Piped!Deliver \/ Piped!Skip
      BY <1>2 DEF Write, Popped, Piped!Deliver, Piped!Skip
<1>3. CASE Stop
      BY <1>3 DEF Stop, Piped!Close
<1>4. CASE UNCHANGED <<next, queue, sent>> /\ (pc = "done" <=> pc' = "done")
      BY <1>4
<1>5. CASE Owner \/ WakeSpuriously \/ Finished \/ UNCHANGED vars
      BY <1>1, <1>4, <1>5
      DEF Owner, Start, Offer, Notified, NotifyPush, Notify, Destroy, Clear, Wake,
          Join, WakeSpuriously, Finished, vars
<1>6. CASE Worker
      BY <1>2, <1>3, <1>4, <1>6
      DEF Worker, Setup, Top, Lock, Check, Block, Drained, WriteFails, Finalize
<1> QED
      BY <1>5, <1>6 DEF Next

\* A viewer is a bounded FIFO pipe.
THEOREM ViewerImplementsPipe == Spec => IsPipe
<1>1. Spec => Piped!Init /\ [][Piped!Next]_(Piped!pvars)
      BY InitRefines, StepRefines, ViewerInvHolds, PTL DEF Spec
<1> QED
      BY <1>1, PTL DEF IsPipe, Piped!Spec

PipeFacts == INSTANCE PipeProofs WITH buffer <- queue, delivered <- sent,
                                      open <- pc # "done"

\* The client of a viewer gets its packets in order and none twice.
THEOREM SendsInOrder == Spec => []SentInOrder
<1>1. Init => PipeFacts!PipeInv
      BY InitRefines, PipeFacts!PipeInit DEF Piped!Init, PipeFacts!Init
<1>2. ViewerInv /\ PipeFacts!PipeInv /\ [Next]_vars => PipeFacts!PipeInv'
  <2>1. [Piped!Next]_(Piped!pvars) => [PipeFacts!Next]_(PipeFacts!pvars)
        BY DEF Piped!Next, Piped!Offer, Piped!Deliver, Piped!Skip, Piped!Close,
               Piped!pvars, PipeFacts!Next, PipeFacts!Offer, PipeFacts!Deliver,
               PipeFacts!Skip, PipeFacts!Close, PipeFacts!pvars
  <2> QED
        BY <2>1, StepRefines, PipeFacts!PipeStep
<1>3. PipeFacts!PipeInv => SentInOrder
      BY PipeFacts!OrderedIsInOrder
      DEF SentInOrder, Piped!InOrder, Piped!Increasing, Piped!Packets,
          PipeFacts!InOrder, PipeFacts!Increasing, PipeFacts!Packets
<1> QED
      BY <1>1, <1>2, <1>3, ViewerInvHolds, PTL DEF Spec
=============================================================================
