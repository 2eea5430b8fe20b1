--------------------------- MODULE RecorderProofs ---------------------------
(***************************************************************************)
(* A recorder, for any capacity, any number of packets and any choice of   *)
(* unmapped ones: its types, its files' trailers, its order, that it drops *)
(* no packet on the way, and that it implements the log of Recording.      *)
(***************************************************************************)
EXTENDS Recorder, SequenceTheorems, TLAPS

\* What the program points of owner and thread tell about the rest.
ControlInv ==
    /\ opc = "new" => pc = "unstarted"
    /\ opc \in {"idle", "push", "notify"} => pc # "unstarted"
    /\ opc = "push" => next <= MaxPackets
    /\ opc \in {"close", "gone"} => pc \in {"unstarted", "done"}
    /\ pc = "unstarted" => chunk = 0
    /\ pc \in {"lock", "check", "block", "asleep", "woken", "drain", "flush",
               "limits", "rotate", "close"} => chunk > 0
    /\ pc \in {"flush", "limits", "rotate", "close"} => queue # <<>>
    /\ pc \in {"top", "lock", "check", "block", "asleep", "woken", "drain", "flush",
               "limits", "rotate", "close"} => chunk \notin lost

TypeInv == TypeOK /\ ControlInv

\* Both parts of a sequence cut in two are sequences.
LEMMA CutSequence ==
    ASSUME NEW s \in Seq(Nat), NEW k \in 0..Len(s)
    PROVE  SubSeq(s, 1, k) \in Seq(Nat) /\ SubSeq(s, k + 1, Len(s)) \in Seq(Nat)
<1>1. k \in Int /\ k + 1 \in Int /\ Len(s) \in Int /\ 1 \in Int
      OBVIOUS
<1>2. /\ \A i \in 1..k : s[i] \in Nat
      /\ \A i \in (k + 1)..Len(s) : s[i] \in Nat
      OBVIOUS
<1>3. SubSeq(s, 1, k) \in Seq(Nat)
      BY <1>1, <1>2, SubSeqProperties
<1> QED
      BY <1>1, <1>2, <1>3, SubSeqProperties

USE RecorderAssumption
    DEF TypeInv, ControlInv, WorkerPc, OwnerPc, shared, names, files, state

LEMMA InitTypeInv == Init => TypeInv
<1> SUFFICES ASSUME Init PROVE TypeInv
      OBVIOUS
<1>1. /\ batched \in BOOLEAN
      /\ running \in BOOLEAN /\ output \in BOOLEAN
      BY Zenon DEF Init
<1>2. /\ queue \in Seq(Nat) /\ Len(queue) <= Capacity
      /\ rec_buffer \in Seq(Nat) /\ trailers \in Seq(Nat) /\ Len(trailers) = 0
      /\ made \in Seq(0..Formats) /\ Len(made) = 0 /\ path \in 0..(Formats + 1)
      /\ recorded \in Seq([chunk : Nat, packet : Nat])
      /\ next \in 1..(MaxPackets + 1)
      BY DEF Init
<1> QED
      BY <1>1, <1>2 DEF Init, TypeOK

\* The owner's part.
LEMMA OwnerTypeInv == ASSUME TypeInv, Owner, UNCHANGED batched, pc # "crashed"
                      PROVE  TypeInv'
<1> USE DEF TypeOK
<1>1. CASE Start
      BY <1>1 DEF Start
<1>2. CASE Offer
      BY <1>2 DEF Offer
<1>3. CASE Push
  <2>1. next \in Nat /\ next' = next + 1 /\ next <= MaxPackets
        BY <1>3 DEF Push
  <2>2. queue' \in Seq(Nat) /\ Len(queue') <= Capacity
        BY <1>3, <2>1 DEF Push, Pushed
  <2> QED
        BY <1>3, <2>1, <2>2 DEF Push
<1>4. CASE Notified
      BY <1>4 DEF Notified, NotifyPush, Notify
<1>5. CASE Destroy
      BY <1>5 DEF Destroy
<1>6. CASE Wake
      BY <1>6 DEF Wake, Notify
<1>7. CASE Join
      BY <1>7 DEF Join
<1>8. CASE Close
  <2>1. trailers' \in Seq(Nat) /\ Len(trailers') = chunk
        BY <1>8 DEF Close, Trailer
  <2>2. output' \in BOOLEAN /\ ~output'
        BY <1>8, Zenon DEF Close
  <2> QED
        BY <1>8, <2>1, <2>2 DEF Close
<1> QED
      BY <1>1, <1>2, <1>3, <1>4, <1>5, <1>6, <1>7, <1>8 DEF Owner

\* What write_packet takes has the type of recorded.
LEMMA WrittenType ==
    ASSUME recorded \in Seq([chunk : Nat, packet : Nat]),
           chunk \in Nat, NEW packets \in Seq(Nat)
    PROVE  Written(packets) \in Seq([chunk : Nat, packet : Nat])
BY DEF Written

\* What the tries of an opening do to names and files.
LEMMA TriedType ==
    ASSUME TypeInv, NEW n \in 0..Formats
    PROVE  /\ Truncated(n) \subseteq 1..chunk /\ lost \subseteq Truncated(n)
           /\ Truncated(n) # lost => path # 0
           /\ Removed(n) \in 0..(Formats + 1) /\ Removed(n) \in {path, 0}
<1>1. lost \subseteq 1..chunk /\ path \in 0..(Formats + 1)
      BY DEF TypeOK
<1>2. Truncated(n) \subseteq 1..chunk /\ lost \subseteq Truncated(n)
      BY <1>1, Zenon DEF Truncated
<1>3. Truncated(n) # lost => path # 0
      BY Zenon DEF Truncated
<1>4. Removed(n) \in {path, 0}
      BY Zenon DEF Removed
<1>5. 0 \in 0..(Formats + 1)
      OBVIOUS
<1> QED
      BY <1>1, <1>2, <1>3, <1>4, <1>5

LEMMA WorkerTypeInv == ASSUME TypeInv, Worker, UNCHANGED batched, pc # "crashed"
                       PROVE  TypeInv'
<1> USE DEF TypeOK
<1>1. CASE OpenFile
  <2>1. chunk' = chunk + 1 /\ trailers' \in Seq(Nat) /\ Len(trailers') = chunk'
    <3>1. chunk' = chunk + 1 /\ trailers' = Append(trailers, 0)
          BY <1>1 DEF OpenFile
    <3>2. trailers \in Seq(Nat) /\ Len(trailers) = chunk
          OBVIOUS
    <3> QED
          BY ONLY <3>1, <3>2
  <2>2. PICK f \in 1..Formats : /\ made' = Append(made, IF path = 0 THEN 0 ELSE f)
                                /\ lost' = Truncated(f)
                                /\ path' = Removed(f - 1)
        BY <1>1 DEF OpenFile
  <2>3. output' \in BOOLEAN /\ output'
        BY <1>1, Zenon DEF OpenFile
  <2>4. UNCHANGED <<batched, shared, rec_buffer, recorded>> /\ pc' = "lock" /\ pc = "top"
        BY <1>1 DEF OpenFile
  <2>5. chunk' \in Nat /\ chunk' > 0
        BY <2>1
  <2>6. f \in 0..Formats /\ f - 1 \in 0..Formats
        OBVIOUS
  <2>7. made' \in Seq(0..Formats) /\ Len(made') = chunk'
    <3>1. (IF path = 0 THEN 0 ELSE f) \in 0..Formats
          BY <2>6
    <3> QED
          BY <2>1, <2>2, <3>1
  <2>8. lost' \subseteq 1..chunk
        BY <2>2, <2>6, TriedType
  <2>9. lost' \subseteq 1..chunk' /\ chunk' \notin lost'
        BY <2>1, <2>8
  <2>10. path' \in 0..(Formats + 1)
        BY <2>2, <2>6, TriedType
  <2> QED
        BY <2>1, <2>3, <2>4, <2>5, <2>7, <2>9, <2>10
<1>2. CASE OpenFails \/ Top \/ Check
  <2>1. UNCHANGED <<queue, rec_buffer, trailers, recorded, made>>
        BY <1>2 DEF OpenFails, Top, Check
  <2>2. CASE OpenFails
    <3>1. PICK n \in {0, Formats} : lost' = Truncated(n) /\ path' = Removed(n)
          BY <2>2 DEF OpenFails
    <3>2. n \in 0..Formats
          OBVIOUS
    <3>3. lost' \subseteq 1..chunk /\ path' \in 0..(Formats + 1)
          BY <3>1, <3>2, TriedType
    <3> QED
          BY <2>1, <2>2, <3>3 DEF OpenFails
  <2>3. CASE Top
        BY <2>3 DEF Top
  <2>4. CASE Check
        BY <2>4 DEF Check
  <2> QED
        BY <1>2, <2>2, <2>3, <2>4
<1>3. CASE Lock \/ Block \/ Drained
      BY <1>3 DEF Lock, Block, Drained
<1>4. CASE WriteDirect
  <2>1. <<Head(queue)>> \in Seq(Nat)
        BY <1>4 DEF WriteDirect
  <2>2. recorded' \in Seq([chunk : Nat, packet : Nat])
        BY <1>4, <2>1, WrittenType DEF WriteDirect
  <2> QED
        BY <1>4, <2>2 DEF WriteDirect
<1>5. CASE WriteFails
      BY <1>5 DEF WriteFails
<1>6. CASE TimesCrash \/ WriteCrashes \/ FlushCrashes
      BY <1>6 DEF TimesCrash, WriteCrashes, FlushCrashes, Crash
<1>7. ASSUME NEW due \in BOOLEAN, Buffer(due) PROVE TypeInv'
      BY <1>7 DEF Buffer, Buffered
<1>8. ASSUME NEW k \in 0..Len(rec_buffer), Flush(k) PROVE TypeInv'
  <2>1. /\ SubSeq(rec_buffer, 1, k) \in Seq(Nat)
        /\ SubSeq(rec_buffer, k + 1, Len(rec_buffer)) \in Seq(Nat)
    <3>1. rec_buffer \in Seq(Nat)
          OBVIOUS
    <3> QED
          BY ONLY <3>1, k \in 0..Len(rec_buffer), CutSequence
  <2>2. recorded' \in Seq([chunk : Nat, packet : Nat])
        BY <1>8, <2>1, WrittenType DEF Flush
  <2>3. rec_buffer' = SubSeq(rec_buffer, k + 1, Len(rec_buffer))
        BY <1>8 DEF Flush, Unflushed
  <2>4. running' \in BOOLEAN
        BY <1>8, Zenon DEF Flush
  <2> QED
        BY <1>8, <2>1, <2>2, <2>3, <2>4 DEF Flush
<1>9. CASE WithinLimits
  <2>1. queue' \in Seq(Nat) /\ Len(queue') <= Capacity
        BY <1>9 DEF WithinLimits
  <2> QED
        BY <1>9, <2>1 DEF WithinLimits
<1>10. CASE LimitReached
      BY <1>10 DEF LimitReached
<1>11. CASE Rotate
  <2>1. queue' \in Seq(Nat) /\ Len(queue') <= Capacity
        BY <1>11 DEF Rotate
  <2>2. trailers' \in Seq(Nat) /\ Len(trailers') = chunk
        BY <1>11 DEF Rotate, RotationTrailer, Trailer
  <2>3. output' \in BOOLEAN /\ ~output'
        BY <1>11, Zenon DEF Rotate, Closed
  <2> QED
        BY <1>11, <2>1, <2>2, <2>3 DEF Rotate
<1>12. CASE Finalize
      BY <1>12 DEF Finalize, Trailer
<1>13. CASE Stop
      BY <1>13 DEF Stop
<1> QED
      BY <1>1, <1>2, <1>3, <1>4, <1>5, <1>6, <1>7, <1>8, <1>9, <1>10, <1>11,
         <1>12, <1>13 DEF Worker

LEMMA NextTypeInv == TypeInv /\ [Next]_vars => TypeInv'
<1> SUFFICES ASSUME TypeInv, [Next]_vars PROVE TypeInv'
      OBVIOUS
<1>1. CASE pc # "crashed" /\ UNCHANGED batched /\ WakeSpuriously
      BY <1>1 DEF WakeSpuriously, TypeOK
<1>2. CASE UNCHANGED vars
      BY <1>2 DEF vars, TypeOK
<1> QED
      BY <1>1, <1>2, OwnerTypeInv, WorkerTypeInv DEF Next, Finished

LEMMA TypeInvHolds == Spec => []TypeInv
BY InitTypeInv, NextTypeInv, PTL DEF Spec

\* Types, the bound of the queue and the ownership of the mutex, always.
THEOREM TypeCorrect == Spec => []TypeOK
BY TypeInvHolds, PTL DEF TypeInv

-----------------------------------------------------------------------------
(***************************************************************************)
(* Trailers.                                                               *)
(***************************************************************************)
SealInv ==
    /\ \A i \in 1..chunk : i < chunk \/ ~output => trailers[i] > 0
    /\ pc \in {"stop", "done"} => \A i \in 1..chunk : trailers[i] > 0

LEMMA InitSealInv == Init => SealInv
BY DEF Init, SealInv

LEMMA NextSealInv == TypeInv /\ SealInv /\ [Next]_vars => SealInv'
<1> SUFFICES ASSUME TypeInv, SealInv, [Next]_vars PROVE SealInv'
      OBVIOUS
<1>0. chunk \in Nat /\ trailers \in Seq(Nat) /\ Len(trailers) = chunk
      BY DEF TypeOK
<1>1. CASE /\ UNCHANGED <<output, chunk, trailers>>
           /\ pc' \in {"stop", "done"} => pc \in {"stop", "done"}
      BY <1>1 DEF SealInv
<1>2. CASE OpenFile
  <2>1. chunk' = chunk + 1 /\ trailers' = Append(trailers, 0) /\ output'
        BY <1>2 DEF OpenFile
  <2>2. \A i \in 1..chunk : trailers[i] > 0
        BY <1>2 DEF OpenFile, SealInv
  <2>3. \A i \in 1..chunk : trailers'[i] = trailers[i]
        BY <1>0, <2>1
  <2>4. pc' = "lock"
        BY <1>2 DEF OpenFile
  <2> QED
        BY <1>0, <2>1, <2>2, <2>3, <2>4 DEF SealInv
<1>3. CASE Rotate \/ Finalize \/ Close
  <2>1. chunk' = chunk /\ trailers' = Trailer
        BY <1>3 DEF Rotate, RotationTrailer, Finalize, Close
  <2>2. \A i \in 1..chunk : trailers'[i] > 0
    <3>1. CASE ~output
          BY <2>1, <3>1 DEF Trailer, SealInv
    <3>2. CASE output
      <4>1. \A i \in 1..chunk : trailers[i] \in Nat
            BY <1>0
      <4>2. chunk \in 1..chunk /\ trailers'[chunk] = trailers[chunk] + 1
            BY <1>0, <2>1, <3>2 DEF Trailer, TypeOK
      <4>3. \A i \in 1..chunk : i # chunk => trailers'[i] = trailers[i] /\ i < chunk
            BY <1>0, <2>1, <3>2 DEF Trailer
      <4> QED
            BY <4>1, <4>2, <4>3 DEF SealInv
    <3> QED
          BY <3>1, <3>2
  <2> QED
        BY <2>1, <2>2 DEF SealInv
<1>4. CASE Owner
      BY <1>1, <1>3, <1>4
      DEF Owner, Start, Offer, Push, Notified, NotifyPush, Notify, Destroy, Wake, Join
<1>5. CASE TimesCrash \/ WriteCrashes \/ FlushCrashes
      BY <1>1, <1>5 DEF TimesCrash, WriteCrashes, FlushCrashes, Crash
<1>6. CASE Top \/ OpenFails \/ Lock \/ Check \/ Block \/ Drained \/ WakeSpuriously
      BY <1>1, <1>6
      DEF Top, OpenFails, Lock, Check, Block, Drained, WakeSpuriously
<1>7. CASE WriteDirect \/ WriteFails \/ WithinLimits \/ LimitReached \/ Stop
      BY <1>1, <1>7 DEF WriteDirect, WriteFails, WithinLimits, LimitReached, Stop
<1>8. ASSUME NEW due \in BOOLEAN, Buffer(due) PROVE SealInv'
      BY <1>1, <1>8 DEF Buffer
<1>9. ASSUME NEW k \in 0..Len(rec_buffer), Flush(k) PROVE SealInv'
      BY <1>1, <1>9 DEF Flush
<1>10. CASE UNCHANGED vars
      BY <1>1, <1>10 DEF vars
<1> QED
      BY <1>2, <1>3, <1>4, <1>5, <1>6, <1>7, <1>8, <1>9, <1>10
      DEF Next, Worker, Finished

\* Every file but the one being written has its trailer, always.
THEOREM Sealed == Spec => []FilesAreSealed
<1>1. TypeInv /\ SealInv => FilesAreSealed
      BY DEF SealInv, FilesAreSealed
<1> QED
      BY <1>1, TypeInvHolds, InitSealInv, NextSealInv, PTL DEF Spec
-----------------------------------------------------------------------------
(***************************************************************************)
(* Order.  Every stage is increasing, everything recorded is older than    *)
(* everything buffered, and both are older than what still waits in the    *)
(* queue: all of it, or all but the head that has been taken already.      *)
(***************************************************************************)
Taken == pc \in {"flush", "limits", "rotate", "close", "crashed"}

Increasing(s) == \A i, j \in 1..Len(s) : i < j => s[i] < s[j]
Waits(j) == j \in 1..Len(queue) /\ (Taken => j > 1)

Offered ==
    /\ \A i \in 1..Len(queue) : queue[i] < next
    /\ \A i \in 1..Len(rec_buffer) : rec_buffer[i] < next
    /\ \A i \in 1..Len(recorded) : recorded[i].packet < next

Ordered ==
    /\ \A i, j \in 1..Len(recorded) : i < j => recorded[i].packet < recorded[j].packet
    /\ \A i \in 1..Len(recorded), j \in 1..Len(rec_buffer) :
           recorded[i].packet < rec_buffer[j]
    /\ \A i \in 1..Len(recorded), j \in 1..Len(queue) :
           Waits(j) => recorded[i].packet < queue[j]
    /\ \A i \in 1..Len(rec_buffer), j \in 1..Len(queue) :
           Waits(j) => rec_buffer[i] < queue[j]

OrderInv ==
    /\ ~batched => rec_buffer = <<>>
    /\ Increasing(queue) /\ Increasing(rec_buffer)
    /\ Offered /\ Ordered

LEMMA InitOrderInv == Init => OrderInv
BY DEF Init, OrderInv, Increasing, Offered, Ordered

\* What the types say of lengths and elements.
LEMMA Elements ==
    ASSUME TypeInv
    PROVE  /\ Len(queue) \in Nat /\ Len(rec_buffer) \in Nat /\ Len(recorded) \in Nat
           /\ next \in Nat
           /\ \A i \in 1..Len(queue) : queue[i] \in Nat
           /\ \A i \in 1..Len(rec_buffer) : rec_buffer[i] \in Nat
           /\ \A i \in 1..Len(recorded) : recorded[i].packet \in Nat
<1>1. \A i \in 1..Len(recorded) : recorded[i] \in [chunk : Nat, packet : Nat]
      BY ElementOfSeq DEF TypeOK
<1>2. \A i \in 1..Len(recorded) : recorded[i].packet \in Nat
      BY <1>1
<1>3. /\ Len(queue) \in Nat /\ Len(rec_buffer) \in Nat /\ Len(recorded) \in Nat
      /\ next \in Nat
      BY DEF TypeOK
<1>4. /\ \A i \in 1..Len(queue) : queue[i] \in Nat
      /\ \A i \in 1..Len(rec_buffer) : rec_buffer[i] \in Nat
      BY DEF TypeOK
<1> QED
      BY <1>2, <1>3, <1>4

\* The stages stay as they are, or the packet taken from the queue is popped
\* at last.
LEMMA OrderKept ==
    ASSUME TypeInv, OrderInv,
           UNCHANGED <<batched, queue, next, rec_buffer, recorded>>, Taken => Taken'
    PROVE  OrderInv'
BY Elements DEF OrderInv, Increasing, Offered, Ordered, Waits

LEMMA OrderPopped ==
    ASSUME TypeInv, OrderInv, UNCHANGED <<batched, next, rec_buffer, recorded>>,
           pc \in {"limits", "close"}, queue' = Tail(queue), pc' = "drain"
    PROVE  OrderInv'
<1> USE DEF OrderInv, Increasing, Offered, Ordered, Waits, Taken
<1>1. /\ Len(queue') = Len(queue) - 1
      /\ \A i \in 1..Len(queue') : queue'[i] = queue[i + 1]
      BY DEF TypeOK
<1>2. \A i \in 1..Len(queue') : i + 1 \in 1..Len(queue) /\ i + 1 > 1
      BY <1>1, Elements
<1>3. Increasing(queue)'
      BY <1>1, <1>2, Elements
<1> QED
      BY <1>1, <1>2, <1>3, Elements

LEMMA OrderPushed ==
    ASSUME TypeInv, OrderInv, Push, UNCHANGED batched, pc # "crashed"
    PROVE  OrderInv'
<1> USE DEF OrderInv, Increasing, Offered, Ordered, Waits, Taken
<1>1. next' = next + 1 /\ UNCHANGED <<batched, pc, rec_buffer, recorded>>
      BY DEF Push
<1>2. CASE queue' = queue
  <2>1. Offered'
        BY <1>1, <1>2, Elements
  <2> QED
        BY <1>1, <1>2, <2>1
<1>3. CASE queue' = Append(queue, next)
  <2>1. /\ Len(queue') = Len(queue) + 1
        /\ \A i \in 1..Len(queue) : queue'[i] = queue[i]
        /\ queue'[Len(queue')] = next
        BY <1>3 DEF TypeOK
  <2>2. \A i \in 1..Len(queue') : i \in 1..Len(queue) \/ i = Len(queue')
        BY <2>1, Elements
  <2>3. Increasing(queue)'
        BY <2>1, <2>2, Elements
  <2>4. Offered'
        BY <1>1, <2>1, <2>2, Elements
  <2>5. Ordered'
        BY <1>1, <2>1, <2>2, Elements
  <2> QED
        BY <1>1, <2>3, <2>4, <2>5
<1> QED
      BY <1>2, <1>3 DEF Push, Pushed

LEMMA OrderWritten ==
    ASSUME TypeInv, OrderInv, WriteDirect, UNCHANGED batched
    PROVE  OrderInv'
<1> USE DEF OrderInv, Increasing, Offered, Ordered, Waits, Taken
<1>1. /\ UNCHANGED <<batched, queue, next, rec_buffer>> /\ rec_buffer = <<>>
      /\ pc = "drain" /\ pc' = "limits" /\ 1 \in 1..Len(queue)
      BY Elements DEF WriteDirect, TypeOK
<1>2. /\ Len(recorded') = Len(recorded) + 1
      /\ \A i \in 1..Len(recorded) : recorded'[i] = recorded[i]
      /\ recorded'[Len(recorded')].packet = queue[1]
      BY DEF WriteDirect, Written, TypeOK
<1>3. \A i \in 1..Len(recorded') : i \in 1..Len(recorded) \/ i = Len(recorded')
      BY <1>2, Elements
<1>4. Offered'
      BY <1>1, <1>2, <1>3
<1>5. ASSUME NEW i \in 1..Len(recorded'), NEW j \in 1..Len(recorded'), i < j
      PROVE  recorded'[i].packet < recorded'[j].packet
  <2>1. i \in 1..Len(recorded) /\ recorded'[i] = recorded[i]
        BY <1>2, <1>5, Elements
  <2> QED
        BY <1>1, <1>2, <1>3, <1>5, <2>1
<1>6. ASSUME NEW i \in 1..Len(recorded'), NEW j \in 1..Len(queue'), Waits(j)'
      PROVE  recorded'[i].packet < queue'[j]
      BY <1>1, <1>2, <1>3, <1>6, Elements
<1>7. Ordered'
      BY <1>1, <1>5, <1>6, Elements
<1> QED
      BY <1>1, <1>4, <1>7

LEMMA OrderBuffered ==
    ASSUME TypeInv, OrderInv, NEW due \in BOOLEAN, Buffer(due), UNCHANGED batched
    PROVE  OrderInv'
<1> USE DEF OrderInv, Increasing, Offered, Ordered, Waits, Taken
<1>1. /\ UNCHANGED <<batched, queue, next, recorded>> /\ batched
      /\ pc = "drain" /\ pc' \in {"flush", "limits"} /\ 1 \in 1..Len(queue)
      BY Elements DEF Buffer, TypeOK
<1>2. /\ Len(rec_buffer') = Len(rec_buffer) + 1
      /\ \A i \in 1..Len(rec_buffer) : rec_buffer'[i] = rec_buffer[i]
      /\ rec_buffer'[Len(rec_buffer')] = queue[1]
      BY DEF Buffer, Buffered, TypeOK
<1>3. \A i \in 1..Len(rec_buffer') : i \in 1..Len(rec_buffer) \/ i = Len(rec_buffer')
      BY <1>2, Elements
<1>4. Increasing(rec_buffer)'
      BY <1>1, <1>2, <1>3, Elements
<1>5. Offered'
      BY <1>1, <1>2, <1>3
<1>6. Ordered'
      BY <1>1, <1>2, <1>3, Elements
<1> QED
      BY <1>1, <1>4, <1>5, <1>6

\* Where write_buffer moves the packets of the buffer.
LEMMA FlushMoves ==
    ASSUME TypeInv, NEW k \in 0..Len(rec_buffer), Flush(k)
    PROVE  /\ Len(rec_buffer') = Len(rec_buffer) - k
           /\ \A i \in 1..Len(rec_buffer') : rec_buffer'[i] = rec_buffer[i + k]
           /\ Len(recorded') = Len(recorded) + k
           /\ \A i \in 1..Len(recorded) : recorded'[i] = recorded[i]
           /\ \A i \in 1..k : /\ recorded'[Len(recorded) + i].packet = rec_buffer[i]
                             /\ recorded'[Len(recorded) + i].chunk = chunk
<1>1. /\ Len(rec_buffer') = Len(rec_buffer) - k
      /\ \A i \in 1..Len(rec_buffer') : rec_buffer'[i] = rec_buffer[i + k]
  <2>1. rec_buffer' = SubSeq(rec_buffer, k + 1, Len(rec_buffer))
        BY DEF Flush, Unflushed
  <2>2. rec_buffer \in Seq(Nat)
        BY DEF TypeOK
  <2> QED
        BY ONLY k \in 0..Len(rec_buffer), <2>1, <2>2
<1>2. /\ Len(recorded') = Len(recorded) + k
      /\ \A i \in 1..Len(recorded) : recorded'[i] = recorded[i]
      /\ \A i \in 1..k : /\ recorded'[Len(recorded) + i].packet = rec_buffer[i]
                        /\ recorded'[Len(recorded) + i].chunk = chunk
  <2> DEFINE entries == [i \in 1..k |-> [chunk |-> chunk, packet |-> rec_buffer[i]]]
  <2>1. /\ Len(SubSeq(rec_buffer, 1, k)) = k
        /\ \A i \in 1..k : SubSeq(rec_buffer, 1, k)[i] = rec_buffer[i]
        BY Elements DEF TypeOK
  <2>2. recorded' = recorded \o entries
        BY <2>1 DEF Flush, Written
  <2>3. entries \in Seq([chunk : Nat, packet : Nat]) /\ Len(entries) = k
        BY Elements DEF TypeOK
  <2>4. \A i \in 1..k : entries[i].packet = rec_buffer[i] /\ entries[i].chunk = chunk
        OBVIOUS
  <2> HIDE DEF entries
  <2>5. /\ Len(recorded') = Len(recorded) + k
        /\ \A i \in 1..Len(recorded) : recorded'[i] = recorded[i]
        /\ \A i \in 1..k : recorded'[Len(recorded) + i] = entries[i]
    <3>1. recorded \in Seq([chunk : Nat, packet : Nat])
          BY DEF TypeOK
    <3>2. /\ Len(recorded') = Len(recorded) + k
          /\ \A i \in 1..Len(recorded) + k :
                recorded'[i] = IF i <= Len(recorded) THEN recorded[i]
                               ELSE entries[i - Len(recorded)]
          BY <2>2, <2>3, <3>1, ConcatProperties
    <3>3. ASSUME NEW i \in 1..k PROVE recorded'[Len(recorded) + i] = entries[i]
      <4>1. /\ Len(recorded) + i \in 1..Len(recorded) + k
            /\ ~(Len(recorded) + i <= Len(recorded))
            /\ Len(recorded) + i - Len(recorded) = i
            BY Elements
      <4> QED
            BY <3>2, <4>1
    <3> QED
          BY <3>2, <3>3, Elements
  <2> QED
        BY <2>4, <2>5
<1> QED
      BY <1>1, <1>2

LEMMA OrderFlushed ==
    ASSUME TypeInv, OrderInv, NEW k \in 0..Len(rec_buffer), Flush(k),
           UNCHANGED batched
    PROVE  OrderInv'
<1> USE DEF OrderInv, Increasing, Offered, Ordered, Waits, Taken
<1>1. /\ UNCHANGED <<batched, queue, next>>
      /\ pc \in {"flush", "rotate"} /\ pc' \in {"limits", "close"}
      BY DEF Flush
<1>2. /\ Len(rec_buffer') = Len(rec_buffer) - k
      /\ \A i \in 1..Len(rec_buffer') : rec_buffer'[i] = rec_buffer[i + k]
      BY FlushMoves
<1>3. /\ Len(recorded') = Len(recorded) + k
      /\ \A i \in 1..Len(recorded) : recorded'[i] = recorded[i]
      /\ \A i \in 1..k : recorded'[Len(recorded) + i].packet = rec_buffer[i]
      BY FlushMoves
<1>4. \A i \in 1..Len(recorded') :
         \/ i \in 1..Len(recorded)
         \/ \E n \in 1..k : i = Len(recorded) + n
  <2> SUFFICES ASSUME NEW i \in 1..Len(recorded'), i \notin 1..Len(recorded)
               PROVE  \E n \in 1..k : i = Len(recorded) + n
        OBVIOUS
  <2>1. i - Len(recorded) \in 1..k /\ i = Len(recorded) + (i - Len(recorded))
        BY <1>3, Elements
  <2> QED
        BY <2>1
<1>5. \A i \in 1..Len(rec_buffer') : i + k \in 1..Len(rec_buffer) /\ i + k > k
      BY <1>2, Elements
<1>6. Increasing(rec_buffer)'
  <2>1. ASSUME NEW i \in 1..Len(rec_buffer'), NEW j \in 1..Len(rec_buffer'), i < j
        PROVE  rec_buffer'[i] < rec_buffer'[j]
    <3>1. i + k \in 1..Len(rec_buffer) /\ j + k \in 1..Len(rec_buffer) /\ i + k < j + k
          BY <1>5, <2>1, Elements
    <3> QED
          BY <1>2, <3>1
  <2> QED
        BY <2>1
<1>7. Offered'
  <2>1. \A i \in 1..Len(rec_buffer') : rec_buffer'[i] < next'
        BY <1>1, <1>2, <1>5
  <2>2. \A i \in 1..Len(recorded') : recorded'[i].packet < next'
    <3> SUFFICES ASSUME NEW i \in 1..Len(recorded')
                 PROVE  recorded'[i].packet < next
          BY <1>1
    <3>1. CASE i \in 1..Len(recorded)
          BY <1>3, <3>1
    <3>2. CASE i \notin 1..Len(recorded)
      <4>1. PICK n \in 1..k : i = Len(recorded) + n
            BY <1>4, <3>2
      <4>2. n \in 1..Len(rec_buffer)
            BY Elements
      <4> QED
            BY <1>3, <4>1, <4>2
    <3> QED
          BY <3>1, <3>2
  <2> QED
        BY <1>1, <2>1, <2>2
<1>8. Ordered'
  <2>1. ASSUME NEW i \in 1..Len(recorded'), NEW j \in 1..Len(recorded'), i < j
        PROVE  recorded'[i].packet < recorded'[j].packet
    <3>1. CASE i \in 1..Len(recorded) /\ j \in 1..Len(recorded)
          BY <1>3, <2>1, <3>1
    <3>2. CASE i \in 1..Len(recorded) /\ j \notin 1..Len(recorded)
      <4>1. PICK n \in 1..k : j = Len(recorded) + n
            BY <1>4, <3>2
      <4>2. n \in 1..Len(rec_buffer)
            BY Elements
      <4> QED
            BY <1>3, <3>2, <4>1, <4>2
    <3>3. CASE i \notin 1..Len(recorded)
      <4>1. PICK m \in 1..k : i = Len(recorded) + m
            BY <1>4, <3>3
      <4>2. j \notin 1..Len(recorded)
            BY <2>1, <4>1, Elements
      <4>3. PICK n \in 1..k : j = Len(recorded) + n
            BY <1>4, <4>2
      <4>4. m < n /\ m \in 1..Len(rec_buffer) /\ n \in 1..Len(rec_buffer)
            BY <2>1, <4>1, <4>3, Elements
      <4> QED
            BY <1>3, <4>1, <4>3, <4>4
    <3> QED
          BY <3>1, <3>2, <3>3
  <2>2. ASSUME NEW i \in 1..Len(recorded'), NEW j \in 1..Len(rec_buffer')
        PROVE  recorded'[i].packet < rec_buffer'[j]
    <3>1. j + k \in 1..Len(rec_buffer) /\ j + k > k /\ rec_buffer'[j] = rec_buffer[j + k]
          BY <1>2, <1>5
    <3>2. CASE i \in 1..Len(recorded)
          BY <1>3, <3>1, <3>2
    <3>3. CASE i \notin 1..Len(recorded)
      <4>1. PICK n \in 1..k : i = Len(recorded) + n
            BY <1>4, <3>3
      <4>2. n < j + k /\ n \in 1..Len(rec_buffer)
            BY <3>1, Elements
      <4> QED
            BY <1>3, <3>1, <4>1, <4>2
    <3> QED
          BY <3>2, <3>3
  <2>3. ASSUME NEW i \in 1..Len(recorded'), NEW j \in 1..Len(queue'), Waits(j)'
        PROVE  recorded'[i].packet < queue'[j]
    <3>1. Waits(j) /\ queue'[j] = queue[j] /\ j \in 1..Len(queue)
          BY <1>1, <2>3
    <3>2. CASE i \in 1..Len(recorded)
          BY <1>3, <3>1, <3>2
    <3>3. CASE i \notin 1..Len(recorded)
      <4>1. PICK n \in 1..k : i = Len(recorded) + n
            BY <1>4, <3>3
      <4>2. n \in 1..Len(rec_buffer)
            BY Elements
      <4> QED
            BY <1>3, <3>1, <4>1, <4>2
    <3> QED
          BY <3>2, <3>3
  <2>4. ASSUME NEW i \in 1..Len(rec_buffer'), NEW j \in 1..Len(queue'), Waits(j)'
        PROVE  rec_buffer'[i] < queue'[j]
        BY <1>1, <1>2, <1>5, <2>4, Elements
  <2> QED
        BY <2>1, <2>2, <2>3, <2>4
<1>9. ~batched' => rec_buffer' = <<>>
      BY <1>1, <1>2 DEF Flush, Unflushed, TypeOK
<1> QED
      BY <1>1, <1>6, <1>7, <1>8, <1>9

LEMMA NextOrderInv == TypeInv /\ OrderInv /\ [Next]_vars => OrderInv'
<1> SUFFICES ASSUME TypeInv, OrderInv, [Next]_vars PROVE OrderInv'
      OBVIOUS
<1>1. CASE UNCHANGED batched /\ pc # "crashed" /\ Owner
      BY <1>1, OrderPushed, OrderKept
      DEF Owner, Start, Offer, Notified, NotifyPush, Notify, Destroy, Wake, Join,
          Close, Taken
<1>2. CASE UNCHANGED batched /\ (Rotate \/ WithinLimits)
      BY <1>2, OrderPopped DEF Rotate, WithinLimits
<1>3. CASE UNCHANGED batched /\ (TimesCrash \/ WriteCrashes \/ FlushCrashes)
      BY <1>3, OrderKept DEF TimesCrash, WriteCrashes, FlushCrashes, Crash, Taken
<1>4. CASE /\ UNCHANGED batched
           /\ \/ Top \/ OpenFile \/ OpenFails \/ Lock \/ Check \/ Block \/ Drained
              \/ WakeSpuriously
      BY <1>4, OrderKept
      DEF Top, OpenFile, OpenFails, Lock, Check, Block, Drained, WakeSpuriously, Taken
<1>5. CASE UNCHANGED batched /\ (WriteFails \/ LimitReached \/ Finalize \/ Stop)
      BY <1>5, OrderKept DEF WriteFails, LimitReached, Finalize, Stop, Taken
<1>6. CASE UNCHANGED vars
      BY <1>6, OrderKept DEF vars, Taken
<1> QED
      BY <1>1, <1>2, <1>3, <1>4, <1>5, <1>6, OrderWritten, OrderBuffered, OrderFlushed
      DEF Next, Worker, Finished
-----------------------------------------------------------------------------
(* From the stages to the line they form. *)

LEMMA Joined ==
    ASSUME NEW s \in Seq(Nat), NEW t \in Seq(Nat), Increasing(s), Increasing(t),
           \A i \in 1..Len(s), j \in 1..Len(t) : s[i] < t[j]
    PROVE  /\ s \o t \in Seq(Nat) /\ Increasing(s \o t)
           /\ Len(s \o t) = Len(s) + Len(t)
           /\ \A i \in 1..Len(s \o t) :
                 \/ i \in 1..Len(s) /\ (s \o t)[i] = s[i]
                 \/ i - Len(s) \in 1..Len(t) /\ (s \o t)[i] = t[i - Len(s)]
<1> DEFINE line == s \o t
<1>1. /\ line \in Seq(Nat) /\ Len(line) = Len(s) + Len(t)
      /\ \A i \in 1..Len(s) + Len(t) :
            line[i] = IF i <= Len(s) THEN s[i] ELSE t[i - Len(s)]
      BY ConcatProperties
<1>2. Len(s) \in Nat /\ Len(t) \in Nat
      OBVIOUS
<1> HIDE DEF line
<1>3. \A i \in 1..Len(line) :
         \/ i \in 1..Len(s) /\ line[i] = s[i]
         \/ i - Len(s) \in 1..Len(t) /\ line[i] = t[i - Len(s)]
      BY <1>1, <1>2
<1>4. ASSUME NEW i \in 1..Len(line), NEW j \in 1..Len(line), i < j
      PROVE  line[i] < line[j]
  <2>1. CASE i \in 1..Len(s) /\ j \in 1..Len(s)
    <3>1. line[i] = s[i] /\ line[j] = s[j]
          BY <1>1, <1>2, <2>1
    <3> QED
          BY <1>4, <2>1, <3>1 DEF Increasing
  <2>2. CASE i \in 1..Len(s) /\ j \notin 1..Len(s)
    <3>1. line[i] = s[i]
          BY <1>1, <1>2, <2>2
    <3>2. j - Len(s) \in 1..Len(t) /\ line[j] = t[j - Len(s)]
          BY <1>3, <2>2
    <3> QED
          BY <2>2, <3>1, <3>2
  <2>3. CASE i \notin 1..Len(s)
    <3>1. /\ i - Len(s) \in 1..Len(t) /\ j - Len(s) \in 1..Len(t)
          /\ i - Len(s) < j - Len(s)
          /\ line[i] = t[i - Len(s)] /\ line[j] = t[j - Len(s)]
          BY <1>1, <1>2, <1>3, <1>4, <2>3
    <3> QED
          BY <3>1 DEF Increasing
  <2> QED
        BY <2>1, <2>2, <2>3
<1>5. Increasing(line)
      BY <1>4 DEF Increasing
<1> QED
      BY <1>1, <1>3, <1>5 DEF line

\* What waits is the queue, or all of it but its head.
LEMMA WaitingInOrder ==
    ASSUME TypeInv, OrderInv, pc # "crashed"
    PROVE  /\ Waiting \in Seq(Nat) /\ Increasing(Waiting)
           /\ \A j \in 1..Len(Waiting) :
                 \E m \in 1..Len(queue) : Waits(m) /\ Waiting[j] = queue[m]
<1> USE DEF Waits, Taken
<1>1. CASE pc \in {"flush", "limits", "rotate", "close"}
  <2>1. Waiting = Tail(queue) /\ queue # <<>>
        BY <1>1 DEF Waiting
  <2>2. /\ Waiting \in Seq(Nat) /\ Len(Waiting) = Len(queue) - 1
        /\ \A j \in 1..Len(Waiting) : Waiting[j] = queue[j + 1]
        BY <2>1 DEF TypeOK
  <2>3. \A j \in 1..Len(Waiting) : j + 1 \in 1..Len(queue) /\ j + 1 > 1
        BY <2>2, Elements
  <2>4. ASSUME NEW i \in 1..Len(Waiting), NEW j \in 1..Len(Waiting), i < j
        PROVE  Waiting[i] < Waiting[j]
    <3>1. i + 1 \in 1..Len(queue) /\ j + 1 \in 1..Len(queue) /\ i + 1 < j + 1
          BY <2>2, <2>3, <2>4, Elements
    <3> QED
          BY <2>2, <3>1 DEF OrderInv, Increasing
  <2>5. ASSUME NEW j \in 1..Len(Waiting)
        PROVE  \E m \in 1..Len(queue) : Waits(m) /\ Waiting[j] = queue[m]
        BY <2>2, <2>3
  <2> QED
        BY <2>2, <2>4, <2>5 DEF Increasing
<1>2. CASE pc \notin {"flush", "limits", "rotate", "close"}
      BY <1>2 DEF Waiting, OrderInv, TypeOK
<1> QED
      BY <1>1, <1>2

LEMMA LineInOrder == TypeInv /\ OrderInv => InOrder
<1> SUFFICES ASSUME TypeInv, OrderInv PROVE InOrder
      OBVIOUS
<1> DEFINE taken == [i \in 1..Len(recorded) |-> recorded[i].packet]
           rest == IF pc = "crashed" THEN <<>> ELSE Waiting
<1>1. /\ taken \in Seq(Nat) /\ Len(taken) = Len(recorded)
      /\ \A i \in 1..Len(taken) : taken[i] = recorded[i].packet
      BY Elements
<1>2. /\ rest \in Seq(Nat) /\ Increasing(rest)
      /\ \A j \in 1..Len(rest) :
            \E m \in 1..Len(queue) : Waits(m) /\ rest[j] = queue[m]
  <2>1. CASE pc = "crashed"
        BY <2>1 DEF Increasing
  <2>2. CASE pc # "crashed"
        BY <2>2, WaitingInOrder
  <2> QED
        BY <2>1, <2>2
<1> HIDE DEF taken, rest
<1>3. rec_buffer \in Seq(Nat) /\ Increasing(rec_buffer)
      BY DEF TypeOK, OrderInv
<1>4. Increasing(taken) /\ \A i \in 1..Len(taken), j \in 1..Len(rec_buffer) :
                               taken[i] < rec_buffer[j]
      BY <1>1 DEF OrderInv, Ordered, Increasing
<1> DEFINE done == taken \o rec_buffer
<1>5. /\ done \in Seq(Nat) /\ Increasing(done)
      /\ \A i \in 1..Len(done) :
            \/ i \in 1..Len(taken) /\ done[i] = taken[i]
            \/ i - Len(taken) \in 1..Len(rec_buffer)
               /\ done[i] = rec_buffer[i - Len(taken)]
      BY <1>1, <1>3, <1>4, Joined
<1> HIDE DEF done
<1>6. ASSUME NEW i \in 1..Len(done), NEW j \in 1..Len(rest)
      PROVE  done[i] < rest[j]
  <2>1. PICK m \in 1..Len(queue) : Waits(m) /\ rest[j] = queue[m]
        BY <1>2
  <2>2. CASE i \in 1..Len(taken) /\ done[i] = taken[i]
        BY <1>1, <2>1, <2>2 DEF OrderInv, Ordered
  <2>3. CASE i - Len(taken) \in 1..Len(rec_buffer)
             /\ done[i] = rec_buffer[i - Len(taken)]
        BY <2>1, <2>3 DEF OrderInv, Ordered
  <2> QED
        BY <1>5, <2>2, <2>3
<1>7. Increasing(done \o rest)
      BY <1>2, <1>5, <1>6, Joined
<1> QED
      BY <1>7 DEF InOrder, Increasing, done, taken, rest

\* Through queue, buffer and files the packets stay in the order of the source.
THEOREM PacketsInOrder == Spec => []InOrder
BY TypeInvHolds, InitOrderInv, NextOrderInv, LineInOrder, PTL DEF Spec

-----------------------------------------------------------------------------
(***************************************************************************)
(* Nothing vanishes.  A packet is popped from the queue only when it is in *)
(* the buffer or in a file already.                                        *)
(***************************************************************************)
Dealt == Range(rec_buffer) \cup {recorded[i].packet : i \in Intact}

TakenInv == pc \in {"flush", "limits", "rotate", "close"} => queue[1] \in Dealt

\* An element of a stage has a place in it.
LEMMA Places ==
    ASSUME TypeInv
    PROVE  /\ Range(queue) = {queue[i] : i \in 1..Len(queue)}
           /\ Range(rec_buffer) = {rec_buffer[i] : i \in 1..Len(rec_buffer)}
<1>1. queue \in Seq(Nat) /\ rec_buffer \in Seq(Nat)
      BY DEF TypeOK
<1> QED
      BY <1>1, RangeEquality

\* What write_buffer takes from the buffer is in the file.
LEMMA FlushKeeps ==
    ASSUME TypeInv, TypeInv', NEW k \in 0..Len(rec_buffer), Flush(k)
    PROVE  Dealt \subseteq Dealt'
<1>0. UNCHANGED <<lost, chunk>> /\ chunk \notin lost
      BY DEF Flush
<1>1. ASSUME NEW i \in 1..Len(rec_buffer) PROVE rec_buffer[i] \in Dealt'
  <2>1. CASE i <= k
    <3>1. i \in 1..k /\ Len(recorded) + i \in 1..Len(recorded')
          BY <2>1, FlushMoves, Elements
    <3>2. Len(recorded) + i \in Intact'
          BY <1>0, <3>1, FlushMoves DEF Intact
    <3> QED
          BY <3>1, <3>2, FlushMoves DEF Dealt
  <2>2. CASE i > k
    <3>1. i - k \in 1..Len(rec_buffer') /\ (i - k) + k = i
          BY <2>2, FlushMoves, Elements
    <3>2. rec_buffer'[i - k] = rec_buffer[(i - k) + k]
          BY ONLY <3>1, FlushMoves, TypeInv, Flush(k), k \in 0..Len(rec_buffer)
    <3>3. rec_buffer'[i - k] = rec_buffer[i]
          BY <3>1, <3>2
    <3>4. Range(rec_buffer') = {rec_buffer'[j] : j \in 1..Len(rec_buffer')}
          BY RangeEquality DEF TypeOK
    <3> QED
          BY <3>1, <3>3, <3>4 DEF Dealt
  <2> QED
        BY <2>1, <2>2, Elements
<1>2. ASSUME NEW i \in Intact PROVE recorded[i].packet \in Dealt'
  <2>1. i \in 1..Len(recorded) /\ recorded[i].chunk \notin lost
        BY DEF Intact
  <2>2. i \in 1..Len(recorded') /\ recorded'[i] = recorded[i]
        BY <2>1, FlushMoves, Elements
  <2>3. i \in Intact'
        BY <1>0, <2>1, <2>2 DEF Intact
  <2> QED
        BY <2>2, <2>3 DEF Dealt
<1> QED
      BY <1>1, <1>2, Places DEF Dealt

\* A packet that is written or buffered stays where it was put, and joins
\* those dealt with.
LEMMA WrittenKeeps ==
    ASSUME TypeInv, WriteDirect PROVE Dealt \subseteq Dealt' /\ queue[1] \in Dealt'
<1>1. /\ Len(recorded') = Len(recorded) + 1 /\ UNCHANGED rec_buffer
      /\ \A i \in 1..Len(recorded) : recorded'[i] = recorded[i]
      /\ recorded'[Len(recorded')].packet = queue[1]
      /\ recorded'[Len(recorded')].chunk = chunk
      BY DEF WriteDirect, Written, TypeOK
<1>2. /\ 1..Len(recorded) \subseteq 1..Len(recorded')
      /\ Len(recorded') \in 1..Len(recorded')
      BY <1>1, Elements
<1>5. UNCHANGED <<lost, chunk>> /\ chunk \notin lost
      BY DEF WriteDirect
<1>6. Intact \subseteq Intact' /\ Len(recorded') \in Intact'
      BY <1>1, <1>2, <1>5 DEF Intact
<1>3. ASSUME NEW i \in Intact PROVE recorded[i].packet \in Dealt'
  <2>1. i \in Intact' /\ recorded'[i] = recorded[i]
        BY <1>1, <1>6 DEF Intact
  <2> QED
        BY <2>1 DEF Dealt
<1>4. queue[1] \in Dealt'
      BY <1>1, <1>6 DEF Dealt
<1> QED
      BY <1>1, <1>3, <1>4 DEF Dealt

LEMMA BufferedKeeps ==
    ASSUME TypeInv, TypeInv', NEW due \in BOOLEAN, Buffer(due)
    PROVE  Dealt \subseteq Dealt' /\ queue[1] \in Dealt'
<1>1. /\ Len(rec_buffer') = Len(rec_buffer) + 1 /\ UNCHANGED <<recorded, lost>>
      /\ \A i \in 1..Len(rec_buffer) : rec_buffer'[i] = rec_buffer[i]
      /\ rec_buffer'[Len(rec_buffer')] = queue[1]
      BY DEF Buffer, Buffered, TypeOK
<1>2. /\ 1..Len(rec_buffer) \subseteq 1..Len(rec_buffer')
      /\ Len(rec_buffer') \in 1..Len(rec_buffer')
      BY <1>1, Elements
<1>3. Range(rec_buffer') = {rec_buffer'[j] : j \in 1..Len(rec_buffer')}
      BY RangeEquality DEF TypeOK
<1>4. \A i \in 1..Len(rec_buffer) : rec_buffer[i] \in Dealt'
      BY <1>1, <1>2, <1>3 DEF Dealt
<1>5. queue[1] \in Dealt'
      BY <1>1, <1>2, <1>3 DEF Dealt
<1> QED
      BY <1>1, <1>4, <1>5, Places DEF Dealt, Intact

\* Popping the head of the queue loses nothing that is not dealt with.
LEMMA PoppedKeeps ==
    ASSUME TypeInv, TypeInv', TakenInv, WithinLimits \/ Rotate
    PROVE  Kept \subseteq Kept'
<1>1. /\ queue' = Tail(queue) /\ UNCHANGED <<rec_buffer, recorded, lost>>
      /\ pc \in {"limits", "close"} /\ queue # <<>>
      BY DEF WithinLimits, Rotate
<1>2. ASSUME NEW i \in 1..Len(queue), i # 1 PROVE queue[i] \in Range(queue')
  <2>1. i - 1 \in 1..Len(queue') /\ queue'[i - 1] = queue[i]
        BY <1>1, <1>2 DEF TypeOK
  <2>2. Range(queue') = {queue'[j] : j \in 1..Len(queue')}
        BY RangeEquality DEF TypeOK
  <2> QED
        BY <2>1, <2>2
<1>3. queue[1] \in Dealt
      BY <1>1 DEF TakenInv
<1> QED
      BY <1>1, <1>2, <1>3, Places DEF Kept, Dealt, Intact

LEMMA PushedKeeps ==
    ASSUME TypeInv, TypeInv', Push
    PROVE  /\ Kept \subseteq Kept' /\ UNCHANGED <<pc, rec_buffer, recorded, lost>>
           /\ queue # <<>> => queue'[1] = queue[1]
<1>1. /\ UNCHANGED <<pc, rec_buffer, recorded, lost>> /\ next \in Nat
      /\ queue' = queue \/ queue' = Append(queue, next)
      BY DEF Push, Pushed, TypeOK
<1>2. Len(queue) <= Len(queue') /\ \A i \in 1..Len(queue) : queue'[i] = queue[i]
  <2>1. queue \in Seq(Nat) /\ next \in Nat
        BY <1>1 DEF TypeOK
  <2>2. CASE queue' = queue
        BY ONLY <2>1, <2>2
  <2>3. CASE queue' = Append(queue, next)
        BY ONLY <2>1, <2>3
  <2> QED
        BY <1>1, <2>2, <2>3
<1>3. Len(queue) \in Nat /\ Len(queue') \in Nat
  <2>1. queue \in Seq(Nat) /\ queue' \in Seq(Nat)
        BY DEF TypeOK
  <2> QED
        BY ONLY <2>1
<1>4. \A i \in 1..Len(queue) : i \in 1..Len(queue')
      BY <1>2, <1>3
<1>5. Range(queue') = {queue'[j] : j \in 1..Len(queue')}
      BY RangeEquality DEF TypeOK
<1>6. Range(queue) \subseteq Range(queue')
      BY <1>2, <1>4, <1>5, Places
<1>7. queue # <<>> => 1 \in 1..Len(queue)
      BY DEF TypeOK
<1> QED
      BY <1>1, <1>2, <1>6, <1>7 DEF Kept, Intact

\* One step: the packet taken stays dealt with until it is popped, and what is
\* kept is kept unless an opening goes over a defined file.
GoesOver == pc = "top" /\ ~output /\ path # 0

LEMMA NextKeeps ==
    TypeInv /\ TypeInv' /\ TakenInv /\ [Next]_vars =>
        TakenInv' /\ (Kept \subseteq Kept' \/ GoesOver)
<1> SUFFICES ASSUME TypeInv, TypeInv', TakenInv, [Next]_vars
             PROVE  TakenInv' /\ (Kept \subseteq Kept' \/ GoesOver)
      OBVIOUS
<1>1. CASE /\ UNCHANGED <<queue, rec_buffer, recorded, lost>>
           /\ pc' \in {"flush", "limits", "rotate", "close"} =>
                pc \in {"flush", "limits", "rotate", "close"}
      BY <1>1 DEF TakenInv, Kept, Dealt, Intact
<1>2. CASE Push
      BY <1>2, PushedKeeps DEF TakenInv, Dealt, Intact
<1>3. CASE OpenFile \/ OpenFails
  <2>1. /\ UNCHANGED <<queue, rec_buffer, recorded>> /\ pc' \in {"lock", "finalize"}
        /\ pc = "top" /\ ~output
        BY <1>3 DEF OpenFile, OpenFails
  <2>2. path = 0 => lost' = lost
        BY <1>3 DEF OpenFile, OpenFails, Truncated
  <2> QED
        BY <2>1, <2>2 DEF TakenInv, Kept, Intact, GoesOver
<1>4. CASE WriteDirect
  <2>1. UNCHANGED queue
        BY <1>4 DEF WriteDirect
  <2> QED
        BY <1>4, <2>1, WrittenKeeps DEF TakenInv, Kept, Dealt, Intact
<1>5. ASSUME NEW due \in BOOLEAN, Buffer(due)
      PROVE  TakenInv' /\ Kept \subseteq Kept'
  <2>1. UNCHANGED queue
        BY <1>5 DEF Buffer
  <2> QED
        BY <1>5, <2>1, BufferedKeeps DEF TakenInv, Kept, Dealt
<1>6. ASSUME NEW k \in 0..Len(rec_buffer), Flush(k)
      PROVE  TakenInv' /\ Kept \subseteq Kept'
  <2>1. UNCHANGED queue /\ pc \in {"flush", "rotate"}
        BY <1>6 DEF Flush
  <2>2. Dealt \subseteq Dealt'
        BY <1>6, FlushKeeps
  <2> QED
        BY <2>1, <2>2 DEF TakenInv, Kept, Dealt
<1>7. CASE WithinLimits \/ Rotate
  <2>1. pc' = "drain"
        BY <1>7 DEF WithinLimits, Rotate
  <2> QED
        BY <1>7, <2>1, PoppedKeeps DEF TakenInv
<1>8. CASE Owner /\ ~Push
      BY <1>1, <1>8
      DEF Owner, Start, Offer, Notified, NotifyPush, Notify, Destroy, Wake, Join,
          Close
<1>9. CASE TimesCrash \/ WriteCrashes \/ FlushCrashes
      BY <1>1, <1>9 DEF TimesCrash, WriteCrashes, FlushCrashes, Crash
<1>10. CASE Top \/ Lock \/ Check \/ Block \/ Drained \/ WakeSpuriously
      BY <1>1, <1>10 DEF Top, Lock, Check, Block, Drained, WakeSpuriously
<1>11. CASE WriteFails \/ LimitReached \/ Finalize \/ Stop
      BY <1>1, <1>11 DEF WriteFails, LimitReached, Finalize, Stop
<1>12. CASE UNCHANGED vars
      BY <1>1, <1>12 DEF vars
<1> QED
      BY <1>2, <1>3, <1>4, <1>5, <1>6, <1>7, <1>8, <1>9, <1>10, <1>11, <1>12
      DEF Next, Worker, Finished

\* No accepted packet vanishes between queue, buffer and files, whatever fails.
THEOREM PacketsAreKept == Spec => NothingVanishes
<1>1. Init => TakenInv
      BY DEF Init, TakenInv
<1>2. TypeInv /\ TypeInv' /\ TakenInv /\ [Next]_vars =>
        [Kept \subseteq Kept' \/ (pc = "top" /\ ~output /\ path # 0)]_vars
      BY NextKeeps DEF GoesOver
<1> QED
      BY <1>1, <1>2, TypeInvHolds, NextKeeps, PTL DEF Spec, NothingVanishes

-----------------------------------------------------------------------------
(***************************************************************************)
(* A log in files.  A step of the recorder moves packets between buffer    *)
(* and queue, which the log does not see, or it is one of the log's.       *)
(***************************************************************************)
\* Cutting and joining sequences.
LEMMA AppendJoined ==
    ASSUME NEW s \in Seq(Nat), NEW t \in Seq(Nat), NEW e \in Nat
    PROVE  s \o Append(t, e) = Append(s \o t, e)
OBVIOUS

LEMMA HeadJoined ==
    ASSUME NEW s \in Seq(Nat), NEW t \in Seq(Nat), t # <<>>
    PROVE  Append(s, Head(t)) \o Tail(t) = s \o t
<1>1. <<Head(t)>> \in Seq(Nat) /\ Tail(t) \in Seq(Nat)
  <2>1. Head(t) \in Nat /\ Tail(t) \in Seq(Nat)
        BY HeadTailProperties
  <2> QED
        BY ONLY <2>1
<1>2. Append(s, Head(t)) = s \o <<Head(t)>>
      BY ONLY <1>1, s \in Seq(Nat), t \in Seq(Nat), t # <<>>
<1>3. t = <<Head(t)>> \o Tail(t)
      BY <1>1
<1>4. (s \o <<Head(t)>>) \o Tail(t) = s \o (<<Head(t)>> \o Tail(t))
      BY <1>1, ConcatAssociative
<1> QED
      BY <1>2, <1>3, <1>4

LEMMA CutJoined ==
    ASSUME NEW s \in Seq(Nat), NEW t \in Seq(Nat), NEW k \in 0..Len(s)
    PROVE  /\ SubSeq(s \o t, 1, k) = SubSeq(s, 1, k)
           /\ SubSeq(s \o t, k + 1, Len(s \o t)) = SubSeq(s, k + 1, Len(s)) \o t
           /\ \A i \in 1..k : (s \o t)[i] = s[i]
           /\ k <= Len(s \o t)
<1> DEFINE line == s \o t
           m == Len(s)
           n == Len(t)
<1>1. /\ line \in Seq(Nat) /\ Len(line) = m + n
      /\ \A i \in 1..m + n : line[i] = IF i <= m THEN s[i] ELSE t[i - m]
      BY ConcatProperties
<1>2. m \in Nat /\ n \in Nat /\ k \in Nat /\ k <= m
      OBVIOUS
<1> HIDE DEF line
<1>3. /\ SubSeq(s, 1, k) \in Seq(Nat) /\ SubSeq(line, 1, k) \in Seq(Nat)
      /\ SubSeq(s, k + 1, m) \in Seq(Nat) /\ SubSeq(line, k + 1, Len(line)) \in Seq(Nat)
  <2>1. k \in 0..Len(line)
        BY <1>1, <1>2
  <2> QED
        BY <1>1, <2>1, CutSequence
<1>4. SubSeq(line, 1, k) = SubSeq(s, 1, k)
  <2>1. Len(SubSeq(line, 1, k)) = k /\ Len(SubSeq(s, 1, k)) = k
        BY <1>1, <1>2
  <2>2. \A i \in 1..k : SubSeq(line, 1, k)[i] = SubSeq(s, 1, k)[i]
        BY <1>1, <1>2
  <2> QED
        BY <1>3, <2>1, <2>2, SeqEqual
<1> DEFINE rest == SubSeq(s, k + 1, m)
<1>5. Len(rest) = m - k /\ \A i \in 1..m - k : rest[i] = s[i + k]
      BY <1>2
<1>6. rest \in Seq(Nat)
      BY <1>3
<1> HIDE DEF rest
<1> DEFINE joined == rest \o t
<1>7. /\ joined \in Seq(Nat) /\ Len(joined) = m - k + n
      /\ \A i \in 1..m - k + n :
            joined[i] = IF i <= m - k THEN rest[i] ELSE t[i - (m - k)]
  <2>1. /\ joined \in Seq(Nat) /\ Len(joined) = Len(rest) + Len(t)
        /\ \A i \in 1..Len(rest) + Len(t) :
              joined[i] = IF i <= Len(rest) THEN rest[i] ELSE t[i - Len(rest)]
        BY <1>6, ConcatProperties
  <2>2. Len(rest) = m - k /\ Len(t) = n
        BY <1>5
  <2> QED
        BY <2>1, <2>2
<1> HIDE DEF joined
<1>8. SubSeq(line, k + 1, Len(line)) = joined
  <2> DEFINE tail == SubSeq(line, k + 1, Len(line))
  <2>1. Len(tail) = m - k + n /\ \A i \in 1..m - k + n : tail[i] = line[i + k]
        BY <1>1, <1>2
  <2>2. tail \in Seq(Nat)
        BY <1>3
  <2> HIDE DEF tail
  <2>3. ASSUME NEW i \in 1..m - k + n PROVE tail[i] = joined[i]
    <3>1. CASE i <= m - k
      <4>1. line[i + k] = s[i + k] /\ i \in 1..m - k
            BY ONLY <1>1, <1>2, <3>1, i \in 1..m - k + n
      <4> QED
            BY <1>5, <1>7, <2>1, <3>1, <4>1
    <3>2. CASE i > m - k
      <4>1. line[i + k] = t[i + k - m] /\ i + k - m = i - (m - k)
            BY <1>1, <1>2, <3>2
      <4> QED
        <5>1. joined[i] = t[i - (m - k)]
              BY <1>2, <1>7, <3>2
        <5>2. tail[i] = line[i + k]
              BY <2>1
        <5>3. line[i + k] = t[i - (m - k)]
              BY <4>1
        <5> QED
              BY ONLY <5>1, <5>2, <5>3
    <3> QED
          BY <1>2, <3>1, <3>2
  <2> QED
        BY <1>7, <2>1, <2>2, <2>3, SeqEqual DEF tail
<1>9. \A i \in 1..k : line[i] = s[i]
      BY <1>1, <1>2
<1> QED
  <2>1. k <= Len(line)
        BY <1>1, <1>2
  <2> QED
        BY <1>4, <1>8, <1>9, <2>1 DEF line, rest, joined

\* While files are written to, the current one has no trailer.
TrailInv == output /\ pc \notin {"stop", "done"} => trailers[chunk] = 0

LEMMA NextTrailInv == TypeInv /\ TrailInv /\ [Next]_vars => TrailInv'
<1> SUFFICES ASSUME TypeInv, TrailInv, [Next]_vars PROVE TrailInv'
      OBVIOUS
<1>1. CASE /\ UNCHANGED <<output, chunk, trailers>>
           /\ pc \in {"stop", "done"} => pc' \in {"stop", "done"}
      BY <1>1 DEF TrailInv
<1>2. CASE OpenFile
  <2>1. chunk \in Nat /\ trailers \in Seq(Nat) /\ Len(trailers) = chunk
        BY DEF TypeOK
  <2>2. chunk' = chunk + 1 /\ trailers' = Append(trailers, 0)
        BY <1>2 DEF OpenFile
  <2>3. trailers'[chunk'] = 0
        BY <2>1, <2>2
  <2> QED
        BY <2>3 DEF TrailInv
<1>3. CASE Rotate \/ Finalize \/ Close
      BY <1>3 DEF Rotate, Closed, Finalize, Close, TrailInv
<1>4. CASE Owner
      BY <1>1, <1>3, <1>4
      DEF Owner, Start, Offer, Push, Notified, NotifyPush, Notify, Destroy, Wake, Join
<1>5. CASE TimesCrash \/ WriteCrashes \/ FlushCrashes
      BY <1>1, <1>5 DEF TimesCrash, WriteCrashes, FlushCrashes, Crash
<1>6. CASE Top \/ OpenFails \/ Lock \/ Check \/ Block \/ Drained \/ WakeSpuriously
      BY <1>1, <1>6
      DEF Top, OpenFails, Lock, Check, Block, Drained, WakeSpuriously
<1>7. CASE WriteDirect \/ WriteFails \/ WithinLimits \/ LimitReached \/ Stop
      BY <1>1, <1>7 DEF WriteDirect, WriteFails, WithinLimits, LimitReached, Stop
<1>8. ASSUME NEW due \in BOOLEAN, Buffer(due) PROVE TrailInv'
      BY <1>1, <1>8 DEF Buffer
<1>9. ASSUME NEW k \in 0..Len(rec_buffer), Flush(k) PROVE TrailInv'
      BY <1>1, <1>9 DEF Flush
<1>10. CASE UNCHANGED vars
      BY <1>1, <1>10 DEF vars
<1> QED
      BY <1>2, <1>3, <1>4, <1>5, <1>6, <1>7, <1>8, <1>9, <1>10
      DEF Next, Worker, Finished

\* How the recorder's state stands for the log's.
SealedFiles == {i \in 1..chunk : trailers[i] > 0}

LEMMA HeldType ==
    ASSUME TypeInv, pc # "crashed"
    PROVE  Waiting \in Seq(Nat) /\ rec_buffer \in Seq(Nat) /\ Held = rec_buffer \o Waiting
BY HeadTailProperties DEF TypeOK, Waiting, Held

\* Steps that neither move a packet nor touch a file.
LEMMA Stutters ==
    ASSUME UNCHANGED <<path, lost, next, queue, rec_buffer, recorded, chunk, trailers>>,
           pc # "crashed", pc' # "crashed",
           pc \in {"flush", "limits", "rotate", "close"} <=>
             pc' \in {"flush", "limits", "rotate", "close"}
    PROVE  UNCHANGED Logged!rvars
BY DEF Logged!rvars, Held, Waiting

\* A push offers: what was held at a drop filled the queue.
LEMMA PushOffers ==
    ASSUME TypeInv, Push, UNCHANGED batched, pc # "crashed"
    PROVE  Logged!Offer
<1>1. mutex = "none" /\ UNCHANGED <<pc, rec_buffer, recorded, chunk, trailers, path, lost>>
      BY DEF Push
<1>2. Waiting = queue /\ Waiting' = queue'
      BY <1>1 DEF TypeOK, Waiting
<1>3. /\ queue \in Seq(Nat) /\ rec_buffer \in Seq(Nat) /\ next \in Nat
      /\ Len(queue) \in Nat /\ Len(rec_buffer) \in Nat
      BY DEF TypeOK
<1>4. Held = rec_buffer \o queue /\ Held' = rec_buffer \o queue'
      BY <1>1, <1>2 DEF Held
<1>5. CASE queue' = Append(queue, next)
      BY <1>1, <1>3, <1>4, <1>5, AppendJoined DEF Push, Logged!Offer
<1>6. CASE queue' = queue /\ ~(Len(queue) < Capacity)
  <2>1. Len(Held) = Len(rec_buffer) + Len(queue)
        BY <1>3, <1>4, ConcatProperties
  <2> QED
        BY <1>1, <1>3, <1>4, <1>6, <2>1 DEF Push, Logged!Offer
<1> QED
      BY <1>5, <1>6 DEF Push, Pushed

\* The tries of an opening destroy what the log says they may.
LEMMA TriesDestroy ==
    ASSUME TypeInv, NEW n \in 0..Formats, NEW m \in 0..Formats,
           lost' = Truncated(n), path' = Removed(m)
    PROVE  Logged!Destroy
<1>1. lost \subseteq lost' /\ lost' \subseteq 1..chunk /\ (lost' # lost => path # 0)
      BY TriedType
<1>2. (path' # 0) \in {path # 0, FALSE}
      BY TriedType
<1> QED
      BY <1>1, <1>2 DEF Logged!Destroy

\* A file is opened, or its opening fails, once all others have their trailers.
LEMMA OpenFileOpens ==
    ASSUME TypeInv, SealInv, OpenFile, UNCHANGED batched
    PROVE  Logged!Open
<1>1. chunk \in Nat /\ trailers \in Seq(Nat) /\ Len(trailers) = chunk
      BY DEF TypeOK
<1>2. /\ chunk' = chunk + 1 /\ trailers' = Append(trailers, 0) /\ ~output
      /\ pc = "top" /\ pc' = "lock" /\ UNCHANGED <<queue, rec_buffer, next, recorded>>
      BY DEF OpenFile
<1>3. \A i \in 1..chunk : trailers[i] > 0
      BY <1>2 DEF SealInv
<1>4. /\ \A i \in 1..chunk : trailers'[i] = trailers[i]
      /\ trailers'[chunk + 1] = 0
      BY <1>1, <1>2
<1>5. SealedFiles = 1..chunk /\ SealedFiles' = 1..chunk
      BY <1>1, <1>2, <1>3, <1>4 DEF SealedFiles
<1>6. Held' = Held
      BY <1>2 DEF Held, Waiting
<1>7. Logged!Destroy
  <2>1. PICK f \in 1..Formats : lost' = Truncated(f) /\ path' = Removed(f - 1)
        BY DEF OpenFile
  <2>2. f \in 0..Formats /\ f - 1 \in 0..Formats
        OBVIOUS
  <2> QED
        BY <2>1, <2>2, TriesDestroy
<1> QED
      BY <1>2, <1>5, <1>6, <1>7 DEF Logged!Open, SealedFiles

LEMMA OpenFailsDestroys ==
    ASSUME TypeInv, SealInv, OpenFails, UNCHANGED batched
    PROVE  Logged!OpenFails
<1>1. /\ ~output /\ pc = "top" /\ pc' = "finalize"
      /\ UNCHANGED <<queue, rec_buffer, next, recorded, chunk, trailers>>
      BY DEF OpenFails
<1>2. 1..chunk \subseteq SealedFiles
      BY <1>1 DEF SealInv, SealedFiles
<1>3. Held' = Held
      BY <1>1 DEF Held, Waiting
<1>4. Logged!Destroy
  <2>1. PICK n \in {0, Formats} : lost' = Truncated(n) /\ path' = Removed(n)
        BY DEF OpenFails
  <2>2. n \in 0..Formats
        OBVIOUS
  <2> QED
        BY <2>1, <2>2, TriesDestroy
<1> QED
      BY <1>1, <1>2, <1>3, <1>4 DEF Logged!OpenFails, SealedFiles

\* A packet that is written is the oldest one held, and its file is open.
LEMMA WriteDirectWrites ==
    ASSUME TypeInv, OrderInv, TrailInv, WriteDirect, UNCHANGED batched
    PROVE  1 \in 1..Len(Held) /\ Logged!Write(1)
<1>1. /\ queue \in Seq(Nat) /\ queue # <<>> /\ Head(queue) = queue[1]
      /\ Len(queue) \in Nat /\ 1 <= Len(queue)
      /\ chunk \in Nat /\ trailers \in Seq(Nat) /\ Len(trailers) = chunk
      BY DEF WriteDirect, TypeOK
<1>2. /\ pc = "drain" /\ pc' = "limits" /\ ~Unwritable(<<Head(queue)>>) /\ chunk > 0
      /\ UNCHANGED <<queue, rec_buffer, next, path, lost, chunk, trailers>>
      /\ rec_buffer = <<>>
      BY DEF WriteDirect, OrderInv
<1>3. Held = queue /\ Held' = Tail(queue)
  <2>1. Waiting = queue /\ Waiting' = Tail(queue) /\ Tail(queue) \in Seq(Nat)
        BY <1>1, <1>2, HeadTailProperties DEF Waiting
  <2>2. Held = <<>> \o queue /\ Held' = <<>> \o Tail(queue)
        BY <1>2, <2>1 DEF Held
  <2> QED
        BY <1>1, <2>1, <2>2, ConcatEmptySeq
<1>4. SubSeq(queue, 2, Len(queue)) = Tail(queue)
      BY <1>1, TailIsSubSeq
<1>5. (chunk > 0 /\ chunk \notin SealedFiles) \/ queue[1] \in Unmapped
  <2>1. CASE output
    <3>1. trailers[chunk] = 0
          BY <1>2, <2>1 DEF TrailInv
    <3> QED
          BY <1>2, <3>1 DEF SealedFiles
  <2>2. CASE ~output
    <3>1. Range(<<Head(queue)>>) = {queue[1]}
          BY <1>1 DEF Range
    <3> QED
          BY <1>2, <2>2, <3>1 DEF Unwritable
  <2> QED
        BY <2>1, <2>2
<1>6. recorded' = recorded \o [i \in 1..1 |-> [chunk |-> chunk, packet |-> queue[i]]]
  <2>1. recorded' = recorded \o [i \in 1..Len(<<Head(queue)>>) |->
                                    [chunk |-> chunk, packet |-> <<Head(queue)>>[i]]]
        BY DEF WriteDirect, Written
  <2>2. Len(<<Head(queue)>>) = 1 /\ \A i \in 1..1 : <<Head(queue)>>[i] = queue[i]
        BY <1>1
  <2> QED
        BY <2>1, <2>2
<1>7. 1 + 1 = 2 /\ 1 \in 1..Len(Held)
      BY <1>1, <1>3
<1>8. Held' = SubSeq(Held, 1 + 1, Len(Held))
      BY <1>3, <1>4, <1>7
<1>9. UNCHANGED <<path, lost, next, chunk>> /\ SealedFiles' = SealedFiles
      BY <1>2 DEF SealedFiles
<1>10. \/ chunk > 0 /\ chunk \notin SealedFiles
       \/ \A i \in 1..1 : Held[i] \in Unmapped
      BY <1>3, <1>5
<1>11. recorded' = recorded \o [i \in 1..1 |-> [chunk |-> chunk, packet |-> Held[i]]]
      BY <1>3, <1>6
<1> QED
      BY <1>2, <1>7, <1>8, <1>9, <1>10, <1>11 DEF Logged!Write, SealedFiles

\* What write_buffer writes are the oldest packets held.
LEMMA FlushWrites ==
    ASSUME TypeInv, TrailInv, NEW k \in 0..Len(rec_buffer), Flush(k), UNCHANGED batched
    PROVE  UNCHANGED Logged!rvars \/ (k \in 1..Len(Held) /\ Logged!Write(k))
<1>1. /\ queue \in Seq(Nat) /\ queue # <<>> /\ Tail(queue) \in Seq(Nat)
      /\ rec_buffer \in Seq(Nat) /\ Len(rec_buffer) \in Nat
      /\ chunk \in Nat /\ chunk > 0 /\ pc # "crashed" /\ pc' # "crashed"
      /\ trailers \in Seq(Nat) /\ Len(trailers) = chunk
      BY HeadTailProperties DEF Flush, TypeOK
<1>2. /\ UNCHANGED <<queue, next, path, lost, chunk, trailers>>
      /\ rec_buffer' = SubSeq(rec_buffer, k + 1, Len(rec_buffer))
      BY DEF Flush, Unflushed
<1>3. Waiting = Tail(queue) /\ Waiting' = Tail(queue)
      BY <1>2 DEF Flush, Waiting
<1>4. /\ Held = rec_buffer \o Tail(queue)
      /\ Held' = SubSeq(rec_buffer, k + 1, Len(rec_buffer)) \o Tail(queue)
      BY <1>1, <1>2, <1>3 DEF Held
<1>5. /\ Held' = SubSeq(Held, k + 1, Len(Held)) /\ k <= Len(Held)
      /\ \A i \in 1..k : Held[i] = rec_buffer[i]
      BY <1>1, <1>4, CutJoined
<1>6. /\ Len(SubSeq(rec_buffer, 1, k)) = k
      /\ \A i \in 1..k : SubSeq(rec_buffer, 1, k)[i] = Held[i]
      BY <1>1, <1>5
<1>7. recorded' = recorded \o [i \in 1..k |-> [chunk |-> chunk, packet |-> Held[i]]]
  <2>1. recorded' = recorded \o [i \in 1..Len(SubSeq(rec_buffer, 1, k)) |->
                      [chunk |-> chunk, packet |-> SubSeq(rec_buffer, 1, k)[i]]]
        BY DEF Flush, Written
  <2> QED
        BY <1>6, <2>1
<1>8. (chunk > 0 /\ chunk \notin SealedFiles) \/ \A i \in 1..k : Held[i] \in Unmapped
  <2>1. CASE output
    <3>1. trailers[chunk] = 0
          BY <2>1 DEF TrailInv, Flush
    <3> QED
          BY <1>1, <3>1 DEF SealedFiles
  <2>2. CASE ~output
    <3>1. Range(SubSeq(rec_buffer, 1, k)) \subseteq Unmapped
          BY <2>2 DEF Flush, Unwritable
    <3>2. SubSeq(rec_buffer, 1, k) \in Seq(Nat)
          BY <1>1, CutSequence
    <3>3. Range(SubSeq(rec_buffer, 1, k)) = {SubSeq(rec_buffer, 1, k)[i] : i \in 1..k}
          BY <1>6, <3>2, RangeEquality
    <3> QED
          BY <1>6, <3>1, <3>3
  <2> QED
        BY <2>1, <2>2
<1>9. UNCHANGED <<path, lost, next, chunk>> /\ SealedFiles' = SealedFiles
      BY <1>2 DEF SealedFiles
<1>10. CASE k = 0
  <2>1. Held' = Held
    <3>1. Held \in Seq(Nat)
          BY <1>1, <1>4, ConcatProperties
    <3>2. SubSeq(Held, 1, Len(Held)) = Held
          BY <3>1, SubSeqFull
    <3> QED
          BY <1>5, <1>10, <3>2
  <2>2. recorded' = recorded
    <3>1. [i \in 1..k |-> [chunk |-> chunk, packet |-> Held[i]]] = <<>>
          BY <1>10
    <3>2. recorded \in Seq([chunk : Nat, packet : Nat])
          BY DEF TypeOK
    <3> QED
          BY <1>7, <3>1, <3>2, ConcatEmptySeq
  <2> QED
        BY <1>1, <1>9, <2>1, <2>2 DEF Logged!rvars, SealedFiles
<1>11. CASE k > 0
  <2>1. k \in 1..Len(Held)
        BY <1>1, <1>4, <1>5, <1>11, ConcatProperties
  <2> QED
        BY <1>1, <1>5, <1>7, <1>8, <1>9, <2>1 DEF Logged!Write, SealedFiles
<1> QED
      BY <1>1, <1>10, <1>11

\* A packet that goes from the queue to the buffer is held before and after.
LEMMA BufferHolds ==
    ASSUME TypeInv, NEW due \in BOOLEAN, Buffer(due), UNCHANGED batched
    PROVE  UNCHANGED Logged!rvars
<1>1. /\ queue \in Seq(Nat) /\ queue # <<>> /\ rec_buffer \in Seq(Nat)
      /\ pc = "drain" /\ pc' \in {"flush", "limits"}
      /\ rec_buffer' = Append(rec_buffer, Head(queue))
      /\ UNCHANGED <<queue, next, path, lost, recorded, chunk, trailers>>
      BY DEF Buffer, Buffered, TypeOK
<1>2. Waiting = queue /\ Waiting' = Tail(queue)
      BY <1>1 DEF Waiting
<1>3. /\ Held = rec_buffer \o queue
      /\ Held' = Append(rec_buffer, Head(queue)) \o Tail(queue)
      BY <1>1, <1>2 DEF Held
<1>4. Held' = Held
      BY <1>1, <1>3, HeadJoined
<1> QED
      BY <1>1, <1>4 DEF Logged!rvars

\* Popping the packet that was dealt with changes nothing that is held.
LEMMA PopHolds ==
    ASSUME pc \in {"limits", "close"}, pc' = "drain", queue' = Tail(queue),
           UNCHANGED rec_buffer
    PROVE  Held' = Held
BY DEF Held, Waiting

LEMMA TrailerSeals ==
    ASSUME TypeInv, output, trailers' = Trailer, UNCHANGED chunk
    PROVE  chunk > 0 /\ SealedFiles' = SealedFiles \cup {chunk}
<1>1. /\ chunk \in Nat /\ chunk > 0 /\ trailers \in Seq(Nat) /\ Len(trailers) = chunk
      BY DEF TypeOK
<1>2. /\ trailers'[chunk] = trailers[chunk] + 1
      /\ \A i \in 1..chunk : i # chunk => trailers'[i] = trailers[i]
      BY <1>1 DEF Trailer
<1>3. \A i \in 1..chunk : trailers[i] \in Nat
      BY <1>1
<1> QED
      BY <1>1, <1>2, <1>3 DEF SealedFiles

\* The end of a file, of the thread or of the recorder seals what is open.
LEMMA EndSeals ==
    ASSUME TypeInv, Rotate \/ Finalize \/ Close, UNCHANGED batched, pc # "crashed"
    PROVE  UNCHANGED Logged!rvars \/ Logged!Seal
<1>1. /\ trailers' = Trailer /\ UNCHANGED <<next, path, lost, recorded, chunk>>
      /\ pc' # "crashed"
      BY DEF Rotate, RotationTrailer, Finalize, Close
<1>2. Held' = Held
  <2>1. CASE Rotate
        BY <2>1, PopHolds DEF Rotate
  <2>2. CASE Finalize \/ Close
    <3>1. UNCHANGED <<queue, rec_buffer>>
          BY <2>2 DEF Finalize, Close
    <3>2. /\ pc \notin {"flush", "limits", "rotate", "close", "crashed"}
          /\ pc' \notin {"flush", "limits", "rotate", "close", "crashed"}
          BY <2>2 DEF Finalize, Close
    <3> QED
          BY <3>1, <3>2 DEF Held, Waiting
  <2> QED
        BY <2>1, <2>2
<1>3. CASE output
      BY <1>1, <1>2, <1>3, TrailerSeals DEF Logged!Seal, SealedFiles
<1>4. CASE ~output
      BY <1>1, <1>2, <1>4 DEF Trailer, Logged!rvars
<1> QED
      BY <1>3, <1>4

LEMMA CrashLoses ==
    ASSUME TimesCrash \/ WriteCrashes \/ FlushCrashes, UNCHANGED batched
    PROVE  Logged!Crash
<1>1. /\ pc # "crashed" /\ pc' = "crashed"
      /\ UNCHANGED <<next, path, lost, recorded, chunk, trailers>>
      BY DEF TimesCrash, WriteCrashes, FlushCrashes, Crash
<1>2. Held' = <<>>
      BY <1>1 DEF Held
<1> QED
      BY <1>1, <1>2 DEF Logged!Crash

\* Every step of the recorder is a step of the log, or none.
LEMMA NextLogs ==
    TypeInv /\ SealInv /\ OrderInv /\ TrailInv /\ [Next]_vars
        => [Logged!Next]_(Logged!rvars)
<1> SUFFICES ASSUME TypeInv, SealInv, OrderInv, TrailInv, [Next]_vars
             PROVE  Logged!Next \/ UNCHANGED Logged!rvars
      OBVIOUS
<1>1. CASE /\ UNCHANGED batched /\ pc # "crashed" /\ pc' # "crashed"
           /\ UNCHANGED <<path, lost, next, queue, rec_buffer, recorded, chunk, trailers>>
           /\ pc \in {"flush", "limits", "rotate", "close"} <=>
                pc' \in {"flush", "limits", "rotate", "close"}
      BY <1>1, Stutters
<1>2. CASE UNCHANGED batched /\ pc # "crashed" /\ Owner
  <2>1. CASE Push
        BY <1>2, <2>1, PushOffers DEF Logged!Next
  <2>2. CASE Close
        BY <1>2, <2>2, EndSeals DEF Logged!Next
  <2>3. CASE ~Push /\ ~Close
        BY <1>1, <1>2, <2>3
        DEF Owner, Start, Offer, Notified, NotifyPush, Notify, Destroy, Wake, Join
  <2> QED
        BY <2>1, <2>2, <2>3
<1>3. CASE UNCHANGED batched /\ pc # "crashed" /\ (OpenFile \/ OpenFails \/ WriteDirect)
      BY <1>3, OpenFileOpens, OpenFailsDestroys, WriteDirectWrites DEF Logged!Next
<1>4. CASE UNCHANGED batched /\ pc # "crashed" /\ (Rotate \/ Finalize)
      BY <1>4, EndSeals DEF Logged!Next
<1>5. CASE UNCHANGED batched /\ (TimesCrash \/ WriteCrashes \/ FlushCrashes)
      BY <1>5, CrashLoses DEF Logged!Next
<1>6. ASSUME NEW due \in BOOLEAN, Buffer(due), UNCHANGED batched
      PROVE  UNCHANGED Logged!rvars
      BY <1>6, BufferHolds
<1>7. ASSUME NEW k \in 0..Len(rec_buffer), Flush(k), UNCHANGED batched
      PROVE  Logged!Next \/ UNCHANGED Logged!rvars
      BY <1>7, FlushWrites DEF Logged!Next
<1>8. CASE UNCHANGED batched /\ WithinLimits
  <2>1. Held' = Held
        BY <1>8, PopHolds DEF WithinLimits
  <2> QED
        BY <1>8, <2>1 DEF WithinLimits, Logged!rvars
<1>9. CASE /\ UNCHANGED batched
           /\ Top \/ Lock \/ Check \/ Block \/ Drained \/ WakeSpuriously
      BY <1>1, <1>9 DEF Top, Lock, Check, Block, Drained, WakeSpuriously
<1>10. CASE UNCHANGED batched /\ (WriteFails \/ LimitReached \/ Stop)
      BY <1>1, <1>10 DEF WriteFails, LimitReached, Stop
<1>11. CASE UNCHANGED vars
      BY <1>11 DEF vars, Logged!rvars, Held, Waiting
<1> QED
      BY <1>2, <1>3, <1>4, <1>5, <1>6, <1>7, <1>8, <1>9, <1>10, <1>11
      DEF Next, Worker, Finished

\* Whatever the thread and the owner do, a recorder is a log in files.
THEOREM RecorderImplementsRecording == Spec => IsRecording
<1>1. Init => Logged!Init /\ TrailInv
  <2> SUFFICES ASSUME Init PROVE Logged!Init /\ TrailInv
        OBVIOUS
  <2>1. Held = <<>> /\ SealedFiles = {}
        BY ConcatEmptySeq DEF Init, Held, Waiting, SealedFiles
  <2> QED
        BY <2>1 DEF Init, Logged!Init, TrailInv, SealedFiles
<1>2. Init => SealInv /\ OrderInv
      BY InitOrderInv DEF Init, SealInv
<1> QED
      BY <1>1, <1>2, TypeInvHolds, NextSealInv, NextOrderInv, NextTrailInv, NextLogs,
         PTL DEF Spec, IsRecording, Logged!Spec
=============================================================================
