--------------------------- MODULE RequestsProofs ---------------------------
(***************************************************************************)
(* The ownership of descriptors for any number of clients, descriptors and  *)
(* requests.                                                               *)
(***************************************************************************)
EXTENDS Requests, SequenceTheorems, TLAPS

\* What waits on a connection and what was made of it are bounded together, and
\* a request is there while it is answered.
QueueInv ==
    /\ \A c \in Clients : Len(inbox[c]) + made[c] <= MaxRequests
    /\ \A c \in Clients :
         hpc \in {"add", "late", "addlate"} \X {c} => inbox[c] # <<>>

\* Who was never connected has no socket, and a viewer that was not made none
\* that making it would overwrite.
FreshInv ==
    /\ \A c \in Clients : peer[c] = "new" => conn[c] = "none"
    /\ \A v \in VIds : v[2] > made[v[1]] => vsock[v] = None

\* The HTTP thread frees what it has closed.
EndInv ==
    \A c \in Clients :
      hpc \in {"late", "addlate", "free"} \X {c} => conn[c] = "closing"

\* Without SSL nobody holds a descriptor but by its socket.
PlainInv ==
    ~https => /\ ~stray
              /\ \A c \in Clients : ssl[c] = None
              /\ \A v \in VIds : vssl[v] = None

Inv == TypeOK /\ QueueInv /\ FreshInv /\ EndInv /\ OneOwner /\ PlainInv

USE RequestsAssumption
    DEF Inv, connection, viewers, server, vars, VIds, Idle, None, Free, Places, Kinds

LEMMA InitInv == Init => Inv
<1> SUFFICES ASSUME Init PROVE Inv
      OBVIOUS
<1>1. TypeOK
  <2>1. {https, initialized, clearing, late, crash, stray} \subseteq BOOLEAN
        BY Zenon DEF Init
  <2>2. \A c \in Clients : inbox[c] = <<>>
        BY DEF Init
  <2>3. inbox \in [Clients -> Seq(Kinds)]
        BY EmptySeq DEF Init
  <2> QED
        BY <2>1, <2>3 DEF Init, TypeOK
<1>2. QueueInv /\ FreshInv
      BY EmptySeq DEF Init, QueueInv, FreshInv
<1>3. EndInv /\ PlainInv
      BY DEF Init, EndInv, PlainInv
<1>4. OneOwner
      BY DEF Init, OneOwner
<1> QED
      BY <1>1, <1>2, <1>3, <1>4

\* The types: what is received is a sequence of requests, what is freed was closed.
LEMMA TypesKept == Inv /\ [Next]_vars => TypeOK'
<1> SUFFICES ASSUME Inv, [Next]_vars PROVE TypeOK'
      OBVIOUS
<1> USE DEF TypeOK, QueueInv
<1>1. ASSUME NEW c \in Clients, Accept(c) PROVE TypeOK'
      BY <1>1 DEF Accept, Polling, FreeFds, Lowest
<1>2. ASSUME NEW c \in Clients, Leave(c) PROVE TypeOK'
      BY <1>2 DEF Leave
<1>3. ASSUME NEW c \in Clients, Receive(c) PROVE TypeOK'
  <2>1. PICK n \in 1..MaxRequests - Len(inbox[c]) - made[c] :
          \E s \in [1..n -> Kinds] :
            inbox' = [inbox EXCEPT ![c] =
                        IF @ = <<>> THEN s ELSE <<"stream">> \o Tail(s)]
        BY <1>3 DEF Receive
  <2>2. PICK s \in [1..n -> Kinds] :
            inbox' = [inbox EXCEPT ![c] =
                        IF @ = <<>> THEN s ELSE <<"stream">> \o Tail(s)]
        BY <2>1
  <2>3. n \in Nat \ {0} /\ s \in Seq(Kinds) /\ s # <<>>
        BY <2>2, SeqDef
  <2>4. <<"stream">> \o Tail(s) \in Seq(Kinds)
        BY <2>3, HeadTailProperties, ConcatProperties
  <2>5. inbox' \in [Clients -> Seq(Kinds)]
        BY <2>2, <2>3, <2>4
  <2> QED
        BY <1>3, <2>5 DEF Receive, Polling, Readable
<1>4. ASSUME NEW c \in Clients, ReceiveEof(c) PROVE TypeOK'
      BY <1>4 DEF ReceiveEof, Polling, Readable, Eof
<1>5. ASSUME NEW c \in Clients, Flush(c) PROVE TypeOK'
  <2>1. reply' \in [Clients -> BOOLEAN]
        BY <1>5, Zenon DEF Flush
  <2>2. flags' \in [Clients -> SUBSET {"send", "now"}]
    <3>1. flags' \in {flags, [flags EXCEPT ![c] = @ \cup {"now"}]}
          BY <1>5, Zenon DEF Flush
    <3>2. flags \in [Clients -> SUBSET {"send", "now"}]
          BY DEF TypeOK
    <3> HIDE DEF TypeOK
    <3> QED
          BY <3>1, <3>2
  <2> QED
        BY <1>5, <2>1, <2>2 DEF Flush
<1>6. ASSUME NEW c \in Clients, Close(c) PROVE TypeOK'
      BY <1>6 DEF Close, Polling, SocketForgotten
<1>7. ASSUME NEW c \in Clients, FreeConn(c) PROVE TypeOK'
  <2>1. inbox' \in [Clients -> Seq(Kinds)]
        BY <1>7, EmptySeq DEF FreeConn
  <2>2. reply' \in [Clients -> BOOLEAN]
        BY <1>7, Zenon DEF FreeConn
  <2>3. conn[c] = "closing"
        BY <1>7 DEF FreeConn, EndInv
  <2> QED
        BY <1>7, <2>1, <2>2, <2>3 DEF FreeConn
<1>8. ASSUME NEW c \in Clients, Handle(c) PROVE TypeOK'
  <2>1. inbox' \in [Clients -> Seq(Kinds)]
    <3>1. inbox[c] # <<>> => Tail(inbox[c]) \in Seq(Kinds)
          BY HeadTailProperties
    <3>2. \/ inbox' = inbox
          \/ inbox[c] # <<>> /\ inbox' = [inbox EXCEPT ![c] = Tail(@)]
          BY <1>8 DEF Handle
    <3> QED
          BY <3>1, <3>2
  <2>2. reply' \in [Clients -> BOOLEAN]
        BY <1>8, Zenon DEF Handle
  <2>3. flags' \in [Clients -> SUBSET {"send", "now"}]
    <3>1. flags' \in {flags, [flags EXCEPT ![c] = @ \cup {"send"}]}
          BY <1>8, Zenon DEF Handle
    <3>2. flags \in [Clients -> SUBSET {"send", "now"}]
          BY DEF TypeOK
    <3> HIDE DEF TypeOK
    <3> QED
          BY <3>1, <3>2
  <2>4. hpc' \in {Idle, hpc, <<"add", c>>}
        BY <1>8 DEF Handle
  <2> QED
        BY <1>8, <2>1, <2>2, <2>3, <2>4 DEF Handle
<1>9. ASSUME NEW c \in Clients, HandleLate(c) PROVE TypeOK'
      BY <1>9 DEF HandleLate
<1>10. ASSUME NEW c \in Clients, Add(c) PROVE TypeOK'
      BY <1>10 DEF Add, Adding, SocketTaken
<1>11. ASSUME NEW c \in Clients, AddToNothing(c) PROVE TypeOK'
      BY <1>11 DEF AddToNothing, Adding
<1>12. ASSUME NEW v \in VIds, Written(v) PROVE TypeOK'
      BY <1>12 DEF Written, Target, Astray
<1>13. ASSUME NEW v \in VIds, WriteFails(v) PROVE TypeOK'
      BY <1>13 DEF WriteFails, Target, Astray, Shut, ShutFailed
<1>14. ASSUME NEW v \in VIds, Drop(v) PROVE TypeOK'
      BY <1>14 DEF Drop, Astray, Shut
<1>15. CASE RemoveSource
      BY <1>15 DEF RemoveSource
<1>16. CASE FreeSource
      BY <1>16 DEF FreeSource, Dropped
<1>17. CASE Destroy
  <2>1. late' \in BOOLEAN
    <3>1. late' \in {late, late \/ (phase = "stopping" /\ ~initialized)}
          BY <1>17 DEF Destroy
    <3>2. late \in BOOLEAN
          BY DEF TypeOK
    <3>3. (late \/ (phase = "stopping" /\ ~initialized)) \in BOOLEAN
          BY ONLY Zenon
    <3> QED
          BY ONLY <3>1, <3>2, <3>3, Zenon
  <2>2. phase' \in {"stopping", "lastpoll", "closing", "sources", "done"}
        BY <1>17 DEF Destroy, AfterPhase
  <2> QED
        BY <1>17, <2>1, <2>2 DEF Destroy, Dropped
<1>18. CASE UNCHANGED vars
      BY <1>18
<1>19. CASE Connected
      BY <1>19 DEF Connected, Polling
<1>20. CASE Restart
      BY <1>20 DEF Restart, Polling
<1>21. CASE Setup
      BY <1>21 DEF Setup
<1> QED
      BY <1>1, <1>2, <1>3, <1>4, <1>5, <1>6, <1>7, <1>8, <1>9, <1>10, <1>11, <1>12,
         <1>13, <1>14, <1>15, <1>16, <1>17, <1>18, <1>19, <1>20, <1>21 DEF Next, Connection

\* The bounds, the viewers not made yet, and the end.
LEMMA BoundsKept == Inv /\ [Next]_vars => (QueueInv /\ FreshInv /\ EndInv)'
<1> SUFFICES ASSUME Inv, [Next]_vars PROVE (QueueInv /\ FreshInv /\ EndInv)'
      OBVIOUS
<1> USE DEF TypeOK, QueueInv, FreshInv, EndInv
<1>1. ASSUME NEW c \in Clients, Accept(c) PROVE (QueueInv /\ FreshInv /\ EndInv)'
      BY <1>1 DEF Accept, Polling, FreeFds, Lowest
<1>2. ASSUME NEW c \in Clients, Leave(c) PROVE (QueueInv /\ FreshInv /\ EndInv)'
      BY <1>2 DEF Leave
<1>3. ASSUME NEW c \in Clients, Receive(c) PROVE (QueueInv /\ FreshInv /\ EndInv)'
      BY <1>3 DEF Receive, Polling, Readable
<1>4. ASSUME NEW c \in Clients, ReceiveEof(c) PROVE (QueueInv /\ FreshInv /\ EndInv)'
      BY <1>4 DEF ReceiveEof, Polling, Readable, Eof
<1>5. ASSUME NEW c \in Clients, Flush(c) PROVE (QueueInv /\ FreshInv /\ EndInv)'
      BY <1>5 DEF Flush, Polling
<1>6. ASSUME NEW c \in Clients, Close(c) PROVE (QueueInv /\ FreshInv /\ EndInv)'
  <2>1. \/ hpc' = <<"late", c>> /\ inbox[c] # <<>>
        \/ hpc' = <<"free", c>>
    <3>1. <<"partial">> # <<>>
          BY Zenon
    <3> QED
          BY <1>6, <3>1 DEF Close
  <2> QED
        BY <1>6, <2>1 DEF Close, Polling, SocketForgotten
<1>7. ASSUME NEW c \in Clients, FreeConn(c) PROVE (QueueInv /\ FreshInv /\ EndInv)'
  <2>1. Len(inbox'[c]) = 0 /\ \A d \in Clients \ {c} : inbox'[d] = inbox[d]
        BY <1>7, EmptySeq DEF FreeConn
  <2>2. QueueInv'
        BY <1>7, <2>1 DEF FreeConn
  <2>3. FreshInv' /\ EndInv'
        BY <1>7 DEF FreeConn
  <2> QED
        BY <2>2, <2>3
<1>8. ASSUME NEW c \in Clients, Handle(c) PROVE (QueueInv /\ FreshInv /\ EndInv)'
  <2>1. inbox[c] # <<>> => Len(Tail(inbox[c])) = Len(inbox[c]) - 1 /\ Len(inbox[c]) \in Nat
        BY HeadTailProperties, LenProperties
  <2>2. \/ inbox' = inbox
        \/ inbox[c] # <<>> /\ inbox' = [inbox EXCEPT ![c] = Tail(@)]
        BY <1>8 DEF Handle
  <2>3. \A d \in Clients : Len(inbox'[d]) + made[d] <= MaxRequests
    <3>1. CASE inbox' = inbox
          BY <3>1
    <3>2. CASE inbox[c] # <<>> /\ inbox' = [inbox EXCEPT ![c] = Tail(@)]
      <4>1. Len(inbox'[c]) = Len(inbox[c]) - 1 /\ made[c] \in Nat
            BY <2>1, <3>2
      <4>2. \A d \in Clients \ {c} : inbox'[d] = inbox[d]
            BY <3>2
      <4>3. Len(inbox'[c]) + made[c] <= MaxRequests
        <5>1. Len(inbox[c]) \in Nat /\ Len(inbox[c]) + made[c] <= MaxRequests
              BY <2>1, <3>2
        <5> HIDE DEF Inv
        <5> QED
              BY <4>1, <5>1
      <4> QED
            BY <4>2, <4>3
    <3> QED
          BY <2>2, <3>1, <3>2
  <2>4. \/ hpc' = Idle
        \/ hpc' = <<"add", c>> /\ inbox[c] # <<>> /\ inbox' = inbox
        \/ hpc' = <<"handle", c>>
        BY <1>8 DEF Handle
  <2>5. QueueInv'
        BY <1>8, <2>3, <2>4 DEF Handle
  <2>6. FreshInv' /\ EndInv'
        BY <1>8, <2>4 DEF Handle
  <2> QED
        BY <2>5, <2>6
<1>9. ASSUME NEW c \in Clients, HandleLate(c) PROVE (QueueInv /\ FreshInv /\ EndInv)'
      BY <1>9 DEF HandleLate
<1>10. ASSUME NEW c \in Clients, Add(c) PROVE (QueueInv /\ FreshInv /\ EndInv)'
      BY <1>10 DEF Add, Adding, SocketTaken
<1>11. ASSUME NEW c \in Clients, AddToNothing(c) PROVE (QueueInv /\ FreshInv /\ EndInv)'
      BY <1>11 DEF AddToNothing, Adding
<1>12. ASSUME NEW v \in VIds, Written(v) PROVE (QueueInv /\ FreshInv /\ EndInv)'
      BY <1>12 DEF Written, Target, Astray
<1>13. ASSUME NEW v \in VIds, WriteFails(v) PROVE (QueueInv /\ FreshInv /\ EndInv)'
      BY <1>13 DEF WriteFails, Target, Astray, Shut, ShutFailed
<1>14. ASSUME NEW v \in VIds, Drop(v) PROVE (QueueInv /\ FreshInv /\ EndInv)'
      BY <1>14 DEF Drop, Astray, Shut
<1>15. CASE RemoveSource
      BY <1>15 DEF RemoveSource
<1>16. CASE FreeSource
      BY <1>16 DEF FreeSource, Dropped
<1>17. CASE Destroy
      BY <1>17 DEF Destroy, Dropped, AfterPhase
<1>18. CASE UNCHANGED vars
      BY <1>18
<1>19. CASE Connected
      BY <1>19 DEF Connected, Polling
<1>20. CASE Restart
      BY <1>20 DEF Restart, Polling
<1>21. CASE Setup
      BY <1>21 DEF Setup
<1> QED
      BY <1>1, <1>2, <1>3, <1>4, <1>5, <1>6, <1>7, <1>8, <1>9, <1>10, <1>11, <1>12,
         <1>13, <1>14, <1>15, <1>16, <1>17, <1>18, <1>19, <1>20, <1>21 DEF Next, Connection

\* The owners: a descriptor is given out when nobody has it, changes hands with
\* its number, and is closed by the one who has it.
LEMMA OwnersKept == Inv /\ [Next]_vars => OneOwner'
<1> SUFFICES ASSUME Inv, [Next]_vars PROVE OneOwner'
      OBVIOUS
<1> USE DEF TypeOK, QueueInv, FreshInv, OneOwner
<1>1. ASSUME NEW c \in Clients, Accept(c) PROVE OneOwner'
  <2>1. PICK f \in Fds : /\ Lowest(f)
                         /\ fd' = [fd EXCEPT ![f] = c]
                         /\ sock' = [sock EXCEPT ![c] = f]
        BY <1>1 DEF Accept
  <2>2. fd[f] = Free /\ sock[c] = None /\ f # None
        BY <1>1, <2>1 DEF Accept, Lowest, FreeFds
  <2>3. /\ \A d \in Clients : sock[d] # f
        /\ \A v \in VIds : v[1] \in Clients /\ vsock[v] # f
    <3>1. \A v \in VIds : v[1] \in Clients
          OBVIOUS
    <3>2. ASSUME NEW d \in Clients PROVE sock[d] # f
      <4>1. sock[d] # None => fd[sock[d]] = d
            OBVIOUS
      <4> QED
            BY <2>2, <4>1
    <3> QED
          BY <2>2, <3>1, <3>2
  <2> QED
        BY <1>1, <2>1, <2>2, <2>3 DEF Accept
<1>2. ASSUME NEW c \in Clients, Leave(c) PROVE OneOwner'
      BY <1>2 DEF Leave
<1>3. ASSUME NEW c \in Clients, Receive(c) PROVE OneOwner'
      BY <1>3 DEF Receive, Polling, Readable
<1>4. ASSUME NEW c \in Clients, ReceiveEof(c) PROVE OneOwner'
      BY <1>4 DEF ReceiveEof, Polling, Readable, Eof
<1>5. ASSUME NEW c \in Clients, Flush(c) PROVE OneOwner'
      BY <1>5 DEF Flush, Polling
<1>6. ASSUME NEW c \in Clients, Close(c) PROVE OneOwner'
      BY <1>6 DEF Close, Polling, SocketForgotten
<1>7. ASSUME NEW c \in Clients, FreeConn(c) PROVE OneOwner'
      BY <1>7 DEF FreeConn
<1>8. ASSUME NEW c \in Clients, Handle(c) PROVE OneOwner'
      BY <1>8 DEF Handle
<1>9. ASSUME NEW c \in Clients, HandleLate(c) PROVE OneOwner'
      BY <1>9 DEF HandleLate
<1>10. ASSUME NEW c \in Clients, Add(c) PROVE OneOwner'
  <2> DEFINE v == <<c, made[c] + 1>>
  <2>1. Len(inbox[c]) \in Nat \ {0}
        BY <1>10, EmptySeq, LenProperties DEF Add, Adding
  <2>2. made[c] + 1 \in 1..MaxRequests
        BY <2>1
  <2>3. v \in VIds /\ v[1] = c /\ v[2] > made[c]
        BY <2>2
  <2>4. fd' = fd /\ sock' = [sock EXCEPT ![c] = None]
        /\ vsock' = [vsock EXCEPT ![v] = sock[c]]
        BY <1>10 DEF Add, SocketTaken
  <2> HIDE DEF v
  <2>5. vsock[v] = None
        BY <2>3
  <2> QED
        BY <2>3, <2>4, <2>5
<1>11. ASSUME NEW c \in Clients, AddToNothing(c) PROVE OneOwner'
      BY <1>11 DEF AddToNothing, Adding
<1>12. ASSUME NEW v \in VIds, Written(v) PROVE OneOwner'
      BY <1>12 DEF Written, Target, Astray
<1>13. ASSUME NEW v \in VIds, WriteFails(v) PROVE OneOwner'
  <2>1. vsock' = [vsock EXCEPT ![v] = None] /\ sock' = sock
        /\ fd' = IF vsock[v] = None THEN fd ELSE [fd EXCEPT ![vsock[v]] = Free]
        BY <1>13 DEF WriteFails, Shut, ShutFailed
  <2>2. CASE vsock[v] = None
        BY <2>1, <2>2
  <2>3. CASE vsock[v] # None
    <3>1. /\ \A d \in Clients : sock[d] # vsock[v]
          /\ \A u \in VIds \ {v} : vsock[u] # vsock[v]
          BY <2>3
    <3>2. \A d \in Clients : sock[d] # None => fd'[sock[d]] = fd[sock[d]]
          BY <2>1, <2>3, <3>1
    <3>3. \A u \in VIds \ {v} : vsock'[u] = vsock[u]
                                /\ (vsock[u] # None => fd'[vsock[u]] = fd[vsock[u]])
          BY <2>1, <2>3, <3>1
    <3>4. vsock'[v] = None /\ fd'[vsock[v]] = Free
          BY <2>1, <2>3
    <3>5. \A f \in Fds \ {vsock[v]} : fd'[f] = fd[f]
          BY <2>1, <2>3
    <3>6. /\ \A d \in Clients : sock'[d] # None =>
               fd'[sock'[d]] = d /\ \A u \in VIds : vsock'[u] # sock'[d]
          /\ \A u \in VIds : vsock'[u] # None =>
               fd'[vsock'[u]] = u[1] /\ \A w \in VIds \ {u} : vsock'[w] # vsock'[u]
          BY <2>1, <3>2, <3>3, <3>4
    <3>7. \A f \in Fds : fd'[f] \in Clients =>
            \/ sock'[fd'[f]] = f
            \/ \E u \in VIds : u[1] = fd'[f] /\ vsock'[u] = f
      <4> SUFFICES ASSUME NEW f \in Fds, fd'[f] \in Clients
                   PROVE  \/ sock'[fd'[f]] = f
                          \/ \E u \in VIds : u[1] = fd'[f] /\ vsock'[u] = f
            OBVIOUS
      <4>1. f # vsock[v] /\ fd'[f] = fd[f]
            BY <3>4, <3>5
      <4>2. \/ sock[fd[f]] = f
            \/ \E u \in VIds : u[1] = fd[f] /\ vsock[u] = f
            BY <4>1
      <4> QED
            BY <2>1, <3>3, <4>1, <4>2
    <3> QED
          BY <3>6, <3>7
  <2> QED
        BY <2>2, <2>3
<1>14. ASSUME NEW v \in VIds, Drop(v) PROVE OneOwner'
  <2>1. vsock' = [vsock EXCEPT ![v] = None] /\ sock' = sock
        /\ fd' = IF vsock[v] = None THEN fd ELSE [fd EXCEPT ![vsock[v]] = Free]
        BY <1>14 DEF Drop, Shut
  <2>2. CASE vsock[v] = None
        BY <2>1, <2>2
  <2>3. CASE vsock[v] # None
    <3>1. /\ \A d \in Clients : sock[d] # vsock[v]
          /\ \A u \in VIds \ {v} : vsock[u] # vsock[v]
          BY <2>3
    <3>2. \A d \in Clients : sock[d] # None => fd'[sock[d]] = fd[sock[d]]
          BY <2>1, <2>3, <3>1
    <3>3. \A u \in VIds \ {v} : vsock'[u] = vsock[u]
                                /\ (vsock[u] # None => fd'[vsock[u]] = fd[vsock[u]])
          BY <2>1, <2>3, <3>1
    <3>4. vsock'[v] = None /\ fd'[vsock[v]] = Free
          BY <2>1, <2>3
    <3>5. \A f \in Fds \ {vsock[v]} : fd'[f] = fd[f]
          BY <2>1, <2>3
    <3>6. /\ \A d \in Clients : sock'[d] # None =>
               fd'[sock'[d]] = d /\ \A u \in VIds : vsock'[u] # sock'[d]
          /\ \A u \in VIds : vsock'[u] # None =>
               fd'[vsock'[u]] = u[1] /\ \A w \in VIds \ {u} : vsock'[w] # vsock'[u]
          BY <2>1, <3>2, <3>3, <3>4
    <3>7. \A f \in Fds : fd'[f] \in Clients =>
            \/ sock'[fd'[f]] = f
            \/ \E u \in VIds : u[1] = fd'[f] /\ vsock'[u] = f
      <4> SUFFICES ASSUME NEW f \in Fds, fd'[f] \in Clients
                   PROVE  \/ sock'[fd'[f]] = f
                          \/ \E u \in VIds : u[1] = fd'[f] /\ vsock'[u] = f
            OBVIOUS
      <4>1. f # vsock[v] /\ fd'[f] = fd[f]
            BY <3>4, <3>5
      <4>2. \/ sock[fd[f]] = f
            \/ \E u \in VIds : u[1] = fd[f] /\ vsock[u] = f
            BY <4>1
      <4> QED
            BY <2>1, <3>3, <4>1, <4>2
    <3> QED
          BY <3>6, <3>7
  <2> QED
        BY <2>2, <2>3
<1>15. CASE RemoveSource
      BY <1>15 DEF RemoveSource
<1>16. CASE FreeSource
      BY <1>16 DEF FreeSource, Dropped
<1>17. CASE Destroy
      BY <1>17 DEF Destroy, Dropped, AfterPhase
<1>18. CASE UNCHANGED vars
      BY <1>18
<1>19. CASE Connected
      BY <1>19 DEF Connected, Polling
<1>20. CASE Restart
      BY <1>20 DEF Restart, Polling
<1>21. CASE Setup
      BY <1>21 DEF Setup
<1> QED
      BY <1>1, <1>2, <1>3, <1>4, <1>5, <1>6, <1>7, <1>8, <1>9, <1>10, <1>11, <1>12,
         <1>13, <1>14, <1>15, <1>16, <1>17, <1>18, <1>19, <1>20, <1>21 DEF Next, Connection

\* Without SSL: what a viewer uses is its socket, and that is its own.
LEMMA PlainKept == Inv /\ [Next]_vars => PlainInv'
<1> SUFFICES ASSUME Inv, [Next]_vars PROVE PlainInv'
      OBVIOUS
<1> USE DEF TypeOK, OneOwner, PlainInv
<1>1. ASSUME NEW c \in Clients, Accept(c) PROVE PlainInv'
      BY <1>1 DEF Accept, Polling, FreeFds, Lowest
<1>2. ASSUME NEW c \in Clients, Leave(c) PROVE PlainInv'
      BY <1>2 DEF Leave
<1>3. ASSUME NEW c \in Clients, Receive(c) PROVE PlainInv'
      BY <1>3 DEF Receive, Polling, Readable
<1>4. ASSUME NEW c \in Clients, ReceiveEof(c) PROVE PlainInv'
      BY <1>4 DEF ReceiveEof, Polling, Readable, Eof
<1>5. ASSUME NEW c \in Clients, Flush(c) PROVE PlainInv'
      BY <1>5 DEF Flush, Polling
<1>6. ASSUME NEW c \in Clients, Close(c) PROVE PlainInv'
      BY <1>6 DEF Close, Polling, SocketForgotten
<1>7. ASSUME NEW c \in Clients, FreeConn(c) PROVE PlainInv'
      BY <1>7 DEF FreeConn
<1>8. ASSUME NEW c \in Clients, Handle(c) PROVE PlainInv'
      BY <1>8 DEF Handle
<1>9. ASSUME NEW c \in Clients, HandleLate(c) PROVE PlainInv'
      BY <1>9 DEF HandleLate
<1>10. ASSUME NEW c \in Clients, Add(c) PROVE PlainInv'
      BY <1>10 DEF Add, Adding, SocketTaken
<1>11. ASSUME NEW c \in Clients, AddToNothing(c) PROVE PlainInv'
      BY <1>11 DEF AddToNothing, Adding
<1>12. ASSUME NEW v \in VIds, Written(v) PROVE PlainInv'
      BY <1>12 DEF Written, Target, Astray
<1>13. ASSUME NEW v \in VIds, WriteFails(v) PROVE PlainInv'
      BY <1>13 DEF WriteFails, Target, Astray, Shut, ShutFailed
<1>14. ASSUME NEW v \in VIds, Drop(v) PROVE PlainInv'
      BY <1>14 DEF Drop, Astray, Shut
<1>15. CASE RemoveSource
      BY <1>15 DEF RemoveSource
<1>16. CASE FreeSource
      BY <1>16 DEF FreeSource, Dropped
<1>17. CASE Destroy
      BY <1>17 DEF Destroy, Dropped, AfterPhase
<1>18. CASE UNCHANGED vars
      BY <1>18
<1>19. CASE Connected
      BY <1>19 DEF Connected, Polling
<1>20. CASE Restart
      BY <1>20 DEF Restart, Polling
<1>21. CASE Setup
      BY <1>21 DEF Setup
<1> QED
      BY <1>1, <1>2, <1>3, <1>4, <1>5, <1>6, <1>7, <1>8, <1>9, <1>10, <1>11, <1>12,
         <1>13, <1>14, <1>15, <1>16, <1>17, <1>18, <1>19, <1>20, <1>21 DEF Next, Connection

LEMMA InvHolds == Spec => []Inv
BY InitInv, TypesKept, BoundsKept, OwnersKept, PlainKept, PTL DEF Spec

\* The types of the connections, the viewers and the threads, for any number.
THEOREM TypeCorrect == Spec => []TypeOK
BY InvHolds, PTL

\* A descriptor always has exactly one owner, for any number of clients and of
\* requests on a connection.
THEOREM DescriptorsOwned == Spec => []OneOwner
BY InvHolds, PTL

\* Without SSL nobody uses a descriptor that has become somebody else's.
THEOREM PlainKeepsToItself == Spec => []OwnDescriptors
<1>1. Inv => OwnDescriptors
      BY DEF PlainInv, OwnDescriptors
<1> QED
      BY <1>1, InvHolds, PTL
=============================================================================
