------------------------------ MODULE Requests ------------------------------
(***************************************************************************)
(* The life of a client's connection: accepted and read by mongoose        *)
(* (server/mongoose.c), answered by http_callback (http_server.cpp) and    *)
(* make_stream (streamer_data.hpp), its descriptor taken over by a viewer  *)
(* (viewer_data.cpp), which writes to it and closes it, while sources are   *)
(* removed and the streamer is destroyed.                                  *)
(*                                                                         *)
(* Three kinds of threads: the HTTP thread (hpc), the application (phase), *)
(* and the threads of viewers and sources, which write and drop viewers.   *)
(* There is one source: what matters of the others is that a request may   *)
(* name one that is not there.                                             *)
(*                                                                         *)
(* A worker that leaves its loop before an https server has ever connected *)
(* to itself is followed by another, which frees the manager of the first; *)
(* so ~streamer may find no worker to join, and its own freeing and the    *)
(* next worker's take turns here.  What two threads do to one manager at   *)
(* once, and to one that is freed, is the crash of module HttpServer.      *)
(***************************************************************************)
EXTENDS Integers, Sequences, FiniteSets

CONSTANTS
    Clients,    \* bound: connections that are made
    Fds,        \* bound: descriptors the process may have
    MaxRequests \* bound: requests on one connection

ASSUME RequestsAssumption ==
    /\ Fds \subseteq Nat
    /\ MaxRequests \in Nat \ {0}
    /\ "free" \notin Clients

None == -1          \* InvalidSocket
Free == "free"      \* a descriptor nobody has open
VIds == Clients \X (1..MaxRequests)

\* A GET of /stream with the right session; a request that is refused, for its
\* session, source, method or path; and a GET of /stream whose body is not
\* there yet.
Kinds == {"stream", "refused", "partial"}

VARIABLES
    https,
    initialized, \* http_server::impl::initialized, which restarts nothing
    clearing,    \* a new worker frees the manager of the last
    late,        \* ~impl has passed its join, and a worker comes after that
    fd,      \* the kernel's table: whose connection a descriptor is
    peer,    \* the client's end: "new", "open", "closed"
    conn,    \* the mg_connection: "none", "open", "closing", "gone"
    sock,    \* mg_connection::sock
    ssl,     \* the descriptor under mg_connection::ssl_if_data
    flags,   \* mg_connection::flags: "send" and "now" (.._AND_CLOSE, .._IMMEDIATELY)
    inbox,   \* requests in recv_mbuf
    reply,   \* send_mbuf is not empty
    made,    \* viewers made of a connection
    viewer,  \* "none", "served", "failed", "gone"
    vsock,   \* viewer_data::write_sock
    vssl,    \* the descriptor under viewer_data::ssl_ctx
    hpc,     \* what the HTTP thread does, and for whom
    source,  \* "there", "removed" from the map, "freed"; "destroyed" with the map
    phase,   \* the application
    crash, stray \* the source was used after its end; another's descriptor was

connection == <<conn, sock, ssl, flags, inbox, reply>>
viewers == <<made, viewer, vsock, vssl>>
server == <<https, initialized, clearing, late>>
vars == <<server, fd, peer, connection, viewers, hpc, source, phase, crash, stray>>

Idle == <<"poll", "nobody">>

Init ==
    /\ https \in BOOLEAN /\ initialized \in BOOLEAN
    /\ clearing = FALSE /\ late = FALSE
    /\ fd = [f \in Fds |-> Free]
    /\ peer = [c \in Clients |-> "new"]
    /\ conn = [c \in Clients |-> "none"]
    /\ sock = [c \in Clients |-> None] /\ ssl = [c \in Clients |-> None]
    /\ flags = [c \in Clients |-> {}]
    /\ inbox = [c \in Clients |-> <<>>]
    /\ reply = [c \in Clients |-> FALSE]
    /\ made = [c \in Clients |-> 0]
    /\ viewer = [v \in VIds |-> "none"]
    /\ vsock = [v \in VIds |-> None] /\ vssl = [v \in VIds |-> None]
    /\ hpc = Idle /\ source = "there" /\ phase = "running"
    /\ crash = FALSE /\ stray = FALSE

-----------------------------------------------------------------------------
(* Descriptors.                                                            *)

FreeFds == {f \in Fds : fd[f] = Free}
Lowest(f) == f \in FreeFds /\ \A g \in FreeFds : f <= g

\* Client c's descriptor is used by its number after it was closed.
Astray(f, c) == f # None /\ fd[f] \notin {c, Free}

-----------------------------------------------------------------------------
(* The HTTP thread's poll: mongoose.  The last poll is the application's,  *)
(* or a worker's that comes after it.                                      *)

Polling ==
    /\ hpc = Idle /\ ~clearing
    /\ phase \in {"running", "stopping", "lastpoll"} \/ late

Accept(c) ==
    /\ Polling /\ peer[c] = "new"
    /\ peer' = [peer EXCEPT ![c] = "open"]
    /\ conn' = [conn EXCEPT ![c] = "open"]
    /\ \E f \in Fds :
         /\ Lowest(f)
         /\ fd' = [fd EXCEPT ![f] = c]
         /\ sock' = [sock EXCEPT ![c] = f]
         /\ ssl' = [ssl EXCEPT ![c] = IF https THEN f ELSE None]
    /\ UNCHANGED <<server, flags, inbox, reply, viewers, hpc, source, phase,
                   crash, stray>>

\* The client's end is closed, at any moment.
Leave(c) ==
    /\ peer[c] = "open"
    /\ peer' = [peer EXCEPT ![c] = "closed"]
    /\ UNCHANGED <<server, fd, connection, viewers, hpc, source, phase, crash,
                   stray>>

Readable(c) ==
    /\ Polling /\ conn[c] = "open" /\ sock[c] # None
    /\ "now" \notin flags[c] /\ ~("send" \in flags[c] /\ ~reply[c])

\* Some requests arrive in one piece, the last of them perhaps without its body.
Receive(c) ==
    /\ Readable(c)
    /\ \E n \in 1..MaxRequests - Len(inbox[c]) - made[c] :
         \E s \in [1..n -> Kinds] :
           /\ \A i \in 1..n - 1 : s[i] # "partial"
           /\ inbox' = [inbox EXCEPT ![c] =
                          IF @ = <<>> THEN s ELSE <<"stream">> \o Tail(s)]
    /\ hpc' = <<"handle", c>>
    /\ UNCHANGED <<server, fd, peer, conn, sock, ssl, flags, reply, viewers,
                   source, phase, crash, stray>>

EofIgnored == {} \* mutation: recv() = 0 is no event
Eof == {"send", "now"}

\* The end of the input, or an error.
ReceiveEof(c) ==
    /\ Readable(c) /\ peer[c] = "closed"
    /\ \E flag \in Eof : flags' = [flags EXCEPT ![c] = @ \cup {flag}]
    /\ UNCHANGED <<server, fd, peer, conn, sock, ssl, inbox, reply, viewers,
                   hpc, source, phase, crash, stray>>

\* The reply is sent, or sending fails.
Flush(c) ==
    /\ Polling /\ conn[c] = "open" /\ reply[c] /\ "now" \notin flags[c]
    /\ \/ reply' = [reply EXCEPT ![c] = FALSE] /\ UNCHANGED flags
       \/ flags' = [flags EXCEPT ![c] = @ \cup {"now"}] /\ UNCHANGED reply
    /\ UNCHANGED <<server, fd, peer, conn, sock, ssl, inbox, viewers, hpc,
                   source, phase, crash, stray>>

SocketKept(c) == sock \* mutation: the connection keeps its closed socket
SocketForgotten(c) == [sock EXCEPT ![c] = None]

\* mg_if_poll finds a flag, or mg_mgr_free closes what is left.  A request that
\* waits for its body is delivered before the connection is freed.
Close(c) ==
    /\ conn[c] = "open"
    /\ \/ Polling /\ ("now" \in flags[c] \/ ("send" \in flags[c] /\ ~reply[c]))
       \/ (phase = "closing" \/ clearing) /\ hpc = Idle
    /\ fd' = IF sock[c] = None THEN fd ELSE [fd EXCEPT ![sock[c]] = Free]
    /\ sock' = SocketForgotten(c)
    /\ conn' = [conn EXCEPT ![c] = "closing"]
    /\ flags' = [flags EXCEPT ![c] = @ \cup {"now"}]
    /\ hpc' = <<IF inbox[c] = <<"partial">> THEN "late" ELSE "free", c>>
    /\ UNCHANGED <<server, peer, ssl, inbox, reply, viewers, source, phase,
                   crash, stray>>

\* mg_destroy_conn.
FreeConn(c) ==
    /\ hpc = <<"free", c>>
    /\ conn' = [conn EXCEPT ![c] = "gone"]
    /\ ssl' = [ssl EXCEPT ![c] = None]
    /\ inbox' = [inbox EXCEPT ![c] = <<>>]
    /\ reply' = [reply EXCEPT ![c] = FALSE]
    /\ hpc' = Idle
    /\ UNCHANGED <<server, fd, peer, sock, flags, viewers, source, phase,
                   crash, stray>>

\* connect_handler: an https server has connected to itself.
Connected ==
    /\ Polling /\ https /\ ~initialized
    /\ initialized' = TRUE
    /\ UNCHANGED <<https, clearing, late, fd, peer, connection, viewers, hpc,
                   source, phase, crash, stray>>

\* A worker leaves its loop, the streamer being destroyed or its own test having
\* failed, and the one after it begins with the manager of the first, whose
\* last poll is behind it.
Restart ==
    /\ Polling /\ ~initialized
    /\ https \/ phase = "stopping" \/ late
    /\ clearing' = TRUE
    /\ UNCHANGED <<https, initialized, late, fd, peer, connection, viewers,
                   hpc, source, phase, crash, stray>>

AllClosed == \A c \in Clients : conn[c] # "open"

\* The old connections are gone, and a new manager listens.
Setup ==
    /\ clearing /\ hpc = Idle /\ AllClosed
    /\ clearing' = FALSE
    /\ UNCHANGED <<https, initialized, late, fd, peer, connection, viewers,
                   hpc, source, phase, crash, stray>>

-----------------------------------------------------------------------------
(* The HTTP thread in http_callback and make_stream.                       *)

\* The requests that are there are handled one after the other, whatever
\* flags the first one left behind.  A refusal comes with an error, or without
\* a word for another method or path.
Handle(c) ==
    /\ hpc = <<"handle", c>>
    /\ \/ /\ inbox[c] \in {<<>>, <<"partial">>}
          /\ hpc' = Idle
          /\ UNCHANGED <<reply, flags, inbox>>
       \/ /\ inbox[c] # <<>> /\ Head(inbox[c]) = "stream" /\ source = "there"
          /\ hpc' = <<"add", c>>
          /\ UNCHANGED <<reply, flags, inbox>>
       \/ /\ inbox[c] # <<>> /\ Head(inbox[c]) # "partial"
          /\ Head(inbox[c]) = "stream" => source # "there"
          /\ \E r \in {TRUE, Head(inbox[c]) = "stream"} :
               reply' = [reply EXCEPT ![c] = @ \/ r]
          /\ flags' = [flags EXCEPT ![c] = @ \cup {"send"}]
          /\ inbox' = [inbox EXCEPT ![c] = Tail(@)]
          /\ UNCHANGED hpc
    /\ UNCHANGED <<server, fd, peer, conn, sock, ssl, viewers, source, phase,
                   crash, stray>>

\* The same for a request that is delivered late.
HandleLate(c) ==
    /\ hpc = <<"late", c>>
    /\ hpc' = <<IF source = "there" THEN "addlate" ELSE "free", c>>
    /\ UNCHANGED <<server, fd, peer, connection, viewers, source, phase, crash,
                   stray>>

SocketShared(c) == sock \* mutation: connection->sock = InvalidSocket is missing
SocketTaken(c) == [sock EXCEPT ![c] = None]

\* source::add_viewer and viewer_data::init_io: the source is the one that was
\* looked up; socket and SSL change hands.
Adding(c) == hpc \in {<<"add", c>>, <<"addlate", c>>}

Add(c) ==
    /\ Adding(c) /\ source = "there"
    /\ LET v == <<c, made[c] + 1>> IN
       /\ viewer' = [viewer EXCEPT ![v] = "served"]
       /\ vsock' = [vsock EXCEPT ![v] = sock[c]]
       /\ vssl' = [vssl EXCEPT ![v] = ssl[c]]
    /\ made' = [made EXCEPT ![c] = @ + 1]
    /\ sock' = SocketTaken(c)
    /\ ssl' = [ssl EXCEPT ![c] = None]
    /\ flags' = [flags EXCEPT ![c] = @ \cup {"now"}]
    /\ inbox' = [inbox EXCEPT ![c] = Tail(@)]
    /\ hpc' = <<IF hpc[1] = "add" THEN "handle" ELSE "free", c>>
    /\ UNCHANGED <<server, fd, peer, conn, reply, source, phase, crash, stray>>

AddToNothing(c) ==
    /\ Adding(c) /\ source # "there"
    /\ crash' = TRUE
    /\ UNCHANGED <<server, fd, peer, connection, viewers, hpc, source, phase,
                   stray>>

-----------------------------------------------------------------------------
(* Viewers: their threads write, their source drops them.                  *)

\* close_socket by viewer v; its number may be somebody else's by now.
Shut(v) ==
    /\ fd' = IF vsock[v] = None THEN fd ELSE [fd EXCEPT ![vsock[v]] = Free]
    /\ vsock' = [vsock EXCEPT ![v] = None]

ShutUnmarked(v) == \* mutation: close_socket() leaves the number
    /\ fd' = IF vsock[v] = None THEN fd ELSE [fd EXCEPT ![vsock[v]] = Free]
    /\ UNCHANGED vsock
ShutFailed(v) == Shut(v)

\* The descriptor a viewer writes to: the socket, or what its SSL was made for.
Target(v) == IF https THEN vssl[v] ELSE vsock[v]

Written(v) ==
    /\ viewer[v] = "served" /\ Target(v) # None /\ fd[Target(v)] # Free
    /\ stray' = (stray \/ Astray(Target(v), v[1]))
    /\ UNCHANGED <<server, fd, peer, connection, viewers, hpc, source, phase,
                   crash>>

\* write_callback: a failure closes the socket, and ends the viewer.
WriteFails(v) ==
    /\ viewer[v] = "served"
    /\ viewer' = [viewer EXCEPT ![v] = "failed"]
    /\ ShutFailed(v)
    /\ stray' = (stray \/ Astray(Target(v), v[1]) \/ Astray(vsock[v], v[1]))
    /\ UNCHANGED <<server, peer, connection, made, vssl, hpc, source, phase,
                   crash>>

\* ~viewer_data: SSL_shutdown, close_socket, SSL_free.  The source drops
\* viewers that failed, and all of them when its session or its life ends.
Drop(v) ==
    /\ viewer[v] \in {"served", "failed"}
    /\ viewer' = [viewer EXCEPT ![v] = "gone"]
    /\ Shut(v)
    /\ vssl' = [vssl EXCEPT ![v] = None]
    /\ stray' = (stray \/ Astray(vssl[v], v[1]) \/ Astray(vsock[v], v[1]))
    /\ UNCHANGED <<server, peer, connection, made, hpc, source, phase, crash>>

-----------------------------------------------------------------------------
(* The application.                                                        *)

Dropped == \A v \in VIds : viewer[v] \in {"none", "gone"}

\* streamer::remove_source: out of the map, then destroyed with its viewers.
RemoveSource ==
    /\ phase = "running" /\ source = "there"
    /\ source' = "removed"
    /\ UNCHANGED <<server, fd, peer, connection, viewers, hpc, phase, crash,
                   stray>>

FreeSource ==
    /\ source = "removed" /\ Dropped
    /\ source' = "freed"
    /\ UNCHANGED <<server, fd, peer, connection, viewers, hpc, phase, crash,
                   stray>>

\* ~streamer: the flag, the join, the last poll, the connections, and after
\* the server, a member of the derived class, the sources of its base.
AfterPhase ==
    [running |-> "stopping", stopping |-> "lastpoll", lastpoll |-> "closing",
     closing |-> "sources", sources |-> "done"]

\* The join waits for a worker, unless it falls between a restarter's join and
\* its start of the next one.
Destroy ==
    /\ phase \in DOMAIN AfterPhase
    /\ phase = "running" => source # "removed"
    /\ phase # "running" => late \/ (hpc = Idle /\ ~clearing)
    /\ phase = "closing" => AllClosed
    /\ phase = "sources" => Dropped
    /\ phase' = AfterPhase[phase]
    /\ late' \in {late, late \/ (phase = "stopping" /\ ~initialized)}
    /\ source' = IF phase = "sources" THEN "destroyed" ELSE source
    /\ UNCHANGED <<https, initialized, clearing, fd, peer, connection, viewers,
                   hpc, crash, stray>>

-----------------------------------------------------------------------------
(* The specification.                                                      *)

Connection(c) ==
    \/ Accept(c) \/ Receive(c) \/ ReceiveEof(c) \/ Flush(c) \/ Close(c)
    \/ FreeConn(c) \/ Handle(c) \/ HandleLate(c) \/ Add(c) \/ AddToNothing(c)

Next ==
    \/ \E c \in Clients : Connection(c) \/ Leave(c)
    \/ \E v \in VIds : Written(v) \/ WriteFails(v) \/ Drop(v)
    \/ Connected \/ Restart \/ Setup
    \/ RemoveSource \/ FreeSource \/ Destroy

\* A poll visits every connection; the handlers return; a write to a client
\* that left fails in the end, and the source notices.  The destructor, once
\* called, goes on, and a worker that frees a manager gets through.  After a
\* crash the HTTP thread stays where it is.
Fairness ==
    /\ \A c \in Clients :
         /\ SF_vars(ReceiveEof(c)) /\ SF_vars(Flush(c))
         /\ SF_vars(Close(c))
         /\ WF_vars(FreeConn(c) \/ Handle(c) \/ HandleLate(c) \/ Add(c) \/ AddToNothing(c))
    /\ \A v \in VIds :
         /\ WF_vars(peer[v[1]] = "closed" /\ WriteFails(v))
         /\ WF_vars(viewer[v] = "failed" /\ Drop(v))
    /\ SF_vars(phase # "running" /\ Destroy)
    /\ SF_vars(Setup)

Spec == Init /\ [][Next]_vars /\ Fairness

-----------------------------------------------------------------------------
(* What holds.                                                             *)

Places == {"handle", "add", "late", "addlate", "free"}

TypeOK ==
    /\ {https, initialized, clearing, late, crash, stray} \subseteq BOOLEAN
    /\ fd \in [Fds -> Clients \cup {Free}]
    /\ peer \in [Clients -> {"new", "open", "closed"}]
    /\ conn \in [Clients -> {"none", "open", "closing", "gone"}]
    /\ sock \in [Clients -> Fds \cup {None}] /\ ssl \in [Clients -> Fds \cup {None}]
    /\ flags \in [Clients -> SUBSET {"send", "now"}]
    /\ inbox \in [Clients -> Seq(Kinds)] /\ reply \in [Clients -> BOOLEAN]
    /\ made \in [Clients -> 0..MaxRequests]
    /\ viewer \in [VIds -> {"none", "served", "failed", "gone"}]
    /\ vsock \in [VIds -> Fds \cup {None}] /\ vssl \in [VIds -> Fds \cup {None}]
    /\ hpc \in {Idle} \cup Places \X Clients
    /\ source \in {"there", "removed", "freed", "destroyed"}
    /\ phase \in {"running", "stopping", "lastpoll", "closing", "sources", "done"}
    /\ \A c \in Clients : conn[c] # "open" => sock[c] = None

\* A client's descriptor has one owner, the connection or one viewer, at every
\* moment of the hand-over and however many requests come in one piece: who
\* closes it closes its own, only once, and none is left behind.
OneOwner ==
    /\ \A c \in Clients : sock[c] # None =>
         fd[sock[c]] = c /\ \A v \in VIds : vsock[v] # sock[c]
    /\ \A v \in VIds : vsock[v] # None =>
         fd[vsock[v]] = v[1] /\ \A u \in VIds \ {v} : vsock[u] # vsock[v]
    /\ \A f \in Fds : fd[f] \in Clients =>
         \/ sock[fd[f]] = f
         \/ \E v \in VIds : v[1] = fd[f] /\ vsock[v] = f

\* Without SSL nobody ever writes to, shuts down or closes a number that
\* belongs to somebody else by now.  With SSL it happens: the SSL outlives
\* write_callback's close, and the connection's.
OwnDescriptors == stray => https

\* A client that leaves gets its descriptor back to the process, whatever was
\* under way: a reply, a request without its body, a viewer, a restart of the
\* server, a destruction.
Released ==
    \A c \in Clients :
      peer[c] = "closed" ~> crash \/ \A f \in Fds : fd[f] # c
=============================================================================
