------------------------------- MODULE Server -------------------------------
(***************************************************************************)
(* The descriptors a stream takes in: connections accepted by a listening  *)
(* TCP socket or pipe (uv__server_io), descriptors received over an ipc    *)
(* pipe (uv__stream_recv_cmsg), and uv_accept, which hands them on.        *)
(***************************************************************************)
EXTENDS Queue

CONSTANTS
    Fds,      \* descriptor numbers the kernel can hand out
    Chunk     \* descriptors by which the queue grows: 8 in the code

ASSUME ServerAssumption == IsFiniteSet(Fds) /\ Fds \subseteq Nat /\ Chunk \in Nat \ {0}

VARIABLES
    server,   \* the uv_stream_t and where uv__server_io stands
    emfile,   \* whether the loop holds its spare descriptor
    open,     \* descriptors handed to the process and not closed
    clients,  \* descriptors uv_accept passed to other handles
    arrived   \* pending descriptors in the order of their arrival

serverVars == <<server, emfile, open, clients, arrived>>

NoFd == -1

\* uv_tcp_init and uv_pipe_init; an ipc pipe is already connected.
NewServer(kind) ==
    [kind |-> kind, fd |-> kind = "ipc", fname |-> FALSE, delayed |-> FALSE,
     polling |-> FALSE, active |-> FALSE, listening |-> FALSE, closing |-> FALSE,
     accepted |-> NoFd, queued |-> <<>>, room |-> 0, msg |-> <<>>,
     at |-> "loop", cb |-> FALSE, late |-> FALSE]

\* User code runs: between events, or in a callback.
UserRuns == server.at = "loop" \/ server.cb
ServerCall == UserRuns /\ ~server.closing
Still(v) == UNCHANGED v
CloseAll(ds) == open' = open \ ds

----------------------------------------------------------------------------
(* Binding and listening.                                                  *)

\* An address in use is reported by the call that needs the address.
uv__tcp_bind ==
    /\ ServerCall /\ server.kind = "tcp" /\ ~server.listening
    /\ \E inuse \in BOOLEAN : server' = [server EXCEPT !.fd = TRUE, !.delayed = inuse]
    /\ Still(<<emfile, open, clients, arrived>>)

uv_pipe_bind ==
    /\ ServerCall /\ server.kind = "pipe" /\ ~server.fd
    /\ server' = [server EXCEPT !.fd = TRUE, !.fname = TRUE]
    /\ Still(<<emfile, open, clients, arrived>>)

\* uv_tcp_listen makes a socket when there is none, uv_pipe_listen does not.
uv_listen ==
    /\ ServerCall /\ ~server.listening /\ server.kind # "ipc"
    /\ IF server.kind = "tcp" THEN ~server.delayed ELSE server.fd
    /\ \/ server' = [server EXCEPT !.fd = TRUE]                      \* listen(2) failed
       \/ server' = [server EXCEPT !.fd = TRUE, !.listening = TRUE,
                                   !.polling = TRUE, !.active = TRUE]
    /\ Still(<<emfile, open, clients, arrived>>)

----------------------------------------------------------------------------
(* Taking descriptors in.                                                  *)

uv__server_io ==
    /\ server.at = "loop" /\ ~server.cb /\ server.listening /\ server.polling
    /\ server' = [server EXCEPT !.at = "accept"]
    /\ Still(<<emfile, open, clients, arrived>>)

\* A turn of the accept loop.  accept(2) may have nothing, fail, find no
\* free descriptor or return one.
uv__accept ==
    /\ server.at = "accept" /\ ~server.cb
    /\ \/ /\ server' = [server EXCEPT !.at = "loop"]                 \* closed, or EAGAIN
          /\ Still(<<open, arrived>>)
       \/ /\ server.fd
          /\ server' = [server EXCEPT !.cb = TRUE]                   \* an error
          /\ Still(<<open, arrived>>)
       \/ /\ server.fd
          /\ \E d \in Fds \ open :
                /\ server' = [server EXCEPT !.accepted = d, !.at = "accepted", !.cb = TRUE]
                /\ open' = open \cup {d}
                /\ arrived' = Append(arrived, d)
    /\ Still(<<emfile, clients>>)

\* Out of descriptors: without the spare one the error is reported; with it
\* the waiting connections are taken and closed, and a new spare is opened
\* if another thread has not taken its place.
uv__emfile_trick ==
    /\ server.at = "accept" /\ ~server.cb /\ server.fd /\ emfile
    /\ emfile' \in BOOLEAN
    /\ \/ server' = [server EXCEPT !.at = "loop"]                    \* EAGAIN
       \/ server' = [server EXCEPT !.cb = TRUE]
    /\ Still(<<open, clients, arrived>>)

\* After connection_cb: a connection not accepted stops the polling.
ConnectionTaken ==
    /\ server.at = "accepted" /\ ~server.cb
    /\ server' = IF server.accepted = NoFd THEN [server EXCEPT !.at = "accept"]
                 ELSE [server EXCEPT !.at = "loop", !.polling = FALSE]
    /\ Still(<<emfile, open, clients, arrived>>)

\* uv__stream_queue_fd has to allocate: there is no array, or it is full.
Grows(s) == s.queued = <<>> \/ Len(s.queued) = s.room

uv__stream_queue_fd(s, d) ==
    [s EXCEPT !.queued = Append(@, d),
              !.room = IF s.queued = <<>> THEN Chunk
                       ELSE IF Len(s.queued) = @ THEN @ + Chunk ELSE @]

Take(s, d) ==
    IF s.accepted = NoFd THEN [s EXCEPT !.accepted = d] ELSE uv__stream_queue_fd(s, d)

\* The orders in which a message can hold descriptors new to the process.
Arrivals == {ds \in UNION {[1..n -> Fds \ open] : n \in 0..Cardinality(Fds)} : Distinct(ds)}

\* recvmsg(2) has opened every descriptor of the message.
uv__recvmsg ==
    /\ server.kind = "ipc" /\ server.at = "loop" /\ ~server.cb /\ server.polling
    /\ \E ds \in Arrivals :
         /\ server' = [server EXCEPT !.msg = ds, !.at = "cmsg"]
         /\ open' = open \cup Range(ds)
    /\ Still(<<emfile, clients, arrived>>)

\* The loop over the message: the next descriptor is taken; or, when the
\* queue cannot grow, the rest is closed and the error reported.
uv__stream_recv_cmsg ==
    /\ server.at = "cmsg" /\ ~server.cb
    /\ \/ /\ server.msg = <<>>
          /\ server' = [server EXCEPT !.at = "loop", !.cb = TRUE]
          /\ Still(<<open, arrived>>)
       \/ /\ server.msg # <<>>
          /\ server' = [Take(server, Head(server.msg)) EXCEPT !.msg = Tail(@)]
          /\ arrived' = Append(arrived, Head(server.msg))
          /\ Still(open)
       \/ /\ server.msg # <<>> /\ server.accepted # NoFd /\ Grows(server)
          /\ server' = [server EXCEPT !.msg = <<>>, !.at = "loop", !.cb = TRUE]
          /\ CloseAll(Range(server.msg))
          /\ Still(arrived)
    /\ Still(<<emfile, clients>>)

\* uv_read_start and uv_read_stop of the ipc pipe.
ReadIpc ==
    /\ ServerCall /\ server.kind = "ipc"
    /\ server' = [server EXCEPT !.polling = ~@, !.active = ~server.polling]
    /\ Still(<<emfile, open, clients, arrived>>)

----------------------------------------------------------------------------
(* Handing them on.                                                        *)

\* Mutant: an accepted connection does not turn the polling on again.
uv_accept_idle(ok) ==
    /\ ServerCall /\ server.accepted # NoFd
    /\ IF ok THEN clients' = clients \cup {server.accepted} /\ open' = open
             ELSE clients' = clients /\ CloseAll({server.accepted})
    /\ server' = IF server.queued # <<>>
                 THEN [server EXCEPT !.accepted = Head(server.queued), !.queued = Tail(@)]
                 ELSE [server EXCEPT !.accepted = NoFd]
    /\ arrived' = Tail(arrived)
    /\ Still(emfile)

\* A client that cannot take the descriptor costs it: it is closed.  In both
\* cases the next queued one moves up; with none left a success polls again.
uv_accept(ok) ==
    /\ ServerCall /\ server.accepted # NoFd
    /\ IF ok THEN clients' = clients \cup {server.accepted} /\ open' = open
             ELSE clients' = clients /\ CloseAll({server.accepted})
    /\ server' = IF server.queued # <<>>
                 THEN [server EXCEPT !.accepted = Head(server.queued), !.queued = Tail(@)]
                 ELSE [server EXCEPT !.accepted = NoFd, !.polling = @ \/ ok,
                                     !.late = ~ok /\ server.at = "loop"]
    /\ arrived' = Tail(arrived)
    /\ Still(emfile)

CloseClient(d) ==
    /\ UserRuns /\ d \in clients
    /\ clients' = clients \ {d} /\ CloseAll({d})
    /\ Still(<<server, emfile, arrived>>)

\* uv__pipe_close unlinks the name, uv__stream_close closes every
\* descriptor the stream still holds.
uv__server_close ==
    /\ ServerCall
    /\ server' = [server EXCEPT !.closing = TRUE, !.fd = FALSE, !.polling = FALSE,
                    !.active = FALSE, !.fname = FALSE, !.accepted = NoFd, !.queued = <<>>,
                    !.room = 0, !.late = FALSE]
    /\ CloseAll({server.accepted} \cup Range(server.queued))
    /\ arrived' = <<>>
    /\ Still(<<emfile, clients>>)

ConnectionCbReturns ==
    /\ server.cb
    /\ server' = [server EXCEPT !.cb = FALSE]
    /\ Still(<<emfile, open, clients, arrived>>)

\* The close callback initializes another stream, whose uv__stream_init
\* opens the spare descriptor when the loop has none.
ServerReinit ==
    /\ server.closing /\ server.at = "loop" /\ ~server.cb
    /\ \E kind \in {"tcp", "pipe", "ipc"} : server' = NewServer(kind)
    /\ emfile' = TRUE
    /\ Still(<<open, clients, arrived>>)

\* Only an ipc pipe has pending handles: for the connection that a listening
\* one has accepted the count is 0.
uv_pipe_pending_count ==
    IF server.kind # "ipc" \/ server.accepted = NoFd THEN 0 ELSE Len(server.queued) + 1

ServerInit ==
    /\ server \in {NewServer(kind) : kind \in {"tcp", "pipe", "ipc"}}
    /\ emfile = TRUE /\ open = {} /\ clients = {} /\ arrived = <<>>

ServerNext ==
    \/ uv__tcp_bind \/ uv_pipe_bind \/ uv_listen
    \/ uv__server_io \/ uv__accept \/ uv__emfile_trick \/ ConnectionTaken
    \/ uv__recvmsg \/ uv__stream_recv_cmsg \/ ReadIpc
    \/ \E ok \in BOOLEAN : uv_accept(ok)
    \/ \E d \in Fds : CloseClient(d)
    \/ uv__server_close \/ ConnectionCbReturns \/ ServerReinit

ServerSpec == ServerInit /\ [][ServerNext]_serverVars

----------------------------------------------------------------------------
(* Properties.                                                             *)

\* No descriptor leaks and none is closed twice: each one handed to the
\* process and still open has exactly one owner, the message it came in, the
\* stream that has yet to hand it on or the handle that accepted it.
DescriptorsOwned ==
    /\ open = clients \cup Range(arrived \o server.msg)
    /\ clients \cap Range(arrived \o server.msg) = {}
    /\ Distinct(arrived \o server.msg)

\* Descriptors are handed on in the order of their arrival, and the pending
\* count of an ipc pipe tells how many there are.
HandedOnInOrder ==
    /\ arrived = (IF server.accepted = NoFd THEN <<>> ELSE <<server.accepted>>)
                     \o server.queued
    /\ server.kind = "ipc" => uv_pipe_pending_count = Len(arrived)
    /\ Len(server.queued) <= server.room

\* A listening server with no connection to hand on polls for the next one:
\* it stalls only when uv_accept failed outside connection_cb.  While it has
\* one it does not poll, and the assertion of uv__server_io holds.
ServerNotStalled ==
    server.listening /\ ~server.closing =>
        /\ server.at = "loop" /\ ~server.late =>
               (server.polling <=> server.accepted = NoFd)
        /\ server.at = "accept" => server.accepted = NoFd

\* uv_accept gets every connection and every descriptor passed over a pipe,
\* once and in order, and the server goes on accepting.
ServerRight == DescriptorsOwned /\ HandedOnInOrder /\ ServerNotStalled
=============================================================================
