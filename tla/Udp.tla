-------------------------------- MODULE Udp --------------------------------
(***************************************************************************)
(* A UDP handle of src/src/unix/udp.cpp: binding, the queues of sends and  *)
(* of completed sends, receiving, and closing from any callback.           *)
(***************************************************************************)
EXTENDS Queue

CONSTANTS
    Sends,         \* the user's send requests
    MaxRecvs       \* datagrams of one uv__udp_recvmsg: 33 in the code

ASSUME UdpAssumption == MaxRecvs \in Nat \ {0}

VARIABLES
    udp,           \* the uv_udp_t and where uv__udp_io stands
    sent           \* sends accepted and not yet called back, oldest first

udpVars == <<udp, sent>>

\* uv_udp_init_ex, with or without a socket.  stray is history: the handle
\* was closed in a callback whose event goes on to send what is waiting.
uv_udp_init(fd) ==
    [fd |-> fd, pevents |-> {}, fed |-> FALSE, active |-> FALSE, recv |-> FALSE,
     wq |-> <<>>, cq |-> <<>>, count |-> 0, processing |-> FALSE, closing |-> FALSE,
     unlinked |-> FALSE, at |-> "loop", cb |-> FALSE, out |-> FALSE, reads |-> 0,
     stray |-> FALSE]

UdpCall == (udp.at = "loop" \/ udp.cb) /\ ~udp.closing

\* uv__io_stop does nothing to a watcher that lost its descriptor.
UdpStop(u, e) ==
    LET v == IF u.fd THEN [u EXCEPT !.pevents = @ \ {e}] ELSE u IN
    IF v.pevents \cap ({"IN", "OUT"} \ {e}) = {} THEN [v EXCEPT !.active = FALSE] ELSE v

----------------------------------------------------------------------------
(* Sending.                                                                *)

\* uv__udp_sendmsg: the first n of the queue are sent or fail; the kernel
\* has no room for the next.  On a closed descriptor they all fail.  The
\* feed is lost on a watcher that uv__io_close took out of the pending queue,
\* because that leaves its links as they were.
uv__udp_sendmsg(u) ==
    {[u EXCEPT !.cq = @ \o SubSeq(u.wq, 1, n), !.fed = @ \/ (n > 0 /\ ~u.unlinked),
               !.wq = SubSeq(@, n + 1, Len(@))] :
        n \in IF u.fd THEN 0..Len(u.wq) ELSE {Len(u.wq)}}

\* uv_udp_bind.  A failure closes the socket, an older one as well: the
\* user does not bind a handle again while its socket is in use.
uv__udp_bind ==
    /\ UdpCall /\ udp.pevents = {} /\ udp.wq = <<>>
    /\ \E ok \in BOOLEAN : udp' = [udp EXCEPT !.fd = ok]
    /\ UNCHANGED sent

\* uv__udp_maybe_deferred_bind, which the calls below begin with.
Bound(u) == [u EXCEPT !.fd = TRUE]

uv__udp_send(r) ==
    /\ UdpCall /\ r \notin Range(sent)
    /\ LET u == [Bound(udp) EXCEPT !.wq = Append(@, r), !.count = @ + 1, !.active = TRUE] IN
       IF udp.count = 0 /\ ~udp.processing
       THEN udp' \in uv__udp_sendmsg(u)
       ELSE udp' = [u EXCEPT !.pevents = @ \cup {"OUT"}]
    /\ sent' = Append(sent, r)

\* uv_udp_try_send and uv_udp_set_membership leave at most a socket behind.
uv__udp_try_send ==
    /\ UdpCall /\ udp.count = 0
    /\ udp' = Bound(udp)
    /\ UNCHANGED sent

----------------------------------------------------------------------------
(* Receiving.                                                              *)

uv__udp_recv_start ==
    /\ UdpCall /\ "IN" \notin udp.pevents
    /\ udp' = [Bound(udp) EXCEPT !.recv = TRUE, !.active = TRUE, !.pevents = @ \cup {"IN"}]
    /\ UNCHANGED sent

uv__udp_recv_stop ==
    /\ UdpCall /\ udp.recv
    /\ udp' = [UdpStop(udp, "IN") EXCEPT !.recv = FALSE]
    /\ UNCHANGED sent

----------------------------------------------------------------------------
(* uv__udp_io, called with what is polled for, or with POLLOUT when fed.   *)

\* A feed is served by the uv__run_pending of the next iteration.  It finds no
\* closing handle: one that was fed after its close was closed while polling,
\* and is finished at the end of the same iteration.
uv__udp_io ==
    /\ udp.at = "loop" /\ ~udp.cb
    /\ \/ /\ udp.fed /\ ~udp.closing
          /\ udp' = [udp EXCEPT !.fed = FALSE, !.out = TRUE, !.at = "send"]
       \/ \E e \in SUBSET udp.pevents :
              /\ e # {} /\ udp.fd
              /\ udp' = [udp EXCEPT !.out = "OUT" \in e, !.reads = MaxRecvs,
                                    !.at = IF "IN" \in e THEN "recv" ELSE "send"]
    /\ UNCHANGED sent

\* A datagram, after which the loop goes on while the callback leaves the
\* handle open and receiving; or no buffer, nothing to read, or an error.
uv__udp_recvmsg ==
    /\ udp.at = "recv" /\ ~udp.cb
    /\ IF udp.reads = 0 \/ ~udp.fd \/ ~udp.recv
       THEN udp' = [udp EXCEPT !.at = "send", !.reads = 0]
       ELSE \/ udp' = [udp EXCEPT !.cb = TRUE, !.reads = @ - 1]
            \/ udp' = [udp EXCEPT !.cb = TRUE, !.reads = 0]
    /\ UNCHANGED sent

SendReady ==
    /\ udp.at = "send" /\ ~udp.cb
    /\ IF udp.out
       THEN \E u \in uv__udp_sendmsg(udp) :
                udp' = [u EXCEPT !.at = "completed", !.processing = TRUE, !.out = FALSE]
       ELSE udp' = [udp EXCEPT !.at = "loop"]
    /\ UNCHANGED sent

\* Mutant: POLLOUT is stopped though callbacks have sent again.
uv__udp_run_completed_stops ==
    /\ udp.at \in {"completed", "finish"} /\ ~udp.cb
    /\ IF udp.cq # <<>>
       THEN /\ udp' = [udp EXCEPT !.cq = Tail(@), !.count = @ - 1, !.cb = TRUE]
            /\ sent' = Unlink(sent, Head(udp.cq))
       ELSE /\ udp' = [UdpStop(udp, "OUT") EXCEPT !.processing = FALSE,
                                !.at = IF udp.at = "finish" THEN "closed" ELSE "loop"]
            /\ UNCHANGED sent

\* The loop of uv__udp_run_completed, and its end.
uv__udp_run_completed ==
    /\ udp.at \in {"completed", "finish"} /\ ~udp.cb
    /\ IF udp.cq # <<>>
       THEN /\ udp' = [udp EXCEPT !.cq = Tail(@), !.count = @ - 1, !.cb = TRUE]
            /\ sent' = Unlink(sent, Head(udp.cq))
       ELSE /\ LET u == IF udp.wq = <<>> THEN UdpStop(udp, "OUT") ELSE udp IN
               udp' = [u EXCEPT !.processing = FALSE,
                                !.at = IF udp.at = "finish" THEN "closed" ELSE "loop"]
            /\ UNCHANGED sent

UdpCallbackReturns ==
    /\ udp.cb
    /\ udp' = [udp EXCEPT !.cb = FALSE]
    /\ UNCHANGED sent

----------------------------------------------------------------------------
(* Closing.                                                                *)

uv__udp_close ==
    /\ UdpCall
    /\ udp' = [udp EXCEPT !.closing = TRUE, !.pevents = {},
                          !.fed = FALSE, !.unlinked = udp.fed,
                          !.active = FALSE, !.fd = FALSE,
                          !.stray = udp.at = "recv" /\ udp.out /\ udp.wq # <<>> /\ ~udp.fed]
    /\ UNCHANGED sent

uv__udp_finish_close ==
    /\ udp.closing /\ udp.at = "loop" /\ ~udp.cb
    /\ udp' = [udp EXCEPT !.cq = @ \o udp.wq, !.wq = <<>>, !.recv = FALSE,
                          !.processing = TRUE, !.at = "finish"]
    /\ UNCHANGED sent

\* uv__run_pending finds a handle that was closed and is still there: it has
\* nothing to send and nothing completed.
FedAfterClose ==
    /\ udp.at = "closed" /\ udp.fed
    /\ udp' = [udp EXCEPT !.fed = FALSE]
    /\ UNCHANGED sent

\* The user has the memory back, and initialises it again.  While the pending
\* queue of the loop still leads to it, what happens then is undefined, as
\* it is when the memory is freed.
UdpReinit ==
    /\ udp.at = "closed"
    /\ IF udp.fed THEN udp' = [udp EXCEPT !.at = "undefined"]
                  ELSE \E fd \in BOOLEAN : udp' = uv_udp_init(fd)
    /\ UNCHANGED sent

UdpInit == udp \in {uv_udp_init(fd) : fd \in BOOLEAN} /\ sent = <<>>

UdpNext ==
    \/ uv__udp_bind \/ uv__udp_try_send \/ \E r \in Sends : uv__udp_send(r)
    \/ uv__udp_recv_start \/ uv__udp_recv_stop
    \/ uv__udp_io \/ uv__udp_recvmsg \/ SendReady \/ uv__udp_run_completed
    \/ UdpCallbackReturns \/ uv__udp_close \/ uv__udp_finish_close
    \/ FedAfterClose \/ UdpReinit

UdpSpec == UdpInit /\ [][UdpNext]_udpVars

----------------------------------------------------------------------------
(* Properties.                                                             *)

\* Sends are called back in the order in which they were accepted, each
\* once, and send_queue_count, which decides between sending now and
\* waiting, counts the ones without a callback: also when a callback sends
\* again while the completed queue is being walked.
SendsInOrder ==
    /\ udp.cq \o udp.wq = sent
    /\ udp.count = Len(sent)
    /\ Distinct(sent)

\* Between events a completed send has its callback coming and keeps the
\* loop alive.  At most one send can be left waiting without an event: one
\* made on an empty queue when the kernel had no room, until the next send
\* turns the polling on.
SendsNotStranded ==
    udp.at = "loop" /\ ~udp.cb /\ ~udp.closing =>
        /\ udp.cq # <<>> => udp.fed
        /\ udp.wq # <<>> /\ ~udp.fed /\ "OUT" \notin udp.pevents => Len(udp.wq) = 1
        /\ udp.pevents # {} => udp.active

\* The assertions of uv__udp_run_completed and uv__udp_finish_close, and
\* what they are for: the handle is processed by one call at a time, a
\* receiving handle has its callback, and nothing of a closed one is polled,
\* fed, owed or counted.  The exception is the stray feed: uv__udp_io goes on
\* to uv__udp_sendmsg after a callback that closed the handle, which feeds it,
\* and the user may free or initialise it again while it is in the pending
\* queue.
UdpAsserts ==
    /\ udp.at \in {"loop", "recv", "send"} => ~udp.processing
    /\ "IN" \in udp.pevents => udp.recv
    /\ udp.closing => udp.pevents = {} /\ ~udp.fd
    /\ udp.closing /\ udp.fed => udp.stray
    /\ udp.at = "undefined" => udp.stray
    /\ udp.at \in {"closed", "undefined"} => sent = <<>> /\ udp.count = 0

\* uv_udp_send: order, count, wakeups and the state of a closed handle.
UdpRight == SendsInOrder /\ SendsNotStranded /\ UdpAsserts
=============================================================================
