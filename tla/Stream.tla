------------------------------- MODULE Stream -------------------------------
(***************************************************************************)
(* A stream of src/src/unix/stream.cpp as a TCP socket, a pipe or a TTY    *)
(* uses it: opening and connecting, reading, the write queue, shutdown and *)
(* closing.  The handlers are operators from stream to stream, or to the   *)
(* set of streams the kernel's answers can leave behind.  Every callback   *)
(* is a place (cb = TRUE) where the user may make any call; when it        *)
(* returns the loop goes on at step `at'.                                  *)
(***************************************************************************)
EXTENDS Queue

CONSTANTS
    Writes,      \* the user's write requests
    TryReq,      \* the request on the stack of uv_try_write
    MaxSize,     \* bound: most bytes of one write
    MaxReads,    \* reads of one uv__read: 32 in the code
    MaxLeaks,    \* bound: failed allocations of uv_write2
    RestartsAtEof \* whether an EOF callback may call uv_read_start

ASSUME StreamAssumption ==
    /\ TryReq \notin Writes
    /\ MaxSize \in Nat /\ MaxLeaks \in Nat /\ MaxReads \in Nat \ {0}
    /\ RestartsAtEof \in BOOLEAN

VARIABLES
    stream,      \* the uv_stream_t and where uv__stream_io stands
    issued,      \* writes accepted and not yet called back, oldest first
    wants,       \* whether the user's last word was uv_read_start
    leaked       \* requests uv_write2 registered and then refused

streamVars == <<stream, issued, wants, leaked>>

Has(s, f) == f \in s.flags
Set(s, f) == [s EXCEPT !.flags = @ \cup {f}]
Clear(s, f) == [s EXCEPT !.flags = @ \ {f}]

----------------------------------------------------------------------------
(* The I/O watcher and the handle's part in keeping the loop alive.        *)

io_start(s, e) == [s EXCEPT !.pevents = @ \cup e]
io_stop(s, e) == [s EXCEPT !.pevents = @ \ e]
io_feed(s) == [s EXCEPT !.fed = TRUE]
handle_stop(s) == [s EXCEPT !.active = FALSE]
stop_unless(s, e) == IF e \in s.pevents THEN s ELSE handle_stop(s)

\* The stream as uv_tcp_init, uv_pipe_init and uv_tty_init leave it.
uv__stream_init ==
    [fd |-> FALSE, connect |-> "none", shutdown |-> "none", flags |-> {},
     wq |-> <<>>, cq |-> <<>>, size |-> 0,
     left |-> [r \in Writes \cup {TryReq} |-> 0],
     bufs |-> [r \in Writes \cup {TryReq} |-> FALSE],
     pevents |-> {}, fed |-> FALSE, active |-> FALSE, reqs |-> 0,
     at |-> "loop", cb |-> FALSE, events |-> {}, count |-> 0, failed |-> FALSE]

\* uv_tcp_open and uv_pipe_open; uv_tty_init with its fallback to blocking
\* writes when the terminal cannot be reopened.
uv__stream_open(s, fl) == [s EXCEPT !.fd = TRUE, !.flags = @ \cup fl]

----------------------------------------------------------------------------
(* The write queue.                                                        *)

\* A request leaves the write queue for the completed one.  Its buffers are
\* kept when it failed: write_queue_size is put right in the callbacks.
uv__write_req_finish(s, error) ==
    LET r == Head(s.wq) IN
    io_feed([s EXCEPT !.wq = Tail(@), !.cq = Append(@, r), !.bufs[r] = error])

\* The head of the queue is written; the next request waits for the next
\* event.  A blocking stream writes until it is done or has failed.
uv__write(s) ==
    IF s.wq = <<>> THEN {s}
    ELSE LET r == Head(s.wq)
             wrote(k) == [s EXCEPT !.left[r] = @ - k, !.size = @ - k]
         IN  { stop_unless(io_stop(uv__write_req_finish(wrote(k), TRUE), {"OUT"}), "IN") :
                   k \in IF Has(s, "BLOCKING") /\ s.left[r] > 0
                         THEN 0..(s.left[r] - 1) ELSE {0} }
             \cup {uv__write_req_finish(wrote(s.left[r]), FALSE)}
             \cup { io_start(wrote(k), {"OUT"}) :
                   k \in IF Has(s, "BLOCKING") THEN {} ELSE 0..(s.left[r] - 1) }

uv__stream_flush_write_queue(s) == [s EXCEPT !.cq = @ \o s.wq, !.wq = <<>>]

\* Mutant: what a failed write did not write stays in write_queue_size.
PopCompletedUncounted(s) ==
    LET r == Head(s.cq) IN
    [s EXCEPT !.cq = Tail(@), !.reqs = @ - 1, !.cb = TRUE, !.bufs[r] = FALSE, !.left[r] = 0]

\* One turn of uv__write_callbacks: the request is unregistered and what it
\* did not write comes off the queue size; then its callback runs.
PopCompleted(s) ==
    LET r == Head(s.cq) IN
    [s EXCEPT !.cq = Tail(@), !.reqs = @ - 1, !.cb = TRUE,
              !.size = IF s.bufs[r] THEN @ - s.left[r] ELSE @,
              !.bufs[r] = FALSE, !.left[r] = 0]

\* uv_write2 once the request has its buffers.  It asserts that a blocking
\* stream has nothing queued.
Submit(s, r, n) ==
    LET t == [s EXCEPT !.reqs = @ + 1, !.wq = Append(@, r), !.size = @ + n,
                       !.left[r] = n, !.bufs[r] = TRUE]
    IN  IF s.connect # "none" THEN {t}
        ELSE IF s.size = 0 THEN uv__write(t)
        ELSE IF Has(s, "BLOCKING") THEN {[t EXCEPT !.at = "abort", !.cb = FALSE]}
        ELSE {io_start(t, {"OUT"})}

\* uv_try_write once the write was tried: the request is taken out of
\* whichever queue it is in.
Unqueue(s, had) ==
    LET t == [s EXCEPT !.wq = Unlink(@, TryReq), !.cq = Unlink(@, TryReq),
                       !.reqs = @ - 1, !.left[TryReq] = 0, !.bufs[TryReq] = FALSE,
                       !.size = IF s.bufs[TryReq] THEN @ - s.left[TryReq] ELSE @]
    IN  IF had THEN t ELSE io_stop(t, {"OUT"})

----------------------------------------------------------------------------
(* Calls the user makes, from the loop or from a callback.                 *)

IsClosing == Has(stream, "CLOSING")
MayCall == (stream.at = "loop" \/ stream.cb) /\ ~IsClosing
\* The user writes to a stream that is connected or connecting.
MayWrite == stream.fd /\ (Has(stream, "CONNECTED") \/ stream.connect # "none")
\* It connects, again after a failure, from the loop or a connect callback.
MayConnect ==
    /\ MayCall /\ stream.at \in {"loop", "connected"}
    /\ stream.connect = "none" /\ ~Has(stream, "CONNECTED")
Keep(v) == UNCHANGED v

Open ==
    /\ MayCall /\ ~stream.fd /\ stream.connect = "none"
    /\ \E fl \in {{"WRITABLE", "CONNECTED"}, {"WRITABLE", "CONNECTED", "BLOCKING"}} :
           stream' = uv__stream_open(stream, fl)
    /\ Keep(<<issued, wants, leaked>>)

\* uv__tcp_connect: a refused connection is reported on the next tick, any
\* other failure is returned and leaves the new socket open.
uv__tcp_connect ==
    /\ MayConnect
    /\ LET s == uv__stream_open(stream, {"WRITABLE"})
           t == io_start([s EXCEPT !.reqs = @ + 1], {"OUT"})
       IN  \/ stream' = s
           \/ stream' = [t EXCEPT !.connect = "pending"]
           \/ stream' = io_feed([t EXCEPT !.connect = "refused"])
    /\ Keep(<<issued, wants, leaked>>)

\* uv_pipe_connect: every failure is reported on the next tick; without a
\* socket when there is none to be had.
uv_pipe_connect ==
    /\ MayConnect
    /\ LET s == [stream EXCEPT !.reqs = @ + 1] IN
       \/ stream' = io_start([uv__stream_open(s, {"WRITABLE"}) EXCEPT !.connect = "pending"],
                             {"IN", "OUT"})
       \/ \E fd \in {s.fd, TRUE} :
              stream' = io_feed([s EXCEPT !.connect = "refused", !.fd = fd])
    /\ Keep(<<issued, wants, leaked>>)

uv_write2(r) ==
    /\ MayCall /\ MayWrite /\ r \notin Range(issued)
    /\ \/ /\ \E n \in 0..MaxSize : \E t \in Submit(stream, r, n) : stream' = t
          /\ issued' = Append(issued, r)
          /\ Keep(<<wants, leaked>>)
       \/ \* -ENOMEM, after uv__req_init
          /\ leaked < MaxLeaks
          /\ stream' = [stream EXCEPT !.reqs = @ + 1]
          /\ leaked' = leaked + 1
          /\ Keep(<<issued, wants>>)

uv_try_write ==
    /\ MayCall /\ MayWrite
    /\ stream.connect = "none" /\ stream.size = 0
    /\ \E n \in 0..MaxSize : \E t \in Submit(stream, TryReq, n) :
           stream' = Unqueue(t, "OUT" \in stream.pevents)
    /\ Keep(<<issued, wants, leaked>>)

\* The request remembers whether the stream was connected.
uv_shutdown ==
    /\ MayCall /\ stream.fd /\ Has(stream, "WRITABLE") /\ ~Has(stream, "BLOCKING")
    /\ ~Has(stream, "SHUT") /\ ~Has(stream, "SHUTTING")
    /\ LET asked == IF Has(stream, "CONNECTED") THEN "pending" ELSE "early" IN
       stream' = io_start(Set([stream EXCEPT !.reqs = @ + 1, !.shutdown = asked], "SHUTTING"),
                          {"OUT"})
    /\ Keep(<<issued, wants, leaked>>)

uv_read_start ==
    /\ MayCall /\ stream.fd /\ ~Has(stream, "BLOCKING")
    /\ stream.at = "eof" => RestartsAtEof
    /\ stream' = [io_start(Set(stream, "READING"), {"IN"}) EXCEPT !.active = TRUE]
    /\ wants' = TRUE
    /\ Keep(<<issued, leaked>>)

StopReading(s) == stop_unless(io_stop(Clear(s, "READING"), {"IN"}), "OUT")

uv_read_stop ==
    /\ MayCall /\ Has(stream, "READING")
    /\ stream' = StopReading(stream)
    /\ wants' = FALSE
    /\ Keep(<<issued, leaked>>)

\* uv_close up to the closing phase.
uv__stream_close ==
    /\ MayCall
    /\ stream' = [Clear(Set(stream, "CLOSING"), "READING")
                    EXCEPT !.pevents = {}, !.fed = FALSE, !.active = FALSE, !.fd = FALSE]
    /\ wants' = FALSE
    /\ Keep(<<issued, leaked>>)

----------------------------------------------------------------------------
(* uv__stream_io.                                                          *)

Goto(s, where) ==
    IF where \in {"loop", "closed"}
    THEN [s EXCEPT !.at = where, !.events = {}, !.count = 0, !.failed = FALSE]
    ELSE [s EXCEPT !.at = where]
Call(s, where) == [Goto(s, where) EXCEPT !.cb = TRUE]
Step(where) == stream.at = where /\ ~stream.cb /\ Keep(leaked)

\* What the loop passes to the watcher: POLLOUT for a fed one, else what the
\* kernel reports of what it was asked, an error or hangup joined by it.
Reported(s) ==
    (IF s.fed THEN {{"OUT"}} ELSE {})
    \cup (IF s.pevents = {} \/ ~s.fd THEN {}
          ELSE {e \in SUBSET s.pevents : e # {}}
               \cup {{x} \cup s.pevents : x \in {"ERR", "HUP"}})

\* Mutant: the connection stops POLLOUT though writes are waiting.
uv__stream_connect_stops(s) ==
    {Call([io_stop(s, {"OUT"})
             EXCEPT !.connect = "none", !.reqs = @ - 1, !.failed = bad,
                    !.flags = IF bad THEN @ ELSE @ \cup {"CONNECTED"}], "connected") :
         bad \in IF s.connect = "refused" THEN {TRUE} ELSE BOOLEAN}

\* The connection's outcome: the delayed error, or SO_ERROR.
uv__stream_connect(s) ==
    {Call([(IF bad \/ s.wq = <<>> THEN io_stop(s, {"OUT"}) ELSE s)
             EXCEPT !.connect = "none", !.reqs = @ - 1, !.failed = bad,
                    !.flags = IF bad THEN @ ELSE @ \cup {"CONNECTED"}], "connected") :
         bad \in IF s.connect = "refused" THEN {TRUE} ELSE BOOLEAN}
    \cup (IF s.connect = "pending" THEN {Goto(s, "loop")} ELSE {})

\* What uv__stream_io looks at after reading: errors and hangups are tried
\* as writes, a hangup also as an end of file.
Later(e) == IF e = {"IN"} THEN {} ELSE {"OUT"} \cup (e \cap {"HUP"})

uv__stream_io ==
    /\ Step("loop")
    /\ \E e \in Reported(stream) :
         LET s == [stream EXCEPT !.events = Later(e), !.fed = (e # {"OUT"} /\ @)] IN
         IF s.connect # "none" THEN stream' \in uv__stream_connect(s)
         ELSE IF e \cap {"IN", "ERR", "HUP"} # {}
         THEN stream' = Goto([Clear(s, "PARTIAL") EXCEPT !.count = MaxReads], "read")
         ELSE stream' = Goto(s, "hup")
    /\ Keep(<<issued, wants>>)

\* uv__stream_eof up to its callback.
AtEof(s) == Call(stop_unless(io_stop(Set(s, "EOF"), {"IN"}), "OUT"), "eof")

\* One turn of uv__read: the answers of the allocator and of read(2).
uv__read ==
    /\ Step("read")
    /\ LET s == [stream EXCEPT !.count = @ - 1] IN
       IF ~Has(stream, "READING") \/ stream.count = 0
       THEN stream' = Goto(stream, "hup") /\ wants' = wants
       ELSE \/ stream' = Call(s, "hup") /\ wants' = wants                    \* ENOBUFS
            \/ stream' = Call(io_start(s, {"IN"}), "hup") /\ wants' = wants  \* EAGAIN
            \/ stream' = Call(s, "read_error") /\ wants' = wants
            \/ stream' = AtEof(s) /\ wants' = FALSE
            \/ stream' = Call(s, "read") /\ wants' = wants                   \* buffer filled
            \/ stream' = Call(s, "partial") /\ wants' = wants
    /\ Keep(issued)

\* After the callback of a failed read.
ReadError ==
    /\ Step("read_error")
    /\ stream' = Goto(IF Has(stream, "READING") THEN StopReading(stream) ELSE stream, "hup")
    /\ wants' = FALSE
    /\ Keep(issued)

\* After the callback of a short read.
ReadPartial ==
    /\ Step("partial")
    /\ stream' = Goto(Set(stream, "PARTIAL"), "hup")
    /\ Keep(<<issued, wants>>)

\* After the callback of uv__stream_eof.
uv__stream_eof ==
    /\ Step("eof")
    /\ stream' = Goto([Clear(stream, "READING") EXCEPT !.events = @ \ {"HUP"}, !.count = 0], "out")
    /\ Keep(<<issued, wants>>)

\* A hangup after a partial read is an end of file.
HangUp ==
    /\ Step("hup")
    /\ IF stream.fd /\ "HUP" \in stream.events /\ Has(stream, "READING")
          /\ Has(stream, "PARTIAL") /\ ~Has(stream, "EOF")
       THEN stream' = AtEof(stream) /\ wants' = FALSE
       ELSE stream' = Goto([stream EXCEPT !.events = @ \ {"HUP"}, !.count = 0], "out")
            /\ wants' = wants
    /\ Keep(issued)

WriteReady ==
    /\ Step("out")
    /\ IF stream.fd /\ "OUT" \in stream.events
       THEN \E s \in uv__write(stream) : stream' = Goto(s, "callbacks")
       ELSE stream' = Goto(stream, "loop")
    /\ Keep(<<issued, wants>>)

\* The loop of uv__write_callbacks, in uv__stream_io, after a failed
\* connection and in uv__stream_destroy.
uv__write_callbacks ==
    /\ stream.at \in {"callbacks", "flushed", "destroy"} /\ ~stream.cb
    /\ stream.cq # <<>>
    /\ stream' = PopCompleted(stream)
    /\ issued' = Unlink(issued, Head(stream.cq))
    /\ Keep(<<wants, leaked>>)

uv__drain ==
    /\ Step("callbacks") /\ stream.cq = <<>>
    /\ LET s == io_stop(stream, {"OUT"})
           t == [Clear(s, "SHUTTING") EXCEPT !.shutdown = "none", !.reqs = @ - 1]
       IN  IF stream.wq # <<>> THEN stream' = Goto(stream, "loop")
           ELSE IF Has(s, "SHUTTING") /\ ~Has(s, "CLOSING") /\ ~Has(s, "SHUT")
           THEN \/ stream' = Call(Set(t, "SHUT"), "loop")
                \/ stream' = Call(t, "loop")                       \* shutdown(2) failed
           ELSE stream' = Goto(s, "loop")
    /\ Keep(<<issued, wants>>)

\* The rest of uv__stream_connect after its callback.
Connected ==
    /\ Step("connected")
    /\ stream' = IF stream.fd /\ stream.failed
                 THEN Goto(uv__stream_flush_write_queue(stream), "flushed")
                 ELSE Goto(stream, "loop")
    /\ Keep(<<issued, wants>>)

Flushed ==
    /\ Step("flushed") /\ stream.cq = <<>>
    /\ stream' = Goto(stream, "loop")
    /\ Keep(<<issued, wants>>)

CallbackReturns ==
    /\ stream.cb
    /\ stream' = [stream EXCEPT !.cb = FALSE]
    /\ Keep(<<issued, wants, leaked>>)

----------------------------------------------------------------------------
(* The closing phase: uv__stream_destroy, then the close callback, which   *)
(* may initialize the stream again.                                        *)

uv__stream_destroy ==
    /\ Step("loop") /\ IsClosing
    /\ LET s == uv__stream_flush_write_queue(Set(stream, "CLOSED")) IN
       stream' = IF s.connect = "none" THEN Goto(s, "destroy")
                 ELSE Call([s EXCEPT !.connect = "none", !.reqs = @ - 1], "destroy")
    /\ Keep(<<issued, wants>>)

DestroyShutdown ==
    /\ Step("destroy") /\ stream.cq = <<>>
    /\ stream' = IF stream.shutdown # "none"
                 THEN Call([stream EXCEPT !.shutdown = "none", !.reqs = @ - 1], "closed")
                 ELSE Goto(stream, "closed")
    /\ Keep(<<issued, wants>>)

Reinit ==
    /\ Step("closed")
    /\ stream' = [uv__stream_init EXCEPT !.reqs = stream.reqs]
    /\ Keep(<<issued, wants>>)

StreamInit ==
    /\ stream = uv__stream_init
    /\ issued = <<>> /\ wants = FALSE /\ leaked = 0

StreamUser ==
    \/ Open \/ uv__tcp_connect \/ uv_pipe_connect
    \/ \E r \in Writes : uv_write2(r)
    \/ uv_try_write \/ uv_shutdown \/ uv_read_start \/ uv_read_stop
    \/ uv__stream_close

StreamLoop ==
    \/ uv__stream_io \/ uv__read \/ ReadError \/ ReadPartial \/ uv__stream_eof
    \/ HangUp \/ WriteReady \/ uv__write_callbacks \/ uv__drain
    \/ Connected \/ Flushed \/ CallbackReturns
    \/ uv__stream_destroy \/ DestroyShutdown \/ Reinit

StreamNext == StreamUser \/ StreamLoop

StreamSpec == StreamInit /\ [][StreamNext]_streamVars

----------------------------------------------------------------------------
(* Properties.                                                             *)

Armed == "OUT" \in stream.pevents \/ stream.fed

\* Writes are called back in the order in which they were accepted, each
\* once, whatever mixture of immediate, partial, failed, cancelled and
\* flushed writes the queues go through.
WritesInOrder == stream.cq \o stream.wq = issued /\ Distinct(issued)

\* The sum of f over the requests of a queue.
SumOver(f, q) ==
    LET upto[i \in 0..Len(q)] == IF i = 0 THEN 0 ELSE upto[i - 1] + f[q[i]]
    IN  upto[Len(q)]

\* What each request still holds.
Unwritten(s) == [r \in Writes \cup {TryReq} |-> IF s.bufs[r] THEN s.left[r] ELSE 0]

\* write_queue_size, which decides between writing now and queueing, and
\* which uv_try_write trusts, is what the queued requests still hold; the
\* loop counts exactly the requests it owes a callback (and the ones
\* uv_write2 leaked when it was out of memory).
WritesCounted ==
    /\ stream.size = SumOver(Unwritten(stream), stream.cq \o stream.wq)
    /\ stream.reqs = leaked + Len(issued) + (IF stream.shutdown # "none" THEN 1 ELSE 0)
                       + (IF stream.connect # "none" THEN 1 ELSE 0)

\* Between events no request is stranded: a pending connection, a queued or
\* a completed write has an event coming, and so does a shutdown unless it
\* was asked for before the stream was connected.  A stream that is reading
\* polls for input and keeps the loop alive.
NothingStranded ==
    stream.at = "loop" /\ ~stream.cb /\ ~IsClosing =>
        /\ stream.connect # "none" \/ stream.wq # <<>> \/ stream.cq # <<>> => Armed
        /\ stream.shutdown = "pending" => Armed
        /\ Has(stream, "READING") => "IN" \in stream.pevents /\ stream.active

\* The reading flag expresses the desired state of the user: it follows the
\* user's last uv_read_start or uv_read_stop, unless the library itself has
\* ended reading since.
ReadingIsDesired ==
    stream.at = "loop" /\ ~stream.cb /\ ~IsClosing => (Has(stream, "READING") <=> wants)

\* The assertions of the code hold: no event reaches a closing stream, and
\* a destroyed stream has called everything back and counts no bytes.
StreamAsserts ==
    /\ IsClosing => stream.pevents = {} /\ ~stream.fed /\ ~stream.fd
    /\ stream.at \in {"read", "hup", "out", "callbacks"} /\ ~IsClosing => stream.fd
    /\ stream.at = "closed" => issued = <<>> /\ stream.size = 0 /\ stream.shutdown = "none"

\* The assertion of uv_write2: "blocking streams should never have anything
\* in the queue".
BlockingNeverQueues == stream.at # "abort"

\* The books of a stream are in order: uv_write requests, their sizes, the
\* loop's count of requests, and the assertions on closing.
StreamRight == WritesInOrder /\ WritesCounted /\ StreamAsserts

\* Nothing the user has asked of a stream is forgotten between two events:
\* requests have an event coming and reading goes on as last requested.
StreamServed == NothingStranded /\ ReadingIsDesired
=============================================================================
