---------------------------- MODULE SocketProofs ----------------------------
(***************************************************************************)
(* The sockets: the send queues of a UDP handle, the descriptors a         *)
(* listening stream or an ipc pipe takes in, and the watchers under all of *)
(* them with uv__io_poll, for any number of requests, descriptors, handles *)
(* and events.                                                             *)
(***************************************************************************)
EXTENDS Udp, Server, IoPoll, QueueLemmas, FiniteSetTheorems

----------------------------------------------------------------------------
(* UDP.                                                                    *)

UdpHandles ==
    [fd : BOOLEAN, pevents : SUBSET {"IN", "OUT"}, fed : BOOLEAN, active : BOOLEAN, recv : BOOLEAN,
     wq : Seq(Sends), cq : Seq(Sends), count : Nat, processing : BOOLEAN, closing : BOOLEAN,
     unlinked : BOOLEAN, at : {"loop", "recv", "send", "completed", "finish", "closed", "undefined"},
     cb : BOOLEAN, out : BOOLEAN, reads : 0..MaxRecvs, stray : BOOLEAN]

UdpTypes == udp \in UdpHandles /\ sent \in Seq(Sends)

\* Where callbacks run, which event is due, what keeps a send from being
\* forgotten in the middle of uv__udp_io, and when that feeds a closed handle.
UdpKeeps ==
    /\ udp.cb => udp.at \in {"recv", "completed", "finish"}
    /\ udp.out => udp.at \in {"recv", "send"}
    /\ udp.unlinked => udp.closing
    /\ udp.at \in {"finish", "closed", "undefined"} => udp.closing /\ udp.wq = <<>>
    /\ udp.closing /\ udp.at \in {"recv", "send"} =>
           ~udp.fed /\ (udp.out /\ udp.wq # <<>> /\ ~udp.unlinked => udp.stray)
    /\ udp.at \in {"loop", "recv", "send"} /\ ~udp.closing /\ udp.cq # <<>> => udp.fed \/ udp.out
    /\ ~udp.closing /\ Len(udp.wq) > 1 => "OUT" \in udp.pevents
    /\ udp.pevents # {} => udp.fd /\ udp.active

\* The inductive invariant of a UDP handle.
UdpInv == UdpTypes /\ SendsInOrder /\ UdpAsserts /\ UdpKeeps

LEMMA UdpEmpty == Distinct(<<>>) /\ Len(<<>>) = 0 /\ \A S : <<>> \in Seq(S)
BY EmptySeq DEF Distinct

LEMMA UdpNew ==
    ASSUME NEW opened \in BOOLEAN, udp = uv_udp_init(opened), sent = <<>>
    PROVE  UdpInv
<1>1. UdpTypes
  BY UdpAssumption, UdpEmpty DEF uv_udp_init, UdpTypes, UdpHandles
<1>2. SendsInOrder
  BY UdpEmpty, ConcatEmptySeq DEF uv_udp_init, SendsInOrder
<1>3. UdpAsserts
  BY DEF uv_udp_init, UdpAsserts
<1>4. UdpKeeps
  BY UdpEmpty DEF uv_udp_init, UdpKeeps
<1> QED BY <1>1, <1>2, <1>3, <1>4 DEF UdpInv

\* v differs from u in no more than the descriptor, what is polled for and
\* whether it is receiving and active.
OnlyPolling(u, v) ==
    /\ v.wq = u.wq /\ v.cq = u.cq /\ v.count = u.count /\ v.at = u.at /\ v.cb = u.cb /\ v.out = u.out
    /\ v.unlinked = u.unlinked /\ v.closing = u.closing /\ v.fed = u.fed /\ v.processing = u.processing
    /\ v.reads = u.reads /\ v.stray = u.stray

\* Something is polled for only on a descriptor, and keeps the loop alive.
Polled(u) == u.pevents # {} => u.fd /\ u.active

\* uv__io_stop takes away its event, and the activity with the last one.
LEMMA UdpStopFacts ==
    ASSUME NEW u \in UdpHandles, NEW e \in {"IN", "OUT"}, Polled(u)
    PROVE  /\ UdpStop(u, e) \in UdpHandles
           /\ OnlyPolling(u, UdpStop(u, e))
           /\ UdpStop(u, e).fd = u.fd /\ UdpStop(u, e).recv = u.recv
           /\ UdpStop(u, e).pevents = u.pevents \ {e}
           /\ Polled(UdpStop(u, e))
<1> DEFINE v == IF u.fd THEN [u EXCEPT !.pevents = @ \ {e}] ELSE u
           w == IF v.pevents \cap ({"IN", "OUT"} \ {e}) = {} THEN [v EXCEPT !.active = FALSE] ELSE v
<1>1. /\ v \in UdpHandles /\ OnlyPolling(u, v) /\ v.fd = u.fd /\ v.recv = u.recv
      /\ v.active = u.active /\ v.pevents = u.pevents \ {e}
  BY SMTT(30) DEF UdpHandles, OnlyPolling, Polled
<1> HIDE DEF v
<1>2. /\ w \in UdpHandles /\ OnlyPolling(v, w) /\ w.fd = v.fd /\ w.recv = v.recv
      /\ w.pevents = v.pevents
  <2>1. v \in UdpHandles
    BY <1>1
  <2>2. w = v \/ w = [v EXCEPT !.active = FALSE]
    OBVIOUS
  <2> HIDE DEF w
  <2>3. CASE w = v
    BY <2>1, <2>3 DEF OnlyPolling
  <2>4. CASE w = [v EXCEPT !.active = FALSE]
    BY <2>1, <2>4 DEF UdpHandles, OnlyPolling
  <2> QED BY <2>2, <2>3, <2>4
<1>3. w.pevents # {} => w.active = u.active
  BY <1>1, <1>2 DEF UdpHandles
<1> HIDE DEF w
<1>4. OnlyPolling(u, w)
  BY <1>1, <1>2 DEF OnlyPolling
<1>5. Polled(w)
  BY <1>1, <1>2, <1>3 DEF Polled
<1>6. UdpStop(u, e) = w
  BY DEF UdpStop, v, w
<1> QED BY <1>1, <1>2, <1>4, <1>5, <1>6

----------------------------------------------------------------------------
(* Steps that leave the queues alone.                                      *)

LEMMA QueuesStay ==
    ASSUME SendsInOrder, udp'.wq = udp.wq, udp'.cq = udp.cq, udp'.count = udp.count, sent' = sent
    PROVE  SendsInOrder'
BY DEF SendsInOrder

LEMMA UdpUserStep ==
    ASSUME UdpInv, uv__udp_bind \/ uv__udp_try_send \/ uv__udp_recv_start \/ uv__udp_recv_stop
    PROVE  UdpInv'
<1>1. UdpTypes /\ SendsInOrder /\ UdpAsserts /\ UdpKeeps
  BY DEF UdpInv
<1>2. udp \in UdpHandles /\ sent \in Seq(Sends) /\ sent' = sent
  BY <1>1 DEF UdpTypes, uv__udp_bind, uv__udp_try_send, uv__udp_recv_start, uv__udp_recv_stop
<1>3. ~udp.closing
  BY DEF UdpCall, uv__udp_bind, uv__udp_try_send, uv__udp_recv_start, uv__udp_recv_stop
<1>4. /\ udp' \in UdpHandles /\ OnlyPolling(udp, udp') /\ Polled(udp')
      /\ "OUT" \in udp.pevents => "OUT" \in udp'.pevents
      /\ "IN" \in udp'.pevents => udp'.recv
  <2>p. Polled(udp) /\ ("IN" \in udp.pevents => udp.recv)
    BY <1>1 DEF UdpKeeps, UdpAsserts, Polled
  <2>1. CASE uv__udp_bind
    BY <2>1, <1>2 DEF uv__udp_bind, UdpHandles, OnlyPolling, Polled
  <2>2. CASE uv__udp_try_send
    BY <2>2, <2>p, <1>2 DEF uv__udp_try_send, Bound, UdpHandles, OnlyPolling, Polled
  <2>3. CASE uv__udp_recv_start
    BY <2>3, <1>2 DEF uv__udp_recv_start, Bound, UdpHandles, OnlyPolling, Polled
  <2>4. CASE uv__udp_recv_stop
    <3>1. PICK v : v = UdpStop(udp, "IN")
      OBVIOUS
    <3>2. /\ v \in UdpHandles /\ OnlyPolling(udp, v) /\ Polled(v)
          /\ v.pevents = udp.pevents \ {"IN"}
      BY <3>1, <2>p, <1>2, UdpStopFacts
    <3>3. udp' = [v EXCEPT !.recv = FALSE]
      BY <2>4, <3>1 DEF uv__udp_recv_stop
    <3>4. udp' \in UdpHandles /\ OnlyPolling(v, udp') /\ Polled(udp') /\ udp'.pevents = v.pevents
      BY <3>2, <3>3 DEF UdpHandles, OnlyPolling, Polled
    <3> QED BY <3>2, <3>4 DEF OnlyPolling
  <2> QED BY <2>1, <2>2, <2>3, <2>4
<1>5. SendsInOrder'
  BY <1>1, <1>2, <1>4, QueuesStay DEF OnlyPolling
<1>6. UdpAsserts'
  BY <1>1, <1>2, <1>3, <1>4 DEF UdpAsserts, OnlyPolling
<1>7. UdpKeeps'
  BY <1>1, <1>3, <1>4 DEF UdpKeeps, OnlyPolling, Polled
<1> QED BY <1>2, <1>4, <1>5, <1>6, <1>7 DEF UdpInv, UdpTypes

LEMMA UdpEventStep ==
    ASSUME UdpInv, uv__udp_io \/ uv__udp_recvmsg \/ UdpCallbackReturns
    PROVE  UdpInv'
<1> DEFINE G == /\ udp' \in UdpHandles
                /\ udp'.wq = udp.wq /\ udp'.cq = udp.cq /\ udp'.count = udp.count
                /\ udp'.processing = udp.processing /\ udp'.unlinked = udp.unlinked
                /\ udp'.closing = udp.closing /\ udp'.fd = udp.fd /\ udp'.active = udp.active
                /\ udp'.recv = udp.recv /\ udp'.pevents = udp.pevents /\ udp'.stray = udp.stray
<1>1. UdpTypes /\ SendsInOrder /\ UdpAsserts /\ UdpKeeps
  BY DEF UdpInv
<1>2. udp \in UdpHandles /\ sent \in Seq(Sends) /\ sent' = sent
  BY <1>1 DEF UdpTypes, uv__udp_io, uv__udp_recvmsg, UdpCallbackReturns
<1>3. G
  <2> MaxRecvs \in Nat \ {0}
    BY UdpAssumption
  <2>1. CASE uv__udp_io
    <3>1. CASE udp' = [udp EXCEPT !.fed = FALSE, !.out = TRUE, !.at = "send"]
      BY <3>1, <1>2 DEF UdpHandles
    <3>2. ASSUME NEW o \in BOOLEAN, NEW a \in {"recv", "send"},
                 udp' = [udp EXCEPT !.out = o, !.reads = MaxRecvs, !.at = a]
          PROVE  G
      <4>1. MaxRecvs \in 0..MaxRecvs
        OBVIOUS
      <4> QED BY <4>1, <3>2, <1>2 DEF UdpHandles
    <3>3. ASSUME NEW e, udp' = [udp EXCEPT !.out = "OUT" \in e, !.reads = MaxRecvs,
                                           !.at = IF "IN" \in e THEN "recv" ELSE "send"]
          PROVE  \E o \in BOOLEAN, a \in {"recv", "send"} :
                    udp' = [udp EXCEPT !.out = o, !.reads = MaxRecvs, !.at = a]
      <4>1. ("OUT" \in e) \in BOOLEAN /\ (IF "IN" \in e THEN "recv" ELSE "send") \in {"recv", "send"}
        OBVIOUS
      <4> WITNESS ("OUT" \in e) \in BOOLEAN, (IF "IN" \in e THEN "recv" ELSE "send") \in {"recv", "send"}
      <4> QED BY <3>3
    <3> HIDE DEF G
    <3> QED BY <2>1, <3>1, <3>2, <3>3 DEF uv__udp_io
  <2>2. CASE uv__udp_recvmsg
    <3>1. udp.reads \in 0..MaxRecvs /\ 0 \in 0..MaxRecvs
          /\ (udp.reads # 0 => udp.reads - 1 \in 0..MaxRecvs)
      BY <1>2 DEF UdpHandles
    <3>2. CASE udp' = [udp EXCEPT !.at = "send", !.reads = 0]
      BY <3>1, <3>2, <1>2 DEF UdpHandles
    <3>3. CASE udp.reads # 0 /\ udp' = [udp EXCEPT !.cb = TRUE, !.reads = @ - 1]
      BY <3>1, <3>3, <1>2 DEF UdpHandles
    <3>4. CASE udp' = [udp EXCEPT !.cb = TRUE, !.reads = 0]
      BY <3>1, <3>4, <1>2 DEF UdpHandles
    <3> QED BY <2>2, <3>2, <3>3, <3>4 DEF uv__udp_recvmsg
  <2>3. CASE UdpCallbackReturns
    BY <2>3, <1>2 DEF UdpCallbackReturns, UdpHandles
  <2> QED BY <2>1, <2>2, <2>3
<1>4. /\ udp'.at = udp.at \/ (udp.at \in {"loop", "recv"} /\ udp'.at \in {"recv", "send"})
      /\ udp'.cb => udp'.at \in {"recv", "completed", "finish"}
      /\ udp'.out => udp'.at \in {"recv", "send"}
      /\ udp.fed \/ udp.out => udp'.fed \/ udp'.out
      /\ udp'.fed => udp.fed
      /\ udp.closing => udp.at # "loop" \/ udp'.at = "loop"
      /\ udp.closing /\ udp'.out => udp.out
  <2>1. CASE uv__udp_io
    <3>1. ~udp.closing
      BY <2>1, <1>1 DEF uv__udp_io, UdpAsserts
    <3>2. /\ udp.at = "loop" /\ ~udp.cb
          /\ \/ udp.fed /\ udp' = [udp EXCEPT !.fed = FALSE, !.out = TRUE, !.at = "send"]
             \/ \E o \in BOOLEAN, a \in {"recv", "send"} :
                   udp' = [udp EXCEPT !.out = o, !.reads = MaxRecvs, !.at = a]
      <4>1. \A e : ("OUT" \in e) \in BOOLEAN
                  /\ (IF "IN" \in e THEN "recv" ELSE "send") \in {"recv", "send"}
        OBVIOUS
      <4> QED BY <4>1, <2>1, Zenon DEF uv__udp_io
    <3>3. ~udp.out
      BY <3>2, <1>1 DEF UdpKeeps
    <3>4. CASE udp.fed /\ udp' = [udp EXCEPT !.fed = FALSE, !.out = TRUE, !.at = "send"]
      BY <3>1, <3>2, <3>4, <1>2 DEF UdpHandles
    <3>5. ASSUME NEW o \in BOOLEAN, NEW a \in {"recv", "send"},
                 udp' = [udp EXCEPT !.out = o, !.reads = MaxRecvs, !.at = a]
          PROVE  /\ udp'.at = a /\ udp'.out = o /\ udp'.cb = udp.cb /\ udp'.fed = udp.fed
      BY <3>5, <1>2 DEF UdpHandles
    <3> QED BY <3>1, <3>2, <3>3, <3>4, <3>5
  <2>2. CASE uv__udp_recvmsg
    <3>1. /\ udp.at = "recv" /\ udp'.fed = udp.fed /\ udp'.out = udp.out
          /\ \/ udp'.at = "send" /\ udp'.cb = udp.cb
             \/ udp'.at = "recv"
      <4>1. CASE udp' = [udp EXCEPT !.at = "send", !.reads = 0]
        BY <4>1, <2>2, <1>2 DEF uv__udp_recvmsg, UdpHandles
      <4>2. CASE udp' = [udp EXCEPT !.cb = TRUE, !.reads = @ - 1]
        BY <4>2, <2>2, <1>2 DEF uv__udp_recvmsg, UdpHandles
      <4>3. CASE udp' = [udp EXCEPT !.cb = TRUE, !.reads = 0]
        BY <4>3, <2>2, <1>2 DEF uv__udp_recvmsg, UdpHandles
      <4> QED BY <4>1, <4>2, <4>3, <2>2 DEF uv__udp_recvmsg
    <3>2. ~udp.cb
      BY <2>2 DEF uv__udp_recvmsg
    <3> QED BY <3>1, <3>2
  <2>3. CASE UdpCallbackReturns
    BY <2>3, <1>1, <1>2 DEF UdpCallbackReturns, UdpHandles, UdpKeeps
  <2> QED BY <2>1, <2>2, <2>3
<1>5. SendsInOrder'
  BY <1>1, <1>2, <1>3, QueuesStay
<1>6. UdpAsserts'
  BY <1>1, <1>2, <1>3, <1>4 DEF UdpAsserts
<1>7. UdpKeeps'
  BY <1>1, <1>3, <1>4 DEF UdpKeeps
<1> QED BY <1>2, <1>3, <1>5, <1>6, <1>7 DEF UdpInv, UdpTypes

LEMMA UdpCloseStep ==
    ASSUME UdpInv, uv__udp_close
    PROVE  UdpInv'
<1>1. UdpTypes /\ SendsInOrder /\ UdpAsserts /\ UdpKeeps
  BY DEF UdpInv
<1>2. udp \in UdpHandles /\ sent \in Seq(Sends) /\ sent' = sent
  BY <1>1 DEF UdpTypes, uv__udp_close
<1>3. udp' \in UdpHandles
  <2>1. PICK s \in BOOLEAN : s = (udp.at = "recv" /\ udp.out /\ udp.wq # <<>> /\ ~udp.fed)
    OBVIOUS
  <2>2. udp' = [udp EXCEPT !.closing = TRUE, !.pevents = {}, !.fed = FALSE, !.unlinked = udp.fed,
                           !.active = FALSE, !.fd = FALSE, !.stray = s]
    BY <2>1 DEF uv__udp_close
  <2>3. {} \in SUBSET {"IN", "OUT"} /\ udp.fed \in BOOLEAN
    BY <1>2 DEF UdpHandles
  <2>4. PICK v : v = [udp EXCEPT !.closing = TRUE, !.pevents = {}, !.fed = FALSE]
    OBVIOUS
  <2>5. v \in UdpHandles
    BY <1>2, <2>3, <2>4 DEF UdpHandles
  <2>6. PICK w : w = [v EXCEPT !.unlinked = udp.fed, !.active = FALSE, !.fd = FALSE]
    OBVIOUS
  <2>7. w \in UdpHandles
    BY <2>3, <2>5, <2>6 DEF UdpHandles
  <2>8. udp' = [w EXCEPT !.stray = s]
    BY <1>2, <2>2, <2>4, <2>6 DEF UdpHandles
  <2> QED BY <2>1, <2>7, <2>8 DEF UdpHandles
<1>4. /\ udp'.wq = udp.wq /\ udp'.cq = udp.cq /\ udp'.count = udp.count
      /\ udp'.processing = udp.processing /\ udp'.at = udp.at /\ udp'.cb = udp.cb /\ udp'.out = udp.out
      /\ udp'.closing /\ ~udp'.fd /\ udp'.pevents = {} /\ ~udp'.fed /\ udp'.unlinked = udp.fed
      /\ udp'.stray = (udp.at = "recv" /\ udp.out /\ udp.wq # <<>> /\ ~udp.fed)
  BY <1>2 DEF uv__udp_close, UdpHandles
<1>5. udp.at \notin {"send", "undefined"}
  BY <1>1 DEF uv__udp_close, UdpCall, UdpKeeps
<1>6. SendsInOrder'
  BY <1>1, <1>2, <1>4, QueuesStay
<1>7. UdpAsserts'
  BY <1>1, <1>2, <1>4, <1>5 DEF UdpAsserts
<1>8. UdpKeeps'
  BY <1>1, <1>4, <1>5 DEF UdpKeeps
<1> QED BY <1>2, <1>3, <1>6, <1>7, <1>8 DEF UdpInv, UdpTypes

----------------------------------------------------------------------------
(* Steps that move sends.                                                  *)

\* uv__udp_finish_close: what was not sent is completed too.
LEMMA UdpFinishCloseStep ==
    ASSUME UdpInv, uv__udp_finish_close
    PROVE  UdpInv'
<1>1. UdpTypes /\ SendsInOrder /\ UdpAsserts /\ UdpKeeps
  BY DEF UdpInv
<1>2. udp \in UdpHandles /\ sent \in Seq(Sends) /\ sent' = sent
  BY <1>1 DEF UdpTypes, uv__udp_finish_close
<1>3. udp.cq \in Seq(Sends) /\ udp.wq \in Seq(Sends)
  BY <1>2 DEF UdpHandles
<1>4. udp.cq \o udp.wq \in Seq(Sends) /\ <<>> \in Seq(Sends)
  BY <1>3, ConcatFacts, UdpEmpty
<1>5. udp' = [udp EXCEPT !.cq = @ \o udp.wq, !.wq = <<>>, !.recv = FALSE, !.processing = TRUE,
                         !.at = "finish"] /\ udp.closing /\ ~udp.cb /\ udp.at = "loop"
  BY DEF uv__udp_finish_close
<1>6. udp' \in UdpHandles
  BY <1>2, <1>4, <1>5 DEF UdpHandles
<1>7. /\ udp'.wq = <<>> /\ udp'.cq = udp.cq \o udp.wq /\ udp'.count = udp.count
      /\ udp'.at = "finish" /\ udp'.cb = udp.cb /\ udp'.out = udp.out /\ udp'.unlinked = udp.unlinked
      /\ udp'.closing = udp.closing /\ udp'.fd = udp.fd /\ udp'.pevents = udp.pevents
      /\ udp'.fed = udp.fed /\ udp'.stray = udp.stray
  BY <1>2, <1>5 DEF UdpHandles
<1>8. SendsInOrder'
  <2>1. udp'.cq \o udp'.wq = udp.cq \o udp.wq
    BY <1>4, <1>7, ConcatEmptySeq
  <2> QED BY <2>1, <1>1, <1>2, <1>7 DEF SendsInOrder
<1>9. UdpAsserts'
  BY <1>1, <1>5, <1>7 DEF UdpAsserts
<1>10. UdpKeeps'
  BY <1>1, <1>5, <1>7, UdpEmpty DEF UdpKeeps, UdpAsserts
<1> QED BY <1>2, <1>6, <1>8, <1>9, <1>10 DEF UdpInv, UdpTypes

\* The feed is served, or the memory is used again before it is.
LEMMA StrayFeedStep ==
    ASSUME UdpInv, FedAfterClose \/ (UdpReinit /\ udp.fed)
    PROVE  UdpInv'
<1>1. UdpTypes /\ SendsInOrder /\ UdpAsserts /\ UdpKeeps
  BY DEF UdpInv
<1>2. /\ udp \in UdpHandles /\ sent \in Seq(Sends) /\ sent' = sent
      /\ udp.at = "closed" /\ udp.fed
  BY <1>1 DEF UdpTypes, FedAfterClose, UdpReinit
<1>3. /\ udp' \in UdpHandles
      /\ udp'.wq = udp.wq /\ udp'.cq = udp.cq /\ udp'.count = udp.count
      /\ udp'.processing = udp.processing /\ udp'.unlinked = udp.unlinked
      /\ udp'.closing = udp.closing /\ udp'.fd = udp.fd /\ udp'.active = udp.active
      /\ udp'.recv = udp.recv /\ udp'.pevents = udp.pevents /\ udp'.stray = udp.stray
      /\ udp'.cb = udp.cb /\ udp'.out = udp.out /\ udp'.at \in {"closed", "undefined"}
  <2>1. CASE udp' = [udp EXCEPT !.fed = FALSE]
    BY <2>1, <1>2 DEF UdpHandles
  <2>2. CASE udp' = [udp EXCEPT !.at = "undefined"]
    BY <2>2, <1>2 DEF UdpHandles
  <2> QED BY <2>1, <2>2, <1>2 DEF FedAfterClose, UdpReinit
<1>4. udp.closing /\ udp.stray
  BY <1>1, <1>2 DEF UdpKeeps, UdpAsserts
<1>5. SendsInOrder'
  BY <1>1, <1>2, <1>3, QueuesStay
<1>6. UdpAsserts'
  BY <1>1, <1>2, <1>3, <1>4 DEF UdpAsserts
<1>7. UdpKeeps'
  BY <1>1, <1>2, <1>3, <1>4 DEF UdpKeeps
<1> QED BY <1>2, <1>3, <1>5, <1>6, <1>7 DEF UdpInv, UdpTypes

LEMMA UdpReinitStep ==
    ASSUME UdpInv, UdpReinit, ~udp.fed
    PROVE  UdpInv'
<1>1. PICK opened \in BOOLEAN : udp' = uv_udp_init(opened)
  BY DEF UdpReinit
<1>2. sent' = <<>>
  BY DEF UdpReinit, UdpInv, UdpAsserts
<1>3. UdpTypes'
  BY <1>1, <1>2, UdpAssumption, UdpEmpty DEF uv_udp_init, UdpTypes, UdpHandles
<1>4. SendsInOrder'
  BY <1>1, <1>2, UdpEmpty, ConcatEmptySeq DEF uv_udp_init, SendsInOrder
<1>5. UdpAsserts'
  BY <1>1, <1>2 DEF uv_udp_init, UdpAsserts
<1>6. UdpKeeps'
  BY <1>1, <1>2, UdpEmpty DEF uv_udp_init, UdpKeeps
<1> QED BY <1>3, <1>4, <1>5, <1>6 DEF UdpInv

\* uv__udp_sendmsg completes the first n of the queue; who is fed when.
LEMMA SendmsgFacts ==
    ASSUME NEW u \in UdpHandles, NEW v \in uv__udp_sendmsg(u)
    PROVE  \E n \in 0..Len(u.wq) :
              /\ v \in UdpHandles
              /\ v.cq \o v.wq = u.cq \o u.wq /\ Len(v.wq) = Len(u.wq) - n
              /\ n = 0 => v.cq = u.cq /\ v.fed = u.fed
              /\ n > 0 /\ ~u.unlinked => v.fed
              /\ v.fed => u.fed \/ (n > 0 /\ ~u.unlinked)
              /\ v.stray = u.stray
              /\ v.fd = u.fd /\ v.pevents = u.pevents /\ v.active = u.active /\ v.recv = u.recv
              /\ v.count = u.count /\ v.processing = u.processing /\ v.closing = u.closing
              /\ v.unlinked = u.unlinked /\ v.at = u.at /\ v.cb = u.cb /\ v.out = u.out
<1>1. u.wq \in Seq(Sends) /\ u.cq \in Seq(Sends) /\ Len(u.wq) \in Nat
      /\ u.fed \in BOOLEAN /\ u.unlinked \in BOOLEAN
  BY LenProperties DEF UdpHandles
<1>2. PICK n \in 0..Len(u.wq) :
         v = [u EXCEPT !.cq = @ \o SubSeq(u.wq, 1, n), !.fed = @ \/ (n > 0 /\ ~u.unlinked),
                       !.wq = SubSeq(@, n + 1, Len(@))]
  <2>1. (IF u.fd THEN 0..Len(u.wq) ELSE {Len(u.wq)}) \subseteq 0..Len(u.wq)
    BY <1>1
  <2> QED BY <2>1, Zenon DEF uv__udp_sendmsg
<1> DEFINE a == SubSeq(u.wq, 1, n)
           b == SubSeq(u.wq, n + 1, Len(u.wq))
           f == u.fed \/ (n > 0 /\ ~u.unlinked)
<1>3. /\ b \in Seq(Sends) /\ Len(b) = Len(u.wq) - n /\ u.cq \o a \in Seq(Sends)
      /\ (u.cq \o a) \o b = u.cq \o u.wq
      /\ a \in Seq(Sends) /\ Len(a) = n
  <2>1. \A p, q \in Seq(Sends) : \A k \in 0..Len(q) :
           /\ SubSeq(q, 1, k) \in Seq(Sends) /\ SubSeq(q, k + 1, Len(q)) \in Seq(Sends)
           /\ Len(SubSeq(q, 1, k)) = k /\ Len(SubSeq(q, k + 1, Len(q))) = Len(q) - k
           /\ p \o SubSeq(q, 1, k) \in Seq(Sends)
           /\ (p \o SubSeq(q, 1, k)) \o SubSeq(q, k + 1, Len(q)) = p \o q
    BY MoveFacts
  <2> QED BY <2>1, <1>1
<1>4. f \in BOOLEAN
  BY <1>1
<1>5. v = [u EXCEPT !.cq = u.cq \o a, !.fed = f, !.wq = b]
  BY <1>2 DEF UdpHandles
<1>6. n = 0 => a = <<>> /\ u.cq \o a = u.cq
  BY <1>1, <1>3, EmptySeq, ConcatEmptySeq
<1>7. /\ (n = 0 => f = u.fed) /\ (n > 0 /\ ~u.unlinked => f)
      /\ f => u.fed \/ (n > 0 /\ ~u.unlinked)
  BY <1>1
<1> HIDE DEF a, b, f
<1>8. v \in UdpHandles
  BY <1>3, <1>4, <1>5 DEF UdpHandles
<1>9. /\ v.cq = u.cq \o a /\ v.wq = b /\ v.fed = f
      /\ v.fd = u.fd /\ v.pevents = u.pevents /\ v.active = u.active /\ v.recv = u.recv
      /\ v.count = u.count /\ v.processing = u.processing /\ v.closing = u.closing
      /\ v.unlinked = u.unlinked /\ v.at = u.at /\ v.cb = u.cb /\ v.out = u.out
      /\ v.stray = u.stray
  BY <1>5 DEF UdpHandles
<1> WITNESS n \in 0..Len(u.wq)
<1> QED BY <1>3, <1>6, <1>7, <1>8, <1>9

LEMMA UdpSendStep ==
    ASSUME UdpInv, NEW r \in Sends, uv__udp_send(r)
    PROVE  UdpInv'
<1>1. UdpTypes /\ SendsInOrder /\ UdpAsserts /\ UdpKeeps
  BY DEF UdpInv
<1>2. udp \in UdpHandles /\ sent \in Seq(Sends) /\ udp.wq \in Seq(Sends) /\ udp.cq \in Seq(Sends)
  BY <1>1 DEF UdpTypes, UdpHandles
<1>3. ~udp.closing /\ r \notin Range(sent) /\ sent' = Append(sent, r)
  BY DEF uv__udp_send, UdpCall
<1>4. PICK u : u = [Bound(udp) EXCEPT !.wq = Append(@, r), !.count = @ + 1, !.active = TRUE]
  OBVIOUS
<1>5. Append(udp.wq, r) \in Seq(Sends) /\ Len(Append(udp.wq, r)) = Len(udp.wq) + 1
  BY <1>2, AppendFacts
<1>6. u \in UdpHandles
  <2>1. Bound(udp) \in UdpHandles /\ Bound(udp).wq = udp.wq
    BY <1>2 DEF Bound, UdpHandles
  <2>2. Bound(udp).count + 1 \in Nat
    BY <2>1 DEF UdpHandles
  <2> QED BY <2>1, <2>2, <1>4, <1>5 DEF UdpHandles
<1>7. /\ u.wq = Append(udp.wq, r) /\ u.cq = udp.cq /\ u.count = udp.count + 1 /\ u.fd /\ u.active
      /\ u.pevents = udp.pevents /\ u.recv = udp.recv /\ u.processing = udp.processing
      /\ u.closing = udp.closing /\ u.unlinked = udp.unlinked /\ u.at = udp.at /\ u.cb = udp.cb
      /\ u.out = udp.out /\ u.fed = udp.fed /\ u.stray = udp.stray
  BY <1>2, <1>4 DEF Bound, UdpHandles
<1>8. /\ sent' \in Seq(Sends) /\ Len(sent') = Len(sent) + 1 /\ Distinct(sent')
      /\ u.cq \o u.wq = sent'
  <2>1. r \notin ToSet(sent)
    BY <1>3 DEF Range, ToSet
  <2>2. udp.cq \o Append(udp.wq, r) = Append(udp.cq \o udp.wq, r)
    <3>1. \A a, b \in Seq(Sends) : a \o Append(b, r) = Append(a \o b, r)
      BY ConcatAppend
    <3> QED BY <3>1, <1>2
  <2>3. Distinct(sent) /\ udp.cq \o udp.wq = sent
    BY <1>1 DEF SendsInOrder
  <2>4. sent' \in Seq(Sends) /\ Len(sent') = Len(sent) + 1 /\ Distinct(sent')
    BY <2>1, <2>3, <1>2, <1>3, AppendFacts
  <2> QED BY <2>2, <2>3, <2>4, <1>3, <1>7
<1>9. CASE udp.count = 0 /\ ~udp.processing
  <2>1. udp' \in uv__udp_sendmsg(u)
    BY <1>4, <1>9 DEF uv__udp_send
  <2>2. PICK n \in 0..Len(u.wq) :
              /\ udp' \in UdpHandles
              /\ udp'.cq \o udp'.wq = u.cq \o u.wq /\ Len(udp'.wq) = Len(u.wq) - n
              /\ n = 0 => udp'.cq = u.cq /\ udp'.fed = u.fed
              /\ n > 0 /\ ~u.unlinked => udp'.fed
              /\ udp'.fd = u.fd /\ udp'.pevents = u.pevents /\ udp'.active = u.active
              /\ udp'.recv = u.recv
              /\ udp'.count = u.count /\ udp'.processing = u.processing /\ udp'.closing = u.closing
              /\ udp'.unlinked = u.unlinked /\ udp'.at = u.at /\ udp'.cb = u.cb /\ udp'.out = u.out
    BY <2>1, <1>6, SendmsgFacts
  <2>3. udp.cq = <<>> /\ udp.wq = <<>>
    <3>1. sent = <<>>
      BY <1>1, <1>2, <1>9, EmptySeq DEF SendsInOrder
    <3> QED BY <3>1, <1>1, <1>2, ConcatEqualIffEmpty DEF SendsInOrder
  <2>4. Len(u.wq) = 1 /\ Len(udp'.wq) <= 1
    BY <2>2, <2>3, <1>5, <1>7, UdpEmpty
  <2>5. SendsInOrder'
    BY <2>2, <1>1, <1>7, <1>8 DEF SendsInOrder
  <2>6. UdpAsserts'
    BY <2>2, <1>1, <1>3, <1>7 DEF UdpAsserts, UdpKeeps
  <2>7. n > 0 => udp'.fed
    BY <2>2, <1>1, <1>3, <1>7 DEF UdpKeeps
  <2>8. n = 0 => udp'.cq = <<>>
    BY <2>2, <2>3, <1>7
  <2>9. UdpKeeps'
    <3>1. n = 0 \/ n > 0
      BY <2>4
    <3>2. ~udp'.closing /\ udp'.at \notin {"finish", "closed", "undefined"} /\ ~udp'.unlinked
      BY <2>2, <1>1, <1>3, <1>7 DEF UdpKeeps
    <3>3. udp'.cb => udp'.at \in {"recv", "completed", "finish"}
      BY <2>2, <1>1, <1>7 DEF UdpKeeps
    <3>4. udp'.out => udp'.at \in {"recv", "send"}
      BY <2>2, <1>1, <1>7 DEF UdpKeeps
    <3>5. udp'.cq # <<>> => udp'.fed
      BY <3>1, <2>7, <2>8
    <3>6. ~(Len(udp'.wq) > 1)
      BY <2>4, <2>2, LenProperties DEF UdpHandles
    <3>7. udp'.fd /\ udp'.active
      BY <2>2, <1>7
    <3> QED BY <3>2, <3>3, <3>4, <3>5, <3>6, <3>7 DEF UdpKeeps
  <2> QED BY <2>2, <2>5, <2>6, <2>9, <1>8 DEF UdpInv, UdpTypes
<1>10. CASE ~(udp.count = 0 /\ ~udp.processing)
  <2>1. udp' = [u EXCEPT !.pevents = @ \cup {"OUT"}]
    BY <1>4, <1>10 DEF uv__udp_send
  <2>2. udp' \in UdpHandles
    BY <2>1, <1>6 DEF UdpHandles
  <2>3. /\ udp'.wq = u.wq /\ udp'.cq = u.cq /\ udp'.count = u.count /\ udp'.fd = u.fd
        /\ udp'.active = u.active
        /\ udp'.pevents = u.pevents \cup {"OUT"} /\ udp'.recv = u.recv
        /\ udp'.processing = u.processing
        /\ udp'.closing = u.closing /\ udp'.unlinked = u.unlinked /\ udp'.at = u.at
        /\ udp'.cb = u.cb /\ udp'.out = u.out /\ udp'.fed = u.fed
    BY <2>1, <1>6 DEF UdpHandles
  <2>4. SendsInOrder'
    BY <2>3, <1>1, <1>7, <1>8 DEF SendsInOrder
  <2>5. UdpAsserts'
    BY <2>3, <1>1, <1>3, <1>7 DEF UdpAsserts, UdpKeeps
  <2>6. UdpKeeps'
    BY <2>3, <1>1, <1>3, <1>7 DEF UdpKeeps
  <2> QED BY <2>2, <2>4, <2>5, <2>6, <1>8 DEF UdpInv, UdpTypes
<1> QED BY <1>9, <1>10

LEMMA SendReadyStep ==
    ASSUME UdpInv, SendReady
    PROVE  UdpInv'
<1>1. UdpTypes /\ SendsInOrder /\ UdpAsserts /\ UdpKeeps
  BY DEF UdpInv
<1>2. udp \in UdpHandles /\ sent \in Seq(Sends) /\ sent' = sent /\ udp.at = "send" /\ ~udp.cb
  BY <1>1 DEF UdpTypes, SendReady
<1>3. CASE ~udp.out
  <2>1. udp' = [udp EXCEPT !.at = "loop"]
    BY <1>3 DEF SendReady
  <2>2. /\ udp' \in UdpHandles /\ udp'.at = "loop"
        /\ udp'.wq = udp.wq /\ udp'.cq = udp.cq /\ udp'.count = udp.count
        /\ udp'.processing = udp.processing /\ udp'.unlinked = udp.unlinked
        /\ udp'.closing = udp.closing /\ udp'.fd = udp.fd /\ udp'.active = udp.active
        /\ udp'.recv = udp.recv /\ udp'.pevents = udp.pevents /\ udp'.fed = udp.fed
        /\ udp'.cb = udp.cb /\ udp'.out = udp.out /\ udp'.stray = udp.stray
    BY <2>1, <1>2 DEF UdpHandles
  <2>3. SendsInOrder'
    BY <2>2, <1>1, <1>2, QueuesStay
  <2>4. UdpAsserts'
    BY <2>2, <1>1, <1>2 DEF UdpAsserts
  <2>5. UdpKeeps'
    BY <2>2, <1>1, <1>2, <1>3 DEF UdpKeeps
  <2> QED BY <2>2, <2>3, <2>4, <2>5, <1>2 DEF UdpInv, UdpTypes
<1>4. CASE udp.out
  <2>1. PICK u \in uv__udp_sendmsg(udp) :
           udp' = [u EXCEPT !.at = "completed", !.processing = TRUE, !.out = FALSE]
    BY <1>4 DEF SendReady
  <2>2. PICK n \in 0..Len(udp.wq) :
              /\ u \in UdpHandles
              /\ u.cq \o u.wq = udp.cq \o udp.wq /\ Len(u.wq) = Len(udp.wq) - n
              /\ u.pevents = udp.pevents /\ u.active = udp.active /\ u.recv = udp.recv
              /\ u.fd = udp.fd /\ u.count = udp.count /\ u.closing = udp.closing
              /\ u.unlinked = udp.unlinked /\ u.cb = udp.cb /\ u.stray = udp.stray
              /\ u.fed => udp.fed \/ (n > 0 /\ ~udp.unlinked)
    BY <1>2, SendmsgFacts
  <2>3. /\ udp' \in UdpHandles /\ udp'.at = "completed" /\ ~udp'.out
        /\ udp'.wq = u.wq /\ udp'.cq = u.cq /\ udp'.count = udp.count
        /\ udp'.unlinked = udp.unlinked /\ udp'.closing = udp.closing /\ udp'.fd = udp.fd
        /\ udp'.active = udp.active /\ udp'.recv = udp.recv /\ udp'.pevents = udp.pevents
        /\ udp'.cb = udp.cb /\ udp'.fed = u.fed /\ udp'.stray = udp.stray
    BY <2>1, <2>2 DEF UdpHandles
  <2>4. SendsInOrder'
    BY <2>2, <2>3, <1>1, <1>2 DEF SendsInOrder
  <2>5. UdpAsserts'
    <3>1. n > 0 => udp.wq # <<>>
      BY UdpEmpty
    <3>2. udp'.closing /\ udp'.fed => udp'.stray
      BY <3>1, <2>2, <2>3, <1>1, <1>2, <1>4 DEF UdpKeeps
    <3> QED BY <3>2, <2>3, <1>1, <1>2 DEF UdpAsserts
  <2>6. Len(udp'.wq) > 1 => Len(udp.wq) > 1
    <3>1. Len(udp.wq) \in Nat
      BY <1>2, LenProperties DEF UdpHandles
    <3> QED BY <3>1, <2>2, <2>3
  <2>7. UdpKeeps'
    BY <2>3, <2>6, <1>1, <1>2 DEF UdpKeeps
  <2> QED BY <2>3, <2>4, <2>5, <2>7, <1>2 DEF UdpInv, UdpTypes
<1> QED BY <1>3, <1>4

\* The oldest send is called back; after the last the processing ends.
LEMMA RunCompletedStep ==
    ASSUME UdpInv, uv__udp_run_completed
    PROVE  UdpInv'
<1>1. UdpTypes /\ SendsInOrder /\ UdpAsserts /\ UdpKeeps
  BY DEF UdpInv
<1>2. /\ udp \in UdpHandles /\ sent \in Seq(Sends) /\ udp.cq \in Seq(Sends) /\ udp.wq \in Seq(Sends)
      /\ udp.at \in {"completed", "finish"} /\ ~udp.cb
  BY <1>1 DEF UdpTypes, UdpHandles, uv__udp_run_completed
<1>3. CASE udp.cq # <<>>
  <2>1. /\ udp' = [udp EXCEPT !.cq = Tail(@), !.count = @ - 1, !.cb = TRUE]
        /\ sent' = Unlink(sent, Head(udp.cq))
    BY <1>3 DEF uv__udp_run_completed
  <2>2. /\ sent # <<>> /\ Head(sent) = Head(udp.cq) /\ Tail(sent) = Tail(udp.cq) \o udp.wq
    <3>1. \A a, b \in Seq(Sends) : a # <<>> =>
             a \o b # <<>> /\ Head(a \o b) = Head(a) /\ Tail(a \o b) = Tail(a) \o b
      BY ConcatHead
    <3> QED BY <3>1, <1>1, <1>2, <1>3 DEF SendsInOrder
  <2>3. sent' = Tail(sent)
    BY <2>1, <2>2, <1>1, <1>2, UnlinkHead DEF SendsInOrder
  <2>4. sent' \in Seq(Sends) /\ Len(sent') = Len(sent) - 1 /\ Distinct(sent')
    <3>1. Distinct(sent)
      BY <1>1 DEF SendsInOrder
    <3>2. /\ Tail(sent) \in Seq(Sends) /\ Len(Tail(sent)) = Len(sent) - 1
          /\ Distinct(Tail(sent))
      BY <3>1, <2>2, <1>2, TailFacts
    <3> QED BY <3>2, <2>3
  <2>5. Tail(udp.cq) \in Seq(Sends) /\ udp.count - 1 \in Nat
    <3>1. Len(sent) \in Nat \ {0}
      BY <2>2, <1>2, EmptySeq, LenProperties
    <3>2. udp.count = Len(sent)
      BY <1>1 DEF SendsInOrder
    <3>3. \A q \in Seq(Sends) : q # <<>> => Tail(q) \in Seq(Sends)
      BY TailFacts
    <3> QED BY <3>1, <3>2, <3>3, <1>2, <1>3
  <2>6. /\ udp' \in UdpHandles /\ udp'.cq = Tail(udp.cq) /\ udp'.count = udp.count - 1 /\ udp'.cb
        /\ udp'.wq = udp.wq /\ udp'.at = udp.at
        /\ udp'.unlinked = udp.unlinked
        /\ udp'.closing = udp.closing /\ udp'.fd = udp.fd /\ udp'.active = udp.active
        /\ udp'.recv = udp.recv /\ udp'.pevents = udp.pevents
        /\ udp'.out = udp.out /\ udp'.fed = udp.fed /\ udp'.stray = udp.stray
    BY <2>1, <2>5, <1>2 DEF UdpHandles
  <2>7. SendsInOrder'
    BY <2>2, <2>3, <2>4, <2>6, <1>1 DEF SendsInOrder
  <2>8. UdpAsserts'
    BY <2>6, <1>1, <1>2 DEF UdpAsserts
  <2>9. UdpKeeps'
    BY <2>6, <1>1, <1>2 DEF UdpKeeps
  <2> QED BY <2>4, <2>6, <2>7, <2>8, <2>9 DEF UdpInv, UdpTypes
<1>4. CASE udp.cq = <<>>
  <2>1. PICK u : u = IF udp.wq = <<>> THEN UdpStop(udp, "OUT") ELSE udp
    OBVIOUS
  <2>2. PICK a : a = IF udp.at = "finish" THEN "closed" ELSE "loop"
    OBVIOUS
  <2>3. udp' = [u EXCEPT !.processing = FALSE, !.at = a] /\ sent' = sent
    BY <2>1, <2>2, <1>4 DEF uv__udp_run_completed
  <2>4. Polled(udp)
    BY <1>1 DEF UdpKeeps, Polled
  <2>5. /\ u \in UdpHandles /\ OnlyPolling(udp, u) /\ u.fd = udp.fd /\ u.recv = udp.recv /\ Polled(u)
        /\ u.pevents \subseteq udp.pevents
        /\ udp.wq # <<>> => u.pevents = udp.pevents
    <3>1. CASE udp.wq = <<>>
      <4>1. u = UdpStop(udp, "OUT")
        BY <3>1, <2>1
      <4> QED BY <4>1, <3>1, <2>4, <1>2, UdpStopFacts
    <3>2. CASE udp.wq # <<>>
      <4>1. u = udp
        BY <3>2, <2>1
      <4> QED BY <4>1, <2>4, <1>2 DEF OnlyPolling
    <3> QED BY <3>1, <3>2
  <2>6. a \in {"closed", "loop"}
    BY <2>2
  <2>7. /\ udp' \in UdpHandles /\ udp'.at = a /\ ~udp'.processing /\ Polled(udp')
        /\ udp'.cq = u.cq /\ udp'.count = u.count /\ udp'.cb = u.cb /\ udp'.wq = u.wq
        /\ udp'.unlinked = u.unlinked /\ udp'.closing = u.closing /\ udp'.fd = u.fd
        /\ udp'.recv = u.recv /\ udp'.pevents = u.pevents /\ udp'.out = u.out
        /\ udp'.fed = u.fed /\ udp'.stray = u.stray
    BY <2>3, <2>5, <2>6 DEF UdpHandles, Polled
  <2>8. SendsInOrder'
    BY <2>3, <2>5, <2>7, <1>1, QueuesStay DEF OnlyPolling
  <2>9. a = "closed" => udp.closing /\ sent = <<>> /\ udp.count = 0
    <3>1. udp.at = "finish" => udp.wq = <<>> /\ udp.closing
      BY <1>1 DEF UdpKeeps
    <3>2. <<>> \o <<>> = <<>>
      BY UdpEmpty, ConcatEmptySeq
    <3>3. udp.at = "finish" => sent = <<>>
      BY <3>1, <3>2, <1>1, <1>4 DEF SendsInOrder
    <3> QED BY <3>1, <3>3, <2>2, <1>1, UdpEmpty DEF SendsInOrder
  <2>10. UdpAsserts'
    <3>1. udp.closing => udp.pevents = {} /\ ~udp.fd
      BY <1>1 DEF UdpAsserts
    <3>2. "IN" \in udp.pevents => udp.recv
      BY <1>1 DEF UdpAsserts
    <3>3. udp.closing /\ udp.fed => udp.stray
      BY <1>1 DEF UdpAsserts
    <3> QED BY <3>1, <3>2, <3>3, <2>3, <2>5, <2>6, <2>7, <2>9 DEF UdpAsserts, OnlyPolling
  <2>11. UdpKeeps'
    <3>1. udp'.wq = udp.wq /\ udp'.cq = <<>> /\ ~udp'.cb /\ udp'.out = udp.out
          /\ udp'.unlinked = udp.unlinked /\ udp'.closing = udp.closing
      BY <2>5, <2>7, <1>2, <1>4 DEF OnlyPolling
    <3>2. ~udp'.out
      BY <3>1, <1>1, <1>2 DEF UdpKeeps
    <3>3. udp'.at = "closed" => udp'.closing /\ udp'.wq = <<>>
      BY <3>1, <2>2, <2>7, <1>1 DEF UdpKeeps
    <3>4. ~udp'.closing /\ Len(udp'.wq) > 1 => "OUT" \in udp'.pevents
      BY <3>1, <2>5, <2>7, <1>1, UdpEmpty DEF UdpKeeps
    <3>5. udp'.unlinked => udp'.closing
      BY <3>1, <1>1 DEF UdpKeeps
    <3> QED BY <3>1, <3>2, <3>3, <3>4, <3>5, <2>6, <2>7 DEF UdpKeeps, Polled
  <2> QED BY <2>3, <2>7, <2>8, <2>10, <2>11, <1>2 DEF UdpInv, UdpTypes
<1> QED BY <1>3, <1>4

LEMMA UdpSteps == UdpInv /\ [UdpNext]_udpVars => UdpInv'
<1> SUFFICES ASSUME UdpInv, [UdpNext]_udpVars PROVE UdpInv'
  OBVIOUS
<1>1. CASE UdpNext
  BY <1>1, UdpUserStep, UdpEventStep, UdpCloseStep, UdpFinishCloseStep, StrayFeedStep,
     UdpReinitStep, UdpSendStep, SendReadyStep, RunCompletedStep DEF UdpNext
<1>2. CASE UNCHANGED udpVars
  BY <1>2 DEF udpVars, UdpInv, UdpTypes, SendsInOrder, UdpAsserts, UdpKeeps
<1> QED BY <1>1, <1>2

\* A UDP handle, with sends made, completed and closed in any order.
THEOREM UdpInductive == UdpSpec => []UdpInv
<1>1. UdpInit => UdpInv
  BY UdpNew DEF UdpInit
<1> QED BY <1>1, UdpSteps, PTL DEF UdpSpec

\* Sends are called back in order and once, send_queue_count counts them,
\* no completed send is left without a wakeup, and the assertions of
\* uv__udp_run_completed and uv__udp_finish_close hold.
THEOREM UdpCorrect == UdpSpec => []UdpRight
<1>1. UdpInv => UdpRight
  <2> SUFFICES ASSUME UdpInv PROVE UdpRight
    OBVIOUS
  <2>1. UdpTypes /\ SendsInOrder /\ UdpAsserts /\ UdpKeeps
    BY DEF UdpInv
  <2>2. udp.wq \in Seq(Sends) /\ Len(udp.wq) \in Nat /\ (udp.wq # <<>> => Len(udp.wq) # 0)
    <3>1. \A q \in Seq(Sends) : Len(q) \in Nat /\ (q # <<>> => Len(q) # 0)
      BY LenProperties, EmptySeq
    <3> QED BY <3>1, <2>1 DEF UdpTypes, UdpHandles
  <2>3. SendsNotStranded
    <3> SUFFICES ASSUME udp.at = "loop", ~udp.closing
                 PROVE  /\ udp.cq # <<>> => udp.fed
                        /\ udp.wq # <<>> /\ "OUT" \notin udp.pevents => Len(udp.wq) = 1
                        /\ udp.pevents # {} => udp.active
      BY DEF SendsNotStranded
    <3>1. udp.cq # <<>> => udp.fed
      BY <2>1 DEF UdpKeeps
    <3>2. "OUT" \notin udp.pevents => ~(Len(udp.wq) > 1)
      BY <2>1 DEF UdpKeeps
    <3>3. udp.pevents # {} => udp.active
      BY <2>1 DEF UdpKeeps
    <3>4. udp.wq # <<>> /\ "OUT" \notin udp.pevents => Len(udp.wq) = 1
      <4>1. PICK n \in Nat : n = Len(udp.wq)
        BY <2>2
      <4>2. udp.wq # <<>> => n # 0
        BY <4>1, <2>2
      <4>3. "OUT" \notin udp.pevents => ~(n > 1)
        BY <4>1, <3>2
      <4>4. n # 0 /\ ~(n > 1) => n = 1
        OBVIOUS
      <4> QED BY <4>1, <4>2, <4>3, <4>4, Zenon
    <3> QED BY <3>1, <3>3, <3>4
  <2> QED BY <2>1, <2>3 DEF UdpRight
<1> QED BY <1>1, UdpInductive, PTL

----------------------------------------------------------------------------
(* Descriptors taken in by a stream.                                       *)

ServerHandles ==
    [kind : {"tcp", "pipe", "ipc"}, fd : BOOLEAN, fname : BOOLEAN, delayed : BOOLEAN,
     polling : BOOLEAN, active : BOOLEAN, listening : BOOLEAN, closing : BOOLEAN,
     accepted : Fds \cup {NoFd}, queued : Seq(Fds), room : Nat, msg : Seq(Fds),
     at : {"loop", "accept", "accepted", "cmsg"}, cb : BOOLEAN, late : BOOLEAN]

ServerTypes ==
    /\ server \in ServerHandles
    /\ emfile \in BOOLEAN
    /\ open \in SUBSET Fds /\ clients \in SUBSET Fds /\ arrived \in Seq(Fds)

\* What kind of stream can be where, and when it polls.
ServerKeeps ==
    /\ server.accepted = NoFd => server.queued = <<>>
    /\ server.queued # <<>> => server.kind = "ipc"
    /\ server.listening => server.kind # "ipc"
    /\ server.kind # "ipc" /\ ~server.listening => server.accepted = NoFd /\ ~server.late
    /\ server.at = "cmsg" => server.kind = "ipc" /\ ~server.cb /\ ~server.closing
    /\ server.at # "cmsg" => server.msg = <<>>
    /\ server.at \in {"accept", "accepted"} => server.listening
    /\ server.at \in {"accept", "accepted"} /\ ~server.closing => server.polling /\ ~server.late
    /\ server.closing => server.accepted = NoFd /\ ~server.fd /\ ~server.polling
    /\ server.listening /\ server.late => ~server.polling

\* The inductive invariant of a stream that takes descriptors in.
ServerInv ==
    ServerTypes /\ ServerKeeps /\ DescriptorsOwned /\ HandedOnInOrder /\ ServerNotStalled

LEMMA NoFdIsNone == NoFd \notin Fds
BY ServerAssumption DEF NoFd

LEMMA OneFd ==
    ASSUME NEW d \in Fds
    PROVE  <<d>> \in Seq(Fds) /\ Len(<<d>>) = 1 /\ <<d>> # <<>> /\ Head(<<d>>) = d /\ Tail(<<d>>) = <<>>
           /\ Append(<<>>, d) = <<d>>
BY EmptySeq

LEMMA HeadThenTail ==
    ASSUME NEW q \in Seq(Fds), q # <<>>
    PROVE  <<Head(q)>> \o Tail(q) = q
<1>1. Len(q) \in Nat \ {0} /\ Head(q) = q[1]
  BY LenProperties, EmptySeq
<1>2. 1 \in 1..Len(q) /\ Len(q) \in 1..Len(q)
  BY <1>1
<1>3. SubSeq(q, 1, Len(q)) = <<q[1]>> \o SubSeq(q, 1 + 1, Len(q))
  BY <1>2, SubSeqRecursiveFirst
<1>4. SubSeq(q, 1, Len(q)) = q /\ Tail(q) = SubSeq(q, 2, Len(q))
  BY SubSeqFull, TailIsSubSeq
<1> QED BY <1>1, <1>3, <1>4

LEMMA ServerBegins ==
    ASSUME NEW kind \in {"tcp", "pipe", "ipc"}, server = NewServer(kind), emfile \in BOOLEAN,
           open \in SUBSET Fds, clients = open, arrived = <<>>
    PROVE  ServerInv
<1>1. ServerTypes
  BY UdpEmpty DEF NewServer, ServerTypes, ServerHandles
<1>2. ServerKeeps
  BY DEF NewServer, ServerKeeps
<1>3. /\ server.msg = <<>> /\ server.queued = <<>> /\ server.accepted = NoFd /\ server.room = 0
      /\ ~server.listening
  BY DEF NewServer
<1>4. <<>> \o <<>> = <<>> /\ Range(<<>>) = {}
  BY UdpEmpty, ConcatEmptySeq, EmptySeq DEF Range
<1>5. DescriptorsOwned
  BY <1>3, <1>4, UdpEmpty DEF DescriptorsOwned
<1>6. HandedOnInOrder
  BY <1>3, <1>4, UdpEmpty DEF HandedOnInOrder, uv_pipe_pending_count
<1>7. ServerNotStalled
  BY <1>3 DEF ServerNotStalled
<1> QED BY <1>1, <1>2, <1>5, <1>6, <1>7 DEF ServerInv

----------------------------------------------------------------------------
(* Steps that move no descriptor.                                          *)

SameBooks(s, t) ==
    t.kind = s.kind /\ t.accepted = s.accepted /\ t.queued = s.queued /\ t.room = s.room /\ t.msg = s.msg

LEMMA BooksStay ==
    ASSUME DescriptorsOwned, HandedOnInOrder, SameBooks(server, server'),
           UNCHANGED <<open, clients, arrived>>
    PROVE  DescriptorsOwned' /\ HandedOnInOrder'
BY DEF DescriptorsOwned, HandedOnInOrder, SameBooks, uv_pipe_pending_count

LEMMA ServerSetupStep ==
    ASSUME ServerInv, uv__tcp_bind \/ uv_pipe_bind \/ uv_listen
    PROVE  ServerInv'
<1>1. ServerTypes /\ ServerKeeps /\ DescriptorsOwned /\ HandedOnInOrder /\ ServerNotStalled
  BY DEF ServerInv
<1>2. /\ server \in ServerHandles /\ UNCHANGED <<emfile, open, clients, arrived>>
      /\ UserRuns /\ ~server.closing
  BY <1>1 DEF ServerTypes, uv__tcp_bind, uv_pipe_bind, uv_listen, ServerCall, Still
<1>3. /\ server' \in ServerHandles /\ SameBooks(server, server') /\ server'.kind = server.kind
      /\ server'.closing = server.closing /\ server'.at = server.at /\ server'.cb = server.cb
      /\ server'.late = server.late
      /\ \/ server'.listening = server.listening /\ server'.polling = server.polling
         \/ /\ server.kind # "ipc" /\ ~server.listening
            /\ server'.listening /\ server'.polling
  <2>1. CASE uv__tcp_bind
    BY <2>1, <1>2 DEF uv__tcp_bind, ServerHandles, SameBooks
  <2>2. CASE uv_pipe_bind
    BY <2>2, <1>2 DEF uv_pipe_bind, ServerHandles, SameBooks
  <2>3. CASE uv_listen /\ server' = [server EXCEPT !.fd = TRUE]
    BY <2>3, <1>2 DEF ServerHandles, SameBooks
  <2>4. CASE uv_listen /\ server' = [server EXCEPT !.fd = TRUE, !.listening = TRUE,
                                                   !.polling = TRUE, !.active = TRUE]
    BY <2>4, <1>2 DEF uv_listen, ServerHandles, SameBooks
  <2> QED BY <2>1, <2>2, <2>3, <2>4 DEF uv_listen
<1>4. DescriptorsOwned' /\ HandedOnInOrder'
  BY <1>1, <1>2, <1>3, BooksStay
<1>5. ServerKeeps'
  BY <1>1, <1>2, <1>3 DEF ServerKeeps, SameBooks
<1>6. ServerNotStalled'
  BY <1>1, <1>2, <1>3 DEF ServerKeeps, ServerNotStalled, SameBooks
<1> QED BY <1>1, <1>2, <1>3, <1>4, <1>5, <1>6 DEF ServerInv, ServerTypes

LEMMA ServerEventStep ==
    ASSUME ServerInv,
           uv__server_io \/ uv__emfile_trick \/ ConnectionTaken \/ ReadIpc \/ ConnectionCbReturns
    PROVE  ServerInv'
<1>1. ServerTypes /\ ServerKeeps /\ DescriptorsOwned /\ HandedOnInOrder /\ ServerNotStalled
  BY DEF ServerInv
<1>2. /\ server \in ServerHandles /\ UNCHANGED <<open, clients, arrived>>
  BY <1>1 DEF ServerTypes, uv__server_io, uv__emfile_trick, ConnectionTaken, ReadIpc,
              ConnectionCbReturns, Still
<1>e. emfile' \in BOOLEAN
  BY <1>1 DEF ServerTypes, uv__server_io, uv__emfile_trick, ConnectionTaken, ReadIpc,
              ConnectionCbReturns, Still
<1>3. /\ server' \in ServerHandles /\ SameBooks(server, server') /\ server'.kind = server.kind
      /\ server'.closing = server.closing /\ server'.late = server.late /\ server'.fd = server.fd
      /\ server'.listening = server.listening
      /\ server.kind # "ipc" /\ server'.polling # server.polling =>
            server.accepted # NoFd /\ server'.at = "loop" /\ ~server'.polling
      /\ server.at = "cmsg" <=> server'.at = "cmsg"
      /\ server'.cb => server'.at = "accept" \/ server.cb
  <2>1. CASE uv__server_io
    BY <2>1, <1>2 DEF uv__server_io, ServerHandles, SameBooks
  <2>2. CASE uv__emfile_trick
    <3>1. CASE server' = [server EXCEPT !.at = "loop"]
      BY <2>2, <3>1, <1>2 DEF uv__emfile_trick, ServerHandles, SameBooks
    <3>2. CASE server' = [server EXCEPT !.cb = TRUE]
      BY <2>2, <3>2, <1>2 DEF uv__emfile_trick, ServerHandles, SameBooks
    <3> QED BY <2>2, <3>1, <3>2 DEF uv__emfile_trick
  <2>3. CASE ConnectionTaken
    <3>1. CASE server.accepted = NoFd
      BY <2>3, <3>1, <1>2 DEF ConnectionTaken, ServerHandles, SameBooks
    <3>2. CASE server.accepted # NoFd
      BY <2>3, <3>2, <1>2 DEF ConnectionTaken, ServerHandles, SameBooks
    <3> QED BY <3>1, <3>2
  <2>4. CASE ReadIpc
    <3>1. (~server.polling) \in BOOLEAN
      OBVIOUS
    <3> QED BY <2>4, <3>1, <1>2, ZenonT(60) DEF ReadIpc, ServerHandles, SameBooks
  <2>5. CASE ConnectionCbReturns
    BY <2>5, <1>2 DEF ConnectionCbReturns, ServerHandles, SameBooks
  <2> QED BY <2>1, <2>2, <2>3, <2>4, <2>5
<1>4. DescriptorsOwned' /\ HandedOnInOrder'
  BY <1>1, <1>2, <1>3, BooksStay
<1>5. CASE uv__server_io
  <2>1. /\ server'.at = "accept" /\ server'.polling = server.polling /\ server'.cb = server.cb
        /\ server.at = "loop" /\ ~server.cb /\ server.listening /\ server.polling
    BY <1>5, <1>2 DEF uv__server_io, ServerHandles
  <2>2. ServerKeeps' /\ ServerNotStalled'
    BY <2>1, <1>1, <1>3 DEF ServerKeeps, ServerNotStalled, SameBooks
  <2> QED BY <2>2, <1>1, <1>2, <1>3, <1>4, <1>e DEF ServerInv, ServerTypes
<1>6. CASE uv__emfile_trick
  <2>1. /\ server'.at \in {"loop", "accept"} /\ server'.polling = server.polling
        /\ server.at = "accept" /\ server.fd
    BY <1>6, <1>2 DEF uv__emfile_trick, ServerHandles
  <2>2. ServerKeeps' /\ ServerNotStalled'
    BY <2>1, <1>1, <1>3 DEF ServerKeeps, ServerNotStalled, SameBooks
  <2> QED BY <2>2, <1>1, <1>2, <1>3, <1>4, <1>e DEF ServerInv, ServerTypes
<1>7. CASE ConnectionTaken
  <2>1. /\ server.at = "accepted" /\ server'.cb = server.cb /\ ~server.cb
        /\ \/ server.accepted = NoFd /\ server'.at = "accept" /\ server'.polling = server.polling
           \/ server.accepted # NoFd /\ server'.at = "loop" /\ ~server'.polling
    BY <1>7, <1>2 DEF ConnectionTaken, ServerHandles
  <2>2. ServerKeeps' /\ ServerNotStalled'
    BY <2>1, <1>1, <1>3 DEF ServerKeeps, ServerNotStalled, SameBooks
  <2> QED BY <2>2, <1>1, <1>2, <1>3, <1>4, <1>e DEF ServerInv, ServerTypes
<1>8. CASE ReadIpc
  <2>1. server'.at = server.at /\ server'.cb = server.cb /\ server.kind = "ipc" /\ ~server.closing
    BY <1>8, <1>2 DEF ReadIpc, ServerCall, ServerHandles
  <2>2. ServerKeeps' /\ ServerNotStalled'
    BY <2>1, <1>1, <1>3 DEF ServerKeeps, ServerNotStalled, SameBooks
  <2> QED BY <2>2, <1>1, <1>2, <1>3, <1>4, <1>e DEF ServerInv, ServerTypes
<1>9. CASE ConnectionCbReturns
  <2>1. server'.at = server.at /\ ~server'.cb /\ server'.polling = server.polling
    BY <1>9, <1>2 DEF ConnectionCbReturns, ServerHandles
  <2>2. ServerKeeps' /\ ServerNotStalled'
    BY <2>1, <1>1, <1>3 DEF ServerKeeps, ServerNotStalled, SameBooks
  <2> QED BY <2>2, <1>1, <1>2, <1>3, <1>4, <1>e DEF ServerInv, ServerTypes
<1> QED BY <1>5, <1>6, <1>7, <1>8, <1>9

----------------------------------------------------------------------------
(* Steps that move descriptors.                                            *)

\* Outside uv__stream_recv_cmsg the open descriptors are the clients' and
\* the ones that wait to be handed on.
LEMMA Waiting ==
    ASSUME ServerTypes, server.msg = <<>>
    PROVE  DescriptorsOwned <=>
              /\ open = clients \cup ToSet(arrived)
              /\ clients \cap ToSet(arrived) = {}
              /\ Distinct(arrived)
<1>1. arrived \o <<>> = arrived /\ arrived \in Seq(Fds)
  BY ConcatEmptySeq DEF ServerTypes
<1>2. Range(arrived) = ToSet(arrived)
  BY DEF Range, ToSet
<1> QED BY <1>1, <1>2 DEF DescriptorsOwned

\* The accepted descriptor is the oldest of the waiting ones.
LEMMA AcceptedIsOldest ==
    ASSUME ServerTypes, ServerKeeps, HandedOnInOrder
    PROVE  /\ server.accepted = NoFd => arrived = <<>>
           /\ server.accepted # NoFd =>
                 /\ arrived # <<>> /\ Head(arrived) = server.accepted
                 /\ Tail(arrived) = server.queued
                 /\ ToSet(arrived) = {server.accepted} \cup ToSet(server.queued)
<1>1. server.queued \in Seq(Fds) /\ server.accepted \in Fds \cup {NoFd}
  BY DEF ServerTypes, ServerHandles
<1>2. CASE server.accepted = NoFd
  <2>1. arrived = <<>> \o <<>>
    BY <1>2 DEF HandedOnInOrder, ServerKeeps
  <2>2. <<>> \o <<>> = <<>>
    BY UdpEmpty, ConcatEmptySeq
  <2> QED BY <1>2, <2>1, <2>2
<1>3. CASE server.accepted # NoFd
  <2>1. PICK a : a = server.accepted
    OBVIOUS
  <2>2. PICK q : q = server.queued
    OBVIOUS
  <2>3. a \in Fds /\ q \in Seq(Fds) /\ arrived = <<a>> \o q
    BY <2>1, <2>2, <1>1, <1>3 DEF HandedOnInOrder
  <2>4. <<a>> \in Seq(Fds) /\ <<a>> # <<>> /\ Head(<<a>>) = a /\ Tail(<<a>>) = <<>>
    BY <2>3, OneFd
  <2>5. arrived # <<>> /\ Head(arrived) = a /\ Tail(arrived) = <<>> \o q
    BY <2>3, <2>4, ConcatHead
  <2>6. <<>> \o q = q
    BY <2>3, ConcatEmptySeq
  <2>7. arrived \in Seq(Fds)
    BY DEF ServerTypes
  <2>8. ToSet(arrived) = ToSet(Tail(arrived)) \cup {Head(arrived)}
    BY <2>5, <2>7, TailFacts
  <2> QED BY <2>1, <2>2, <2>5, <2>6, <2>8, <1>3
<1> QED BY <1>2, <1>3

LEMMA AcceptStep ==
    ASSUME ServerInv, uv__accept
    PROVE  ServerInv'
<1>1. ServerTypes /\ ServerKeeps /\ DescriptorsOwned /\ HandedOnInOrder /\ ServerNotStalled
  BY DEF ServerInv
<1>2. server \in ServerHandles /\ emfile' = emfile /\ clients' = clients /\ server.at = "accept"
  BY <1>1 DEF ServerTypes, uv__accept, Still
<1>3. ASSUME UNCHANGED <<open, arrived>>,
             server' = [server EXCEPT !.at = "loop"] \/ server' = [server EXCEPT !.cb = TRUE]
      PROVE  ServerInv'
  <2>1. /\ server' \in ServerHandles /\ SameBooks(server, server') /\ server'.kind = server.kind
        /\ server'.closing = server.closing /\ server'.late = server.late /\ server'.fd = server.fd
        /\ server'.listening = server.listening /\ server'.polling = server.polling
        /\ server'.at \in {"loop", "accept"}
    <3>1. CASE server' = [server EXCEPT !.at = "loop"]
      BY <3>1, <1>2 DEF ServerHandles, SameBooks
    <3>2. CASE server' = [server EXCEPT !.cb = TRUE]
      BY <3>2, <1>2 DEF ServerHandles, SameBooks
    <3> QED BY <1>3, <3>1, <3>2
  <2>2. DescriptorsOwned' /\ HandedOnInOrder'
    BY <2>1, <1>1, <1>2, <1>3, BooksStay
  <2>3. ServerKeeps' /\ ServerNotStalled'
    BY <2>1, <1>1, <1>2 DEF ServerKeeps, ServerNotStalled, SameBooks
  <2> QED BY <2>1, <2>2, <2>3, <1>1, <1>2, <1>3 DEF ServerInv, ServerTypes
<1>4. ASSUME NEW d \in Fds \ open, server.fd,
             server' = [server EXCEPT !.accepted = d, !.at = "accepted", !.cb = TRUE],
             open' = open \cup {d}, arrived' = Append(arrived, d)
      PROVE  ServerInv'
  <2>1. ~server.closing /\ server.accepted = NoFd /\ server.queued = <<>> /\ server.msg = <<>>
    BY <1>1, <1>2, <1>4 DEF ServerKeeps, ServerNotStalled
  <2>2. arrived = <<>> /\ arrived' = <<d>>
    BY <2>1, <1>1, <1>4, AcceptedIsOldest, OneFd
  <2>3. /\ server' \in ServerHandles /\ server'.accepted = d /\ server'.at = "accepted" /\ server'.cb
        /\ server'.queued = <<>> /\ server'.msg = <<>> /\ server'.kind = server.kind
        /\ server'.closing = server.closing /\ server'.late = server.late /\ server'.fd = server.fd
        /\ server'.listening = server.listening /\ server'.polling = server.polling
        /\ server'.room = server.room
    BY <2>1, <1>2, <1>4 DEF ServerHandles
  <2>4. ServerTypes'
    BY <2>2, <2>3, <1>1, <1>2, <1>4, OneFd DEF ServerTypes
  <2>5. d # NoFd
    BY NoFdIsNone
  <2>6. HandedOnInOrder'
    <3>1. <<d>> \o <<>> = <<d>> /\ Len(<<d>>) = 1
      BY OneFd, ConcatEmptySeq
    <3>2. Len(<<>>) <= server.room
      BY <2>1, <1>1 DEF HandedOnInOrder
    <3> QED BY <3>1, <3>2, <2>2, <2>3, <2>5, UdpEmpty DEF HandedOnInOrder, uv_pipe_pending_count
  <2>7. DescriptorsOwned'
    <3>1. open = clients
      <4>1. open = clients \cup ToSet(arrived)
        BY <2>1, <1>1, Waiting
      <4>2. ToSet(arrived) = {}
        BY <2>2, EmptySeq DEF ToSet
      <4> QED BY <4>1, <4>2
    <3>2. <<d>> \o <<>> = <<d>>
      BY OneFd, ConcatEmptySeq
    <3>3. Range(<<d>>) = {d} /\ Distinct(<<d>>)
      BY OneFd DEF Range, Distinct
    <3> QED BY <3>1, <3>2, <3>3, <2>2, <2>3, <1>2, <1>4 DEF DescriptorsOwned
  <2>8. ServerKeeps' /\ ServerNotStalled'
    BY <2>3, <2>1, <2>5, <1>1, <1>2 DEF ServerKeeps, ServerNotStalled
  <2> QED BY <2>4, <2>6, <2>7, <2>8 DEF ServerInv
<1>5. \/ UNCHANGED <<open, arrived>> /\ server' = [server EXCEPT !.at = "loop"]
      \/ UNCHANGED <<open, arrived>> /\ server.fd /\ server' = [server EXCEPT !.cb = TRUE]
      \/ \E d \in Fds \ open :
             /\ server.fd
             /\ server' = [server EXCEPT !.accepted = d, !.at = "accepted", !.cb = TRUE]
             /\ open' = open \cup {d} /\ arrived' = Append(arrived, d)
  BY DEF uv__accept, Still
<1> QED BY <1>3, <1>4, <1>5

LEMMA RecvmsgStep ==
    ASSUME ServerInv, uv__recvmsg
    PROVE  ServerInv'
<1>1. ServerTypes /\ ServerKeeps /\ DescriptorsOwned /\ HandedOnInOrder /\ ServerNotStalled
  BY DEF ServerInv
<1>2. /\ server \in ServerHandles /\ UNCHANGED <<emfile, clients, arrived>>
      /\ server.kind = "ipc" /\ server.at = "loop" /\ ~server.cb
  BY <1>1 DEF ServerTypes, uv__recvmsg, Still
<1>3. PICK ds \in Arrivals : /\ server' = [server EXCEPT !.msg = ds, !.at = "cmsg"]
                             /\ open' = open \cup Range(ds)
  BY DEF uv__recvmsg
<1>4. ds \in Seq(Fds \ open) /\ Distinct(ds)
  <2>1. PICK n \in 0..Cardinality(Fds) : ds \in [1..n -> Fds \ open]
    BY DEF Arrivals
  <2>2. n \in Nat
    OBVIOUS
  <2>3. ds \in Seq(Fds \ open)
    BY <2>1, <2>2, SeqDef
  <2> QED BY <2>3 DEF Arrivals
<1>5. ds \in Seq(Fds) /\ Range(ds) = ToSet(ds) /\ ToSet(ds) \subseteq Fds \ open
  <2>1. \A i \in DOMAIN ds : ds[i] \in Fds \ open
    BY <1>4, LenProperties, ElementOfSeq
  <2>2. ToSet(ds) \subseteq Fds \ open
    BY <2>1 DEF ToSet
  <2>3. Seq(Fds \ open) \subseteq Seq(Fds)
    BY SeqDef
  <2>4. Range(ds) = ToSet(ds)
    BY DEF Range, ToSet
  <2> QED BY <2>2, <2>3, <2>4, <1>4
<1>6. /\ server' \in ServerHandles /\ server'.msg = ds /\ server'.at = "cmsg"
      /\ server'.accepted = server.accepted /\ server'.queued = server.queued
      /\ server'.room = server.room /\ server'.kind = server.kind /\ server'.cb = server.cb
      /\ server'.closing = server.closing /\ server'.late = server.late /\ server'.fd = server.fd
      /\ server'.listening = server.listening /\ server'.polling = server.polling
  BY <1>2, <1>3, <1>5 DEF ServerHandles
<1>7. ServerTypes'
  BY <1>1, <1>2, <1>3, <1>5, <1>6 DEF ServerTypes
<1>8. DescriptorsOwned'
  <2>1. server.msg = <<>>
    BY <1>1, <1>2 DEF ServerKeeps
  <2>2. /\ open = clients \cup ToSet(arrived)
        /\ clients \cap ToSet(arrived) = {}
        /\ Distinct(arrived)
    BY <2>1, <1>1, Waiting
  <2>3. arrived \in Seq(Fds)
    BY <1>1 DEF ServerTypes
  <2>4. ToSet(arrived) \cap ToSet(ds) = {} /\ clients \cap ToSet(ds) = {}
    BY <2>2, <1>5
  <2>5. ToSet(arrived \o ds) = ToSet(arrived) \cup ToSet(ds) /\ Distinct(arrived \o ds)
    BY <2>2, <2>3, <2>4, <1>4, <1>5, ConcatFacts
  <2>6. Range(arrived \o ds) = ToSet(arrived \o ds)
    BY DEF Range, ToSet
  <2>7. open' = clients \cup (ToSet(arrived) \cup ToSet(ds))
    BY <2>2, <1>3, <1>5
  <2> QED BY <2>2, <2>4, <2>5, <2>6, <2>7, <1>2, <1>6 DEF DescriptorsOwned
<1>9. HandedOnInOrder'
  BY <1>1, <1>2, <1>6 DEF HandedOnInOrder, uv_pipe_pending_count
<1>10. ~server.closing
  BY <1>1 DEF ServerKeeps, uv__recvmsg
<1>11. ServerKeeps' /\ ServerNotStalled'
  BY <1>1, <1>2, <1>6, <1>10 DEF ServerKeeps, ServerNotStalled
<1> QED BY <1>7, <1>8, <1>9, <1>11 DEF ServerInv

\* One descriptor goes from the message to the place it waits in.
LEMMA TakeStep ==
    ASSUME ServerInv, server.at = "cmsg", server.msg # <<>>,
           server' = [Take(server, Head(server.msg)) EXCEPT !.msg = Tail(@)],
           arrived' = Append(arrived, Head(server.msg)), UNCHANGED <<emfile, open, clients>>
    PROVE  ServerInv'
<1>1. ServerTypes /\ ServerKeeps /\ DescriptorsOwned /\ HandedOnInOrder /\ ServerNotStalled
  BY DEF ServerInv
<1>2. server \in ServerHandles /\ arrived \in Seq(Fds)
  BY <1>1 DEF ServerTypes
<1>3. PICK m : m = server.msg
  OBVIOUS
<1>4. PICK h : h = Head(server.msg)
  OBVIOUS
<1>5. PICK q : q = server.queued
  OBVIOUS
<1>6. m \in Seq(Fds) /\ m # <<>> /\ q \in Seq(Fds) /\ server.accepted \in Fds \cup {NoFd} /\ h = Head(m)
  BY <1>2, <1>3, <1>4, <1>5 DEF ServerHandles
<1>7. h \in Fds /\ Tail(m) \in Seq(Fds)
  BY <1>6, TailFacts
<1>8. h # NoFd
  BY <1>7, NoFdIsNone
<1>9. PICK s : s = Take(server, h)
  OBVIOUS
<1>10. /\ s \in ServerHandles /\ s.msg = m /\ s.kind = server.kind /\ s.at = server.at
       /\ s.cb = server.cb /\ s.closing = server.closing /\ s.listening = server.listening
       /\ s.accepted # NoFd
       /\ Len(s.queued) <= s.room
       /\ (IF s.accepted = NoFd THEN <<>> ELSE <<s.accepted>>) \o s.queued = Append(arrived, h)
       /\ Len(s.queued) + 1 = Len(arrived) + 1
  <2>1. CASE server.accepted = NoFd
    <3>1. s = [server EXCEPT !.accepted = h]
      BY <2>1, <1>9 DEF Take
    <3>2. q = <<>> /\ arrived = <<>> /\ Append(arrived, h) = <<h>>
      BY <2>1, <1>1, <1>5, <1>7, AcceptedIsOldest, OneFd DEF ServerKeeps
    <3>3. <<h>> \o <<>> = <<h>>
      BY <1>7, OneFd, ConcatEmptySeq
    <3>4. /\ s \in ServerHandles /\ s.msg = m /\ s.kind = server.kind /\ s.at = server.at
          /\ s.cb = server.cb /\ s.closing = server.closing /\ s.listening = server.listening
          /\ s.accepted = h /\ s.queued = q /\ s.room = server.room
      BY <3>1, <1>2, <1>3, <1>5, <1>7 DEF ServerHandles
    <3>5. Len(q) <= server.room
      BY <1>1, <1>5 DEF HandedOnInOrder
    <3> QED BY <3>2, <3>3, <3>4, <3>5, <1>8, UdpEmpty
  <2>2. CASE server.accepted # NoFd
    <3>1. PICK n : n = IF q = <<>> THEN Chunk
                       ELSE IF Len(q) = server.room THEN server.room + Chunk ELSE server.room
      OBVIOUS
    <3>2. s = [server EXCEPT !.queued = Append(q, h), !.room = n]
      BY <2>2, <3>1, <1>5, <1>9 DEF Take, uv__stream_queue_fd
    <3>3. PICK a : a = server.accepted
      OBVIOUS
    <3>4. a \in Fds /\ arrived = <<a>> \o q
      BY <2>2, <3>3, <1>1, <1>5, <1>6 DEF HandedOnInOrder
    <3>5. /\ Append(q, h) \in Seq(Fds) /\ Len(Append(q, h)) = Len(q) + 1
      BY <1>6, <1>7, AppendFacts
    <3>6. server.room \in Nat /\ Len(q) \in Nat /\ Len(q) <= server.room /\ (q = <<>> => Len(q) = 0)
      <4>1. server.room \in Nat
        BY <1>2 DEF ServerHandles
      <4>2. Len(q) \in Nat
        BY <1>6, LenProperties
      <4>3. Len(q) <= server.room
        BY <1>1, <1>5 DEF HandedOnInOrder
      <4> QED BY <4>1, <4>2, <4>3, UdpEmpty
    <3>7. n \in Nat /\ Len(q) + 1 <= n
      BY <3>1, <3>6, ServerAssumption
    <3>8. /\ s \in ServerHandles /\ s.msg = m /\ s.kind = server.kind /\ s.at = server.at
          /\ s.cb = server.cb /\ s.closing = server.closing /\ s.listening = server.listening
          /\ s.accepted = a /\ s.queued = Append(q, h) /\ s.room = n
      BY <3>2, <3>3, <3>5, <3>7, <1>2, <1>3 DEF ServerHandles
    <3>9. <<a>> \in Seq(Fds) /\ Len(<<a>>) = 1
      BY <3>4, OneFd
    <3>10. <<a>> \o Append(q, h) = Append(<<a>> \o q, h)
      BY <3>9, <1>6, <1>7, ConcatAppend
    <3>11. Len(arrived) = Len(q) + 1
      BY <3>4, <3>9, <1>6, <3>6, ConcatProperties
    <3> QED BY <2>2, <3>3, <3>4, <3>5, <3>7, <3>8, <3>10, <3>11
  <2> QED BY <2>1, <2>2
<1>11. server' = [s EXCEPT !.msg = Tail(m)]
  BY <1>4, <1>9, <1>10
<1>12. /\ server' \in ServerHandles /\ server'.msg = Tail(m) /\ server'.kind = s.kind
       /\ server'.at = s.at /\ server'.cb = s.cb /\ server'.closing = s.closing
       /\ server'.listening = s.listening /\ server'.accepted = s.accepted
       /\ server'.queued = s.queued /\ server'.room = s.room
  BY <1>7, <1>10, <1>11 DEF ServerHandles
<1>13. arrived' = Append(arrived, h) /\ arrived' \in Seq(Fds) /\ Len(arrived') = Len(arrived) + 1
  BY <1>2, <1>4, <1>7, AppendFacts
<1>14. ServerTypes'
  BY <1>1, <1>12, <1>13 DEF ServerTypes
<1>15. DescriptorsOwned'
  <2>1. <<h>> \in Seq(Fds)
    BY <1>7, OneFd
  <2>2. Append(arrived, h) = arrived \o <<h>>
    BY <1>2, <1>7, AppendIsConcat
  <2>3. (arrived \o <<h>>) \o Tail(m) = arrived \o (<<h>> \o Tail(m))
    BY <2>1, <1>2, <1>7, ConcatAssociative
  <2>4. <<h>> \o Tail(m) = m
    BY <1>6, HeadThenTail
  <2>5. arrived' \o server'.msg = arrived \o server.msg
    BY <2>2, <2>3, <2>4, <1>3, <1>12, <1>13
  <2> QED BY <2>5, <1>1 DEF DescriptorsOwned
<1>16. HandedOnInOrder'
  <2>1. Len(s.queued) + 1 = Len(arrived')
    BY <1>10, <1>13
  <2> QED BY <2>1, <1>10, <1>12, <1>13 DEF HandedOnInOrder, uv_pipe_pending_count
<1>17. ServerKeeps' /\ ServerNotStalled'
  <2>1. server.kind = "ipc" /\ ~server.listening /\ ~server.cb /\ ~server.closing
    BY <1>1 DEF ServerKeeps
  <2> QED BY <2>1, <1>10, <1>12 DEF ServerKeeps, ServerNotStalled
<1> QED BY <1>14, <1>15, <1>16, <1>17 DEF ServerInv

LEMMA CmsgStep ==
    ASSUME ServerInv, uv__stream_recv_cmsg
    PROVE  ServerInv'
<1>1. ServerTypes /\ ServerKeeps /\ DescriptorsOwned /\ HandedOnInOrder /\ ServerNotStalled
  BY DEF ServerInv
<1>2. /\ server \in ServerHandles /\ UNCHANGED <<emfile, clients>> /\ server.at = "cmsg"
      /\ arrived \in Seq(Fds) /\ server.msg \in Seq(Fds)
  BY <1>1 DEF ServerTypes, ServerHandles, uv__stream_recv_cmsg, Still
<1>3. ASSUME server' = [server EXCEPT !.msg = <<>>, !.at = "loop", !.cb = TRUE],
             open' = open \ Range(server.msg), arrived' = arrived
      PROVE  ServerInv'
  <2>1. /\ server' \in ServerHandles /\ server'.msg = <<>> /\ server'.at = "loop" /\ server'.cb
        /\ server'.accepted = server.accepted /\ server'.queued = server.queued
        /\ server'.room = server.room /\ server'.kind = server.kind
        /\ server'.closing = server.closing /\ server'.listening = server.listening
    BY <1>2, <1>3, UdpEmpty DEF ServerHandles
  <2>2. ServerTypes'
    BY <2>1, <1>1, <1>2, <1>3 DEF ServerTypes
  <2>3. DescriptorsOwned'
    <3>1. PICK m : m = server.msg
      OBVIOUS
    <3>2. m \in Seq(Fds)
      BY <3>1, <1>2
    <3>3. /\ ToSet(arrived \o m) = ToSet(arrived) \cup ToSet(m)
          /\ Distinct(arrived \o m) => Distinct(arrived) /\ ToSet(arrived) \cap ToSet(m) = {}
      BY <3>2, <1>2, ConcatFacts
    <3>4. Range(arrived \o m) = ToSet(arrived \o m) /\ Range(m) = ToSet(m)
          /\ Range(arrived) = ToSet(arrived)
      BY DEF Range, ToSet
    <3>5. arrived \o <<>> = arrived
      BY <1>2, ConcatEmptySeq
    <3>6. /\ open = clients \cup ToSet(arrived \o m) /\ clients \cap ToSet(arrived \o m) = {}
          /\ Distinct(arrived \o m)
      BY <3>1, <3>4, <1>1 DEF DescriptorsOwned
    <3>7. open' = clients \cup ToSet(arrived)
      BY <3>1, <3>3, <3>4, <3>6, <1>3
    <3>8. clients \cap ToSet(arrived) = {} /\ Distinct(arrived)
      BY <3>3, <3>6
    <3> QED BY <3>4, <3>5, <3>7, <3>8, <2>1, <1>2, <1>3 DEF DescriptorsOwned
  <2>4. HandedOnInOrder'
    BY <2>1, <1>1, <1>3 DEF HandedOnInOrder, uv_pipe_pending_count
  <2>5. ServerKeeps' /\ ServerNotStalled'
    BY <2>1, <1>1, <1>2 DEF ServerKeeps, ServerNotStalled
  <2> QED BY <2>2, <2>3, <2>4, <2>5 DEF ServerInv
<1>4. CASE server.msg = <<>> /\ server' = [server EXCEPT !.at = "loop", !.cb = TRUE]
           /\ UNCHANGED <<open, arrived>>
  <2>1. server' = [server EXCEPT !.msg = <<>>, !.at = "loop", !.cb = TRUE]
    BY <1>2, <1>4 DEF ServerHandles
  <2>2. Range(server.msg) = {}
    BY <1>4, EmptySeq DEF Range
  <2> QED BY <2>1, <2>2, <1>3, <1>4
<1>5. CASE /\ server.msg # <<>>
           /\ server' = [Take(server, Head(server.msg)) EXCEPT !.msg = Tail(@)]
           /\ arrived' = Append(arrived, Head(server.msg)) /\ open' = open
  BY <1>2, <1>5, TakeStep
<1>6. \/ server.msg = <<>> /\ server' = [server EXCEPT !.at = "loop", !.cb = TRUE]
         /\ UNCHANGED <<open, arrived>>
      \/ /\ server.msg # <<>>
         /\ server' = [Take(server, Head(server.msg)) EXCEPT !.msg = Tail(@)]
         /\ arrived' = Append(arrived, Head(server.msg)) /\ open' = open
      \/ /\ server' = [server EXCEPT !.msg = <<>>, !.at = "loop", !.cb = TRUE]
         /\ open' = open \ Range(server.msg) /\ arrived' = arrived
  BY DEF uv__stream_recv_cmsg, Still, CloseAll
<1> QED BY <1>3, <1>4, <1>5, <1>6

\* uv_accept hands the oldest descriptor on, or closes it.
LEMMA UvAcceptStep ==
    ASSUME ServerInv, NEW ok \in BOOLEAN, uv_accept(ok)
    PROVE  ServerInv'
<1>1. ServerTypes /\ ServerKeeps /\ DescriptorsOwned /\ HandedOnInOrder /\ ServerNotStalled
  BY DEF ServerInv
<1>2. /\ server \in ServerHandles /\ emfile' = emfile /\ arrived' = Tail(arrived)
      /\ arrived \in Seq(Fds) /\ server.accepted # NoFd
      /\ UserRuns /\ ~server.closing
  BY <1>1 DEF ServerTypes, uv_accept, ServerCall, Still
<1>3. PICK a : a = server.accepted
  OBVIOUS
<1>4. PICK q : q = server.queued
  OBVIOUS
<1>5. a \in Fds /\ q \in Seq(Fds)
  BY <1>2, <1>3, <1>4 DEF ServerHandles
<1>6. /\ arrived # <<>> /\ Head(arrived) = a /\ Tail(arrived) = q
  BY <1>1, <1>2, <1>3, <1>4, AcceptedIsOldest
<1>7. server.msg = <<>>
  BY <1>1, <1>2 DEF ServerKeeps, UserRuns
<1>8. /\ open = clients \cup ToSet(arrived) /\ clients \cap ToSet(arrived) = {} /\ Distinct(arrived)
  BY <1>1, <1>7, Waiting
<1>9. ToSet(arrived) = ToSet(q) \cup {a} /\ a \notin ToSet(q) /\ Distinct(q)
  BY <1>2, <1>6, <1>8, TailFacts
<1>10. /\ open' = clients' \cup ToSet(q) /\ clients' \cap ToSet(q) = {}
       /\ open' \in SUBSET Fds /\ clients' \in SUBSET Fds
  <2>1. \/ clients' = clients \cup {a} /\ open' = open
        \/ clients' = clients /\ open' = open \ {a}
    BY <1>3 DEF uv_accept, CloseAll
  <2>2. open \in SUBSET Fds /\ clients \in SUBSET Fds
    BY <1>1 DEF ServerTypes
  <2>3. a \notin clients
    BY <1>8, <1>9
  <2> QED BY <2>1, <2>2, <2>3, <1>5, <1>8, <1>9
<1>11. CASE q # <<>>
  <2>1. server' = [server EXCEPT !.accepted = Head(q), !.queued = Tail(q)]
    BY <1>4, <1>11 DEF uv_accept
  <2>2. Head(q) \in Fds /\ Tail(q) \in Seq(Fds) /\ Len(Tail(q)) = Len(q) - 1
    BY <1>5, <1>11, TailFacts
  <2>3. /\ server' \in ServerHandles /\ server'.accepted = Head(q) /\ server'.queued = Tail(q)
        /\ server'.room = server.room /\ server'.msg = server.msg /\ server'.kind = server.kind
        /\ server'.at = server.at /\ server'.cb = server.cb /\ server'.closing = server.closing
        /\ server'.listening = server.listening
    BY <2>1, <2>2, <1>2 DEF ServerHandles
  <2>4. ServerTypes'
    BY <2>3, <1>1, <1>2, <1>5, <1>6, <1>10 DEF ServerTypes
  <2>5. DescriptorsOwned'
    <3>1. q \o <<>> = q /\ Range(q) = ToSet(q)
      BY <1>5, ConcatEmptySeq DEF Range, ToSet
    <3> QED BY <3>1, <2>3, <1>2, <1>6, <1>7, <1>9, <1>10 DEF DescriptorsOwned
  <2>6. HandedOnInOrder'
    <3>1. <<Head(q)>> \o Tail(q) = q
      BY <1>5, <1>11, HeadThenTail
    <3>2. Head(q) # NoFd
      BY <2>2, NoFdIsNone
    <3>3. Len(Tail(q)) + 1 = Len(q) /\ Len(Tail(q)) <= server.room
      <4>1. Len(q) <= server.room
        BY <1>1, <1>4 DEF HandedOnInOrder
      <4>2. server.room \in Nat /\ Len(q) \in Nat
        BY <1>2, <1>5, LenProperties DEF ServerHandles
      <4> QED BY <4>1, <4>2, <2>2
    <3> QED BY <3>1, <3>2, <3>3, <2>3, <1>2, <1>6 DEF HandedOnInOrder, uv_pipe_pending_count
  <2>7. ServerKeeps' /\ ServerNotStalled'
    <3>1. server.kind = "ipc" /\ Head(q) # NoFd
      BY <2>2, <1>1, <1>4, <1>11, NoFdIsNone DEF ServerKeeps
    <3> QED BY <3>1, <2>3, <1>1, <1>2, <1>7 DEF ServerKeeps, ServerNotStalled
  <2> QED BY <2>4, <2>5, <2>6, <2>7 DEF ServerInv
<1>12. CASE q = <<>>
  <2>1. PICK p \in BOOLEAN : p = (server.polling \/ ok)
    OBVIOUS
  <2>2. PICK l \in BOOLEAN : l = (~ok /\ server.at = "loop")
    OBVIOUS
  <2>3. server' = [server EXCEPT !.accepted = NoFd, !.polling = p, !.late = l]
    BY <2>1, <2>2, <1>4, <1>12 DEF uv_accept
  <2>4. /\ server' \in ServerHandles /\ server'.accepted = NoFd /\ server'.queued = <<>>
        /\ server'.room = server.room /\ server'.msg = server.msg /\ server'.kind = server.kind
        /\ server'.at = server.at /\ server'.cb = server.cb /\ server'.closing = server.closing
        /\ server'.listening = server.listening /\ server'.polling = p /\ server'.late = l
    BY <2>3, <1>2, <1>4, <1>12 DEF ServerHandles
  <2>5. ServerTypes'
    BY <2>4, <1>1, <1>2, <1>5, <1>6, <1>10 DEF ServerTypes
  <2>6. DescriptorsOwned'
    <3>1. q \o <<>> = q /\ Range(q) = ToSet(q)
      BY <1>5, ConcatEmptySeq DEF Range, ToSet
    <3> QED BY <3>1, <2>4, <1>2, <1>6, <1>7, <1>9, <1>10 DEF DescriptorsOwned
  <2>7. HandedOnInOrder'
    <3>1. <<>> \o <<>> = <<>> /\ Len(<<>>) <= server.room
      BY <1>1, <1>4, <1>12, UdpEmpty, ConcatEmptySeq DEF HandedOnInOrder
    <3> QED BY <3>1, <2>4, <1>2, <1>6, <1>12, UdpEmpty DEF HandedOnInOrder, uv_pipe_pending_count
  <2>8. server.listening => (p \/ l) /\ ~(p /\ l)
    <3>1. server.listening /\ server.at = "loop" => ~server.polling
      BY <1>1, <1>2 DEF ServerNotStalled, ServerKeeps
    <3>2. server.listening /\ server.at # "loop" => server.polling
      BY <1>1, <1>2 DEF ServerKeeps, ServerHandles
    <3> QED BY <3>1, <3>2, <2>1, <2>2
  <2>9. server.at # "loop" => ~l
    BY <2>2
  <2>10. ServerKeeps' /\ ServerNotStalled'
    BY <2>4, <2>8, <2>9, <1>1, <1>2, <1>7 DEF ServerKeeps, ServerNotStalled
  <2> QED BY <2>5, <2>6, <2>7, <2>10 DEF ServerInv
<1> QED BY <1>11, <1>12

LEMMA CloseClientStep ==
    ASSUME ServerInv, NEW d \in Fds, CloseClient(d)
    PROVE  ServerInv'
<1>1. ServerTypes /\ ServerKeeps /\ DescriptorsOwned /\ HandedOnInOrder /\ ServerNotStalled
  BY DEF ServerInv
<1>2. /\ UNCHANGED <<server, emfile, arrived>> /\ d \in clients
      /\ clients' = clients \ {d} /\ open' = open \ {d}
  BY DEF CloseClient, CloseAll, Still
<1>3. ServerTypes' /\ ServerKeeps' /\ HandedOnInOrder' /\ ServerNotStalled'
  BY <1>1, <1>2 DEF ServerTypes, ServerKeeps, HandedOnInOrder, ServerNotStalled, uv_pipe_pending_count
<1>4. DescriptorsOwned'
  BY <1>1, <1>2 DEF DescriptorsOwned
<1> QED BY <1>3, <1>4 DEF ServerInv

\* uv__stream_close closes what waits, and nothing that was handed on.
LEMMA ServerCloseStep ==
    ASSUME ServerInv, uv__server_close
    PROVE  ServerInv'
<1>1. ServerTypes /\ ServerKeeps /\ DescriptorsOwned /\ HandedOnInOrder /\ ServerNotStalled
  BY DEF ServerInv
<1>2. /\ server \in ServerHandles /\ UNCHANGED <<emfile, clients>> /\ arrived' = <<>>
      /\ open' = open \ ({server.accepted} \cup Range(server.queued)) /\ UserRuns
  BY <1>1 DEF ServerTypes, uv__server_close, ServerCall, CloseAll, Still
<1>3. server.msg = <<>>
  BY <1>1, <1>2 DEF ServerKeeps, UserRuns
<1>4. /\ server' \in ServerHandles /\ server'.closing /\ ~server'.fd /\ ~server'.polling
      /\ server'.accepted = NoFd /\ server'.queued = <<>> /\ server'.room = 0 /\ ~server'.late
      /\ server'.msg = server.msg /\ server'.kind = server.kind /\ server'.at = server.at
      /\ server'.cb = server.cb /\ server'.listening = server.listening
  BY <1>2, UdpEmpty, ZenonT(60) DEF uv__server_close, ServerHandles
<1>5. open' = clients /\ clients \in SUBSET Fds
  <2>1. open = clients \cup ToSet(arrived) /\ clients \cap ToSet(arrived) = {}
    BY <1>1, <1>3, Waiting
  <2>2. open \in SUBSET Fds /\ clients \in SUBSET Fds
    BY <1>1 DEF ServerTypes
  <2>3. Range(server.queued) = ToSet(server.queued)
    BY DEF Range, ToSet
  <2>4. CASE server.accepted = NoFd
    <3>1. ToSet(arrived) = {} /\ ToSet(server.queued) = {}
      <4>1. arrived = <<>> /\ server.queued = <<>>
        BY <2>4, <1>1, AcceptedIsOldest DEF ServerKeeps
      <4>2. ToSet(<<>>) = {}
        BY EmptySeq DEF ToSet
      <4> QED BY <4>1, <4>2
    <3> QED BY <3>1, <2>1, <2>2, <2>3, <2>4, <1>2, NoFdIsNone
  <2>5. CASE server.accepted # NoFd
    <3>1. ToSet(arrived) = {server.accepted} \cup ToSet(server.queued)
      BY <2>5, <1>1, AcceptedIsOldest
    <3> QED BY <3>1, <2>1, <2>2, <2>3, <1>2
  <2> QED BY <2>4, <2>5
<1>6. <<>> \o <<>> = <<>> /\ Range(<<>>) = {}
  BY UdpEmpty, ConcatEmptySeq, EmptySeq DEF Range
<1>7. ServerTypes'
  BY <1>1, <1>2, <1>4, <1>5, UdpEmpty DEF ServerTypes
<1>8. DescriptorsOwned'
  BY <1>2, <1>3, <1>4, <1>5, <1>6, UdpEmpty DEF DescriptorsOwned
<1>9. HandedOnInOrder'
  BY <1>2, <1>4, <1>6, UdpEmpty DEF HandedOnInOrder, uv_pipe_pending_count
<1>10. ServerKeeps' /\ ServerNotStalled'
  BY <1>1, <1>2, <1>3, <1>4 DEF ServerKeeps, ServerNotStalled, UserRuns
<1> QED BY <1>7, <1>8, <1>9, <1>10 DEF ServerInv

LEMMA ServerReinitStep ==
    ASSUME ServerInv, ServerReinit
    PROVE  ServerInv'
<1>1. ServerTypes /\ ServerKeeps /\ DescriptorsOwned /\ HandedOnInOrder /\ ServerNotStalled
  BY DEF ServerInv
<1>2. PICK kind \in {"tcp", "pipe", "ipc"} : server' = NewServer(kind)
  BY DEF ServerReinit
<1>3. emfile' = TRUE /\ UNCHANGED <<open, clients, arrived>> /\ server.closing /\ server.at = "loop"
  BY DEF ServerReinit, Still
<1>4. arrived = <<>> /\ server.msg = <<>>
  BY <1>1, <1>3, AcceptedIsOldest DEF ServerKeeps
<1>5. /\ server' \in ServerHandles /\ server'.msg = <<>> /\ server'.queued = <<>>
      /\ server'.accepted = NoFd /\ server'.room = 0 /\ ~server'.listening
  BY <1>2, UdpEmpty DEF NewServer, ServerHandles
<1>6. ServerTypes'
  BY <1>1, <1>3, <1>5 DEF ServerTypes
<1>7. ServerKeeps'
  BY <1>2 DEF NewServer, ServerKeeps
<1>8. DescriptorsOwned'
  BY <1>1, <1>3, <1>4, <1>5 DEF DescriptorsOwned
<1>9. HandedOnInOrder'
  <2>1. <<>> \o <<>> = <<>>
    BY UdpEmpty, ConcatEmptySeq
  <2> QED BY <2>1, <1>3, <1>4, <1>5, UdpEmpty DEF HandedOnInOrder, uv_pipe_pending_count
<1>10. ServerNotStalled'
  BY <1>5 DEF ServerNotStalled
<1> QED BY <1>6, <1>7, <1>8, <1>9, <1>10 DEF ServerInv

LEMMA ServerSteps == ServerInv /\ [ServerNext]_serverVars => ServerInv'
<1> SUFFICES ASSUME ServerInv, [ServerNext]_serverVars PROVE ServerInv'
  OBVIOUS
<1>1. CASE ServerNext
  BY <1>1, ServerSetupStep, ServerEventStep, AcceptStep, RecvmsgStep, CmsgStep, UvAcceptStep,
     CloseClientStep, ServerCloseStep, ServerReinitStep DEF ServerNext
<1>2. CASE UNCHANGED serverVars
  BY <1>2 DEF serverVars, ServerInv, ServerTypes, ServerKeeps, DescriptorsOwned, HandedOnInOrder,
              ServerNotStalled, uv_pipe_pending_count
<1> QED BY <1>1, <1>2

\* A stream that takes descriptors in and hands them on, with any callback
\* accepting, closing or doing nothing.
THEOREM ServerInductive == ServerSpec => []ServerInv
<1>1. ServerInit => ServerInv
  <2> SUFFICES ASSUME ServerInit PROVE ServerInv
    OBVIOUS
  <2>1. PICK kind \in {"tcp", "pipe", "ipc"} : server = NewServer(kind)
    BY DEF ServerInit
  <2>2. emfile \in BOOLEAN /\ open \in SUBSET Fds /\ clients = open /\ arrived = <<>>
    BY DEF ServerInit
  <2> QED BY <2>1, <2>2, ServerBegins
<1> QED BY <1>1, ServerSteps, PTL DEF ServerSpec

\* No descriptor that uv__accept or uv__stream_recv_cmsg took in is leaked,
\* closed twice or handed on out of order, and a listening stream without a
\* connection to hand on polls for the next one.
THEOREM ServerCorrect == ServerSpec => []ServerRight
<1>1. ServerInv => ServerRight
  BY DEF ServerInv, ServerRight
<1> QED BY <1>1, ServerInductive, PTL

-----------------------------------------------------------------------------
(***************************************************************************)
(* I/O watchers and uv__io_poll.                                           *)
(***************************************************************************)

\* The table of watchers in its sizes.
Tables == UNION {[0..(n - 1) -> Watchers \cup {NULL}] : n \in Nat}

IoRecords ==
    [pevents : [Watchers -> SUBSET Mask], events : [Watchers -> SUBSET Mask],
     watchers : Tables, nfds : Nat, queue : Seq(Watchers), fake : BOOLEAN]

Entries(t) == {i \in DOMAIN t : t[i] # NULL}

\* What the masks m and e, the table t and the queue q of uv__io_start and
\* uv__io_stop say about each other, for handles in the states st with the
\* descriptors d.  The table leads back to the watcher's own number, and a
\* watcher is registered or queued only if it wants something.
BooksAgree(m, e, t, q, st, d) ==
    /\ \A w \in Watchers : m[w] # {} =>
         st[w] = "open" /\ d[w] \in DOMAIN t /\ t[d[w]] = w
    /\ \A i \in DOMAIN t : t[i] # NULL => d[t[i]] = i /\ m[t[i]] # {}
    /\ \A w \in Watchers : m[w] # e[w] => w \in ToSet(q)
    /\ \A w \in ToSet(q) : m[w] # {}
    /\ \A w \in Watchers : e[w] # {} => m[w] # {}
    /\ Distinct(q)

IoOK(s, st, d) ==
    /\ s \in IoRecords
    /\ BooksAgree(s.pevents, s.events, s.watchers, s.queue, st, d)
    /\ s.nfds = OwnFds + Cardinality(Entries(s.watchers))

IoTypes ==
    /\ file \in [Numbers -> Files \cup {0}]
    /\ borrowed \subseteq Files
    /\ kernel \in [Numbers \X Files -> SUBSET Mask]
    /\ hstate \in [Watchers -> {"none", "open", "closing"}]
    /\ fd \in [Watchers -> Numbers \cup {-1}]
    /\ pending \subseteq Streams
    /\ array \in Seq([fd : Numbers \cup {-1}, file : Files, events : SUBSET (Mask \cup Trouble)])
    /\ nevents \in BOOLEAN /\ full \in BOOLEAN /\ have_signals \in BOOLEAN /\ block \in BOOLEAN
    /\ count \in 0..MaxPolls
    /\ pc \in {"run", "wait", "scan", "cb", "signal cb"}
    /\ Cardinality(DOMAIN watchers) >= Nwatchers

\* An open handle has a descriptor of its own, with a file, which a poll
\* handle has borrowed.
HandlesOK ==
    /\ \A w \in Watchers : hstate[w] = "open" => fd[w] \in Numbers /\ file[fd[w]] # 0
    /\ \A v, w \in Watchers : hstate[v] = "open" /\ hstate[w] = "open" /\ fd[v] = fd[w] => v = w
    /\ \A w \in PollHandles : hstate[w] = "open" => file[fd[w]] \in borrowed
    /\ \A w \in pending : hstate[w] = "open"

\* A registration, or an event, of file x at number f: the table has the
\* number, and the file is borrowed or an open stream's.
Accounted(f, x) ==
    /\ f \in DOMAIN watchers
    /\ x \in borrowed \/ (x = file[f] /\ \E w \in Streams : hstate[w] = "open" /\ fd[w] = f)

Registrations ==
    /\ \A w \in Watchers : events[w] # {} => kernel[At(fd[w])] = events[w]
    /\ \A f \in Numbers, x \in Files : kernel[f, x] # {} => Accounted(f, x)

\* The event array is reachable from the table while it holds anything.
EventsOK ==
    /\ \A i \in DOMAIN array : array[i].fd # -1 => Accounted(array[i].fd, array[i].file)
    /\ pc \in {"run", "wait", "signal cb"} => array = <<>>
    /\ pc \in {"scan", "cb", "signal cb"} => fake

IoInv == IoTypes /\ IoOK(Io, hstate, fd) /\ HandlesOK /\ Registrations /\ EventsOK

----------------------------------------------------------------------------
(* The table.                                                              *)

LEMMA TableShape ==
    ASSUME NEW t \in Tables
    PROVE  /\ Cardinality(DOMAIN t) \in Nat
           /\ DOMAIN t = 0..(Cardinality(DOMAIN t) - 1)
           /\ \A i \in DOMAIN t : t[i] \in Watchers \cup {NULL}
           /\ IsFiniteSet(DOMAIN t)
           /\ IsFiniteSet(Entries(t)) /\ Cardinality(Entries(t)) \in Nat
<1>1. PICK n \in Nat : t \in [0..(n - 1) -> Watchers \cup {NULL}]
  BY DEF Tables
<1>2. DOMAIN t = 0..(n - 1) /\ \A i \in DOMAIN t : t[i] \in Watchers \cup {NULL}
  BY <1>1
<1>3. IsFiniteSet(0..(n - 1)) /\ Cardinality(0..(n - 1)) = IF 0 > n - 1 THEN 0 ELSE n - 1 - 0 + 1
  BY FS_Interval
<1>4. Cardinality(DOMAIN t) = n
  BY <1>2, <1>3
<1>5. IsFiniteSet(Entries(t))
  BY <1>2, <1>3, FS_Subset DEF Entries
<1>6. Cardinality(Entries(t)) \in Nat
  BY <1>5, FS_CardinalityType
<1> QED BY <1>2, <1>3, <1>4, <1>5, <1>6

\* An entry of the table is set or cleared.
LEMMA EntrySet ==
    ASSUME NEW t \in Tables, NEW i \in DOMAIN t, NEW w \in Watchers, NEW u, u = [t EXCEPT ![i] = w]
    PROVE  /\ u \in Tables
           /\ Cardinality(Entries(u)) = Cardinality(Entries(t)) + IF t[i] = NULL THEN 1 ELSE 0
<1>1. PICK n \in Nat : t \in [0..(n - 1) -> Watchers \cup {NULL}]
  BY DEF Tables
<1>2. u \in [0..(n - 1) -> Watchers \cup {NULL}]
  BY <1>1
<1>3. Entries(u) = Entries(t) \cup {i}
  BY <1>1, IoAssumption DEF Entries
<1>4. i \in Entries(t) <=> t[i] # NULL
  BY DEF Entries
<1>5. Cardinality(Entries(t) \cup {i}) = IF i \in Entries(t) THEN Cardinality(Entries(t)) ELSE Cardinality(Entries(t)) + 1
  BY TableShape, FS_AddElement
<1>6. u \in Tables
  BY <1>2 DEF Tables
<1>7. Cardinality(Entries(t)) \in Nat
  BY TableShape
<1>8. Cardinality(Entries(u)) = Cardinality(Entries(t) \cup {i})
  BY <1>3, Zenon
<1>9. Cardinality(Entries(t) \cup {i}) = Cardinality(Entries(t)) + IF t[i] = NULL THEN 1 ELSE 0
  BY <1>4, <1>5, <1>7
<1> QED BY <1>6, <1>8, <1>9, Zenon

LEMMA EntryCleared ==
    ASSUME NEW t \in Tables, NEW i \in DOMAIN t, t[i] # NULL, NEW u, u = [t EXCEPT ![i] = NULL]
    PROVE  /\ u \in Tables
           /\ Cardinality(Entries(u)) = Cardinality(Entries(t)) - 1
           /\ Cardinality(Entries(t)) > 0
<1>1. PICK n \in Nat : t \in [0..(n - 1) -> Watchers \cup {NULL}]
  BY DEF Tables
<1>2. u \in [0..(n - 1) -> Watchers \cup {NULL}]
  BY <1>1
<1>3. Entries(u) = Entries(t) \ {i}
  BY <1>1 DEF Entries
<1>4. i \in Entries(t)
  BY DEF Entries
<1>5. Cardinality(Entries(t) \ {i}) = IF i \in Entries(t) THEN Cardinality(Entries(t)) - 1 ELSE Cardinality(Entries(t))
  BY TableShape, FS_RemoveElement
<1>6. Cardinality(Entries(t) \ {i}) \in Nat
  <2>1. IsFiniteSet(Entries(t) \ {i})
    BY TableShape, FS_RemoveElement
  <2> QED BY <2>1, FS_CardinalityType
<1>7. u \in Tables
  BY <1>2 DEF Tables
<1>8. Cardinality(Entries(t)) \in Nat
  BY TableShape
<1>9. Cardinality(Entries(u)) = Cardinality(Entries(t) \ {i})
  BY <1>3, Zenon
<1>10. Cardinality(Entries(t) \ {i}) = Cardinality(Entries(t)) - 1 /\ Cardinality(Entries(t)) > 0
  BY <1>4, <1>5, <1>6, <1>8
<1> QED BY <1>7, <1>9, <1>10, Zenon

LEMMA QueueHas ==
    ASSUME NEW q \in Seq(Watchers), NEW w
    PROVE  /\ Contains(q, w) <=> w \in ToSet(q)
           /\ ToSet(q) \subseteq Watchers
BY LenProperties, ElementOfSeq DEF Contains, ToSet

----------------------------------------------------------------------------
(* uv__io_stop.                                                            *)

\* A watcher without a wish may change its handle's state and descriptor.
LEMMA Unbound ==
    ASSUME NEW s, NEW st, NEW d, IoOK(s, st, d), NEW w \in Watchers, s.pevents[w] = {},
           NEW st2, NEW d2, \A v \in Watchers \ {w} : st2[v] = st[v] /\ d2[v] = d[v]
    PROVE  IoOK(s, st2, d2)
<1>1. \A i \in DOMAIN s.watchers : s.watchers[i] \in Watchers \cup {NULL}
  BY TableShape DEF IoOK, IoRecords
<1> QED BY <1>1 DEF IoOK, BooksAgree

LEMMA StopFacts ==
    ASSUME NEW s, NEW st, IoOK(s, st, fd), fd \in [Watchers -> Numbers \cup {-1}],
           NEW w \in Watchers, fd[w] \in Numbers, NEW ev \in SUBSET Mask,
           \A v \in Watchers : st[v] = "open" /\ fd[v] = fd[w] => v = w,
           NEW t, t = uv__io_stop(s, w, ev)
    PROVE  /\ IoOK(t, st, fd)
           /\ DOMAIN t.watchers = DOMAIN s.watchers
           /\ t.fake = s.fake
           /\ \A v \in Watchers : t.events[v] \in {s.events[v], {}}
           /\ ev = Mask => t.pevents[w] = {}
<1>0. /\ s \in IoRecords
      /\ BooksAgree(s.pevents, s.events, s.watchers, s.queue, st, fd)
      /\ s.nfds = OwnFds + Cardinality(Entries(s.watchers))
  BY DEF IoOK
<1>1. /\ s.watchers \in Tables /\ s.queue \in Seq(Watchers) /\ s.nfds \in Nat
      /\ s.pevents \in [Watchers -> SUBSET Mask] /\ s.events \in [Watchers -> SUBSET Mask]
      /\ s.fake \in BOOLEAN
      /\ s = [pevents |-> s.pevents, events |-> s.events, watchers |-> s.watchers,
              nfds |-> s.nfds, queue |-> s.queue, fake |-> s.fake]
  BY <1>0 DEF IoRecords
<1>2. /\ Size(s) \in Nat /\ DOMAIN s.watchers = 0..(Size(s) - 1)
      /\ \A i \in DOMAIN s.watchers : s.watchers[i] \in Watchers \cup {NULL}
  BY <1>1, TableShape DEF Size
<1>3. fd[w] \in Nat /\ fd[w] # -1
  <2>1. fd[w] \in Nat
    BY IoAssumption
  <2> QED BY <2>1
<1>4. CASE fd[w] >= Size(s)
  <2>1. t = s
    BY <1>4 DEF uv__io_stop
  <2>2. s.pevents[w] = {}
    BY <1>4, <1>2, <1>3, <1>0 DEF BooksAgree
  <2> QED BY <2>1, <2>2
<1>5. CASE ~(fd[w] >= Size(s)) /\ s.pevents[w] \subseteq ev
  <2> DEFINE m == [s.pevents EXCEPT ![w] = {}]
             q == Unlink(s.queue, w)
  <2>0. PICK s1 : s1 = [s EXCEPT !.pevents[w] = {}, !.queue = Unlink(@, w)]
    OBVIOUS
  <2>1. t = StopAll(s, w)
    BY <1>5, <1>3 DEF uv__io_stop
  <2>2. s1 = [pevents |-> m, events |-> s.events, watchers |-> s.watchers,
              nfds |-> s.nfds, queue |-> q, fake |-> s.fake]
    BY <1>1, <2>0
  <2>3. fd[w] \in DOMAIN s.watchers
    BY <1>5, <1>2, <1>3
  <2>4. /\ q \in Seq(Watchers) /\ ToSet(q) \subseteq ToSet(s.queue) /\ ToSet(s.queue) \subseteq ToSet(q) \cup {w}
        /\ Distinct(q) /\ w \notin ToSet(q)
    BY <1>1, <1>0, UnlinkFacts DEF BooksAgree
  <2>5. m \in [Watchers -> SUBSET Mask] /\ m[w] = {} /\ \A v \in Watchers \ {w} : m[v] = s.pevents[v]
    BY <1>1
  <2> HIDE DEF m, q
  <2>6. CASE s.watchers[fd[w]] = NULL
    <3>1. t = s1
      BY <2>0, <2>1, <2>2, <2>6 DEF StopAll
    <3>2. s.events[w] = {} /\ s.pevents[w] = {}
      BY <2>6, <1>0, IoAssumption DEF BooksAgree
    <3>3. BooksAgree(m, s.events, s.watchers, q, st, fd)
      BY <3>2, <2>3, <2>4, <2>5, <1>0, <1>2, <1>1, QueueHas DEF BooksAgree
    <3>4. IoOK(t, st, fd)
      BY <3>1, <3>3, <2>2, <2>4, <2>5, <1>0, <1>1 DEF IoOK, IoRecords
    <3> QED BY <3>1, <3>4, <2>2, <2>5
  <2>7. CASE s.watchers[fd[w]] # NULL
    <3> DEFINE e == [s.events EXCEPT ![w] = {}]
               k == [s.watchers EXCEPT ![fd[w]] = NULL]
    <3>1. t = [pevents |-> m, events |-> e, watchers |-> k,
               nfds |-> s.nfds - 1, queue |-> q, fake |-> s.fake]
      <4>1. t = Unwatched(s1, w)
        BY <2>0, <2>1, <2>2, <2>7 DEF StopAll
      <4> QED BY <4>1, <2>2, <2>7, <1>1 DEF Unwatched
    <3>2. k \in Tables /\ Cardinality(Entries(k)) = Cardinality(Entries(s.watchers)) - 1
          /\ Cardinality(Entries(s.watchers)) > 0
      BY <2>7, <2>3, <1>1, EntryCleared
    <3>3. DOMAIN k = DOMAIN s.watchers /\ k[fd[w]] = NULL
          /\ \A i \in DOMAIN k : i # fd[w] => k[i] = s.watchers[i]
      BY <2>3
    <3>4. e \in [Watchers -> SUBSET Mask] /\ e[w] = {} /\ \A v \in Watchers \ {w} : e[v] = s.events[v]
      BY <1>1
    <3> HIDE DEF e, k
    <3>5. Cardinality(Entries(s.watchers)) \in Nat /\ OwnFds \in Nat
      BY <1>1, TableShape DEF OwnFds
    <3>6. s.nfds - 1 \in Nat /\ s.nfds - 1 = OwnFds + Cardinality(Entries(k))
      BY <3>5, <3>2, <1>0
    <3>7. \A v \in Watchers : m[v] # {} => v # w /\ fd[v] # fd[w]
      <4>1. s.watchers[fd[w]] \in Watchers
        BY <2>3, <2>7, <1>2
      <4>2. s.watchers[fd[w]] = w
        BY <4>1, <2>3, <2>7, <1>0 DEF BooksAgree
      <4> QED BY <4>2, <2>5, <1>0 DEF BooksAgree
    <3>8. BooksAgree(m, e, k, q, st, fd)
      <4>1. \A v \in Watchers : m[v] # {} => st[v] = "open" /\ fd[v] \in DOMAIN k /\ k[fd[v]] = v
        BY <3>7, <3>3, <2>5, <1>0 DEF BooksAgree
      <4>2. ASSUME NEW i \in DOMAIN k, k[i] # NULL PROVE fd[k[i]] = i /\ m[k[i]] # {}
        <5>1. i # fd[w] /\ k[i] = s.watchers[i] /\ k[i] \in Watchers /\ fd[k[i]] = i
          BY <4>2, <3>3, <1>2, <1>0 DEF BooksAgree
        <5>2. k[i] # w
          BY <5>1
        <5> QED BY <5>1, <5>2, <4>2, <3>3, <2>5, <1>0 DEF BooksAgree
      <4>3. \A v \in Watchers : m[v] # e[v] => v \in ToSet(q)
        <5>1. \A v \in Watchers : s.pevents[v] # s.events[v] => v \in ToSet(s.queue)
          BY <1>0 DEF BooksAgree
        <5> QED BY <5>1, <2>4, <2>5, <3>4
      <4>4. \A v \in ToSet(q) : m[v] # {}
        BY <2>4, <2>5, <1>0, <1>1, QueueHas DEF BooksAgree
      <4>5. \A v \in Watchers : e[v] # {} => m[v] # {}
        BY <2>5, <3>4, <1>0 DEF BooksAgree
      <4> QED BY <4>1, <4>2, <4>3, <4>4, <4>5, <2>4 DEF BooksAgree
    <3>9. IoOK(t, st, fd)
      BY <3>1, <3>2, <3>4, <3>6, <3>8, <2>4, <2>5, <1>1 DEF IoOK, IoRecords
    <3> QED BY <3>1, <3>3, <3>4, <3>9, <2>5
  <2> QED BY <2>6, <2>7
<1>6. CASE ~(fd[w] >= Size(s)) /\ ~(s.pevents[w] \subseteq ev)
  <2> DEFINE m == [s.pevents EXCEPT ![w] = @ \ ev]
             q == IF InQueue(s, w) THEN s.queue ELSE Append(s.queue, w)
  <2>1. t = [pevents |-> m, events |-> s.events, watchers |-> s.watchers,
             nfds |-> s.nfds, queue |-> q, fake |-> s.fake]
    BY <1>6, <1>3, <1>1 DEF uv__io_stop
  <2>2. q \in Seq(Watchers) /\ ToSet(q) = ToSet(s.queue) \cup {w} /\ Distinct(q)
    BY <1>1, <1>0, AppendFacts, QueueHas DEF InQueue, BooksAgree
  <2>3. m \in [Watchers -> SUBSET Mask] /\ m[w] # {} /\ \A v \in Watchers \ {w} : m[v] = s.pevents[v]
    BY <1>1, <1>6
  <2>4. s.pevents[w] # {} /\ ev # Mask
    <3>1. s.pevents[w] \subseteq Mask
      BY <1>1
    <3> QED BY <3>1, <1>6
  <2> HIDE DEF m, q
  <2>5. BooksAgree(m, s.events, s.watchers, q, st, fd)
    BY <2>2, <2>3, <2>4, <1>0, <1>1, <1>2, QueueHas DEF BooksAgree
  <2>6. IoOK(t, st, fd)
    BY <2>1, <2>2, <2>3, <2>5, <1>0, <1>1 DEF IoOK, IoRecords
  <2> QED BY <2>1, <2>4, <2>6
<1> QED BY <1>4, <1>5, <1>6

----------------------------------------------------------------------------
(* uv__io_start.                                                           *)

LEMMA PowerFits ==
    ASSUME NEW f \in Numbers
    PROVE  /\ next_power_of_two(f + 3) \in Nat
           /\ next_power_of_two(f + 3) >= f + 3
<1> DEFINE P == {p \in {2^k : k \in 0..(f + 3)} : p >= f + 3}
<1>1. f \in Nat
  BY IoAssumption
<1>2. P \subseteq Nat
  <2> SUFFICES ASSUME NEW k \in 0..(f + 3), 2^k >= f + 3
               PROVE  2^k \in Nat
    OBVIOUS
  <2>1. 2^k \in Int
    BY <1>1
  <2> QED BY <2>1, <1>1
<1>3. P # {}
  BY PowersReach
<1>4. Min(P) \in P
  BY <1>2, <1>3, MinFacts
<1>5. next_power_of_two(f + 3) = Min(P)
  BY DEF next_power_of_two
<1> HIDE DEF P
<1>6. Min(P) \in Nat
  BY <1>2, <1>4
<1>7. Min(P) >= f + 3
  BY <1>4 DEF P
<1> QED BY <1>5, <1>6, <1>7

LEMMA ResizeFacts ==
    ASSUME NEW s \in IoRecords, NEW f \in Numbers, NEW r, r = maybe_resize(s, f + 1)
    PROVE  /\ r = [pevents |-> s.pevents, events |-> s.events, watchers |-> r.watchers,
                   nfds |-> s.nfds, queue |-> s.queue, fake |-> s.fake]
           /\ r.watchers \in Tables /\ f \in DOMAIN r.watchers
           /\ DOMAIN s.watchers \subseteq DOMAIN r.watchers
           /\ \A i \in DOMAIN r.watchers :
                r.watchers[i] = IF i \in DOMAIN s.watchers THEN s.watchers[i] ELSE NULL
           /\ Entries(r.watchers) = Entries(s.watchers)
<1>1. /\ s.watchers \in Tables
      /\ s = [pevents |-> s.pevents, events |-> s.events, watchers |-> s.watchers,
              nfds |-> s.nfds, queue |-> s.queue, fake |-> s.fake]
  BY DEF IoRecords
<1>2. /\ Size(s) \in Nat /\ DOMAIN s.watchers = 0..(Size(s) - 1)
      /\ \A i \in DOMAIN s.watchers : s.watchers[i] \in Watchers \cup {NULL}
  BY <1>1, TableShape DEF Size
<1>3. f \in Nat
  BY IoAssumption
<1>4. CASE f + 1 <= Size(s)
  <2>1. r = s
    BY <1>4 DEF maybe_resize
  <2>2. f \in DOMAIN s.watchers
    BY <1>2, <1>3, <1>4
  <2> QED BY <2>1, <2>2, <1>1
<1>5. CASE ~(f + 1 <= Size(s))
  <2>1. PICK n : n = next_power_of_two(f + 3) - 2
    OBVIOUS
  <2>2. n \in Nat /\ n >= f + 1
    BY <2>1, <1>3, PowerFits
  <2>3. PICK g : g = [i \in 0..(n - 1) |-> IF i < Size(s) THEN s.watchers[i] ELSE NULL]
    OBVIOUS
  <2>4. (f + 1) + 2 = f + 3 /\ next_power_of_two(f + 3) - 3 = n - 1
    BY <2>1, <2>2, <1>3, PowerFits
  <2>5. Grown(s, f + 1) = g
    BY <2>3, <2>4 DEF Grown
  <2>6. r = [s EXCEPT !.watchers = g]
    BY <1>5, <2>5 DEF maybe_resize
  <2>7. /\ r.watchers = g
        /\ r = [pevents |-> s.pevents, events |-> s.events, watchers |-> g,
                nfds |-> s.nfds, queue |-> s.queue, fake |-> s.fake]
    BY <2>6, <1>1
  <2>8. DOMAIN g = 0..(n - 1) /\ f \in DOMAIN g /\ DOMAIN s.watchers \subseteq DOMAIN g
    BY <2>3, <2>2, <1>2, <1>3, <1>5
  <2>9. \A i \in DOMAIN g : g[i] = IF i \in DOMAIN s.watchers THEN s.watchers[i] ELSE NULL
    BY <2>3, <2>2, <1>2
  <2>10. g \in [0..(n - 1) -> Watchers \cup {NULL}]
    BY <2>3, <2>8, <2>9, <1>2
  <2>11. g \in Tables
    BY <2>10, <2>2 DEF Tables
  <2>12. Entries(g) = Entries(s.watchers)
    BY <2>8, <2>9 DEF Entries
  <2> QED BY <2>7, <2>8, <2>9, <2>11, <2>12
<1> QED BY <1>4, <1>5

LEMMA StartFacts ==
    ASSUME NEW s, NEW st, IoOK(s, st, fd), fd \in [Watchers -> Numbers \cup {-1}],
           NEW w \in Watchers, st[w] = "open", fd[w] \in Numbers,
           NEW ev \in SUBSET Mask, ev # {},
           \A v \in Watchers : st[v] = "open" /\ fd[v] = fd[w] => v = w,
           NEW t, t = uv__io_start(s, w, ev)
    PROVE  /\ IoOK(t, st, fd)
           /\ DOMAIN s.watchers \subseteq DOMAIN t.watchers
           /\ t.fake = s.fake
           /\ t.events = s.events
<1>0. /\ s \in IoRecords
      /\ BooksAgree(s.pevents, s.events, s.watchers, s.queue, st, fd)
      /\ s.nfds = OwnFds + Cardinality(Entries(s.watchers))
  BY DEF IoOK
<1>1. /\ s.watchers \in Tables /\ s.queue \in Seq(Watchers) /\ s.nfds \in Nat
      /\ s.pevents \in [Watchers -> SUBSET Mask] /\ s.events \in [Watchers -> SUBSET Mask]
      /\ s.fake \in BOOLEAN
      /\ s = [pevents |-> s.pevents, events |-> s.events, watchers |-> s.watchers,
              nfds |-> s.nfds, queue |-> s.queue, fake |-> s.fake]
  BY <1>0 DEF IoRecords
<1>2. PICK m : m = [s.pevents EXCEPT ![w] = @ \cup ev]
  OBVIOUS
<1>3. /\ m \in [Watchers -> SUBSET Mask] /\ m[w] = s.pevents[w] \cup ev /\ m[w] # {}
      /\ \A v \in Watchers \ {w} : m[v] = s.pevents[v]
  BY <1>1, <1>2
<1>4. PICK s1 : s1 = [s EXCEPT !.pevents[w] = @ \cup ev]
  OBVIOUS
<1>5. s1 = [pevents |-> m, events |-> s.events, watchers |-> s.watchers,
            nfds |-> s.nfds, queue |-> s.queue, fake |-> s.fake]
  BY <1>1, <1>2, <1>4
<1>6. s1 \in IoRecords
  BY <1>1, <1>3, <1>5 DEF IoRecords
<1>7. PICK r : r = maybe_resize(s1, fd[w] + 1)
  OBVIOUS
<1>8. PICK k : k = r.watchers
  OBVIOUS
<1>9. /\ r = [pevents |-> m, events |-> s.events, watchers |-> k,
              nfds |-> s.nfds, queue |-> s.queue, fake |-> s.fake]
      /\ k \in Tables /\ fd[w] \in DOMAIN k
      /\ DOMAIN s.watchers \subseteq DOMAIN k
      /\ \A i \in DOMAIN k : k[i] = IF i \in DOMAIN s.watchers THEN s.watchers[i] ELSE NULL
      /\ Entries(k) = Entries(s.watchers)
  <2>1. /\ r = [pevents |-> s1.pevents, events |-> s1.events, watchers |-> r.watchers,
                nfds |-> s1.nfds, queue |-> s1.queue, fake |-> s1.fake]
        /\ r.watchers \in Tables /\ fd[w] \in DOMAIN r.watchers
        /\ DOMAIN s1.watchers \subseteq DOMAIN r.watchers
        /\ \A i \in DOMAIN r.watchers :
             r.watchers[i] = IF i \in DOMAIN s1.watchers THEN s1.watchers[i] ELSE NULL
        /\ Entries(r.watchers) = Entries(s1.watchers)
    BY <1>6, <1>7, ResizeFacts
  <2>2. /\ s1.pevents = m /\ s1.events = s.events /\ s1.watchers = s.watchers
        /\ s1.nfds = s.nfds /\ s1.queue = s.queue /\ s1.fake = s.fake
    BY <1>5
  <2> QED BY <2>1, <2>2, <1>8
<1>10. \A i \in DOMAIN s.watchers : s.watchers[i] \in Watchers \cup {NULL}
  BY <1>1, TableShape
<1>11. k[fd[w]] \in {NULL, w}
  BY <1>9, <1>10, <1>0 DEF BooksAgree
<1>12. CASE s.events[w] = m[w]
  <2>1. t = r
    BY <1>12, <1>4, <1>7, <1>9 DEF uv__io_start
  <2>2. s.pevents[w] # {}
    BY <1>12, <1>3, <1>0 DEF BooksAgree
  <2>3. BooksAgree(m, s.events, k, s.queue, st, fd)
    <3>1. \A v \in Watchers : m[v] # {} => st[v] = "open" /\ fd[v] \in DOMAIN k /\ k[fd[v]] = v
      BY <2>2, <1>3, <1>9, <1>0 DEF BooksAgree
    <3>2. \A i \in DOMAIN k : k[i] # NULL => fd[k[i]] = i /\ m[k[i]] # {}
      BY <1>3, <1>9, <1>10, <1>0 DEF BooksAgree
    <3>3. \A v \in Watchers : m[v] # s.events[v] => v \in ToSet(s.queue)
      BY <1>12, <1>3, <1>0 DEF BooksAgree
    <3>4. \A v \in ToSet(s.queue) : m[v] # {}
      BY <1>3, <1>0, <1>1, QueueHas DEF BooksAgree
    <3>5. \A v \in Watchers : s.events[v] # {} => m[v] # {}
      BY <1>3, <1>0 DEF BooksAgree
    <3> QED BY <3>1, <3>2, <3>3, <3>4, <3>5, <1>0 DEF BooksAgree
  <2>4. IoOK(t, st, fd)
    BY <2>1, <2>3, <1>0, <1>1, <1>3, <1>9 DEF IoOK, IoRecords
  <2> QED BY <2>1, <2>4, <1>9
<1>13. CASE s.events[w] # m[w]
  <2>1. PICK q : q = IF InQueue(r, w) THEN s.queue ELSE Append(s.queue, w)
    OBVIOUS
  <2>2. q \in Seq(Watchers) /\ ToSet(q) = ToSet(s.queue) \cup {w} /\ Distinct(q)
    <3>1. Contains(s.queue, w) <=> w \in ToSet(s.queue)
      BY <1>1, QueueHas
    <3>2. InQueue(r, w) <=> w \in ToSet(s.queue)
      BY <3>1, <1>9 DEF InQueue
    <3> QED BY <3>2, <2>1, <1>1, <1>0, AppendFacts DEF BooksAgree
  <2> DEFINE z == [k EXCEPT ![fd[w]] = w]
  <2>3. z = [k EXCEPT ![fd[w]] = IF k[fd[w]] = NULL THEN w ELSE k[fd[w]]]
    BY <1>9, <1>11
  <2>5. z \in Tables /\ Cardinality(Entries(z)) = Cardinality(Entries(k)) + IF k[fd[w]] = NULL THEN 1 ELSE 0
    BY <1>9, EntrySet
  <2>6. DOMAIN z = DOMAIN k /\ z[fd[w]] = w /\ \A i \in DOMAIN z : i # fd[w] => z[i] = k[i]
    BY <1>9
  <2> HIDE DEF z
  <2>7. PICK n : n = IF k[fd[w]] = NULL THEN s.nfds + 1 ELSE s.nfds
    OBVIOUS
  <2>8. n \in Nat /\ n = OwnFds + Cardinality(Entries(z))
    <3>1. Cardinality(Entries(s.watchers)) \in Nat /\ OwnFds \in Nat
      BY <1>1, TableShape DEF OwnFds
    <3>2. Cardinality(Entries(k)) = Cardinality(Entries(s.watchers))
      BY <1>9
    <3> QED BY <3>1, <3>2, <2>5, <2>7, <1>0, <1>1
  <2>9. t = [pevents |-> m, events |-> s.events, watchers |-> z,
             nfds |-> n, queue |-> q, fake |-> s.fake]
    <3>1. t = [r EXCEPT !.queue = IF InQueue(r, w) THEN @ ELSE Append(@, w),
                        !.watchers[fd[w]] = IF @ = NULL THEN w ELSE @,
                        !.nfds = IF r.watchers[fd[w]] = NULL THEN @ + 1 ELSE @]
      BY <1>13, <1>4, <1>7, <1>9 DEF uv__io_start
    <3> QED BY <3>1, <2>1, <2>3, <2>7, <1>9, <1>1, <1>3, ZenonT(60)
  <2>10. BooksAgree(m, s.events, z, q, st, fd)
    <3>1. ASSUME NEW v \in Watchers, m[v] # {}
          PROVE  st[v] = "open" /\ fd[v] \in DOMAIN z /\ z[fd[v]] = v
      <4>1. CASE v = w
        BY <4>1, <2>6, <1>9
      <4>2. CASE v # w
        <5>1. s.pevents[v] # {}
          BY <4>2, <3>1, <1>3
        <5>2. st[v] = "open" /\ fd[v] \in DOMAIN s.watchers /\ s.watchers[fd[v]] = v
          BY <5>1, <1>0 DEF BooksAgree
        <5>3. fd[v] # fd[w]
          BY <5>2, <4>2
        <5> QED BY <5>2, <5>3, <2>6, <1>9
      <4> QED BY <4>1, <4>2
    <3>2. ASSUME NEW i \in DOMAIN z, z[i] # NULL
          PROVE  fd[z[i]] = i /\ m[z[i]] # {}
      <4>1. CASE i = fd[w]
        BY <4>1, <2>6, <1>3
      <4>2. CASE i # fd[w]
        <5>1. i \in DOMAIN s.watchers /\ z[i] = s.watchers[i] /\ z[i] \in Watchers
          BY <4>2, <3>2, <2>6, <1>9, <1>10
        <5>2. fd[z[i]] = i /\ s.pevents[z[i]] # {}
          BY <5>1, <3>2, <1>0 DEF BooksAgree
        <5> QED BY <5>1, <5>2, <1>3
      <4> QED BY <4>1, <4>2
    <3>3. \A v \in Watchers : m[v] # s.events[v] => v \in ToSet(q)
      BY <2>2, <1>3, <1>0 DEF BooksAgree
    <3>4. \A v \in ToSet(q) : m[v] # {}
      BY <2>2, <1>3, <1>0, <1>1, QueueHas DEF BooksAgree
    <3>5. \A v \in Watchers : s.events[v] # {} => m[v] # {}
      BY <1>3, <1>0 DEF BooksAgree
    <3> QED BY <3>1, <3>2, <3>3, <3>4, <3>5, <2>2 DEF BooksAgree
  <2>11. IoOK(t, st, fd)
    BY <2>9, <2>10, <2>8, <2>5, <2>2, <1>1, <1>3 DEF IoOK, IoRecords
  <2> QED BY <2>9, <2>11, <2>6, <1>9
<1> QED BY <1>12, <1>13

----------------------------------------------------------------------------
(* The steps.                                                              *)

LEMMA IoBegins == Init => IoInv
<1> SUFFICES ASSUME Init PROVE IoInv
  OBVIOUS
<1>1. /\ file = [f \in Numbers |-> 0] /\ borrowed = {} /\ kernel = [p \in Numbers \X Files |-> {}]
      /\ hstate = [w \in Watchers |-> "none"] /\ fd = [w \in Watchers |-> -1]
      /\ pevents = [w \in Watchers |-> {}] /\ events = [w \in Watchers |-> {}]
      /\ watchers = [i \in 0..(Nwatchers - 1) |-> NULL] /\ nfds = OwnFds /\ watcher_queue = <<>>
      /\ pending = {} /\ fake = FALSE /\ array = <<>> /\ nevents = FALSE /\ full = FALSE
      /\ have_signals = FALSE /\ count = 0 /\ block = FALSE /\ pc = "run"
  BY DEF Init
<1>2. watchers \in Tables
  <2>1. watchers \in [0..(Nwatchers - 1) -> Watchers \cup {NULL}]
    BY <1>1
  <2>2. Nwatchers \in Nat
    BY IoAssumption
  <2> QED BY <2>1, <2>2 DEF Tables
<1>3. Cardinality(DOMAIN watchers) = Nwatchers /\ Nwatchers \in Nat
  <2>1. Nwatchers \in Nat
    BY IoAssumption
  <2>2. Cardinality(0..(Nwatchers - 1)) = IF 0 > Nwatchers - 1 THEN 0 ELSE Nwatchers - 1 - 0 + 1
    BY <2>1, FS_Interval
  <2>3. DOMAIN watchers = 0..(Nwatchers - 1)
    BY <1>1
  <2> QED BY <2>1, <2>2, <2>3
<1>4. Entries(watchers) = {} /\ Cardinality({}) = 0
  BY <1>1, FS_EmptySet DEF Entries
<1>5. \A S : <<>> \in Seq(S) /\ DOMAIN <<>> = {} /\ ToSet(<<>>) = {} /\ Distinct(<<>>)
  BY EmptySeq DEF ToSet, Distinct
<1>6. IoTypes
  <2>1. 0 \in 0..MaxPolls
    BY IoAssumption
  <2>2. kernel \in [Numbers \X Files -> SUBSET Mask]
    BY <1>1
  <2>3. /\ file \in [Numbers -> Files \cup {0}] /\ hstate \in [Watchers -> {"none", "open", "closing"}]
        /\ fd \in [Watchers -> Numbers \cup {-1}]
    BY <1>1
  <2>4. Cardinality(DOMAIN watchers) >= Nwatchers
    BY <1>3
  <2>5. array \in Seq([fd : Numbers \cup {-1}, file : Files, events : SUBSET (Mask \cup Trouble)])
    BY <1>1, <1>5
  <2> QED BY <1>1, <2>1, <2>2, <2>3, <2>4, <2>5 DEF IoTypes
<1>7. Io \in IoRecords
  BY <1>1, <1>2, <1>5 DEF Io, IoRecords, OwnFds
<1>8. BooksAgree(pevents, events, watchers, watcher_queue, hstate, fd)
  BY <1>1, <1>5 DEF BooksAgree
<1>9. nfds = OwnFds + Cardinality(Entries(watchers))
  <2>1. Cardinality(Entries(watchers)) = 0
    BY <1>4, Zenon
  <2> QED BY <2>1, <1>1 DEF OwnFds
<1>10. IoOK(Io, hstate, fd)
  BY <1>7, <1>8, <1>9 DEF IoOK, Io
<1>11. HandlesOK
  BY <1>1 DEF HandlesOK, Watchers
<1>12. Registrations
  <2>1. \A f \in Numbers, x \in Files : <<f, x>> \in Numbers \X Files /\ kernel[f, x] = {}
    BY <1>1
  <2>2. \A w \in Watchers : events[w] = {}
    BY <1>1
  <2> QED BY <2>1, <2>2 DEF Registrations
<1>13. EventsOK
  BY <1>1, <1>5 DEF EventsOK
<1> QED BY <1>6, <1>10, <1>11, <1>12, <1>13 DEF IoInv

\* The values that uv__io_start and uv__io_stop return become the state.
LEMMA Became ==
    ASSUME NEW t, Become(t), IoOK(t, hstate', fd')
    PROVE  IoOK(Io, hstate, fd)'
<1>1. Io' = t
  BY DEF Become, Io, IoOK, IoRecords
<1> QED BY <1>1 DEF IoOK

\* What IoOK says of the variables.
LEMMA IoFacts ==
    ASSUME IoOK(Io, hstate, fd)
    PROVE  /\ pevents \in [Watchers -> SUBSET Mask] /\ events \in [Watchers -> SUBSET Mask]
           /\ watchers \in Tables /\ nfds \in Nat /\ watcher_queue \in Seq(Watchers) /\ fake \in BOOLEAN
           /\ BooksAgree(pevents, events, watchers, watcher_queue, hstate, fd)
           /\ nfds = OwnFds + Cardinality(Entries(watchers))
           /\ \A i \in DOMAIN watchers : watchers[i] \in Watchers \cup {NULL}
           /\ ToSet(watcher_queue) \subseteq Watchers
<1>1. /\ pevents \in [Watchers -> SUBSET Mask] /\ events \in [Watchers -> SUBSET Mask]
      /\ watchers \in Tables /\ nfds \in Nat /\ watcher_queue \in Seq(Watchers) /\ fake \in BOOLEAN
      /\ BooksAgree(pevents, events, watchers, watcher_queue, hstate, fd)
      /\ nfds = OwnFds + Cardinality(Entries(watchers))
  BY DEF IoOK, IoRecords, Io
<1>2. \A i \in DOMAIN watchers : watchers[i] \in Watchers \cup {NULL}
  BY <1>1, TableShape
<1>3. ToSet(watcher_queue) \subseteq Watchers
  BY <1>1, QueueHas
<1> QED BY <1>1, <1>2, <1>3

\* The table only grows.
LEMMA TableGrows ==
    ASSUME NEW t \in Tables, NEW u \in Tables, DOMAIN t \subseteq DOMAIN u,
           Cardinality(DOMAIN t) >= Nwatchers
    PROVE  Cardinality(DOMAIN u) >= Nwatchers
<1>1. Cardinality(DOMAIN t) <= Cardinality(DOMAIN u)
  BY TableShape, FS_Subset
<1>2. Cardinality(DOMAIN t) \in Nat /\ Cardinality(DOMAIN u) \in Nat
  BY TableShape
<1>3. Nwatchers \in Nat
  BY IoAssumption
<1> QED BY <1>1, <1>2, <1>3

\* A step that starts and stops watchers, and nothing else.
LEMMA WatchStep ==
    ASSUME IoInv, NEW t, Become(t), IoOK(t, hstate, fd), DOMAIN watchers \subseteq DOMAIN t.watchers,
           t.fake = fake, \A v \in Watchers : t.events[v] \in {events[v], {}},
           UNCHANGED <<fileVars, kernel, hstate, fd, pending, array, pollVars, pc>>
    PROVE  IoInv'
<1>1. /\ file' = file /\ borrowed' = borrowed /\ kernel' = kernel /\ hstate' = hstate /\ fd' = fd
      /\ pending' = pending /\ array' = array /\ nevents' = nevents /\ full' = full
      /\ have_signals' = have_signals /\ count' = count /\ block' = block /\ pc' = pc
  BY DEF fileVars, pollVars
<1>2. watchers' = t.watchers /\ fake' = fake /\ events' = t.events
  BY DEF Become
<1>3. IoOK(Io, hstate, fd)'
  BY <1>1, Became
<1>4. IoTypes'
  <2>1. t.watchers \in Tables
    BY DEF IoOK, IoRecords
  <2>2. watchers \in Tables
    BY IoFacts DEF IoInv
  <2>3. Cardinality(DOMAIN t.watchers) >= Nwatchers
    BY <2>1, <2>2, TableGrows DEF IoInv, IoTypes
  <2> QED BY <2>3, <1>1, <1>2 DEF IoInv, IoTypes
<1>5. HandlesOK'
  BY <1>1 DEF IoInv, HandlesOK
<1>6. Registrations'
  BY <1>1, <1>2, ZenonT(60) DEF IoInv, Registrations, Accounted, At
<1>7. EventsOK'
  <2>1. \A f, x : Accounted(f, x) => Accounted(f, x)'
    BY <1>1, <1>2 DEF Accounted
  <2>2. EventsOK
    BY DEF IoInv
  <2> QED BY <1>1, <1>2, <2>1, <2>2 DEF EventsOK
<1> QED BY <1>3, <1>4, <1>5, <1>6, <1>7 DEF IoInv

\* Nobody else has an open handle's number.
LEMMA Sole ==
    ASSUME IoInv, NEW w \in Watchers, hstate[w] = "open"
    PROVE  /\ fd \in [Watchers -> Numbers \cup {-1}] /\ fd[w] \in Numbers
           /\ \A v \in Watchers : hstate[v] = "open" /\ fd[v] = fd[w] => v = w
BY DEF IoInv, IoTypes, HandlesOK

LEMMA StreamWatchStep ==
    ASSUME IoInv, NEW w \in Watchers, NEW e \in Mask, Start(w, e) \/ Stop(w, e)
    PROVE  IoInv'
<1>1. hstate[w] = "open" /\ UNCHANGED <<fileVars, kernel, hstate, fd, pending, array, pollVars, pc>>
  BY DEF Start, Stop
<1>2. /\ fd \in [Watchers -> Numbers \cup {-1}] /\ fd[w] \in Numbers
      /\ \A v \in Watchers : hstate[v] = "open" /\ fd[v] = fd[w] => v = w
  BY <1>1, Sole
<1>3. IoOK(Io, hstate, fd) /\ {e} \in SUBSET Mask /\ {e} # {}
  BY DEF IoInv
<1>4. Io.watchers = watchers /\ Io.fake = fake /\ Io.events = events
  BY DEF Io
<1>5. CASE Start(w, e)
  <2>1. PICK t : t = uv__io_start(Io, w, {e})
    OBVIOUS
  <2>2. IoOK(t, hstate, fd) /\ DOMAIN Io.watchers \subseteq DOMAIN t.watchers
        /\ t.fake = Io.fake /\ t.events = Io.events
    BY <2>1, <1>1, <1>2, <1>3, StartFacts
  <2>3. Become(t)
    BY <2>1, <1>5 DEF Start
  <2> QED BY <2>2, <2>3, <1>1, <1>4, WatchStep
<1>6. CASE Stop(w, e)
  <2>0. PICK ev : ev = {e}
    OBVIOUS
  <2>1. PICK t : t = uv__io_stop(Io, w, ev)
    OBVIOUS
  <2>2. IoOK(t, hstate, fd) /\ DOMAIN t.watchers = DOMAIN Io.watchers
        /\ t.fake = Io.fake /\ \A v \in Watchers : t.events[v] \in {Io.events[v], {}}
    <3>1. ev \in SUBSET Mask
      BY <2>0
    <3> QED BY <3>1, <2>1, <1>2, <1>3, StopFacts
  <2>3. Become(t)
    BY <2>0, <2>1, <1>6 DEF Stop
  <2> QED BY <2>2, <2>3, <1>1, <1>4, WatchStep
<1> QED BY <1>5, <1>6

LEMMA PollWatchStep ==
    ASSUME IoInv, NEW w \in Watchers, NEW ev \in SUBSET Mask, ev # {},
           PollStart(w, ev) \/ PollStop(w)
    PROVE  IoInv'
<1>1. hstate[w] = "open" /\ UNCHANGED <<fileVars, kernel, hstate, fd, pending, array, pollVars, pc>>
  BY DEF PollStart, PollStop
<1>2. /\ fd \in [Watchers -> Numbers \cup {-1}] /\ fd[w] \in Numbers
      /\ \A v \in Watchers : hstate[v] = "open" /\ fd[v] = fd[w] => v = w
  BY <1>1, Sole
<1>3. IoOK(Io, hstate, fd) /\ Mask \in SUBSET Mask
  BY DEF IoInv
<1>4. Io.watchers = watchers /\ Io.fake = fake /\ Io.events = events
  BY DEF Io
<1>5. PICK t : t = uv__io_stop(Io, w, Mask)
  OBVIOUS
<1>6. IoOK(t, hstate, fd) /\ DOMAIN t.watchers = DOMAIN Io.watchers
      /\ t.fake = Io.fake /\ \A v \in Watchers : t.events[v] \in {Io.events[v], {}}
  BY <1>5, <1>2, <1>3, StopFacts
<1>7. CASE PollStop(w)
  <2>1. Become(t)
    BY <1>5, <1>7 DEF PollStop
  <2> QED BY <2>1, <1>1, <1>4, <1>6, WatchStep
<1>8. CASE PollStart(w, ev)
  <2>1. PICK u : u = uv__io_start(t, w, ev)
    OBVIOUS
  <2>2. IoOK(u, hstate, fd) /\ DOMAIN t.watchers \subseteq DOMAIN u.watchers
        /\ u.fake = t.fake /\ u.events = t.events
    BY <2>1, <1>1, <1>2, <1>3, <1>6, StartFacts
  <2>3. Become(u)
    BY <2>1, <1>5, <1>8 DEF PollStart
  <2> QED BY <2>2, <2>3, <1>1, <1>4, <1>6, WatchStep
<1> QED BY <1>7, <1>8

\* The record does not change and neither does what it says.
LEMMA SameIo ==
    ASSUME IoOK(Io, hstate', fd'), watchVars' = watchVars
    PROVE  IoOK(Io, hstate, fd)'
<1>1. Io' = Io
  BY DEF Io, watchVars
<1> QED BY <1>1 DEF IoOK

\* A handle that is not open has no mask.
LEMMA Idle ==
    ASSUME IoInv, NEW w \in Watchers, hstate[w] # "open"
    PROVE  pevents[w] = {} /\ events[w] = {}
<1>1. BooksAgree(pevents, events, watchers, watcher_queue, hstate, fd)
  BY IoFacts DEF IoInv
<1> QED BY <1>1 DEF BooksAgree

\* A fresh file is known nowhere.
LEMMA FreshFile ==
    ASSUME Fresh # {}
    PROVE  Min(Fresh) \in Fresh /\ Min(Fresh) \in Files /\ Min(Fresh) # 0
<1>1. MaxFiles \in Nat
  BY IoAssumption
<1>2. Files \subseteq Nat
  BY <1>1 DEF Files
<1>3. Fresh \subseteq Files
  BY DEF Fresh
<1>4. Min(Fresh) \in Fresh
  BY <1>2, <1>3, MinFacts
<1>5. Min(Fresh) \in Files
  BY <1>3, <1>4
<1> HIDE DEF Files
<1>6. 0 \notin Files
  BY <1>1 DEF Files
<1> QED BY <1>4, <1>5, <1>6

\* A number in the event array is a descriptor's, or invalid.
LEMMA EventType ==
    ASSUME IoInv, NEW i \in DOMAIN array
    PROVE  array[i].fd \in Numbers \cup {-1} /\ array[i].file \in Files
           /\ array[i].events \in SUBSET (Mask \cup Trouble)
<1>1. array \in Seq([fd : Numbers \cup {-1}, file : Files, events : SUBSET (Mask \cup Trouble)])
  BY DEF IoInv, IoTypes
<1>2. i \in 1..Len(array)
  BY <1>1, LenProperties
<1>3. array[i] \in [fd : Numbers \cup {-1}, file : Files, events : SUBSET (Mask \cup Trouble)]
  BY <1>1, <1>2, ElementOfSeq
<1> QED BY <1>3

\* What opening a file does to the handles, the registrations and the events.
LEMMA OpenFileKeeps ==
    ASSUME IoInv, NEW f \in Numbers, OpenFile(f)
    PROVE  /\ file' \in [Numbers -> Files \cup {0}] /\ borrowed' \subseteq Files
           /\ file'[f] # 0
           /\ \A w \in Watchers : hstate[w] = "open" =>
                fd[w] # f /\ file'[fd[w]] = file[fd[w]]
                /\ (file[fd[w]] \in borrowed => file[fd[w]] \in borrowed')
           /\ \A g \in Numbers, x \in Files : kernel[g, x] # {} =>
                (x \in borrowed => x \in borrowed') /\ (x = file[g] => x = file'[g])
           /\ \A i \in DOMAIN array :
                /\ array[i].file \in borrowed => array[i].file \in borrowed'
                /\ array[i].fd \in Numbers /\ array[i].file = file[array[i].fd] =>
                     array[i].file = file'[array[i].fd]
<1>0. /\ file \in [Numbers -> Files \cup {0}] /\ borrowed \subseteq Files /\ fd \in [Watchers -> Numbers \cup {-1}]
      /\ array \in Seq([fd : Numbers \cup {-1}, file : Files, events : SUBSET (Mask \cup Trouble)])
  BY DEF IoInv, IoTypes
<1>1. PICK x0 : x0 = Min(Fresh)
  OBVIOUS
<1>2. x0 \in Fresh /\ x0 \in Files /\ x0 # 0
  BY <1>1, FreshFile DEF OpenFile
<1>3. file[f] = 0 /\ file' = [file EXCEPT ![f] = x0] /\ borrowed' = borrowed \ {x0}
  BY <1>1 DEF OpenFile
<1>4. /\ \A g \in Numbers : file[g] # x0 /\ kernel[g, x0] = {}
      /\ \A i \in DOMAIN array : array[i].file # x0
  BY <1>2 DEF Fresh
<1>5. \A w \in Watchers : hstate[w] = "open" => fd[w] \in Numbers /\ fd[w] # f
  BY <1>3 DEF IoInv, HandlesOK
<1>6. 0 \notin Files
  <2>1. MaxFiles \in Nat
    BY IoAssumption
  <2> QED BY <2>1 DEF Files
<1>7. file' \in [Numbers -> Files \cup {0}] /\ borrowed' \subseteq Files /\ file'[f] # 0
  BY <1>0, <1>2, <1>3
<1>8. \A w \in Watchers : hstate[w] = "open" =>
        fd[w] # f /\ file'[fd[w]] = file[fd[w]]
        /\ (file[fd[w]] \in borrowed => file[fd[w]] \in borrowed')
  BY <1>0, <1>3, <1>4, <1>5
<1>9. \A g \in Numbers, x \in Files : kernel[g, x] # {} =>
        (x \in borrowed => x \in borrowed') /\ (x = file[g] => x = file'[g])
  BY <1>0, <1>3, <1>4, <1>6
<1>10. ASSUME NEW i \in DOMAIN array
       PROVE  /\ array[i].file \in borrowed => array[i].file \in borrowed'
              /\ array[i].fd \in Numbers /\ array[i].file = file[array[i].fd] =>
                   array[i].file = file'[array[i].fd]
  <2>1. array[i].file \in Files
    BY EventType
  <2>2. PICK g : g = array[i].fd
    OBVIOUS
  <2> QED BY <2>1, <2>2, <1>0, <1>3, <1>4, <1>6
<1> QED BY <1>7, <1>8, <1>9, <1>10

LEMMA OpenStep ==
    ASSUME IoInv, NEW w \in Streams, NEW f \in Numbers, Open(w, f)
    PROVE  IoInv'
<1>0. /\ hstate[w] = "none" /\ OpenFile(f) /\ uv__io_init(w, f)
      /\ hstate' = [hstate EXCEPT ![w] = "open"]
      /\ fd' = [fd EXCEPT ![w] = f]
      /\ kernel' = kernel /\ pending' = pending /\ array' = array /\ nevents' = nevents /\ full' = full
      /\ have_signals' = have_signals /\ count' = count /\ block' = block /\ pc' = pc
      /\ watchers' = watchers /\ nfds' = nfds /\ watcher_queue' = watcher_queue /\ fake' = fake
  BY DEF Open, uv__io_init, pollVars
<1>1. w \in Watchers
  BY DEF Watchers
<1>2. /\ hstate \in [Watchers -> {"none", "open", "closing"}] /\ fd \in [Watchers -> Numbers \cup {-1}]
  BY DEF IoInv, IoTypes
<1>3. /\ hstate'[w] = "open" /\ fd'[w] = f
      /\ \A v \in Watchers \ {w} : hstate'[v] = hstate[v] /\ fd'[v] = fd[v]
  BY <1>0, <1>1, <1>2
<1>4. /\ pevents \in [Watchers -> SUBSET Mask] /\ events \in [Watchers -> SUBSET Mask]
      /\ pevents[w] = {} /\ events[w] = {}
  BY <1>0, <1>1, Idle, IoFacts DEF IoInv
<1>5. pevents' = pevents /\ events' = events
  BY <1>0, <1>4 DEF uv__io_init
<1>6. IoOK(Io, hstate', fd')
  <2>1. IoOK(Io, hstate, fd) /\ Io.pevents[w] = {}
    BY <1>4 DEF IoInv, Io
  <2> QED BY <2>1, <1>1, <1>3, Unbound
<1>7. IoOK(Io, hstate, fd)'
  BY <1>0, <1>5, <1>6, SameIo DEF watchVars
<1>8. /\ file' \in [Numbers -> Files \cup {0}] /\ borrowed' \subseteq Files
      /\ file'[f] # 0
      /\ \A v \in Watchers : hstate[v] = "open" =>
           fd[v] # f /\ file'[fd[v]] = file[fd[v]]
           /\ (file[fd[v]] \in borrowed => file[fd[v]] \in borrowed')
      /\ \A g \in Numbers, x \in Files : kernel[g, x] # {} =>
           (x \in borrowed => x \in borrowed') /\ (x = file[g] => x = file'[g])
      /\ \A i \in DOMAIN array :
           /\ array[i].file \in borrowed => array[i].file \in borrowed'
           /\ array[i].fd \in Numbers /\ array[i].file = file[array[i].fd] =>
                array[i].file = file'[array[i].fd]
  BY <1>0, OpenFileKeeps
<1>9. IoTypes'
  BY <1>0, <1>1, <1>2, <1>8 DEF IoInv, IoTypes
<1>10. HandlesOK'
  <2>0. HandlesOK /\ w \notin PollHandles /\ PollHandles \subseteq Watchers /\ pending \subseteq Watchers
    BY IoAssumption DEF IoInv, IoTypes, Watchers
  <2>1. \A v \in Watchers : hstate'[v] = "open" => fd'[v] \in Numbers /\ file'[fd'[v]] # 0
    <3> SUFFICES ASSUME NEW v \in Watchers, hstate'[v] = "open"
                 PROVE  fd'[v] \in Numbers /\ file'[fd'[v]] # 0
      OBVIOUS
    <3>1. CASE v = w
      BY <3>1, <1>3, <1>8
    <3>2. CASE v # w
      <4>1. hstate[v] = "open" /\ fd'[v] = fd[v]
        BY <3>2, <1>3
      <4>2. file'[fd[v]] = file[fd[v]]
        BY <4>1, <1>8
      <4>3. fd[v] \in Numbers /\ file[fd[v]] # 0
        BY <4>1, <2>0 DEF HandlesOK
      <4> QED BY <4>1, <4>2, <4>3
    <3> QED BY <3>1, <3>2
  <2>2. \A u, v \in Watchers : hstate'[u] = "open" /\ hstate'[v] = "open" /\ fd'[u] = fd'[v] => u = v
    <3> SUFFICES ASSUME NEW u \in Watchers, NEW v \in Watchers,
                        hstate'[u] = "open", hstate'[v] = "open", fd'[u] = fd'[v]
                 PROVE  u = v
      OBVIOUS
    <3>1. CASE u # w /\ v # w
      BY <3>1, <2>0, <1>3 DEF HandlesOK
    <3>2. CASE u = w \/ v = w
      <4>1. \A x \in Watchers \ {w} : hstate'[x] = "open" => fd'[x] # f
        <5>1. \A x \in Watchers : hstate[x] = "open" => fd[x] # f
          BY <1>8
        <5>2. \A x \in Watchers \ {w} : hstate'[x] = hstate[x] /\ fd'[x] = fd[x]
          BY <1>3
        <5> QED BY <5>1, <5>2
      <4> QED BY <4>1, <3>2, <1>3
    <3> QED BY <3>1, <3>2
  <2>3. \A v \in PollHandles : hstate'[v] = "open" => file'[fd'[v]] \in borrowed'
    BY <2>0, <1>3, <1>8 DEF HandlesOK
  <2>4. \A v \in pending' : hstate'[v] = "open"
    BY <2>0, <1>0, <1>3 DEF HandlesOK
  <2> QED BY <2>1, <2>2, <2>3, <2>4 DEF HandlesOK
<1>11. ASSUME NEW g \in Numbers, \E v \in Streams : hstate[v] = "open" /\ fd[v] = g
       PROVE  \E v \in Streams : hstate'[v] = "open" /\ fd'[v] = g
  BY <1>11, <1>0, <1>3 DEF Watchers
<1>12. Registrations'
  <2>1. ASSUME NEW v \in Watchers, events'[v] # {} PROVE kernel'[At(fd[v])'] = events'[v]
    <3>1. v # w /\ events[v] # {}
      BY <2>1, <1>4, <1>5
    <3>2. hstate[v] = "open"
      BY <3>1, Idle
    <3>3. kernel[At(fd[v])] = events[v]
      BY <3>1 DEF IoInv, Registrations
    <3>4. At(fd[v])' = At(fd[v])
      BY <3>1, <3>2, <1>3, <1>8 DEF At
    <3> QED BY <3>3, <3>4, <1>0, <1>5
  <2>2. ASSUME NEW g \in Numbers, NEW x \in Files, kernel'[g, x] # {} PROVE Accounted(g, x)'
    <3>1. Accounted(g, x) /\ kernel[g, x] # {}
      BY <2>2, <1>0 DEF IoInv, Registrations
    <3> QED BY <3>1, <1>0, <1>8, <1>11 DEF Accounted
  <2> QED BY <2>1, <2>2 DEF Registrations
<1>13. EventsOK'
  <2>1. ASSUME NEW i \in DOMAIN array, array[i].fd # -1 PROVE Accounted(array[i].fd, array[i].file)'
    <3>1. Accounted(array[i].fd, array[i].file)
      BY <2>1 DEF IoInv, EventsOK
    <3>2. array[i].fd \in Numbers
      BY <2>1, EventType
    <3>3. PICK g, x : g = array[i].fd /\ x = array[i].file
      OBVIOUS
    <3>4. /\ g \in Numbers /\ Accounted(g, x)
          /\ x \in borrowed => x \in borrowed'
          /\ x = file[g] => x = file'[g]
      BY <3>1, <3>2, <3>3, <1>8
    <3>5. Accounted(g, x)'
      BY <3>4, <1>0, <1>11 DEF Accounted
    <3> QED BY <3>3, <3>5, <1>0 DEF Accounted
  <2> QED BY <2>1, <1>0 DEF IoInv, EventsOK
<1> QED BY <1>7, <1>9, <1>10, <1>12, <1>13 DEF IoInv

\* Steps of the user that leave the handles and the watchers alone.
LEMMA UserOpenStep ==
    ASSUME IoInv, NEW f \in Numbers, UserOpen(f)
    PROVE  IoInv'
<1>0. /\ OpenFile(f) /\ hstate' = hstate /\ fd' = fd /\ watchVars' = watchVars
      /\ kernel' = kernel /\ pending' = pending /\ array' = array /\ nevents' = nevents /\ full' = full
      /\ have_signals' = have_signals /\ count' = count /\ block' = block /\ pc' = pc
  BY DEF UserOpen, pollVars
<1>1. /\ pevents' = pevents /\ events' = events /\ watchers' = watchers /\ fake' = fake
  BY <1>0 DEF watchVars
<1>2. /\ file' \in [Numbers -> Files \cup {0}] /\ borrowed' \subseteq Files
      /\ file'[f] # 0
      /\ \A v \in Watchers : hstate[v] = "open" =>
           fd[v] # f /\ file'[fd[v]] = file[fd[v]]
           /\ (file[fd[v]] \in borrowed => file[fd[v]] \in borrowed')
      /\ \A g \in Numbers, x \in Files : kernel[g, x] # {} =>
           (x \in borrowed => x \in borrowed') /\ (x = file[g] => x = file'[g])
      /\ \A i \in DOMAIN array :
           /\ array[i].file \in borrowed => array[i].file \in borrowed'
           /\ array[i].fd \in Numbers /\ array[i].file = file[array[i].fd] =>
                array[i].file = file'[array[i].fd]
  BY <1>0, OpenFileKeeps
<1>3. IoOK(Io, hstate, fd)'
  BY <1>0, SameIo DEF IoInv
<1>4. IoTypes'
  BY <1>0, <1>1, <1>2 DEF IoInv, IoTypes
<1>5. HandlesOK'
  BY <1>0, <1>2 DEF IoInv, HandlesOK, Watchers
<1>6. Registrations'
  <2>1. ASSUME NEW v \in Watchers, events[v] # {} PROVE kernel[At(fd[v])'] = events[v]
    <3>1. hstate[v] = "open"
      BY <2>1, Idle
    <3>2. At(fd[v])' = At(fd[v])
      BY <3>1, <1>0, <1>2 DEF At
    <3>3. kernel[At(fd[v])] = events[v]
      BY <2>1 DEF IoInv, Registrations
    <3> QED BY <3>2, <3>3
  <2>2. ASSUME NEW g \in Numbers, NEW x \in Files, kernel[g, x] # {} PROVE Accounted(g, x)'
    <3>1. Accounted(g, x)
      BY <2>2 DEF IoInv, Registrations
    <3> QED BY <3>1, <2>2, <1>0, <1>1, <1>2 DEF Accounted
  <2> QED BY <2>1, <2>2, <1>0, <1>1 DEF Registrations
<1>7. EventsOK'
  <2>1. ASSUME NEW i \in DOMAIN array, array[i].fd # -1 PROVE Accounted(array[i].fd, array[i].file)'
    <3>1. Accounted(array[i].fd, array[i].file)
      BY <2>1 DEF IoInv, EventsOK
    <3>2. array[i].fd \in Numbers
      BY <2>1, EventType
    <3>3. PICK g, x : g = array[i].fd /\ x = array[i].file
      OBVIOUS
    <3>4. /\ g \in Numbers /\ Accounted(g, x)
          /\ x \in borrowed => x \in borrowed'
          /\ x = file[g] => x = file'[g]
      BY <3>1, <3>2, <3>3, <1>2
    <3>5. Accounted(g, x)'
      BY <3>4, <1>0, <1>1 DEF Accounted
    <3> QED BY <3>3, <3>5, <1>0 DEF Accounted
  <2> QED BY <2>1, <1>0, <1>1 DEF IoInv, EventsOK
<1> QED BY <1>3, <1>4, <1>5, <1>6, <1>7 DEF IoInv

\* k is what is left of the registrations when number f is dealt with.
Thinned(k, f) ==
    /\ k \in [Numbers \X Files -> SUBSET Mask]
    /\ \A g \in Numbers, x \in Files : k[g, x] \in {kernel[g, x], {}}
    /\ \A g \in Numbers, x \in Files : g # f => k[g, x] = kernel[g, x]

\* EPOLL_CTL_DEL on one number.
LEMMA EpollDelFacts ==
    ASSUME IoInv, NEW f \in Numbers, NEW k, k = EpollDel(kernel, f)
    PROVE  /\ Thinned(k, f)
           /\ file[f] # 0 => k[f, file[f]] = {}
           /\ EpollDel(k, f) = k
<1>0. kernel \in [Numbers \X Files -> SUBSET Mask] /\ file \in [Numbers -> Files \cup {0}]
  BY DEF IoInv, IoTypes
<1>1. CASE file[f] = 0
  BY <1>0, <1>1 DEF EpollDel, Thinned
<1>2. CASE file[f] # 0
  <2>1. k = [kernel EXCEPT ![<<f, file[f]>>] = {}] /\ <<f, file[f]>> \in Numbers \X Files
    BY <1>0, <1>2 DEF EpollDel, At
  <2>2. k \in [Numbers \X Files -> SUBSET Mask] /\ k[f, file[f]] = {}
    BY <2>1, <1>0
  <2>3. \A p \in Numbers \X Files : k[p] = IF p = <<f, file[f]>> THEN {} ELSE kernel[p]
    BY <2>1, <1>0
  <2>4. \A g \in Numbers, x \in Files : k[g, x] = IF g = f /\ x = file[f] THEN {} ELSE kernel[g, x]
    BY <2>3
  <2>5. EpollDel(k, f) = k
    BY <2>1, <2>2, <1>2 DEF EpollDel, At
  <2> QED BY <2>2, <2>4, <2>5, <1>2 DEF Thinned
<1> QED BY <1>1, <1>2

\* A number without an open handle is closed, or gets a poll handle.
LEMMA UserCloseStep ==
    ASSUME IoInv, NEW f \in Numbers, UserClose(f)
    PROVE  IoInv'
<1>0. /\ file[f] # 0 /\ \A w \in Watchers : ~(hstate[w] = "open" /\ fd[w] = f)
      /\ file' = [file EXCEPT ![f] = 0] /\ borrowed' = borrowed
      /\ kernel' \in {EpollDel(kernel, f), kernel}
      /\ hstate' = hstate /\ fd' = fd /\ watchVars' = watchVars
      /\ pending' = pending /\ array' = array /\ nevents' = nevents /\ full' = full
      /\ have_signals' = have_signals /\ count' = count /\ block' = block /\ pc' = pc
  BY DEF UserClose, pollVars, DroppedByClose
<1>1. /\ pevents' = pevents /\ events' = events /\ watchers' = watchers /\ fake' = fake
  BY <1>0 DEF watchVars
<1>2. /\ kernel' \in [Numbers \X Files -> SUBSET Mask]
      /\ \A g \in Numbers, x \in Files : kernel'[g, x] \in {kernel[g, x], {}}
      /\ \A g \in Numbers, x \in Files : g # f => kernel'[g, x] = kernel[g, x]
  <2>1. Thinned(kernel, f)
    BY DEF IoInv, IoTypes, Thinned
  <2>2. Thinned(EpollDel(kernel, f), f)
    BY EpollDelFacts
  <2>3. Thinned(kernel', f)
    BY <2>1, <2>2, <1>0
  <2> QED BY <2>3 DEF Thinned
<1>3. file \in [Numbers -> Files \cup {0}]
  BY DEF IoInv, IoTypes
<1>4. file' \in [Numbers -> Files \cup {0}] /\ \A g \in Numbers : g # f => file'[g] = file[g]
  BY <1>0, <1>3
<1>5. \A w \in Watchers : hstate[w] = "open" => fd[w] \in Numbers /\ fd[w] # f /\ file'[fd[w]] = file[fd[w]]
  BY <1>0, <1>4 DEF IoInv, HandlesOK
<1>6. IoOK(Io, hstate, fd)'
  BY <1>0, SameIo DEF IoInv
<1>7. IoTypes'
  BY <1>0, <1>1, <1>2, <1>4 DEF IoInv, IoTypes
<1>8. HandlesOK'
  BY <1>0, <1>5 DEF IoInv, HandlesOK, Watchers
<1>9. ASSUME NEW g \in Numbers, NEW x, Accounted(g, x) PROVE Accounted(g, x)'
  <2>1. CASE x \in borrowed
    BY <2>1, <1>9, <1>0, <1>1 DEF Accounted
  <2>2. CASE x \notin borrowed
    <3>1. PICK v \in Streams : x = file[g] /\ hstate[v] = "open" /\ fd[v] = g
      BY <2>2, <1>9 DEF Accounted
    <3>2. g # f
      BY <3>1, <1>5 DEF Watchers
    <3> QED BY <3>1, <3>2, <1>9, <1>0, <1>1, <1>4 DEF Accounted
  <2> QED BY <2>1, <2>2
<1>10. Registrations'
  <2>1. ASSUME NEW v \in Watchers, events[v] # {} PROVE kernel'[At(fd[v])'] = events[v]
    <3>1. hstate[v] = "open"
      BY <2>1, Idle
    <3>2. At(fd[v])' = At(fd[v])
      BY <3>1, <1>0, <1>5 DEF At
    <3>3. kernel[At(fd[v])] = events[v]
      BY <2>1 DEF IoInv, Registrations
    <3>4. file[fd[v]] \in Files /\ fd[v] \in Numbers /\ fd[v] # f
      BY <3>1, <1>3, <1>5 DEF IoInv, HandlesOK
    <3>5. kernel'[fd[v], file[fd[v]]] = kernel[fd[v], file[fd[v]]]
      BY <3>4, <1>2
    <3> QED BY <3>2, <3>3, <3>5 DEF At
  <2>2. ASSUME NEW g \in Numbers, NEW x \in Files, kernel'[g, x] # {} PROVE Accounted(g, x)'
    <3>1. kernel[g, x] # {}
      BY <2>2, <1>2
    <3>2. Accounted(g, x)
      BY <3>1 DEF IoInv, Registrations
    <3> QED BY <3>2, <1>9
  <2> QED BY <2>1, <2>2, <1>0, <1>1 DEF Registrations
<1>11. EventsOK'
  <2>1. ASSUME NEW i \in DOMAIN array, array[i].fd # -1 PROVE Accounted(array[i].fd, array[i].file)'
    <3>1. PICK g, x : g = array[i].fd /\ x = array[i].file
      OBVIOUS
    <3>2. g \in Numbers /\ Accounted(g, x)
      BY <3>1, <2>1, EventType DEF IoInv, EventsOK
    <3>3. Accounted(g, x)'
      BY <3>2, <1>9
    <3> QED BY <3>1, <3>3, <1>0 DEF Accounted
  <2> QED BY <2>1, <1>0, <1>1 DEF IoInv, EventsOK
<1> QED BY <1>6, <1>7, <1>8, <1>10, <1>11 DEF IoInv

LEMMA PollInitStep ==
    ASSUME IoInv, NEW w \in PollHandles, NEW f \in Numbers, PollInit(w, f)
    PROVE  IoInv'
<1>0. /\ hstate[w] = "none" /\ file[f] # 0 /\ \A v \in Watchers : ~(hstate[v] = "open" /\ fd[v] = f)
      /\ kernel' = EpollDel(kernel, f)
      /\ hstate' = [hstate EXCEPT ![w] = "open"] /\ fd' = [fd EXCEPT ![w] = f]
      /\ borrowed' = borrowed \cup {file[f]} /\ file' = file
      /\ pending' = pending /\ array' = array /\ nevents' = nevents /\ full' = full
      /\ have_signals' = have_signals /\ count' = count /\ block' = block /\ pc' = pc
      /\ watchers' = watchers /\ nfds' = nfds /\ watcher_queue' = watcher_queue /\ fake' = fake
  BY DEF PollInit, uv__io_init, pollVars
<1>1. w \in Watchers
  BY DEF Watchers
<1>2. /\ hstate \in [Watchers -> {"none", "open", "closing"}] /\ fd \in [Watchers -> Numbers \cup {-1}]
      /\ file \in [Numbers -> Files \cup {0}] /\ file[f] \in Files
  BY <1>0 DEF IoInv, IoTypes
<1>3. /\ hstate'[w] = "open" /\ fd'[w] = f
      /\ \A v \in Watchers \ {w} : hstate'[v] = hstate[v] /\ fd'[v] = fd[v]
  BY <1>0, <1>1, <1>2
<1>4. /\ pevents \in [Watchers -> SUBSET Mask] /\ events \in [Watchers -> SUBSET Mask]
      /\ pevents[w] = {} /\ events[w] = {}
  BY <1>0, <1>1, Idle, IoFacts DEF IoInv
<1>5. pevents' = pevents /\ events' = events
  BY <1>4 DEF PollInit, uv__io_init
<1>6. IoOK(Io, hstate', fd')
  <2>1. IoOK(Io, hstate, fd) /\ Io.pevents[w] = {}
    BY <1>4 DEF IoInv, Io
  <2> QED BY <2>1, <1>1, <1>3, Unbound
<1>7. IoOK(Io, hstate, fd)'
  BY <1>0, <1>5, <1>6, SameIo DEF watchVars
<1>8. /\ kernel' \in [Numbers \X Files -> SUBSET Mask]
      /\ \A g \in Numbers, x \in Files : kernel'[g, x] \in {kernel[g, x], {}}
      /\ \A g \in Numbers, x \in Files : g # f => kernel'[g, x] = kernel[g, x]
  <2>1. Thinned(kernel', f)
    BY <1>0, EpollDelFacts
  <2> QED BY <2>1 DEF Thinned
<1>9. IoTypes'
  BY <1>0, <1>1, <1>2, <1>8 DEF IoInv, IoTypes
<1>10. HandlesOK'
  <2>0. HandlesOK /\ PollHandles \subseteq Watchers /\ pending \subseteq Watchers
    BY DEF IoInv, IoTypes, Watchers
  <2>1. \A v \in Watchers : hstate'[v] = "open" => fd'[v] \in Numbers /\ file'[fd'[v]] # 0
    BY <2>0, <1>0, <1>3 DEF HandlesOK
  <2>2. \A u, v \in Watchers : hstate'[u] = "open" /\ hstate'[v] = "open" /\ fd'[u] = fd'[v] => u = v
    BY <2>0, <1>0, <1>3 DEF HandlesOK
  <2>3. \A v \in PollHandles : hstate'[v] = "open" => file'[fd'[v]] \in borrowed'
    BY <2>0, <1>0, <1>3 DEF HandlesOK
  <2>4. \A v \in pending' : hstate'[v] = "open"
    BY <2>0, <1>0, <1>3 DEF HandlesOK
  <2> QED BY <2>1, <2>2, <2>3, <2>4 DEF HandlesOK
<1>11. ASSUME NEW g \in Numbers, NEW x, Accounted(g, x) PROVE Accounted(g, x)'
  <2>1. (\E v \in Streams : hstate[v] = "open" /\ fd[v] = g) =>
          \E v \in Streams : hstate'[v] = "open" /\ fd'[v] = g
    BY <1>0, <1>3 DEF Watchers
  <2> QED BY <2>1, <1>11, <1>0 DEF Accounted
<1>12. Registrations'
  <2>1. ASSUME NEW v \in Watchers, events'[v] # {} PROVE kernel'[At(fd[v])'] = events'[v]
    <3>1. v # w /\ events[v] # {}
      BY <2>1, <1>4, <1>5
    <3>2. hstate[v] = "open"
      BY <3>1, Idle
    <3>3. kernel[At(fd[v])] = events[v]
      BY <3>1 DEF IoInv, Registrations
    <3>4. At(fd[v])' = At(fd[v])
      BY <3>1, <3>2, <1>3, <1>0 DEF At
    <3>5. file[fd[v]] \in Files /\ fd[v] \in Numbers /\ fd[v] # f
      BY <3>2, <1>0, <1>2 DEF IoInv, HandlesOK
    <3>6. kernel'[fd[v], file[fd[v]]] = kernel[fd[v], file[fd[v]]]
      BY <3>5, <1>8
    <3> QED BY <3>3, <3>4, <3>6, <1>5 DEF At
  <2>2. ASSUME NEW g \in Numbers, NEW x \in Files, kernel'[g, x] # {} PROVE Accounted(g, x)'
    <3>1. kernel[g, x] # {}
      BY <2>2, <1>8
    <3>2. Accounted(g, x)
      BY <3>1 DEF IoInv, Registrations
    <3> QED BY <3>2, <1>11
  <2> QED BY <2>1, <2>2 DEF Registrations
<1>13. EventsOK'
  <2>1. ASSUME NEW i \in DOMAIN array, array[i].fd # -1 PROVE Accounted(array[i].fd, array[i].file)'
    <3>1. PICK g, x : g = array[i].fd /\ x = array[i].file
      OBVIOUS
    <3>2. g \in Numbers /\ Accounted(g, x)
      BY <3>1, <2>1, EventType DEF IoInv, EventsOK
    <3>3. Accounted(g, x)'
      BY <3>2, <1>11
    <3> QED BY <3>1, <3>3, <1>0 DEF Accounted
  <2> QED BY <2>1, <1>0 DEF IoInv, EventsOK
<1> QED BY <1>7, <1>9, <1>10, <1>12, <1>13 DEF IoInv

\* uv__poll_close stops the watcher and keeps the descriptor; the file stays
\* among the borrowed ones.
LEMMA PollCloseStep ==
    ASSUME IoInv, NEW w \in PollHandles, PollClose(w)
    PROVE  IoInv'
<1>0. /\ hstate[w] = "open" /\ Become(uv__io_stop(Io, w, Mask))
      /\ hstate' = [hstate EXCEPT ![w] = "closing"] /\ fd' = fd /\ kernel' = kernel
      /\ file' = file /\ borrowed' = borrowed
      /\ pending' = pending /\ array' = array /\ nevents' = nevents /\ full' = full
      /\ have_signals' = have_signals /\ count' = count /\ block' = block /\ pc' = pc
  BY DEF PollClose, pollVars, fileVars
<1>1. w \in Watchers /\ Mask \in SUBSET Mask /\ w \notin Streams
  BY IoAssumption DEF Watchers
<1>2. /\ fd \in [Watchers -> Numbers \cup {-1}] /\ fd[w] \in Numbers
      /\ \A v \in Watchers : hstate[v] = "open" /\ fd[v] = fd[w] => v = w
  BY <1>0, <1>1, Sole
<1>3. PICK t : t = uv__io_stop(Io, w, Mask)
  OBVIOUS
<1>4. /\ IoOK(t, hstate, fd) /\ DOMAIN t.watchers = DOMAIN Io.watchers /\ t.fake = Io.fake
      /\ \A v \in Watchers : t.events[v] \in {Io.events[v], {}}
      /\ t.pevents[w] = {}
  <2>1. IoOK(Io, hstate, fd)
    BY DEF IoInv
  <2> QED BY <2>1, <1>1, <1>2, <1>3, StopFacts
<1>5. hstate \in [Watchers -> {"none", "open", "closing"}]
  BY DEF IoInv, IoTypes
<1>6. hstate'[w] = "closing" /\ \A v \in Watchers \ {w} : hstate'[v] = hstate[v]
  BY <1>0, <1>1, <1>5
<1>7. IoOK(t, hstate', fd')
  <2>1. \A v \in Watchers \ {w} : hstate'[v] = hstate[v] /\ fd'[v] = fd[v]
    BY <1>0, <1>6
  <2> QED BY <2>1, <1>1, <1>4, Unbound
<1>8. Become(t)
  BY <1>0, <1>3
<1>9. IoOK(Io, hstate, fd)'
  BY <1>7, <1>8, Became
<1>10. DOMAIN watchers' = DOMAIN watchers /\ fake' = fake
       /\ \A v \in Watchers : events'[v] \in {events[v], {}}
  BY <1>4, <1>8 DEF Become, Io
<1>11. IoTypes'
  BY <1>0, <1>1, <1>10 DEF IoInv, IoTypes
<1>12. HandlesOK'
  BY <1>0, <1>1, <1>6 DEF IoInv, IoTypes, HandlesOK, Watchers
<1>13. \A g, x : Accounted(g, x) => Accounted(g, x)'
  BY <1>0, <1>1, <1>6, <1>10 DEF Accounted, Watchers
<1>14. Registrations'
  <2>1. Registrations
    BY DEF IoInv
  <2>2. \A v \in Watchers : events'[v] # {} => kernel'[At(fd[v])'] = events'[v]
    BY <2>1, <1>0, <1>10 DEF Registrations, At
  <2> QED BY <2>1, <2>2, <1>0, <1>13 DEF Registrations
<1>15. EventsOK'
  <2>1. EventsOK
    BY DEF IoInv
  <2> QED BY <2>1, <1>0, <1>10, <1>13 DEF EventsOK
<1> QED BY <1>9, <1>11, <1>12, <1>14, <1>15 DEF IoInv

\* The events of f are struck out of the array.
StruckOut(a, f) ==
    /\ a \in Seq([fd : Numbers \cup {-1}, file : Files, events : SUBSET (Mask \cup Trouble)])
    /\ DOMAIN a = DOMAIN array
    /\ \A i \in DOMAIN array : /\ a[i].file = array[i].file
                               /\ a[i].fd = IF array[i].fd = f THEN -1 ELSE array[i].fd
    /\ array = <<>> => a = <<>>

LEMMA InvalidatedFacts ==
    ASSUME IoInv, NEW f \in Numbers, UserCode, NEW a, a = Invalidated(f)
    PROVE  StruckOut(a, f)
<1> DEFINE E == [fd : Numbers \cup {-1}, file : Files, events : SUBSET (Mask \cup Trouble)]
<1>1. array \in Seq(E)
  BY DEF IoInv, IoTypes
<1>2. DOMAIN array = 1..Len(array) /\ Len(array) \in Nat /\ \A i \in 1..Len(array) : array[i] \in E
  BY <1>1, LenProperties, ElementOfSeq
<1>3. CASE ~fake
  <2>1. array = <<>>
    BY <1>3 DEF IoInv, EventsOK, UserCode
  <2>2. a = array
    BY <1>3 DEF Invalidated
  <2>3. DOMAIN array = {}
    BY <2>1
  <2>4. f # -1 /\ StruckOut(array, f)
    BY <2>1, <2>3, <1>1, IoAssumption DEF StruckOut
  <2> QED BY <2>2, <2>4
<1>4. CASE fake
  <2>1. a = [i \in DOMAIN array |-> IF array[i].fd = f THEN [array[i] EXCEPT !.fd = -1] ELSE array[i]]
    BY <1>4 DEF Invalidated
  <2>2. DOMAIN a = 1..Len(array)
    BY <2>1, <1>2
  <2>3. ASSUME NEW i \in 1..Len(array)
        PROVE  a[i] \in E /\ a[i].file = array[i].file
               /\ a[i].fd = IF array[i].fd = f THEN -1 ELSE array[i].fd
    <3>1. a[i] = IF array[i].fd = f THEN [array[i] EXCEPT !.fd = -1] ELSE array[i]
      BY <2>1, <1>2
    <3>2. PICK e : e = array[i]
      OBVIOUS
    <3>3. e \in E /\ a[i] = IF e.fd = f THEN [e EXCEPT !.fd = -1] ELSE e
      BY <3>1, <3>2, <1>2
    <3>4. a[i] \in E /\ a[i].file = e.file /\ a[i].fd = IF e.fd = f THEN -1 ELSE e.fd
      BY <3>3
    <3> QED BY <3>2, <3>4
  <2>4. a \in Seq(E)
    <3>1. a = [i \in 1..Len(array) |-> a[i]]
      BY <2>1, <2>2
    <3> QED BY <3>1, <2>3, <1>2, IsASeq
  <2>5. array = <<>> => a = <<>>
    <3>1. Len(a) = Len(array)
      BY <2>2, <2>4, <1>2, LenProperties
    <3> QED BY <3>1, <2>4, <1>1, EmptySeq
  <2> HIDE DEF E
  <2> QED BY <2>2, <2>3, <2>4, <2>5, <1>2 DEF E, StruckOut
<1> QED BY <1>3, <1>4

LEMMA CloseStreamStep ==
    ASSUME IoInv, NEW w \in Streams, CloseStream(w)
    PROVE  IoInv'
<1>1. PICK f : f = fd[w]
  OBVIOUS
<1>0. /\ UserCode /\ hstate[w] = "open" /\ Become(uv__io_stop(Io, w, Mask))
      /\ pending' = pending \ {w} /\ array' = Invalidated(f)
      /\ kernel' \in DroppedByClose(Deregistered(f), f)
      /\ file' = [file EXCEPT ![f] = 0] /\ fd' = [fd EXCEPT ![w] = -1]
      /\ hstate' = [hstate EXCEPT ![w] = "closing"] /\ borrowed' = borrowed
      /\ nevents' = nevents /\ full' = full
      /\ have_signals' = have_signals /\ count' = count /\ block' = block /\ pc' = pc
  BY <1>1 DEF CloseStream, pollVars
<1>2. w \in Watchers /\ Mask \in SUBSET Mask
  BY DEF Watchers
<1>3. /\ fd \in [Watchers -> Numbers \cup {-1}] /\ f \in Numbers
      /\ \A v \in Watchers : hstate[v] = "open" /\ fd[v] = f => v = w
  BY <1>0, <1>1, <1>2, Sole
<1>4. /\ hstate \in [Watchers -> {"none", "open", "closing"}] /\ file \in [Numbers -> Files \cup {0}]
      /\ file[f] # 0 /\ file[f] \in Files
  BY <1>0, <1>1, <1>2, <1>3 DEF IoInv, IoTypes, HandlesOK
<1>5. PICK t : t = uv__io_stop(Io, w, Mask)
  OBVIOUS
<1>6. /\ IoOK(t, hstate, fd) /\ DOMAIN t.watchers = DOMAIN Io.watchers /\ t.fake = Io.fake
      /\ \A v \in Watchers : t.events[v] \in {Io.events[v], {}}
      /\ t.pevents[w] = {}
  <2>1. IoOK(Io, hstate, fd) /\ fd[w] \in Numbers
    BY <1>1, <1>3 DEF IoInv
  <2>2. \A v \in Watchers : hstate[v] = "open" /\ fd[v] = fd[w] => v = w
    BY <1>1, <1>3
  <2> QED BY <2>1, <2>2, <1>2, <1>3, <1>5, StopFacts
<1>7. /\ hstate'[w] = "closing" /\ fd'[w] = -1
      /\ \A v \in Watchers \ {w} : hstate'[v] = hstate[v] /\ fd'[v] = fd[v]
  BY <1>0, <1>2, <1>3, <1>4
<1>8. IoOK(t, hstate', fd')
  BY <1>2, <1>6, <1>7, Unbound
<1>9. Become(t)
  BY <1>0, <1>5
<1>10. IoOK(Io, hstate, fd)'
  BY <1>8, <1>9, Became
<1>11. DOMAIN watchers' = DOMAIN watchers /\ fake' = fake
       /\ \A v \in Watchers : events'[v] \in {events[v], {}}
  BY <1>6, <1>9 DEF Become, Io
<1>12. events'[w] = {}
  <2>1. IoOK(t, hstate', fd') /\ t.pevents[w] = {} /\ events' = t.events
    BY <1>6, <1>8, <1>9 DEF Become
  <2> QED BY <2>1, <1>2 DEF IoOK, BooksAgree
<1>13. Thinned(kernel', f) /\ kernel'[f, file[f]] = {}
  <2>1. PICK k : k = EpollDel(kernel, f)
    OBVIOUS
  <2>2. Thinned(k, f) /\ k[f, file[f]] = {} /\ EpollDel(k, f) = k
    BY <2>1, <1>3, <1>4, EpollDelFacts
  <2>3. kernel' = k
    BY <2>1, <2>2, <1>0 DEF DroppedByClose, Deregistered
  <2> QED BY <2>2, <2>3
<1>14. StruckOut(array', f)
  BY <1>0, <1>3, InvalidatedFacts
<1>15. file' \in [Numbers -> Files \cup {0}] /\ \A g \in Numbers : g # f => file'[g] = file[g]
  BY <1>0, <1>3, <1>4
<1>16. IoTypes'
  <2>1. hstate' \in [Watchers -> {"none", "open", "closing"}] /\ fd' \in [Watchers -> Numbers \cup {-1}]
        /\ pending' \subseteq Streams /\ kernel' \in [Numbers \X Files -> SUBSET Mask]
    BY <1>0, <1>2, <1>3, <1>4, <1>13 DEF Thinned, IoInv, IoTypes
  <2> QED BY <2>1, <1>0, <1>11, <1>14, <1>15 DEF IoInv, IoTypes, StruckOut
<1>17. HandlesOK'
  <2>0. HandlesOK /\ w \notin PollHandles /\ PollHandles \subseteq Watchers /\ pending \subseteq Watchers
    BY IoAssumption DEF IoInv, IoTypes, Watchers
  <2>1. \A v \in Watchers : hstate'[v] = "open" =>
          v # w /\ hstate[v] = "open" /\ fd'[v] = fd[v] /\ fd[v] \in Numbers /\ fd[v] # f
          /\ file'[fd[v]] = file[fd[v]]
    BY <2>0, <1>3, <1>7, <1>15 DEF HandlesOK
  <2>2. \A v \in pending' : hstate'[v] = "open"
    BY <2>0, <1>0, <1>7 DEF HandlesOK
  <2> QED BY <2>0, <2>1, <2>2, <1>0 DEF HandlesOK
<1>18. ASSUME NEW g \in Numbers, NEW x, Accounted(g, x), g # f \/ x # file[f] PROVE Accounted(g, x)'
  <2>1. CASE x \in borrowed
    BY <2>1, <1>18, <1>0, <1>11 DEF Accounted
  <2>2. CASE x \notin borrowed
    <3>1. PICK v \in Streams : x = file[g] /\ hstate[v] = "open" /\ fd[v] = g
      BY <2>2, <1>18 DEF Accounted
    <3>2. g # f
      BY <3>1, <1>18
    <3>3. v # w /\ v \in Watchers
      BY <3>1, <3>2, <1>1 DEF Watchers
    <3>4. hstate'[v] = "open" /\ fd'[v] = g /\ file'[g] = x
      BY <3>1, <3>2, <3>3, <1>7, <1>15
    <3> QED BY <3>4, <1>18, <1>11 DEF Accounted
  <2> QED BY <2>1, <2>2
<1>19. Registrations'
  <2>1. ASSUME NEW v \in Watchers, events'[v] # {} PROVE kernel'[At(fd[v])'] = events'[v]
    <3>1. v # w /\ events[v] # {} /\ events'[v] = events[v]
      BY <2>1, <1>11, <1>12
    <3>2. hstate[v] = "open"
      BY <3>1, Idle
    <3>3. kernel[At(fd[v])] = events[v]
      BY <3>1 DEF IoInv, Registrations
    <3>4. fd[v] \in Numbers /\ file[fd[v]] \in Files /\ fd[v] # f
      BY <3>1, <3>2, <1>3, <1>4 DEF IoInv, HandlesOK
    <3>5. At(fd[v])' = At(fd[v])
      BY <3>1, <3>4, <1>7, <1>15 DEF At
    <3>6. kernel'[fd[v], file[fd[v]]] = kernel[fd[v], file[fd[v]]]
      BY <3>4, <1>13 DEF Thinned
    <3> QED BY <3>1, <3>3, <3>5, <3>6 DEF At
  <2>2. ASSUME NEW g \in Numbers, NEW x \in Files, kernel'[g, x] # {} PROVE Accounted(g, x)'
    <3>1. kernel[g, x] # {} /\ (g # f \/ x # file[f])
      BY <2>2, <1>13 DEF Thinned
    <3>2. Accounted(g, x)
      BY <3>1 DEF IoInv, Registrations
    <3> QED BY <3>1, <3>2, <1>18
  <2> QED BY <2>1, <2>2 DEF Registrations
<1>20. EventsOK'
  <2>1. ASSUME NEW i \in DOMAIN array', array'[i].fd # -1 PROVE Accounted(array[i].fd, array[i].file)'
    <3>1. i \in DOMAIN array /\ array[i].fd # f /\ array'[i].fd = array[i].fd /\ array'[i].file = array[i].file
      BY <2>1, <1>14 DEF StruckOut
    <3>2. PICK g, x : g = array[i].fd /\ x = array[i].file
      OBVIOUS
    <3>3. g \in Numbers /\ g # f /\ Accounted(g, x)
      BY <2>1, <3>1, <3>2, EventType DEF IoInv, EventsOK
    <3>4. Accounted(g, x)'
      BY <3>3, <1>18
    <3> QED BY <3>1, <3>2, <3>4 DEF Accounted
  <2>2. EventsOK /\ (array = <<>> => array' = <<>>)
    BY <1>14 DEF IoInv, StruckOut
  <2> QED BY <2>1, <2>2, <1>0, <1>11 DEF EventsOK
<1> QED BY <1>10, <1>16, <1>17, <1>19, <1>20 DEF IoInv

\* A closing handle becomes free memory again.
LEMMA ClosedStep ==
    ASSUME IoInv, NEW w \in Watchers, Closed(w)
    PROVE  IoInv'
<1>0. /\ hstate[w] = "closing" /\ hstate' = [hstate EXCEPT ![w] = "none"] /\ fd' = [fd EXCEPT ![w] = -1]
      /\ file' = file /\ borrowed' = borrowed /\ kernel' = kernel /\ watchVars' = watchVars
      /\ pending' = pending /\ array' = array /\ nevents' = nevents /\ full' = full
      /\ have_signals' = have_signals /\ count' = count /\ block' = block /\ pc' = pc
  BY DEF Closed, fileVars, pollVars
<1>1. /\ hstate \in [Watchers -> {"none", "open", "closing"}] /\ fd \in [Watchers -> Numbers \cup {-1}]
  BY DEF IoInv, IoTypes
<1>2. /\ hstate'[w] = "none" /\ fd'[w] = -1
      /\ \A v \in Watchers \ {w} : hstate'[v] = hstate[v] /\ fd'[v] = fd[v]
  BY <1>0, <1>1
<1>3. pevents' = pevents /\ events' = events /\ watchers' = watchers /\ fake' = fake
  BY <1>0 DEF watchVars
<1>4. pevents[w] = {} /\ events[w] = {}
  BY <1>0, Idle
<1>5. IoOK(Io, hstate', fd')
  <2>1. IoOK(Io, hstate, fd) /\ Io.pevents[w] = {}
    BY <1>4 DEF IoInv, Io
  <2> QED BY <2>1, <1>2, Unbound
<1>6. IoOK(Io, hstate, fd)'
  BY <1>0, <1>5, SameIo
<1>7. IoTypes'
  BY <1>0, <1>1, <1>3 DEF IoInv, IoTypes
<1>8. HandlesOK'
  <2>0. HandlesOK /\ PollHandles \subseteq Watchers /\ pending \subseteq Watchers
    BY DEF IoInv, IoTypes, Watchers
  <2>1. \A v \in Watchers : hstate'[v] = "open" => hstate[v] = "open" /\ fd'[v] = fd[v]
    BY <1>2
  <2>2. \A v \in pending : hstate'[v] = "open"
    BY <2>0, <1>0, <1>2 DEF HandlesOK
  <2> QED BY <2>0, <2>1, <2>2, <1>0 DEF HandlesOK
<1>9. \A g, x : Accounted(g, x) => Accounted(g, x)'
  BY <1>0, <1>2, <1>3 DEF Accounted, Watchers
<1>10. Registrations'
  <2>1. Registrations
    BY DEF IoInv
  <2>2. ASSUME NEW v \in Watchers, events'[v] # {} PROVE kernel'[At(fd[v])'] = events'[v]
    <3>1. v # w /\ events[v] # {}
      BY <2>2, <1>3, <1>4
    <3> QED BY <3>1, <2>1, <1>0, <1>2, <1>3 DEF Registrations, At
  <2> QED BY <2>1, <2>2, <1>0, <1>9 DEF Registrations
<1>11. EventsOK'
  <2>1. EventsOK
    BY DEF IoInv
  <2> QED BY <2>1, <1>0, <1>3, <1>9 DEF EventsOK
<1> QED BY <1>6, <1>7, <1>8, <1>10, <1>11 DEF IoInv

\* The steps that leave handles, watchers, files and registrations alone.
LEMMA QuietIoStep ==
    ASSUME IoInv, hstate' = hstate, fd' = fd, file' = file, borrowed' = borrowed, kernel' = kernel,
           pevents' = pevents, events' = events, watchers' = watchers, nfds' = nfds,
           watcher_queue' = watcher_queue,
           pending' \subseteq Streams, \A w \in pending' : hstate[w] = "open",
           nevents' \in BOOLEAN, full' \in BOOLEAN, have_signals' \in BOOLEAN, block' \in BOOLEAN,
           count' \in 0..MaxPolls, pc' \in {"run", "wait", "scan", "cb", "signal cb"}, fake' \in BOOLEAN,
           array' \in Seq([fd : Numbers \cup {-1}, file : Files, events : SUBSET (Mask \cup Trouble)]),
           EventsOK'
    PROVE  IoInv'
<1>1. IoTypes'
  BY DEF IoInv, IoTypes
<1>2. HandlesOK'
  BY DEF IoInv, HandlesOK
<1>3. Registrations'
  BY DEF IoInv, Registrations, Accounted, At
<1>5. IoOK(Io, hstate, fd)'
  <2>1. IoOK(Io, hstate, fd)
    BY DEF IoInv
  <2>2. Io' \in IoRecords
    <3>1. /\ pevents \in [Watchers -> SUBSET Mask] /\ events \in [Watchers -> SUBSET Mask]
          /\ watchers \in Tables /\ nfds \in Nat /\ watcher_queue \in Seq(Watchers)
      BY <2>1, IoFacts
    <3>2. /\ pevents' \in [Watchers -> SUBSET Mask] /\ events' \in [Watchers -> SUBSET Mask]
          /\ watchers' \in Tables /\ nfds' \in Nat /\ watcher_queue' \in Seq(Watchers)
      BY <3>1
    <3> QED BY <3>2 DEF IoRecords, Io
  <2>3. BooksAgree(pevents, events, watchers, watcher_queue, hstate, fd)
        /\ nfds = OwnFds + Cardinality(Entries(watchers))
    BY <2>1, IoFacts
  <2>4. BooksAgree(pevents, events, watchers, watcher_queue, hstate, fd)'
    BY <2>3 DEF BooksAgree
  <2>5. (nfds = OwnFds + Cardinality(Entries(watchers)))'
    BY <2>3 DEF Entries
  <2> QED BY <2>2, <2>4, <2>5 DEF IoOK, Io
<1> QED BY <1>1, <1>2, <1>3, <1>5 DEF IoInv

LEMMA FeedStep ==
    ASSUME IoInv, NEW w \in Streams, uv__io_feed(w) \/ PendingCall(w)
    PROVE  IoInv'
<1>0. /\ (pending' = pending \cup {w} /\ hstate[w] = "open") \/ pending' = pending \ {w}
      /\ file' = file /\ borrowed' = borrowed /\ kernel' = kernel /\ watchVars' = watchVars
      /\ hstate' = hstate /\ fd' = fd /\ array' = array /\ nevents' = nevents /\ full' = full
      /\ have_signals' = have_signals /\ count' = count /\ block' = block /\ pc' = pc
  BY DEF uv__io_feed, PendingCall, fileVars, pollVars
<1>1. /\ pevents' = pevents /\ events' = events /\ watchers' = watchers /\ nfds' = nfds
      /\ watcher_queue' = watcher_queue /\ fake' = fake
  BY <1>0 DEF watchVars
<1>2. fake \in BOOLEAN
  BY IoFacts DEF IoInv
<1>3. EventsOK'
  BY <1>0, <1>1 DEF IoInv, EventsOK, Accounted
<1>4. /\ pending' \subseteq Streams /\ \A v \in pending' : hstate[v] = "open"
  BY <1>0 DEF IoInv, IoTypes, HandlesOK
<1>5. IoTypes
  BY DEF IoInv
<1> QED BY <1>0, <1>1, <1>2, <1>3, <1>4, <1>5, QuietIoStep DEF IoTypes

\* The moves of uv__io_poll between its batches.
LEMMA BatchStep ==
    ASSUME IoInv, WaitOver \/ CallbackReturns \/ RunSignals \/ SignalsDone \/ Again \/ Return
    PROVE  IoInv'
<1>0. /\ file' = file /\ borrowed' = borrowed /\ kernel' = kernel /\ pending' = pending
      /\ hstate' = hstate /\ fd' = fd /\ array' = array
      /\ pevents' = pevents /\ events' = events /\ watchers' = watchers /\ nfds' = nfds
      /\ watcher_queue' = watcher_queue
  BY DEF WaitOver, CallbackReturns, RunSignals, SignalsDone, Again, Return, BatchEnds, fileVars, watchVars
<1>1. IoTypes /\ EventsOK /\ HandlesOK /\ fake \in BOOLEAN
  BY IoFacts DEF IoInv
<1>2. 0 \in 0..MaxPolls /\ MaxPolls \in Nat
  BY IoAssumption
<1>3. CASE WaitOver
  <2>1. pc = "wait" /\ pc' = "run" /\ fake' = fake /\ nevents' = FALSE /\ full' = FALSE
        /\ have_signals' = FALSE /\ count' = 0 /\ block' = FALSE
    BY <1>3 DEF WaitOver, LocalsEnd, watchVars
  <2>2. EventsOK'
    BY <2>1, <1>0, <1>1 DEF EventsOK, Accounted
  <2> QED BY <2>1, <2>2, <1>0, <1>1, <1>2, QuietIoStep DEF IoTypes, HandlesOK
<1>4. CASE CallbackReturns
  <2>1. pc = "cb" /\ pc' = "scan" /\ fake' = fake /\ nevents' = nevents /\ full' = full
        /\ have_signals' = have_signals /\ count' = count /\ block' = block
    BY <1>4 DEF CallbackReturns, pollVars, watchVars
  <2>2. EventsOK'
    BY <2>1, <1>0, <1>1 DEF EventsOK, Accounted
  <2> QED BY <2>1, <2>2, <1>0, <1>1, <1>2, QuietIoStep DEF IoTypes, HandlesOK
<1>5. CASE RunSignals
  <2>1. pc = "scan" /\ array = <<>> /\ pc' = "signal cb" /\ fake' = fake /\ nevents' = FALSE /\ full' = FALSE
        /\ have_signals' = FALSE /\ count' = 0 /\ block' = FALSE
    BY <1>5 DEF RunSignals, LocalsEnd, watchVars
  <2>2. EventsOK'
    BY <2>1, <1>0, <1>1 DEF EventsOK, Accounted
  <2> QED BY <2>1, <2>2, <1>0, <1>1, <1>2, QuietIoStep DEF IoTypes, HandlesOK
<1>6. CASE SignalsDone
  <2>1. pc = "signal cb" /\ pc' = "run" /\ fake' = FALSE /\ nevents' = nevents /\ full' = full
        /\ have_signals' = have_signals /\ count' = count /\ block' = block
    BY <1>6 DEF SignalsDone, pollVars
  <2>2. EventsOK'
    BY <2>1, <1>0, <1>1 DEF EventsOK, Accounted
  <2> QED BY <2>1, <2>2, <1>0, <1>1, <1>2, QuietIoStep DEF IoTypes, HandlesOK
<1>7. CASE Again
  <2>1. pc = "scan" /\ array = <<>> /\ pc' = "wait" /\ fake' = FALSE /\ nevents' = FALSE /\ full' = FALSE
        /\ have_signals' = have_signals
    BY <1>7 DEF Again, BatchEnds
  <2>2. block' \in BOOLEAN /\ count' \in 0..MaxPolls
    <3>0. count \in 0..MaxPolls /\ block \in BOOLEAN
      BY <1>1 DEF IoTypes
    <3>1. CASE PollAgain
      <4>1. count > 1 /\ count' = count - 1 /\ block' = FALSE
        BY <3>1 DEF PollAgain
      <4>2. count' \in 0..MaxPolls
        BY <4>1, <3>0, <1>2
      <4> QED BY <4>1, <4>2
    <3>2. CASE WaitOn
      BY <3>0, <3>2 DEF WaitOn
    <3> QED BY <1>7, <3>1, <3>2 DEF Again
  <2>3. EventsOK'
    BY <2>1, <1>0, <1>1 DEF EventsOK, Accounted
  <2> QED BY <2>1, <2>2, <2>3, <1>0, <1>1, QuietIoStep DEF IoTypes, HandlesOK
<1>8. CASE Return
  <2>1. pc = "scan" /\ array = <<>> /\ pc' = "run" /\ fake' = FALSE /\ nevents' = FALSE /\ full' = FALSE
        /\ have_signals' = FALSE /\ count' = 0 /\ block' = FALSE
    BY <1>8 DEF Return, BatchEnds, LocalsEnd
  <2>2. EventsOK'
    BY <2>1, <1>0, <1>1 DEF EventsOK, Accounted
  <2> QED BY <2>1, <2>2, <1>0, <1>1, <1>2, QuietIoStep DEF IoTypes, HandlesOK
<1> QED BY <1>3, <1>4, <1>5, <1>6, <1>7, <1>8

\* A watcher with a mask has a handle that is open, and a file at its number.
LEMMA Wanted ==
    ASSUME IoInv, NEW w \in Watchers, pevents[w] # {}
    PROVE  /\ hstate[w] = "open" /\ fd[w] \in Numbers /\ file[fd[w]] \in Files
           /\ fd[w] \in DOMAIN watchers /\ watchers[fd[w]] = w
           /\ \A v \in Watchers : hstate[v] = "open" /\ fd[v] = fd[w] => v = w
           /\ Accounted(fd[w], file[fd[w]])
<1>1. BooksAgree(pevents, events, watchers, watcher_queue, hstate, fd)
  BY IoFacts DEF IoInv
<1>2. hstate[w] = "open" /\ fd[w] \in DOMAIN watchers /\ watchers[fd[w]] = w
  BY <1>1 DEF BooksAgree
<1>3. /\ fd[w] \in Numbers
      /\ \A v \in Watchers : hstate[v] = "open" /\ fd[v] = fd[w] => v = w
  BY <1>2, Sole
<1>4. file[fd[w]] \in Files
  BY <1>2, <1>3 DEF IoInv, IoTypes, HandlesOK
<1>5. w \in PollHandles => file[fd[w]] \in borrowed
  BY <1>2 DEF IoInv, HandlesOK
<1>6. Accounted(fd[w], file[fd[w]])
  BY <1>2, <1>5 DEF Accounted, Watchers
<1> QED BY <1>2, <1>3, <1>4, <1>6

\* uv__io_poll registers what the queued watchers ask for, each at its own
\* number, and believes it from then on.
LEMMA RegisterStep ==
    ASSUME IoInv, Register
    PROVE  IoInv'
<1> DEFINE Queued == ToSet(watcher_queue)
<1>0. /\ pc = "run"
      /\ kernel' = [p \in DOMAIN kernel |->
                      IF \E w \in Queued : p = At(fd[w])
                      THEN pevents[CHOOSE w \in Queued : p = At(fd[w])]
                      ELSE kernel[p]]
      /\ events' = [w \in Watchers |-> IF w \in Queued THEN pevents[w] ELSE events[w]]
      /\ watcher_queue' = <<>> /\ count' = MaxPolls /\ block' \in BOOLEAN /\ pc' = "wait"
      /\ file' = file /\ borrowed' = borrowed /\ hstate' = hstate /\ fd' = fd /\ pevents' = pevents
      /\ watchers' = watchers /\ nfds' = nfds /\ fake' = fake /\ pending' = pending /\ array' = array
      /\ nevents' = nevents /\ full' = full /\ have_signals' = have_signals
  BY DEF Register, fileVars
<1>1. IoTypes /\ HandlesOK /\ Registrations /\ EventsOK /\ IoOK(Io, hstate, fd)
  BY DEF IoInv
<1>2. /\ pevents \in [Watchers -> SUBSET Mask] /\ events \in [Watchers -> SUBSET Mask]
      /\ watchers \in Tables /\ nfds \in Nat /\ fake \in BOOLEAN
      /\ BooksAgree(pevents, events, watchers, watcher_queue, hstate, fd)
      /\ nfds = OwnFds + Cardinality(Entries(watchers))
      /\ Queued \subseteq Watchers
  BY <1>1, IoFacts
<1>3. kernel \in [Numbers \X Files -> SUBSET Mask]
  BY <1>1 DEF IoTypes
<1> HIDE DEF Queued
<1>4. \A w \in Queued : pevents[w] # {}
  BY <1>2 DEF BooksAgree, Queued
<1>5. ASSUME NEW v \in Queued
      PROVE  At(fd[v]) \in Numbers \X Files /\ kernel'[At(fd[v])] = pevents[v]
  <2>1. v \in Watchers /\ hstate[v] = "open" /\ fd[v] \in Numbers /\ file[fd[v]] \in Files
        /\ \A w \in Watchers : hstate[w] = "open" /\ fd[w] = fd[v] => w = v
    BY <1>2, <1>4, Wanted
  <2>2. PICK p : p = At(fd[v])
    OBVIOUS
  <2>3. p \in DOMAIN kernel /\ p \in Numbers \X Files
    BY <2>1, <2>2, <1>3 DEF At
  <2>4. \A w \in Queued : p = At(fd[w]) => w = v
    <3>1. SUFFICES ASSUME NEW w \in Queued, p = At(fd[w]) PROVE w = v
      OBVIOUS
    <3>2. fd[w] = fd[v]
      BY <3>1, <2>2 DEF At
    <3>3. w \in Watchers /\ hstate[w] = "open"
      BY <1>2, <1>4, Wanted
    <3> QED BY <3>2, <3>3, <2>1
  <2>5. (CHOOSE w \in Queued : p = At(fd[w])) = v
    BY <2>2, <2>4
  <2>6. kernel'[p] = pevents[CHOOSE w \in Queued : p = At(fd[w])]
    BY <2>2, <2>3, <1>0
  <2> QED BY <2>2, <2>3, <2>5, <2>6
<1>6. ASSUME NEW p \in Numbers \X Files
      PROVE  kernel'[p] = kernel[p] \/ \E v \in Queued : p = At(fd[v])
  BY <1>0, <1>3
<1>7. kernel' \in [Numbers \X Files -> SUBSET Mask]
  <2>1. \A p \in Numbers \X Files : kernel'[p] \in SUBSET Mask
    BY <1>2, <1>3, <1>5, <1>6
  <2>2. DOMAIN kernel' = Numbers \X Files /\ kernel' = [p \in DOMAIN kernel' |-> kernel'[p]]
    BY <1>0, <1>3
  <2> QED BY <2>1, <2>2
<1>8. /\ events' \in [Watchers -> SUBSET Mask]
      /\ \A w \in Watchers : events'[w] = pevents[w]
  <2>1. \A w \in Watchers : w \notin Queued => events[w] = pevents[w]
    BY <1>2 DEF BooksAgree, Queued
  <2> QED BY <2>1, <1>0, <1>2
<1>9. IoTypes'
  <2>1. count' \in 0..MaxPolls
    BY <1>0, IoAssumption
  <2> QED BY <2>1, <1>0, <1>1, <1>7 DEF IoTypes
<1>10. HandlesOK'
  BY <1>0, <1>1 DEF HandlesOK
<1>11. \A g, x : Accounted(g, x) => Accounted(g, x)'
  BY <1>0 DEF Accounted
<1>12. Registrations'
  <2>1. ASSUME NEW v \in Watchers, events'[v] # {} PROVE kernel'[At(fd[v])'] = events'[v]
    <3>0. At(fd[v])' = At(fd[v]) /\ events'[v] = pevents[v]
      BY <1>0, <1>8 DEF At
    <3>1. CASE v \in Queued
      BY <3>0, <3>1, <1>5
    <3>2. CASE v \notin Queued
      <4>1. events[v] = pevents[v]
        BY <3>2, <1>2 DEF BooksAgree, Queued
      <4>2. kernel[At(fd[v])] = events[v]
        BY <4>1, <3>0, <2>1, <1>1 DEF Registrations
      <4>3. hstate[v] = "open" /\ fd[v] \in Numbers /\ file[fd[v]] \in Files
            /\ \A w \in Watchers : hstate[w] = "open" /\ fd[w] = fd[v] => w = v
        BY <3>0, <2>1, Wanted
      <4>4. ~ \E w \in Queued : At(fd[v]) = At(fd[w])
        <5>1. SUFFICES ASSUME NEW w \in Queued, At(fd[v]) = At(fd[w]) PROVE FALSE
          OBVIOUS
        <5>2. fd[w] = fd[v]
          BY <5>1 DEF At
        <5>3. w \in Watchers /\ hstate[w] = "open"
          BY <1>2, <1>4, Wanted
        <5> QED BY <5>2, <5>3, <4>3, <3>2
      <4>5. At(fd[v]) \in Numbers \X Files
        BY <4>3 DEF At
      <4> QED BY <4>1, <4>2, <4>4, <4>5, <3>0, <1>6
    <3> QED BY <3>1, <3>2
  <2>2. ASSUME NEW g \in Numbers, NEW x \in Files, kernel'[g, x] # {} PROVE Accounted(g, x)'
    <3>1. PICK p : p = <<g, x>>
      OBVIOUS
    <3>2. p \in Numbers \X Files
      BY <3>1
    <3>3. CASE \E v \in Queued : p = At(fd[v])
      <4>1. PICK v \in Queued : p = At(fd[v])
        BY <3>3
      <4>2. g = fd[v] /\ x = file[fd[v]]
        BY <4>1, <3>1 DEF At
      <4>3. Accounted(fd[v], file[fd[v]])
        BY <1>2, <1>4, Wanted
      <4> QED BY <4>2, <4>3, <1>11
    <3>4. CASE kernel'[p] = kernel[p]
      <4>1. kernel[g, x] # {}
        BY <3>4, <3>1, <2>2
      <4>2. Accounted(g, x)
        BY <4>1, <1>1 DEF Registrations
      <4> QED BY <4>2, <1>11
    <3> QED BY <3>2, <3>3, <3>4, <1>6
  <2> QED BY <2>1, <2>2 DEF Registrations
<1>13. EventsOK'
  BY <1>0, <1>1, <1>11 DEF EventsOK
<1>14. IoOK(Io, hstate, fd)'
  <2>1. Io' \in IoRecords
    <3>1. <<>> \in Seq(Watchers)
      OBVIOUS
    <3>2. /\ pevents' \in [Watchers -> SUBSET Mask] /\ events' \in [Watchers -> SUBSET Mask]
          /\ watchers' \in Tables /\ nfds' \in Nat /\ watcher_queue' \in Seq(Watchers) /\ fake' \in BOOLEAN
      BY <3>1, <1>0, <1>2, <1>8
    <3> QED BY <3>2 DEF IoRecords, Io
  <2>2. ToSet(<<>>) = {} /\ Distinct(<<>>)
    BY DEF ToSet, Distinct
  <2>3. BooksAgree(pevents, events, watchers, watcher_queue, hstate, fd)'
    BY <2>2, <1>0, <1>2, <1>8 DEF BooksAgree
  <2>4. (nfds = OwnFds + Cardinality(Entries(watchers)))'
    BY <1>0, <1>2 DEF Entries
  <2> QED BY <2>1, <2>3, <2>4 DEF IoOK, Io
<1> QED BY <1>9, <1>10, <1>12, <1>13, <1>14 DEF IoInv

\* The events behind the first one.
LEMMA RestOfArray ==
    ASSUME IoInv, array # <<>>
    PROVE  /\ 1 \in DOMAIN array /\ Head(array) = array[1]
           /\ Tail(array) \in Seq([fd : Numbers \cup {-1}, file : Files, events : SUBSET (Mask \cup Trouble)])
           /\ \A i \in DOMAIN Tail(array) : i + 1 \in DOMAIN array /\ Tail(array)[i] = array[i + 1]
<1> DEFINE E == [fd : Numbers \cup {-1}, file : Files, events : SUBSET (Mask \cup Trouble)]
<1>1. array \in Seq(E)
  BY DEF IoInv, IoTypes
<1> HIDE DEF E
<1>2. DOMAIN array = 1..Len(array) /\ Len(array) \in Nat /\ Len(array) # 0
  BY <1>1, LenProperties, EmptySeq
<1>3. /\ Head(array) = array[1] /\ Tail(array) \in Seq(E) /\ Len(Tail(array)) = Len(array) - 1
      /\ \A i \in 1..Len(Tail(array)) : Tail(array)[i] = array[i + 1]
  BY <1>1, HeadTailProperties
<1>4. DOMAIN Tail(array) = 1..(Len(array) - 1)
  BY <1>3, LenProperties
<1>5. \A i \in 1..(Len(array) - 1) : i + 1 \in 1..Len(array)
  BY <1>2
<1> QED BY <1>2, <1>3, <1>4, <1>5 DEF E

\* What a step of the batch takes off the array, and the rest stays accounted for.
LEMMA RestAccounted ==
    ASSUME IoInv, array # <<>>, array' = Tail(array), pc' \in {"scan", "cb"}, fake',
           \A g, x : Accounted(g, x) => Accounted(g, x)'
    PROVE  EventsOK'
<1>1. \A i \in DOMAIN array' : i + 1 \in DOMAIN array /\ array'[i] = array[i + 1]
  BY RestOfArray
<1>2. ASSUME NEW i \in DOMAIN array', array'[i].fd # -1
      PROVE  Accounted(array[i].fd, array[i].file)'
  <2>1. PICK g, x : g = array'[i].fd /\ x = array'[i].file
    OBVIOUS
  <2>2. Accounted(g, x)
    <3>1. PICK e : e = array'[i]
      OBVIOUS
    <3>2. e = array[i + 1] /\ i + 1 \in DOMAIN array /\ e.fd # -1 /\ g = e.fd /\ x = e.file
      BY <3>1, <2>1, <1>1, <1>2
    <3>3. \A j \in DOMAIN array : array[j].fd # -1 => Accounted(array[j].fd, array[j].file)
      BY DEF IoInv, EventsOK
    <3>4. Accounted(array[i + 1].fd, array[i + 1].file)
      BY <3>2, <3>3
    <3> QED BY <3>2, <3>4
  <2>3. Accounted(g, x)'
    BY <2>2
  <2> QED BY <2>1, <2>3 DEF Accounted
<1> QED BY <1>2 DEF EventsOK

LEMMA SkipStep ==
    ASSUME IoInv, SkipInvalidated \/ SkipUnwanted
    PROVE  IoInv'
<1>0. /\ pc = "scan" /\ array # <<>> /\ array' = Tail(array)
      /\ file' = file /\ borrowed' = borrowed /\ kernel' = kernel /\ pending' = pending
      /\ hstate' = hstate /\ fd' = fd /\ pevents' = pevents /\ events' = events /\ watchers' = watchers
      /\ nfds' = nfds /\ watcher_queue' = watcher_queue /\ fake' = fake /\ nevents' = nevents /\ full' = full
      /\ have_signals' = have_signals /\ count' = count /\ block' = block /\ pc' = pc
  BY DEF SkipInvalidated, SkipUnwanted, Scanning, fileVars, watchVars, pollVars
<1>1. IoTypes /\ HandlesOK /\ fake \in BOOLEAN /\ fake
  BY <1>0, IoFacts DEF IoInv, EventsOK
<1>2. array' \in Seq([fd : Numbers \cup {-1}, file : Files, events : SUBSET (Mask \cup Trouble)])
  BY <1>0, RestOfArray
<1>3. \A g, x : Accounted(g, x) => Accounted(g, x)'
  BY <1>0 DEF Accounted
<1>4. EventsOK'
  BY <1>0, <1>1, <1>3, RestAccounted
<1>5. pending' \subseteq Streams /\ \A w \in pending' : hstate[w] = "open"
  BY <1>0, <1>1 DEF IoTypes, HandlesOK
<1> QED BY <1>0, <1>1, <1>2, <1>4, <1>5, QuietIoStep DEF IoTypes

\* An event at a number that nobody watches: whoever had registered it does
\* not any longer believe so.
LEMMA DisarmStep ==
    ASSUME IoInv, Disarm
    PROVE  IoInv'
<1>1. PICK f : f = Head(array).fd
  OBVIOUS
<1>0. /\ pc = "scan" /\ array # <<>> /\ array' = Tail(array) /\ f # -1 /\ watchers[f] = NULL
      /\ kernel' = EpollDel(kernel, f)
      /\ file' = file /\ borrowed' = borrowed /\ pending' = pending
      /\ hstate' = hstate /\ fd' = fd /\ watchVars' = watchVars /\ nevents' = nevents /\ full' = full
      /\ have_signals' = have_signals /\ count' = count /\ block' = block /\ pc' = pc
  BY <1>1 DEF Disarm, Scanning, Watcher, fileVars, pollVars
<1>2. pevents' = pevents /\ events' = events /\ watchers' = watchers /\ fake' = fake
  BY <1>0 DEF watchVars
<1>3. IoTypes /\ HandlesOK /\ Registrations /\ IoOK(Io, hstate, fd) /\ fake
  BY <1>0 DEF IoInv, EventsOK
<1>4. f \in Numbers
  <2>1. array[1].fd \in Numbers \cup {-1} /\ Head(array) = array[1]
    BY <1>0, RestOfArray, EventType
  <2> QED BY <2>1, <1>0, <1>1
<1>5. Thinned(kernel', f)
  BY <1>0, <1>4, EpollDelFacts
<1>6. array' \in Seq([fd : Numbers \cup {-1}, file : Files, events : SUBSET (Mask \cup Trouble)])
  BY <1>0, RestOfArray
<1>7. IoTypes'
  BY <1>0, <1>2, <1>3, <1>5, <1>6 DEF IoTypes, Thinned
<1>8. HandlesOK'
  BY <1>0, <1>3 DEF HandlesOK
<1>9. \A g, x : Accounted(g, x) => Accounted(g, x)'
  BY <1>0, <1>2 DEF Accounted
<1>10. Registrations'
  <2>1. ASSUME NEW v \in Watchers, events'[v] # {} PROVE kernel'[At(fd[v])'] = events'[v]
    <3>1. BooksAgree(pevents, events, watchers, watcher_queue, hstate, fd)
      BY <1>3, IoFacts
    <3>2. pevents[v] # {}
      BY <3>1, <2>1, <1>2 DEF BooksAgree
    <3>3. fd[v] \in Numbers /\ file[fd[v]] \in Files /\ watchers[fd[v]] = v
      BY <3>2, Wanted
    <3>4. fd[v] # f
      BY <3>3, <1>0, IoAssumption
    <3>5. kernel'[fd[v], file[fd[v]]] = kernel[fd[v], file[fd[v]]]
      BY <3>3, <3>4, <1>5 DEF Thinned
    <3>6. kernel[At(fd[v])] = events[v]
      BY <2>1, <1>2, <1>3 DEF Registrations
    <3> QED BY <3>5, <3>6, <1>0, <1>2 DEF At
  <2>2. ASSUME NEW g \in Numbers, NEW x \in Files, kernel'[g, x] # {} PROVE Accounted(g, x)'
    <3>1. kernel[g, x] # {}
      BY <2>2, <1>5 DEF Thinned
    <3>2. Accounted(g, x)
      BY <3>1, <1>3 DEF Registrations
    <3> QED BY <3>2, <1>9
  <2> QED BY <2>1, <2>2 DEF Registrations
<1>11. EventsOK'
  BY <1>0, <1>2, <1>3, <1>9, RestAccounted
<1>12. IoOK(Io, hstate, fd)'
  BY <1>0, <1>3, SameIo
<1> QED BY <1>7, <1>8, <1>10, <1>11, <1>12 DEF IoInv

\* A watcher gets an event; uv__poll_io stops its watcher on an error first.
LEMMA DispatchStep ==
    ASSUME IoInv, Dispatch
    PROVE  IoInv'
<1>1. PICK f, w : f = Head(array).fd /\ w = watchers[f]
  OBVIOUS
<1>2. PICK t : /\ t = uv__io_stop(Io, w, Mask) \/ t = Io
               /\ Become(t)
  BY <1>1 DEF Dispatch, Watcher
<1>0. /\ pc = "scan" /\ array # <<>> /\ array' = Tail(array) /\ f # -1 /\ w # NULL
      /\ file' = file /\ borrowed' = borrowed /\ pending' = pending /\ kernel' = kernel
      /\ hstate' = hstate /\ fd' = fd /\ nevents' = TRUE /\ full' = full
      /\ have_signals' = have_signals /\ count' = count /\ block' = block /\ pc' = "cb"
  BY <1>1 DEF Dispatch, Scanning, Watcher, fileVars
<1>3. IoTypes /\ HandlesOK /\ Registrations /\ IoOK(Io, hstate, fd) /\ fake
  BY <1>0 DEF IoInv, EventsOK
<1>4. f \in DOMAIN watchers
  <2>1. Head(array) = array[1] /\ 1 \in DOMAIN array
    BY <1>0, RestOfArray
  <2>2. Accounted(array[1].fd, array[1].file)
    BY <2>1, <1>0, <1>1 DEF IoInv, EventsOK
  <2> QED BY <2>1, <2>2, <1>1 DEF Accounted
<1>5. w \in Watchers /\ pevents[w] # {}
  <2>1. /\ BooksAgree(pevents, events, watchers, watcher_queue, hstate, fd)
        /\ watchers[f] \in Watchers \cup {NULL}
    BY <1>3, <1>4, IoFacts
  <2> QED BY <2>1, <1>0, <1>1, <1>4 DEF BooksAgree
<1>6. /\ fd \in [Watchers -> Numbers \cup {-1}] /\ fd[w] \in Numbers
      /\ \A v \in Watchers : hstate[v] = "open" /\ fd[v] = fd[w] => v = w
  BY <1>5, Wanted, Sole
<1>7. /\ IoOK(t, hstate, fd) /\ DOMAIN t.watchers = DOMAIN Io.watchers /\ t.fake = Io.fake
      /\ \A v \in Watchers : t.events[v] \in {Io.events[v], {}}
  <2>1. CASE t = Io
    BY <2>1, <1>3
  <2>2. CASE t = uv__io_stop(Io, w, Mask)
    <3>1. Mask \in SUBSET Mask
      OBVIOUS
    <3> QED BY <3>1, <2>2, <1>3, <1>5, <1>6, StopFacts
  <2> QED BY <2>1, <2>2, <1>2
<1>8. IoOK(Io, hstate, fd)'
  <2>1. IoOK(t, hstate', fd')
    BY <1>0, <1>7
  <2> QED BY <2>1, <1>2, Became
<1>9. DOMAIN watchers' = DOMAIN watchers /\ fake' = fake
      /\ \A v \in Watchers : events'[v] \in {events[v], {}}
  BY <1>2, <1>7 DEF Become, Io
<1>10. array' \in Seq([fd : Numbers \cup {-1}, file : Files, events : SUBSET (Mask \cup Trouble)])
  BY <1>0, RestOfArray
<1>11. IoTypes'
  BY <1>0, <1>3, <1>9, <1>10 DEF IoTypes
<1>12. HandlesOK'
  BY <1>0, <1>3 DEF HandlesOK
<1>13. \A g, x : Accounted(g, x) => Accounted(g, x)'
  BY <1>0, <1>9 DEF Accounted
<1>14. Registrations'
  <2>1. \A v \in Watchers : events'[v] # {} => kernel'[At(fd[v])'] = events'[v]
    BY <1>0, <1>3, <1>9 DEF Registrations, At
  <2> QED BY <2>1, <1>0, <1>3, <1>13 DEF Registrations
<1>15. EventsOK'
  BY <1>0, <1>3, <1>9, <1>13, RestAccounted
<1> QED BY <1>8, <1>11, <1>12, <1>14, <1>15 DEF IoInv

\* epoll_wait reports registered pairs of numbers and files only.
LEMMA EpollWaitStep ==
    ASSUME IoInv, EpollWait
    PROVE  IoInv'
<1> DEFINE E == [fd : Numbers \cup {-1}, file : Files, events : SUBSET (Mask \cup Trouble)]
<1>0. /\ file' = file /\ borrowed' = borrowed /\ pending' = pending /\ kernel' = kernel
      /\ hstate' = hstate /\ fd' = fd /\ pevents' = pevents /\ events' = events
      /\ watchers' = watchers /\ nfds' = nfds /\ watcher_queue' = watcher_queue
      /\ count' = count /\ block' = block /\ fake' = TRUE /\ pc' \in {"cb", "scan"}
      /\ have_signals' \in BOOLEAN /\ full' \in BOOLEAN /\ nevents' \in BOOLEAN
  BY DEF EpollWait, fileVars
<1>1. PICK S \in SUBSET {p \in DOMAIN kernel : kernel[p] # {}} :
         \E order \in SetToSeqs(S), r \in [S -> Ready] :
            array' = [i \in DOMAIN order |->
                        [fd |-> order[i][1], file |-> order[i][2],
                         events |-> Reported(order[i], r[order[i]])]]
  BY SMTT(30) DEF EpollWait
<1>2. PICK order \in SetToSeqs(S), r \in [S -> Ready] :
         array' = [i \in DOMAIN order |->
                     [fd |-> order[i][1], file |-> order[i][2],
                      events |-> Reported(order[i], r[order[i]])]]
  BY <1>1
<1>3. IoTypes /\ HandlesOK /\ Registrations
  BY DEF IoInv
<1>4. kernel \in [Numbers \X Files -> SUBSET Mask]
  BY <1>3 DEF IoTypes
<1>5. \A p \in S : p \in Numbers \X Files /\ kernel[p] # {} /\ kernel[p] \in SUBSET Mask
  BY <1>1, <1>4
<1>6. PICK n \in Nat : n = Cardinality(S)
  <2>1. IsFiniteSet(Numbers) /\ IsFiniteSet(Files)
    BY IoAssumption, FS_Interval DEF Files
  <2>2. IsFiniteSet(Numbers \X Files)
    BY <2>1, FS_Product
  <2>3. S \in SUBSET (Numbers \X Files)
    BY <1>5
  <2>4. IsFiniteSet(S)
    BY <2>2, <2>3, FS_Subset
  <2> QED BY <2>4, FS_CardinalityType
<1>7. order \in [1..n -> S]
  BY <1>2, <1>6 DEF SetToSeqs
<1>8. ASSUME NEW i \in 1..n
      PROVE  /\ array'[i] \in E
             /\ array'[i].fd \in Numbers /\ array'[i].file \in Files
             /\ kernel[array'[i].fd, array'[i].file] # {}
  <2>1. PICK p : p = order[i]
    OBVIOUS
  <2>2. p \in S /\ p \in Numbers \X Files /\ kernel[p] # {} /\ kernel[p] \in SUBSET Mask
    BY <2>1, <1>5, <1>7
  <2>3. PICK g \in Numbers, x \in Files : p = <<g, x>>
    BY <2>2
  <2>4. p[1] = g /\ p[2] = x
    BY <2>3
  <2>5. PICK ev : ev = Reported(p, r[p])
    OBVIOUS
  <2>6. ev \in SUBSET (Mask \cup Trouble)
    BY <2>2, <2>5 DEF Reported
  <2>7. array'[i] = [fd |-> g, file |-> x, events |-> ev]
    <3>1. i \in DOMAIN order
      BY <1>7
    <3>2. array'[i] = [fd |-> order[i][1], file |-> order[i][2],
                       events |-> Reported(order[i], r[order[i]])]
      BY <3>1, <1>2
    <3> QED BY <3>2, <2>1, <2>4, <2>5
  <2>8. array'[i].fd = g /\ array'[i].file = x
    BY <2>7
  <2>9. array'[i] \in E
    BY <2>3, <2>6, <2>7
  <2>10. kernel[g, x] # {}
    BY <2>2, <2>3
  <2> HIDE DEF E
  <2> QED BY <2>3, <2>8, <2>9, <2>10
<1>9. DOMAIN array' = 1..n
  BY <1>2, <1>7
<1>10. array' \in Seq(E)
  <2>1. array' = [i \in 1..n |-> array'[i]]
    BY <1>2, <1>9
  <2>2. \A i \in 1..n : array'[i] \in E
    BY <1>8
  <2> HIDE DEF E
  <2> QED BY <2>1, <2>2, <1>6, IsASeq
<1>11. EventsOK'
  <2>1. ASSUME NEW i \in DOMAIN array' PROVE Accounted(array[i].fd, array[i].file)'
    <3>1. PICK g, x : g = array'[i].fd /\ x = array'[i].file
      OBVIOUS
    <3>2. Accounted(g, x)
      BY <3>1, <2>1, <1>3, <1>8, <1>9 DEF Registrations
    <3>3. Accounted(g, x)'
      BY <3>2, <1>0 DEF Accounted
    <3> QED BY <3>1, <3>3 DEF Accounted
  <2> QED BY <2>1, <1>0 DEF EventsOK
<1>12. pending' \subseteq Streams /\ \A w \in pending' : hstate[w] = "open"
  BY <1>0, <1>3 DEF IoTypes, HandlesOK
<1> QED BY <1>0, <1>3, <1>10, <1>11, <1>12, QuietIoStep DEF IoTypes

LEMMA IoSteps == IoInv /\ [Next]_vars => IoInv'
<1>1. ASSUME IoInv, PollStep PROVE IoInv'
  BY <1>1, RegisterStep, EpollWaitStep, BatchStep, SkipStep, DisarmStep, DispatchStep DEF PollStep
<1>2. ASSUME IoInv, UserStep PROVE IoInv'
  <2>1. Streams \subseteq Watchers /\ PollHandles \subseteq Watchers
    BY DEF Watchers
  <2>2. ASSUME NEW w \in Streams, NEW f \in Numbers, Open(w, f) PROVE IoInv'
    BY <1>2, <2>2, OpenStep
  <2>3. ASSUME NEW w \in Streams, NEW e \in Mask, Start(w, e) \/ Stop(w, e) PROVE IoInv'
    BY <1>2, <2>1, <2>3, StreamWatchStep
  <2>4. ASSUME NEW w \in Streams, uv__io_feed(w) \/ PendingCall(w) PROVE IoInv'
    BY <1>2, <2>4, FeedStep
  <2>5. ASSUME NEW w \in Streams, CloseStream(w) PROVE IoInv'
    BY <1>2, <2>5, CloseStreamStep
  <2>6. ASSUME NEW w \in PollHandles, NEW f \in Numbers, PollInit(w, f) PROVE IoInv'
    BY <1>2, <2>6, PollInitStep
  <2>7. ASSUME NEW w \in PollHandles, NEW ev \in Asked, PollStart(w, ev) PROVE IoInv'
    <3>1. ev \in SUBSET Mask /\ ev # {}
      BY IoAssumption
    <3> QED BY <3>1, <1>2, <2>1, <2>7, PollWatchStep
  <2>8. ASSUME NEW w \in PollHandles, PollStop(w) PROVE IoInv'
    <3>1. {"POLLIN"} \in SUBSET Mask /\ {"POLLIN"} # {}
      BY DEF Mask
    <3> QED BY <3>1, <1>2, <2>1, <2>8, PollWatchStep
  <2>9. ASSUME NEW w \in PollHandles, PollClose(w) PROVE IoInv'
    BY <1>2, <2>9, PollCloseStep
  <2>10. ASSUME NEW w \in Watchers, Closed(w) PROVE IoInv'
    BY <1>2, <2>10, ClosedStep
  <2>11. ASSUME NEW f \in Numbers, UserOpen(f) \/ UserClose(f) PROVE IoInv'
    BY <1>2, <2>11, UserOpenStep, UserCloseStep
  <2> QED BY <1>2, <2>2, <2>3, <2>4, <2>5, <2>6, <2>7, <2>8, <2>9, <2>10, <2>11 DEF UserStep
<1>3. ASSUME IoInv, UNCHANGED vars PROVE IoInv'
  <2>1. /\ file' = file /\ borrowed' = borrowed /\ kernel' = kernel /\ pending' = pending
        /\ hstate' = hstate /\ fd' = fd /\ pevents' = pevents /\ events' = events /\ watchers' = watchers
        /\ nfds' = nfds /\ watcher_queue' = watcher_queue /\ fake' = fake /\ nevents' = nevents
        /\ full' = full /\ have_signals' = have_signals /\ count' = count /\ block' = block /\ pc' = pc
        /\ array' = array
    BY <1>3 DEF vars, fileVars, watchVars, pollVars
  <2>2. IoTypes /\ HandlesOK /\ fake \in BOOLEAN
    BY <1>3, IoFacts DEF IoInv
  <2>3. EventsOK'
    BY <1>3, <2>1 DEF IoInv, EventsOK, Accounted
  <2>4. pending' \subseteq Streams /\ \A w \in pending' : hstate[w] = "open"
    BY <2>1, <2>2 DEF IoTypes, HandlesOK
  <2> QED BY <1>3, <2>1, <2>2, <2>3, <2>4, QuietIoStep DEF IoTypes
<1> QED BY <1>1, <1>2, <1>3 DEF Next

\* uv__io_start, uv__io_stop, uv__io_close, the poll handles and uv__io_poll
\* keep IoInv: whatever callbacks do in the middle of a batch of events.
THEOREM IoInductive == Spec => []IoInv
<1>1. Init => IoInv
  BY IoBegins
<1>2. IoInv /\ [Next]_vars => IoInv'
  BY IoSteps
<1> QED BY <1>1, <1>2, PTL DEF Spec

\* The masks, the table of watchers, nfds, the queue of changes and the
\* registrations of the kernel agree in every state of core.cpp, poll.cpp and
\* uv__io_poll, for any number of handles, descriptors and events in a batch.
THEOREM TablesStayInStep == Spec => []TablesAgree
<1>1. IoInv => TablesAgree
  <2> SUFFICES ASSUME IoInv PROVE TablesAgree
    OBVIOUS
  <2>1. /\ BooksAgree(pevents, events, watchers, watcher_queue, hstate, fd)
        /\ nfds = OwnFds + Cardinality(Entries(watchers))
        /\ watcher_queue \in Seq(Watchers)
    BY IoFacts DEF IoInv
  <2>2. HandlesOK /\ Registrations /\ IoTypes
    BY DEF IoInv
  <2>3. \A w : Contains(watcher_queue, w) <=> w \in ToSet(watcher_queue)
    BY <2>1, QueueHas
  <2>4. nfds = OwnFds + Cardinality({i \in DOMAIN watchers : watchers[i] # NULL})
    BY <2>1 DEF Entries
  <2>5. \A w \in Watchers : (\E i \in DOMAIN watchers : watchers[i] = w) => pevents[w] # {}
    BY <2>1, IoAssumption DEF BooksAgree
  <2>6. TableAgrees
    BY <2>1, <2>2, <2>3, <2>4, <2>5 DEF TableAgrees, BooksAgree, HandlesOK
  <2>7. ASSUME NEW w \in Watchers, events[w] # {}
        PROVE  file[fd[w]] # 0 /\ kernel[At(fd[w])] = events[w]
    <3>1. hstate[w] = "open"
      BY <2>1, <2>7 DEF BooksAgree
    <3> QED BY <3>1, <2>2, <2>7 DEF HandlesOK, Registrations
  <2>8. \A g \in Numbers, x \in Files : kernel[g, x] # {} /\ file[g] # x => x \in borrowed
    BY <2>2 DEF Registrations, Accounted
  <2>9. KernelAgrees
    BY <2>7, <2>8 DEF KernelAgrees
  <2> QED BY <2>6, <2>9 DEF TablesAgree
<1> QED BY <1>1, IoInductive, PTL

\* An event still in the array of uv__io_poll is never about a file that a
\* stream or a UDP handle has closed, even if its number has been given to
\* another file in the meantime (uv__platform_invalidate_fd).
THEOREM NoEventIsStale == Spec => []NoStaleEvent
<1>1. IoInv => NoStaleEvent
  BY DEF IoInv, EventsOK, Accounted, NoStaleEvent
<1> QED BY <1>1, IoInductive, PTL
=============================================================================
