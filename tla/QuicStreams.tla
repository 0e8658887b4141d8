---------------------------- MODULE QuicStreams -----------------------------
(***************************************************************************)
(* One bidirectional QUIC stream between the end A that opens it and its   *)
(* peer B: the send and receive state machines and the bookkeeping of the  *)
(* stream map (openssl-master/ssl/quic/quic_stream_map.c), the calls of    *)
(* the application (quic_impl.c), the packetiser that serves active        *)
(* streams (quic_txp.c) and the callbacks for packets acknowledged or lost *)
(* (quic_fifd.c).                                                          *)
(*                                                                         *)
(* An application writes at most one chunk of data on each side; flow      *)
(* control is QuicFlow, the send buffer byte by byte QuicSStream.  A       *)
(* packet stays in net until it is really lost, so it may come late and    *)
(* more than once, also after its sender has declared it lost.             *)
(***************************************************************************)
EXTENDS Integers, FiniteSets

CONSTANTS
  Calls,       \* the calls each application may make: [Ends -> SUBSET CallNames]
  MaxLost      \* bound: packets declared lost

A == "A"
B == "B"
Ends == {A, B}
Peer(e) == IF e = A THEN B ELSE A
CallNames == {"write", "empty_write", "late_write", "conclude", "reset", "read",
              "free", "shutdown"}

ASSUME QuicStreamsAssumption ==
  Calls \in [Ends -> SUBSET CallNames] /\ MaxLost \in Nat

VARIABLES
  qs,                  \* QUIC_STREAM of each end
  num_shutdown_flush,  \* of each end's stream map
  shutting_down,       \* ends whose application has called SSL_shutdown
  crashed,             \* ends that used a send buffer that is no more
  net,                 \* packets of each end that may still arrive
  seen,                \* packets of each end its peer has processed
  inflight,            \* packets of each end neither acknowledged nor lost
  nlost

vars == <<qs, num_shutdown_flush, shutting_down, crashed, net, seen, inflight, nlost>>

\* QUIC_STREAM as ossl_quic_stream_map_alloc leaves it; data and fin are the
\* send buffer's chunk and final size, rdata and rfin the receive buffer's.
\* silent is history: a write of nothing has set the FIN, and update_state has
\* not run since.
NoFin == -1
NewStream(life) ==
  [life |-> life, send_state |-> "READY", recv_state |-> "RECV",
   data |-> "none", fin |-> "none", rdata |-> FALSE, rfin |-> NoFin,
   stop_sending |-> FALSE, want_stop_sending |-> FALSE,
   acked_stop_sending |-> FALSE, peer_stop_sending |-> FALSE,
   want_reset_stream |-> FALSE, deleted |-> FALSE, ready_for_gc |-> FALSE,
   shutdown_flush |-> FALSE, active |-> FALSE, silent |-> FALSE]

Init ==
  /\ qs = [e \in Ends |-> NewStream(IF e = A THEN "open" ELSE "none")]
  /\ num_shutdown_flush = [e \in Ends |-> 0]
  /\ shutting_down = {} /\ crashed = {}
  /\ net = [e \in Ends |-> {}] /\ seen = [e \in Ends |-> {}]
  /\ inflight = [e \in Ends |-> {}]
  /\ nlost = 0

-----------------------------------------------------------------------------
(* The stream map.  Each operator gives the stream after the call.         *)

\* QUIC_STREAM has a QUIC_SSTREAM.
HasBuffer(s) == s.send_state \in {"READY", "SEND", "DATA_SENT"}

\* mutant: the end of the stream acknowledged is taken for the whole
is_totally_acked_fin(s) == s.fin = "acked" \/ (s.data \in {"none", "acked"} /\ s.fin = "none")

is_totally_acked(s) == s.data \in {"none", "acked"} /\ s.fin \in {"none", "acked"}
stream_has_data_to_send(s) == HasBuffer(s) /\ (s.data = "new" \/ s.fin = "new")

ready_for_gc(s) ==
  /\ s.deleted /\ s.acked_stop_sending
  /\ s.send_state \in {"DATA_RECVD", "RESET_RECVD"}

should_be_active(s) ==
  /\ ~s.ready_for_gc
  /\ \/ s.want_stop_sending \/ s.want_reset_stream
     \/ ~s.peer_stop_sending /\ stream_has_data_to_send(s)

update_state(s) ==
  LET acked == IF s.send_state = "DATA_SENT" /\ is_totally_acked(s)
               THEN [s EXCEPT !.send_state = "DATA_RECVD", !.shutdown_flush = FALSE]
               ELSE IF s.send_state = "SEND" /\ is_totally_acked(s)
               THEN [s EXCEPT !.shutdown_flush = FALSE] ELSE s
      gc == [acked EXCEPT !.ready_for_gc = @ \/ ready_for_gc(acked)] IN
  [gc EXCEPT !.active = should_be_active(gc), !.silent = FALSE]

ensure_send_part_id(s) ==
  IF s.send_state = "READY" THEN [s EXCEPT !.send_state = "SEND"] ELSE s

reset_stream_send_part(s) ==
  IF HasBuffer(s)
  THEN update_state([s EXCEPT !.want_reset_stream = TRUE,
                              !.send_state = "RESET_SENT",
                              !.shutdown_flush = FALSE])
  ELSE s

\* Only before all data or a RESET_STREAM is there.
Receiving(s) == s.recv_state \in {"RECV", "SIZE_KNOWN"}

schedule_stop_sending(s) ==
  IF s.stop_sending /\ ~s.want_stop_sending /\ Receiving(s)
  THEN update_state([s EXCEPT !.want_stop_sending = TRUE]) ELSE s

stop_sending_recv_part(s) ==
  IF ~s.stop_sending /\ Receiving(s)
  THEN schedule_stop_sending([s EXCEPT !.stop_sending = TRUE]) ELSE s

notify_reset_recv_part(s) ==
  IF s.recv_state \in {"RECV", "SIZE_KNOWN", "DATA_RECVD"}
  THEN update_state([s EXCEPT !.recv_state = "RESET_RECVD",
                              !.want_stop_sending = FALSE])
  ELSE s

eligible_for_shutdown_flush(s) ==
  s.send_state \in {"SEND", "DATA_SENT"} /\ ~is_totally_acked(s)

\* ossl_quic_stream_map_gc: the loop goes on while the stream it is at is not
\* the head of the list, and it starts at the head.
gc(s) ==
  LET qs_head == s
      at == qs_head IN
  IF s.ready_for_gc /\ at # qs_head THEN [s EXCEPT !.life = "released"] ELSE s

\* The counter follows the flag: shutdown_flush_done.
FlushDone(e, s) == IF qs[e].shutdown_flush /\ ~s.shutdown_flush THEN 1 ELSE 0

\* The stream of e becomes s.
SetStream(e, s) ==
  /\ qs' = [qs EXCEPT ![e] = s]
  /\ num_shutdown_flush' = [num_shutdown_flush EXCEPT ![e] = @ - FlushDone(e, s)]

-----------------------------------------------------------------------------
(* The application's calls.                                                *)

Open(e) == qs[e].life = "open" /\ e \notin crashed
MayCall(e, call) == call \in Calls[e] /\ Open(e) /\ ~qs[e].deleted

Quiet == UNCHANGED <<shutting_down, crashed, net, seen, inflight, nlost>>

\* quic_validate_for_write lets the call pass.
Writable(s) == HasBuffer(s) /\ s.fin = "none"

\* With SSL_WRITE_FLAG_CONCLUDE quic_post_write sets the FIN behind the data,
\* after update_state.
Write(e, concluding) ==
  LET written == update_state([ensure_send_part_id(qs[e]) EXCEPT !.data = "new"]) IN
  /\ MayCall(e, "write") /\ e \notin shutting_down
  /\ Writable(qs[e]) /\ qs[e].data = "none"
  /\ SetStream(e, IF concluding THEN [written EXCEPT !.fin = "new"] ELSE written)
  /\ Quiet

\* A write of no bytes with SSL_WRITE_FLAG_CONCLUDE: nothing is validated, the
\* stream keeps its state, and update_state is not called.
EmptyWrite(e) ==
  /\ MayCall(e, "empty_write") /\ e \notin shutting_down
  /\ \/ /\ HasBuffer(qs[e]) /\ qs[e].fin = "none"
        /\ SetStream(e, [qs[e] EXCEPT !.fin = "new", !.silent = TRUE])
        /\ Quiet
     \/ /\ ~HasBuffer(qs[e])
        /\ crashed' = crashed \cup {e}
        /\ UNCHANGED <<qs, num_shutdown_flush, shutting_down, net, seen, inflight, nlost>>

\* The FIN of such a write on a stream that has no send part yet.
FinBeforeSendPart(s) == s.send_state = "READY" /\ s.fin # "none"

\* quic_validate_for_write gives the stream its send part and then refuses the
\* call, for the stream has a final size.
RefusedCall(e) ==
  /\ \/ MayCall(e, "reset")
     \/ (MayCall(e, "write") \/ MayCall(e, "conclude")) /\ e \notin shutting_down
  /\ FinBeforeSendPart(qs[e])
  /\ SetStream(e, ensure_send_part_id(qs[e]))
  /\ Quiet

\* quic_validate_for_write asks the send buffer for the final size in state
\* DATA_RECVD too, where notify_totally_acked has freed it.
LateWrite(e) ==
  /\ MayCall(e, "late_write") /\ e \notin shutting_down
  /\ qs[e].send_state = "DATA_RECVD"
  /\ crashed' = crashed \cup {e}
  /\ UNCHANGED <<qs, num_shutdown_flush, shutting_down, net, seen, inflight, nlost>>

Conclude(e) ==
  /\ MayCall(e, "conclude") /\ e \notin shutting_down
  /\ Writable(qs[e])
  /\ SetStream(e, update_state([ensure_send_part_id(qs[e]) EXCEPT !.fin = "new"]))
  /\ Quiet

StreamReset(e) ==
  /\ MayCall(e, "reset")
  /\ Writable(qs[e])
  /\ SetStream(e, reset_stream_send_part(ensure_send_part_id(qs[e])))
  /\ Quiet

\* SSL_read up to the end of the stream, or of the news that it was reset.
Read(e) ==
  LET s == qs[e] IN
  /\ MayCall(e, "read")
  /\ \/ /\ s.recv_state = "DATA_RECVD"
        /\ LET read == [s EXCEPT !.recv_state = "DATA_READ"] IN
           SetStream(e, IF s.rfin > 0 THEN update_state(read) ELSE read)
     \/ /\ s.recv_state = "RESET_RECVD"
        /\ SetStream(e, [s EXCEPT !.recv_state = "RESET_READ"])
  /\ Quiet

\* mutant: SSL_free leaves an unfinished send part as it is
auto_reset_never(s) == s

auto_reset(s) == IF Writable(s) THEN reset_stream_send_part(s) ELSE s

\* SSL_free of the stream's object.
Free(e) ==
  /\ MayCall(e, "free")
  /\ SetStream(e, update_state([stop_sending_recv_part(auto_reset(qs[e]))
                                EXCEPT !.deleted = TRUE]))
  /\ Quiet

\* SSL_shutdown, once: qc_shutdown_flush_init.
Shutdown(e) ==
  LET flush == eligible_for_shutdown_flush(qs[e]) IN
  /\ "shutdown" \in Calls[e] /\ Open(e) /\ e \notin shutting_down
  /\ shutting_down' = shutting_down \cup {e}
  /\ qs' = [qs EXCEPT ![e].shutdown_flush = flush]
  /\ num_shutdown_flush' = [num_shutdown_flush EXCEPT ![e] = IF flush THEN 1 ELSE 0]
  /\ UNCHANGED <<crashed, net, seen, inflight, nlost>>

-----------------------------------------------------------------------------
(* The packetiser.                                                         *)

\* A STREAM frame carries the chunk if it is to be sent, and then the FIN too
\* if there is one, or the FIN alone.
StreamFrame(s) ==
  [data |-> s.data = "new",
   fin |-> IF s.fin = "none" \/ (s.data # "new" /\ s.fin # "new") THEN NoFin
           ELSE IF s.data = "none" THEN 0 ELSE 1]

NoFrame == [data |-> FALSE, fin |-> NoFin]

Sent(s) ==
  [s EXCEPT !.data = IF @ = "new" THEN "sent" ELSE @,
            !.fin = IF @ = "new" THEN "sent" ELSE @,
            !.want_stop_sending = FALSE, !.want_reset_stream = FALSE]

\* txp_pkt_commit: the update comes before the transition to DATA_SENT.
Committed(s) ==
  LET u == update_state(Sent(s)) IN
  IF u.send_state = "SEND" /\ u.fin # "none" THEN [u EXCEPT !.send_state = "DATA_SENT"]
                                             ELSE u

\* One tick of the channel: a packet for the active stream, then the GC.
Tick(e) ==
  LET s == qs[e]
      frame == IF HasBuffer(s) THEN StreamFrame(s) ELSE NoFrame
      p == [stop |-> s.want_stop_sending, reset |-> s.want_reset_stream,
            frame |-> frame] IN
  /\ Open(e) /\ s.active
  /\ SetStream(e, gc(Committed(s)))
  /\ net' = [net EXCEPT ![e] = @ \cup {p}]
  /\ inflight' = [inflight EXCEPT ![e] = @ \cup {p}]
  /\ UNCHANGED <<shutting_down, crashed, seen, nlost>>

-----------------------------------------------------------------------------
(* Frames received, in the order they have in the packet.                  *)

rx_stop_sending(s) ==
  reset_stream_send_part([s EXCEPT !.peer_stop_sending = TRUE])

rx_reset_stream(s) == update_state(notify_reset_recv_part(s))

rx_stream(s, f) ==
  LET known == IF f.fin # NoFin THEN [s EXCEPT !.recv_state = "SIZE_KNOWN", !.rfin = f.fin]
                                ELSE s
      queued == [known EXCEPT !.rdata = @ \/ f.data] IN
  IF ~Receiving(s) THEN s
  ELSE IF s.stop_sending THEN known
  ELSE IF queued.recv_state = "SIZE_KNOWN" /\ (queued.rdata \/ queued.rfin = 0)
  THEN [queued EXCEPT !.recv_state = "DATA_RECVD", !.want_stop_sending = FALSE]
  ELSE queued

\* The first packet makes the peer create its stream.
Receive(e, p) ==
  LET s0 == [qs[e] EXCEPT !.life = "open"]
      s1 == IF p.stop THEN rx_stop_sending(s0) ELSE s0
      s2 == IF p.reset THEN rx_reset_stream(s1) ELSE s1 IN
  /\ p \in net[Peer(e)] /\ e \notin crashed
  /\ IF qs[e].life = "released" THEN UNCHANGED <<qs, num_shutdown_flush>>
     ELSE SetStream(e, IF p.frame = NoFrame THEN s2 ELSE rx_stream(s2, p.frame))
  /\ seen' = [seen EXCEPT ![Peer(e)] = @ \cup {p}]
  /\ UNCHANGED <<shutting_down, crashed, net, inflight, nlost>>

-----------------------------------------------------------------------------
(* The callbacks of the acknowledgement manager.  A packet's STREAM chunk  *)
(* comes first, the chunk of its STOP_SENDING and RESET_STREAM second, and *)
(* either is skipped when the stream has no send buffer at that moment.    *)

acked_stream(s, f) ==
  LET a == [s EXCEPT !.data = IF f.data THEN "acked" ELSE @,
                     !.fin = IF f.fin # NoFin THEN "acked" ELSE @] IN
  IF f = NoFrame \/ ~HasBuffer(s) THEN s
  ELSE IF is_totally_acked(a) THEN update_state(a) ELSE a

on_confirm_notify(s, p) ==
  LET c1 == IF p.stop THEN update_state([s EXCEPT !.acked_stop_sending = TRUE]) ELSE s
      c2 == IF p.reset THEN update_state([c1 EXCEPT !.send_state = "RESET_RECVD"]) ELSE c1 IN
  IF ~(p.stop \/ p.reset) \/ ~HasBuffer(s) THEN s
  ELSE IF is_totally_acked(c2) THEN update_state(c2) ELSE c2

Acked(e, p) ==
  /\ p \in inflight[e] /\ p \in seen[e] /\ Open(e)
  /\ SetStream(e, on_confirm_notify(acked_stream(qs[e], p.frame), p))
  /\ inflight' = [inflight EXCEPT ![e] = @ \ {p}]
  /\ UNCHANGED <<shutting_down, crashed, net, seen, nlost>>

\* mutant: the stream is not looked at again after a loss
lost_stream_silent(s, f) ==
  IF f = NoFrame \/ ~HasBuffer(s) THEN s
  ELSE [s EXCEPT !.data = IF f.data THEN "new" ELSE @,
                 !.fin = IF f.fin # NoFin /\ @ # "acked" THEN "new" ELSE @]

lost_stream(s, f) ==
  IF f = NoFrame \/ ~HasBuffer(s) THEN s
  ELSE update_state(
         [s EXCEPT !.data = IF f.data THEN "new" ELSE @,
                   !.fin = IF f.fin # NoFin /\ @ # "acked" THEN "new" ELSE @])

on_regen_notify(s, p) ==
  LET r1 == IF p.stop THEN schedule_stop_sending(s) ELSE s
      r2 == IF p.reset THEN update_state([r1 EXCEPT !.want_reset_stream = TRUE]) ELSE r1 IN
  IF ~(p.stop \/ p.reset) \/ ~HasBuffer(s) THEN s ELSE r2

\* really: the packet will not come any more.
Lost(e, p, really) ==
  /\ nlost < MaxLost /\ nlost' = nlost + 1
  /\ p \in inflight[e] /\ Open(e)
  /\ really => p \notin seen[e]
  /\ SetStream(e, on_regen_notify(lost_stream(qs[e], p.frame), p))
  /\ inflight' = [inflight EXCEPT ![e] = @ \ {p}]
  /\ net' = [net EXCEPT ![e] = IF really THEN @ \ {p} ELSE @]
  /\ UNCHANGED <<shutting_down, crashed, seen>>

-----------------------------------------------------------------------------
AppCall(e) ==
  \/ (\E concluding \in BOOLEAN : Write(e, concluding))
  \/ EmptyWrite(e) \/ LateWrite(e) \/ RefusedCall(e)
  \/ Conclude(e) \/ StreamReset(e) \/ Read(e) \/ Free(e) \/ Shutdown(e)

Deliver(e) == \E p \in net[Peer(e)] : Receive(e, p)
DeliverNew(e) == \E p \in net[Peer(e)] \ seen[Peer(e)] : Receive(e, p)
Acknowledge(e) == \E p \in inflight[e] : Acked(e, p)
Lose(e) == \E p \in inflight[e], really \in BOOLEAN : Lost(e, p, really)

Next == \E e \in Ends : AppCall(e) \/ Tick(e) \/ Deliver(e) \/ Acknowledge(e) \/ Lose(e)

Spec == Init /\ [][Next]_vars

Progress == \E e \in Ends : Tick(e) \/ DeliverNew(e) \/ Acknowledge(e)

\* The event loops keep running: while a packet can be sent, can arrive for the
\* first time or can be acknowledged, one of these happens.
FairSpec == Spec /\ WF_vars(Progress)

\* The same with ENABLED <<Progress>>_vars written out, for large instances.
CanProgress ==
  \E e \in Ends :
    \/ Open(e) /\ qs[e].active
    \/ e \notin crashed /\ net[Peer(e)] \ seen[Peer(e)] # {}
    \/ Open(e) /\ inflight[e] \cap seen[e] # {}

FairSpecOut == Spec /\ ([]<>~CanProgress \/ []<><<Progress>>_vars)

-----------------------------------------------------------------------------
\* What is due, except for the FIN of a write of nothing that update_state has
\* not seen.
Due(s) == should_be_active(IF s.silent THEN [s EXCEPT !.fin = "none"] ELSE s)

\* Nothing that is due is forgotten: a stream with a frame to send is in the
\* active list, whichever callback or call made the frame due.  The exception
\* is the FIN of a write of nothing.
DueIsActive ==
  \A e \in Ends : Open(e) => (Due(qs[e]) => qs[e].active)

\* ossl_quic_stream_send_get_final_size, or the send part was reset
HasFinalSize(s) ==
  s.send_state # "READY" /\ (s.send_state = "SEND" => s.fin # "none")

\* The assertions of the packetiser, of shutdown_flush_done and of the garbage
\* collection hold: RESET_STREAM is wanted only in RESET_SENT, the counter of
\* streams being flushed counts them, and a stream that was freed was reset or
\* has a final size, unless its FIN is that of a write of nothing before it
\* had a send part.
AssertionsHold ==
  \A e \in Ends :
    /\ qs[e].want_reset_stream => qs[e].send_state = "RESET_SENT"
    /\ num_shutdown_flush[e] = IF qs[e].shutdown_flush THEN 1 ELSE 0
    /\ qs[e].deleted => HasFinalSize(qs[e]) \/ FinBeforeSendPart(qs[e])

\* What the assertion of qsm_ready_for_gc says of every stream that was freed,
\* since "If sstream has no FIN, we auto-reset it at marked-for-deletion time".
FreedHasFinalSize ==
  \A e \in Ends : qs[e].deleted => HasFinalSize(qs[e])

\* The two ends agree how a direction ended: a receiver takes it for reset only
\* if the sender reset it; a sender takes it for delivered only if the receiver
\* has everything, or has said it wants nothing, and was never told of a reset.
EndsAgree ==
  \A e \in Ends :
    LET s == qs[e]
        r == qs[Peer(e)] IN
    /\ r.recv_state \in {"RESET_RECVD", "RESET_READ"} =>
         s.send_state \in {"RESET_SENT", "RESET_RECVD"}
    /\ s.send_state = "DATA_RECVD" =>
         \/ r.recv_state \in {"DATA_RECVD", "DATA_READ"}
         \/ r.recv_state = "SIZE_KNOWN" /\ r.stop_sending
    /\ r.recv_state \in {"DATA_RECVD", "DATA_READ"} => r.rdata = (s.data # "none")

\* SSL_shutdown gets past the flush: every stream it waits for is acknowledged
\* or reset, whatever was lost.  The exception is again the FIN of a write of
\* nothing, which nobody sends while the stream has nothing else to do.
FlushFinishes ==
  (shutting_down # {}) ~>
    \/ crashed # {}
    \/ \A e \in shutting_down : num_shutdown_flush[e] = 0 \/ qs[e].silent

\* What the frame table of quic-fifm.md says of RESET_STREAM: it is generated
\* again when it is lost, so the peer hears of the reset.
ResetReachesPeer ==
  \A e \in Ends : (qs[e].send_state = "RESET_SENT") ~>
    (qs[Peer(e)].recv_state \notin {"RECV", "SIZE_KNOWN"})

=============================================================================
