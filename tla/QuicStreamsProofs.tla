-------------------------- MODULE QuicStreamsProofs --------------------------
(***************************************************************************)
(* Proofs about QuicStreams, for any calls of the two applications and any *)
(* number of losses: a stream with something to send is active and the     *)
(* code's assertions hold, the FIN of a write of nothing aside, and the two *)
(* ends agree how a direction ended.                                       *)
(***************************************************************************)
EXTENDS QuicStreams, TLAPS

-----------------------------------------------------------------------------
(* The inductive invariant.                                                *)

Frames == [data : BOOLEAN, fin : {NoFin, 0, 1}]
Packets == [stop : BOOLEAN, reset : BOOLEAN, frame : Frames]
Marks == {"none", "new", "sent", "acked"}
Streams ==
  [life : {"none", "open", "released"},
   send_state : {"READY", "SEND", "DATA_SENT", "DATA_RECVD", "RESET_SENT", "RESET_RECVD"},
   recv_state : {"RECV", "SIZE_KNOWN", "DATA_RECVD", "DATA_READ", "RESET_RECVD", "RESET_READ"},
   data : Marks, fin : Marks, rdata : BOOLEAN, rfin : {NoFin, 0, 1},
   stop_sending : BOOLEAN, want_stop_sending : BOOLEAN,
   acked_stop_sending : BOOLEAN, peer_stop_sending : BOOLEAN,
   want_reset_stream : BOOLEAN, deleted : BOOLEAN, ready_for_gc : BOOLEAN,
   shutdown_flush : BOOLEAN, active : BOOLEAN, silent : BOOLEAN]

Types ==
  /\ qs \in [Ends -> Streams]
  /\ num_shutdown_flush \in [Ends -> Int]
  /\ net \in [Ends -> SUBSET Packets] /\ seen \in [Ends -> SUBSET Packets]
  /\ inflight \in [Ends -> SUBSET Packets]

\* The peer was told of a reset.
WasReset(r) == r.recv_state \in {"RESET_RECVD", "RESET_READ"}

\* The sending and the receiving half of one stream.
SendHalf(s) ==
  /\ s.want_reset_stream => s.send_state = "RESET_SENT"
  /\ s.send_state = "DATA_SENT" => s.fin # "none"
  /\ s.send_state = "DATA_RECVD" => s.fin = "acked" /\ s.data \in {"none", "acked"}
  /\ s.deleted /\ HasBuffer(s) => s.fin # "none"

RecvHalf(s) ==
  /\ s.recv_state = "SIZE_KNOWN" /\ ~s.stop_sending => ~s.rdata /\ s.rfin # 0
  /\ s.recv_state \in {"SIZE_KNOWN", "DATA_RECVD", "DATA_READ"} => s.rfin # NoFin
  /\ s.recv_state \in {"DATA_RECVD", "DATA_READ"} => s.rdata \/ s.rfin = 0

\* Due, written out.
Wanted(s) ==
  /\ ~s.ready_for_gc
  /\ \/ s.want_stop_sending \/ s.want_reset_stream
     \/ /\ ~s.peer_stop_sending /\ HasBuffer(s)
        /\ s.data = "new" \/ (s.fin = "new" /\ ~s.silent)

\* A stream between the steps of a handler, and at its end.
Core(s) == s \in Streams /\ SendHalf(s) /\ RecvHalf(s) /\ s.life # "released"
Good(s) == Core(s) /\ (Wanted(s) => s.active)

Halves == \A e \in Ends : /\ Good(qs[e])
                          /\ num_shutdown_flush[e] = IF qs[e].shutdown_flush THEN 1 ELSE 0

\* The final size, once there is one, in chunks.
FinalSize(s) == IF s.data = "none" THEN 0 ELSE 1

\* What a packet of the stream s can carry.
Carried(s, p) ==
  /\ p.reset => s.send_state = "RESET_SENT"
  /\ p.frame.data => s.data # "none"
  /\ p.frame.fin # NoFin => s.fin # "none" /\ p.frame.fin = FinalSize(s)

\* What the receiver r can know of the stream s.
Known(s, r) ==
  /\ WasReset(r) => s.send_state = "RESET_SENT"
  /\ r.rdata => s.data # "none"
  /\ r.rfin # NoFin => s.fin # "none" /\ r.rfin = FinalSize(s)

\* The receiver r has the data, has declined it, or was told of a reset.
DataDone(r) == r.rdata \/ r.stop_sending \/ WasReset(r)
FinDone(r) == r.recv_state # "RECV"

\* What r has processed.
Processed(r, p) ==
  /\ p.frame.data => DataDone(r)
  /\ p.frame.fin # NoFin => FinDone(r)

\* What s was told that r has processed.
Confirmed(s, r) ==
  /\ s.data = "acked" => DataDone(r)
  /\ s.fin = "acked" => FinDone(r)

Directions ==
  \A e \in Ends :
    /\ \A p \in net[e] \cup seen[e] \cup inflight[e] : Carried(qs[e], p)
    /\ \A p \in seen[e] : Processed(qs[Peer(e)], p)
    /\ Known(qs[e], qs[Peer(e)]) /\ Confirmed(qs[e], qs[Peer(e)])

IInv == Types /\ Halves /\ Directions

-----------------------------------------------------------------------------
(* The operators of the stream map.                                        *)

\* t differs from s in nothing but the listed fields' being as update_state
\* leaves them.
Refreshed(s, t) ==
  /\ t \in Streams
  /\ t.life = s.life /\ t.recv_state = s.recv_state
  /\ t.data = s.data /\ t.fin = s.fin /\ t.rdata = s.rdata /\ t.rfin = s.rfin
  /\ t.stop_sending = s.stop_sending
  /\ t.want_stop_sending = s.want_stop_sending
  /\ t.peer_stop_sending = s.peer_stop_sending
  /\ t.want_reset_stream = s.want_reset_stream
  /\ t.deleted = s.deleted
  /\ t.send_state = IF s.send_state = "DATA_SENT" /\ is_totally_acked(s)
                    THEN "DATA_RECVD" ELSE s.send_state
  /\ t.shutdown_flush => s.shutdown_flush

LEMMA UpdateState ==
  ASSUME NEW s \in Streams
  PROVE  /\ Refreshed(s, update_state(s))
         /\ Wanted(update_state(s)) => update_state(s).active
<1> DEFINE a == IF s.send_state = "DATA_SENT" /\ is_totally_acked(s)
               THEN [s EXCEPT !.send_state = "DATA_RECVD", !.shutdown_flush = FALSE]
               ELSE IF s.send_state = "SEND" /\ is_totally_acked(s)
               THEN [s EXCEPT !.shutdown_flush = FALSE] ELSE s
           g == [a EXCEPT !.ready_for_gc = @ \/ ready_for_gc(a)]
           h == [g EXCEPT !.active = should_be_active(g)]
           t == [h EXCEPT !.silent = FALSE]
<1>1. update_state(s) = t
  BY DEF update_state
<1>2. a \in Streams /\ Refreshed(s, a)
  <2>1. CASE s.send_state = "DATA_SENT" /\ is_totally_acked(s)
    BY <2>1 DEF Streams, Refreshed
  <2>2. CASE s.send_state = "SEND" /\ is_totally_acked(s)
    BY <2>2 DEF Streams, Refreshed
  <2>3. CASE a = s /\ ~(s.send_state = "DATA_SENT" /\ is_totally_acked(s))
    BY <2>3 DEF Refreshed
  <2> QED BY <2>1, <2>2, <2>3
<1> HIDE DEF a
<1>3. /\ g \in Streams /\ Refreshed(s, g)
  BY <1>2 DEF Streams, Refreshed, ready_for_gc
<1> HIDE DEF g
<1>4. /\ h \in Streams /\ Refreshed(s, h) /\ (Wanted(h) => h.active)
  BY <1>3 DEF Streams, Refreshed, Wanted, should_be_active, stream_has_data_to_send,
              HasBuffer
<1>5. should_be_active(h) => h.active
  BY <1>3 DEF Streams, should_be_active, stream_has_data_to_send, HasBuffer
<1> HIDE DEF h
<1>6. t \in Streams /\ Refreshed(s, t)
  BY <1>4 DEF Streams, Refreshed
<1>7. Wanted(t) => t.active
  BY <1>4, <1>5 DEF Streams, Wanted, should_be_active, stream_has_data_to_send, HasBuffer
<1> QED BY <1>1, <1>6, <1>7

-----------------------------------------------------------------------------
(* What a handler does to its stream, as the peer can tell.                *)

\* The sending half goes only forward.
Sends(s, t) ==
  /\ s.send_state = "RESET_SENT" => t.send_state = "RESET_SENT"
  /\ s.data # "none" => t.data # "none"
  /\ s.fin # "none" => t.fin # "none" /\ FinalSize(t) = FinalSize(s)

\* Nothing was acknowledged.
NoNews(s, t) ==
  /\ t.data = "acked" => s.data = "acked"
  /\ t.fin = "acked" => s.fin = "acked"

\* Nothing was received.
Receives(s, t) ==
  /\ WasReset(t) <=> WasReset(s)
  /\ t.rdata = s.rdata /\ t.rfin = s.rfin
  /\ s.stop_sending => t.stop_sending
  /\ FinDone(s) => FinDone(t)

Flushes(s, t) == t.shutdown_flush => s.shutdown_flush

Step(s, t) == Sends(s, t) /\ NoNews(s, t) /\ Receives(s, t) /\ Flushes(s, t)

LEMMA StepTrans ==
  ASSUME NEW s, NEW t, NEW u, Step(s, t), Step(t, u)
  PROVE  Step(s, u)
BY DEF Step, Sends, NoNews, Receives, Flushes

LEMMA Update ==
  ASSUME NEW s, Core(s)
  PROVE  Good(update_state(s)) /\ Step(s, update_state(s))
<1> DEFINE t == update_state(s)
<1>1. s \in Streams
  BY DEF Core
<1>2. Refreshed(s, t) /\ (Wanted(t) => t.active)
  BY <1>1, UpdateState
<1> HIDE DEF t
<1>3. SendHalf(t)
  BY <1>1, <1>2 DEF Refreshed, Core, SendHalf, HasBuffer, is_totally_acked
<1>4. RecvHalf(t)
  BY <1>2 DEF Refreshed, Core, RecvHalf
<1>5. Good(t)
  BY <1>2, <1>3, <1>4 DEF Good, Core, Refreshed
<1>6. Sends(s, t) /\ NoNews(s, t)
  BY <1>2 DEF Refreshed, Sends, NoNews, FinalSize
<1>7. Receives(s, t) /\ Flushes(s, t)
  BY <1>2 DEF Refreshed, Receives, Flushes, WasReset, FinDone
<1> QED BY <1>5, <1>6, <1>7 DEF t, Step

LEMMA UpdateAfter ==
  ASSUME NEW s, NEW t, Core(t), Step(s, t)
  PROVE  Good(update_state(t)) /\ Step(s, update_state(t))
BY Update, StepTrans

LEMMA EnsureSendPart ==
  ASSUME NEW s, Good(s)
  PROVE  LET t == ensure_send_part_id(s)
         IN  /\ Good(t) /\ Step(s, t)
             /\ t.data = s.data /\ t.fin = s.fin /\ t.deleted = s.deleted
             /\ HasBuffer(t) <=> HasBuffer(s)
<1> USE DEF ensure_send_part_id
<1>1. CASE s.send_state # "READY"
  BY <1>1 DEF Step, Sends, NoNews, Receives, Flushes
<1>2. CASE s.send_state = "READY"
  <2> DEFINE t == [s EXCEPT !.send_state = "SEND"]
  <2>0. t \in Streams /\ t.life # "released"
    BY DEF Good, Core, Streams
  <2>1. RecvHalf(t)
    BY DEF Good, Core, Streams, RecvHalf
  <2>2. SendHalf(t)
    BY <1>2 DEF Good, Core, Streams, SendHalf, HasBuffer
  <2>3. Wanted(t) => t.active
    BY <1>2 DEF Good, Core, Streams, Wanted, HasBuffer
  <2>4. Step(s, t)
    BY <1>2 DEF Good, Core, Streams, Step, Sends, NoNews, Receives, Flushes, FinalSize,
                WasReset, FinDone
  <2>5. t.data = s.data /\ t.fin = s.fin /\ t.deleted = s.deleted /\ HasBuffer(t) /\ HasBuffer(s)
    BY <1>2 DEF Good, Core, Streams, HasBuffer
  <2> HIDE DEF t
  <2> QED BY <1>2, <2>0, <2>1, <2>2, <2>3, <2>4, <2>5 DEF Good, Core, t
<1> QED BY <1>1, <1>2

LEMMA ResetSendPart ==
  ASSUME NEW s, Good(s)
  PROVE  LET t == reset_stream_send_part(s)
         IN  Good(t) /\ Step(s, t) /\ ~HasBuffer(t) /\ t.deleted = s.deleted
<1>1. CASE ~HasBuffer(s)
  BY <1>1 DEF reset_stream_send_part, Step, Sends, NoNews, Receives, Flushes
<1>2. CASE HasBuffer(s)
  <2> DEFINE t == [s EXCEPT !.want_reset_stream = TRUE,
                            !.send_state = "RESET_SENT",
                            !.shutdown_flush = FALSE]
  <2>0. t \in Streams /\ t.life # "released"
    BY DEF Good, Core, Streams
  <2>b. RecvHalf(t)
    BY DEF Good, Core, Streams, RecvHalf
  <2>a. SendHalf(t)
    BY DEF Good, Core, Streams, SendHalf, HasBuffer
  <2>1. Core(t)
    <3> HIDE DEF t
    <3> QED BY <2>0, <2>a, <2>b DEF Core
  <2>2. Step(s, t)
    BY DEF Good, Core, Streams, Step, Sends, NoNews, Receives, Flushes, FinalSize,
           WasReset, FinDone
  <2>3. t \in Streams /\ t.send_state = "RESET_SENT" /\ t.deleted = s.deleted
    BY DEF Good, Core, Streams
  <2> HIDE DEF t
  <2>4. ~HasBuffer(update_state(t)) /\ update_state(t).deleted = s.deleted
    BY <2>3, UpdateState DEF Refreshed, HasBuffer
  <2> QED BY <1>2, <2>1, <2>2, <2>4, UpdateAfter DEF reset_stream_send_part, t
<1> QED BY <1>1, <1>2

LEMMA ScheduleStop ==
  ASSUME NEW s, Good(s)
  PROVE  LET t == schedule_stop_sending(s)
         IN  /\ Good(t) /\ Step(s, t)
             /\ s.deleted = t.deleted /\ (HasBuffer(t) => HasBuffer(s))
             /\ HasBuffer(s) /\ s.fin # "none" => t.fin # "none"
<1> DEFINE t == [s EXCEPT !.want_stop_sending = TRUE]
<1>1. CASE s.stop_sending /\ ~s.want_stop_sending /\ Receiving(s)
  <2>1. Core(t)
    <3>1. t \in Streams /\ t.life # "released"
      BY DEF Good, Core, Streams
    <3>2. SendHalf(t)
      BY DEF Good, Core, Streams, SendHalf, HasBuffer
    <3>3. RecvHalf(t)
      BY DEF Good, Core, Streams, RecvHalf
    <3> HIDE DEF t
    <3> QED BY <3>1, <3>2, <3>3 DEF Core
  <2>2. Step(s, t)
    BY DEF Good, Core, Streams, Step, Sends, NoNews, Receives, Flushes, FinalSize,
           WasReset, FinDone
  <2>3. t \in Streams /\ t.send_state = s.send_state /\ t.fin = s.fin /\ t.deleted = s.deleted
    BY DEF Good, Core, Streams
  <2> HIDE DEF t
  <2>4. /\ update_state(t).deleted = s.deleted /\ update_state(t).fin = s.fin
        /\ HasBuffer(update_state(t)) => HasBuffer(s)
    BY <2>3, UpdateState DEF Refreshed, HasBuffer
  <2> QED BY <1>1, <2>1, <2>2, <2>4, UpdateAfter DEF schedule_stop_sending, t
<1>2. CASE ~(s.stop_sending /\ ~s.want_stop_sending /\ Receiving(s))
  <2>1. schedule_stop_sending(s) = s
    BY <1>2 DEF schedule_stop_sending
  <2> QED BY <2>1 DEF Step, Sends, NoNews, Receives, Flushes
<1> QED BY <1>1, <1>2

LEMMA StopSending ==
  ASSUME NEW s, Good(s)
  PROVE  LET t == stop_sending_recv_part(s)
         IN  /\ Good(t) /\ Step(s, t)
             /\ s.deleted = t.deleted /\ (HasBuffer(t) => HasBuffer(s))
             /\ HasBuffer(s) /\ s.fin # "none" => t.fin # "none"
<1> DEFINE t == [s EXCEPT !.stop_sending = TRUE]
<1>1. CASE ~s.stop_sending /\ Receiving(s)
  <2>1. Core(t)
    <3>1. t \in Streams /\ t.life # "released"
      BY DEF Good, Core, Streams
    <3>2. SendHalf(t)
      BY DEF Good, Core, Streams, SendHalf, HasBuffer
    <3>3. RecvHalf(t)
      BY DEF Good, Core, Streams, RecvHalf
    <3> HIDE DEF t
    <3> QED BY <3>1, <3>2, <3>3 DEF Core
  <2>2. Wanted(t) => t.active
    BY DEF Good, Core, Streams, Wanted, HasBuffer
  <2>3. Step(s, t)
    BY DEF Good, Core, Streams, Step, Sends, NoNews, Receives, Flushes, FinalSize,
           WasReset, FinDone
  <2>4. t.deleted = s.deleted /\ t.fin = s.fin /\ (HasBuffer(t) <=> HasBuffer(s))
    BY DEF Good, Core, Streams, HasBuffer
  <2>5. stop_sending_recv_part(s) = schedule_stop_sending(t)
    BY <1>1 DEF stop_sending_recv_part
  <2> HIDE DEF t
  <2>6. Good(t)
    BY <2>1, <2>2 DEF Good
  <2> QED BY <2>3, <2>4, <2>5, <2>6, ScheduleStop, StepTrans
<1>2. CASE ~(~s.stop_sending /\ Receiving(s))
  <2>1. stop_sending_recv_part(s) = s
    BY <1>2 DEF stop_sending_recv_part
  <2> QED BY <2>1 DEF Step, Sends, NoNews, Receives, Flushes
<1> QED BY <1>1, <1>2

-----------------------------------------------------------------------------
(* A step of one end: its stream becomes t.                                *)

Packeted(e) == net[e] \cup seen[e] \cup inflight[e]

LEMMA Replace ==
  ASSUME IInv, NEW e \in Ends, NEW t, SetStream(e, t),
         Good(t), Sends(qs[e], t), Flushes(qs[e], t),
         Confirmed(t, qs[Peer(e)]), Known(qs[Peer(e)], t),
         DataDone(qs[e]) => DataDone(t), FinDone(qs[e]) => FinDone(t),
         net' \in [Ends -> SUBSET Packets], seen' \in [Ends -> SUBSET Packets],
         inflight' \in [Ends -> SUBSET Packets],
         seen'[e] \subseteq seen[e],
         \A p \in Packeted(e)' : p \in Packeted(e) \/ Carried(t, p),
         Packeted(Peer(e))' \subseteq Packeted(Peer(e)),
         \A p \in seen'[Peer(e)] : p \in seen[Peer(e)] \/ Processed(t, p)
  PROVE  IInv'
<1> DEFINE f == Peer(e)
<1>1. f \in Ends /\ f # e /\ Peer(f) = e /\ \A g \in Ends : g = e \/ g = f
  BY DEF Ends, Peer, A, B
<1>2. /\ qs' = [qs EXCEPT ![e] = t] /\ qs \in [Ends -> Streams] /\ t \in Streams
      /\ num_shutdown_flush \in [Ends -> Int]
  BY DEF SetStream, IInv, Types, Good, Core
<1>3. qs'[e] = t /\ qs'[f] = qs[f]
  BY <1>1, <1>2
<1>4. /\ num_shutdown_flush'[e] = num_shutdown_flush[e] - FlushDone(e, t)
      /\ num_shutdown_flush'[f] = num_shutdown_flush[f]
      /\ FlushDone(e, t) \in Int
      /\ num_shutdown_flush' \in [Ends -> Int]
  BY <1>1, <1>2 DEF SetStream, FlushDone
<1>5. Types'
  BY <1>2, <1>4 DEF Types
<1>6. Halves'
  <2>1. Good(qs[f]) /\ num_shutdown_flush[f] = IF qs[f].shutdown_flush THEN 1 ELSE 0
    BY <1>1 DEF IInv, Halves
  <2>2. num_shutdown_flush[e] = IF qs[e].shutdown_flush THEN 1 ELSE 0
    BY DEF IInv, Halves
  <2>3. num_shutdown_flush'[e] = IF t.shutdown_flush THEN 1 ELSE 0
    BY <1>4, <2>2 DEF FlushDone, Flushes
  <2> QED BY <1>1, <1>3, <1>4, <2>1, <2>3 DEF Halves
<1>7. /\ \A p \in Packeted(e) : Carried(qs[e], p)
      /\ \A p \in seen[e] : Processed(qs[f], p)
      /\ Known(qs[e], qs[f]) /\ Confirmed(qs[e], qs[f])
  BY DEF IInv, Directions, Packeted
<1>8. /\ \A p \in Packeted(f) : Carried(qs[f], p)
      /\ \A p \in seen[f] : Processed(qs[e], p)
      /\ Known(qs[f], qs[e]) /\ Confirmed(qs[f], qs[e])
  BY <1>1 DEF IInv, Directions, Packeted
<1>9. /\ \A p \in Packeted(e)' : Carried(t, p)
      /\ \A p \in seen'[e] : Processed(qs[f], p)
      /\ Known(t, qs[f])
  BY <1>7 DEF Carried, Known, Sends
<1>10. /\ \A p \in Packeted(f)' : Carried(qs[f], p)
       /\ \A p \in seen'[f] : Processed(t, p)
       /\ Confirmed(qs[f], t)
  BY <1>8 DEF Processed, Confirmed
<1> HIDE DEF f
<1>11. Directions'
  BY <1>1, <1>3, <1>9, <1>10 DEF Directions, Packeted, f
<1> QED BY <1>5, <1>6, <1>11 DEF IInv

\* The same for a step that receives nothing and sends no packet.
LEMMA ReplaceQuietly ==
  ASSUME IInv, NEW e \in Ends, NEW t, SetStream(e, t), Good(t), Step(qs[e], t),
         UNCHANGED <<net, seen, inflight>>
  PROVE  IInv'
<1>1. Peer(e) \in Ends /\ Peer(Peer(e)) = e
  BY DEF Ends, Peer, A, B
<1>2. Known(qs[Peer(e)], qs[e]) /\ Confirmed(qs[e], qs[Peer(e)])
  BY <1>1 DEF IInv, Directions
<1>3. Confirmed(t, qs[Peer(e)])
  BY <1>2 DEF Confirmed, Step, NoNews
<1>4. Known(qs[Peer(e)], t)
  BY <1>2 DEF Known, Step, Receives
<1>5. (DataDone(qs[e]) => DataDone(t)) /\ (FinDone(qs[e]) => FinDone(t))
  BY DEF Step, Receives, DataDone
<1>6. /\ net' \in [Ends -> SUBSET Packets] /\ seen' \in [Ends -> SUBSET Packets]
      /\ inflight' \in [Ends -> SUBSET Packets]
  BY DEF IInv, Types
<1>7. /\ seen'[e] \subseteq seen[e]
      /\ \A p \in Packeted(e)' : p \in Packeted(e) \/ Carried(t, p)
      /\ Packeted(Peer(e))' \subseteq Packeted(Peer(e))
      /\ \A p \in seen'[Peer(e)] : p \in seen[Peer(e)] \/ Processed(t, p)
  BY DEF Packeted
<1> QED BY <1>3, <1>4, <1>5, <1>6, <1>7, Replace DEF Step

-----------------------------------------------------------------------------
(* One lemma per action.                                                   *)

\* A FIN behind what the send buffer has.
LEMMA SetFin ==
  ASSUME NEW s, Good(s), HasBuffer(s), s.fin = "none"
  PROVE  LET t == [s EXCEPT !.fin = "new"]
         IN  /\ Core(t) /\ Step(s, t)
             /\ (s.data = "new" /\ Wanted(t)) => t.active
<1> DEFINE t == [s EXCEPT !.fin = "new"]
<1>1. t \in Streams /\ t.life # "released"
  BY DEF Good, Core, Streams, Marks
<1>2. SendHalf(t)
  BY DEF Good, Core, Streams, SendHalf, HasBuffer
<1>3. RecvHalf(t)
  BY DEF Good, Core, Streams, RecvHalf
<1>4. Step(s, t)
  BY DEF Good, Core, Streams, Step, Sends, NoNews, Receives, Flushes, FinalSize,
         WasReset, FinDone
<1>5. (s.data = "new" /\ Wanted(t)) => t.active
  BY DEF Good, Core, Streams, Wanted, HasBuffer
<1> HIDE DEF t
<1> QED BY <1>1, <1>2, <1>3, <1>4, <1>5 DEF Core, t

\* The FIN that comes after update_state finds the stream active for its data.
LEMMA WriteKeeps ==
  ASSUME IInv, NEW e \in Ends, NEW concluding \in BOOLEAN, Write(e, concluding)
  PROVE  IInv'
<1> DEFINE s == qs[e]
           u == ensure_send_part_id(s)
           t == [u EXCEPT !.data = "new"]
           w == update_state(t)
           f == [w EXCEPT !.fin = "new"]
<1>1. Good(s)
  BY DEF IInv, Halves
<1>2. /\ Good(u) /\ Step(s, u) /\ u.data = "none" /\ u.fin = "none"
      /\ HasBuffer(u)
  BY <1>1, EnsureSendPart DEF Write, Writable
<1>3. SetStream(e, IF concluding THEN f ELSE w) /\ UNCHANGED <<net, seen, inflight>>
  BY DEF Write, Quiet
<1> HIDE DEF u, s
<1>4. Core(t) /\ t \in Streams /\ t.data = "new" /\ t.fin = "none" /\ HasBuffer(t)
  <2>1. t \in Streams /\ t.life # "released"
    BY <1>2 DEF Good, Core, Streams, Marks
  <2>2. SendHalf(t)
    BY <1>2 DEF Good, Core, Streams, SendHalf, HasBuffer
  <2>3. RecvHalf(t)
    BY <1>2 DEF Good, Core, Streams, RecvHalf
  <2>4. t.data = "new" /\ t.fin = "none" /\ HasBuffer(t)
    BY <1>2 DEF Good, Core, Streams, HasBuffer
  <2> HIDE DEF t
  <2> QED BY <2>1, <2>2, <2>3, <2>4 DEF Core
<1>5. Step(u, t)
  BY <1>2 DEF Good, Core, Streams, Step, Sends, NoNews, Receives, Flushes, FinalSize,
              WasReset, FinDone
<1> HIDE DEF t
<1>6. Good(w) /\ Step(s, w)
  BY <1>2, <1>4, <1>5, UpdateAfter, StepTrans
<1>7. w.data = "new" /\ w.fin = "none" /\ HasBuffer(w)
  BY <1>4, UpdateState DEF Refreshed, HasBuffer, is_totally_acked
<1> HIDE DEF w
<1>8. Good(f) /\ Step(s, f)
  BY <1>6, <1>7, SetFin, StepTrans DEF Good
<1> HIDE DEF f
<1> QED BY <1>3, <1>6, <1>8, ReplaceQuietly DEF s

LEMMA ConcludeKeeps ==
  ASSUME IInv, NEW e \in Ends, Conclude(e)
  PROVE  IInv'
<1> DEFINE s == qs[e]
           u == ensure_send_part_id(s)
           t == [u EXCEPT !.fin = "new"]
<1>1. Good(s)
  BY DEF IInv, Halves
<1>2. Good(u) /\ Step(s, u) /\ u.fin = "none" /\ HasBuffer(u)
  BY <1>1, EnsureSendPart DEF Conclude, Writable
<1>3. SetStream(e, update_state(t)) /\ UNCHANGED <<net, seen, inflight>>
  BY DEF Conclude, Quiet
<1> HIDE DEF u, s
<1>4. Core(t) /\ Step(u, t)
  BY <1>2, SetFin
<1> HIDE DEF t
<1>5. Good(update_state(t)) /\ Step(s, update_state(t))
  BY <1>2, <1>4, UpdateAfter, StepTrans
<1> QED BY <1>3, <1>5, ReplaceQuietly DEF s

\* A write of nothing makes nothing due but its own FIN.
LEMMA EmptyWriteKeeps ==
  ASSUME IInv, NEW e \in Ends, EmptyWrite(e)
  PROVE  IInv'
<1> DEFINE s == qs[e]
           t == [s EXCEPT !.fin = "new"]
           w == [t EXCEPT !.silent = TRUE]
<1>1. Good(s)
  BY DEF IInv, Halves
<1>2. CASE ~HasBuffer(s)
  <2>1. UNCHANGED <<qs, num_shutdown_flush, net, seen, inflight>>
    BY <1>2 DEF EmptyWrite
  <2> QED BY <2>1 DEF IInv, Types, Halves, Directions
<1>3. CASE HasBuffer(s)
  <2>1. /\ SetStream(e, [s EXCEPT !.fin = "new", !.silent = TRUE])
        /\ s.fin = "none" /\ UNCHANGED <<net, seen, inflight>>
    BY <1>3 DEF EmptyWrite, Quiet
  <2>2. [s EXCEPT !.fin = "new", !.silent = TRUE] = w
    OBVIOUS
  <2> HIDE DEF s
  <2>3. Core(t) /\ Step(s, t)
    BY <1>1, <1>3, <2>1, SetFin
  <2>4. Wanted(w) => w.active
    BY <1>1, <1>3 DEF Good, Core, Streams, Wanted, HasBuffer
  <2> HIDE DEF t
  <2>5. w \in Streams /\ w.life # "released"
    BY <2>3 DEF Core, Streams
  <2>6. SendHalf(w)
    BY <2>3 DEF Core, Streams, SendHalf, HasBuffer
  <2>7. RecvHalf(w)
    BY <2>3 DEF Core, Streams, RecvHalf
  <2>8. Step(t, w)
    BY <2>3 DEF Core, Streams, Step, Sends, NoNews, Receives, Flushes, FinalSize,
                WasReset, FinDone
  <2> HIDE DEF w
  <2>9. Good(w) /\ Step(s, w)
    BY <2>3, <2>4, <2>5, <2>6, <2>7, <2>8, StepTrans DEF Good, Core
  <2> QED BY <2>1, <2>2, <2>9, ReplaceQuietly DEF s
<1> QED BY <1>2, <1>3

LEMMA RefusedCallKeeps ==
  ASSUME IInv, NEW e \in Ends, RefusedCall(e)
  PROVE  IInv'
<1> DEFINE t == ensure_send_part_id(qs[e])
<1>1. Good(qs[e])
  BY DEF IInv, Halves
<1>2. Good(t) /\ Step(qs[e], t)
  BY <1>1, EnsureSendPart
<1>3. SetStream(e, t) /\ UNCHANGED <<net, seen, inflight>>
  BY DEF RefusedCall, Quiet
<1> HIDE DEF t
<1> QED BY <1>2, <1>3, ReplaceQuietly

LEMMA StreamResetKeeps ==
  ASSUME IInv, NEW e \in Ends, StreamReset(e)
  PROVE  IInv'
<1> DEFINE u == ensure_send_part_id(qs[e])
           t == reset_stream_send_part(u)
<1>1. Good(qs[e])
  BY DEF IInv, Halves
<1>2. Good(u) /\ Step(qs[e], u)
  BY <1>1, EnsureSendPart
<1>3. SetStream(e, t) /\ UNCHANGED <<net, seen, inflight>>
  BY DEF StreamReset, Quiet
<1> HIDE DEF u
<1>4. Good(t) /\ Step(u, t)
  BY <1>2, ResetSendPart
<1> HIDE DEF t
<1> QED BY <1>2, <1>3, <1>4, StepTrans, ReplaceQuietly

\* What was received stays so when it is read.
LEMMA ReadKeeps ==
  ASSUME IInv, NEW e \in Ends, Read(e)
  PROVE  IInv'
<1> DEFINE s == qs[e]
           read == [s EXCEPT !.recv_state = "DATA_READ"]
           reset == [s EXCEPT !.recv_state = "RESET_READ"]
<1>1. Good(s)
  BY DEF IInv, Halves
<1>2. UNCHANGED <<net, seen, inflight>>
  BY DEF Read, Quiet
<1>3. CASE s.recv_state = "DATA_RECVD" /\ SetStream(e, IF s.rfin > 0 THEN update_state(read) ELSE read)
  <2> HIDE DEF s
  <2>1. Core(read)
    <3>1. read \in Streams /\ read.life # "released"
      BY <1>1, <1>3 DEF Good, Core, Streams
    <3>2. SendHalf(read)
      BY <1>1, <1>3 DEF Good, Core, Streams, SendHalf, HasBuffer
    <3>3. RecvHalf(read)
      BY <1>1, <1>3 DEF Good, Core, Streams, RecvHalf
    <3> HIDE DEF read
    <3> QED BY <3>1, <3>2, <3>3 DEF Core
  <2>2. Wanted(read) => read.active
    BY <1>1, <1>3 DEF Good, Core, Streams, Wanted, HasBuffer
  <2>3. Step(s, read)
    BY <1>1, <1>3 DEF Good, Core, Streams, Step, Sends, NoNews, Receives, Flushes,
                      FinalSize, WasReset, FinDone
  <2> HIDE DEF read
  <2>4. Good(update_state(read)) /\ Step(s, update_state(read)) /\ Good(read)
    BY <2>1, <2>2, <2>3, UpdateAfter DEF Good
  <2> QED BY <1>2, <1>3, <2>3, <2>4, ReplaceQuietly DEF s
<1>4. CASE s.recv_state = "RESET_RECVD" /\ SetStream(e, reset)
  <2> HIDE DEF s
  <2>1. Core(reset)
    <3>1. reset \in Streams /\ reset.life # "released"
      BY <1>1, <1>4 DEF Good, Core, Streams
    <3>2. SendHalf(reset)
      BY <1>1, <1>4 DEF Good, Core, Streams, SendHalf, HasBuffer
    <3>3. RecvHalf(reset)
      BY <1>1, <1>4 DEF Good, Core, Streams, RecvHalf
    <3> HIDE DEF reset
    <3> QED BY <3>1, <3>2, <3>3 DEF Core
  <2>2. Wanted(reset) => reset.active
    BY <1>1, <1>4 DEF Good, Core, Streams, Wanted, HasBuffer
  <2>3. Step(s, reset)
    BY <1>1, <1>4 DEF Good, Core, Streams, Step, Sends, NoNews, Receives, Flushes,
                      FinalSize, WasReset, FinDone
  <2> HIDE DEF reset
  <2> QED BY <1>2, <1>4, <2>1, <2>2, <2>3, ReplaceQuietly DEF s, Good
<1> QED BY <1>3, <1>4 DEF Read

\* An unfinished send part is reset before the stream counts as deleted.
LEMMA FreeKeeps ==
  ASSUME IInv, NEW e \in Ends, Free(e)
  PROVE  IInv'
<1> DEFINE s == qs[e]
           u == auto_reset(s)
           v == stop_sending_recv_part(u)
           t == [v EXCEPT !.deleted = TRUE]
<1>1. Good(s)
  BY DEF IInv, Halves
<1>2. SetStream(e, update_state(t)) /\ UNCHANGED <<net, seen, inflight>>
  BY DEF Free, Quiet
<1> HIDE DEF s
<1>3. Good(u) /\ Step(s, u) /\ (HasBuffer(u) => u.fin # "none")
  <2>1. CASE Writable(s)
    BY <1>1, <2>1, ResetSendPart DEF auto_reset
  <2>2. CASE ~Writable(s)
    BY <1>1, <2>2 DEF auto_reset, Writable, Step, Sends, NoNews, Receives, Flushes
  <2> QED BY <2>1, <2>2
<1> HIDE DEF u
<1>4. Good(v) /\ Step(u, v) /\ (HasBuffer(v) => v.fin # "none")
  BY <1>3, StopSending
<1> HIDE DEF v
<1>5. Core(t)
  <2>1. t \in Streams /\ t.life # "released"
    BY <1>4 DEF Good, Core, Streams
  <2>2. SendHalf(t)
    BY <1>4 DEF Good, Core, Streams, SendHalf, HasBuffer
  <2>3. RecvHalf(t)
    BY <1>4 DEF Good, Core, Streams, RecvHalf
  <2> HIDE DEF t
  <2> QED BY <2>1, <2>2, <2>3 DEF Core
<1>6. Step(v, t)
  BY <1>4 DEF Good, Core, Streams, Step, Sends, NoNews, Receives, Flushes, FinalSize,
              WasReset, FinDone
<1> HIDE DEF t
<1>7. Step(s, t)
  BY <1>3, <1>4, <1>6, StepTrans
<1>8. Good(update_state(t)) /\ Step(s, update_state(t))
  BY <1>5, <1>7, UpdateAfter
<1> QED BY <1>2, <1>8, ReplaceQuietly DEF s

\* The counter is set with the flag.
LEMMA ShutdownKeeps ==
  ASSUME IInv, NEW e \in Ends, Shutdown(e)
  PROVE  IInv'
<1> DEFINE flush == eligible_for_shutdown_flush(qs[e])
           t == [qs[e] EXCEPT !.shutdown_flush = flush]
<1>1. Peer(e) \in Ends /\ Peer(e) # e /\ \A g \in Ends : g = e \/ g = Peer(e)
  BY DEF Ends, Peer, A, B
<1>2. /\ qs \in [Ends -> Streams] /\ num_shutdown_flush \in [Ends -> Int]
      /\ Good(qs[e]) /\ flush \in BOOLEAN
  BY DEF IInv, Types, Halves, eligible_for_shutdown_flush, is_totally_acked
<1>3. /\ qs' = [qs EXCEPT ![e] = t] /\ UNCHANGED <<net, seen, inflight>>
      /\ num_shutdown_flush' = [num_shutdown_flush EXCEPT ![e] = IF flush THEN 1 ELSE 0]
  BY DEF Shutdown
<1> HIDE DEF flush
<1>4. Core(t) /\ t.shutdown_flush = flush
  BY <1>2 DEF Good, Core, Streams, SendHalf, RecvHalf, HasBuffer
<1>5. Wanted(t) => t.active
  BY <1>2 DEF Good, Core, Streams, Wanted, HasBuffer
<1>6. /\ \A p : Carried(t, p) <=> Carried(qs[e], p)
      /\ \A p : Processed(t, p) <=> Processed(qs[e], p)
      /\ \A r : Known(t, r) <=> Known(qs[e], r)
      /\ \A r : Confirmed(t, r) <=> Confirmed(qs[e], r)
      /\ \A r : Known(r, t) <=> Known(r, qs[e])
      /\ \A r : Confirmed(r, t) <=> Confirmed(r, qs[e])
  BY <1>2 DEF Good, Core, Streams, Carried, Processed, Known, Confirmed, FinalSize,
              DataDone, FinDone, WasReset
<1>7. qs'[e] = t /\ \A g \in Ends : g # e => qs'[g] = qs[g]
  BY <1>2, <1>3
<1> HIDE DEF t
<1>8. Types'
  BY <1>2, <1>3, <1>4 DEF IInv, Types, Core
<1>9. Halves'
  BY <1>2, <1>3, <1>4, <1>5, <1>7 DEF IInv, Halves, Good
<1>10. Directions'
  <2>1. ASSUME NEW g \in Ends
        PROVE  /\ \A p \in net[g] \cup seen[g] \cup inflight[g] : Carried(qs'[g], p)
               /\ \A p \in seen[g] : Processed(qs'[Peer(g)], p)
               /\ Known(qs'[g], qs'[Peer(g)]) /\ Confirmed(qs'[g], qs'[Peer(g)])
    <3>1. Peer(g) \in Ends
      BY DEF Ends, Peer, A, B
    <3>2. /\ \A p \in net[g] \cup seen[g] \cup inflight[g] : Carried(qs[g], p)
          /\ \A p \in seen[g] : Processed(qs[Peer(g)], p)
          /\ Known(qs[g], qs[Peer(g)]) /\ Confirmed(qs[g], qs[Peer(g)])
      BY DEF IInv, Directions
    <3> QED BY <1>6, <1>7, <3>1, <3>2
  <2> QED BY <1>3, <2>1 DEF Directions
<1> QED BY <1>8, <1>9, <1>10 DEF IInv

\* A packet carries what the stream holds when it is made.
LEMMA TickKeeps ==
  ASSUME IInv, NEW e \in Ends, Tick(e)
  PROVE  IInv'
<1> DEFINE s == qs[e]
           frame == IF HasBuffer(s) THEN StreamFrame(s) ELSE NoFrame
           p == [stop |-> s.want_stop_sending, reset |-> s.want_reset_stream,
                 frame |-> frame]
           v == Sent(s)
           u == update_state(v)
           t == Committed(s)
<1>1. Good(s)
  BY DEF IInv, Halves
<1>2. SetStream(e, t)
  BY DEF Tick, gc
<1>3. /\ net' = [net EXCEPT ![e] = @ \cup {p}] /\ seen' = seen
      /\ inflight' = [inflight EXCEPT ![e] = @ \cup {p}]
  BY DEF Tick
<1> HIDE DEF s
<1>4. frame \in Frames /\ p \in Packets
  BY <1>1 DEF Good, Core, Streams, Frames, Packets, StreamFrame, NoFrame
<1>5. Carried(s, p)
  BY <1>1 DEF Good, Core, Streams, SendHalf, StreamFrame, NoFrame, Carried, FinalSize
<1>6. Core(v)
  <2>1. v \in Streams /\ v.life # "released"
    <3> DEFINE d == IF s.data = "new" THEN "sent" ELSE s.data
               f == IF s.fin = "new" THEN "sent" ELSE s.fin
    <3>1. s \in Streams /\ d \in Marks /\ f \in Marks /\ s.life # "released"
      BY <1>1 DEF Good, Core, Streams, Marks
    <3>2. v = [s EXCEPT !.data = d, !.fin = f,
                        !.want_stop_sending = FALSE, !.want_reset_stream = FALSE]
      BY DEF Sent
    <3> HIDE DEF d, f, v
    <3> QED BY <3>1, <3>2 DEF Streams
  <2>2. SendHalf(v)
    BY <1>1 DEF Good, Core, Streams, Marks, SendHalf, HasBuffer, Sent
  <2>3. RecvHalf(v)
    BY <1>1 DEF Good, Core, Streams, RecvHalf, Sent
  <2> HIDE DEF v
  <2> QED BY <2>1, <2>2, <2>3 DEF Core
<1>7. Step(s, v)
  BY <1>1 DEF Good, Core, Streams, Marks, Step, Sends, NoNews, Receives, Flushes, FinalSize,
              WasReset, FinDone, Sent
<1>8. Good(u) /\ Step(s, u)
  <2> HIDE DEF v
  <2> QED BY <1>6, <1>7, UpdateAfter
<1>9. Good(t) /\ Step(s, t)
  <2>1. t = IF u.send_state = "SEND" /\ u.fin # "none"
            THEN [u EXCEPT !.send_state = "DATA_SENT"] ELSE u
    BY DEF Committed
  <2> HIDE DEF u, t
  <2>2. CASE u.send_state = "SEND" /\ u.fin # "none"
    <3> DEFINE w == [u EXCEPT !.send_state = "DATA_SENT"]
    <3>1. Core(w)
      <4>1. w \in Streams /\ w.life # "released"
        BY <1>8, <2>2 DEF Good, Core, Streams
      <4>2. SendHalf(w)
        BY <1>8, <2>2 DEF Good, Core, Streams, SendHalf, HasBuffer
      <4>3. RecvHalf(w)
        BY <1>8, <2>2 DEF Good, Core, Streams, RecvHalf
      <4> HIDE DEF w
      <4> QED BY <4>1, <4>2, <4>3 DEF Core
    <3>2. Wanted(w) => w.active
      BY <1>8, <2>2 DEF Good, Core, Streams, Wanted,
                        HasBuffer
    <3>3. Step(u, w)
      BY <1>8, <2>2 DEF Good, Core, Streams, Step, Sends, NoNews, Receives, Flushes,
                        FinalSize, WasReset, FinDone
    <3>4. t = w
      BY <2>1, <2>2
    <3> HIDE DEF w
    <3> QED BY <1>8, <3>1, <3>2, <3>3, <3>4, StepTrans DEF Good
  <2>3. CASE ~(u.send_state = "SEND" /\ u.fin # "none")
    <3>1. t = u
      BY <2>1, <2>3
    <3> QED BY <1>8, <3>1
  <2> QED BY <2>2, <2>3
<1>10. Carried(t, p)
  <2> HIDE DEF t, p
  <2> QED BY <1>5, <1>9 DEF Carried, Step, Sends
<1> HIDE DEF t, p, u, v, frame
<1>11. Peer(e) \in Ends /\ Peer(Peer(e)) = e /\ Peer(e) # e
  BY DEF Ends, Peer, A, B
<1>12. Known(qs[Peer(e)], s) /\ Confirmed(s, qs[Peer(e)])
  BY <1>11 DEF IInv, Directions, s
<1>13. Confirmed(t, qs[Peer(e)])
  BY <1>9, <1>12 DEF Confirmed, Step, NoNews
<1>14. Known(qs[Peer(e)], t)
  BY <1>9, <1>12 DEF Known, Step, Receives
<1>15. (DataDone(s) => DataDone(t)) /\ (FinDone(s) => FinDone(t))
  BY <1>9 DEF Step, Receives, DataDone
<1>16. /\ net' \in [Ends -> SUBSET Packets] /\ seen' \in [Ends -> SUBSET Packets]
       /\ inflight' \in [Ends -> SUBSET Packets]
  BY <1>3, <1>4 DEF IInv, Types
<1>17. /\ seen'[e] \subseteq seen[e]
       /\ \A q \in Packeted(e)' : q \in Packeted(e) \/ Carried(t, q)
       /\ Packeted(Peer(e))' \subseteq Packeted(Peer(e))
       /\ \A q \in seen'[Peer(e)] : q \in seen[Peer(e)] \/ Processed(t, q)
  BY <1>3, <1>10, <1>11 DEF Packeted, IInv, Types
<1> QED BY <1>2, <1>9, <1>13, <1>14, <1>15, <1>16, <1>17, Replace DEF Step, s

\* A step that touches the receiving half alone.
SendSame(s, t) ==
  /\ t.life = s.life /\ t.send_state = s.send_state /\ t.data = s.data /\ t.fin = s.fin
  /\ t.peer_stop_sending = s.peer_stop_sending
  /\ t.want_reset_stream = s.want_reset_stream /\ t.deleted = s.deleted
  /\ t.ready_for_gc = s.ready_for_gc /\ t.shutdown_flush = s.shutdown_flush
  /\ t.active = s.active /\ t.silent = s.silent
  /\ t.want_stop_sending => s.want_stop_sending

LEMMA RecvOnly ==
  ASSUME NEW s, NEW t \in Streams, Good(s), SendSame(s, t), RecvHalf(t)
  PROVE  Good(t) /\ Sends(s, t) /\ NoNews(s, t) /\ Flushes(s, t)
<1>1. SendHalf(t)
  BY DEF Good, Core, SendSame, SendHalf, HasBuffer
<1>2. Wanted(t) => t.active
  BY DEF Good, SendSame, Wanted, HasBuffer
<1>3. Sends(s, t) /\ NoNews(s, t) /\ Flushes(s, t)
  BY DEF SendSame, Sends, NoNews, Flushes, FinalSize
<1>4. t.life # "released"
  BY DEF Good, Core, SendSame
<1> QED BY <1>1, <1>2, <1>3, <1>4 DEF Good, Core

LEMMA RxStream ==
  ASSUME NEW x, NEW s, NEW f \in Frames, Good(s), Known(x, s), Receiving(s),
         f.data => x.data # "none",
         f.fin # NoFin => x.fin # "none" /\ f.fin = FinalSize(x)
  PROVE  LET t == rx_stream(s, f)
         IN  /\ Good(t) /\ Sends(s, t) /\ NoNews(s, t) /\ Flushes(s, t)
             /\ Known(x, t)
             /\ DataDone(s) => DataDone(t)
             /\ FinDone(s) => FinDone(t)
             /\ f.data => DataDone(t)
             /\ f.fin # NoFin => FinDone(t)
<1> DEFINE known == IF f.fin # NoFin
                    THEN [s EXCEPT !.recv_state = "SIZE_KNOWN", !.rfin = f.fin] ELSE s
           queued == [known EXCEPT !.rdata = @ \/ f.data]
           full == [queued EXCEPT !.recv_state = "DATA_RECVD", !.want_stop_sending = FALSE]
           t == rx_stream(s, f)
<1>1. s \in Streams /\ RecvHalf(s) /\ ~WasReset(s)
  BY DEF Good, Core, Receiving, WasReset
<1>2. t = IF s.stop_sending THEN known
          ELSE IF queued.recv_state = "SIZE_KNOWN" /\ (queued.rdata \/ queued.rfin = 0)
          THEN full ELSE queued
  BY DEF rx_stream
<1>3. /\ known \in Streams /\ SendSame(s, known)
      /\ known.stop_sending = s.stop_sending /\ known.rdata = s.rdata
      /\ known.rfin = IF f.fin # NoFin THEN f.fin ELSE s.rfin
      /\ known.recv_state = IF f.fin # NoFin THEN "SIZE_KNOWN" ELSE s.recv_state
  <2>1. CASE f.fin # NoFin
    BY <1>1, <2>1 DEF Streams, Frames, SendSame
  <2>2. CASE f.fin = NoFin
    BY <1>1, <2>2 DEF SendSame
  <2> QED BY <2>1, <2>2
<1> HIDE DEF known
<1>4. /\ queued \in Streams /\ SendSame(s, queued)
      /\ queued.stop_sending = s.stop_sending
      /\ queued.rdata <=> s.rdata \/ f.data
      /\ queued.rfin = known.rfin /\ queued.recv_state = known.recv_state
  BY <1>3 DEF Streams, Frames, SendSame
<1> HIDE DEF queued
<1>5. /\ full \in Streams /\ SendSame(s, full)
      /\ full.stop_sending = s.stop_sending /\ full.rdata = queued.rdata
      /\ full.rfin = known.rfin /\ full.recv_state = "DATA_RECVD"
  BY <1>4 DEF Streams, SendSame
<1> HIDE DEF full, t
<1>6. /\ known.rfin # NoFin => x.fin # "none" /\ known.rfin = FinalSize(x)
      /\ s.rdata \/ f.data => x.data # "none"
  BY <1>3 DEF Known
<1>7. known.recv_state \in {"RECV", "SIZE_KNOWN"}
  BY <1>3 DEF Receiving
<1>8. known.recv_state = "SIZE_KNOWN" => known.rfin # NoFin
  BY <1>1, <1>3 DEF RecvHalf
<1>9. FinDone(s) \/ f.fin # NoFin => known.recv_state = "SIZE_KNOWN"
  BY <1>3 DEF FinDone, Receiving
<1>10. CASE s.stop_sending
  <2>1. t = known
    BY <1>2, <1>10
  <2>2. RecvHalf(known)
    BY <1>3, <1>7, <1>8, <1>10 DEF RecvHalf
  <2>3. Known(x, known) /\ DataDone(known) /\ (FinDone(s) \/ f.fin # NoFin => FinDone(known))
    BY <1>3, <1>6, <1>7, <1>9, <1>10 DEF Known, DataDone, FinDone, WasReset
  <2> QED BY <1>3, <2>1, <2>2, <2>3, RecvOnly DEF t
<1>11. CASE ~s.stop_sending /\ queued.recv_state = "SIZE_KNOWN" /\ (queued.rdata \/ queued.rfin = 0)
  <2>1. t = full
    BY <1>2, <1>11
  <2>2. RecvHalf(full)
    BY <1>4, <1>5, <1>8, <1>11 DEF RecvHalf
  <2>3. Known(x, full) /\ FinDone(full)
    BY <1>4, <1>5, <1>6, <1>11 DEF Known, FinDone, WasReset
  <2>4. DataDone(s) \/ f.data => DataDone(full)
    BY <1>1, <1>4, <1>5, <1>11 DEF DataDone
  <2> QED BY <1>5, <2>1, <2>2, <2>3, <2>4, RecvOnly DEF t
<1>12. CASE ~s.stop_sending /\ ~(queued.recv_state = "SIZE_KNOWN" /\ (queued.rdata \/ queued.rfin = 0))
  <2>1. t = queued
    BY <1>2, <1>12
  <2>2. RecvHalf(queued)
    BY <1>4, <1>7, <1>8, <1>12 DEF RecvHalf
  <2>3. Known(x, queued) /\ (FinDone(s) \/ f.fin # NoFin => FinDone(queued))
    BY <1>4, <1>6, <1>7, <1>9 DEF Known, FinDone, WasReset
  <2>4. DataDone(s) \/ f.data => DataDone(queued)
    BY <1>1, <1>4, <1>12 DEF DataDone
  <2> QED BY <1>4, <2>1, <2>2, <2>3, <2>4, RecvOnly DEF t
<1> QED BY <1>10, <1>11, <1>12

\* A stream that is created has nothing to send; frames arrive in the order they
\* have in the packet, and a reset that is new to the receiver is one to the
\* sender no more.
LEMMA ReceiveKeeps ==
  ASSUME IInv, NEW e \in Ends, NEW p \in net[Peer(e)], Receive(e, p)
  PROVE  IInv'
<1> DEFINE x == qs[Peer(e)]
           s0 == [qs[e] EXCEPT !.life = "open"]
           s1 == IF p.stop THEN rx_stop_sending(s0) ELSE s0
           s2 == IF p.reset THEN rx_reset_stream(s1) ELSE s1
           t == IF p.frame = NoFrame THEN s2 ELSE rx_stream(s2, p.frame)
<1>1. Peer(e) \in Ends /\ Peer(Peer(e)) = e /\ Peer(e) # e
  BY DEF Ends, Peer, A, B
<1>2. Good(qs[e]) /\ p \in Packets /\ x \in Streams
  BY <1>1 DEF IInv, Halves, Types
<1>3. /\ SetStream(e, t) /\ seen' = [seen EXCEPT ![Peer(e)] = @ \cup {p}]
      /\ net' = net /\ inflight' = inflight
  BY <1>2 DEF Receive, Good, Core
<1>4. Carried(x, p) /\ Known(x, qs[e]) /\ Confirmed(qs[e], x)
  BY <1>1 DEF IInv, Directions
<1>5. Good(s0) /\ Step(qs[e], s0)
  <2>1. Core(s0)
    <3>1. s0 \in Streams /\ s0.life # "released"
      BY <1>2 DEF Good, Core, Streams
    <3>2. SendHalf(s0)
      BY <1>2 DEF Good, Core, Streams, SendHalf, HasBuffer
    <3>3. RecvHalf(s0)
      BY <1>2 DEF Good, Core, Streams, RecvHalf
    <3> HIDE DEF s0
    <3> QED BY <3>1, <3>2, <3>3 DEF Core
  <2>2. Wanted(s0) => s0.active
    BY <1>2 DEF Good, Core, Streams, Wanted, HasBuffer
  <2>3. Step(qs[e], s0)
    BY <1>2 DEF Good, Core, Streams, Step, Sends, NoNews, Receives, Flushes, FinalSize,
                WasReset, FinDone
  <2> HIDE DEF s0
  <2> QED BY <2>1, <2>2, <2>3 DEF Good
<1> HIDE DEF s0
<1>6. Good(s1) /\ Step(qs[e], s1)
  <2>1. CASE p.stop
    <3> DEFINE y == [s0 EXCEPT !.peer_stop_sending = TRUE]
    <3>1. Core(y)
      <4>1. y \in Streams /\ y.life # "released"
        BY <1>5 DEF Good, Core, Streams
      <4>2. SendHalf(y)
        BY <1>5 DEF Good, Core, Streams, SendHalf, HasBuffer
      <4>3. RecvHalf(y)
        BY <1>5 DEF Good, Core, Streams, RecvHalf
      <4> HIDE DEF y
      <4> QED BY <4>1, <4>2, <4>3 DEF Core
    <3>2. Wanted(y) => y.active
      BY <1>5 DEF Good, Core, Streams, Wanted, HasBuffer
    <3>3. Step(s0, y)
      BY <1>5 DEF Good, Core, Streams, Step, Sends, NoNews, Receives, Flushes, FinalSize,
                  WasReset, FinDone
    <3>4. s1 = reset_stream_send_part(y)
      BY <2>1 DEF rx_stop_sending
    <3> HIDE DEF y, s1
    <3>5. Good(y) /\ Step(qs[e], y)
      BY <1>5, <3>1, <3>2, <3>3, StepTrans DEF Good
    <3> QED BY <3>4, <3>5, ResetSendPart, StepTrans
  <2>2. CASE ~p.stop
    BY <1>5, <2>2
  <2> QED BY <2>1, <2>2
<1> HIDE DEF s1
<1>7. /\ Good(s2) /\ Sends(qs[e], s2) /\ NoNews(qs[e], s2) /\ Flushes(qs[e], s2)
      /\ Known(x, s2) /\ (DataDone(qs[e]) => DataDone(s2)) /\ (FinDone(qs[e]) => FinDone(s2))
  <2>0. /\ Known(x, s1) /\ (DataDone(qs[e]) => DataDone(s1)) /\ (FinDone(qs[e]) => FinDone(s1))
    BY <1>4, <1>6 DEF Known, Step, Receives, DataDone
  <2>1. CASE ~p.reset
    BY <1>6, <2>0, <2>1 DEF Step
  <2>2. CASE p.reset
    <3> DEFINE y == [s1 EXCEPT !.recv_state = "RESET_RECVD", !.want_stop_sending = FALSE]
               z == notify_reset_recv_part(s1)
    <3>1. s2 = update_state(z)
      BY <2>2 DEF rx_reset_stream
    <3>2. /\ Core(z) /\ Sends(s1, z) /\ NoNews(s1, z) /\ Flushes(s1, z)
          /\ Known(x, z) /\ (DataDone(s1) => DataDone(z)) /\ (FinDone(s1) => FinDone(z))
      <4>1. CASE s1.recv_state \in {"RECV", "SIZE_KNOWN", "DATA_RECVD"}
        <5>1. Core(y)
          <6>1. y \in Streams /\ y.life # "released"
            BY <1>6 DEF Good, Core, Streams
          <6>2. SendHalf(y)
            BY <1>6 DEF Good, Core, Streams, SendHalf, HasBuffer
          <6>3. RecvHalf(y)
            BY <1>6 DEF Good, Core, Streams, RecvHalf
          <6> HIDE DEF y
          <6> QED BY <6>1, <6>2, <6>3 DEF Core
        <5>2. Sends(s1, y) /\ NoNews(s1, y) /\ Flushes(s1, y)
          BY <1>6 DEF Good, Core, Streams, Sends, NoNews, Flushes, FinalSize
        <5>3. y.recv_state = "RESET_RECVD" /\ y.rdata = s1.rdata /\ y.rfin = s1.rfin
          BY <1>6 DEF Good, Core, Streams
        <5>4. x.send_state = "RESET_SENT"
          BY <1>4, <2>2 DEF Carried
        <5>5. z = update_state(y)
          BY <4>1 DEF notify_reset_recv_part
        <5> HIDE DEF y, z
        <5>6. /\ Known(x, y) /\ DataDone(y) /\ FinDone(y)
          BY <2>0, <5>3, <5>4 DEF Known, DataDone, FinDone, WasReset
        <5>7. Good(z) /\ Step(y, z)
          BY <5>1, <5>5, Update
        <5>8. Sends(s1, z) /\ NoNews(s1, z) /\ Flushes(s1, z)
          BY <5>2, <5>7 DEF Step, Sends, NoNews, Flushes
        <5>9. Known(x, z) /\ DataDone(z) /\ FinDone(z)
          BY <5>6, <5>7 DEF Step, Receives, Known, DataDone
        <5> QED BY <5>7, <5>8, <5>9 DEF Good
      <4>2. CASE s1.recv_state \notin {"RECV", "SIZE_KNOWN", "DATA_RECVD"}
        <5>1. z = s1
          BY <4>2 DEF notify_reset_recv_part
        <5> QED BY <1>6, <2>0, <5>1 DEF Good, Sends, NoNews, Flushes
      <4> QED BY <4>1, <4>2
    <3> HIDE DEF z, s2
    <3>3. Good(s2) /\ Step(z, s2)
      BY <3>1, <3>2, Update
    <3>4. Sends(qs[e], s2) /\ NoNews(qs[e], s2) /\ Flushes(qs[e], s2)
      BY <1>6, <3>2, <3>3 DEF Step, Sends, NoNews, Flushes
    <3>5. Known(x, s2) /\ (DataDone(z) => DataDone(s2)) /\ (FinDone(z) => FinDone(s2))
      BY <3>2, <3>3 DEF Step, Receives, Known, DataDone
    <3> QED BY <2>0, <3>2, <3>3, <3>4, <3>5
  <2> QED BY <2>1, <2>2
<1> HIDE DEF s2
<1>8. /\ Good(t) /\ Sends(s2, t) /\ NoNews(s2, t) /\ Flushes(s2, t)
      /\ Known(x, t) /\ (DataDone(s2) => DataDone(t)) /\ (FinDone(s2) => FinDone(t))
      /\ Processed(t, p)
  <2>1. CASE p.frame = NoFrame
    BY <1>7, <2>1 DEF Sends, NoNews, Flushes, NoFrame, Processed
  <2>2. CASE p.frame # NoFrame
    <3> DEFINE f == p.frame
    <3>1. t = rx_stream(s2, f) /\ f \in Frames
      BY <1>2, <2>2 DEF Packets
    <3> HIDE DEF t, f
    <3>2. CASE ~Receiving(s2)
      <4>1. t = s2
        BY <3>1, <3>2 DEF rx_stream
      <4>2. s2.recv_state \in {"DATA_RECVD", "DATA_READ", "RESET_RECVD", "RESET_READ"}
        BY <1>7, <3>2 DEF Good, Core, Streams, Receiving
      <4>3. FinDone(s2)
        BY <4>2 DEF FinDone
      <4>4. p.frame.data => DataDone(s2)
        BY <1>4, <1>7, <4>2 DEF Carried, Known, Good, Core, RecvHalf, DataDone, WasReset,
                                FinalSize, Streams, NoFin
      <4> QED BY <1>7, <4>1, <4>3, <4>4 DEF Processed, Sends, NoNews, Flushes
    <3>3. CASE Receiving(s2)
      <4>1. (f.data => x.data # "none") /\ (f.fin # NoFin => x.fin # "none" /\ f.fin = FinalSize(x))
        BY <1>4 DEF Carried, f
      <4> QED BY <1>7, <3>1, <3>3, <4>1, RxStream DEF Processed, f
    <3> QED BY <3>2, <3>3
  <2> QED BY <2>1, <2>2
<1> HIDE DEF t
<1>9. Sends(qs[e], t) /\ NoNews(qs[e], t) /\ Flushes(qs[e], t)
  BY <1>7, <1>8 DEF Sends, NoNews, Flushes
<1>10. (DataDone(qs[e]) => DataDone(t)) /\ (FinDone(qs[e]) => FinDone(t))
  BY <1>7, <1>8
<1>11. Confirmed(t, x)
  BY <1>4, <1>9 DEF Confirmed, NoNews
<1>12. /\ net' \in [Ends -> SUBSET Packets] /\ seen' \in [Ends -> SUBSET Packets]
       /\ inflight' \in [Ends -> SUBSET Packets]
  BY <1>1, <1>2, <1>3 DEF IInv, Types
<1>13. /\ seen'[e] \subseteq seen[e]
       /\ \A q \in Packeted(e)' : q \in Packeted(e) \/ Carried(t, q)
       /\ Packeted(Peer(e))' \subseteq Packeted(Peer(e))
       /\ \A q \in seen'[Peer(e)] : q \in seen[Peer(e)] \/ Processed(t, q)
  BY <1>1, <1>3, <1>8 DEF Packeted, IInv, Types
<1> QED BY <1>3, <1>8, <1>9, <1>10, <1>11, <1>12, <1>13, Replace

-----------------------------------------------------------------------------
(* Packets acknowledged and lost.                                          *)

LEMMA AckedStream ==
  ASSUME NEW s, NEW r, NEW f \in Frames, Good(s), Confirmed(s, r),
         f.data => s.data # "none" /\ DataDone(r),
         f.fin # NoFin => s.fin # "none" /\ FinDone(r)
  PROVE  LET t == acked_stream(s, f)
         IN  /\ Good(t) /\ Sends(s, t) /\ Receives(s, t) /\ Flushes(s, t)
             /\ Confirmed(t, r)
<1> DEFINE a == [s EXCEPT !.data = IF f.data THEN "acked" ELSE @,
                          !.fin = IF f.fin # NoFin THEN "acked" ELSE @]
<1>0. s \in Streams
  BY DEF Good, Core
<1>1. CASE f = NoFrame \/ ~HasBuffer(s)
  <2>1. acked_stream(s, f) = s
    BY <1>1 DEF acked_stream
  <2> QED BY <2>1 DEF Sends, Receives, Flushes
<1>2. CASE ~(f = NoFrame \/ ~HasBuffer(s))
  <2>1. /\ a \in Streams /\ a.life = s.life /\ a.send_state = s.send_state
        /\ a.recv_state = s.recv_state /\ a.rdata = s.rdata /\ a.rfin = s.rfin
        /\ a.stop_sending = s.stop_sending /\ a.want_stop_sending = s.want_stop_sending
        /\ a.peer_stop_sending = s.peer_stop_sending
        /\ a.want_reset_stream = s.want_reset_stream /\ a.deleted = s.deleted
        /\ a.ready_for_gc = s.ready_for_gc /\ a.shutdown_flush = s.shutdown_flush
        /\ a.active = s.active /\ a.silent = s.silent
        /\ a.data = (IF f.data THEN "acked" ELSE s.data)
        /\ a.fin = (IF f.fin # NoFin THEN "acked" ELSE s.fin)
    <3> DEFINE d == IF f.data THEN "acked" ELSE s.data
               g == IF f.fin # NoFin THEN "acked" ELSE s.fin
    <3>1. d \in Marks /\ g \in Marks
      BY <1>0 DEF Streams, Marks
    <3>2. a = [s EXCEPT !.data = d, !.fin = g]
      OBVIOUS
    <3> HIDE DEF d, g, a
    <3>3. /\ a \in Streams /\ a.life = s.life /\ a.send_state = s.send_state
          /\ a.recv_state = s.recv_state /\ a.rdata = s.rdata /\ a.rfin = s.rfin
          /\ a.stop_sending = s.stop_sending /\ a.want_stop_sending = s.want_stop_sending
          /\ a.peer_stop_sending = s.peer_stop_sending
          /\ a.want_reset_stream = s.want_reset_stream /\ a.deleted = s.deleted
          /\ a.ready_for_gc = s.ready_for_gc /\ a.shutdown_flush = s.shutdown_flush
          /\ a.active = s.active /\ a.silent = s.silent /\ a.data = d /\ a.fin = g
      BY <1>0, <3>1, <3>2 DEF Streams
    <3> QED BY <3>3 DEF d, g
  <2>2. acked_stream(s, f) = IF is_totally_acked(a) THEN update_state(a) ELSE a
    BY <1>2 DEF acked_stream
  <2>3. HasBuffer(s)
    BY <1>2
  <2> HIDE DEF a
  <2>4. SendHalf(a) /\ RecvHalf(a)
    BY <2>1, <2>3 DEF Good, Core, SendHalf, RecvHalf, HasBuffer
  <2>5. Wanted(a) => a.active
    BY <2>1, <2>3 DEF Good, Wanted, HasBuffer
  <2>6. Good(a)
    BY <2>1, <2>4, <2>5 DEF Good, Core
  <2>7. Sends(s, a) /\ Receives(s, a) /\ Flushes(s, a)
    BY <2>1 DEF Sends, Receives, Flushes, FinalSize, WasReset, FinDone
  <2>8. Confirmed(a, r)
    BY <2>1 DEF Confirmed
  <2>9. Good(update_state(a)) /\ Step(a, update_state(a))
    BY <2>6, Update DEF Good
  <2>10. Confirmed(update_state(a), r)
    BY <2>8, <2>9 DEF Confirmed, Step, NoNews
  <2>11. Sends(s, update_state(a)) /\ Receives(s, update_state(a)) /\ Flushes(s, update_state(a))
    BY <2>7, <2>9 DEF Step, Sends, Receives, Flushes
  <2> QED BY <2>2, <2>6, <2>7, <2>8, <2>9, <2>10, <2>11
<1> QED BY <1>1, <1>2

LEMMA OnConfirm ==
  ASSUME NEW s, NEW p, Good(s), p.reset => ~HasBuffer(s)
  PROVE  LET t == on_confirm_notify(s, p) IN Good(t) /\ Step(s, t)
<1>0. s \in Streams /\ Step(s, s)
  BY DEF Good, Core, Step, Sends, NoNews, Receives, Flushes
<1>1. CASE ~p.stop \/ ~HasBuffer(s)
  <2>1. on_confirm_notify(s, p) = s
    BY <1>1 DEF on_confirm_notify
  <2> QED BY <1>0, <2>1
<1>2. CASE p.stop /\ HasBuffer(s)
  <2> DEFINE a == [s EXCEPT !.acked_stop_sending = TRUE]
             c == update_state(a)
  <2>1. Core(a)
    <3>1. a \in Streams /\ a.life # "released"
      BY DEF Good, Core, Streams
    <3>2. SendHalf(a)
      BY DEF Good, Core, Streams, SendHalf, HasBuffer
    <3>3. RecvHalf(a)
      BY DEF Good, Core, Streams, RecvHalf
    <3> HIDE DEF a
    <3> QED BY <3>1, <3>2, <3>3 DEF Core
  <2>2. Step(s, a)
    BY DEF Good, Core, Streams, Step, Sends, NoNews, Receives, Flushes, FinalSize,
           WasReset, FinDone
  <2>3. on_confirm_notify(s, p) = IF is_totally_acked(c) THEN update_state(c) ELSE c
    BY <1>2 DEF on_confirm_notify
  <2> HIDE DEF a
  <2>4. Good(c) /\ Step(s, c)
    BY <2>1, <2>2, UpdateAfter
  <2> HIDE DEF c
  <2>5. Good(update_state(c)) /\ Step(s, update_state(c))
    BY <2>4, UpdateAfter DEF Good
  <2> QED BY <2>3, <2>4, <2>5
<1> QED BY <1>1, <1>2

LEMMA LostStream ==
  ASSUME NEW s, NEW f \in Frames, Good(s),
         f.data => s.data # "none", f.fin # NoFin => s.fin # "none"
  PROVE  LET t == lost_stream(s, f) IN Good(t) /\ Step(s, t)
<1>0. s \in Streams /\ Step(s, s)
  BY DEF Good, Core, Step, Sends, NoNews, Receives, Flushes
<1>1. CASE f = NoFrame \/ ~HasBuffer(s)
  <2>1. lost_stream(s, f) = s
    BY <1>1 DEF lost_stream
  <2> QED BY <1>0, <2>1
<1>2. CASE ~(f = NoFrame \/ ~HasBuffer(s))
  <2> DEFINE d == IF f.data THEN "new" ELSE s.data
             g == IF f.fin # NoFin /\ s.fin # "acked" THEN "new" ELSE s.fin
             a == [s EXCEPT !.data = d, !.fin = g]
  <2>1. lost_stream(s, f) = update_state(a)
    BY <1>2 DEF lost_stream
  <2>2. /\ d \in Marks /\ g \in Marks
        /\ (s.data # "none" <=> d # "none") /\ (s.fin # "none" <=> g # "none")
        /\ (d = "acked" => s.data = "acked") /\ (g = "acked" => s.fin = "acked")
    BY <1>0 DEF Streams, Marks
  <2> HIDE DEF d, g
  <2>3. HasBuffer(s)
    BY <1>2
  <2>4. Core(a)
    <3>1. a \in Streams /\ a.life # "released"
      BY <2>2 DEF Good, Core, Streams
    <3>2. SendHalf(a)
      BY <2>2, <2>3 DEF Good, Core, Streams, SendHalf, HasBuffer
    <3>3. RecvHalf(a)
      BY DEF Good, Core, Streams, RecvHalf
    <3> HIDE DEF a
    <3> QED BY <3>1, <3>2, <3>3 DEF Core
  <2>5. Step(s, a)
    BY <2>2 DEF Good, Core, Streams, Step, Sends, NoNews, Receives, Flushes, FinalSize,
                WasReset, FinDone
  <2> HIDE DEF a
  <2> QED BY <2>1, <2>4, <2>5, UpdateAfter
<1> QED BY <1>1, <1>2

LEMMA OnRegen ==
  ASSUME NEW s, NEW p, Good(s), p.reset => ~HasBuffer(s)
  PROVE  LET t == on_regen_notify(s, p) IN Good(t) /\ Step(s, t)
<1>0. Step(s, s)
  BY DEF Step, Sends, NoNews, Receives, Flushes
<1>1. CASE ~p.stop \/ ~HasBuffer(s)
  <2>1. on_regen_notify(s, p) = s
    BY <1>1 DEF on_regen_notify
  <2> QED BY <1>0, <2>1
<1>2. CASE p.stop /\ HasBuffer(s)
  <2>1. on_regen_notify(s, p) = schedule_stop_sending(s)
    BY <1>2 DEF on_regen_notify
  <2> QED BY <2>1, ScheduleStop
<1> QED BY <1>1, <1>2

\* What is acknowledged was processed by the peer.
LEMMA AckedKeeps ==
  ASSUME IInv, NEW e \in Ends, NEW p \in inflight[e], Acked(e, p)
  PROVE  IInv'
<1> DEFINE s == qs[e]
           r == qs[Peer(e)]
           u == acked_stream(s, p.frame)
           t == on_confirm_notify(u, p)
<1>1. Peer(e) \in Ends /\ Peer(Peer(e)) = e /\ Peer(e) # e
  BY DEF Ends, Peer, A, B
<1>2. Good(s) /\ p \in Packets /\ p.frame \in Frames
  BY DEF IInv, Halves, Types, Packets
<1>3. Carried(s, p) /\ Processed(r, p) /\ Confirmed(s, r) /\ Known(r, s)
  BY <1>1 DEF IInv, Directions, Acked
<1>4. /\ SetStream(e, t) /\ net' = net /\ seen' = seen
      /\ inflight' = [inflight EXCEPT ![e] = @ \ {p}]
  BY DEF Acked
<1>5. /\ Good(u) /\ Sends(s, u) /\ Receives(s, u) /\ Flushes(s, u)
      /\ Confirmed(u, r)
  BY <1>2, <1>3, AckedStream DEF Carried, Processed
<1> HIDE DEF u, s, r
<1>6. p.reset => ~HasBuffer(u)
  BY <1>3, <1>5 DEF Carried, Sends, HasBuffer
<1>7. Good(t) /\ Step(u, t)
  BY <1>5, <1>6, OnConfirm
<1> HIDE DEF t
<1>8. Sends(s, t) /\ Receives(s, t) /\ Flushes(s, t) /\ Confirmed(t, r)
  BY <1>5, <1>7 DEF Step, Sends, Receives, Flushes, NoNews, Confirmed
<1>9. Known(r, t) /\ (DataDone(s) => DataDone(t)) /\ (FinDone(s) => FinDone(t))
  BY <1>3, <1>8 DEF Known, Receives, DataDone
<1>10. /\ net' \in [Ends -> SUBSET Packets] /\ seen' \in [Ends -> SUBSET Packets]
       /\ inflight' \in [Ends -> SUBSET Packets]
  BY <1>4 DEF IInv, Types
<1>11. /\ seen'[e] \subseteq seen[e]
       /\ \A q \in Packeted(e)' : q \in Packeted(e) \/ Carried(t, q)
       /\ Packeted(Peer(e))' \subseteq Packeted(Peer(e))
       /\ \A q \in seen'[Peer(e)] : q \in seen[Peer(e)] \/ Processed(t, q)
  BY <1>1, <1>4 DEF Packeted, IInv, Types
<1> QED BY <1>4, <1>7, <1>8, <1>9, <1>10, <1>11, Replace DEF s, r

LEMMA LostKeeps ==
  ASSUME IInv, NEW e \in Ends, NEW p \in inflight[e], NEW really \in BOOLEAN,
         Lost(e, p, really)
  PROVE  IInv'
<1> DEFINE s == qs[e]
           r == qs[Peer(e)]
           u == lost_stream(s, p.frame)
           t == on_regen_notify(u, p)
<1>1. Peer(e) \in Ends /\ Peer(Peer(e)) = e /\ Peer(e) # e
  BY DEF Ends, Peer, A, B
<1>2. Good(s) /\ p \in Packets /\ p.frame \in Frames
  BY DEF IInv, Halves, Types, Packets
<1>3. Carried(s, p) /\ Confirmed(s, r) /\ Known(r, s)
  BY <1>1 DEF IInv, Directions
<1>4. /\ SetStream(e, t) /\ seen' = seen
      /\ net' = [net EXCEPT ![e] = IF really THEN @ \ {p} ELSE @]
      /\ inflight' = [inflight EXCEPT ![e] = @ \ {p}]
  BY DEF Lost
<1>5. Good(u) /\ Step(s, u)
  BY <1>2, <1>3, LostStream DEF Carried
<1> HIDE DEF u, s, r
<1>6. p.reset => ~HasBuffer(u)
  BY <1>3, <1>5 DEF Carried, Step, Sends, HasBuffer
<1>7. Good(t) /\ Step(s, t)
  BY <1>5, <1>6, OnRegen, StepTrans
<1> HIDE DEF t
<1>8. Confirmed(t, r)
  BY <1>3, <1>7 DEF Step, NoNews, Confirmed
<1>9. Known(r, t) /\ (DataDone(s) => DataDone(t)) /\ (FinDone(s) => FinDone(t))
  BY <1>3, <1>7 DEF Step, Known, Receives, DataDone
<1>10. /\ net' \in [Ends -> SUBSET Packets] /\ seen' \in [Ends -> SUBSET Packets]
       /\ inflight' \in [Ends -> SUBSET Packets]
  BY <1>4 DEF IInv, Types
<1>11. /\ seen'[e] \subseteq seen[e]
       /\ \A q \in Packeted(e)' : q \in Packeted(e) \/ Carried(t, q)
       /\ Packeted(Peer(e))' \subseteq Packeted(Peer(e))
       /\ \A q \in seen'[Peer(e)] : q \in seen[Peer(e)] \/ Processed(t, q)
  BY <1>1, <1>4 DEF Packeted, IInv, Types
<1> QED BY <1>4, <1>7, <1>8, <1>9, <1>10, <1>11, Replace DEF s, r, Step

-----------------------------------------------------------------------------
LEMMA InitEstablishes == Init => IInv
<1> SUFFICES ASSUME Init PROVE IInv
  OBVIOUS
<1> DEFINE New(life) == NewStream(life)
<1>1. ASSUME NEW life \in {"none", "open"}
      PROVE  Good(NewStream(life)) /\ NewStream(life).shutdown_flush = FALSE
  <2>1. NewStream(life) \in Streams
    BY DEF NewStream, Streams, Marks
  <2>2. /\ SendHalf(NewStream(life)) /\ RecvHalf(NewStream(life))
        /\ NewStream(life).life # "released" /\ NewStream(life).shutdown_flush = FALSE
    BY DEF NewStream, SendHalf, RecvHalf
  <2>3. ~Wanted(NewStream(life))
    BY DEF NewStream, Wanted
  <2> QED BY <2>1, <2>2, <2>3 DEF Good, Core
<1>2. \A e \in Ends : qs[e] = NewStream("open") \/ qs[e] = NewStream("none")
  BY DEF Init
<1>3. Types
  <2>1. NewStream("open") \in Streams /\ NewStream("none") \in Streams
    BY <1>1 DEF Good, Core
  <2> QED BY <2>1 DEF Init, Types
<1>4. Halves
  BY <1>1, <1>2 DEF Init, Halves
<1>5. Directions
  <2>1. ASSUME NEW e \in Ends
        PROVE  Known(qs[e], qs[Peer(e)]) /\ Confirmed(qs[e], qs[Peer(e)])
    <3>1. Peer(e) \in Ends
      BY DEF Ends, Peer, A, B
    <3> QED BY <1>2, <3>1 DEF NewStream, Known, Confirmed, WasReset
  <2> QED BY <2>1 DEF Init, Directions
<1> QED BY <1>3, <1>4, <1>5 DEF IInv

LEMMA NextKeeps == IInv /\ [Next]_vars => IInv'
<1> SUFFICES ASSUME IInv, [Next]_vars PROVE IInv'
  OBVIOUS
<1>1. CASE Next
  <2>1. PICK e \in Ends : AppCall(e) \/ Tick(e) \/ Deliver(e) \/ Acknowledge(e) \/ Lose(e)
    BY <1>1 DEF Next
  <2>2. CASE LateWrite(e)
    BY <2>2 DEF LateWrite, IInv, Types, Halves, Directions
  <2>3. CASE AppCall(e) /\ ~LateWrite(e)
    BY <2>3, WriteKeeps, EmptyWriteKeeps, RefusedCallKeeps, ConcludeKeeps,
       StreamResetKeeps, ReadKeeps, FreeKeeps, ShutdownKeeps DEF AppCall
  <2>4. CASE Deliver(e)
    BY <2>4, ReceiveKeeps DEF Deliver
  <2>5. CASE Acknowledge(e)
    BY <2>5, AckedKeeps DEF Acknowledge
  <2>6. CASE Lose(e)
    BY <2>6, LostKeeps DEF Lose
  <2> QED BY <2>1, <2>2, <2>3, <2>4, <2>5, <2>6, TickKeeps
<1>2. CASE UNCHANGED vars
  BY <1>2 DEF vars, IInv, Types, Halves, Directions
<1> QED BY <1>1, <1>2

\* The parts of the invariant hold in every reachable state, whatever the two
\* applications call, writes of nothing that set the FIN included, and however
\* many packets are lost, repeated or late.
THEOREM Invariance == Spec => []IInv
BY InitEstablishes, NextKeeps, PTL DEF Spec

LEMMA DueWanted ==
  ASSUME NEW s \in Streams, Due(s)
  PROVE  Wanted(s)
<1> DEFINE t == [s EXCEPT !.fin = "none"]
<1>1. CASE s.silent
  <2>1. should_be_active(t)
    BY <1>1 DEF Due
  <2> QED BY <1>1, <2>1 DEF Streams, Wanted, should_be_active, stream_has_data_to_send,
                            HasBuffer
<1>2. CASE ~s.silent
  <2>1. should_be_active(s)
    BY <1>2 DEF Due
  <2> QED BY <1>2, <2>1 DEF Wanted, should_be_active, stream_has_data_to_send
<1> QED BY <1>1, <1>2

\* A stream with a frame to send is in the active list, whichever call or
\* callback of quic_stream_map.c made the frame due; only the FIN of a write of
\* nothing (quic_impl.c:2578), until update_state runs, is left out.
THEOREM NothingForgotten == Spec => []DueIsActive
<1>1. IInv => DueIsActive
  BY DueWanted DEF IInv, Halves, Good, Core, DueIsActive
<1> QED BY <1>1, Invariance, PTL

\* The assertions of the packetiser, of shutdown_flush_done and of the garbage
\* collection never fail, but for the last one's failing on a stream that was
\* freed with the FIN of a write of nothing before it had a send part.
THEOREM NoAssertionFails == Spec => []AssertionsHold
<1>1. IInv => AssertionsHold
  BY DEF IInv, Halves, Good, Core, SendHalf, AssertionsHold, HasFinalSize,
         FinBeforeSendPart, HasBuffer
<1> QED BY <1>1, Invariance, PTL

\* The ends agree how a direction ended: by a reset, or by delivery of all of
\* it, whatever was lost or came late.
THEOREM Agreement == Spec => []EndsAgree
<1>1. IInv => EndsAgree
  <2> SUFFICES ASSUME IInv, NEW e \in Ends
               PROVE  LET s == qs[e]
                          r == qs[Peer(e)] IN
                      /\ r.recv_state \in {"RESET_RECVD", "RESET_READ"} =>
                           s.send_state \in {"RESET_SENT", "RESET_RECVD"}
                      /\ s.send_state = "DATA_RECVD" =>
                           \/ r.recv_state \in {"DATA_RECVD", "DATA_READ"}
                           \/ r.recv_state = "SIZE_KNOWN" /\ r.stop_sending
                      /\ r.recv_state \in {"DATA_RECVD", "DATA_READ"} =>
                           r.rdata = (s.data # "none")
    BY DEF EndsAgree
  <2> DEFINE s == qs[e]
             r == qs[Peer(e)]
  <2>1. Peer(e) \in Ends
    BY DEF Ends, Peer, A, B
  <2>2. /\ s \in Streams /\ r \in Streams /\ SendHalf(s) /\ RecvHalf(r)
        /\ Known(s, r) /\ Confirmed(s, r)
    BY <2>1 DEF IInv, Halves, Good, Core, Directions
  <2> HIDE DEF s, r
  <2>3. WasReset(r) => s.send_state = "RESET_SENT"
    BY <2>2 DEF Known
  <2>4. ASSUME s.send_state = "DATA_RECVD"
        PROVE  \/ r.recv_state \in {"DATA_RECVD", "DATA_READ"}
               \/ r.recv_state = "SIZE_KNOWN" /\ r.stop_sending
    <3>1. r.recv_state \in {"SIZE_KNOWN", "DATA_RECVD", "DATA_READ"}
      BY <2>2, <2>3, <2>4 DEF SendHalf, Confirmed, FinDone, WasReset, Streams
    <3>2. CASE s.data = "none"
      BY <2>2, <3>1, <3>2 DEF RecvHalf, Known, FinalSize
    <3>3. CASE s.data = "acked"
      BY <2>2, <2>3, <2>4, <3>1, <3>3 DEF RecvHalf, Confirmed, DataDone
    <3> QED BY <2>2, <2>4, <3>2, <3>3 DEF SendHalf
  <2>5. ASSUME r.recv_state \in {"DATA_RECVD", "DATA_READ"}
        PROVE  r.rdata = (s.data # "none")
    <3>1. r.rdata <=> s.data # "none"
      BY <2>2, <2>5 DEF RecvHalf, Known, FinalSize
    <3>2. r.rdata \in BOOLEAN
      BY <2>2 DEF Streams
    <3> QED BY <3>1, <3>2
  <2> QED BY <2>3, <2>4, <2>5 DEF WasReset, s, r
<1> QED BY <1>1, Invariance, PTL

=============================================================================
