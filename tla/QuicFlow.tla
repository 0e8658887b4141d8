------------------------------ MODULE QuicFlow ------------------------------
(***************************************************************************)
(* QUIC flow control (openssl-master/ssl/quic/quic_fc.c) between the       *)
(* sending and the receiving end of unidirectional streams: the            *)
(* transmit controllers (TXFC) asked by the packetiser before it puts      *)
(* stream bytes in a packet, the receive controllers (RXFC) told of every  *)
(* STREAM and RESET_STREAM frame and of every byte the application reads,  *)
(* one of each per stream and one of each for the connection.              *)
(*                                                                         *)
(* Frames stay in net once sent, so they arrive in any order, late and any *)
(* number of times; a frame declared lost leaves it.  A stream's           *)
(* application writes all its bytes and concludes before the first packet. *)
(***************************************************************************)
EXTENDS Integers, FiniteSets, FiniteSetsExt, Sums

CONSTANTS
  NStreams,        \* streams 1..NStreams; the connection's controllers are 0
  StreamLen,       \* bytes the application writes on each stream
  StreamWindow,    \* DEFAULT_INIT_STREAM_RXFC_WND
  ConnWindow,      \* DEFAULT_INIT_CONN_RXFC_WND
  WndMul,          \* DEFAULT_*_RXFC_MAX_WND_MUL
  Resettable,      \* the streams the sending application may reset
  MaxLost          \* bound: frames declared lost

Streams == 1..NStreams
Conn == 0
Controllers == Streams \cup {Conn}

ASSUME QuicFlowAssumption ==
  /\ NStreams \in Nat /\ StreamLen \in Nat
  /\ StreamWindow \in Nat \ {0} /\ ConnWindow \in Nat \ {0}
  /\ WndMul \in Nat \ {0} /\ MaxLost \in Nat
  /\ Resettable \subseteq Streams

VARIABLES
  txfc,        \* QUIC_TXFC: [swm, cwm] of each controller
  rxfc,        \* QUIC_RXFC of each controller
  final,       \* send_final_size of a reset stream, NoSize otherwise
  lost,        \* chunks the send buffers have to send again
  rcvd,        \* bytes of each stream in its receive buffer or read
  gone,        \* streams whose receive part is in RESET_RECVD
  wantMaxData, \* want_max_data of the receiving end's packetiser
  net,         \* frames sent and not lost
  nlost        \* frames of each kind lost so far

vars == <<txfc, rxfc, final, lost, rcvd, gone, wantMaxData, net, nlost>>

NoSize == -1
Kinds == {"STREAM", "RESET_STREAM", "MAX_DATA", "MAX_STREAM_DATA"}
Window(x) == IF x = Conn THEN ConnWindow ELSE StreamWindow

\* Both ends apply the transport parameters before any stream data is sent.
Init ==
  /\ txfc = [x \in Controllers |-> [swm |-> 0, cwm |-> Window(x)]]
  /\ rxfc = [x \in Controllers |->
       [swm |-> 0, cwm |-> Window(x), rwm |-> 0, hwm |-> 0,
        cur_window_size |-> Window(x), error_code |-> "NO_ERROR",
        has_cwm_changed |-> FALSE, is_fin |-> FALSE]]
  /\ final = [s \in Streams |-> NoSize]
  /\ lost = {} /\ gone = {} /\ net = {}
  /\ nlost = [k \in Kinds |-> 0]
  /\ rcvd = [s \in Streams |-> {}]
  /\ wantMaxData = FALSE

-----------------------------------------------------------------------------
(* The transmit controllers and the packetiser.                            *)

get_credit_local(x, consumed) == txfc[x].cwm - (consumed + txfc[x].swm)

\* mutant: the bytes planned for other streams of the packet are forgotten
get_credit_unplanned(s, consumed) ==
  Min({get_credit_local(s, 0), get_credit_local(Conn, 0)})

get_credit(s, consumed) ==
  Min({get_credit_local(s, 0), get_credit_local(Conn, consumed)})

consume_credit_local(fc, n) ==
  [fc EXCEPT !.swm = @ + Min({n, fc.cwm - fc.swm})]

StreamFrame(s, from, end) ==
  [kind |-> "STREAM", s |-> s, from |-> from, end |-> end,
   fin |-> end = StreamLen]

\* A packet carries n[s] new bytes of each stream; the streams are planned one
\* after the other, each with the credit the earlier ones have left.
SendPacket(n) ==
  LET consumed == PartialSums(n, NStreams) IN
  /\ \E s \in Streams : n[s] > 0
  /\ \A s \in Streams : n[s] > 0 =>
       /\ final[s] = NoSize
       /\ txfc[s].swm + n[s] <= StreamLen
       /\ n[s] <= get_credit(s, consumed[s - 1])
  /\ txfc' = [x \in Controllers |->
       IF x = Conn
       THEN consume_credit_local(txfc[Conn], consumed[NStreams])
       ELSE consume_credit_local(txfc[x], n[x])]
  /\ net' = net \cup {StreamFrame(s, txfc[s].swm, txfc[s].swm + n[s]) :
                        s \in {t \in Streams : n[t] > 0}}
  /\ UNCHANGED <<rxfc, final, lost, rcvd, gone, wantMaxData, nlost>>

\* A lost chunk is sent again; it was paid for when it was first sent.
Retransmit(f) ==
  /\ f \in lost
  /\ lost' = lost \ {f} /\ net' = net \cup {f}
  /\ UNCHANGED <<txfc, rxfc, final, rcvd, gone, wantMaxData, nlost>>

\* mutant: the size promised to the application, not the bytes sent
FinalSizeWritten(s) == StreamLen

\* A FIN already sent fixes the size, and then swm is the size too.
FinalSize(s) == txfc[s].swm

\* reset_stream_send_part, and the RESET_STREAM frame it makes the packetiser
\* send; the send buffer is freed.
ResetStream(s) ==
  /\ s \in Resettable /\ final[s] = NoSize
  /\ final' = [final EXCEPT ![s] = FinalSize(s)]
  /\ lost' = {f \in lost : f.s # s}
  /\ net' = net \cup {[kind |-> "RESET_STREAM", s |-> s, end |-> FinalSize(s)]}
  /\ UNCHANGED <<txfc, rxfc, rcvd, gone, wantMaxData, nlost>>

bump_cwm(x, cwm) == [txfc EXCEPT ![x].cwm = IF cwm <= @ THEN @ ELSE cwm]

RxMaxData(f) ==
  /\ f \in net /\ f.kind \in {"MAX_DATA", "MAX_STREAM_DATA"}
  /\ txfc' = bump_cwm(f.s, f.cwm)
  /\ UNCHANGED <<rxfc, final, lost, rcvd, gone, wantMaxData, net, nlost>>

-----------------------------------------------------------------------------
(* The receive controllers.                                                *)

on_rx_controlled_bytes(fc, n) ==
  LET credit == fc.cwm - fc.swm IN
  [fc EXCEPT !.swm = @ + Min({n, credit}),
             !.error_code = IF n > credit THEN "FLOW_CONTROL_ERROR" ELSE @]

\* mutant: every frame is charged in full, also what it repeats
delta_repeated(fc, end) == end

delta(fc, end) == end - fc.hwm

on_rx_stream_frame(s, end, is_fin) ==
  LET fc == rxfc[s]
      fin == [fc EXCEPT !.is_fin = @ \/ is_fin] IN
  IF fc.is_fin /\ ((is_fin /\ fc.hwm # end) \/ end > fc.hwm)
  THEN [rxfc EXCEPT ![s].error_code = "FINAL_SIZE_ERROR"]
  ELSE IF end > fc.hwm
  THEN [rxfc EXCEPT ![s] = on_rx_controlled_bytes([fin EXCEPT !.hwm = end],
                                                  delta(fc, end)),
                    ![Conn] = on_rx_controlled_bytes(@, delta(fc, end))]
  ELSE [rxfc EXCEPT ![s] = IF end < fc.hwm /\ is_fin
                           THEN [fin EXCEPT !.error_code = "FINAL_SIZE_ERROR"]
                           ELSE fin]

RxStream(f) ==
  /\ f \in net /\ f.kind = "STREAM"
  /\ rxfc' = on_rx_stream_frame(f.s, f.end, f.fin)
  /\ rcvd' = [rcvd EXCEPT ![f.s] =
       IF f.s \in gone THEN @ ELSE @ \cup (f.from .. f.end - 1)]
  /\ UNCHANGED <<txfc, final, lost, gone, wantMaxData, net, nlost>>

\* A stream read to its end has no more receive part to reset.
RxReset(f) ==
  /\ f \in net /\ f.kind = "RESET_STREAM"
  /\ rxfc' = on_rx_stream_frame(f.s, f.end, TRUE)
  /\ gone' = IF rxfc[f.s].rwm = StreamLen THEN gone ELSE gone \cup {f.s}
  /\ UNCHANGED <<txfc, final, lost, rcvd, wantMaxData, net, nlost>>

\* mutant: the window grows only when less than the threshold is left
cwm_bump_strict(fc) ==
  ~fc.is_fin /\ fc.cwm - fc.rwm < (fc.cur_window_size * 3) \div 4

cwm_bump_desired(fc) ==
  ~fc.is_fin /\ fc.cwm - fc.rwm <= (fc.cur_window_size * 3) \div 4

\* faster: whether the window would last less than four round trips, which the
\* clock decides (a read of some bytes always makes the comparison).
adjust_window_size(fc, min, max, faster) ==
  Min({Max({IF faster THEN 2 * fc.cur_window_size ELSE fc.cur_window_size,
            min}), max})

update_cwm(fc, min, max, faster) ==
  IF ~cwm_bump_desired(fc) THEN fc
  ELSE LET size == adjust_window_size(fc, min, max, faster)
           new == fc.rwm + size IN
       [fc EXCEPT !.cur_window_size = size,
                  !.cwm = Max({@, new}),
                  !.has_cwm_changed = @ \/ new > fc.cwm]

on_retire(fc, n, min, max, faster) ==
  update_cwm([fc EXCEPT !.rwm = @ + n], min, max, faster)

\* The bytes of s the receive buffer can hand over now.
Readable(s) == {b \in rcvd[s] : \A c \in 0..b : c \in rcvd[s]}

\* The application reads n bytes; the stream's new window is the least window
\* of the connection.
Read(s, n, faster, connFaster) ==
  /\ s \notin gone
  /\ n > 0 /\ rxfc[s].rwm + n <= Cardinality(Readable(s))
  /\ rxfc[s].rwm + n <= rxfc[s].swm
  /\ LET fc == on_retire(rxfc[s], n, 0, WndMul * StreamWindow, faster) IN
     rxfc' = [rxfc EXCEPT ![s] = fc,
                ![Conn] = on_retire(@, n, fc.cur_window_size,
                                    WndMul * ConnWindow, connFaster)]
  /\ UNCHANGED <<txfc, final, lost, rcvd, gone, wantMaxData, net, nlost>>

-----------------------------------------------------------------------------
(* Frames that carry credit, and what is sent again after a loss.          *)

SendMaxStreamData(s) ==
  /\ rxfc[s].has_cwm_changed /\ ~rxfc[s].is_fin /\ s \notin gone
  /\ net' = net \cup {[kind |-> "MAX_STREAM_DATA", s |-> s, cwm |-> rxfc[s].cwm]}
  /\ rxfc' = [rxfc EXCEPT ![s].has_cwm_changed = FALSE]
  /\ UNCHANGED <<txfc, final, lost, rcvd, gone, wantMaxData, nlost>>

SendMaxData ==
  /\ rxfc[Conn].has_cwm_changed \/ wantMaxData
  /\ net' = net \cup {[kind |-> "MAX_DATA", s |-> Conn, cwm |-> rxfc[Conn].cwm]}
  /\ rxfc' = [rxfc EXCEPT ![Conn].has_cwm_changed = FALSE]
  /\ wantMaxData' = FALSE
  /\ UNCHANGED <<txfc, final, lost, rcvd, gone, nlost>>

regen_max_data(f) == f.kind = "MAX_DATA"

\* on_lost: a chunk goes back to its send buffer unless the stream is reset, a
\* MAX_DATA frame is asked for again.  RESET_STREAM and MAX_STREAM_DATA frames
\* are asked for again only for a stream that still has a send buffer, which
\* neither end of a reset or a receive-only stream has.
Lose(f) ==
  /\ f \in net
  /\ MapThenSumSet(LAMBDA k : nlost[k], Kinds) < MaxLost
  /\ nlost' = [nlost EXCEPT ![f.kind] = @ + 1]
  /\ net' = net \ {f}
  /\ lost' = IF f.kind = "STREAM" /\ final[f.s] = NoSize
             THEN lost \cup {f} ELSE lost
  /\ wantMaxData' = (wantMaxData \/ regen_max_data(f))
  /\ UNCHANGED <<txfc, rxfc, final, rcvd, gone>>

-----------------------------------------------------------------------------
NewData == \E n \in [Streams -> 0..StreamLen] : SendPacket(n)
Resend == \E f \in lost : Retransmit(f)
Credit == SendMaxData \/ \E s \in Streams : SendMaxStreamData(s)
Receive == \E f \in net : RxStream(f) \/ RxReset(f) \/ RxMaxData(f)
AppRead == \E s \in Streams, n \in 1..StreamLen, a, b \in BOOLEAN : Read(s, n, a, b)
AppReset == \E s \in Streams : ResetStream(s)
Loss == \E f \in net : Lose(f)

Next == NewData \/ Resend \/ Credit \/ Receive \/ AppRead \/ AppReset \/ Loss

Spec == Init /\ [][Next]_vars

Progress == NewData \/ Resend \/ Credit \/ Receive \/ AppRead

\* Both event loops keep running, the application keeps reading, and a frame
\* that would change the state of its receiver is eventually delivered (losses
\* are bounded by MaxLost): while one of these steps is possible, one is taken.
FairSpec == Spec /\ WF_vars(Progress)

-----------------------------------------------------------------------------
Total(f) == PartialSums(f, NStreams)[NStreams]

\* Two correct ends never accuse each other: whatever the network reorders,
\* repeats or loses, on_rx_stream_frame sets neither FLOW_CONTROL_ERROR nor
\* FINAL_SIZE_ERROR, also for streams reset half way or after their FIN.
NoProtocolError == \A x \in Controllers : rxfc[x].error_code = "NO_ERROR"

\* The assertions of ossl_quic_txfc_get_credit_local and the guard of
\* ossl_quic_rxfc_on_retire never fail: at every controller what was read is at
\* most what was received, that at most what was sent, that at most the credit
\* the sender knows of, and that at most the credit granted.  The connection's
\* watermarks are the sums over its streams, on both ends, although they are
\* charged frame by frame and in another order.
Watermarks ==
  /\ \A x \in Controllers :
       /\ rxfc[x].rwm <= rxfc[x].swm /\ rxfc[x].swm <= txfc[x].swm
       /\ txfc[x].swm <= txfc[x].cwm /\ txfc[x].cwm <= rxfc[x].cwm
  /\ txfc[Conn].swm = Total([s \in Streams |-> txfc[s].swm])
  /\ rxfc[Conn].swm = Total([s \in Streams |-> rxfc[s].hwm])
  /\ rxfc[Conn].rwm = Total([s \in Streams |-> rxfc[s].rwm])

\* The ends together implement credit granted and spent at one place.
Credit0 == INSTANCE QuicCredit WITH
  granted <- [x \in Controllers |-> rxfc[x].cwm],
  spent <- [s \in Streams |-> txfc[s].swm]
CreditRefinement == Credit0!Spec

\* Flow control never stops a transfer for good: every byte written is read,
\* whatever window growth the clock allows and although STREAM and MAX_DATA
\* frames are lost, unless a stream is reset (which keeps the credit of what
\* was not read) or a MAX_STREAM_DATA frame is lost (which is not sent again
\* for a receive-only stream).
AllRead ==
  <>(\/ \A s \in Streams : rxfc[s].rwm = StreamLen
     \/ \E s \in Streams : final[s] # NoSize
     \/ nlost["MAX_STREAM_DATA"] > 0)

=============================================================================
