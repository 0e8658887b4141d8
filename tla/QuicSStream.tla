---------------------------- MODULE QuicSStream -----------------------------
(***************************************************************************)
(* The QUIC send buffer (openssl-master/ssl/quic/quic_sstream.c on the     *)
(* ring buffer of include/internal/ring_buf.h): the application appends    *)
(* and concludes, the packetiser takes chunks, and the acknowledgement     *)
(* manager reports, in any order, each chunk acknowledged or lost.         *)
(*                                                                         *)
(* A byte of the stream is its logical offset.  Offsets are unsigned and   *)
(* wrap at U64, which the chunk of a FIN with no byte before it does.      *)
(***************************************************************************)
EXTENDS UintSet

CONSTANTS
  MaxOffset,     \* MAX_OFFSET: no stream grows past it
  Sizes,         \* the sizes the ring buffer is given
  MaxLost        \* bound: chunks declared lost

U64 == 4 * MaxOffset

ASSUME QuicSStreamAssumption ==
  MaxOffset \in Nat \ {0} /\ MaxLost \in Nat /\ Sizes \subseteq Nat \ {0}

VARIABLES
  cell,          \* the ring buffer: the byte each place of start[] holds
  head_offset,   \* size of the stream
  ctail_offset,  \* bytes before it are given up
  new_set, acked_set,
  have_final_size, sent_final_size, acked_final_size,
  inflight,      \* chunks in packets not yet acknowledged or lost
  nlost          \* chunks lost so far

ring == <<cell, head_offset, ctail_offset>>
fin == <<have_final_size, sent_final_size, acked_final_size>>
vars == <<ring, new_set, acked_set, fin, inflight, nlost>>

alloc == Len(cell)
NoByte == -1

Init ==
  /\ \E n \in Sizes : cell = [i \in 1..n |-> NoByte]
  /\ head_offset = 0 /\ ctail_offset = 0
  /\ new_set = <<>> /\ acked_set = <<>>
  /\ have_final_size = FALSE /\ sent_final_size = FALSE
  /\ acked_final_size = FALSE
  /\ inflight = {} /\ nlost = 0

-----------------------------------------------------------------------------
(* The ring buffer.                                                        *)

Place(b, size) == 1 + (b % size)

ring_buf_used == head_offset - ctail_offset

\* mutant: a byte acknowledged anywhere makes room
ring_buf_avail_acked == alloc - (ring_buf_used - Cardinality(Members(acked_set)))

ring_buf_avail == alloc - ring_buf_used

\* The bytes a..b-1 written where they belong.
Written(a, b) ==
  [i \in 1..alloc |->
     IF \E x \in a..(b - 1) : Place(x, alloc) = i
     THEN Max({x \in a..(b - 1) : Place(x, alloc) = i}) ELSE cell[i]]

\* Only a range that begins at or before the tail gives up bytes; the range of
\* an empty stream's FIN reaches past MAX_OFFSET and gives up none.
ring_buf_cpop_range(start, end) ==
  IF start > ctail_offset \/ end >= MaxOffset THEN ctail_offset ELSE end + 1

\* What is given up as the tail moves is overwritten on request, unless it is a
\* single byte.
Cleansed(tail) ==
  IF tail > ctail_offset + 1
  THEN [i \in 1..alloc |->
          IF \E b \in ctail_offset..(Min({tail, head_offset}) - 1) : Place(b, alloc) = i
          THEN NoByte ELSE cell[i]]
  ELSE cell

-----------------------------------------------------------------------------
(* The application.                                                        *)

\* SSL_write: as many of n bytes as there is room for.
SStreamAppend(n) ==
  LET end == head_offset + Min({n, ring_buf_avail, MaxOffset - head_offset}) IN
  /\ ~have_final_size /\ end > head_offset
  /\ cell' = Written(head_offset, end)
  /\ head_offset' = end
  /\ new_set' = insert(new_set, head_offset, end - 1)
  /\ UNCHANGED <<ctail_offset, acked_set, fin, inflight, nlost>>

SStreamFin ==
  /\ ~have_final_size
  /\ have_final_size' = TRUE
  /\ UNCHANGED <<ring, new_set, acked_set, sent_final_size, acked_final_size,
                 inflight, nlost>>

\* A ring of another size; the bytes held are copied to their new places.
SetBufferSize(size) ==
  /\ size \in Sizes /\ size # alloc /\ size >= ring_buf_used
  /\ cell' = [i \in 1..size |->
       LET held == {b \in ctail_offset..(head_offset - 1) : Place(b, size) = i} IN
       IF held = {} THEN NoByte ELSE cell[Place(Max(held), alloc)]]
  /\ UNCHANGED <<head_offset, ctail_offset, new_set, acked_set, fin, inflight,
                 nlost>>

-----------------------------------------------------------------------------
(* The packetiser: a chunk of the first range that is new, or a lone FIN.  *)

FrameLen ==
  LET r == new_set[1] IN
  Min({(r.end - r.start + 1) % U64, head_offset - r.start})

is_fin(offset, len) == have_final_size /\ offset + len = head_offset

\* The TXPIM chunk of a frame; end is one before start for an empty frame.
Chunk(offset, len, has_fin) ==
  [start |-> offset, end |-> (offset + len - 1) % U64, has_fin |-> has_fin]

\* mark_transmitted and mark_transmitted_fin of the commit.
Transmit(c) ==
  /\ inflight' = inflight \cup {c}
  /\ new_set' = IF c.end >= c.start THEN remove(new_set, c.start, c.end) ELSE new_set
  /\ sent_final_size' = (sent_final_size \/ c.has_fin)
  /\ UNCHANGED <<ring, acked_set, have_final_size, acked_final_size, nlost>>

\* len: what flow control and the room in the packet leave of the chunk.
SendChunk(len) ==
  /\ new_set # <<>> /\ len <= FrameLen
  /\ LET offset == new_set[1].start IN
     /\ len > 0 \/ (FrameLen = 0 /\ is_fin(offset, 0))
     /\ Transmit(Chunk(offset, len, is_fin(offset, len)))

SendFin ==
  /\ new_set = <<>> /\ have_final_size /\ ~sent_final_size
  /\ Transmit(Chunk(head_offset, 0, TRUE))

-----------------------------------------------------------------------------
(* The callbacks of the acknowledgement manager (on_acked, on_lost).       *)

Acked(c) ==
  LET acked == insert(acked_set, c.start, c.end)
      ctail == ring_buf_cpop_range(acked[1].start, acked[1].end) IN
  /\ c \in inflight /\ inflight' = inflight \ {c}
  /\ IF c.end >= c.start
     THEN /\ acked_set' = acked
          /\ ctail_offset' = ctail
          /\ head_offset' = Max({head_offset, ctail})
          /\ cell' \in {cell, Cleansed(ctail)}
     ELSE UNCHANGED <<acked_set, ring>>
  /\ acked_final_size' = (acked_final_size \/ c.has_fin)
  /\ UNCHANGED <<new_set, have_final_size, sent_final_size, nlost>>

\* mutant: only the bytes are sent again
mark_lost_fin_forgotten(c) == FALSE

mark_lost_fin(c) == c.has_fin /\ ~acked_final_size

Lost(c) ==
  /\ nlost < MaxLost /\ nlost' = nlost + 1
  /\ c \in inflight /\ inflight' = inflight \ {c}
  /\ new_set' = IF c.end >= c.start THEN insert(new_set, c.start, c.end) ELSE new_set
  /\ sent_final_size' = (sent_final_size /\ ~mark_lost_fin(c))
  /\ UNCHANGED <<ring, acked_set, have_final_size, acked_final_size>>

-----------------------------------------------------------------------------
Sending == SendFin \/ \E len \in 0..MaxOffset : SendChunk(len)
Acknowledging == \E c \in inflight : Acked(c)

Next ==
  \/ \E n \in 1..MaxOffset : SStreamAppend(n)
  \/ SStreamFin
  \/ \E n \in Sizes : SetBufferSize(n)
  \/ Sending
  \/ Acknowledging
  \/ \E c \in inflight : Lost(c)

Spec == Init /\ [][Next]_vars

\* The event loop sends what is pending and every packet meets its fate;
\* losses are bounded by MaxLost.
FairSpec == Spec /\ WF_vars(Sending) /\ WF_vars(Acknowledging)

-----------------------------------------------------------------------------
is_totally_acked ==
  /\ have_final_size => acked_final_size
  /\ head_offset = 0 \/ (Len(acked_set) = 1 /\ acked_set[1].start = 0
                          /\ acked_set[1].end + 1 = head_offset)

Bytes == 0..(head_offset - 1)

\* On the range lists of both sets, whatever order chunks came in, any range
\* could be inserted or removed and a list in order, without overlaps, of just
\* the right integers would result, and a query finds what is there: all paths
\* of ossl_uint_set_insert and ossl_uint_set_remove.  So is_totally_acked, which
\* compares ranges, answers exactly whether all bytes and the FIN, if any, are
\* acknowledged: acknowledgements in any order end in one range.
RangeListsExact ==
  /\ \A s \in {new_set, acked_set} :
       /\ \A a \in 0..MaxOffset : \A b \in a..MaxOffset :
            /\ WellFormed(insert(s, a, b)) /\ WellFormed(remove(s, a, b))
            /\ Members(insert(s, a, b)) = Members(s) \cup (a..b)
            /\ Members(remove(s, a, b)) = Members(s) \ (a..b)
       /\ \A v \in 0..MaxOffset : query(s, v) <=> v \in Members(s)
  /\ LET bytes_acked == Bytes \subseteq Members(acked_set)
         fin_acked == have_final_size => acked_final_size
     IN  is_totally_acked <=> bytes_acked /\ fin_acked

\* "Any logical byte is in one of these states" NEW, IN_FLIGHT and ACKED: no
\* byte is in new_set and acked_set, or in either and in a packet, and none is
\* in none of the three.
OneStatePerByte ==
  \A b \in Bytes :
    LET carrying == {c \in inflight : b \in c.start..c.end} IN
    /\ b \in Members(new_set) => b \notin Members(acked_set)
    /\ Cardinality(carrying) =
         IF b \in Members(new_set) \cup Members(acked_set) THEN 0 ELSE 1

\* What is not acknowledged can be sent again: its place in the ring buffer
\* still holds it, through wrap-around, culling and changes of size.
UnackedBytesHeld ==
  \A b \in Bytes \ Members(acked_set) :
    ctail_offset <= b /\ cell[Place(b, alloc)] = b

\* A concluded stream is acknowledged to its end whatever was lost on the way.
EventuallyAcked == have_final_size ~> is_totally_acked

=============================================================================
