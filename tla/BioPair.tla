------------------------------ MODULE BioPair -------------------------------
(***************************************************************************)
(* The BIO pair (openssl-master/crypto/bio/bss_bio.c): two ends, each with *)
(* a ring buffer for what it writes, read by the other end with or without *)
(* copying.  The calls of the two ends come in any order.                  *)
(***************************************************************************)
EXTENDS Integers, Sequences, SequencesExt

CONSTANTS
  Bytes,       \* the bytes written
  Sizes,       \* sizes of the write buffers
  InitSize     \* the size bio_new gives, 17 * 1024

ASSUME BioPairAssumption ==
  /\ Sizes \subseteq Nat \ {0} /\ InitSize \in Sizes
  /\ \E m \in Sizes : \A n \in Sizes : n <= m      \* a size_t has a largest value

Ends == {1, 2}
Peer(e) == 3 - e

VARIABLES
  b,          \* bio_bio_st of each end
  paired,     \* peer # NULL and init # 0, of both ends
  io          \* the last call: the bytes it was given or returned, and how many

pairVars == <<b, paired, io>>

\* What a call did; from is the end whose bytes moved.
Call(op, from, bytes, count) == [op |-> op, from |-> from, bytes |-> bytes, count |-> count]
NoCall == Call("none", 0, <<>>, 0)

\* bio_new; the content of a buffer is whatever was in memory.
NoBuf == <<>>
NewBuf(n) == [i \in 1..n |-> CHOOSE x \in Bytes : TRUE]
bio_new == [buf |-> NoBuf, size |-> InitSize, len |-> 0, offset |-> 0,
            closed |-> FALSE, request |-> 0]

PairInit == b = [e \in Ends |-> bio_new] /\ paired = FALSE /\ io = NoCall

-----------------------------------------------------------------------------
(* The pair.                                                               *)

allocated(x) ==
  IF x.buf = NoBuf THEN [x EXCEPT !.buf = NewBuf(x.size), !.len = 0, !.offset = 0] ELSE x

bio_make_pair ==
  /\ ~paired /\ paired' = TRUE
  /\ b' = [e \in Ends |-> [allocated(b[e]) EXCEPT !.closed = FALSE, !.request = 0]]
  /\ io' = NoCall

\* The second allocation fails: the first end keeps its buffer.
MakePairFails(e) ==
  /\ ~paired /\ b[Peer(e)].buf = NoBuf
  /\ b' = [b EXCEPT ![e] = allocated(@)] /\ io' = NoCall
  /\ UNCHANGED paired

\* Both ends are emptied, whichever is asked.
bio_destroy_pair ==
  /\ paired /\ paired' = FALSE
  /\ b' = [e \in Ends |-> [b[e] EXCEPT !.len = 0, !.offset = 0]]
  /\ io' = NoCall

\* BIO_C_SET_WRITE_BUF_SIZE, refused while paired
SetWriteBufSize(e, n) ==
  /\ ~paired /\ n \in Sizes /\ n # b[e].size
  /\ b' = [b EXCEPT ![e].buf = NoBuf, ![e].size = n] /\ io' = NoCall
  /\ UNCHANGED paired

-----------------------------------------------------------------------------
(* Writing.                                                                *)

\* The first place that can be written to.
write_offset(x) ==
  LET at == x.offset + x.len IN IF at >= x.size THEN at - x.size ELSE at

\* memcpy of s to that place
Copied(x, s) ==
  LET at == write_offset(x) IN
  [x EXCEPT !.buf = [p \in 1..x.size |-> IF p - at \in 1..Len(s) THEN s[p - at] ELSE x.buf[p]],
            !.len = @ + Len(s)]

\* rest bytes, or as many as there are places before the end of the buffer
write_chunk(x, rest) ==
  IF write_offset(x) + rest <= x.size THEN rest ELSE x.size - write_offset(x)

\* mutant: the second piece is taken from the beginning again
advanced_not(s, chunk) == SubSeq(s, 1, Len(s) - chunk)

\* buf += chunk
advanced(s, chunk) == SubSeq(s, chunk + 1, Len(s))

\* The loop of bio_write, of one or two iterations.
Written(x, s) ==
  LET chunk == write_chunk(x, Len(s))
      once == Copied(x, SubSeq(s, 1, chunk)) IN
  IF chunk = Len(s) THEN once ELSE Copied(once, advanced(s, chunk))

unrequested(x) == [x EXCEPT !.request = 0]

\* The end is closed or the buffer is full.
WriteRefused(e) ==
  /\ b[e].closed \/ b[e].len = b[e].size
  /\ b' = [b EXCEPT ![e] = unrequested(@)] /\ io' = Call("write", e, <<>>, 0)

bio_write(e, s) ==
  LET x == unrequested(b[e])
      num == Min({Len(s), x.size - x.len}) IN
  /\ paired
  /\ \/ WriteRefused(e)
     \/ /\ ~x.closed /\ x.len # x.size
        /\ b' = [b EXCEPT ![e] = Written(x, SubSeq(s, 1, num))]
        /\ io' = Call("write", e, s, num)
  /\ UNCHANGED paired

\* bio_nwrite, which has one piece only and no memcpy: the caller fills in the
\* region before any other call.
bio_nwrite(e, s) ==
  LET x == unrequested(b[e])
      num == Min({Len(s), write_chunk(x, x.size - x.len)}) IN
  /\ paired
  /\ \/ WriteRefused(e)
     \/ /\ ~x.closed /\ x.len # x.size
        /\ b' = [b EXCEPT ![e] = Copied(x, SubSeq(s, 1, num))]
        /\ io' = Call("write", e, s, num)
  /\ UNCHANGED paired

\* BIO_C_SHUTDOWN_WR
ShutdownWr(e) ==
  b' = [b EXCEPT ![e].closed = TRUE] /\ io' = NoCall /\ UNCHANGED paired

-----------------------------------------------------------------------------
(* Reading, from the peer's buffer.                                        *)

\* The n bytes from the offset on, which memcpy takes or the caller of
\* bio_nread finds there.
Piece(x, n) == SubSeq(x.buf, x.offset + 1, x.offset + n)

advance(x, n) == IF x.offset + n = x.size THEN 0 ELSE x.offset + n

\* n bytes taken; an empty buffer starts again at its beginning.
Consumed(x, n) ==
  [x EXCEPT !.len = @ - n, !.offset = IF n = x.len THEN 0 ELSE advance(x, n)]

read_chunk(x, rest) == IF x.offset + rest <= x.size THEN rest ELSE x.size - x.offset

\* The loop of bio_read: what it returns, and the buffer after it.
Returned(x, n) ==
  LET chunk == read_chunk(x, n) IN
  IF chunk = n THEN Piece(x, n) ELSE Piece(x, chunk) \o Piece(Consumed(x, chunk), n - chunk)

After(x, n) ==
  LET chunk == read_chunk(x, n) IN
  IF chunk = n THEN Consumed(x, n) ELSE Consumed(Consumed(x, chunk), n - chunk)

\* Nothing to read: end of file, or a request for the peer to see.
NothingToRead(e, n) ==
  LET x == b[Peer(e)] IN
  /\ x.len = 0
  /\ b' = [b EXCEPT ![Peer(e)].request = IF x.closed THEN 0 ELSE Min({n, x.size})]
  /\ io' = Call("read", Peer(e), <<>>, 0)

bio_read(e, n) ==
  LET x == unrequested(b[Peer(e)])
      size == Min({n, x.len}) IN
  /\ paired /\ n > 0
  /\ \/ NothingToRead(e, n)
     \/ /\ x.len # 0
        /\ b' = [b EXCEPT ![Peer(e)] = After(x, size)]
        /\ io' = Call("read", Peer(e), Returned(x, size), size)
  /\ UNCHANGED paired

\* One piece only; the caller reads it before any other call.
bio_nread(e, n) ==
  LET x == unrequested(b[Peer(e)])
      num == Min({n, read_chunk(x, x.len)}) IN
  /\ paired /\ n > 0
  /\ \/ NothingToRead(e, 1)
     \/ /\ x.len # 0
        /\ b' = [b EXCEPT ![Peer(e)] = Consumed(x, num)]
        /\ io' = Call("read", Peer(e), Piece(x, num), num)
  /\ UNCHANGED paired

ResetReadRequest(e) ==
  b' = [b EXCEPT ![e] = unrequested(@)] /\ io' = NoCall /\ UNCHANGED paired

\* BIO_CTRL_RESET: what was written and not read is dropped.
Reset(e) ==
  /\ b[e].buf # NoBuf
  /\ b' = [b EXCEPT ![e].len = 0, ![e].offset = 0] /\ io' = NoCall
  /\ UNCHANGED paired

-----------------------------------------------------------------------------
Largest == Max(Sizes)
Strings == UNION {[1..n -> Bytes] : n \in 1..(Largest + 1)}

PairNext ==
  \/ bio_make_pair \/ bio_destroy_pair
  \/ \E e \in Ends :
       \/ MakePairFails(e) \/ ShutdownWr(e) \/ ResetReadRequest(e) \/ Reset(e)
       \/ \E n \in Sizes : SetWriteBufSize(e, n)
       \/ \E s \in Strings : bio_write(e, s) \/ bio_nwrite(e, s)
       \/ \E n \in 1..(Largest + 1) : bio_read(e, n) \/ bio_nread(e, n)

PairSpec == PairInit /\ [][PairNext]_pairVars

-----------------------------------------------------------------------------
\* The bytes in the ring, oldest first.
Content(x) == [i \in 1..x.len |->
  LET at == x.offset + i - 1 IN x.buf[1 + (IF at >= x.size THEN at - x.size ELSE at)]]

\* The rings, with their wrap-around, partial reads and writes in one or two
\* pieces, are queues: a write puts the bytes it was given, as many as it says
\* it took, behind those that are there, and a read returns the first of them,
\* so that no byte is lost, repeated, changed or out of order.
Channel == INSTANCE BioChannel WITH
  Capacity <- Largest,
  chan <- [e \in Ends |-> Content(b[e])],
  closed <- {e \in Ends : b[e].closed}
IsChannel == Channel!Spec

=============================================================================
