# A TLA+ development for the cryptographic code scanner

The repository holds two things. The program of its own labels source files with
the cryptographic algorithm they implement or use: it keeps a collection of
labelled samples, compares a file with its nearest samples, and asks a language
model when they disagree. Beside it lie two libraries, `openssl-master/` and
`cryptography-main/`, kept as material to scan. Nearly all of the code is
OpenSSL, so the development also covers those parts of it that keep state through
interleavings, loss and reordering: QUIC streams and flow control, DTLS replay
protection, the BIO pair, the secure heap and the read-copy-update lock.

## The system

### The scanner

| part | source | state | operations |
|---|---|---|---|
| sample ingestion | `vecstore.py` (`__main__`) | command line, text read, embedding | read, embed, upsert; any of them may fail |
| embedding function | `vecstore.py` `OllamaEmbedding` | none | one request to the model server per text |
| collection `CodeSamples` | `vecstore.py:50-51` | id → (category, text, embedding), on disk | upsert, query |
| classification by neighbours | `categorize.py` `classify_file` | none | read the file, query four neighbours |
| scan | `run.py` `scan_folder` | the walk of `os.walk`, the listing of the current folder, the file in work | walk, classify, ask, yield |
| decision | `run.py` `early_stop`, the fix-up in `scan_folder` | none | pure |
| question to the model | `run.py` `get_true_category_v2_codellama` | none | read again, ask, search the answer |
| tool-calling question | `run.py` `get_true_category`, `identify_algorithm` | none | ask, call the first tool; not called by the scan |
| document helpers | `categorize.py` `Doc`, `classify_doc` | none | pure; nothing constructs a `Doc` |
| evaluation | `evaluate.py` | two counters, rights, wrongs, matrix | iterate the scan, build the matrix, print |
| vulnerability lookup | `vuln_checker.py` | the list of vulnerabilities of a package | query OSV, ask the model about each, compare versions |

`scan_folder` is a generator: `run.py` and `evaluate.py` iterate it, and it
advances only between two iterations. It calls `classify_file`, which queries the
collection that separate processes of `vecstore.py` write. Nothing is locked: the
files, the folder tree and the collection are shared with everything else on the
machine. Embeddings and answers come over HTTP from a model server, without a
timeout. No exception is caught anywhere, so each one ends the process.

### The parts of OpenSSL

| part | source | state | operations |
|---|---|---|---|
| QUIC flow control | `quic_fc.c`, and its users in `quic_txp.c`, `quic_rx_depack.c`, `quic_fifd.c` | watermarks and windows per stream and connection, at both ends | send, receive, read, grant credit, reset, lose |
| QUIC integer sets | `uint_set.c` | a list of ranges | insert, remove, query |
| QUIC send buffer | `quic_sstream.c`, `ring_buf.h` | ring of bytes, sets of new and acknowledged bytes, FIN | append, conclude, resize, send a chunk, chunk acknowledged or lost |
| QUIC stream map | `quic_stream_map.c`, with `quic_impl.c`, `quic_txp.c`, `quic_fifd.c` | send and receive state of a stream, what is due, flush counter | write, conclude, both in one call, also with no data, reset, read, free, shut down; packets sent, received, acknowledged, lost |
| DTLS record layer, reading | `dtls_meth.c`, `pqueue.c` | epoch, window bitmap, queue of the next epoch, bytes of the last layer | a record from the wire, from those bytes or from the queue, a new record layer |
| BIO pair | `bss_bio.c` | two ring buffers, requests, closed flags | pair, write, read, the same without copying, reset, shut down, resize |
| secure heap | `mem_sec.c` | bit tables, free lists, bytes in use | allocate, free |
| RCU lock | `threads_pthread.c`, `rcu.h` | quiescent points, ids, callbacks | read lock and unlock, write lock, assign, call, synchronize |

The QUIC parts are layers of one connection: the application appends to a send
buffer, whose sets are integer sets; the packetiser asks the stream map which
stream is active and flow control how much may go; the acknowledgement manager
tells the send buffer and the stream map what arrived. Each layer has a module
that keeps only what the others contribute to it. The rest is independent.

### What is hard here

* A scan of a large tree takes hours, one request per file, while the tree is a
  working copy. `os.walk` lists folders lazily, so its frontier is stale by the
  time it is used, and a folder that has vanished or cannot be listed is skipped
  without a word, while a vanished file raises.
* `scan_folder` calls itself for every subfolder (`run.py:201-202`) and drops
  the generator. Whether files come once, twice or not at all depends on it.
* A file is read twice, once for the neighbours and once for the prompt.
* Ingestion is read – embed – write with no lock, and is repeated by hand after a
  failure. A small store returns fewer neighbours than asked for.
* The answer of the model is free text, searched for names that contain each
  other; the second expression has no group although `group(1)` is taken.
* QUIC frames come late, twice, out of order or not at all. Each kind of frame has
  its own way of being sent again, decided in a callback long after the sending,
  when the stream may have been reset, concluded or freed. A stream with something
  to send must be in the active list, and every call has to see to that itself.
* Credit is charged at both ends from different frames, and the two sums must
  never disagree in the wrong direction; the windows must not lock each other.
* A RCU reader takes its hold in three steps that a writer may fall between, and
  writers wait on two condition variables for points and for their turn.
* DTLS windows, rings and buddy blocks are arithmetic on positions that wrap.

`PROJECT.json` lists each hazard with its line and the properties about it.

## Modules

| module | models | proved about in |
|---|---|---|
| `Labels` | category names, the search in an answer, `early_stop`, the fix-up | |
| `FileTree` | the files and folders, as other programs change them (external) | |
| `SampleStore` | what readers rely on from the collection | |
| `CodeSamples` | overlapping runs of `vecstore.py`; implements `SampleStore` | `CodeSamplesProofs` |
| `Scan` | `scan_folder` with all it calls, over `FileTree`, `SampleStore` and `Labels` | `ScanProofs` |
| `Evaluate` | `evaluate.py`, composed with `Scan` | `ScanProofs` |
| `ToolCalls` | both versions of the question to the model, over `Labels` | `ScanProofs` |
| `VulnChecker` | `vuln_checker.py` and the changing database | `VulnCheckerProofs` |
| `Sums` | the sum of a finite list of numbers | `QuicFlowProofs` |
| `QuicCredit` | what flow control promises: credit granted and spent | `QuicFlowProofs` |
| `QuicFlow` | flow control at both ends; implements `QuicCredit` | `QuicFlowProofs` |
| `UintSet` | the integer sets, as operators | `QuicSStreamProofs` |
| `QuicSStream` | the send buffer, over `UintSet` | `QuicSStreamProofs` |
| `QuicStreams` | one bidirectional stream at both ends | `QuicStreamsProofs` |
| `DtlsReplay` | the reading side of the DTLS record layer | `TransportProofs` |
| `BioChannel` | what a BIO pair promises: two bounded queues | `TransportProofs` |
| `BioPair` | the BIO pair; implements `BioChannel` | `TransportProofs` |
| `SecureHeap` | the buddy allocator | `MemoryProofs` |
| `Rcu` | the read-copy-update lock and its users | `MemoryProofs` |

The `MC…` modules and the `.cfg` files give the constants for TLC. `MCBuffers` holds
the secure heap, the BIO pair and the DTLS record layer, which know nothing of each
other: in each state at most one of them has left its initial state. Of the pair, only
end 1 writes there (`OneWay`): the two directions are alike and share nothing but the
pairing and the record of the last call, and the theorem is about both. `MCClassify`
holds `Scan`, of one file, and `ToolCalls` in the same way. Operators that differ from
a neighbour in one respect, which their comment names, are faulty variants of it, kept
to show that the properties notice them.

### Correspondence with the code

**Labels.** A text is a sequence of fragments cut at the places where a category
name may begin or end; `Search` is Python's leftmost, first-alternative search.
`Verdict` is lines 69–79 of `run.py` including the `IndexError` that `group(1)`
would raise. `early_stop` works on the set of categories, which is all it looks
at.

**CodeSamples.** Each run has a program counter: `start` (arguments taken, file
not read), `embed` (file read, request pending), `upsert` (embedding there, not
written), `stored`, `raised`. `ReadSample`, `Embed` and `Commit` are the three
effects, `Fail` is every exception and a kill, `Rerun` is the next command,
`EditSample` is somebody's editor. The digest is an injective function.
chromadb's upsert is one step, as its transaction promises; that is the one
assumption about the library, besides its query.

**Scan.** `phase` says where the generator is: `walk` (in `os.walk` or between
two files), `query` (text read, neighbours not yet asked for), `ask` (neighbours
disagree, file not yet read again), `llm` (request pending), `yield`, and the
two ends `done` and `raised`. `frontier` are the folders `os.walk` has listed and
not visited, `listing` the files left of the current folder. `VisitFolder` lists
a folder at the moment it is visited; the dropped recursive call changes nothing
and appears only in `VisitFolderAndRecurse`. `SkipFolder` is an error of the listing,
which `os.walk` swallows when it is given no `onerror`: the folder is gone, or it is
there and cannot be listed (no permission, no file descriptor, an I/O error); the
latter are kept in `unlisted`, and the properties about completeness make an exception
of the files below them. `Query` returns the neighbours by
distance, with ties in any order and fewer than `NResults` of them in a small
store, and applies `early_stop`. Links to folders are listed but not followed by
`os.walk`, so a node of the tree is a path without links. `visited` and `steady`
are history: the folders taken from the frontier and the paths that have existed
since the scan began; `unlisted` is history too.

**Evaluate.** `Iterate` is a yield of the generator together with the loop body,
which runs before the generator is resumed. `PrintReport` is everything after
the loop, with the matrix as the code counts it.

**ToolCalls.** The response is generated call by call and fragment by fragment,
then used as a whole. The loop over the calls returns from its first iteration,
so `CallTool` is about the first call only; `Renamed` is the rewriting of
`description`, `Accepts` the signature of `identify_algorithm`.

**VulnChecker.** `phase` follows the program: `package` (the loop over the working
set), `query`, `vuln` (the loop of the generator), `ask`, `report` (the loop body
of the consumer, which runs before the generator is resumed). The file uses
`requests`, `Client` and `options` and binds none of them, so as it stands every
check of a package ends with a `NameError` at its first request. The set
`globals` of bound names is chosen at the start, the empty set of the file as it
stands among the others; each request needs its names. `asked`, `confirmed` and
`steady` are history.

**QuicFlow.** The streams are unidirectional; controller 0 is the connection's.
`txfc` and `rxfc` are the fields of `QUIC_TXFC` and `QUIC_RXFC`. `SendPacket` is a
packet with new bytes of any of the streams, planned together as
`txp_generate_stream_related` does, and `Retransmit` a lost chunk, which costs no
credit. `RxStream` and `RxReset` are `on_rx_stream_frame` at the stream and the
connection; `Read` is the application's read with `on_retire` at both. The clock
only decides whether a window doubles, so `faster` is a free choice. Frames stay
in `net`: they may arrive late and again; `Lose` is loss together with `on_lost`.

**UintSet, QuicSStream.** The list operations keep the case distinction of the C
code (append, cover all, contained, overlap, gap). In `QuicSStream` a byte is its
offset, `cell` says which byte each place of the ring holds, and offsets wrap at
`U64`, which the chunk of an empty stream's FIN does in the code. What is popped may
be overwritten (`Cleansed`), as `ring_buf_cpop_range` does on request. `inflight` are
the chunks the packetiser took and nobody has reported on.

**QuicStreams.** `qs[e]` is end e's `QUIC_STREAM`, its data reduced to one chunk and
the FIN. A call of the application is one action including the `update_state` that
ends it; `Tick` is a packet for an active stream; `Receive` takes the frames of a
packet in the order the depacketiser does; `Acked` and `Lost` are the callbacks of
`quic_fifd.c`, with the early exit for a stream without a send buffer. `Write` with
`concluding` is a write with `SSL_WRITE_FLAG_CONCLUDE`, whose FIN is set after
`update_state`, in the same call as the data that made the stream active.
`EmptyWrite` is such a write of no bytes: it sets the FIN without the checks of a
write, without giving the stream a send part and without `update_state`. Until
another call or callback updates the stream, the FIN is due and the stream may not
be active; `silent` is history and marks that time. `RefusedCall` is a later call on
such a stream, which gets its send part before the checks refuse the call. A packet
declared lost may still arrive. `crashed` marks the ends whose application wrote
to a stream after its send buffer had been freed (`quic_impl.c:2512`).

**DtlsReplay.** `map` is the set of the shifts whose bits are set. `genuine` is
whether a record will pass authentication. `process` is one turn of
`dtls_get_more_records`; `NewRecordLayer` is the hand-over of what the old layer has
left: first the bytes in its buffer, which are up to `MaxLeft` records of any kind
(`GetLeft`), then the records kept for the next epoch, read in the order of their
numbers (`GetBuffered`). A record that ends the connection with a fatal alert
is dropped here, so that the model also goes on where the code has stopped.
The transport is UDP: over SCTP, the code checks no window.

**SecureHeap.** An address is a unit of `minsize`. Each call holds
`sec_malloc_lock`, so it is one step. `dirty` are the units that are not all zero,
list pointers included. `halve` and `join` are one turn of the loops of `sh_malloc`
and `sh_free`; `split` and `coalesce` run them to the end, as recursive functions.
Assertions that fail clear `asserts` and the call goes on: those about the bit
tables, list numbers and alignment. The assertions about the pointers of a list
(`mem_sec.c:398-407`, 426, 662, 671, 678, 734) are left out, since a free list is a
sequence here and has no pointers to go wrong. The first unit of a block stands for
the list header in it, which `sh_malloc` clears.

**BioPair.** `b[e]` is `bio_bio_st` of end e, with the bytes in its buffer. `io` is the
last call: the bytes it was given or returned and their number, so that the
specification of the channel can say which bytes a write puts and a read gets.
`Written`, `Returned` and `After` are the loops of one or two pieces of `bio_write`
and `bio_read`; `bio_nread` and `bio_nwrite` have one piece, and their caller uses the
region they hand out before any other call. `MakePairFails` is a second allocation
that fails: the first end keeps its buffer and nothing is paired.

**Rcu.** Each step is one access to shared memory or one critical section of a mutex.
The count of readers at a point is the set of the readers counted. A version of the
data is a number; `held` are the versions a reader has obtained inside its hold.
`CallAndUnlock` registers a callback under the write lock, as every caller in the
repository does; the lock-free push of `ossl_rcu_call` by a thread without the lock is
not modelled. `owed` is history: the readers a synchronization must outlast.

## Runs

| run | what it asks | bounds and why |
|---|---|---|
| `classify` | the stored category of a file's own text prevails; the model is asked only on dissent; what is made of its answer (`TextVerdict`: no `IndexError`, own names recognised, both versions agree); later words ignored | 5 texts on a line with ties, `n_results` = 4, so that a sample can be left out; stores of every size, both categories. Answers of up to 4 fragments out of 9: the longest name has 4, and names contained in others, two names in a row and prose around a name all occur; or up to 2 calls with six sets of arguments |
| `evaluate` | no file twice, none overlooked, the accuracy over the whole folder; the evaluation ends | four folders two deep with a sibling, a file at the end of each branch, a content that decodes and one that does not; anything may be created, removed or edited, and any folder unlistable, at any point |
| `evaluate_matrix` (violation) | a wrong label shows in the confusion matrix | the same |
| `code_samples` | records consistent, nothing lost, retries idempotent, refinement | two runs, two texts, two categories: enough for two writers of one id and for an edit between two steps |
| `vuln_checker` | what is printed was confirmed; nothing is skipped; the check ends | two packages, two vulnerabilities, one of them shared and one known under the other ecosystem only; a record that lists versions for both packages and one without versions for the second |
| `QuicFlow` | correct ends never accuse each other; watermarks keep their order and the connection's are the sums; refinement of `QuicCredit`; every byte is read | two streams of two bytes, windows of one byte that may double, two losses: each stream and the connection run out of credit in turn, and one stream may be reset |
| `QuicSStream` | the range lists are exact; each byte is new, in flight or acknowledged; what is not acknowledged is held; a concluded stream is acknowledged | six bytes in rings of three and six, so that the ring wraps and is resized with bytes on both sides of its end; two losses |
| `QuicStreams` | nothing due is forgotten, and the assertions hold, but for the FIN of a write of nothing; the ends agree how a direction ended; shutdown gets past the flush | one application makes every call, the other reads and frees; one packet declared lost, really or too early |
| `QuicStreamsReset` (violation) | a reset reaches the peer | one stream, one loss |
| `QuicStreamsFreed` (violation) | a freed stream that was not reset has a final size | one stream that is written to, concluded and freed |
| `Buffers` | the heap tiles its arena, refuses only when full, hands out zeroes; the pair is two queues; no record twice, none in the window refused, the bitmap exact | eight units, so blocks of four sizes. Buffers of one and three bytes, so that a write and a read come in two pieces and `bio_nwrite` and `bio_nread` are cut at the end of the ring. Numbers 0 to 5 with a window of two, so that jumps fall short of, on and past its edge, also past the point where the difference saturates; two epochs; a queue of two; one record left in the old layer |
| `Rcu` | nothing in use is released, and each version once; the grace period; synchronizations return | one reader that nests, three writers of a lock made for two, so one may wait for a point; three synchronizations; ids that wrap |

`ToolCalls` stops when the function has returned, and the QUIC and RCU models when
all has been sent, read and synchronized, so these runs do not check for deadlock;
their liveness properties say what must have been reached. In the other runs the
environment can always act.

### Where the code and its words disagree

Three have a run that shows them:

* `QuicStreamsReset`: resetting a stream frees its send buffer, and `on_lost` skips
  every chunk of a stream without one (`quic_fifd.c:141`), so that a lost
  RESET_STREAM is not generated again, although `quic-fifm.md:42` says it is.
* `QuicStreamsFreed`: a write of no bytes with `SSL_WRITE_FLAG_CONCLUDE`
  (`quic_impl.c:2578`, 2192) on a stream that has not been written to sets the FIN and
  leaves the send part in READY. `SSL_free` then finds a FIN and does not reset the
  stream, and in READY a stream has no final size, so the assertion of
  `qsm_ready_for_gc` (`quic_stream_map.c:300`) fails, against the comment above it.
* `evaluate_matrix`: `evaluate.py:20` announces a confusion matrix of the categories;
  line 28 pairs right and wrong entries of one file, which do not exist, so a file
  with a wrong label appears nowhere and the matrix is all zeros.

Others met while modelling are recorded here only:

* The same early exit skips a lost MAX_STREAM_DATA of a receive-only stream;
  `AllRead` makes that exception by name, and fails without it.
* A stream that is reset keeps the connection's credit for what was not read;
  `AllRead` makes that exception too.
* `uint_set.c:48` says that no two ranges of a list border one another. Inserting
  [2,4] into [0,1],[4,4] leaves [0,1],[2,4]; the integers are right all the same.
* The loop of `ossl_quic_stream_map_gc` (`quic_stream_map.c:786`) never runs its
  body, since it stops when it is at the head of the list, where it begins.
* A write to a stream that was concluded and acknowledged uses the send buffer
  after it was freed (`quic_impl.c:2512`); the model keeps it as `crashed`.
* The prompt offers `CAMELLIA`, `CHACHA20` and `NO_CRYPTO` (`run.py:45-53`), the enum
  has `Camellia`, `ChaCha` and `NOCRYPTO`; such answers pass through unrecognised.
* The FIN of a write of no bytes is also forgotten for a while: nothing puts the
  stream into the active list until another call or callback does, and `SSL_shutdown`
  may wait for it. `DueIsActive` and `FlushFinishes` make that exception by name
  (`silent`), and fail without it.
* A label found by the model never counts as right, because of its prefix, unless a
  folder's name has it.
* The count of readers of a RCU point has 16 bits and is not checked; the model
  has fewer readers than that.

### Fairness

`EvaluationEnds` assumes weak fairness of the program's own steps: the process is
scheduled, and a request is answered or its connection breaks. The clients have
no timeout, so a server that accepts a request and never answers is excluded by
assumption, not by the code. Nothing is assumed of other programs, which may
change tree and store for ever. `CheckEnds` assumes the same of the check and nothing
of the database.

`AllRead` and `FlushFinishes` assume that the event loops run: while something can
be sent, delivered (for the first time) or acknowledged, or, in `QuicFlow`, read,
some such step happens. Which one is free. Losses are bounded, as a network that
loses everything delivers nothing. For the large instance of `QuicStreams` the
same weak fairness is written out (`FairSpecOut`), so that TLC need not evaluate
ENABLED. `EventuallyAcked` assumes that pending chunks are sent and that each chunk
in flight meets its fate.

`SyncsReturn` assumes that every thread is scheduled, and that a reader leaves its
outermost hold at last: it may nest again any number of times before, hence strong
fairness of the last unlock. Nobody is assumed to lock, write or synchronize.

## Proofs

All constants are arbitrary: any number of runs, texts, categories, folders, files,
answers, any `n_results` ≥ 1, any window, queue limit, last epoch and number of
records left over, any number of streams of any length, of packets lost and of
quiescent points, buffers of any size and a heap of any number of levels. The
assumptions are

* `SampleAssumption`, `RecordAssumption`: the digest has no collisions, and the
  markers for "nothing" are not values;
* `TreeAssumption`: `Above` is the chain of folders that `Parent` describes;
* `StoreAssumption`, `ScanAssumption`: distances are zero exactly for equal
  texts, there are finitely many texts, the query asks for at least one, a
  category is a text;
* `ToolCallsAssumption`: what stands for the exception is no answer of the model;
* `DirNameAssumption`: a folder's name is a text;
* `DtlsReplayAssumption`, `QuicFlowAssumption`: the bounds are numbers and the
  windows are not empty;
* `QuicSStreamAssumption`: a ring has at least one byte, and the largest
  offset is above zero;
* `QuicStreamsAssumption`: each application makes some of the calls there are;
* `RcuAssumption`: there are at least two quiescent points, and at least as many ids
  as points;
* `BioPairAssumption`: buffer sizes are positive, and there is a largest one, as a
  `size_t` has;
* `SecureHeapAssumption`: the number of halvings from the arena to the smallest block
  is a natural number.

**`CodeSamplesProofs`.** `SelfDescribing` and `NeverLost` are not inductive: they
need that a run at `upsert` holds the embedding of the text it holds. With that
(`Held`) and the types, `Inv` is inductive, and gives `TypeCorrect`,
`SelfDescription` and `Durability`. `Idempotence` follows since the record found
under a digest has the same text (no collisions) and hence the same embedding, so
that with the same category the new record equals the old one. `Refinement` shows
that `Commit` is an upsert of the abstract store and every other step a stutter.

**`ScanProofs`.** `ReportedOnce` needs `WalkDiscipline`: folders are reached once and
through a visited parent, so the files of a folder that is visited now cannot have
been yielded. The argument for a new folder is `FolderIsNew`. `CompleteScan` needs
`NothingOverlooked`, and this needs `SteadyPresent`: a file that stayed has all its
folders, so the folder through which it is reachable is skipped only if it could not
be listed, and visiting it brings either the file into the listing or the next folder
on its path into the frontier. `StepKinds` sorts the steps into the four that move
files along and the rest (`Aside`). `OwnSampleDecides` rests on `OwnNeighbour`: a
stored text is among its own neighbours, because something is returned and nothing
else is at distance zero. `TypeCorrect`, `NoDuplicates`, `Discipline`, `Reach`,
`Completeness` and `DissentOnly` (samples that agree, however few, settle the
category) complete the list.

The second half is about `Evaluate`, whose steps are steps of the scan
(`EvalStepScans`), so that all of the above holds of it. `AccuracyComplete` needs
`Tally`: the counters are the numbers of rights and wrongs, and these list what was
yielded, each file in one of them. With `NoDuplicates` and `Completeness` the
accuracy is then over the files that were there all along, in folders that could be
listed, each counted once.

The last part is about `ToolCalls` and rests on laws of the two operations on texts.
`SearchResult`: a search returns the leftmost match, or
None if there is none. `Stripped` and `StripSearch`: what str.strip takes off holds no
part of a category. `OneHere`: no category begins another, so there is at most one at
a place, which is why the order of the alternatives does not matter (`OwnName`).
`ShaFound`: every spelling of the second expression contains a match of the first.
`VerdictsRight` and `LeftmostKept` follow for answers of any length.

**`VulnCheckerProofs`.** `NoneSkipped` needs `NothingForgotten`: a vulnerability
that stays listed has been asked about or is still ahead, with its package, in
the list fetched for it, or as the one in work. `ReportedAsConfirmed` needs that
what the generator has just yielded is confirmed. Both hold for any database
that changes in any way.

**`TransportProofs`.** `ReplayImpossible`, that no record is accepted twice, needs that the
bitmap tells the truth, and that needs the window to move exactly with the newest
record: `IInv` joins the types, `NoReplay` and `BitmapExact`. `PassedIsFresh` says
that what the check lets through was never accepted: it is newer than everything,
or its bit is clear. `UpdateExact` says that the update keeps the bitmap true for
each of the three cases (past the window, ahead within it, behind the newest).
`FreshIsAccepted` is the converse: nothing fresh in the window is refused. They hold
whatever the network delivers and whoever forges.

The second half is about the BIO pair. `PairIsChannel`, that it implements the two
queues of `BioChannel`, needs `PairInv`: at each end the offset is a place of the
buffer and the content fits it, the buffer has all its places while the ends are
paired, and the ring is empty before. Copying one piece that does not cross the end of
the buffer fills the places behind the content (`NewPlaces`) and leaves the others
alone (`OldPlaces`), so that the content is what it was and then the piece
(`CopiedAt`, `AppendedContent`). `ConsumedContent` is the same for a piece taken away,
with the offset back at 0 when the ring is empty, and `PieceIsFront` says that the
piece returned is the front of the content. The loops put two pieces together:
`CutInTwo` and `WrittenEnd` show that both pieces of a write, the second from where
the first ended, are the string given; `BehindPart` and `AfterEnd` that both pieces of
a read are the front of the content. Each operation has a lemma that it keeps
`PairInv` and puts, gets, closes or changes nothing that the queues show (`Seen`,
`Unseen`).

**`QuicFlowProofs`.** `NoProtocolError` is about the receiver, `Watermarks` about both
ends, and neither is inductive. `IInv` adds what ties the ends together: a frame
under way ends within what was sent and grants no more than was granted
(`FramesTrue`); a stream's receiver has charged exactly the highest offset it has
seen, which is what was sent once it is final (`StreamMarks`); nobody spends more
than was granted (`Granting`); and the connection's marks are the sums over the
streams (`ConnMarks`). The sums are a recursive function, whose existence and laws
(`SumsExist` to `SumGrows`) are shown by induction through the least counterexample.
The two steps that are hard to see in the code are lemmas of their own:
`PacketWithinCredit`, that streams planned one after the other stay within the
connection's credit together, and `FrameReceived`, that what a frame adds to its
stream is what it adds to the connection. `CreditImplemented` follows from `IInv`
with one lemma (`CreditStep`): every step spends, grants or stutters.

**`QuicStreamsProofs`.** `IInv` has `Halves`, what holds of a stream at one end between
two calls (a sending half without a buffer is finished, what is due is active but for
a FIN that a write of nothing has set and no `update_state` has seen, `silent`), and
`Directions`, what the ends know of each other: a packet carries what its sender holds
or held, the receiver knows no more than was sent, and what was acknowledged was
processed. A handler is a chain of small updates, so each helper of the code has a
lemma (`UpdateState`, `ResetSendPart`, `StopSending` and so on) that says how far it
moves the halves forward, and `Replace` says that moving forward keeps `IInv`.
`EmptyWriteKeeps` is the one call without `update_state`; `FinBeforeSendPart` names the
only state in which the assertions may fail. `NothingForgotten`, `NoAssertionFails` and
`Agreement` follow from `IInv`.

**`QuicSStreamProofs`.** First the laws of the integer sets. Every path of `insert`
replaces neighbouring ranges of the list by one that fits between the rest
(`SpliceExact`; `InsertedLast`, `InsertedOver`, `InsertedGap`), so the result is exact
(`InsertExact`); `remove` joins what is left of each range (`CutExact`, `JoinedExact`,
`RemoveExact`), where the joined list is shown to exist by induction through the least
counterexample (`Flattened`); `query` finds what is there (`QueryExact`). Then the
buffer. `IInv` has `Lists`, both lists in order and the ranges of the acknowledged one
never bordering on each other, which is why one comparison of its first range decides
`is_totally_acked` (`OneRangeLeft`); `Chunks`, the chunks handed out lie within what
was written; `States`, each byte is new, acknowledged or in one chunk; and `Held`, the
ring holds every byte from its tail on. `StatesMove` says that a handler which moves
one chunk between the three states keeps them apart, `TailMoves` that culling stops
before the first byte not acknowledged, `CleansedHeld` that overwriting what was
culled, wrapped or not, touches no byte from the new tail on, and `OnePlace` that no
more bytes than the ring has room for have places of their own, which is what a write,
a wrap and a change of size rely on. The FIN of an empty stream, whose chunk ends at
offset 0 - 1 and so, unsigned, covers all offsets (`Empty`, `Whole`), is a case of its
own throughout.

**`MemoryProofs`.** That nothing in use is released follows from the grace period, and
this from the order in which points and ids go round. `Ring` says that the live
synchronizations have points of their own, none of them the current one, and that
the age of a point is the age of its id, both counted modulo different numbers.
`Counted` says at which point a reader is counted, `Outlasted` that a reader owed is
at a point at least as old, `Versions` that a version is current, replaced, asked
for, taken and released in this order, `Protected` that who uses a version taken is
owed. `RetireInOrderKeeps` is the heart: whose turn it is has the oldest point, and
nobody is counted there, so nobody is owed.

The second half is about the secure heap. None of the properties is inductive: that the
blocks tile the arena says nothing of the free lists, and what is refused depends on
how far what came back was joined. `HeapInv` says that there are blocks `T`, of which
`M` are handed out, such that `bittable` and `bitmalloc` are their bits and the free
lists hold the others, each once (`Shape`); `T` is a tiling (`Tiles`); in a free block
only the unit with its list's pointers is dirty (`Clean`); no two free blocks are
buddies (`NoTwins`); and callers and `M` correspond, `used` being the units of `M`.
The argument has four layers. Arithmetic: powers of two, the node of each bit
(`NodesDiffer`), halves, doubles and buddies (`SplitNode`, `JoinNode`, `BuddyBits`), and
that blocks which share a unit are nested (`Nested`). Tilings: splitting and joining
keep them (`TilesHalved`, `TilesJoined`). The operations on the record: `BlockAdded`,
`BlockDropped`, `BuddyFound`, `ListFound` say what each does to `Shape`, and that no
assertion fails. The loops, by induction over their turns: while `sh_malloc` splits,
the only free buddies are the first block of the current list and its other half
(`Splitting`), one of which is then handed out; while `sh_free` joins, they are the
block in hand and its buddy (`Joining`), and at the whole arena, or where there is
no free buddy, none are left. `HeapTiled` and `HeapZeroed` can be read off `HeapInv`.
`HeapRefuses` needs `FreeRegion`: if an aligned region had no unit handed out and no
free block as large, the smallest free block in it would have a free buddy of the
same size, since what covers the buddy can be neither smaller nor larger.

Only model-checked: `EvaluationEnds`, `CheckEnds`, `AllRead`,
`EventuallyAcked`, `FlushFinishes` and `SyncsReturn`, which are liveness under fairness
and out of the prover's reach. Every other property of the passing runs is a theorem.

## Not modelled, and the plan

Of the scanner: the sample files; the wording of prompts and printed lines; the
numeric embeddings (an arbitrary function and an arbitrary distance); the
commented-out code at the end of `run.py`; the helpers of `Doc`, since nothing
constructs one.

Of OpenSSL and cryptography: nearly all lines. Most are tables (curve points,
object identifiers), ciphers, field and big-number arithmetic, whose correctness is
about numbers of hundreds of bits; parsers and printers of ASN.1 and X.509; command
line applications; bindings and tests. That code is sequential and keeps no state
that an exploration of interleavings or call sequences would exercise, so a model
of it would only repeat it. Within the parts that are modelled: weak memory (the
accesses of the RCU lock are taken as sequentially consistent), the parsing of
headers, the accept queue and the rotation among several streams, the clock of
window growth, the SCTP transport of DTLS, callbacks registered with `ossl_rcu_call`
by a thread without the write lock, and the list pointers, mapping and guard pages of
the secure heap.

Next, in this order:

1. The QUIC acknowledgement manager (`quic_ackm.c`), which `QuicSStream` and
   `QuicStreams` take as arbitrary reports, and their composition with it.
2. The TLS message state machine (`statem.c`), the thread pool
   (`crypto/thread/`) and the property caches.
