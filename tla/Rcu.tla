-------------------------------- MODULE Rcu ---------------------------------
(***************************************************************************)
(* The read-copy-update lock of openssl-master/crypto/threads_pthread.c    *)
(* and the writers and readers of one pointer it protects, each step one   *)
(* access to shared memory or one critical section of a mutex.             *)
(*                                                                         *)
(* The count of readers of a quiescent point (qp) is kept as the set of    *)
(* the readers counted, each of which counts once; the memory orders the   *)
(* code asks for are taken to make the accesses sequentially consistent.   *)
(* A version of the data is a number.  Local variables that are no longer  *)
(* used go back to their first value.                                      *)
(***************************************************************************)
EXTENDS Integers, FiniteSets

CONSTANTS
  Readers, Writers,
  group_count,   \* qps of the lock: num_writers + 1
  IdMod,         \* ids wrap here, at 2^32
  MaxDepth,      \* bound: nested read locks of a reader
  MaxVersion,    \* bound: updates of the pointer
  MaxSyncs       \* bound: calls of ossl_synchronize_rcu

NoOne == "none"

ASSUME RcuAssumption ==
  /\ NoOne \notin Writers
  /\ group_count \in Nat \ {0, 1} /\ IdMod \in Nat /\ IdMod >= group_count
  /\ MaxDepth \in Nat \ {0} /\ MaxVersion \in Nat /\ MaxSyncs \in Nat

QPs == 0..(group_count - 1)

VARIABLES
  users,               \* the readers counted in each qp
  qp_id,               \* the id half of each qp's users word
  reader_idx, current_alloc_idx, writers_alloced, id_ctr, next_to_retire,
  write_lock,          \* the writer that holds it, or NoOne
  cb_items,            \* versions whose release was asked of ossl_rcu_call
  ptr,                 \* the version the protected pointer leads to
  freed,               \* versions released
  rpc, qp_idx, depth, held,        \* of each reader
  wpc, old, qp, count_id, mine,    \* of each writer
  owed,                \* readers inside when the writer's synchronize began,
                       \* and since (history)
  nsyncs

lockVars == <<users, qp_id, reader_idx, current_alloc_idx, writers_alloced,
              id_ctr, next_to_retire, write_lock, cb_items>>
readerVars == <<rpc, qp_idx, depth, held>>
writerVars == <<wpc, old, qp, count_id, mine, nsyncs>>
vars == <<lockVars, readerVars, writerVars, ptr, freed, owed>>

\* ossl_rcu_lock_new
Init ==
  /\ users = [q \in QPs |-> {}] /\ qp_id = [q \in QPs |-> 0]
  /\ reader_idx = 0 /\ current_alloc_idx = 0 /\ writers_alloced = 0
  /\ id_ctr = 0 /\ next_to_retire = 0
  /\ write_lock = NoOne /\ cb_items = {}
  /\ ptr = 0 /\ freed = {}
  /\ rpc = [r \in Readers |-> "idle"] /\ qp_idx = [r \in Readers |-> 0]
  /\ depth = [r \in Readers |-> 0] /\ held = [r \in Readers |-> {}]
  /\ wpc = [w \in Writers |-> "idle"] /\ old = [w \in Writers |-> 0]
  /\ qp = [w \in Writers |-> 0] /\ count_id = [w \in Writers |-> 0]
  /\ mine = [w \in Writers |-> {}] /\ owed = [w \in Writers |-> {}]
  /\ nsyncs = 0

-----------------------------------------------------------------------------
(* Readers: get_hold_current_qp step by step.                              *)

LoadIdx(r) ==
  /\ rpc[r] \in {"idle", "retry"}
  /\ qp_idx' = [qp_idx EXCEPT ![r] = reader_idx]
  /\ rpc' = [rpc EXCEPT ![r] = "loaded"]
  /\ UNCHANGED <<lockVars, writerVars, depth, held, ptr, freed, owed>>

AddReader(r) ==
  /\ rpc[r] = "loaded"
  /\ users' = [users EXCEPT ![qp_idx[r]] = @ \cup {r}]
  /\ rpc' = [rpc EXCEPT ![r] = "added"]
  /\ UNCHANGED <<qp_id, reader_idx, current_alloc_idx, writers_alloced, id_ctr,
                 next_to_retire, write_lock, cb_items, qp_idx, depth, held,
                 writerVars, ptr, freed, owed>>

\* mutant: the index is not read a second time
idx_unchanged_assumed(r) == TRUE

idx_unchanged(r) == qp_idx[r] = reader_idx

CheckIdx(r) ==
  /\ rpc[r] = "added"
  /\ rpc' = [rpc EXCEPT ![r] = IF idx_unchanged(r) THEN "inside" ELSE "undo"]
  /\ depth' = [depth EXCEPT ![r] = IF idx_unchanged(r) THEN 1 ELSE 0]
  /\ UNCHANGED <<lockVars, writerVars, qp_idx, held, ptr, freed, owed>>

\* r is counted no more in the qp it was counted in.
SubReader(r) ==
  /\ users' = [users EXCEPT ![qp_idx[r]] = @ \ {r}]
  /\ UNCHANGED <<qp_id, reader_idx, current_alloc_idx, writers_alloced, id_ctr,
                 next_to_retire, write_lock, cb_items>>

UndoAdd(r) ==
  /\ rpc[r] = "undo"
  /\ SubReader(r)
  /\ rpc' = [rpc EXCEPT ![r] = "retry"]
  /\ UNCHANGED <<writerVars, qp_idx, depth, held, ptr, freed, owed>>

\* A thread that has the lock already only goes one deeper.
ReadLockNested(r) ==
  /\ rpc[r] = "inside" /\ depth[r] < MaxDepth
  /\ depth' = [depth EXCEPT ![r] = @ + 1]
  /\ UNCHANGED <<lockVars, writerVars, rpc, qp_idx, held, ptr, freed, owed>>

\* ossl_rcu_deref; the reader may use what it got until it unlocks.
Deref(r) ==
  /\ rpc[r] = "inside"
  /\ held' = [held EXCEPT ![r] = @ \cup {ptr}]
  /\ UNCHANGED <<lockVars, writerVars, rpc, qp_idx, depth, ptr, freed, owed>>

ReadUnlock(r) ==
  /\ rpc[r] = "inside"
  /\ depth' = [depth EXCEPT ![r] = @ - 1]
  /\ IF depth[r] = 1
     THEN /\ SubReader(r)
          /\ rpc' = [rpc EXCEPT ![r] = "idle"]
          /\ qp_idx' = [qp_idx EXCEPT ![r] = 0]
          /\ held' = [held EXCEPT ![r] = {}]
          /\ owed' = [w \in Writers |-> owed[w] \ {r}]
     ELSE UNCHANGED <<lockVars, rpc, qp_idx, held, owed>>
  /\ UNCHANGED <<writerVars, ptr, freed>>

-----------------------------------------------------------------------------
(* Writers.                                                                *)

Goto(w, pc) == wpc' = [wpc EXCEPT ![w] = pc]

WriteLock(w) ==
  /\ wpc[w] = "idle" /\ write_lock = NoOne /\ ptr < MaxVersion
  /\ write_lock' = w /\ Goto(w, "locked")
  /\ UNCHANGED <<users, qp_id, reader_idx, current_alloc_idx, writers_alloced,
                 id_ctr, next_to_retire, cb_items, readerVars, old, qp, count_id,
                 mine, nsyncs, ptr, freed, owed>>

\* ossl_rcu_assign_ptr
Assign(w) ==
  /\ wpc[w] = "locked"
  /\ old' = [old EXCEPT ![w] = ptr]
  /\ ptr' = ptr + 1
  /\ Goto(w, "assigned")
  /\ UNCHANGED <<lockVars, readerVars, qp, count_id, mine, nsyncs, freed, owed>>

\* ossl_rcu_call and ossl_rcu_write_unlock.  All callers (hashtable.c and
\* threadstest.c) hold the write lock, so that nobody takes the list between the
\* exchange that pushes the item and the setting of its next; a call without the
\* lock is not modelled.
CallAndUnlock(w) ==
  /\ wpc[w] = "assigned"
  /\ cb_items' = cb_items \cup {old[w]}
  /\ write_lock' = NoOne /\ Goto(w, "idle")
  /\ old' = [old EXCEPT ![w] = 0]
  /\ UNCHANGED <<users, qp_id, reader_idx, current_alloc_idx, writers_alloced,
                 id_ctr, next_to_retire, readerVars, qp, count_id, mine, nsyncs,
                 ptr, freed, owed>>

\* ossl_synchronize_rcu takes the callbacks asked for so far.
TakeCallbacks(w) ==
  /\ wpc[w] = "idle" /\ write_lock = NoOne
  /\ nsyncs < MaxSyncs /\ nsyncs' = nsyncs + 1
  /\ mine' = [mine EXCEPT ![w] = cb_items]
  /\ cb_items' = {}
  /\ owed' = [owed EXCEPT ![w] = {r \in Readers : rpc[r] = "inside"}]
  /\ Goto(w, "update")
  /\ UNCHANGED <<users, qp_id, reader_idx, current_alloc_idx, writers_alloced,
                 id_ctr, next_to_retire, write_lock, readerVars, old, qp,
                 count_id, ptr, freed>>

\* pthread_cond_signal wakes one of the threads waiting, if there is any.
Signal(waiting, pc, woken, pc1) ==
  \/ woken \in waiting /\ pc1 = [pc EXCEPT ![woken] = "update"]
  \/ waiting = {} /\ pc1 = pc

Asleep(pc) == {w \in Writers : wpc[w] = pc}

\* update_qp: the critical section of alloc_lock.
UpdateQp(w) ==
  /\ wpc[w] = "update" /\ group_count - writers_alloced >= 2
  /\ writers_alloced' = writers_alloced + 1
  /\ current_alloc_idx' = (current_alloc_idx + 1) % group_count
  /\ qp_id' = [qp_id EXCEPT ![current_alloc_idx] = id_ctr]
  /\ id_ctr' = (id_ctr + 1) % IdMod
  /\ reader_idx' = current_alloc_idx'
  /\ qp' = [qp EXCEPT ![w] = current_alloc_idx]
  /\ \E v \in Writers : Signal(Asleep("sleep_alloc"), [wpc EXCEPT ![w] = "spin"], v, wpc')
  /\ UNCHANGED <<users, next_to_retire, write_lock, cb_items, readerVars, old,
                 count_id, mine, nsyncs, ptr, freed, owed>>

SleepAlloc(w) ==
  /\ wpc[w] = "update" /\ group_count - writers_alloced < 2
  /\ Goto(w, "sleep_alloc")
  /\ UNCHANGED <<lockVars, readerVars, old, qp, count_id, mine, nsyncs, ptr, freed,
                 owed>>

\* The loop ends with a load that finds no reader; its id half is used next.
Spin(w) ==
  /\ wpc[w] = "spin" /\ users[qp[w]] = {}
  /\ count_id' = [count_id EXCEPT ![w] = qp_id[qp[w]]]
  /\ Goto(w, "prior")
  /\ UNCHANGED <<lockVars, readerVars, old, qp, mine, nsyncs, ptr, freed, owed>>

\* mutant: writers retire in any order
my_turn_any(w) == TRUE

my_turn(w) == next_to_retire = count_id[w]

\* mutant: nobody is told that it may be his turn
woken_none(pc, sleepers) == pc

\* pthread_cond_broadcast
woken_all(pc, sleepers) ==
  [v \in Writers |-> IF v \in sleepers THEN "prior" ELSE pc[v]]

\* The critical section of prior_lock.
RetireInOrder(w) ==
  /\ wpc[w] = "prior" /\ my_turn(w)
  /\ next_to_retire' = (next_to_retire + 1) % IdMod
  /\ count_id' = [count_id EXCEPT ![w] = 0]
  /\ wpc' = woken_all([wpc EXCEPT ![w] = "retire"], Asleep("sleep_prior"))
  /\ UNCHANGED <<users, qp_id, reader_idx, current_alloc_idx, writers_alloced,
                 id_ctr, write_lock, cb_items, readerVars, old, qp, mine, nsyncs,
                 ptr, freed, owed>>

SleepPrior(w) ==
  /\ wpc[w] = "prior" /\ ~my_turn(w)
  /\ Goto(w, "sleep_prior")
  /\ UNCHANGED <<lockVars, readerVars, old, qp, count_id, mine, nsyncs, ptr, freed,
                 owed>>

\* retire_qp
RetireQp(w) ==
  /\ wpc[w] = "retire"
  /\ writers_alloced' = writers_alloced - 1
  /\ qp' = [qp EXCEPT ![w] = 0]
  /\ \E v \in Writers : Signal(Asleep("sleep_alloc"), [wpc EXCEPT ![w] = "callbacks"], v, wpc')
  /\ UNCHANGED <<users, qp_id, reader_idx, current_alloc_idx, id_ctr,
                 next_to_retire, write_lock, cb_items, readerVars, old, count_id,
                 mine, nsyncs, ptr, freed, owed>>

\* Each callback releases one version, and the call returns.
RunCallbacks(w) ==
  /\ wpc[w] = "callbacks"
  /\ freed' = freed \cup mine[w]
  /\ mine' = [mine EXCEPT ![w] = {}]
  /\ owed' = [owed EXCEPT ![w] = {}]
  /\ Goto(w, "idle")
  /\ UNCHANGED <<lockVars, readerVars, old, qp, count_id, nsyncs, ptr>>

-----------------------------------------------------------------------------
ReadLocking(r) == AddReader(r) \/ CheckIdx(r) \/ UndoAdd(r) \/ (rpc[r] = "retry" /\ LoadIdx(r))
Writing(w) == Assign(w) \/ CallAndUnlock(w)
Syncing(w) ==
  \/ UpdateQp(w) \/ SleepAlloc(w) \/ Spin(w) \/ RetireInOrder(w) \/ SleepPrior(w)
  \/ RetireQp(w) \/ RunCallbacks(w)

Next ==
  \/ \E r \in Readers : LoadIdx(r) \/ AddReader(r) \/ CheckIdx(r) \/ UndoAdd(r)
                        \/ ReadLockNested(r) \/ Deref(r) \/ ReadUnlock(r)
  \/ \E w \in Writers : WriteLock(w) \/ Writing(w) \/ TakeCallbacks(w) \/ Syncing(w)

Spec == Init /\ [][Next]_vars

\* The scheduler runs every thread; a reader inside leaves at last, however often
\* it goes deeper before; nobody is made to lock or to update.
FairSpec ==
  /\ Spec
  /\ \A r \in Readers : /\ WF_vars(ReadLocking(r)) /\ WF_vars(ReadUnlock(r))
                        /\ SF_vars(ReadUnlock(r) /\ depth[r] = 1)
  /\ \A w \in Writers : WF_vars(Writing(w)) /\ WF_vars(Syncing(w))

-----------------------------------------------------------------------------
\* Nothing a reader can still use is released, through every interleaving of
\* the three steps of get_hold_current_qp with several synchronizations; and a
\* version is released by one callback only.
NoUseAfterFree ==
  /\ \A r \in Readers : held[r] \cap freed = {}
  /\ ptr \notin freed
  /\ \A w \in Writers : mine[w] \cap (freed \cup cb_items) = {}
  /\ \A v, w \in Writers : v # w => mine[v] \cap mine[w] = {}
  /\ cb_items \cap freed = {}

\* What the manual says of ossl_synchronize_rcu: it "blocks the calling thread
\* until all read side holds on the lock have been released", those of readers
\* that were inside when it was called, on whichever qp they are counted.
GracePeriod == \A w \in Writers : wpc[w] = "callbacks" => owed[w] = {}

\* Every synchronization returns: no wakeup is lost between the two condition
\* variables, and nobody waits for an id that will not come.  (There are at most
\* MaxSyncs of them, so that none is left in the end.)
SyncsReturn == []<>(\A w \in Writers : wpc[w] \in {"idle", "locked", "assigned"})

=============================================================================
