---------------------------- MODULE MemoryProofs ----------------------------
(***************************************************************************)
(* Proofs about Rcu and SecureHeap, the two parts of libcrypto that decide *)
(* when memory may be used again.                                          *)
(*                                                                         *)
(* The read-copy-update lock: nothing in use is released, and a            *)
(* synchronization outlasts the readers that were inside when it began, for *)
(* any number of readers and writers, of quiescent points, and any modulus *)
(* of the ids.                                                             *)
(*                                                                         *)
(* The secure heap: the blocks tile the arena, a request is refused only if *)
(* no aligned run of free units can hold it, and what is handed out is all *)
(* zero, for an arena of any size.                                         *)
(***************************************************************************)
EXTENDS Rcu, SecureHeap, SequenceTheorems, FiniteSetTheorems,
        WellFoundedInduction, TLAPS

-----------------------------------------------------------------------------
(* The inductive invariant of the read-copy-update lock.                   *)

WriterPCs == {"idle", "locked", "assigned", "update", "sleep_alloc", "spin",
              "prior", "sleep_prior", "retire", "callbacks"}

Types ==
  /\ users \in [QPs -> SUBSET Readers]
  /\ qp_id \in [QPs -> 0..(IdMod - 1)]
  /\ reader_idx = current_alloc_idx
  /\ current_alloc_idx \in QPs
  /\ writers_alloced \in Nat
  /\ id_ctr \in 0..(IdMod - 1) /\ next_to_retire \in 0..(IdMod - 1)
  /\ cb_items \in SUBSET Nat /\ ptr \in Nat /\ freed \in SUBSET Nat
  /\ rpc \in [Readers -> {"idle", "retry", "loaded", "added", "undo", "inside"}]
  /\ qp_idx \in [Readers -> QPs]
  /\ depth \in [Readers -> Nat]
  /\ held \in [Readers -> SUBSET Nat]
  /\ wpc \in [Writers -> WriterPCs]
  /\ old \in [Writers -> Nat]
  /\ qp \in [Writers -> QPs]
  /\ count_id \in [Writers -> 0..(IdMod - 1)]
  /\ mine \in [Writers -> SUBSET Nat]
  /\ owed \in [Writers -> SUBSET Readers]

\* How many steps it takes from a to b on a circle of m.
Gap(a, b, m) == IF a <= b THEN b - a ELSE b - a + m

\* The writers whose synchronization has a qp and an id that is not retired.
Live(w) == wpc[w] \in {"spin", "prior", "sleep_prior"}
Retiring == {w \in Writers : wpc[w] = "retire"}

\* How many qps, and as many ids, ago the qp of w was given out.
Age(w) == Gap(qp[w], current_alloc_idx, group_count)
Backlog == Gap(next_to_retire, id_ctr, IdMod)

\* Live writers have qps of their own, none of them the readers' current one,
\* and an id as old as the qp; no more are out than there are qps to spare.
Ring ==
  /\ \A w \in Writers : Live(w) =>
       /\ 1 <= Age(w) /\ Age(w) <= Backlog
       /\ Gap(qp_id[qp[w]], id_ctr, IdMod) = Age(w)
       /\ wpc[w] # "spin" => count_id[w] = qp_id[qp[w]]
  /\ \A v, w \in Writers : Live(v) /\ Live(w) /\ qp[v] = qp[w] => v = w
  /\ IsFiniteSet(Retiring)
  /\ Backlog + Cardinality(Retiring) = writers_alloced
  /\ writers_alloced <= group_count - 1

\* A reader is counted at one qp, from the addition to its undoing, and is
\* inside only at the current qp or at one a writer still waits for.
Counted ==
  /\ \A r \in Readers, q \in QPs :
       r \in users[q] <=> rpc[r] \in {"added", "undo", "inside"} /\ qp_idx[r] = q
  /\ \A r \in Readers : rpc[r] = "inside" =>
       \/ qp_idx[r] = current_alloc_idx
       \/ \E w \in Writers : wpc[w] = "spin" /\ qp[w] = qp_idx[r]
  /\ \A r \in Readers : held[r] # {} => rpc[r] = "inside"
  /\ \A r \in Readers : rpc[r] = "inside" => depth[r] >= 1

\* A reader that a synchronization must outlast is inside, and once the
\* synchronization has its qp, at a qp as old or older that is waited for.
Outlasted ==
  \A w \in Writers :
    /\ \A r \in owed[w] : rpc[r] = "inside"
    /\ Live(w) => \A r \in owed[w] :
         \E v \in Writers : /\ wpc[v] = "spin" /\ qp[v] = qp_idx[r]
                            /\ Age(v) >= Age(w)
    /\ wpc[w] \notin {"update", "sleep_alloc", "spin", "prior", "sleep_prior"}
         => owed[w] = {}

\* A version is current, replaced, asked to be released, taken by one
\* synchronization or released, in this order.
Replaced(w) == IF wpc[w] = "assigned" THEN {old[w]} ELSE {}
Versions ==
  /\ \A w \in Writers : wpc[w] \in {"locked", "assigned"} <=> write_lock = w
  /\ \A v \in freed \cup cb_items : v < ptr
  /\ cb_items \cap freed = {}
  /\ \A w \in Writers :
       /\ \A v \in mine[w] \cup Replaced(w) : v < ptr
       /\ mine[w] \cap (freed \cup cb_items) = {}
       /\ Replaced(w) \cap (freed \cup cb_items) = {}
       /\ \A u \in Writers : Replaced(w) \cap mine[u] = {}
       /\ \A u \in Writers : u # w => mine[u] \cap mine[w] = {}

\* Who uses a version that a synchronization will release is waited for.
Protected ==
  \A r \in Readers : \A v \in held[r] :
    /\ v <= ptr /\ v \notin freed
    /\ \A w \in Writers : v \in mine[w] => r \in owed[w]

IInv == Types /\ Ring /\ Counted /\ Outlasted /\ Versions /\ Protected

-----------------------------------------------------------------------------
(* Arithmetic on the circles.                                              *)

LEMMA Successor ==
  ASSUME NEW m \in Nat \ {0}, NEW x \in 0..(m - 1)
  PROVE  (x + 1) % m = IF x + 1 = m THEN 0 ELSE x + 1
OBVIOUS

\* One step of the end of a gap, and one of its beginning.
LEMMA GapGrows ==
  ASSUME NEW m \in Nat \ {0}, NEW a \in 0..(m - 1), NEW b \in 0..(m - 1),
         Gap(a, b, m) + 1 < m
  PROVE  Gap(a, (b + 1) % m, m) = Gap(a, b, m) + 1
BY Successor DEF Gap

LEMMA GapShrinks ==
  ASSUME NEW m \in Nat \ {0}, NEW a \in 0..(m - 1), NEW b \in 0..(m - 1),
         Gap(a, b, m) >= 1
  PROVE  Gap((a + 1) % m, b, m) = Gap(a, b, m) - 1
<1>1. CASE a + 1 = m
  <2>1. (a + 1) % m = 0
    BY <1>1, Successor
  <2> QED BY <1>1, <2>1 DEF Gap
<1>2. CASE a + 1 # m
  <2>1. (a + 1) % m = a + 1
    BY <1>2, Successor
  <2> QED BY <1>2, <2>1 DEF Gap
<1> QED BY <1>1, <1>2

LEMMA GapTypes ==
  ASSUME NEW m \in Nat \ {0}, NEW a \in 0..(m - 1), NEW b \in 0..(m - 1)
  PROVE  /\ Gap(a, b, m) \in 0..(m - 1)
         /\ (b + 1) % m \in 0..(m - 1)
         /\ Gap(a, b, m) = 0 <=> a = b
         /\ \A c \in 0..(m - 1) : Gap(a, b, m) = Gap(c, b, m) => a = c
<1>1. (b + 1) % m \in 0..(m - 1)
  BY Successor
<1>2. Gap(a, b, m) \in 0..(m - 1)
  BY DEF Gap
<1>3. Gap(a, b, m) = 0 <=> a = b
  BY DEF Gap
<1>4. \A c \in 0..(m - 1) : Gap(a, b, m) = Gap(c, b, m) => a = c
  BY DEF Gap
<1> QED BY <1>1, <1>2, <1>3, <1>4

\* The ranges that the types give.
LEMMA Numbers ==
  ASSUME Types
  PROVE  /\ group_count \in Nat \ {0} /\ IdMod \in Nat \ {0} /\ IdMod >= group_count
         /\ group_count >= 2
         /\ current_alloc_idx \in 0..(group_count - 1)
         /\ \A w \in Writers : /\ qp[w] \in 0..(group_count - 1)
                               /\ qp[w] \in QPs
                               /\ qp_id[qp[w]] \in 0..(IdMod - 1)
                               /\ Age(w) \in Nat
                               /\ Age(w) = 0 <=> qp[w] = current_alloc_idx
         /\ id_ctr \in 0..(IdMod - 1) /\ next_to_retire \in 0..(IdMod - 1)
         /\ Backlog \in Nat
<1>1. /\ group_count \in Nat \ {0} /\ IdMod \in Nat \ {0} /\ IdMod >= group_count
      /\ group_count >= 2
  BY RcuAssumption
<1>2. /\ current_alloc_idx \in 0..(group_count - 1)
      /\ id_ctr \in 0..(IdMod - 1) /\ next_to_retire \in 0..(IdMod - 1)
  BY DEF Types, QPs
<1>3. Backlog \in Nat
  BY <1>1, <1>2 DEF Backlog, Gap
<1>4. ASSUME NEW w \in Writers
      PROVE  /\ qp[w] \in 0..(group_count - 1)
             /\ qp[w] \in QPs
             /\ qp_id[qp[w]] \in 0..(IdMod - 1)
             /\ Age(w) \in Nat
             /\ Age(w) = 0 <=> qp[w] = current_alloc_idx
  <2>1. qp[w] \in QPs /\ qp_id[qp[w]] \in 0..(IdMod - 1)
    BY DEF Types
  <2>2. qp[w] \in 0..(group_count - 1)
    BY <2>1 DEF QPs
  <2>3. Age(w) \in Nat /\ (Age(w) = 0 <=> qp[w] = current_alloc_idx)
    BY <1>1, <1>2, <2>2 DEF Age, Gap
  <2> QED BY <2>1, <2>2, <2>3
<1> QED BY <1>1, <1>2, <1>3, <1>4

-----------------------------------------------------------------------------
(* Readers.  They change neither the ring nor the versions.                *)

LEMMA ReaderFrame ==
  ASSUME IInv,
         UNCHANGED <<qp_id, reader_idx, current_alloc_idx, writers_alloced, id_ctr,
                     next_to_retire, write_lock, cb_items, writerVars, ptr, freed>>
  PROVE  Ring' /\ Versions'
<1>1. Ring'
  BY DEF IInv, Ring, Live, Retiring, Age, Backlog, writerVars
<1>2. Versions'
  BY DEF IInv, Versions, Replaced, writerVars
<1> QED BY <1>1, <1>2

LEMMA LoadIdxKeeps ==
  ASSUME IInv, NEW r \in Readers, LoadIdx(r)
  PROVE  IInv'
<1> USE DEF IInv, LoadIdx, lockVars, writerVars
<1>1. Types'
  BY DEF Types
<1>2. Ring' /\ Versions'
  BY ReaderFrame
<1>3. Counted'
  BY DEF Types, Counted
<1>4. Outlasted'
  BY DEF Types, Outlasted, Live, Age
<1>5. Protected'
  BY DEF Protected
<1> QED BY <1>1, <1>2, <1>3, <1>4, <1>5

LEMMA AddReaderKeeps ==
  ASSUME IInv, NEW r \in Readers, AddReader(r)
  PROVE  IInv'
<1> USE DEF IInv, AddReader, lockVars, writerVars
<1>1. Types'
  BY DEF Types
<1>2. Ring' /\ Versions'
  BY ReaderFrame
<1>3. Counted'
  BY DEF Types, Counted
<1>4. Outlasted'
  BY DEF Types, Outlasted, Live, Age
<1>5. Protected'
  BY DEF Protected
<1> QED BY <1>1, <1>2, <1>3, <1>4, <1>5

LEMMA CheckIdxKeeps ==
  ASSUME IInv, NEW r \in Readers, CheckIdx(r)
  PROVE  IInv'
<1> USE DEF IInv, CheckIdx, idx_unchanged, lockVars, writerVars
<1>1. Types'
  BY DEF Types
<1>2. Ring' /\ Versions'
  BY ReaderFrame
<1>3. Counted'
  BY DEF Types, Counted
<1>4. Outlasted'
  BY DEF Types, Outlasted, Live, Age
<1>5. Protected'
  BY DEF Protected
<1> QED BY <1>1, <1>2, <1>3, <1>4, <1>5

LEMMA UndoAddKeeps ==
  ASSUME IInv, NEW r \in Readers, UndoAdd(r)
  PROVE  IInv'
<1> USE DEF IInv, UndoAdd, SubReader, lockVars, writerVars
<1>1. Types'
  BY DEF Types
<1>2. Ring' /\ Versions'
  BY ReaderFrame
<1>3. Counted'
  BY DEF Types, Counted
<1>4. Outlasted'
  BY DEF Types, Outlasted, Live, Age
<1>5. Protected'
  BY DEF Protected
<1> QED BY <1>1, <1>2, <1>3, <1>4, <1>5

LEMMA ReadLockNestedKeeps ==
  ASSUME IInv, NEW r \in Readers, ReadLockNested(r)
  PROVE  IInv'
<1> USE DEF IInv, ReadLockNested, lockVars, writerVars
<1>1. Types'
  BY DEF Types
<1>2. Ring' /\ Versions'
  BY ReaderFrame
<1>3. Counted'
  BY DEF Types, Counted
<1>4. Outlasted'
  BY DEF Types, Outlasted, Live, Age
<1>5. Protected'
  BY DEF Protected
<1> QED BY <1>1, <1>2, <1>3, <1>4, <1>5

\* The current version is neither released nor in any synchronization.
LEMMA DerefKeeps ==
  ASSUME IInv, NEW r \in Readers, Deref(r)
  PROVE  IInv'
<1> USE DEF IInv, Deref, lockVars, writerVars
<1>1. Types'
  BY DEF Types
<1>2. Ring' /\ Versions'
  BY ReaderFrame
<1>3. Counted'
  BY DEF Types, Counted
<1>4. Outlasted'
  BY DEF Types, Outlasted, Live, Age
<1>5. Protected'
  BY DEF Types, Protected, Versions
<1> QED BY <1>1, <1>2, <1>3, <1>4, <1>5

\* Leaving: r is counted no more, and no synchronization waits for it.
LEMMA ReadUnlockKeeps ==
  ASSUME IInv, NEW r \in Readers, ReadUnlock(r)
  PROVE  IInv'
<1> USE DEF IInv, ReadUnlock, SubReader, lockVars, writerVars
<1>0. 0 \in QPs /\ depth[r] \in Nat \ {0} /\ qp_idx[r] \in QPs
  BY RcuAssumption DEF Types, Counted, QPs
<1>1. depth' \in [Readers -> Nat]
  <2>1. depth \in [Readers -> Nat] /\ depth' = [depth EXCEPT ![r] = depth[r] - 1]
    BY DEF Types
  <2> QED BY <1>0, <2>1
<1>2. Ring' /\ Versions'
  BY ReaderFrame
<1>3. CASE depth[r] = 1
  <2>0. /\ users \in [QPs -> SUBSET Readers] /\ qp_idx \in [Readers -> QPs]
        /\ users' = [users EXCEPT ![qp_idx[r]] = users[qp_idx[r]] \ {r}]
        /\ qp_idx' = [qp_idx EXCEPT ![r] = 0]
    BY <1>3 DEF Types
  <2>1. Types'
    <3>1. users' \in [QPs -> SUBSET Readers] /\ qp_idx' \in [Readers -> QPs]
      BY <1>0, <2>0
    <3>2. held' \in [Readers -> SUBSET Nat] /\ owed' \in [Writers -> SUBSET Readers]
      BY <1>3 DEF Types
    <3> QED BY <1>1, <1>3, <3>1, <3>2 DEF Types
  <2>2. Counted'
    <3>0. /\ UNCHANGED <<wpc, qp, current_alloc_idx>>
          /\ \A p \in Readers : p # r => /\ rpc'[p] = rpc[p] /\ qp_idx'[p] = qp_idx[p]
                                         /\ held'[p] = held[p] /\ depth'[p] = depth[p]
          /\ rpc'[r] = "idle" /\ held'[r] = {}
      BY <1>3 DEF Types
    <3>1. \A p \in Readers, q \in QPs :
            p \in users'[q] <=> rpc'[p] \in {"added", "undo", "inside"} /\ qp_idx'[p] = q
      <4> SUFFICES ASSUME NEW p \in Readers, NEW q \in QPs
                   PROVE  p \in users'[q] <=> rpc'[p] \in {"added", "undo", "inside"} /\ qp_idx'[p] = q
        OBVIOUS
      <4>1. p \in users[q] <=> rpc[p] \in {"added", "undo", "inside"} /\ qp_idx[p] = q
        BY DEF Counted
      <4>2. users'[q] = IF q = qp_idx[r] THEN users[q] \ {r} ELSE users[q]
        BY <2>0
      <4>3. CASE p = r
        BY <3>0, <4>1, <4>2, <4>3
      <4>4. CASE p # r
        BY <3>0, <4>1, <4>2, <4>4
      <4> QED BY <4>3, <4>4
    <3>2. \A p \in Readers : rpc'[p] = "inside" =>
            \/ qp_idx'[p] = current_alloc_idx'
            \/ \E w \in Writers : wpc'[w] = "spin" /\ qp'[w] = qp_idx'[p]
      BY <3>0 DEF Counted
    <3>3. \A p \in Readers : held'[p] # {} => rpc'[p] = "inside"
      BY <3>0 DEF Counted
    <3>4. \A p \in Readers : rpc'[p] = "inside" => depth'[p] >= 1
      BY <3>0 DEF Counted
    <3> QED BY <3>1, <3>2, <3>3, <3>4 DEF Counted
  <2>3. Outlasted'
    BY <1>3 DEF Types, Outlasted, Live, Age
  <2>4. Protected'
    BY <1>3 DEF Types, Protected
  <2> QED BY <1>2, <2>1, <2>2, <2>3, <2>4
<1>4. CASE depth[r] # 1
  <2>1. Types'
    BY <1>0, <1>1, <1>4 DEF Types
  <2>2. Counted'
    BY <1>0, <1>4 DEF Types, Counted
  <2>3. Outlasted'
    BY <1>4 DEF Types, Outlasted, Live, Age
  <2>4. Protected'
    BY <1>4 DEF Types, Protected
  <2> QED BY <1>2, <2>1, <2>2, <2>3, <2>4
<1> QED BY <1>3, <1>4

-----------------------------------------------------------------------------
(* Writers that update: they change versions only.                         *)

LEMMA WriterFrame ==
  ASSUME IInv,
         UNCHANGED <<users, qp_id, reader_idx, current_alloc_idx, writers_alloced,
                     id_ctr, next_to_retire, readerVars, qp, count_id, owed>>,
         NEW w \in Writers, NEW pc \in {"idle", "locked", "assigned"},
         wpc[w] \in {"idle", "locked", "assigned"},
         wpc' = [wpc EXCEPT ![w] = pc]
  PROVE  Ring' /\ Counted' /\ Outlasted'
<1> USE DEF IInv, readerVars
<1>1. \A v \in Writers : v # w => wpc'[v] = wpc[v]
  BY DEF Types
<1>2. wpc'[w] \in {"idle", "locked", "assigned"}
  BY DEF Types
<1>3. Retiring' = Retiring
  BY <1>1, <1>2 DEF Retiring
<1>4. Ring'
  BY <1>1, <1>2, <1>3 DEF Ring, Live, Age, Backlog
<1>5. Counted'
  BY <1>1, <1>2 DEF Counted
<1>6. Outlasted'
  BY <1>1, <1>2 DEF Outlasted, Live, Age
<1> QED BY <1>4, <1>5, <1>6

LEMMA WriteLockKeeps ==
  ASSUME IInv, NEW w \in Writers, WriteLock(w)
  PROVE  IInv'
<1> USE DEF IInv, WriteLock, Goto
<1>1. Types'
  BY DEF Types, readerVars, WriterPCs
<1>2. Ring' /\ Counted' /\ Outlasted'
  BY WriterFrame
<1>3. Versions'
  BY RcuAssumption DEF Types, Versions, Replaced
<1>4. Protected'
  BY DEF Protected, readerVars
<1> QED BY <1>1, <1>2, <1>3, <1>4

\* The new version is not asked to be released, nor is the one it replaces yet.
LEMMA AssignKeeps ==
  ASSUME IInv, NEW w \in Writers, Assign(w)
  PROVE  IInv'
<1> USE DEF IInv, Assign, Goto
<1>1. Types'
  BY DEF Types, readerVars, lockVars, WriterPCs
<1>2. Ring' /\ Counted' /\ Outlasted'
  BY WriterFrame DEF lockVars
<1>3. Versions'
  BY DEF Types, Versions, Replaced, lockVars
<1>4. Protected'
  BY DEF Types, Protected, readerVars
<1> QED BY <1>1, <1>2, <1>3, <1>4

LEMMA CallAndUnlockKeeps ==
  ASSUME IInv, NEW w \in Writers, CallAndUnlock(w)
  PROVE  IInv'
<1> USE DEF IInv, CallAndUnlock, Goto
<1>1. Types'
  BY DEF Types, readerVars, WriterPCs
<1>2. Ring' /\ Counted' /\ Outlasted'
  BY WriterFrame
<1>3. Versions'
  BY RcuAssumption DEF Types, Versions, Replaced
<1>4. Protected'
  BY DEF Protected, readerVars
<1> QED BY <1>1, <1>2, <1>3, <1>4

-----------------------------------------------------------------------------
(* ossl_synchronize_rcu.                                                   *)

\* Versions is kept by steps that leave the write lock and the versions alone.
LEMMA VersionsFrame ==
  ASSUME IInv, UNCHANGED <<write_lock, cb_items, ptr, freed, old, mine>>,
         \A v \in Writers :
           wpc'[v] # wpc[v] => {wpc[v], wpc'[v]} \cap {"locked", "assigned"} = {}
  PROVE  Versions'
BY DEF IInv, Versions, Replaced

\* Who uses a version asked to be released is inside, and so will be outlasted.
LEMMA TakeCallbacksKeeps ==
  ASSUME IInv, NEW w \in Writers, TakeCallbacks(w)
  PROVE  IInv'
<1> USE DEF IInv, TakeCallbacks, Goto, readerVars
<1>0. /\ \A v \in Writers : v # w => wpc'[v] = wpc[v] /\ owed'[v] = owed[v]
      /\ wpc'[w] = "update" /\ wpc[w] = "idle"
  BY DEF Types
<1>1. Types'
  BY DEF Types, WriterPCs
<1>2. Retiring' = Retiring
  BY <1>0 DEF Retiring
<1>3. Ring'
  BY <1>0, <1>2 DEF Ring, Live, Age, Backlog
<1>4. Counted'
  BY <1>0 DEF Counted
<1>5. Outlasted'
  BY <1>0 DEF Types, Outlasted, Live, Age
<1>6. Versions'
  <2>1. /\ cb_items' = {} /\ UNCHANGED <<freed, ptr, write_lock>>
        /\ mine'[w] = cb_items /\ \A v \in Writers : v # w => mine'[v] = mine[v]
    BY DEF Types
  <2>2. \A v \in Writers : Replaced(v)' = Replaced(v)
    BY <1>0 DEF Replaced
  <2>3. \A v \in Writers : wpc'[v] \in {"locked", "assigned"} <=> write_lock' = v
    BY <1>0, <2>1 DEF Versions
  <2>4. /\ \A v \in freed' \cup cb_items' : v < ptr'
        /\ cb_items' \cap freed' = {}
    BY <2>1 DEF Versions
  <2>5. \A v \in Writers : /\ \A x \in mine'[v] \cup Replaced(v)' : x < ptr'
                           /\ mine'[v] \cap (freed' \cup cb_items') = {}
                           /\ Replaced(v)' \cap (freed' \cup cb_items') = {}
    BY <2>1, <2>2 DEF Versions
  <2>6. \A v \in Writers : \A u \in Writers : Replaced(v)' \cap mine'[u] = {}
    BY <2>1, <2>2 DEF Versions
  <2>7. \A v \in Writers : \A u \in Writers : u # v => mine'[u] \cap mine'[v] = {}
    BY <2>1 DEF Versions
  <2> QED BY <2>3, <2>4, <2>5, <2>6, <2>7 DEF Versions
<1>7. Protected'
  BY DEF Types, Protected, Counted
<1> QED BY <1>1, <1>3, <1>4, <1>5, <1>6, <1>7

LEMMA SleepAllocKeeps ==
  ASSUME IInv, NEW w \in Writers, SleepAlloc(w)
  PROVE  IInv'
<1> USE DEF IInv, SleepAlloc, Goto, lockVars, readerVars
<1>0. /\ \A v \in Writers : v # w => wpc'[v] = wpc[v]
      /\ wpc'[w] = "sleep_alloc" /\ wpc[w] = "update"
  BY DEF Types
<1>1. Types'
  BY DEF Types, WriterPCs
<1>2. Retiring' = Retiring
  BY <1>0 DEF Retiring
<1>3. Ring'
  BY <1>0, <1>2 DEF Ring, Live, Age, Backlog
<1>4. Counted'
  BY <1>0 DEF Counted
<1>5. Outlasted'
  BY <1>0 DEF Types, Outlasted, Live, Age
<1>6. Versions'
  BY <1>0, VersionsFrame
<1>7. Protected'
  BY DEF Protected
<1> QED BY <1>1, <1>3, <1>4, <1>5, <1>6, <1>7

\* The readers' index moves on: who is inside at the old one is waited for by w,
\* and every live writer, the one that was at the new one included, is older.
LEMMA UpdateQpKeeps ==
  ASSUME IInv, NEW w \in Writers, UpdateQp(w)
  PROVE  IInv'
<1> USE DEF IInv, UpdateQp, readerVars
<1>a. /\ group_count \in Nat \ {0} /\ IdMod \in Nat \ {0} /\ IdMod >= group_count
      /\ current_alloc_idx \in 0..(group_count - 1)
      /\ id_ctr \in 0..(IdMod - 1) /\ next_to_retire \in 0..(IdMod - 1)
      /\ Backlog \in Nat /\ writers_alloced \in Nat
  BY Numbers DEF Types
<1>b. \A v \in Writers :
        /\ v # w => \/ wpc'[v] = wpc[v]
                    \/ wpc[v] = "sleep_alloc" /\ wpc'[v] = "update"
        /\ v # w => qp'[v] = qp[v]
  BY DEF Types, Signal, Asleep
<1>c. /\ wpc[w] = "update" /\ wpc'[w] = "spin" /\ qp'[w] = current_alloc_idx
  BY DEF Types, Signal, Asleep
<1>d. wpc' \in [Writers -> WriterPCs]
  BY DEF Types, Signal, Asleep, WriterPCs
<1>e. /\ current_alloc_idx' \in QPs /\ id_ctr' \in 0..(IdMod - 1)
      /\ qp_id' = [qp_id EXCEPT ![current_alloc_idx] = id_ctr]
  BY <1>a, GapTypes DEF QPs
<1>1. Types'
  <2>1. qp' \in [Writers -> QPs] /\ qp_id' \in [QPs -> 0..(IdMod - 1)]
    BY DEF Types
  <2>2. writers_alloced' \in Nat
    BY <1>a
  <2> QED BY <1>d, <1>e, <2>1, <2>2 DEF Types
<1>2. /\ Retiring' = Retiring
      /\ Cardinality(Retiring) \in Nat
      /\ Backlog \in Nat /\ Backlog + 1 <= group_count - 1
  <2>1. Retiring' = Retiring
    BY <1>b, <1>c DEF Retiring
  <2>2. Cardinality(Retiring) \in Nat
    BY FS_CardinalityType DEF Ring
  <2>3. Backlog + Cardinality(Retiring) = writers_alloced
    BY DEF Ring
  <2> QED BY <1>a, <2>1, <2>2, <2>3
<1>3. Backlog' = Backlog + 1
  <2>1. Backlog + 1 < IdMod
    BY <1>a, <1>2
  <2> QED BY <1>a, <2>1, GapGrows DEF Backlog
<1>4. \A v \in Writers : Live(v) =>
        /\ Live(v)' /\ v # w /\ wpc'[v] = wpc[v] /\ qp'[v] = qp[v]
        /\ Age(v)' = Age(v) + 1
        /\ qp[v] # current_alloc_idx
        /\ Gap(qp_id'[qp[v]], id_ctr', IdMod) = Gap(qp_id[qp[v]], id_ctr, IdMod) + 1
  <2> SUFFICES ASSUME NEW v \in Writers, Live(v)
               PROVE  /\ Live(v)' /\ v # w /\ wpc'[v] = wpc[v] /\ qp'[v] = qp[v]
                      /\ Age(v)' = Age(v) + 1
                      /\ qp[v] # current_alloc_idx
                      /\ Gap(qp_id'[qp[v]], id_ctr', IdMod)
                           = Gap(qp_id[qp[v]], id_ctr, IdMod) + 1
    OBVIOUS
  <2>1. Live(v)' /\ v # w /\ wpc'[v] = wpc[v] /\ qp'[v] = qp[v]
    BY <1>b, <1>c DEF Live
  <2>2. Age(v) \in Nat /\ 1 <= Age(v) /\ Age(v) + 1 < group_count
    BY <1>a, <1>2, Numbers DEF Ring
  <2>3. Age(v)' = Age(v) + 1
    BY <1>a, <2>1, <2>2, Numbers, GapGrows DEF Age
  <2>4. qp[v] # current_alloc_idx
    BY <2>2, Numbers
  <2>5. qp_id'[qp[v]] = qp_id[qp[v]] /\ qp_id[qp[v]] \in 0..(IdMod - 1)
    BY <1>e, <2>4 DEF Types
  <2>6. Gap(qp_id[qp[v]], id_ctr, IdMod) + 1 < IdMod
    BY <1>a, <2>2 DEF Ring
  <2>7. Gap(qp_id[qp[v]], id_ctr', IdMod) = Gap(qp_id[qp[v]], id_ctr, IdMod) + 1
    BY <1>a, <2>5, <2>6, GapGrows
  <2> QED BY <2>1, <2>3, <2>4, <2>5, <2>7
<1>5. /\ Age(w)' = 1 /\ Live(w)'
      /\ Gap(qp_id'[qp'[w]], id_ctr', IdMod) = 1
  <2>1. Gap(current_alloc_idx, current_alloc_idx, group_count) = 0 /\ Gap(id_ctr, id_ctr, IdMod) = 0
    BY <1>a DEF Gap
  <2>2. 0 + 1 < group_count /\ 0 + 1 < IdMod
    BY <1>a, <1>2
  <2>3. Gap(current_alloc_idx, current_alloc_idx', group_count) = 1
    BY <1>a, <2>1, <2>2, GapGrows
  <2>4. Gap(id_ctr, id_ctr', IdMod) = 1
    BY <1>a, <2>1, <2>2, GapGrows
  <2> QED BY <1>c, <1>e, <2>3, <2>4 DEF Age, Live, Types
<1>6. \A v \in Writers : Live(v)' => v = w \/ Live(v)
  BY <1>b DEF Live
<1>7. Ring'
  <2>1. ASSUME NEW v \in Writers, Live(v)'
        PROVE  /\ 1 <= Age(v)' /\ Age(v)' <= Backlog'
               /\ Gap(qp_id'[qp'[v]], id_ctr', IdMod) = Age(v)'
               /\ wpc'[v] # "spin" => count_id'[v] = qp_id'[qp'[v]]
    <3>1. CASE v = w
      BY <1>2, <1>3, <1>5, <1>c, <3>1
    <3>2. CASE v # w
      <4>1. Live(v) /\ Age(v) \in Nat
        BY <1>6, <2>1, <3>2, Numbers
      <4>2. qp_id'[qp'[v]] = qp_id[qp[v]]
        BY <1>4, <1>e, <4>1 DEF Types
      <4> QED BY <1>2, <1>3, <1>4, <4>1, <4>2 DEF Ring
    <3> QED BY <3>1, <3>2
  <2>2. ASSUME NEW u \in Writers, NEW v \in Writers, Live(u)', Live(v)', qp'[u] = qp'[v]
        PROVE  u = v
    BY <1>4, <1>6, <1>c, <2>2 DEF Ring
  <2>3. Backlog' + Cardinality(Retiring') = writers_alloced' /\ writers_alloced' <= group_count - 1
    <3>1. Backlog + Cardinality(Retiring) = writers_alloced
      BY DEF Ring
    <3> QED BY <1>a, <1>2, <1>3, <3>1
  <2> QED BY <1>2, <2>1, <2>2, <2>3 DEF Ring
<1>8. Counted'
  BY <1>b, <1>c DEF Types, Counted
<1>9. Outlasted'
  <2> SUFFICES ASSUME NEW v \in Writers
               PROVE  /\ \A r \in owed[v] : rpc[r] = "inside"
                      /\ Live(v)' => \A r \in owed[v] :
                           \E u \in Writers : /\ wpc'[u] = "spin" /\ qp'[u] = qp_idx[r]
                                              /\ Age(u)' >= Age(v)'
                      /\ wpc'[v] \notin {"update", "sleep_alloc", "spin", "prior", "sleep_prior"}
                           => owed[v] = {}
    BY DEF Outlasted
  <2>1. \A r \in owed[v] : rpc[r] = "inside"
    BY DEF Outlasted
  <2>2. ASSUME Live(v)', NEW r \in owed[v]
        PROVE  \E u \in Writers : /\ wpc'[u] = "spin" /\ qp'[u] = qp_idx[r]
                                  /\ Age(u)' >= Age(v)'
    <3>0. \A u \in Writers : Age(u) \in Nat
      BY Numbers
    <3>1. CASE v = w
      <4>1. r \in Readers /\ rpc[r] = "inside"
        BY <2>1 DEF Types
      <4>2. CASE qp_idx[r] = current_alloc_idx
        BY <1>5, <1>c, <3>1, <4>2
      <4>3. ASSUME NEW u \in Writers, wpc[u] = "spin", qp[u] = qp_idx[r]
            PROVE  /\ wpc'[u] = "spin" /\ qp'[u] = qp_idx[r]
                   /\ Age(u)' >= Age(v)'
        <5>1. Live(u)
          BY <4>3 DEF Live
        <5> QED BY <1>4, <1>5, <3>0, <3>1, <4>3, <5>1
      <4> QED BY <4>1, <4>2, <4>3 DEF Counted
    <3>2. CASE v # w
      <4>1. Live(v)
        BY <1>6, <2>2, <3>2
      <4>2. PICK u \in Writers : wpc[u] = "spin" /\ qp[u] = qp_idx[r] /\ Age(u) >= Age(v)
        BY <4>1 DEF Outlasted
      <4>3. Live(u)
        BY <4>2 DEF Live
      <4> QED BY <1>4, <3>0, <4>1, <4>2, <4>3
    <3> QED BY <3>1, <3>2
  <2>3. wpc'[v] \notin {"update", "sleep_alloc", "spin", "prior", "sleep_prior"} => owed[v] = {}
    BY <1>b, <1>c DEF Outlasted
  <2> QED BY <2>1, <2>2, <2>3
<1>10. Versions'
  BY <1>b, <1>c, VersionsFrame
<1>11. Protected'
  BY DEF Protected
<1> QED BY <1>1, <1>7, <1>8, <1>9, <1>10, <1>11

\* Nobody is counted at the qp of w, so nobody is inside there.
LEMMA SpinKeeps ==
  ASSUME IInv, NEW w \in Writers, Spin(w)
  PROVE  IInv'
<1> USE DEF IInv, Spin, Goto, lockVars, readerVars
<1>0. /\ \A v \in Writers : v # w => wpc'[v] = wpc[v] /\ count_id'[v] = count_id[v]
      /\ wpc'[w] = "prior" /\ wpc[w] = "spin" /\ count_id'[w] = qp_id[qp[w]]
  BY DEF Types
<1>1. Types'
  BY Numbers DEF Types, WriterPCs
<1>2. Retiring' = Retiring
  BY <1>0 DEF Retiring
<1>3. Ring'
  BY <1>0, <1>2 DEF Ring, Live, Age, Backlog
<1>4. \A r \in Readers : rpc[r] = "inside" => qp_idx[r] # qp[w]
  BY DEF Counted, Types
<1>5. Counted'
  BY <1>0, <1>4 DEF Counted
<1>6. Outlasted'
  BY <1>0, <1>4 DEF Types, Outlasted, Live, Age
<1>7. Versions'
  BY <1>0, VersionsFrame
<1>8. Protected'
  BY DEF Protected
<1> QED BY <1>1, <1>3, <1>5, <1>6, <1>7, <1>8

\* The writer whose turn it is has the oldest id, hence the oldest qp, so that
\* nobody it owes to is left: such a reader would be at a qp at least as old.
LEMMA RetireInOrderKeeps ==
  ASSUME IInv, NEW w \in Writers, RetireInOrder(w)
  PROVE  IInv'
<1> USE DEF IInv, RetireInOrder, readerVars
<1>a. /\ group_count \in Nat \ {0} /\ IdMod \in Nat \ {0} /\ IdMod >= group_count
      /\ current_alloc_idx \in 0..(group_count - 1)
      /\ id_ctr \in 0..(IdMod - 1) /\ next_to_retire \in 0..(IdMod - 1)
      /\ Backlog \in Nat /\ writers_alloced \in Nat
  BY Numbers DEF Types
<1>b. /\ \A v \in Writers : v # w =>
           /\ wpc'[v] = wpc[v] \/ (wpc[v] = "sleep_prior" /\ wpc'[v] = "prior")
           /\ count_id'[v] = count_id[v]
      /\ wpc[w] = "prior" /\ wpc'[w] = "retire"
  BY DEF Types, woken_all, Asleep
<1>c. wpc' \in [Writers -> WriterPCs]
  BY DEF Types, woken_all, Asleep, WriterPCs
<1>d. next_to_retire' \in 0..(IdMod - 1) /\ 0 \in 0..(IdMod - 1)
  BY <1>a, GapTypes
<1>1. Types'
  BY <1>c, <1>d DEF Types
<1>2. /\ Age(w) = Backlog /\ 1 <= Backlog /\ Live(w)
  <2>1. Live(w)
    BY <1>b DEF Live
  <2>2. count_id[w] = next_to_retire /\ count_id[w] = qp_id[qp[w]]
    BY <1>b, <2>1 DEF my_turn, Ring
  <2> QED BY <2>1, <2>2 DEF Ring, Backlog
<1>3. Backlog' = Backlog - 1
  BY <1>a, <1>2, GapShrinks DEF Backlog
<1>4. \A v \in Writers : /\ Live(v)' <=> Live(v) /\ v # w
                         /\ Age(v)' = Age(v)
                         /\ wpc'[v] = "spin" <=> wpc[v] = "spin"
  BY <1>b DEF Live, Age
<1>5. \A v \in Writers : Live(v) /\ v # w => Age(v) <= Backlog - 1
  <2> SUFFICES ASSUME NEW v \in Writers, Live(v), v # w PROVE Age(v) # Backlog
    BY <1>a, Numbers DEF Ring
  <2>1. qp[v] # qp[w]
    BY <1>2 DEF Ring
  <2>2. qp[v] \in 0..(group_count - 1) /\ qp[w] \in 0..(group_count - 1)
    BY Numbers
  <2> QED BY <1>a, <1>2, <2>1, <2>2, GapTypes DEF Age
<1>6. /\ Retiring' = Retiring \cup {w} /\ w \notin Retiring
      /\ IsFiniteSet(Retiring') /\ Cardinality(Retiring') = Cardinality(Retiring) + 1
      /\ Cardinality(Retiring) \in Nat
  <2>1. Retiring' = Retiring \cup {w} /\ w \notin Retiring
    BY <1>b DEF Retiring
  <2>2. IsFiniteSet(Retiring)
    BY DEF Ring
  <2> QED BY <2>1, <2>2, FS_AddElement, FS_CardinalityType
<1>7. Ring'
  <2>1. ASSUME NEW v \in Writers, Live(v)'
        PROVE  /\ 1 <= Age(v)' /\ Age(v)' <= Backlog'
               /\ Gap(qp_id'[qp'[v]], id_ctr', IdMod) = Age(v)'
               /\ wpc'[v] # "spin" => count_id'[v] = qp_id'[qp'[v]]
    <3>1. /\ Live(v) /\ v # w /\ Age(v)' = Age(v)
          /\ wpc'[v] # "spin" => wpc[v] # "spin"
          /\ count_id'[v] = count_id[v]
      BY <1>4, <1>b, <2>1
    <3>2. /\ 1 <= Age(v) /\ Gap(qp_id[qp[v]], id_ctr, IdMod) = Age(v)
          /\ wpc[v] # "spin" => count_id[v] = qp_id[qp[v]]
      BY <3>1 DEF Ring
    <3>3. Age(v)' <= Backlog'
      BY <1>3, <1>5, <3>1
    <3>4. qp' = qp /\ qp_id' = qp_id /\ id_ctr' = id_ctr
      OBVIOUS
    <3> HIDE DEF RetireInOrder, IInv
    <3> QED BY <3>1, <3>2, <3>3, <3>4
  <2>2. ASSUME NEW u \in Writers, NEW v \in Writers, Live(u)', Live(v)', qp'[u] = qp'[v]
        PROVE  u = v
    BY <1>4, <2>2 DEF Ring
  <2>3. Backlog' + Cardinality(Retiring') = writers_alloced' /\ writers_alloced' <= group_count - 1
    <3>1. Backlog + Cardinality(Retiring) = writers_alloced /\ writers_alloced <= group_count - 1
      BY DEF Ring
    <3> QED BY <1>a, <1>3, <1>6, <3>1
  <2> QED BY <1>6, <2>1, <2>2, <2>3 DEF Ring
<1>8. Counted'
  BY <1>4 DEF Counted
<1>9. owed[w] = {}
  <2> SUFFICES ASSUME NEW r \in owed[w] PROVE FALSE
    OBVIOUS
  <2>1. PICK u \in Writers : wpc[u] = "spin" /\ qp[u] = qp_idx[r] /\ Age(u) >= Age(w)
    BY <1>2 DEF Outlasted
  <2>2. Live(u) /\ u # w
    BY <1>b, <2>1 DEF Live
  <2> QED BY <1>2, <1>5, <1>a, <2>1, <2>2, Numbers
<1>10. Outlasted'
  <2>1. qp' = qp /\ owed' = owed /\ qp_idx' = qp_idx /\ rpc' = rpc /\ Outlasted
    OBVIOUS
  <2> HIDE DEF RetireInOrder, IInv
  <2> SUFFICES ASSUME NEW v \in Writers
               PROVE  /\ \A r \in owed[v] : rpc[r] = "inside"
                      /\ Live(v)' => \A r \in owed[v] :
                           \E u \in Writers : /\ wpc'[u] = "spin" /\ qp[u] = qp_idx[r]
                                              /\ Age(u)' >= Age(v)'
                      /\ wpc'[v] \notin {"update", "sleep_alloc", "spin", "prior", "sleep_prior"}
                           => owed[v] = {}
    BY <2>1 DEF Outlasted
  <2>2. \A r \in owed[v] : rpc[r] = "inside"
    BY <2>1 DEF Outlasted
  <2>3. ASSUME Live(v)', NEW r \in owed[v]
        PROVE  \E u \in Writers : /\ wpc'[u] = "spin" /\ qp[u] = qp_idx[r]
                                  /\ Age(u)' >= Age(v)'
    <3>1. PICK u \in Writers : wpc[u] = "spin" /\ qp[u] = qp_idx[r] /\ Age(u) >= Age(v)
      BY <1>4, <2>1, <2>3 DEF Outlasted
    <3> QED BY <1>4, <3>1
  <2>4. wpc'[v] \notin {"update", "sleep_alloc", "spin", "prior", "sleep_prior"} => owed[v] = {}
    BY <1>9, <1>b, <2>1 DEF Outlasted
  <2> QED BY <2>2, <2>3, <2>4
<1>11. Versions'
  BY <1>b, VersionsFrame
<1>12. Protected'
  BY DEF Protected
<1> QED BY <1>1, <1>7, <1>8, <1>10, <1>11, <1>12

LEMMA SleepPriorKeeps ==
  ASSUME IInv, NEW w \in Writers, SleepPrior(w)
  PROVE  IInv'
<1> USE DEF IInv, SleepPrior, Goto, lockVars, readerVars
<1>0. /\ \A v \in Writers : v # w => wpc'[v] = wpc[v]
      /\ wpc'[w] = "sleep_prior" /\ wpc[w] = "prior"
  BY DEF Types
<1>1. Types'
  BY DEF Types, WriterPCs
<1>2. Retiring' = Retiring
  BY <1>0 DEF Retiring
<1>3. Ring'
  BY <1>0, <1>2 DEF Ring, Live, Age, Backlog
<1>4. Counted'
  BY <1>0 DEF Counted
<1>5. Outlasted'
  BY <1>0 DEF Types, Outlasted, Live, Age
<1>6. Versions'
  BY <1>0, VersionsFrame
<1>7. Protected'
  BY DEF Protected
<1> QED BY <1>1, <1>3, <1>4, <1>5, <1>6, <1>7

LEMMA RetireQpKeeps ==
  ASSUME IInv, NEW w \in Writers, RetireQp(w)
  PROVE  IInv'
<1> USE DEF IInv, RetireQp, readerVars
<1>0. /\ \A v \in Writers : v # w =>
           /\ wpc'[v] = wpc[v] \/ (wpc[v] = "sleep_alloc" /\ wpc'[v] = "update")
           /\ qp'[v] = qp[v]
      /\ wpc'[w] = "callbacks" /\ wpc[w] = "retire"
  BY DEF Types, Signal, Asleep
<1>a. wpc' \in [Writers -> WriterPCs]
  BY DEF Types, Signal, Asleep, WriterPCs
<1>2. /\ Retiring' = Retiring \ {w} /\ w \in Retiring
      /\ IsFiniteSet(Retiring') /\ Cardinality(Retiring') = Cardinality(Retiring) - 1
      /\ Cardinality(Retiring) \in Nat /\ Cardinality(Retiring') \in Nat
  <2>1. Retiring' = Retiring \ {w} /\ w \in Retiring
    BY <1>0 DEF Retiring
  <2>2. IsFiniteSet(Retiring)
    BY DEF Ring
  <2>3. IsFiniteSet(Retiring') /\ Cardinality(Retiring') = Cardinality(Retiring) - 1
    BY <2>1, <2>2, FS_RemoveElement
  <2> QED BY <2>1, <2>2, <2>3, FS_CardinalityType
<1>3. /\ Backlog + Cardinality(Retiring') = writers_alloced'
      /\ writers_alloced' \in Nat /\ writers_alloced' <= group_count - 1
  <2>1. Backlog \in Nat /\ writers_alloced \in Nat /\ group_count \in Nat
    BY Numbers DEF Types
  <2>2. Backlog + Cardinality(Retiring) = writers_alloced /\ writers_alloced <= group_count - 1
    BY DEF Ring
  <2>3. writers_alloced' = writers_alloced - 1
    OBVIOUS
  <2> HIDE DEF RetireQp, IInv
  <2>4. Cardinality(Retiring') = Cardinality(Retiring) - 1
    BY <1>2
  <2>5. Cardinality(Retiring) \in Nat /\ Cardinality(Retiring') \in Nat
    BY <1>2
  <2> QED BY <2>1, <2>2, <2>3, <2>4, <2>5
<1>4. Types'
  <2>1. 0 \in QPs
    BY RcuAssumption DEF QPs
  <2> QED BY <1>a, <1>3, <2>1 DEF Types
<1>5. \A v \in Writers : /\ Live(v)' <=> Live(v)
                         /\ Live(v) => v # w /\ Age(v)' = Age(v)
                         /\ wpc'[v] = "spin" <=> wpc[v] = "spin"
  BY <1>0 DEF Live, Age
<1>6. Ring'
  BY <1>0, <1>2, <1>3, <1>5 DEF Ring, Backlog
<1>7. Counted'
  BY <1>0 DEF Counted
<1>8. Outlasted'
  BY <1>0, <1>5 DEF Outlasted, Live
<1>9. Versions'
  BY <1>0, VersionsFrame
<1>10. Protected'
  BY DEF Protected
<1> QED BY <1>4, <1>6, <1>7, <1>8, <1>9, <1>10

\* Nobody is owed any more, so nobody uses what is released.
LEMMA RunCallbacksKeeps ==
  ASSUME IInv, NEW w \in Writers, RunCallbacks(w)
  PROVE  IInv'
<1> USE DEF IInv, RunCallbacks, Goto, lockVars, readerVars
<1>0. /\ \A v \in Writers : v # w => /\ wpc'[v] = wpc[v] /\ mine'[v] = mine[v]
                                     /\ owed'[v] = owed[v]
      /\ wpc'[w] = "idle" /\ wpc[w] = "callbacks" /\ mine'[w] = {}
      /\ owed[w] = {} /\ owed'[w] = {}
  BY DEF Types, Outlasted
<1>1. Types'
  BY DEF Types, WriterPCs
<1>2. Retiring' = Retiring
  BY <1>0 DEF Retiring
<1>3. Ring'
  BY <1>0, <1>2 DEF Ring, Live, Age, Backlog
<1>4. Counted'
  BY <1>0 DEF Counted
<1>5. Outlasted'
  BY <1>0 DEF Outlasted, Live, Age
<1>6. Versions'
  BY <1>0 DEF Versions, Replaced
<1>7. Protected'
  BY <1>0 DEF Protected
<1> QED BY <1>1, <1>3, <1>4, <1>5, <1>6, <1>7

-----------------------------------------------------------------------------
LEMMA InitEstablishes == Init => IInv
<1> SUFFICES ASSUME Init PROVE IInv
  OBVIOUS
<1> USE DEF Init
<1>1. Types
  BY RcuAssumption DEF Types, QPs, WriterPCs
<1>2. Retiring = {} /\ Backlog = 0
  BY RcuAssumption DEF Retiring, Backlog, Gap
<1>3. Ring
  BY <1>2, RcuAssumption, FS_EmptySet DEF Ring, Live
<1>4. Counted /\ Outlasted /\ Versions /\ Protected
  BY RcuAssumption DEF Counted, Outlasted, Versions, Protected, Live, Replaced
<1> QED BY <1>1, <1>3, <1>4 DEF IInv

LEMMA NextKeeps == IInv /\ [Next]_vars => IInv'
<1> SUFFICES ASSUME IInv, [Next]_vars PROVE IInv'
  OBVIOUS
<1>1. ASSUME NEW r \in Readers,
             LoadIdx(r) \/ AddReader(r) \/ CheckIdx(r) \/ UndoAdd(r)
               \/ ReadLockNested(r) \/ Deref(r) \/ ReadUnlock(r)
      PROVE  IInv'
  BY <1>1, LoadIdxKeeps, AddReaderKeeps, CheckIdxKeeps, UndoAddKeeps,
     ReadLockNestedKeeps, DerefKeeps, ReadUnlockKeeps
<1>2. ASSUME NEW w \in Writers,
             WriteLock(w) \/ Writing(w) \/ TakeCallbacks(w) \/ Syncing(w)
      PROVE  IInv'
  BY <1>2, WriteLockKeeps, AssignKeeps, CallAndUnlockKeeps, TakeCallbacksKeeps,
     UpdateQpKeeps, SleepAllocKeeps, SpinKeeps, RetireInOrderKeeps,
     SleepPriorKeeps, RetireQpKeeps, RunCallbacksKeeps
     DEF Writing, Syncing
<1>3. CASE UNCHANGED vars
  <2>1. UNCHANGED lockVars /\ UNCHANGED readerVars /\ UNCHANGED writerVars
        /\ UNCHANGED <<ptr, freed, owed>>
    BY <1>3 DEF vars
  <2>2. Ring' /\ Versions'
    BY <2>1, ReaderFrame DEF lockVars
  <2>3. Types' /\ Counted' /\ Outlasted' /\ Protected'
    BY <2>1 DEF IInv, lockVars, readerVars, writerVars, Types, Counted, Outlasted,
                Protected, Live, Age
  <2> QED BY <2>2, <2>3 DEF IInv
<1> QED BY <1>1, <1>2, <1>3 DEF Next

\* The parts of the invariant hold in every reachable state, for any number of
\* readers and writers and with ids that wrap.
THEOREM Invariance == Spec => []IInv
BY InitEstablishes, NextKeeps, PTL DEF Spec

\* No version that a reader can still use, that is current, or whose release
\* another synchronization has taken on is ever released.
THEOREM NothingInUseReleased == Spec => []NoUseAfterFree
<1>1. IInv => NoUseAfterFree
  BY DEF IInv, Types, Versions, Protected, NoUseAfterFree
<1> QED BY <1>1, Invariance, PTL

\* When ossl_synchronize_rcu comes to its callbacks, every reader that was inside
\* when it began has left.
THEOREM ReadersOutlasted == Spec => []GracePeriod
<1>1. IInv => GracePeriod
  BY DEF IInv, Outlasted, GracePeriod
<1> QED BY <1>1, Invariance, PTL

-----------------------------------------------------------------------------
(* The secure heap.                                                        *)

\* A set of numbers has a smallest one.
LEMMA Smallest ==
  ASSUME NEW T \in SUBSET Nat, T # {}
  PROVE  \E x \in T : \A y \in T : x <= y
<1> DEFINE R == OpToRel(<, Nat)
<1>1. IsWellFoundedOn(R, Nat)
  BY NatLessThanWellFounded
<1>2. \A x, y \in Nat : <<y, x>> \in R <=> y < x
  BY DEF OpToRel
<1> HIDE DEF R
<1>3. PICK x \in T : \A y \in T : ~ (<<y, x>> \in R)
  BY <1>1, WFMin
<1>4. x \in Nat /\ \A y \in T : y \in Nat
  OBVIOUS
<1>5. ASSUME NEW y \in T PROVE x <= y
  <2>1. ~ (y < x)
    BY <1>2, <1>3, <1>4, Zenon
  <2> QED BY <1>4, <2>1
<1> QED BY <1>5

\* Induction, with the property as a set.
LEMMA SetInduction ==
  ASSUME NEW S, 0 \in S, \A n \in Nat : n \in S => n + 1 \in S
  PROVE  Nat \subseteq S
<1> SUFFICES ASSUME Nat \ S # {} PROVE FALSE
  OBVIOUS
<1> DEFINE T == Nat \ S
<1>1. T \in SUBSET Nat /\ T # {}
  OBVIOUS
<1>2. PICK n \in T : \A m \in T : n <= m
  <2> HIDE DEF T
  <2> QED BY <1>1, Smallest
<1>3. n # 0 /\ n - 1 \in Nat
  BY <1>2
<1>4. n - 1 \in S
  BY <1>2, <1>3
<1> QED BY <1>2, <1>3, <1>4

-----------------------------------------------------------------------------
(* Powers of two.                                                          *)

LEMMA LevelsNat == Levels \in Nat
BY SecureHeapAssumption

\* The recursion of pow2 has a solution.
LEMMA PowersExist ==
  \E g : g = [n \in 0..Levels |-> IF n = 0 THEN 1 ELSE 2 * g[n - 1]]
<1> DEFINE Doubling(g, k) == \A n \in 0..k : g[n] = IF n = 0 THEN 1 ELSE 2 * g[n - 1]
           F == [0..Levels -> Nat]
           S == {k \in Nat : k <= Levels => \E g \in F : Doubling(g, k)}
<1>0. Levels \in Nat
  BY LevelsNat
<1>1. 0 \in S
  <2> DEFINE g == [n \in 0..Levels |-> 1]
  <2>1. g \in F /\ Doubling(g, 0)
    BY <1>0
  <2> QED BY <2>1
<1>2. ASSUME NEW k \in Nat, k \in S PROVE k + 1 \in S
  <2> SUFFICES ASSUME k + 1 <= Levels PROVE \E g \in F : Doubling(g, k + 1)
    OBVIOUS
  <2>1. PICK g \in F : Doubling(g, k)
    BY <1>0, <1>2
  <2> DEFINE h == [g EXCEPT ![k + 1] = 2 * g[k]]
  <2>2. g[k] \in Nat /\ k + 1 \in 0..Levels /\ k \in 0..Levels
    BY <1>0
  <2>3. h \in F /\ h[k + 1] = 2 * g[k] /\ \A i \in 0..k : h[i] = g[i]
    BY <1>0, <2>2
  <2> HIDE DEF h
  <2>4. ASSUME NEW i \in 0..(k + 1)
        PROVE  h[i] = IF i = 0 THEN 1 ELSE 2 * h[i - 1]
    <3>1. CASE i = k + 1
      <4>1. (k + 1) - 1 = k /\ k + 1 # 0 /\ k \in 0..k
        OBVIOUS
      <4> QED BY <2>3, <3>1, <4>1
    <3>2. CASE i # k + 1
      <4>1. i \in 0..k /\ (i # 0 => i - 1 \in 0..k)
        BY <3>2
      <4> QED BY <2>1, <2>3, <4>1
    <3> QED BY <3>1, <3>2
  <2> QED BY <2>3, <2>4
<1> HIDE DEF S
<1>3. Levels \in S
  BY <1>0, <1>1, <1>2, SetInduction
<1>4. PICK g \in F : Doubling(g, Levels)
  <2> HIDE DEF Doubling
  <2>1. Levels <= Levels => \E g \in F : Doubling(g, Levels)
    BY <1>3 DEF S
  <2>2. Levels <= Levels
    BY <1>0
  <2> QED BY <2>1, <2>2
<1>5. g = [n \in 0..Levels |-> IF n = 0 THEN 1 ELSE 2 * g[n - 1]]
  BY <1>4
<1> QED BY <1>5

LEMMA PowerDef ==
  \A n \in 0..Levels : pow2[n] = IF n = 0 THEN 1 ELSE 2 * pow2[n - 1]
<1>1. pow2 = [n \in 0..Levels |-> IF n = 0 THEN 1 ELSE 2 * pow2[n - 1]]
  BY PowersExist DEF pow2
<1> HIDE DEF pow2
<1> QED BY <1>1

\* The powers of two.
LEMMA Powers ==
  /\ pow2[0] = 1
  /\ \A n \in 0..Levels : pow2[n] \in Nat /\ pow2[n] > 0
  /\ \A n \in 0..Levels : n > 0 => pow2[n] = 2 * pow2[n - 1]
<1> DEFINE p == pow2
           S == {k \in Nat : k <= Levels => p[k] \in Nat /\ p[k] > 0}
<1>1. \A n \in 0..Levels : p[n] = IF n = 0 THEN 1 ELSE 2 * p[n - 1]
  BY PowerDef
<1>0. Levels \in Nat
  BY LevelsNat
<1> HIDE DEF p
<1>2. 0 \in S
  BY <1>0, <1>1
<1>3. ASSUME NEW k \in Nat, k \in S PROVE k + 1 \in S
  <2> SUFFICES ASSUME k + 1 <= Levels PROVE p[k + 1] \in Nat /\ p[k + 1] > 0
    OBVIOUS
  <2>1. p[k] \in Nat /\ p[k] > 0
    BY <1>0, <1>3
  <2>2. k + 1 \in 0..Levels /\ k + 1 # 0 /\ (k + 1) - 1 = k
    BY <1>0
  <2>3. p[k + 1] = 2 * p[k]
    BY <1>1, <2>2
  <2> QED BY <2>1, <2>3
<1> HIDE DEF S
<1>4. Nat \subseteq S
  BY <1>2, <1>3, SetInduction
<1>5. \A n \in 0..Levels : p[n] \in Nat /\ p[n] > 0
  BY <1>0, <1>4 DEF S
<1>6. p[0] = 1
  BY <1>0, <1>1
<1> QED BY <1>1, <1>5, <1>6 DEF p

\* The larger power is the product of the smaller one and a third.
LEMMA PowerProduct ==
  ASSUME NEW m \in Nat, NEW n \in Nat, m + n <= Levels
  PROVE  pow2[m + n] = pow2[m] * pow2[n]
<1> DEFINE p == pow2
           S == {k \in Nat : m + k <= Levels => p[m + k] = p[m] * p[k]}
<1>0. Levels \in Nat
  BY LevelsNat
<1>1. /\ p[0] = 1
      /\ \A i \in 0..Levels : p[i] \in Nat
      /\ \A i \in 0..Levels : i > 0 => p[i] = 2 * p[i - 1]
  BY Powers
<1> HIDE DEF p
<1>2. 0 \in S
  <2>1. m \in 0..Levels
    BY <1>0
  <2> QED BY <1>1, <2>1
<1>3. ASSUME NEW k \in Nat, k \in S PROVE k + 1 \in S
  <2> SUFFICES ASSUME m + (k + 1) <= Levels PROVE p[m + (k + 1)] = p[m] * p[k + 1]
    OBVIOUS
  <2>1. /\ m \in 0..Levels /\ k \in 0..Levels /\ k + 1 \in 0..Levels /\ m + k \in 0..Levels
        /\ m + (k + 1) \in 0..Levels /\ (k + 1) - 1 = k /\ (m + (k + 1)) - 1 = m + k
        /\ k + 1 > 0 /\ m + (k + 1) > 0
    BY <1>0
  <2>2. p[m + k] = p[m] * p[k]
    BY <1>0, <1>3, <2>1
  <2>3. p[k + 1] = 2 * p[k] /\ p[m + (k + 1)] = 2 * p[m + k]
    BY <1>1, <2>1
  <2>4. \A x, y \in Nat : 2 * (x * y) = x * (2 * y)
    OBVIOUS
  <2> QED BY <1>1, <2>1, <2>2, <2>3, <2>4
<1> HIDE DEF S
<1>4. Nat \subseteq S
  BY <1>2, <1>3, SetInduction
<1> QED BY <1>4 DEF S, p

\* A larger power is at least the double.
LEMMA PowersGrow ==
  ASSUME NEW m \in Nat, NEW n \in Nat, m < n, n <= Levels
  PROVE  2 * pow2[m] <= pow2[n]
<1>0. Levels \in Nat
  BY LevelsNat
<1>1. n - m \in Nat /\ m + (n - m) = n /\ n - m \in 0..Levels /\ n - m > 0 /\ m \in 0..Levels
      /\ (n - m) - 1 \in 0..Levels
  BY <1>0
<1>2. pow2[n] = pow2[m] * pow2[n - m]
  BY <1>1, PowerProduct
<1>3. pow2[n - m] >= 2 /\ pow2[n - m] \in Nat /\ pow2[m] \in Nat
  BY <1>1, Powers
<1>4. \A x, y \in Nat : y >= 2 => 2 * x <= x * y
  OBVIOUS
<1> QED BY <1>2, <1>3, <1>4

-----------------------------------------------------------------------------
(* Places and bits.                                                        *)

LEMMA Division ==
  ASSUME NEW p \in Nat, NEW s \in Nat, s > 0
  PROVE  /\ p \div s \in Nat /\ p % s \in Nat /\ p % s < s
         /\ p = s * (p \div s) + (p % s)
OBVIOUS

LEMMA Quotient ==
  ASSUME NEW k \in Nat, NEW s \in Nat, s > 0, NEW r \in Nat, r < s, NEW p \in Nat, p = s * k + r
  PROVE  p \div s = k /\ p % s = r
OBVIOUS

LEMMA Cancel ==
  ASSUME NEW a \in Int, NEW c \in Int, NEW s \in Nat, s > 0
  PROVE  /\ s * a < s * c <=> a < c
         /\ s * a <= s * c <=> a <= c
<1>1. a < c => s * a < s * c
  OBVIOUS
<1>2. c < a => s * c < s * a
  OBVIOUS
<1>3. a = c => s * c = s * a
  OBVIOUS
<1>4. s * a \in Int /\ s * c \in Int
  OBVIOUS
<1> QED BY <1>1, <1>2, <1>3, <1>4

\* Each list halves the blocks of the one before.
LEMMA SizesOfBlocks ==
  ASSUME NEW l \in Lists
  PROVE  /\ BlockSize(l) \in Nat /\ BlockSize(l) > 0
         /\ pow2[l] \in Nat /\ pow2[l] > 0
         /\ l > 0 => BlockSize(l - 1) = 2 * BlockSize(l) /\ pow2[l] = 2 * pow2[l - 1]
         /\ arena_size = BlockSize(l) * pow2[l]
         /\ arena_size \in Nat /\ arena_size > 0
<1>1. l \in 0..Levels /\ Levels - l \in 0..Levels /\ Levels \in 0..Levels /\ Levels \in Nat
      /\ l \in Nat /\ Levels - l \in Nat /\ (Levels - l) + l = Levels /\ (Levels - l) + l <= Levels
  BY LevelsNat DEF Lists
<1>2. arena_size = BlockSize(l) * pow2[l]
  BY <1>1, PowerProduct DEF arena_size, BlockSize
<1>3. ASSUME l > 0 PROVE BlockSize(l - 1) = 2 * BlockSize(l) /\ pow2[l] = 2 * pow2[l - 1]
  <2>1. /\ Levels - (l - 1) \in 0..Levels /\ Levels - (l - 1) > 0
        /\ (Levels - (l - 1)) - 1 = Levels - l
    BY <1>1, <1>3
  <2> QED BY <1>1, <1>3, <2>1, Powers DEF BlockSize
<1> QED BY <1>1, <1>2, <1>3, Powers DEF BlockSize, arena_size

Nodes == {x \in Lists \X Units : x[2] % BlockSize(x[1]) = 0}
Span(x) == Block(x[2], x[1])
BitOf(x) == Bit(x[2], x[1])

LEMMA NodeFields ==
  ASSUME NEW x \in Nodes
  PROVE  /\ x[1] \in Lists /\ x[2] \in Units /\ x = <<x[1], x[2]>>
         /\ x[1] \in Nat /\ x[2] \in Nat /\ x[2] < arena_size
<1>1. x \in Lists \X Units
  BY DEF Nodes
<1>2. x[1] \in Lists /\ x[2] \in Units /\ x = <<x[1], x[2]>>
  BY <1>1
<1>3. arena_size \in Nat
  BY <1>2, SizesOfBlocks
<1> QED BY <1>2, <1>3, LevelsNat DEF Lists, Units

LEMMA IsNode ==
  ASSUME NEW l \in Lists, NEW k \in Nat, k < pow2[l]
  PROVE  /\ <<l, BlockSize(l) * k>> \in Nodes
         /\ (BlockSize(l) * k) \div BlockSize(l) = k
         /\ BlockSize(l) * k + BlockSize(l) <= arena_size
<1> DEFINE s == BlockSize(l)
           p == s * k
<1>1. s \in Nat /\ s > 0 /\ pow2[l] \in Nat /\ arena_size = s * pow2[l] /\ arena_size \in Nat
  BY SizesOfBlocks
<1> HIDE DEF s
<1>2. p \in Nat /\ p = s * k + 0 /\ p + s = s * (k + 1)
  BY <1>1
<1>3. k + 1 \in Int /\ k + 1 <= pow2[l]
  BY <1>1
<1>4. s * (k + 1) <= s * pow2[l]
  BY <1>1, <1>3, Cancel
<1>5. p + s <= arena_size
  BY <1>1, <1>2, <1>4
<1>6. p \div s = k /\ p % s = 0
  BY <1>1, <1>2, Quotient
<1>7. p \in Units
  BY <1>1, <1>2, <1>5 DEF Units
<1>8. <<l, p>> \in Nodes
  BY <1>6, <1>7 DEF Nodes, s
<1> QED BY <1>5, <1>6, <1>8 DEF s

LEMMA UnitIndex ==
  ASSUME NEW l \in Lists, NEW u \in Units
  PROVE  LET k == u \div BlockSize(l) IN
         /\ k \in Nat /\ k < pow2[l]
         /\ BlockSize(l) * k <= u /\ u < BlockSize(l) * k + BlockSize(l)
<1> DEFINE s == BlockSize(l)
           k == u \div s
<1>1. s \in Nat /\ s > 0 /\ pow2[l] \in Nat /\ arena_size = s * pow2[l] /\ arena_size \in Nat
  BY SizesOfBlocks
<1>2. u \in Nat /\ u < arena_size
  BY <1>1 DEF Units
<1> HIDE DEF s
<1>3. k \in Nat /\ u % s \in Nat /\ u % s < s /\ u = s * k + (u % s)
  BY <1>1, <1>2, Division
<1>4. s * k \in Nat
  BY <1>1, <1>3
<1>5. s * k <= u /\ u < s * k + s
  <2>1. \A q, r \in Nat : u = q + r /\ r < s => q <= u /\ u < q + s
    BY <1>1, <1>2
  <2> QED BY <1>3, <1>4, <2>1
<1>6. k < pow2[l]
  <2>1. s * k < s * pow2[l]
    BY <1>1, <1>2, <1>4, <1>5
  <2> QED BY <1>1, <1>3, <2>1, Cancel
<1> QED BY <1>3, <1>5, <1>6 DEF s

LEMMA NodeIndex ==
  ASSUME NEW x \in Nodes
  PROVE  LET s == BlockSize(x[1])
             k == x[2] \div s IN
         /\ k \in Nat /\ k < pow2[x[1]] /\ x[2] = s * k
         /\ x[2] + s <= arena_size
<1> DEFINE s == BlockSize(x[1])
           k == x[2] \div s
<1>1. x[1] \in Lists /\ x[2] \in Units /\ x[2] \in Nat
  BY NodeFields
<1>2. k \in Nat /\ k < pow2[x[1]]
  BY <1>1, UnitIndex
<1>3. s \in Nat /\ s > 0
  BY <1>1, SizesOfBlocks
<1>4. x[2] % s = 0
  BY DEF Nodes
<1>5. x[2] = s * k
  BY <1>1, <1>3, <1>4, Division
<1>6. s * k + s <= arena_size
  BY <1>1, <1>2, IsNode
<1> QED BY <1>2, <1>5, <1>6

\* The bits of one list are apart from those of another.
LEMMA BitRange ==
  ASSUME NEW l \in Lists, NEW u \in Units
  PROVE  /\ Bit(u, l) = pow2[l] + (u \div BlockSize(l))
         /\ Bit(u, l) \in Nat /\ pow2[l] <= Bit(u, l) /\ Bit(u, l) < 2 * pow2[l]
         /\ Bit(u, l) \in 1..(bittable_size - 1)
<1>1. pow2[l] \in Nat /\ pow2[l] > 0 /\ arena_size \in Nat
  BY SizesOfBlocks
<1>2. u \div BlockSize(l) \in Nat /\ u \div BlockSize(l) < pow2[l]
  BY UnitIndex
<1>3. pow2[l] <= arena_size
  <2>1. l \in Nat /\ Levels \in Nat /\ l <= Levels
    BY LevelsNat DEF Lists
  <2>2. CASE l = Levels
    BY <1>1, <2>2 DEF arena_size
  <2>3. CASE l < Levels
    <3>1. 2 * pow2[l] <= arena_size
      BY <2>1, <2>3, PowersGrow DEF arena_size
    <3> QED BY <1>1, <3>1
  <2> QED BY <2>1, <2>2, <2>3
<1>4. Bit(u, l) = pow2[l] + (u \div BlockSize(l))
  BY DEF Bit
<1> QED BY <1>1, <1>2, <1>3, <1>4 DEF bittable_size

LEMMA BitsDiffer ==
  ASSUME NEW l \in Lists, NEW u \in Units, NEW m \in Lists, NEW v \in Units,
         Bit(u, l) = Bit(v, m)
  PROVE  l = m /\ u \div BlockSize(l) = v \div BlockSize(l)
<1>1. l \in Nat /\ m \in Nat /\ l <= Levels /\ m <= Levels
  BY LevelsNat DEF Lists
<1>2. /\ pow2[l] <= Bit(u, l) /\ Bit(u, l) < 2 * pow2[l] /\ Bit(u, l) \in Nat
      /\ pow2[m] <= Bit(v, m) /\ Bit(v, m) < 2 * pow2[m]
      /\ pow2[l] \in Nat /\ pow2[m] \in Nat
  BY BitRange, SizesOfBlocks
<1>3. ~ (l < m)
  BY <1>1, <1>2, PowersGrow
<1>4. ~ (m < l)
  BY <1>1, <1>2, PowersGrow
<1>5. l = m
  BY <1>1, <1>3, <1>4
<1>6. u \div BlockSize(l) \in Nat /\ v \div BlockSize(l) \in Nat
  BY UnitIndex
<1>7. pow2[l] + (u \div BlockSize(l)) = pow2[l] + (v \div BlockSize(l))
  BY <1>5, BitRange
<1> QED BY <1>2, <1>5, <1>6, <1>7

LEMMA NodesDiffer ==
  ASSUME NEW x \in Nodes, NEW y \in Nodes, BitOf(x) = BitOf(y)
  PROVE  x = y
<1>1. x[1] \in Lists /\ x[2] \in Units /\ y[1] \in Lists /\ y[2] \in Units
  BY NodeFields
<1>2. x[1] = y[1] /\ x[2] \div BlockSize(x[1]) = y[2] \div BlockSize(x[1])
  BY <1>1, BitsDiffer DEF BitOf
<1>3. x[2] = y[2]
  BY <1>2, NodeIndex
<1> QED BY <1>2, <1>3, NodeFields

\* The node of list l that unit u is in.
Above(u, l) == <<l, BlockSize(l) * (u \div BlockSize(l))>>

LEMMA AboveIsNode ==
  ASSUME NEW l \in Lists, NEW u \in Units
  PROVE  /\ Above(u, l) \in Nodes /\ BitOf(Above(u, l)) = Bit(u, l)
         /\ u \in Span(Above(u, l))
<1> DEFINE s == BlockSize(l)
           k == u \div s
           p == s * k
<1>1. k \in Nat /\ k < pow2[l] /\ p <= u /\ u < p + s
  BY UnitIndex
<1>2. s \in Nat /\ u \in Nat
  BY SizesOfBlocks DEF Units
<1>3. <<l, p>> \in Nodes /\ p \div s = k
  BY <1>1, IsNode
<1>4. Above(u, l) = <<l, p>> /\ Above(u, l)[1] = l /\ Above(u, l)[2] = p
  BY DEF Above
<1>5. BitOf(Above(u, l)) = Bit(u, l)
  BY <1>3, <1>4 DEF BitOf, Bit
<1>6. p \in Nat
  BY <1>1, <1>2
<1>7. u \in p..(p + s - 1)
  <2> HIDE DEF p, s
  <2> QED BY <1>1, <1>2, <1>6
<1> QED BY <1>3, <1>4, <1>5, <1>7 DEF Span, Block

-----------------------------------------------------------------------------
(* Halves, doubles and buddies.                                            *)

Even(x) == (x[2] \div BlockSize(x[1])) % 2 = 0
Buddy(x) == <<x[1], IF Even(x) THEN x[2] + BlockSize(x[1]) ELSE x[2] - BlockSize(x[1])>>
Parent(x) == <<x[1] - 1, IF Even(x) THEN x[2] ELSE x[2] - BlockSize(x[1])>>
Lower(x) == <<x[1] + 1, x[2]>>
Upper(x) == <<x[1] + 1, x[2] + BlockSize(x[1] + 1)>>

\* The two halves of the node of list l with index k.
LEMMA Halves ==
  ASSUME NEW l \in Lists, l + 1 \in Lists, NEW k \in Nat, k < pow2[l]
  PROVE  LET s == BlockSize(l + 1)
             x == <<l, BlockSize(l) * k>>
             a == <<l + 1, s * (2 * k)>>
             c == <<l + 1, s * (2 * k + 1)>> IN
         /\ x \in Nodes /\ a \in Nodes /\ c \in Nodes
         /\ a = Lower(x) /\ c = Upper(x)
         /\ Even(a) /\ ~Even(c)
         /\ Buddy(a) = c /\ Buddy(c) = a /\ Parent(a) = x /\ Parent(c) = x
         /\ a[2] < c[2] /\ a[2] = x[2] /\ c[2] = x[2] + s
         /\ BlockSize(l) = 2 * s
<1> DEFINE s == BlockSize(l + 1)
           t == BlockSize(l)
           x == <<l, t * k>>
           a == <<l + 1, s * (2 * k)>>
           c == <<l + 1, s * (2 * k + 1)>>
<1>1. l \in Nat /\ l + 1 > 0 /\ (l + 1) - 1 = l
  BY DEF Lists
<1>2. s \in Nat /\ s > 0 /\ t = 2 * s /\ pow2[l + 1] = 2 * pow2[l] /\ pow2[l] \in Nat /\ t \in Nat
  BY <1>1, SizesOfBlocks
<1>3. 2 * k \in Nat /\ 2 * k + 1 \in Nat /\ 2 * k < pow2[l + 1] /\ 2 * k + 1 < pow2[l + 1]
  BY <1>2
<1>4. a \in Nodes /\ c \in Nodes /\ x \in Nodes
  BY <1>3, IsNode
<1>5. (s * (2 * k)) \div s = 2 * k /\ (s * (2 * k + 1)) \div s = 2 * k + 1
  BY <1>3, IsNode
<1>6. (2 * k) % 2 = 0 /\ (2 * k + 1) % 2 = 1
  OBVIOUS
<1>7. Even(a) /\ ~Even(c)
  BY <1>5, <1>6 DEF Even
<1>8. /\ t * k = s * (2 * k) /\ s * (2 * k + 1) = s * (2 * k) + s
      /\ s * (2 * k) = s * (2 * k + 1) - s /\ s * (2 * k) \in Nat
  BY <1>2
<1>9. a[1] = l + 1 /\ a[2] = s * (2 * k) /\ c[1] = l + 1 /\ c[2] = s * (2 * k + 1)
      /\ x[1] = l /\ x[2] = t * k
  OBVIOUS
<1>10. a = Lower(x) /\ c = Upper(x)
  BY <1>8, <1>9 DEF Lower, Upper
<1>11. Buddy(a) = c
  BY <1>7, <1>8, <1>9 DEF Buddy
<1>12. Buddy(c) = a
  BY <1>7, <1>8, <1>9 DEF Buddy
<1>13. Parent(a) = x
  BY <1>1, <1>7, <1>8, <1>9 DEF Parent
<1>14. Parent(c) = x
  BY <1>1, <1>7, <1>8, <1>9 DEF Parent
<1>15. a[2] < c[2] /\ a[2] = x[2] /\ c[2] = x[2] + s
  BY <1>2, <1>8, <1>9
<1> QED BY <1>2, <1>4, <1>7, <1>10, <1>11, <1>12, <1>13, <1>14, <1>15

\* What a block is split into.
LEMMA SplitNode ==
  ASSUME NEW x \in Nodes, x[1] < Levels
  PROVE  /\ Lower(x) \in Nodes /\ Upper(x) \in Nodes /\ Lower(x) # Upper(x)
         /\ Lower(x) # x /\ Upper(x) # x
         /\ Buddy(Upper(x)) = Lower(x) /\ Buddy(Lower(x)) = Upper(x)
         /\ Parent(Upper(x)) = x /\ Parent(Lower(x)) = x
         /\ BlockSize(x[1]) = 2 * BlockSize(x[1] + 1) /\ x[1] + 1 \in Lists
<1> DEFINE k == x[2] \div BlockSize(x[1])
<1>1. k \in Nat /\ k < pow2[x[1]] /\ x[2] = BlockSize(x[1]) * k
  BY NodeIndex
<1>2. x[1] \in Lists /\ x[1] + 1 \in Lists /\ x = <<x[1], x[2]>> /\ x[1] \in Nat
  BY NodeFields, LevelsNat DEF Lists
<1>3. x = <<x[1], BlockSize(x[1]) * k>>
  BY <1>1, <1>2
<1> HIDE DEF k
<1>4. /\ Lower(x) \in Nodes /\ Upper(x) \in Nodes
      /\ Buddy(Upper(x)) = Lower(x) /\ Buddy(Lower(x)) = Upper(x)
      /\ Parent(Upper(x)) = x /\ Parent(Lower(x)) = x
      /\ BlockSize(x[1]) = 2 * BlockSize(x[1] + 1)
      /\ Even(Lower(x)) /\ ~Even(Upper(x))
  <2> DEFINE l == x[1]
             y == <<l, BlockSize(l) * k>>
             a == <<l + 1, BlockSize(l + 1) * (2 * k)>>
             c == <<l + 1, BlockSize(l + 1) * (2 * k + 1)>>
  <2>1. /\ y \in Nodes /\ a \in Nodes /\ c \in Nodes
        /\ a = Lower(y) /\ c = Upper(y)
        /\ Even(a) /\ ~Even(c)
        /\ Buddy(a) = c /\ Buddy(c) = a /\ Parent(a) = y /\ Parent(c) = y
        /\ BlockSize(l) = 2 * BlockSize(l + 1)
    <3> HIDE DEF l
    <3>1. l \in Lists /\ l + 1 \in Lists /\ k < pow2[l]
      BY <1>1, <1>2 DEF l
    <3> QED BY <1>1, <3>1, Halves
  <2>2. y = x
    BY <1>3
  <2> HIDE DEF y, a, c
  <2> QED BY <2>1, <2>2 DEF l
<1>5. Lower(x) # Upper(x)
  BY <1>4
<1>6. Lower(x)[1] # x[1] /\ Upper(x)[1] # x[1]
  BY <1>2 DEF Lower, Upper
<1> QED BY <1>2, <1>4, <1>5, <1>6

\* What a block and its buddy are joined to.
LEMMA JoinNode ==
  ASSUME NEW x \in Nodes, x[1] > 0
  PROVE  /\ Parent(x) \in Nodes /\ Buddy(x) \in Nodes /\ Buddy(x) # x
         /\ Buddy(Buddy(x)) = x /\ Parent(Buddy(x)) = Parent(x)
         /\ {x, Buddy(x)} = {Lower(Parent(x)), Upper(Parent(x))}
         /\ Parent(x)[1] = x[1] - 1 /\ x[1] - 1 \in Lists /\ x[1] - 1 < Levels /\ Buddy(x)[1] = x[1]
         /\ Parent(x)[2] = Min({x[2], Buddy(x)[2]})
         /\ Max({x[2], Buddy(x)[2]}) = Upper(Parent(x))[2]
         /\ BlockSize(x[1] - 1) = 2 * BlockSize(x[1])
<1> DEFINE j == x[2] \div BlockSize(x[1])
           l == x[1] - 1
           k == j \div 2
           s == BlockSize(x[1])
<1>1. j \in Nat /\ j < pow2[x[1]] /\ x[2] = s * j
  BY NodeIndex
<1>2. /\ x[1] \in Lists /\ x = <<x[1], x[2]>> /\ x[1] \in Nat /\ l \in Lists /\ l + 1 = x[1]
      /\ l \in Nat /\ l < Levels
  BY NodeFields, LevelsNat DEF Lists
<1>3. pow2[x[1]] = 2 * pow2[l] /\ pow2[l] \in Nat /\ BlockSize(l) = 2 * s
  BY <1>2, SizesOfBlocks
<1>4. k \in Nat /\ (j = 2 * k \/ j = 2 * k + 1) /\ k < pow2[l]
  <2> HIDE DEF j, l
  <2> QED BY <1>1, <1>3
<1> DEFINE p == <<l, BlockSize(l) * k>>
           a == <<l + 1, s * (2 * k)>>
           c == <<l + 1, s * (2 * k + 1)>>
<1>5. /\ p \in Nodes /\ a \in Nodes /\ c \in Nodes
      /\ a = Lower(p) /\ c = Upper(p)
      /\ Even(a) /\ ~Even(c)
      /\ Buddy(a) = c /\ Buddy(c) = a /\ Parent(a) = p /\ Parent(c) = p
      /\ a[2] < c[2] /\ a[2] = p[2] /\ c[2] = p[2] + s
  <2> HIDE DEF j, k, l
  <2> QED BY <1>2, <1>4, Halves
<1>6. x = a \/ x = c
  <2> HIDE DEF j, k, l
  <2> QED BY <1>1, <1>2, <1>4
<1>7. p[1] = l /\ a[1] = x[1] /\ c[1] = x[1]
  BY <1>2
<1> HIDE DEF a, c, p, k, j, l, s
<1>8. a[2] \in Nat /\ c[2] \in Nat
  BY <1>5, NodeFields
<1>9. /\ Min({a[2], c[2]}) = a[2] /\ Max({a[2], c[2]}) = c[2]
      /\ Min({c[2], a[2]}) = a[2] /\ Max({c[2], a[2]}) = c[2]
  BY <1>5, <1>8 DEF Min, Max
<1>10. CASE x = a
  BY <1>2, <1>3, <1>5, <1>7, <1>9, <1>10 DEF l, s
<1>11. CASE x = c
  BY <1>2, <1>3, <1>5, <1>7, <1>9, <1>11 DEF l, s
<1> QED BY <1>6, <1>10, <1>11

\* bit ^ 1 is the bit of the buddy; that of the whole arena is no bit.
BuddyBit(bit) == IF bit % 2 = 0 THEN bit + 1 ELSE bit - 1

LEMMA BuddyBits ==
  ASSUME NEW x \in Nodes
  PROVE  /\ x[1] = 0 => BuddyBit(BitOf(x)) = 0
         /\ x[1] > 0 => /\ BuddyBit(BitOf(x)) = BitOf(Buddy(x))
                        /\ (BuddyBit(BitOf(x)) % pow2[x[1]]) * BlockSize(x[1]) = Buddy(x)[2]
<1> DEFINE l == x[1]
           s == BlockSize(l)
           j == x[2] \div s
           bit == BitOf(x)
<1>1. /\ l \in Lists /\ l \in Nat /\ x[2] \in Units /\ x[2] \in Nat
      /\ s \in Nat /\ s > 0 /\ pow2[l] \in Nat /\ pow2[l] > 0
  BY NodeFields, SizesOfBlocks
<1>2. j \in Nat /\ j < pow2[l] /\ x[2] = s * j
  BY NodeIndex
<1>3. bit = pow2[l] + j
  BY DEF BitOf, Bit
<1> HIDE DEF j, bit
<1>4. CASE l = 0
  <2>1. pow2[l] = 1
    BY <1>4, Powers
  <2>2. j = 0 /\ bit = 1
    BY <1>2, <1>3, <2>1
  <2> QED BY <1>4, <2>2 DEF BuddyBit, bit
<1>5. CASE l > 0
  <2> DEFINE y == Buddy(x)
             i == y[2] \div s
  <2>1. y \in Nodes /\ y[1] = l /\ y[2] = IF Even(x) THEN x[2] + s ELSE x[2] - s
    BY <1>5, JoinNode DEF Buddy
  <2>2. i \in Nat /\ i < pow2[l] /\ y[2] = s * i
    BY <2>1, NodeIndex
  <2>3. BitOf(y) = pow2[l] + i
    BY <2>1 DEF BitOf, Bit
  <2>4. pow2[l] = 2 * pow2[l - 1] /\ pow2[l - 1] \in Nat
    <3>1. l - 1 \in Lists
      BY <1>1, <1>5, LevelsNat DEF Lists
    <3> QED BY <1>1, <1>5, <3>1, SizesOfBlocks
  <2>5. Even(x) <=> j % 2 = 0
    BY DEF Even, j
  <2> HIDE DEF y, i, s
  <2>6. i = IF Even(x) THEN j + 1 ELSE j - 1
    <3>1. CASE Even(x)
      <4>1. s * i = s * (j + 1)
        BY <1>1, <1>2, <2>1, <2>2, <3>1
      <4>2. i <= j + 1 /\ j + 1 <= i
        <5>1. s * i \in Int /\ s * i <= s * (j + 1) /\ s * (j + 1) <= s * i
          BY <1>1, <2>2, <4>1
        <5> QED BY <1>1, <1>2, <2>2, <5>1, Cancel
      <4> QED BY <1>2, <2>2, <3>1, <4>2
    <3>2. CASE ~Even(x)
      <4>1. s * i = s * (j - 1)
        BY <1>1, <1>2, <2>1, <2>2, <3>2
      <4>2. i <= j - 1 /\ j - 1 <= i
        <5>1. s * i \in Int /\ s * i <= s * (j - 1) /\ s * (j - 1) <= s * i
          BY <1>1, <2>2, <4>1
        <5> QED BY <1>1, <1>2, <2>2, <5>1, Cancel
      <4> QED BY <1>2, <2>2, <3>2, <4>2
    <3> QED BY <3>1, <3>2
  <2>7. bit % 2 = 0 <=> j % 2 = 0
    BY <1>2, <1>3, <2>4
  <2>8. BuddyBit(bit) = pow2[l] + i
    BY <1>1, <1>2, <1>3, <2>2, <2>5, <2>6, <2>7 DEF BuddyBit
  <2>9. (pow2[l] + i) % pow2[l] = i
    <3>1. pow2[l] + i \in Nat /\ pow2[l] + i = pow2[l] * 1 + i
      BY <1>1, <2>2
    <3> QED BY <1>1, <2>2, <3>1, Quotient
  <2>10. i * s = y[2]
    BY <1>1, <2>2
  <2>11. BuddyBit(bit) = BitOf(y) /\ (BuddyBit(bit) % pow2[l]) * s = y[2]
    BY <2>3, <2>8, <2>9, <2>10
  <2> QED BY <1>5, <2>11 DEF bit, y, s
<1> QED BY <1>1, <1>4, <1>5

-----------------------------------------------------------------------------
(* The units of a block.                                                   *)

LEMMA SpanUnits ==
  ASSUME NEW x \in Nodes
  PROVE  /\ Span(x) = {u \in Nat : x[2] <= u /\ u < x[2] + BlockSize(x[1])}
         /\ Span(x) \subseteq Units /\ x[2] \in Span(x)
<1>1. /\ x[1] \in Lists /\ x[2] \in Nat /\ BlockSize(x[1]) \in Nat /\ BlockSize(x[1]) > 0
      /\ x[2] + BlockSize(x[1]) <= arena_size /\ arena_size \in Nat
  BY NodeFields, NodeIndex, SizesOfBlocks
<1>2. Span(x) = x[2]..(x[2] + BlockSize(x[1]) - 1)
  BY DEF Span, Block
<1> DEFINE p == x[2]
           s == BlockSize(x[1])
<1> HIDE DEF p, s
<1>3. /\ p..(p + s - 1) = {u \in Nat : p <= u /\ u < p + s}
      /\ p..(p + s - 1) \subseteq 0..(arena_size - 1) /\ p \in p..(p + s - 1)
  <2>1. p \in Nat /\ s \in Nat /\ s > 0 /\ p + s <= arena_size /\ arena_size \in Nat
    BY <1>1 DEF p, s
  <2> QED BY <2>1
<1> QED BY <1>2, <1>3 DEF p, s, Units

LEMMA SpanSplit ==
  ASSUME NEW x \in Nodes, x[1] < Levels
  PROVE  /\ Span(x) = Span(Lower(x)) \cup Span(Upper(x))
         /\ Span(Lower(x)) \cap Span(Upper(x)) = {}
<1> DEFINE p == x[2]
           s == BlockSize(x[1] + 1)
<1>1. /\ Lower(x) \in Nodes /\ Upper(x) \in Nodes /\ BlockSize(x[1]) = 2 * s
      /\ x[1] + 1 \in Lists
  BY SplitNode
<1>2. Lower(x)[1] = x[1] + 1 /\ Lower(x)[2] = p /\ Upper(x)[1] = x[1] + 1 /\ Upper(x)[2] = p + s
  BY DEF Lower, Upper
<1>3. s \in Nat /\ p \in Nat
  BY <1>1, SizesOfBlocks, NodeFields
<1>4. /\ Span(x) = {u \in Nat : p <= u /\ u < p + 2 * s}
      /\ Span(Lower(x)) = {u \in Nat : p <= u /\ u < p + s}
      /\ Span(Upper(x)) = {u \in Nat : p + s <= u /\ u < (p + s) + s}
  BY <1>1, <1>2, SpanUnits
<1> HIDE DEF p, s
<1> QED BY <1>3, <1>4

\* Of two blocks that share a unit the smaller lies within the larger.
LEMMA Nested ==
  ASSUME NEW x \in Nodes, NEW y \in Nodes, x[1] <= y[1], NEW u \in Span(x) \cap Span(y)
  PROVE  Span(y) \subseteq Span(x)
<1> DEFINE s == BlockSize(y[1])
           t == BlockSize(x[1])
           c == pow2[y[1] - x[1]]
           j == y[2] \div s
           k == x[2] \div t
<1>1. /\ x[1] \in Lists /\ y[1] \in Lists /\ x[1] \in Nat /\ y[1] \in Nat
      /\ s \in Nat /\ s > 0 /\ t \in Nat
  BY NodeFields, SizesOfBlocks
<1>2. j \in Nat /\ y[2] = s * j /\ k \in Nat /\ x[2] = t * k
  BY NodeIndex
<1>3. /\ Levels \in Nat /\ x[1] <= Levels /\ y[1] <= Levels /\ y[1] - x[1] \in 0..Levels
      /\ Levels - y[1] \in Nat /\ y[1] - x[1] \in Nat
      /\ (Levels - y[1]) + (y[1] - x[1]) = Levels - x[1] /\ Levels - x[1] <= Levels
  BY <1>1, LevelsNat DEF Lists
<1>4. t = s * c /\ c \in Nat
  BY <1>3, PowerProduct, Powers DEF BlockSize
<1>5. /\ Span(x) = {v \in Nat : x[2] <= v /\ v < x[2] + t}
      /\ Span(y) = {v \in Nat : y[2] <= v /\ v < y[2] + s}
  BY SpanUnits
<1> HIDE DEF s, t, c, j, k
<1>6. u \in Nat /\ s * j <= u /\ u < s * j + s /\ t * k <= u /\ u < t * k + t
  BY <1>2, <1>5
<1>7. t * k = s * (c * k) /\ t * k + t = s * (c * k + c) /\ s * j + s = s * (j + 1)
  BY <1>1, <1>2, <1>4
<1>8. /\ c * k \in Nat /\ s * j \in Nat /\ s * (c * k) \in Nat /\ s * (c * k + c) \in Nat
      /\ s * (j + 1) \in Nat /\ c * k + c \in Nat
  BY <1>1, <1>2, <1>4
<1>9. s * (c * k) < s * (j + 1) /\ s * j < s * (c * k + c)
  BY <1>6, <1>7, <1>8
<1>10. c * k < j + 1 /\ j < c * k + c
  BY <1>1, <1>2, <1>8, <1>9, Cancel
<1>11. c * k <= j /\ j + 1 <= c * k + c
  BY <1>2, <1>8, <1>10
<1>12. s * (c * k) <= s * j /\ s * (j + 1) <= s * (c * k + c)
  BY <1>1, <1>2, <1>8, <1>11, Cancel
<1>13. x[2] <= y[2] /\ y[2] + s <= x[2] + t /\ x[2] \in Nat /\ y[2] \in Nat
  BY <1>2, <1>7, <1>8, <1>12
<1> QED BY <1>1, <1>5, <1>13

-----------------------------------------------------------------------------
(* Tilings of the arena.                                                   *)

Tiles(T) ==
  /\ T \subseteq Nodes
  /\ \A u \in Units : \E x \in T : u \in Span(x)
  /\ \A x, y \in T : x # y => Span(x) \cap Span(y) = {}

HalvedTiling(T, x) == (T \ {x}) \cup {Lower(x), Upper(x)}
JoinedTiling(T, x) == (T \ {x, Buddy(x)}) \cup {Parent(x)}

\* A tiling stays one when a block is split.
LEMMA TilesHalved ==
  ASSUME NEW T, Tiles(T), NEW x \in T, x[1] < Levels
  PROVE  /\ Tiles(HalvedTiling(T, x)) /\ Lower(x) \notin T /\ Upper(x) \notin T
<1> DEFINE a == Lower(x)
           c == Upper(x)
           U == HalvedTiling(T, x)
<1>1. x \in Nodes /\ a \in Nodes /\ c \in Nodes /\ a # x /\ c # x /\ a # c
  BY SplitNode DEF Tiles
<1>2. Span(x) = Span(a) \cup Span(c) /\ Span(a) \cap Span(c) = {}
  BY <1>1, SpanSplit
<1>3. a[2] \in Span(a) /\ c[2] \in Span(c)
  BY <1>1, SpanUnits
<1> HIDE DEF a, c
<1>4. ASSUME NEW y \in T, y # x PROVE Span(y) \cap Span(a) = {} /\ Span(y) \cap Span(c) = {}
  BY <1>2, <1>4 DEF Tiles
<1>5. a \notin T /\ c \notin T
  BY <1>1, <1>3, <1>4
<1>6. U = (T \ {x}) \cup {a, c}
  BY DEF HalvedTiling, a, c
<1> HIDE DEF U
<1>7. U \subseteq Nodes
  BY <1>1, <1>6 DEF Tiles
<1>8. ASSUME NEW u \in Units PROVE \E y \in U : u \in Span(y)
  <2>1. PICK y \in T : u \in Span(y)
    BY DEF Tiles
  <2> QED BY <1>2, <1>6, <2>1
<1>9. ASSUME NEW y \in U, NEW z \in U, y # z PROVE Span(y) \cap Span(z) = {}
  <2>1. CASE y \in T /\ z \in T
    BY <1>9, <2>1 DEF Tiles
  <2>2. CASE ~ (y \in T /\ z \in T)
    BY <1>2, <1>4, <1>6, <1>9, <2>2
  <2> QED BY <2>1, <2>2
<1>10. Tiles(U)
  BY <1>7, <1>8, <1>9 DEF Tiles
<1> QED BY <1>5, <1>10 DEF U, a, c

\* A tiling stays one when two buddies are joined.
LEMMA TilesJoined ==
  ASSUME NEW T, Tiles(T), NEW x \in T, x[1] > 0, Buddy(x) \in T
  PROVE  Tiles(JoinedTiling(T, x)) /\ Parent(x) \notin T
<1> DEFINE y == Buddy(x)
           p == Parent(x)
           U == JoinedTiling(T, x)
<1>a. x \in Nodes
  BY DEF Tiles
<1>1. /\ x \in Nodes /\ y \in Nodes /\ p \in Nodes /\ y # x /\ {x, y} = {Lower(p), Upper(p)}
      /\ p[1] < Levels /\ p[1] = x[1] - 1
  BY <1>a, JoinNode
<1>2. Span(p) = Span(x) \cup Span(y)
  BY <1>1, SpanSplit
<1>3. x[2] \in Span(x)
  BY <1>1, SpanUnits
<1>0. p # x /\ y \in T
  BY <1>1, NodeFields
<1> HIDE DEF y, p
<1>4. p \notin T
  BY <1>0, <1>2, <1>3 DEF Tiles
<1>5. ASSUME NEW z \in T, z # x, z # y PROVE Span(z) \cap Span(p) = {}
  BY <1>0, <1>2, <1>5 DEF Tiles
<1>6. U = (T \ {x, y}) \cup {p}
  BY DEF JoinedTiling, y, p
<1> HIDE DEF U
<1>7. U \subseteq Nodes
  BY <1>1, <1>6 DEF Tiles
<1>8. ASSUME NEW u \in Units PROVE \E z \in U : u \in Span(z)
  <2>1. PICK z \in T : u \in Span(z)
    BY DEF Tiles
  <2> QED BY <1>2, <1>6, <2>1
<1>9. ASSUME NEW w \in U, NEW z \in U, w # z PROVE Span(w) \cap Span(z) = {}
  <2>1. CASE w \in T /\ z \in T
    BY <1>9, <2>1 DEF Tiles
  <2>2. CASE ~ (w \in T /\ z \in T)
    BY <1>5, <1>6, <1>9, <2>2
  <2> QED BY <2>1, <2>2
<1>10. Tiles(U)
  BY <1>7, <1>8, <1>9 DEF Tiles
<1> QED BY <1>4, <1>10 DEF U, p

-----------------------------------------------------------------------------
(* The record of the heap.                                                 *)

Heap(fl, bt, bm, di) ==
  [freelist |-> fl, bittable |-> bt, bitmalloc |-> bm, dirty |-> di, asserts |-> TRUE]

LEMMA HeapFields ==
  ASSUME NEW fl, NEW bt, NEW bm, NEW di
  PROVE  LET h == Heap(fl, bt, bm, di) IN
         /\ h.freelist = fl /\ h.bittable = bt /\ h.bitmalloc = bm /\ h.dirty = di
BY DEF Heap

LEMMA HeapAsserts ==
  ASSUME NEW fl, NEW bt, NEW bm, NEW di
  PROVE  Heap(fl, bt, bm, di).asserts
BY DEF Heap

LEMMA SetLists ==
  ASSUME NEW fl, NEW bt, NEW bm, NEW di, NEW v
  PROVE  [Heap(fl, bt, bm, di) EXCEPT !.freelist = v] = Heap(v, bt, bm, di)
<1> DEFINE yes == TRUE
           rec(a, k, c, d) == [freelist |-> a, bittable |-> k, bitmalloc |-> c,
                               dirty |-> d, asserts |-> yes]
<1>1. [rec(fl, bt, bm, di) EXCEPT !.freelist = v] = rec(v, bt, bm, di)
  <2> HIDE DEF yes
  <2> QED OBVIOUS
<1> QED BY <1>1 DEF Heap

LEMMA SetTable ==
  ASSUME NEW fl, NEW bt, NEW bm, NEW di, NEW v
  PROVE  [Heap(fl, bt, bm, di) EXCEPT !.bittable = v] = Heap(fl, v, bm, di)
<1> DEFINE yes == TRUE
           rec(a, k, c, d) == [freelist |-> a, bittable |-> k, bitmalloc |-> c,
                               dirty |-> d, asserts |-> yes]
<1>1. [rec(fl, bt, bm, di) EXCEPT !.bittable = v] = rec(fl, v, bm, di)
  <2> HIDE DEF yes
  <2> QED OBVIOUS
<1> QED BY <1>1 DEF Heap

LEMMA SetMalloc ==
  ASSUME NEW fl, NEW bt, NEW bm, NEW di, NEW v
  PROVE  [Heap(fl, bt, bm, di) EXCEPT !.bitmalloc = v] = Heap(fl, bt, v, di)
<1> DEFINE yes == TRUE
           rec(a, k, c, d) == [freelist |-> a, bittable |-> k, bitmalloc |-> c,
                               dirty |-> d, asserts |-> yes]
<1>1. [rec(fl, bt, bm, di) EXCEPT !.bitmalloc = v] = rec(fl, bt, v, di)
  <2> HIDE DEF yes
  <2> QED OBVIOUS
<1> QED BY <1>1 DEF Heap

LEMMA SetDirty ==
  ASSUME NEW fl, NEW bt, NEW bm, NEW di, NEW v
  PROVE  [Heap(fl, bt, bm, di) EXCEPT !.dirty = v] = Heap(fl, bt, bm, v)
<1> DEFINE yes == TRUE
           rec(a, k, c, d) == [freelist |-> a, bittable |-> k, bitmalloc |-> c,
                               dirty |-> d, asserts |-> yes]
<1>1. [rec(fl, bt, bm, di) EXCEPT !.dirty = v] = rec(fl, bt, bm, v)
  <2> HIDE DEF yes
  <2> QED OBVIOUS
<1> QED BY <1>1 DEF Heap

-----------------------------------------------------------------------------
(* The free lists.                                                         *)

\* F are the blocks in the free lists f, each once.
ListsOK(f, F) ==
  /\ f = [l \in Lists |-> f[l]]
  /\ \A l \in Lists :
       /\ f[l] \in Seq(Units) /\ IsInjective(f[l])
       /\ \A p : (\E i \in DOMAIN f[l] : f[l][i] = p) <=> <<l, p>> \in F

Added(f, p, l) == [f EXCEPT ![l] = <<p>> \o @]
Removed(f, p, l) == [f EXCEPT ![l] = RemoveAt(@, place_in(@, p))]

LEMMA InFront ==
  ASSUME NEW S, NEW s \in Seq(S), NEW p \in S
  PROVE  LET t == <<p>> \o s IN
         /\ t \in Seq(S) /\ Len(t) = Len(s) + 1 /\ t[1] = p
         /\ \A i \in 1..Len(s) : t[i + 1] = s[i]
<1>1. <<p>> \in Seq(S) /\ Len(<<p>>) = 1 /\ <<p>>[1] = p /\ Len(s) \in Nat
  BY LenProperties
<1> DEFINE t == <<p>> \o s
<1>2. /\ t \in Seq(S) /\ Len(t) = 1 + Len(s)
      /\ \A i \in 1..(1 + Len(s)) : t[i] = IF i <= 1 THEN <<p>>[i] ELSE s[i - 1]
  BY <1>1, ConcatProperties
<1> HIDE DEF t
<1>3. t[1] = p
  BY <1>1, <1>2
<1>4. ASSUME NEW i \in 1..Len(s) PROVE t[i + 1] = s[i]
  <2>1. i + 1 \in 1..(1 + Len(s)) /\ ~ (i + 1 <= 1) /\ (i + 1) - 1 = i
    BY <1>1
  <2> QED BY <1>2, <2>1
<1> QED BY <1>1, <1>2, <1>3, <1>4 DEF t

LEMMA TakenOut ==
  ASSUME NEW S, NEW s \in Seq(S), NEW k \in 1..Len(s)
  PROVE  LET t == RemoveAt(s, k) IN
         /\ t \in Seq(S) /\ Len(t) = Len(s) - 1
         /\ \A i \in 1..(Len(s) - 1) : t[i] = IF i < k THEN s[i] ELSE s[i + 1]
<1> DEFINE a == SubSeq(s, 1, k - 1)
           c == SubSeq(s, k + 1, Len(s))
           t == RemoveAt(s, k)
<1>0. Len(s) \in Nat /\ \A i \in 1..Len(s) : s[i] \in S
  BY LenProperties, ElementOfSeq
<1>1. /\ a \in Seq(S) /\ Len(a) = k - 1
      /\ \A i \in 1..(k - 1) : a[i] = s[i]
  <2>1. /\ 1 \in Int /\ k - 1 \in Int /\ (k - 1) - 1 + 1 = k - 1
        /\ \A i \in 1..(k - 1) : s[i] \in S /\ 1 + i - 1 = i
    BY <1>0
  <2>2. /\ a \in Seq(S) /\ Len(a) = IF 1 <= k - 1 THEN (k - 1) - 1 + 1 ELSE 0
        /\ \A i \in 1..((k - 1) - 1 + 1) : a[i] = s[1 + i - 1]
    BY <2>1, SubSeqProperties
  <2> HIDE DEF a
  <2> QED BY <1>0, <2>1, <2>2
<1>2. /\ c \in Seq(S) /\ Len(c) = Len(s) - k
      /\ \A i \in 1..(Len(s) - k) : c[i] = s[k + i]
  <2>1. /\ k + 1 \in Int /\ Len(s) \in Int /\ Len(s) - (k + 1) + 1 = Len(s) - k
        /\ \A i \in (k + 1)..Len(s) : s[i] \in S
        /\ \A i \in 1..(Len(s) - k) : (k + 1) + i - 1 = k + i
    BY <1>0
  <2>2. /\ c \in Seq(S) /\ Len(c) = IF k + 1 <= Len(s) THEN Len(s) - (k + 1) + 1 ELSE 0
        /\ \A i \in 1..(Len(s) - (k + 1) + 1) : c[i] = s[(k + 1) + i - 1]
    BY <2>1, SubSeqProperties
  <2> HIDE DEF c
  <2>3. Len(c) = Len(s) - k
    <3>1. \A n, j \in Nat : j <= n =>
            (IF j + 1 <= n THEN n - (j + 1) + 1 ELSE 0) = n - j
      OBVIOUS
    <3>2. k \in Nat /\ k <= Len(s)
      BY <1>0
    <3> QED BY <1>0, <2>2, <3>1, <3>2
  <2>4. \A i \in 1..(Len(s) - k) : c[i] = s[k + i]
    BY <2>1, <2>2
  <2> QED BY <2>2, <2>3, <2>4
<1>3. t = a \o c
  BY DEF RemoveAt
<1> HIDE DEF a, c, t
<1>4. /\ t \in Seq(S) /\ Len(t) = Len(a) + Len(c)
      /\ \A i \in 1..(Len(a) + Len(c)) : t[i] = IF i <= Len(a) THEN a[i] ELSE c[i - Len(a)]
  BY <1>1, <1>2, <1>3, ConcatProperties
<1>5. Len(t) = Len(s) - 1
  BY <1>0, <1>1, <1>2, <1>4
<1>6. ASSUME NEW i \in 1..(Len(s) - 1) PROVE t[i] = IF i < k THEN s[i] ELSE s[i + 1]
  <2>1. i \in 1..(Len(a) + Len(c)) /\ Len(a) = k - 1
    BY <1>0, <1>1, <1>2
  <2>2. CASE i < k
    <3>1. i \in 1..(k - 1) /\ i <= Len(a)
      BY <1>0, <2>1, <2>2
    <3>2. t[i] = a[i] /\ a[i] = s[i]
      BY <1>1, <1>4, <2>1, <3>1
    <3> QED BY <2>2, <3>2
  <2>3. CASE ~ (i < k)
    <3>1. i - Len(a) \in 1..(Len(s) - k) /\ k + (i - Len(a)) = i + 1 /\ ~ (i <= Len(a))
      BY <1>0, <2>1, <2>3
    <3>2. t[i] = c[i - Len(a)] /\ c[i - Len(a)] = s[k + (i - Len(a))]
      BY <1>2, <1>4, <2>1, <3>1
    <3> QED BY <2>3, <3>1, <3>2
  <2> QED BY <2>2, <2>3
<1> QED BY <1>4, <1>5, <1>6 DEF t

LEMMA PlaceIn ==
  ASSUME NEW S, NEW s \in Seq(S), IsInjective(s), NEW k \in 1..Len(s)
  PROVE  place_in(s, s[k]) = k
<1>1. DOMAIN s = 1..Len(s) /\ Len(s) \in Nat
  BY LenProperties
<1>2. {i \in DOMAIN s : s[i] = s[k]} = {k}
  BY <1>1 DEF IsInjective
<1>3. k >= 0
  BY <1>1
<1>4. Max({0} \cup {k}) = k
  BY <1>1, <1>3 DEF Max
<1> QED BY <1>2, <1>4 DEF place_in

LEMMA ListsAdd ==
  ASSUME NEW f, NEW F, ListsOK(f, F), NEW x \in Nodes, x \notin F
  PROVE  LET g == Added(f, x[2], x[1]) IN
         /\ ListsOK(g, F \cup {x}) /\ g[x[1]] # <<>> /\ g[x[1]][1] = x[2]
         /\ \A l \in Lists : l # x[1] => g[l] = f[l]
<1> DEFINE m == x[1]
           p == x[2]
           g == Added(f, p, m)
           s == f[m]
           t == <<p>> \o s
<1>1. m \in Lists /\ p \in Units /\ x = <<m, p>>
  BY NodeFields
<1>2. s \in Seq(Units) /\ IsInjective(s) /\ \A q : (\E i \in DOMAIN s : s[i] = q) <=> <<m, q>> \in F
  BY <1>1 DEF ListsOK
<1>3. /\ t \in Seq(Units) /\ Len(t) = Len(s) + 1 /\ t[1] = p
      /\ \A i \in 1..Len(s) : t[i + 1] = s[i]
  BY <1>1, <1>2, InFront
<1>4. /\ g = [l \in Lists |-> g[l]]
      /\ \A l \in Lists : g[l] = IF l = m THEN t ELSE f[l]
  <2>1. f = [l \in Lists |-> f[l]]
    BY DEF ListsOK
  <2> HIDE DEF m, p
  <2> QED BY <2>1 DEF Added
<1> HIDE DEF m, p, g, s, t
<1>5. DOMAIN s = 1..Len(s) /\ DOMAIN t = 1..Len(t) /\ Len(s) \in Nat
  BY <1>2, <1>3, LenProperties
<1>6. \A j \in 1..Len(t) : j = 1 \/ (j - 1 \in 1..Len(s) /\ t[j] = s[j - 1])
  <2> SUFFICES ASSUME NEW j \in 1..Len(t), j # 1
               PROVE  j - 1 \in 1..Len(s) /\ t[j] = s[j - 1]
    OBVIOUS
  <2>1. j - 1 \in 1..Len(s) /\ (j - 1) + 1 = j
    BY <1>3, <1>5
  <2> QED BY <1>3, <2>1
<1>7. \A i \in 1..Len(s) : s[i] # p
  BY <1>1, <1>2, <1>5
<1>8. IsInjective(t)
  <2> SUFFICES ASSUME NEW i \in 1..Len(t), NEW j \in 1..Len(t), t[i] = t[j]
               PROVE  i = j
    BY <1>5 DEF IsInjective
  <2>1. CASE i = 1 \/ j = 1
    BY <1>3, <1>6, <1>7, <2>1
  <2>2. CASE ~ (i = 1 \/ j = 1)
    <3>1. i - 1 \in 1..Len(s) /\ j - 1 \in 1..Len(s) /\ s[i - 1] = s[j - 1]
      BY <1>6, <2>2
    <3>2. i - 1 = j - 1
      BY <1>2, <1>5, <3>1 DEF IsInjective
    <3> QED BY <3>2, <1>3, <1>5
  <2> QED BY <2>1, <2>2
<1>9. ASSUME NEW q PROVE (\E i \in DOMAIN t : t[i] = q) <=> <<m, q>> \in F \cup {x}
  <2>1. ASSUME NEW i \in DOMAIN t, t[i] = q PROVE <<m, q>> \in F \cup {x}
    BY <1>1, <1>2, <1>3, <1>5, <1>6, <2>1
  <2>2. ASSUME <<m, q>> \in F PROVE \E i \in DOMAIN t : t[i] = q
    <3>1. PICK i \in 1..Len(s) : s[i] = q
      BY <1>2, <1>5, <2>2
    <3>2. i + 1 \in 1..Len(t)
      BY <1>3, <1>5
    <3> QED BY <1>3, <1>5, <3>1, <3>2
  <2>3. ASSUME <<m, q>> = x PROVE \E i \in DOMAIN t : t[i] = q
    <3>1. q = p
      BY <1>1, <2>3
    <3>2. 1 \in 1..Len(t)
      BY <1>3, <1>5
    <3> QED BY <1>3, <1>5, <3>1, <3>2
  <2> QED BY <2>1, <2>2, <2>3
<1>10. ASSUME NEW l \in Lists
       PROVE  /\ g[l] \in Seq(Units) /\ IsInjective(g[l])
              /\ \A q : (\E i \in DOMAIN g[l] : g[l][i] = q) <=> <<l, q>> \in F \cup {x}
  <2>1. CASE l = m
    BY <1>3, <1>4, <1>8, <1>9, <2>1
  <2>2. CASE l # m
    <3>1. g[l] = f[l]
      BY <1>4, <2>2
    <3>2. /\ f[l] \in Seq(Units) /\ IsInjective(f[l])
          /\ \A q : (\E i \in DOMAIN f[l] : f[l][i] = q) <=> <<l, q>> \in F
      BY DEF ListsOK
    <3>3. \A q : <<l, q>> # x
      BY <1>1, <2>2
    <3> QED BY <3>1, <3>2, <3>3
  <2> QED BY <2>1, <2>2
<1>11. ListsOK(g, F \cup {x})
  BY <1>4, <1>10 DEF ListsOK
<1>12. g[m] # <<>> /\ g[m][1] = p
  <2>1. g[m] = t
    BY <1>1, <1>4
  <2>2. Len(t) # 0
    BY <1>3, <1>5
  <2> QED BY <1>3, <2>1, <2>2
<1> QED BY <1>4, <1>11, <1>12 DEF g, m, p

LEMMA ListsRemove ==
  ASSUME NEW f, NEW F, ListsOK(f, F), NEW x \in Nodes, x \in F
  PROVE  LET g == Removed(f, x[2], x[1]) IN
         /\ ListsOK(g, F \ {x})
         /\ \A l \in Lists : l # x[1] => g[l] = f[l]
<1> DEFINE m == x[1]
           p == x[2]
           g == Removed(f, p, m)
           s == f[m]
           k == place_in(s, p)
           t == RemoveAt(s, k)
<1>1. m \in Lists /\ p \in Units /\ x = <<m, p>>
  BY NodeFields
<1>2. s \in Seq(Units) /\ IsInjective(s) /\ \A q : (\E i \in DOMAIN s : s[i] = q) <=> <<m, q>> \in F
  BY <1>1 DEF ListsOK
<1>3. DOMAIN s = 1..Len(s) /\ Len(s) \in Nat
  BY <1>2, LenProperties
<1>4. k \in 1..Len(s) /\ s[k] = p
  <2>1. PICK i \in 1..Len(s) : s[i] = p
    BY <1>1, <1>2, <1>3
  <2> HIDE DEF s, p
  <2> QED BY <1>2, <2>1, PlaceIn
<1>5. /\ g = [l \in Lists |-> g[l]]
      /\ \A l \in Lists : g[l] = IF l = m THEN t ELSE f[l]
  <2>1. f = [l \in Lists |-> f[l]]
    BY DEF ListsOK
  <2> HIDE DEF m, p
  <2> QED BY <2>1 DEF Removed
<1> HIDE DEF m, p, g, s, k
<1>6. /\ t \in Seq(Units) /\ Len(t) = Len(s) - 1
      /\ \A i \in 1..(Len(s) - 1) : t[i] = IF i < k THEN s[i] ELSE s[i + 1]
  BY <1>2, <1>4, TakenOut
<1> HIDE DEF t
<1> DEFINE from(i) == IF i < k THEN i ELSE i + 1
<1>7. DOMAIN t = 1..(Len(s) - 1)
  BY <1>6, LenProperties
<1>8. /\ \A i \in 1..(Len(s) - 1) : from(i) \in 1..Len(s) /\ from(i) # k /\ t[i] = s[from(i)]
      /\ \A i, j \in 1..(Len(s) - 1) : from(i) = from(j) => i = j
  BY <1>3, <1>4, <1>6
<1>9. \A j \in 1..Len(s) : j # k => \E i \in 1..(Len(s) - 1) : from(i) = j
  <2> SUFFICES ASSUME NEW j \in 1..Len(s), j # k
               PROVE  \E i \in 1..(Len(s) - 1) : from(i) = j
    OBVIOUS
  <2> DEFINE i == IF j < k THEN j ELSE j - 1
  <2>1. i \in 1..(Len(s) - 1) /\ from(i) = j
    BY <1>3, <1>4
  <2> QED BY <2>1
<1> HIDE DEF from
<1>10. IsInjective(t)
  <2> SUFFICES ASSUME NEW i \in 1..(Len(s) - 1), NEW j \in 1..(Len(s) - 1), t[i] = t[j]
               PROVE  i = j
    BY <1>7 DEF IsInjective
  <2>1. from(i) = from(j)
    BY <1>2, <1>3, <1>8 DEF IsInjective
  <2> QED BY <1>8, <2>1
<1>11. ASSUME NEW q PROVE (\E i \in DOMAIN t : t[i] = q) <=> <<m, q>> \in F \ {x}
  <2>1. ASSUME NEW i \in DOMAIN t, t[i] = q PROVE <<m, q>> \in F \ {x}
    <3>1. from(i) \in 1..Len(s) /\ from(i) # k /\ s[from(i)] = q
      BY <1>7, <1>8, <2>1
    <3>2. q # p
      BY <1>2, <1>3, <1>4, <3>1 DEF IsInjective
    <3>3. <<m, q>> \in F
      BY <1>2, <1>3, <3>1
    <3> QED BY <1>1, <3>2, <3>3
  <2>2. ASSUME <<m, q>> \in F, <<m, q>> # x PROVE \E i \in DOMAIN t : t[i] = q
    <3>1. PICK j \in 1..Len(s) : s[j] = q
      BY <1>2, <1>3, <2>2
    <3>2. j # k
      BY <1>1, <1>4, <2>2, <3>1
    <3>3. PICK i \in 1..(Len(s) - 1) : from(i) = j
      BY <1>9, <3>2
    <3> QED BY <1>7, <1>8, <3>1, <3>3
  <2> QED BY <2>1, <2>2
<1>12. ASSUME NEW l \in Lists
       PROVE  /\ g[l] \in Seq(Units) /\ IsInjective(g[l])
              /\ \A q : (\E i \in DOMAIN g[l] : g[l][i] = q) <=> <<l, q>> \in F \ {x}
  <2>1. CASE l = m
    BY <1>5, <1>6, <1>10, <1>11, <2>1
  <2>2. CASE l # m
    <3>1. g[l] = f[l]
      BY <1>5, <2>2
    <3>2. /\ f[l] \in Seq(Units) /\ IsInjective(f[l])
          /\ \A q : (\E i \in DOMAIN f[l] : f[l][i] = q) <=> <<l, q>> \in F
      BY DEF ListsOK
    <3>3. \A q : <<l, q>> # x
      BY <1>1, <2>2
    <3> QED BY <3>1, <3>2, <3>3
  <2> QED BY <2>1, <2>2
<1>13. ListsOK(g, F \ {x})
  BY <1>5, <1>12 DEF ListsOK
<1> QED BY <1>5, <1>13 DEF g, m, p

-----------------------------------------------------------------------------
(* Heaps and the operations on them.                                       *)

Bits(T) == {BitOf(x) : x \in T}

\* h has free lists f, the blocks T, of which M are handed out, and D dirty.
Shape(h, f, T, M, D) ==
  /\ h = Heap(f, Bits(T), Bits(M), D)
  /\ ListsOK(f, T \ M)
  /\ T \subseteq Nodes /\ M \subseteq T

LEMMA BitsExact ==
  ASSUME NEW T \in SUBSET Nodes, NEW x \in Nodes
  PROVE  BitOf(x) \in Bits(T) <=> x \in T
BY NodesDiffer DEF Bits

LEMMA NodeInTable ==
  ASSUME NEW x \in Nodes
  PROVE  InTable(x[2], x[1])
<1>1. x[1] \in Lists /\ x[2] \in Units
  BY NodeFields
<1>2. x[2] % BlockSize(x[1]) = 0
  BY DEF Nodes
<1> QED BY <1>1, <1>2, BitRange DEF InTable

LEMMA AddToList ==
  ASSUME NEW f, NEW bt, NEW bm, NEW di, NEW p, NEW l \in Lists, f = [k \in Lists |-> f[k]]
  PROVE  add_to_list(Heap(f, bt, bm, di), p, l) = Heap(Added(f, p, l), bt, bm, di \cup {p})
<1> DEFINE h == Heap(f, bt, bm, di)
           g == Added(f, p, l)
           e == di \cup {p}
<1>1. h.freelist = f /\ h.dirty = di
  BY HeapFields
<1>2. add_to_list(h, p, l) = [[h EXCEPT !.freelist = g] EXCEPT !.dirty = e]
  <2> HIDE DEF h
  <2> QED BY <1>1 DEF add_to_list, Added
<1>3. [h EXCEPT !.freelist = g] = Heap(g, bt, bm, di)
  <2> HIDE DEF g
  <2> QED BY SetLists
<1>4. [Heap(g, bt, bm, di) EXCEPT !.dirty = e] = Heap(g, bt, bm, e)
  <2> HIDE DEF g, e
  <2> QED BY SetDirty
<1> QED BY <1>2, <1>3, <1>4

LEMMA RemoveFromList ==
  ASSUME NEW f, NEW bt, NEW bm, NEW di, NEW p, NEW l \in Lists, f = [k \in Lists |-> f[k]]
  PROVE  remove_from_list(Heap(f, bt, bm, di), p, l) = Heap(Removed(f, p, l), bt, bm, di)
<1> DEFINE h == Heap(f, bt, bm, di)
           g == Removed(f, p, l)
<1>1. h.freelist = f
  BY HeapFields
<1>2. remove_from_list(h, p, l) = [h EXCEPT !.freelist = g]
  <2> HIDE DEF h
  <2> QED BY <1>1 DEF remove_from_list, Removed
<1>3. [h EXCEPT !.freelist = g] = Heap(g, bt, bm, di)
  <2> HIDE DEF g
  <2> QED BY SetLists
<1> QED BY <1>2, <1>3

LEMMA BlockAdded ==
  ASSUME NEW h, NEW f, NEW T, NEW M, NEW D, Shape(h, f, T, M, D), NEW x \in Nodes, x \notin T
  PROVE  /\ Shape(NewBlock(h, x[2], x[1]), Added(f, x[2], x[1]), T \cup {x}, M, D \cup {x[2]})
         /\ Added(f, x[2], x[1])[x[1]] # <<>> /\ Added(f, x[2], x[1])[x[1]][1] = x[2]
         /\ \A l \in Lists : l # x[1] => Added(f, x[2], x[1])[l] = f[l]
<1> DEFINE p == x[2]
           l == x[1]
           bit == Bit(p, l)
           bt == Bits(T)
           bm == Bits(M)
<1>1. h = Heap(f, bt, bm, D) /\ h.bittable = bt /\ h.bitmalloc = bm
  BY HeapFields DEF Shape
<1>2. x \notin M /\ M \in SUBSET Nodes /\ T \in SUBSET Nodes /\ M \subseteq T
  BY DEF Shape
<1>3. bit \notin bt /\ bit \notin bm
  BY <1>2, BitsExact DEF BitOf
<1>4. not_malloced(h, p, l)
  BY <1>1, <1>3 DEF not_malloced
<1>5. Asserted(h, not_malloced(h, p, l)) = h
  BY <1>4 DEF Asserted
<1>6. InTable(p, l)
  BY NodeInTable
<1>7. Asserted(h, InTable(p, l) /\ bit \notin h.bittable) = h
  BY <1>1, <1>3, <1>6 DEF Asserted
<1>8. setbit(h, p, l) = Heap(f, bt \cup {bit}, bm, D)
  <2> DEFINE v == bt \cup {bit}
  <2>1. setbit(h, p, l) = [h EXCEPT !.bittable = v]
    BY <1>1, <1>7 DEF setbit
  <2>2. [Heap(f, bt, bm, D) EXCEPT !.bittable = v] = Heap(f, v, bm, D)
    <3> HIDE DEF v, bt, bm
    <3> QED BY SetTable
  <2> QED BY <1>1, <2>1, <2>2
<1>9. bt \cup {bit} = Bits(T \cup {x})
  BY DEF Bits, BitOf
<1>10. l \in Lists /\ f = [k \in Lists |-> f[k]]
  BY NodeFields DEF Shape, ListsOK
<1>11. NewBlock(h, p, l) = Heap(Added(f, p, l), Bits(T \cup {x}), bm, D \cup {p})
  <2>1. NewBlock(h, p, l) = add_to_list(setbit(h, p, l), p, l)
    BY <1>5 DEF NewBlock
  <2>2. NewBlock(h, p, l) = add_to_list(Heap(f, Bits(T \cup {x}), bm, D), p, l)
    BY <1>8, <1>9, <2>1
  <2> HIDE DEF bm, p, l
  <2> QED BY <1>10, <2>2, AddToList
<1>12. (T \cup {x}) \ M = (T \ M) \cup {x} /\ x \notin T \ M
  BY <1>2
<1>13. /\ ListsOK(Added(f, p, l), (T \cup {x}) \ M)
       /\ Added(f, p, l)[l] # <<>> /\ Added(f, p, l)[l][1] = p
       /\ \A m \in Lists : m # l => Added(f, p, l)[m] = f[m]
  <2> DEFINE F == T \ M
  <2>1. ListsOK(f, F) /\ x \notin F /\ (T \cup {x}) \ M = F \cup {x}
    BY <1>12 DEF Shape
  <2> HIDE DEF F
  <2> QED BY <2>1, ListsAdd
<1>14. T \cup {x} \subseteq Nodes /\ M \subseteq T \cup {x}
  BY <1>2
<1> QED BY <1>11, <1>13, <1>14 DEF Shape

LEMMA BlockDropped ==
  ASSUME NEW h, NEW f, NEW T, NEW M, NEW D, Shape(h, f, T, M, D), NEW x \in T, x \notin M
  PROVE  /\ Shape(DropBlock(h, x[2], x[1]), Removed(f, x[2], x[1]), T \ {x}, M, D)
         /\ \A l \in Lists : l # x[1] => Removed(f, x[2], x[1])[l] = f[l]
<1> DEFINE p == x[2]
           l == x[1]
           bit == Bit(p, l)
           bt == Bits(T)
           bm == Bits(M)
<1>0. x \in Nodes
  BY DEF Shape
<1>1. h = Heap(f, bt, bm, D) /\ h.bittable = bt /\ h.bitmalloc = bm
  BY HeapFields DEF Shape
<1>2. M \in SUBSET Nodes /\ T \in SUBSET Nodes /\ M \subseteq T
  BY DEF Shape
<1>3. bit \in bt /\ bit \notin bm
  BY <1>0, <1>2, BitsExact DEF BitOf
<1>4. not_malloced(h, p, l)
  BY <1>1, <1>3 DEF not_malloced
<1>5. Asserted(h, not_malloced(h, p, l)) = h
  BY <1>4 DEF Asserted
<1>6. InTable(p, l)
  BY <1>0, NodeInTable
<1>7. Asserted(h, InTable(p, l) /\ bit \in h.bittable) = h
  BY <1>1, <1>3, <1>6 DEF Asserted
<1>8. clearbit(h, p, l) = Heap(f, bt \ {bit}, bm, D)
  <2> DEFINE v == bt \ {bit}
  <2>1. clearbit(h, p, l) = [h EXCEPT !.bittable = v]
    BY <1>1, <1>7 DEF clearbit
  <2>2. [Heap(f, bt, bm, D) EXCEPT !.bittable = v] = Heap(f, v, bm, D)
    <3> HIDE DEF v, bt, bm
    <3> QED BY SetTable
  <2> QED BY <1>1, <2>1, <2>2
<1>9. bt \ {bit} = Bits(T \ {x})
  <2>1. \A y \in T : BitOf(y) = bit => y = x
    BY <1>0, <1>2, NodesDiffer DEF BitOf
  <2>2. BitOf(x) = bit
    BY DEF BitOf
  <2> HIDE DEF bit
  <2> QED BY <2>1, <2>2 DEF Bits
<1>10. l \in Lists /\ f = [k \in Lists |-> f[k]]
  BY <1>0, NodeFields DEF Shape, ListsOK
<1>11. DropBlock(h, p, l) = Heap(Removed(f, p, l), Bits(T \ {x}), bm, D)
  <2>1. DropBlock(h, p, l) = remove_from_list(clearbit(h, p, l), p, l)
    BY <1>5 DEF DropBlock
  <2>2. DropBlock(h, p, l) = remove_from_list(Heap(f, Bits(T \ {x}), bm, D), p, l)
    BY <1>8, <1>9, <2>1
  <2> HIDE DEF bm, p, l
  <2> QED BY <1>10, <2>2, RemoveFromList
<1>12. (T \ {x}) \ M = (T \ M) \ {x} /\ x \in T \ M
  OBVIOUS
<1>13. /\ ListsOK(Removed(f, p, l), (T \ {x}) \ M)
       /\ \A m \in Lists : m # l => Removed(f, p, l)[m] = f[m]
  <2> DEFINE F == T \ M
  <2>1. ListsOK(f, F) /\ x \in F /\ (T \ {x}) \ M = F \ {x}
    BY <1>12 DEF Shape
  <2> HIDE DEF F
  <2> QED BY <1>0, <2>1, ListsRemove
<1>14. T \ {x} \subseteq Nodes /\ M \subseteq T \ {x}
  BY <1>2
<1> QED BY <1>11, <1>13, <1>14 DEF Shape

\* find_my_buddy finds the buddy if it is one block and free.
LEMMA BuddyFound ==
  ASSUME NEW h, NEW f, NEW T, NEW M, NEW D, Shape(h, f, T, M, D), NEW x \in Nodes
  PROVE  /\ x[1] > 0 /\ Buddy(x) \in T \ M => find_my_buddy(h, x[2], x[1]) = Buddy(x)[2]
         /\ ~ (x[1] > 0 /\ Buddy(x) \in T \ M) => find_my_buddy(h, x[2], x[1]) = -1
<1> DEFINE bud == BuddyBit(BitOf(x))
<1>1. h.bittable = Bits(T) /\ h.bitmalloc = Bits(M)
  BY HeapFields DEF Shape
<1>2. T \in SUBSET Nodes /\ M \in SUBSET Nodes
  BY DEF Shape
<1>3. find_my_buddy(h, x[2], x[1]) =
        IF bud \in Bits(T) /\ bud \notin Bits(M)
        THEN (bud % pow2[x[1]]) * BlockSize(x[1]) ELSE -1
  BY <1>1 DEF find_my_buddy, BuddyBit, BitOf
<1> HIDE DEF bud
<1>4. CASE x[1] = 0
  <2>1. bud = 0
    BY <1>4, BuddyBits DEF bud
  <2>2. 0 \notin Bits(T)
    <3>1. \A y \in T : BitOf(y) \in 1..(bittable_size - 1)
      BY <1>2, NodeFields, BitRange DEF BitOf
    <3> QED BY <3>1 DEF Bits
  <2> QED BY <1>3, <1>4, <2>1, <2>2
<1>5. CASE x[1] > 0
  <2>1. bud = BitOf(Buddy(x)) /\ (bud % pow2[x[1]]) * BlockSize(x[1]) = Buddy(x)[2]
    BY <1>5, BuddyBits DEF bud
  <2>2. Buddy(x) \in Nodes
    BY <1>5, JoinNode
  <2>3. (bud \in Bits(T) <=> Buddy(x) \in T) /\ (bud \in Bits(M) <=> Buddy(x) \in M)
    BY <1>2, <2>1, <2>2, BitsExact
  <2> QED BY <1>3, <1>5, <2>1, <2>3
<1>6. x[1] \in Nat
  BY NodeFields
<1> QED BY <1>4, <1>5, <1>6

-----------------------------------------------------------------------------
(* Splitting.                                                              *)

\* In a free block only the unit with the pointers of its list is dirty.
Clean(D, F) == \A x \in F : \A u \in Span(x) : u \in D => u = x[2]

\* No two free blocks are buddies but z and its buddy.
Twins(F, z) == \A y \in F : y[1] > 0 /\ Buddy(y) \in F => y = z \/ Buddy(y) = z
NoTwins(F) == \A y \in F : ~ (y[1] > 0 /\ Buddy(y) \in F)

LEMMA ListHead ==
  ASSUME NEW f, NEW F \in SUBSET Nodes, ListsOK(f, F), NEW l \in Lists, f[l] # <<>>
  PROVE  <<l, f[l][1]>> \in F
<1>1. f[l] \in Seq(Units) /\ Len(f[l]) \in Nat /\ DOMAIN f[l] = 1..Len(f[l])
  BY LenProperties DEF ListsOK
<1>2. Len(f[l]) # 0
  BY <1>1, EmptySeq
<1>3. 1 \in DOMAIN f[l]
  BY <1>1, <1>2
<1> QED BY <1>3 DEF ListsOK

\* halve puts both halves of the first block in the next list, the upper first.
LEMMA HalveStep ==
  ASSUME NEW h, NEW f, NEW T, NEW M, NEW D, Shape(h, f, T, M, D), Tiles(T),
         NEW l \in Lists, l < Levels, f[l] # <<>>
  PROVE  LET x == <<l, f[l][1]>> IN
         /\ x \in T \ M
         /\ \E g : /\ Shape(halve(h, l), g, HalvedTiling(T, x), M, D \cup {x[2], Upper(x)[2]})
                   /\ g[l + 1] # <<>> /\ g[l + 1][1] = Upper(x)[2]
<1> DEFINE x == <<l, f[l][1]>>
           a == Lower(x)
           c == Upper(x)
           p == f[l][1]
<1>1. h.freelist = f
  BY HeapFields DEF Shape
<1>2. x \in T \ M /\ x \in Nodes /\ x[1] = l /\ x[2] = p
  <2> DEFINE F == T \ M
  <2>1. F \in SUBSET Nodes /\ ListsOK(f, F)
    BY DEF Shape
  <2>2. x \in F
    <3> HIDE DEF F
    <3> QED BY <2>1, ListHead
  <2> QED BY <2>1, <2>2
<1>3. /\ a \in Nodes /\ c \in Nodes /\ a # c /\ a # x /\ c # x /\ Buddy(c) = a
      /\ a[1] = l + 1 /\ a[2] = p /\ c[1] = l + 1 /\ c[2] = p + BlockSize(l + 1)
  BY <1>2, SplitNode DEF Lower, Upper
<1>4. a \notin T /\ c \notin T
  BY <1>2, TilesHalved
<1> HIDE DEF x, a, c, p
<1> DEFINE h1 == DropBlock(h, p, l)
           f1 == Removed(f, p, l)
           h2 == NewBlock(h1, p, l + 1)
           f2 == Added(f1, p, l + 1)
           h3 == NewBlock(h2, p + BlockSize(l + 1), l + 1)
           f3 == Added(f2, p + BlockSize(l + 1), l + 1)
<1>5. Shape(h1, f1, T \ {x}, M, D)
  BY <1>2, BlockDropped
<1> HIDE DEF h1, f1
<1>6. Shape(h2, f2, (T \ {x}) \cup {a}, M, D \cup {p})
  <2>1. a \notin T \ {x}
    BY <1>4
  <2> QED BY <1>3, <1>5, <2>1, BlockAdded
<1> HIDE DEF h2, f2
<1>7. /\ Shape(h3, f3, ((T \ {x}) \cup {a}) \cup {c}, M, (D \cup {p}) \cup {c[2]})
      /\ f3[l + 1] # <<>> /\ f3[l + 1][1] = c[2]
  <2>1. c \notin (T \ {x}) \cup {a}
    BY <1>3, <1>4
  <2> DEFINE U == (T \ {x}) \cup {a}
             E == D \cup {p}
  <2>2. Shape(h2, f2, U, M, E) /\ c \notin U /\ c \in Nodes
    BY <1>3, <1>6, <2>1
  <2> HIDE DEF U, E
  <2>3. Shape(NewBlock(h2, c[2], c[1]), Added(f2, c[2], c[1]), U \cup {c}, M, E \cup {c[2]})
    BY <2>2, BlockAdded
  <2>4. Added(f2, c[2], c[1])[c[1]] # <<>> /\ Added(f2, c[2], c[1])[c[1]][1] = c[2]
    <3> DEFINE F == U \ M
    <3>1. ListsOK(f2, F) /\ c \notin F
      BY <2>2 DEF Shape
    <3> HIDE DEF F
    <3> QED BY <2>2, <3>1, ListsAdd
  <2> QED BY <1>3, <2>3, <2>4 DEF U, E
<1> HIDE DEF h3, f3
<1>8. find_my_buddy(h3, p + BlockSize(l + 1), l + 1) = p
  <2> DEFINE U == ((T \ {x}) \cup {a}) \cup {c}
             E == (D \cup {p}) \cup {c[2]}
  <2>1. Shape(h3, f3, U, M, E)
    BY <1>7
  <2>2. Buddy(c) \in U \ M /\ c[1] > 0
    <3>1. a \notin M
      BY <1>4 DEF Shape
    <3>2. l \in Nat
      BY DEF Lists
    <3> QED BY <1>3, <3>1, <3>2
  <2> HIDE DEF U, E
  <2>3. find_my_buddy(h3, c[2], c[1]) = Buddy(c)[2]
    BY <1>3, <2>1, <2>2, BuddyFound
  <2> QED BY <1>3, <2>3
<1>9. halve(h, l) = h3
  <2>1. halve(h, l) = Asserted(h3, find_my_buddy(h3, p + BlockSize(l + 1), l + 1) = p)
    BY <1>1 DEF halve, h1, h2, h3, p
  <2> QED BY <1>8, <2>1 DEF Asserted
<1>10. ((T \ {x}) \cup {a}) \cup {c} = HalvedTiling(T, x)
  BY DEF HalvedTiling, a, c
<1>11. (D \cup {p}) \cup {c[2]} = D \cup {x[2], Upper(x)[2]}
  BY <1>2 DEF c
<1>12. Shape(halve(h, l), f3, HalvedTiling(T, x), M, D \cup {x[2], Upper(x)[2]})
  BY <1>7, <1>9, <1>10, <1>11
<1> QED BY <1>2, <1>7, <1>12 DEF x, c

LEMMA HalvedTwins ==
  ASSUME NEW T, Tiles(T), NEW M \in SUBSET T, NEW x \in T \ M, x[1] < Levels, NEW D,
         Clean(D, T \ M), Twins(T \ M, x)
  PROVE  LET F == HalvedTiling(T, x) \ M IN
         /\ Clean(D \cup {x[2], Upper(x)[2]}, F) /\ Twins(F, Upper(x))
<1> DEFINE a == Lower(x)
           c == Upper(x)
           F == T \ M
           G == HalvedTiling(T, x) \ M
           E == D \cup {x[2], c[2]}
<1>1. /\ x \in Nodes /\ a \in Nodes /\ c \in Nodes /\ a # c /\ Buddy(c) = a /\ Buddy(a) = c
      /\ a[2] = x[2]
  BY SplitNode DEF Tiles, Lower
<1>2. a \notin T /\ c \notin T
  BY TilesHalved
<1>3. Span(x) = Span(a) \cup Span(c) /\ Span(a) \cap Span(c) = {}
  BY <1>1, SpanSplit
<1>4. x[2] \in Span(x) /\ a[2] \in Span(a) /\ c[2] \in Span(c)
  BY <1>1, SpanUnits
<1>5. G = (F \ {x}) \cup {a, c} /\ F \subseteq Nodes /\ x \in F
  BY <1>2 DEF HalvedTiling, Tiles
<1>6. \A y \in F : y # x => Span(y) \cap Span(x) = {}
  BY DEF Tiles
<1>7. Clean(D, F) /\ Twins(F, x)
  OBVIOUS
<1> HIDE DEF a, c, F, G
<1>8. Clean(E, G)
  <2> SUFFICES ASSUME NEW y \in G, NEW u \in Span(y), u \in E PROVE u = y[2]
    BY DEF Clean
  <2>1. CASE y \in F /\ y # x
    <3>1. u \notin Span(x)
      BY <1>6, <2>1
    <3>2. u \in D
      BY <1>3, <1>4, <3>1
    <3> QED BY <1>7, <2>1, <3>2 DEF Clean
  <2>2. CASE y = a
    <3>1. u # c[2] /\ u \in Span(x)
      BY <1>3, <1>4, <2>2
    <3>2. u \in D => u = x[2]
      BY <1>5, <1>7, <3>1 DEF Clean
    <3> QED BY <1>1, <2>2, <3>1, <3>2
  <2>3. CASE y = c
    <3>1. u # x[2] /\ u \in Span(x)
      BY <1>1, <1>3, <1>4, <2>3
    <3>2. u \in D => u = x[2]
      BY <1>5, <1>7, <3>1 DEF Clean
    <3> QED BY <2>3, <3>1, <3>2
  <2> QED BY <1>5, <2>1, <2>2, <2>3
<1>9. Twins(G, c)
  <2> SUFFICES ASSUME NEW y \in G, y[1] > 0, Buddy(y) \in G PROVE y = c \/ Buddy(y) = c
    BY DEF Twins
  <2>1. y \in Nodes /\ Buddy(Buddy(y)) = y
    BY <1>1, <1>5, JoinNode
  <2>2. CASE y = a \/ y = c
    BY <1>1, <2>2
  <2>3. CASE Buddy(y) = a \/ Buddy(y) = c
    BY <1>1, <2>1, <2>3
  <2>4. CASE y \in F \ {x} /\ Buddy(y) \in F \ {x}
    BY <1>7, <2>4 DEF Twins
  <2> QED BY <1>5, <2>2, <2>3, <2>4
<1> QED BY <1>8, <1>9 DEF c, G

SplitFrom(g, h, slist, list) ==
  [l \in slist..list |-> IF l = slist THEN h ELSE halve(g[l - 1], l - 1)]

SplitPath(h, slist, list) ==
  LET halved[l \in slist..list] ==
        IF l = slist THEN h ELSE halve(halved[l - 1], l - 1) IN
  halved

LEMMA SplitPathExists ==
  ASSUME NEW h, NEW a \in Nat, NEW c \in Nat, a <= c
  PROVE  \E g : g = SplitFrom(g, h, a, c)
<1> DEFINE Good(g, k) == \A l \in a..k : g[l] = IF l = a THEN h ELSE halve(g[l - 1], l - 1)
           S == {k \in Nat : a + k <= c => \E g : Good(g, a + k)}
<1>1. 0 \in S
  <2> DEFINE g == [l \in a..c |-> h]
  <2>1. Good(g, a)
    BY DEF Good
  <2>2. a + 0 = a
    OBVIOUS
  <2> HIDE DEF Good
  <2> QED BY <2>1, <2>2
<1>2. ASSUME NEW k \in Nat, k \in S PROVE k + 1 \in S
  <2> SUFFICES ASSUME a + (k + 1) <= c PROVE \E g : Good(g, a + (k + 1))
    OBVIOUS
  <2> DEFINE n == a + k
  <2>1. PICK g : Good(g, n)
    BY <1>2
  <2> DEFINE g1 == [l \in a..c |-> IF l <= n THEN g[l] ELSE halve(g[n], n)]
  <2>2. n \in Nat /\ n + 1 <= c /\ a <= n /\ a + (k + 1) = n + 1
    OBVIOUS
  <2> HIDE DEF n
  <2>3. /\ g1[n + 1] = halve(g[n], n)
        /\ \A l \in a..n : g1[l] = g[l]
    BY <2>2
  <2> HIDE DEF g1
  <2>4. ASSUME NEW l \in a..(n + 1)
        PROVE  g1[l] = IF l = a THEN h ELSE halve(g1[l - 1], l - 1)
    <3>1. CASE l = n + 1
      <4>1. l # a /\ l - 1 = n /\ n \in a..n
        BY <2>2, <3>1
      <4> QED BY <2>3, <3>1, <4>1
    <3>2. CASE l # n + 1
      <4>1. l \in a..n /\ (l # a => l - 1 \in a..n)
        BY <2>2, <3>2
      <4> QED BY <2>1, <2>3, <4>1
    <3> QED BY <3>1, <3>2
  <2>5. Good(g1, n + 1)
    BY <2>4
  <2> HIDE DEF Good
  <2> QED BY <2>2, <2>5
<1> HIDE DEF S
<1>3. c - a \in S
  <2>1. c - a \in Nat
    OBVIOUS
  <2> QED BY <1>1, <1>2, <2>1, SetInduction
<1>4. PICK g : Good(g, c)
  <2> HIDE DEF Good
  <2>1. a + (c - a) = c /\ a + (c - a) <= c
    OBVIOUS
  <2> QED BY <1>3, <2>1 DEF S
<1> DEFINE f == [l \in a..c |-> g[l]]
<1>5. f = [l \in a..c |-> IF l = a THEN h ELSE halve(f[l - 1], l - 1)]
  <2>1. \A l \in a..c : f[l] = IF l = a THEN h ELSE halve(f[l - 1], l - 1)
    <3> SUFFICES ASSUME NEW l \in a..c PROVE f[l] = IF l = a THEN h ELSE halve(f[l - 1], l - 1)
      OBVIOUS
    <3>1. l # a => l - 1 \in a..c
      OBVIOUS
    <3> QED BY <1>4, <3>1
  <2>2. f = [l \in a..c |-> f[l]]
    OBVIOUS
  <2> HIDE DEF f
  <2> QED BY <2>1, <2>2
<1>6. f = SplitFrom(f, h, a, c)
  BY <1>5 DEF SplitFrom
<1> QED BY <1>6

LEMMA SplitPathSteps ==
  ASSUME NEW h, NEW a \in Nat, NEW c \in Nat, a <= c
  PROVE  LET g == SplitPath(h, a, c) IN
         /\ g[a] = h /\ \A l \in a..c : l # a => g[l] = halve(g[l - 1], l - 1)
         /\ split(h, a, c) = g[c]
<1> DEFINE g == SplitPath(h, a, c)
<1>1. g = [l \in a..c |-> IF l = a THEN h ELSE halve(g[l - 1], l - 1)]
  <2>1. \E w : w = SplitFrom(w, h, a, c)
    BY SplitPathExists
  <2>2. g = CHOOSE w : w = SplitFrom(w, h, a, c)
    BY DEF SplitPath, SplitFrom
  <2> HIDE DEF g
  <2>3. g = SplitFrom(g, h, a, c)
    BY <2>1, <2>2
  <2> QED BY <2>3 DEF SplitFrom
<1>2. split(h, a, c) = g[c]
  BY DEF split, SplitPath
<1> HIDE DEF g
<1>3. g[a] = h /\ \A l \in a..c : l # a => g[l] = halve(g[l - 1], l - 1)
  BY <1>1
<1> QED BY <1>2, <1>3 DEF g

\* The heap while sh_malloc halves: the first block of list l is the one to halve.
Splitting(h, M, l) ==
  \E f, T, D : /\ Shape(h, f, T, M, D) /\ Tiles(T) /\ Clean(D, T \ M)
               /\ f[l] # <<>> /\ Twins(T \ M, <<l, f[l][1]>>)

LEMMA SplitStep ==
  ASSUME NEW h, NEW M, NEW l \in Lists, l < Levels, Splitting(h, M, l)
  PROVE  Splitting(halve(h, l), M, l + 1)
<1>1. PICK f, T, D : /\ Shape(h, f, T, M, D) /\ Tiles(T) /\ Clean(D, T \ M)
                     /\ f[l] # <<>> /\ Twins(T \ M, <<l, f[l][1]>>)
  BY DEF Splitting
<1> DEFINE x == <<l, f[l][1]>>
           U == HalvedTiling(T, x)
           E == D \cup {x[2], Upper(x)[2]}
<1>2. /\ x \in T \ M
      /\ \E g : /\ Shape(halve(h, l), g, U, M, E)
                /\ g[l + 1] # <<>> /\ g[l + 1][1] = Upper(x)[2]
  BY <1>1, HalveStep
<1>3. x[1] = l /\ x[1] < Levels /\ Upper(x)[1] = l + 1 /\ Upper(x) = <<l + 1, Upper(x)[2]>>
  BY DEF Upper
<1>4. M \in SUBSET T
  BY <1>1 DEF Shape
<1>5. Twins(T \ M, x)
  BY <1>1
<1> HIDE DEF x
<1>6. Clean(E, U \ M) /\ Twins(U \ M, Upper(x))
  BY <1>1, <1>2, <1>3, <1>4, <1>5, HalvedTwins
<1>7. Tiles(U)
  BY <1>1, <1>2, <1>3, TilesHalved
<1> HIDE DEF U, E
<1>8. PICK g : /\ Shape(halve(h, l), g, U, M, E)
               /\ g[l + 1] # <<>> /\ g[l + 1][1] = Upper(x)[2]
  BY <1>2
<1>9. Twins(U \ M, <<l + 1, g[l + 1][1]>>)
  BY <1>3, <1>6, <1>8
<1> QED BY <1>6, <1>7, <1>8, <1>9 DEF Splitting

\* The loop of sh_malloc ends with a block of the list asked for.
LEMMA SplitLoop ==
  ASSUME NEW h, NEW M, NEW a \in Lists, NEW c \in Lists, a <= c, Splitting(h, M, a)
  PROVE  Splitting(split(h, a, c), M, c)
<1> DEFINE g == SplitPath(h, a, c)
           S == {k \in Nat : a + k <= c => Splitting(g[a + k], M, a + k)}
<1>1. a \in Nat /\ c \in Nat /\ Levels \in Nat /\ c <= Levels
  BY LevelsNat DEF Lists
<1>2. g[a] = h /\ (\A l \in a..c : l # a => g[l] = halve(g[l - 1], l - 1)) /\ split(h, a, c) = g[c]
  BY <1>1, SplitPathSteps
<1> HIDE DEF g
<1>3. 0 \in S
  <2>1. a + 0 = a
    BY <1>1
  <2> QED BY <1>2, <2>1
<1>4. ASSUME NEW k \in Nat, k \in S PROVE k + 1 \in S
  <2> SUFFICES ASSUME a + (k + 1) <= c PROVE Splitting(g[a + (k + 1)], M, a + (k + 1))
    OBVIOUS
  <2> DEFINE n == a + k
  <2>1. /\ n \in Lists /\ n < Levels /\ a + (k + 1) = n + 1 /\ (n + 1) - 1 = n /\ n + 1 # a
        /\ n + 1 \in a..c /\ n <= c
    BY <1>1 DEF Lists
  <2>2. Splitting(g[n], M, n)
    BY <1>4, <2>1
  <2> HIDE DEF n
  <2>3. g[n + 1] = halve(g[n], n)
    BY <1>2, <2>1
  <2>4. Splitting(halve(g[n], n), M, n + 1)
    BY <2>1, <2>2, SplitStep
  <2> QED BY <2>1, <2>3, <2>4
<1> HIDE DEF S
<1>5. c - a \in S
  <2>1. c - a \in Nat
    BY <1>1
  <2> QED BY <1>3, <1>4, <2>1, SetInduction
<1>6. a + (c - a) = c
  BY <1>1
<1> QED BY <1>1, <1>2, <1>5, <1>6 DEF S

-----------------------------------------------------------------------------
(* Joining.                                                                *)

LEMMA ShapeCleared ==
  ASSUME NEW h, NEW f, NEW T, NEW M, NEW D, NEW E, Shape(h, f, T, M, D)
  PROVE  Shape([h EXCEPT !.dirty = E], f, T, M, E)
<1> DEFINE bt == Bits(T)
           bm == Bits(M)
<1>1. [Heap(f, bt, bm, D) EXCEPT !.dirty = E] = Heap(f, bt, bm, E)
  <2> HIDE DEF bt, bm
  <2> QED BY SetDirty
<1> QED BY <1>1 DEF Shape

\* The two halves of a double out, the double in.
JoinedHeap(h, x) ==
  LET y == Buddy(x)
      apart == DropBlock(DropBlock(h, x[2], x[1]), y[2], x[1])
      cleared == [apart EXCEPT !.dirty = @ \ {Max({x[2], y[2]})}] IN
  NewBlock(cleared, Min({x[2], y[2]}), x[1] - 1)

LEMMA JoinedShape ==
  ASSUME NEW h, NEW f, NEW T, NEW M, NEW D, Shape(h, f, T, M, D), Tiles(T),
         NEW x \in T \ M, x[1] > 0, Buddy(x) \in T \ M
  PROVE  \E g : Shape(JoinedHeap(h, x), g, JoinedTiling(T, x), M,
                      (D \ {Upper(Parent(x))[2]}) \cup {Parent(x)[2]})
<1> DEFINE y == Buddy(x)
           p == Parent(x)
           q == Upper(p)[2]
<1>1. /\ x \in Nodes /\ y \in Nodes /\ p \in Nodes /\ y # x /\ y[1] = x[1] /\ p[1] = x[1] - 1
      /\ p[2] = Min({x[2], y[2]}) /\ q = Max({x[2], y[2]})
  BY JoinNode DEF Tiles
<1>2. p \notin T /\ y \in T \ M
  BY TilesJoined
<1> HIDE DEF y, p, q
<1> DEFINE h1 == DropBlock(h, x[2], x[1])
           f1 == Removed(f, x[2], x[1])
           h2 == DropBlock(h1, y[2], y[1])
           f2 == Removed(f1, y[2], y[1])
           h3 == [h2 EXCEPT !.dirty = D \ {q}]
           h4 == NewBlock(h3, p[2], p[1])
           f4 == Added(f2, p[2], p[1])
           T1 == T \ {x}
           T2 == T1 \ {y}
           E == D \ {q}
<1>3. Shape(h1, f1, T1, M, D)
  BY BlockDropped
<1>4. y \in T1 /\ y \notin M /\ p \notin T2
  BY <1>1, <1>2
<1> HIDE DEF h1, f1, T1
<1>5. Shape(h2, f2, T2, M, D)
  BY <1>3, <1>4, BlockDropped
<1>6. h2.dirty = D
  BY <1>5, HeapFields DEF Shape
<1> HIDE DEF h2, f2, T2, E
<1>7. Shape(h3, f2, T2, M, E)
  BY <1>5, ShapeCleared DEF E
<1> HIDE DEF h3
<1>8. Shape(h4, f4, T2 \cup {p}, M, E \cup {p[2]})
  BY <1>1, <1>4, <1>7, BlockAdded
<1>9. JoinedHeap(h, x) = h4
  BY <1>1, <1>6 DEF JoinedHeap, h1, h2, h3, y, E
<1>10. T2 \cup {p} = JoinedTiling(T, x)
  BY DEF T1, T2, y, p, JoinedTiling
<1> HIDE DEF h4, f4
<1>11. Shape(JoinedHeap(h, x), f4, JoinedTiling(T, x), M, (D \ {q}) \cup {p[2]})
  BY <1>8, <1>9, <1>10 DEF E
<1> QED BY <1>11 DEF q, p

LEMMA JoinedTwins ==
  ASSUME NEW T, Tiles(T), NEW M \in SUBSET T, NEW x \in T \ M, x[1] > 0, Buddy(x) \in T \ M,
         NEW D, Clean(D, T \ M), Twins(T \ M, x)
  PROVE  LET F == JoinedTiling(T, x) \ M IN
         /\ Clean((D \ {Upper(Parent(x))[2]}) \cup {Parent(x)[2]}, F) /\ Twins(F, Parent(x))
         /\ Parent(x) \in F
<1> DEFINE y == Buddy(x)
           p == Parent(x)
           q == Upper(p)[2]
           F == T \ M
           G == JoinedTiling(T, x) \ M
           E == (D \ {q}) \cup {p[2]}
<1>0. x \in Nodes
  BY DEF Tiles
<1>1. /\ x \in Nodes /\ y \in Nodes /\ p \in Nodes /\ y # x
      /\ {x, y} = {Lower(p), Upper(p)} /\ p[1] < Levels
  BY <1>0, JoinNode
<1>2. p \notin T /\ x \in F /\ y \in F
  BY TilesJoined
<1>3. Span(p) = Span(x) \cup Span(y)
  BY <1>1, SpanSplit
<1>4. Lower(p)[2] = p[2] /\ Upper(p)[2] = q
  BY DEF Lower
<1>5. (x[2] = p[2] /\ y[2] = q) \/ (x[2] = q /\ y[2] = p[2])
  BY <1>1, <1>4
<1>6. p[2] \in Span(p)
  BY <1>1, SpanUnits
<1>7. G = (F \ {x, y}) \cup {p} /\ F \subseteq Nodes
  BY <1>2 DEF JoinedTiling, Tiles
<1>8. \A z \in F : z # x /\ z # y => Span(z) \cap Span(p) = {}
  <2> HIDE DEF y, p
  <2>1. y \in T
    BY <1>2
  <2> QED BY <1>3, <2>1 DEF Tiles
<1>9. Clean(D, F) /\ Twins(F, x)
  OBVIOUS
<1> HIDE DEF y, p, q, F, G
<1>10. Clean(E, G)
  <2> SUFFICES ASSUME NEW z \in G, NEW u \in Span(z), u \in E PROVE u = z[2]
    BY DEF Clean
  <2>1. CASE z \in F /\ z # x /\ z # y
    <3>1. u # p[2]
      BY <1>6, <1>8, <2>1
    <3> QED BY <1>9, <2>1, <3>1 DEF Clean
  <2>2. CASE z = p
    <3>1. u = p[2] \/ (u \in D /\ u # q)
      OBVIOUS
    <3>2. u \in D => u = x[2] \/ u = y[2]
      BY <1>2, <1>3, <1>9, <2>2 DEF Clean
    <3> QED BY <1>5, <2>2, <3>1, <3>2
  <2> QED BY <1>7, <2>1, <2>2
<1>11. Twins(G, p)
  <2> SUFFICES ASSUME NEW z \in G, z[1] > 0, Buddy(z) \in G, z # p, Buddy(z) # p PROVE FALSE
    BY DEF Twins
  <2>1. z \in F /\ Buddy(z) \in F /\ z # x /\ Buddy(z) # x
    BY <1>7
  <2> QED BY <1>9, <2>1 DEF Twins
<1>12. p \in G
  BY <1>7
<1> QED BY <1>10, <1>11, <1>12 DEF p, q, G

\* The heap while sh_free joins: x is the block that may have a free buddy.
Joining(c, M, n) ==
  \E f, T, D, x :
    /\ c = [h |-> c.h, ptr |-> x[2], list |-> x[1]]
    /\ Shape(c.h, f, T, M, D) /\ Tiles(T) /\ Clean(D, T \ M)
    /\ x \in T \ M /\ Twins(T \ M, x) /\ (x[1] <= n \/ NoTwins(T \ M))

LEMMA TwinsOfNone ==
  ASSUME NEW F \in SUBSET Nodes, NEW x \in Nodes, Twins(F, x), ~ (x[1] > 0 /\ Buddy(x) \in F)
  PROVE  NoTwins(F)
<1> SUFFICES ASSUME NEW y \in F, y[1] > 0, Buddy(y) \in F PROVE FALSE
  BY DEF NoTwins
<1>1. y = x \/ Buddy(y) = x
  BY DEF Twins
<1>2. Buddy(Buddy(y)) = y /\ Buddy(y)[1] = y[1]
  BY JoinNode
<1> QED BY <1>1, <1>2

LEMMA JoinStep ==
  ASSUME NEW c, NEW M, NEW n \in Nat, Joining(c, M, n + 1)
  PROVE  Joining(join(c), M, n)
<1>1. PICK f, T, D, x :
        /\ c = [h |-> c.h, ptr |-> x[2], list |-> x[1]]
        /\ Shape(c.h, f, T, M, D) /\ Tiles(T) /\ Clean(D, T \ M)
        /\ x \in T \ M /\ Twins(T \ M, x) /\ (x[1] <= n + 1 \/ NoTwins(T \ M))
  BY DEF Joining
<1> DEFINE h == c.h
           F == T \ M
<1>2. c.ptr = x[2] /\ c.list = x[1]
  BY <1>1
<1>3. x \in Nodes /\ F \in SUBSET Nodes /\ M \in SUBSET T /\ x \in F
  BY <1>1 DEF Tiles, Shape
<1>4. x[1] \in Nat /\ x[2] \in Nat
  BY <1>3, NodeFields
<1>5. CASE ~ (x[1] > 0 /\ Buddy(x) \in F)
  <2>1. find_my_buddy(c.h, c.ptr, c.list) = -1
    BY <1>1, <1>2, <1>3, <1>5, BuddyFound
  <2>2. join(c) = c
    BY <2>1 DEF join
  <2>3. NoTwins(T \ M)
    <3> HIDE DEF F
    <3>1. Twins(F, x)
      BY <1>1 DEF F
    <3> QED BY <1>3, <1>5, <3>1, TwinsOfNone DEF F
  <2> QED BY <1>1, <2>2, <2>3 DEF Joining
<1>6. CASE x[1] > 0 /\ Buddy(x) \in F
  <2> DEFINE y == Buddy(x)
             p == Parent(x)
             U == JoinedTiling(T, x)
             E == (D \ {Upper(p)[2]}) \cup {p[2]}
  <2>1. /\ y \in Nodes /\ Buddy(y) = x /\ y[1] = x[1] /\ p[1] = x[1] - 1 /\ p[2] = Min({x[2], y[2]})
    BY <1>3, <1>6, JoinNode
  <2>2. y[2] \in Nat
    BY <2>1, NodeFields
  <2>3. find_my_buddy(c.h, c.ptr, c.list) = y[2]
    BY <1>1, <1>2, <1>3, <1>6, BuddyFound
  <2>4. find_my_buddy(c.h, y[2], c.list) = c.ptr
    <3>1. Buddy(y) \in T \ M /\ y[1] > 0
      BY <1>3, <1>6, <2>1
    <3> HIDE DEF y
    <3>2. find_my_buddy(c.h, y[2], y[1]) = Buddy(y)[2]
      BY <1>1, <2>1, <3>1, BuddyFound
    <3> QED BY <1>2, <2>1, <3>2
  <2>5. Asserted(c.h, find_my_buddy(c.h, y[2], c.list) = c.ptr) = c.h
    BY <2>4 DEF Asserted
  <2>6. join(c) = [h |-> JoinedHeap(c.h, x), ptr |-> p[2], list |-> p[1]]
    <3>1. y[2] # -1
      BY <2>2
    <3> HIDE DEF p, y
    <3> QED BY <1>2, <2>1, <2>3, <2>5, <3>1 DEF join, JoinedHeap, y
  <2>7. PICK g : Shape(JoinedHeap(c.h, x), g, U, M, E)
    BY <1>1, <1>6, JoinedShape
  <2>8. Tiles(U)
    BY <1>1, <1>6, TilesJoined
  <2>9. Clean(E, U \ M) /\ Twins(U \ M, p) /\ p \in U \ M
    BY <1>1, <1>3, <1>6, JoinedTwins
  <2>10. p[1] <= n \/ NoTwins(U \ M)
    <3>1. ~ NoTwins(T \ M)
      BY <1>3, <1>6 DEF NoTwins
    <3> QED BY <1>1, <1>4, <2>1, <3>1
  <2> DEFINE d == join(c)
  <2>11. d.h = JoinedHeap(c.h, x) /\ d = [h |-> d.h, ptr |-> p[2], list |-> p[1]]
    <3> HIDE DEF p
    <3> QED BY <2>6
  <2> HIDE DEF p, U, E, y, d
  <2>12. Shape(d.h, g, U, M, E)
    BY <2>7, <2>11
  <2>13. Joining(d, M, n)
    BY <2>8, <2>9, <2>10, <2>11, <2>12 DEF Joining
  <2> QED BY <2>13 DEF d
<1> QED BY <1>5, <1>6

JoinFrom(g, h, p, list) ==
  [n \in 0..list |-> IF n = 0 THEN [h |-> h, ptr |-> p, list |-> list] ELSE join(g[n - 1])]

JoinPath(h, p, list) ==
  LET joined[n \in 0..list] ==
        IF n = 0 THEN [h |-> h, ptr |-> p, list |-> list] ELSE join(joined[n - 1]) IN
  joined

LEMMA JoinPathExists ==
  ASSUME NEW h, NEW p, NEW list \in Nat
  PROVE  \E g : g = JoinFrom(g, h, p, list)
<1> DEFINE first == [h |-> h, ptr |-> p, list |-> list]
           Good(g, k) == \A n \in 0..k : g[n] = IF n = 0 THEN first ELSE join(g[n - 1])
           S == {k \in Nat : k <= list => \E g : Good(g, k)}
<1> HIDE DEF first
<1>1. 0 \in S
  <2> DEFINE g == [n \in 0..list |-> first]
  <2>1. Good(g, 0)
    OBVIOUS
  <2> HIDE DEF Good
  <2> QED BY <2>1
<1>2. ASSUME NEW k \in Nat, k \in S PROVE k + 1 \in S
  <2> SUFFICES ASSUME k + 1 <= list PROVE \E g : Good(g, k + 1)
    OBVIOUS
  <2>1. PICK g : Good(g, k)
    BY <1>2
  <2> DEFINE g1 == [n \in 0..list |-> IF n <= k THEN g[n] ELSE join(g[k])]
  <2>3. /\ g1[k + 1] = join(g[k])
        /\ \A n \in 0..k : g1[n] = g[n]
    OBVIOUS
  <2> HIDE DEF g1
  <2>4. ASSUME NEW n \in 0..(k + 1)
        PROVE  g1[n] = IF n = 0 THEN first ELSE join(g1[n - 1])
    <3>1. CASE n = k + 1
      <4>1. n # 0 /\ n - 1 = k /\ k \in 0..k
        BY <3>1
      <4> QED BY <2>3, <3>1, <4>1
    <3>2. CASE n # k + 1
      <4>1. n \in 0..k /\ (n # 0 => n - 1 \in 0..k)
        BY <3>2
      <4> QED BY <2>1, <2>3, <4>1
    <3> QED BY <3>1, <3>2
  <2>5. Good(g1, k + 1)
    BY <2>4
  <2> HIDE DEF Good
  <2> QED BY <2>5
<1> HIDE DEF S
<1>3. list \in S
  BY <1>1, <1>2, SetInduction
<1>4. PICK g : Good(g, list)
  <2> HIDE DEF Good
  <2>1. list <= list
    OBVIOUS
  <2> QED BY <1>3, <2>1 DEF S
<1> DEFINE f == [n \in 0..list |-> g[n]]
<1>5. f = [n \in 0..list |-> IF n = 0 THEN first ELSE join(f[n - 1])]
  <2>1. \A n \in 0..list : f[n] = IF n = 0 THEN first ELSE join(f[n - 1])
    <3> SUFFICES ASSUME NEW n \in 0..list PROVE f[n] = IF n = 0 THEN first ELSE join(f[n - 1])
      OBVIOUS
    <3>1. n # 0 => n - 1 \in 0..list
      OBVIOUS
    <3> QED BY <1>4, <3>1
  <2>2. f = [n \in 0..list |-> f[n]]
    OBVIOUS
  <2> HIDE DEF f
  <2> QED BY <2>1, <2>2
<1>6. f = JoinFrom(f, h, p, list)
  BY <1>5 DEF JoinFrom, first
<1> QED BY <1>6

LEMMA JoinPathSteps ==
  ASSUME NEW h, NEW p, NEW list \in Nat
  PROVE  LET g == JoinPath(h, p, list) IN
         /\ g[0] = [h |-> h, ptr |-> p, list |-> list]
         /\ \A n \in 0..list : n # 0 => g[n] = join(g[n - 1])
         /\ coalesce(h, p, list) = g[list].h
<1> DEFINE g == JoinPath(h, p, list)
           first == [h |-> h, ptr |-> p, list |-> list]
<1>1. g = [n \in 0..list |-> IF n = 0 THEN first ELSE join(g[n - 1])]
  <2>1. \E w : w = JoinFrom(w, h, p, list)
    BY JoinPathExists
  <2>2. g = CHOOSE w : w = JoinFrom(w, h, p, list)
    BY DEF JoinPath, JoinFrom
  <2> HIDE DEF g
  <2>3. g = JoinFrom(g, h, p, list)
    BY <2>1, <2>2
  <2> QED BY <2>3 DEF JoinFrom
<1>2. coalesce(h, p, list) = g[list].h
  BY DEF coalesce, JoinPath
<1> HIDE DEF g, first
<1>3. g[0] = first /\ \A n \in 0..list : n # 0 => g[n] = join(g[n - 1])
  BY <1>1
<1> QED BY <1>2, <1>3 DEF g, first

\* What a heap is between two calls.
Whole(h, f, T, M, D) ==
  /\ Shape(h, f, T, M, D) /\ Tiles(T) /\ Clean(D, T \ M) /\ NoTwins(T \ M)

\* The loop of sh_free ends with no two free buddies.
LEMMA JoinLoop ==
  ASSUME NEW h, NEW f, NEW T, NEW M, NEW D, NEW x \in T \ M,
         Shape(h, f, T, M, D), Tiles(T), Clean(D, T \ M), Twins(T \ M, x)
  PROVE  \E g, U, E : Whole(coalesce(h, x[2], x[1]), g, U, M, E)
<1> DEFINE list == x[1]
           path == JoinPath(h, x[2], x[1])
           S == {k \in Nat : k <= list => Joining(path[k], M, list - k)}
<1>1. list \in Nat /\ x \in Nodes
  BY NodeFields DEF Tiles
<1>2. /\ path[0] = [h |-> h, ptr |-> x[2], list |-> x[1]]
      /\ \A n \in 0..list : n # 0 => path[n] = join(path[n - 1])
      /\ coalesce(h, x[2], x[1]) = path[list].h
  BY <1>1, JoinPathSteps
<1> HIDE DEF path
<1>3. 0 \in S
  <2> DEFINE c == path[0]
  <2>1. c.h = h /\ c = [h |-> c.h, ptr |-> x[2], list |-> x[1]]
    BY <1>2
  <2> HIDE DEF c
  <2>2. x[1] <= list - 0
    BY <1>1
  <2>3. Shape(c.h, f, T, M, D)
    BY <2>1
  <2>4. Joining(c, M, list - 0)
    BY <2>1, <2>2, <2>3 DEF Joining
  <2> QED BY <2>4 DEF c
<1>4. ASSUME NEW k \in Nat, k \in S PROVE k + 1 \in S
  <2> SUFFICES ASSUME k + 1 <= list PROVE Joining(path[k + 1], M, list - (k + 1))
    OBVIOUS
  <2> DEFINE n == list - (k + 1)
  <2>1. n \in Nat /\ list - k = n + 1 /\ k + 1 \in 0..list /\ k + 1 # 0 /\ (k + 1) - 1 = k /\ k <= list
    BY <1>1
  <2>2. Joining(path[k], M, n + 1)
    BY <1>4, <2>1
  <2> HIDE DEF n
  <2>3. path[k + 1] = join(path[k])
    BY <1>2, <2>1
  <2>4. Joining(join(path[k]), M, n)
    BY <2>1, <2>2, JoinStep
  <2> QED BY <2>3, <2>4 DEF n
<1> HIDE DEF S
<1>5. list \in S
  BY <1>1, <1>3, <1>4, SetInduction
<1> DEFINE c == path[list]
<1>6. Joining(c, M, 0)
  BY <1>1, <1>5 DEF S
<1> HIDE DEF c
<1>7. PICK g, U, E, y :
        /\ c = [h |-> c.h, ptr |-> y[2], list |-> y[1]]
        /\ Shape(c.h, g, U, M, E) /\ Tiles(U) /\ Clean(E, U \ M)
        /\ y \in U \ M /\ Twins(U \ M, y) /\ (y[1] <= 0 \/ NoTwins(U \ M))
  BY <1>6 DEF Joining
<1>8. NoTwins(U \ M)
  <2> DEFINE F == U \ M
  <2>1. F \in SUBSET Nodes /\ y \in Nodes /\ Twins(F, y) /\ (y[1] <= 0 \/ NoTwins(F))
    BY <1>7 DEF Tiles
  <2>2. y[1] \in Nat
    BY <2>1, NodeFields
  <2> HIDE DEF F
  <2>3. CASE y[1] <= 0
    <3>1. ~ (y[1] > 0)
      BY <2>2, <2>3
    <3> QED BY <2>1, <3>1, TwinsOfNone DEF F
  <2> QED BY <2>1, <2>3 DEF F
<1>9. Whole(coalesce(h, x[2], x[1]), g, U, M, E)
  BY <1>2, <1>7, <1>8 DEF Whole, c
<1> QED BY <1>9

-----------------------------------------------------------------------------
(* Which list a block is of.                                               *)

\* The largest list of a set, -1 if there is none.
LEMMA LargestList ==
  ASSUME NEW S \in SUBSET Lists
  PROVE  LET m == Max({-1} \cup S) IN
         /\ m \in {-1} \cup S /\ m \in Int
         /\ \A l \in S : l <= m
<1>0. Levels \in Nat /\ S \subseteq Nat /\ \A l \in S : l <= Levels
  BY LevelsNat DEF Lists
<1>1. \E m \in {-1} \cup S : \A l \in {-1} \cup S : m >= l
  <2>1. CASE S = {}
    BY <2>1
  <2>2. CASE S # {}
    <3> DEFINE R == {Levels - l : l \in S}
    <3>0. \A l \in S : Levels - l \in Nat
      BY <1>0
    <3>1. R \in SUBSET Nat /\ R # {}
      BY <2>2, <3>0, Zenon
    <3>2. PICK n \in R : \A k \in R : n <= k
      <4> HIDE DEF R
      <4> QED BY <3>1, Smallest
    <3>3. PICK m \in S : n = Levels - m
      BY <3>2
    <3>4. \A l \in S : Levels - m <= Levels - l
      BY <3>2, <3>3
    <3>5. \A l \in S : m >= l
      BY <1>0, <3>4
    <3> QED BY <1>0, <3>5
  <2> QED BY <2>1, <2>2
<1> DEFINE m == Max({-1} \cup S)
<1>2. m \in {-1} \cup S /\ \A l \in {-1} \cup S : m >= l
  BY <1>1 DEF Max
<1> HIDE DEF m
<1>3. m \in Int /\ \A l \in S : l <= m
  BY <1>0, <1>2
<1> QED BY <1>2, <1>3 DEF m

\* Below its own list a block begins at the lower half of every double.
LEMMA EvenBelow ==
  ASSUME NEW x \in Nodes, NEW l \in Lists, l > x[1]
  PROVE  Bit(x[2], l) % 2 = 0
<1> DEFINE s == BlockSize(l)
           t == BlockSize(x[1])
           k == x[2] \div t
           d == l - x[1]
           e == pow2[d - 1]
<1>1. x[1] \in Nat /\ x[1] \in Lists /\ x[2] \in Units /\ x[2] \in Nat
  BY NodeFields
<1>2. /\ l \in Nat /\ l <= Levels /\ Levels \in Nat /\ d \in 0..Levels /\ d > 0 /\ d - 1 \in 0..Levels
      /\ Levels - l \in Nat /\ d \in Nat /\ (Levels - l) + d = Levels - x[1] /\ Levels - x[1] <= Levels
      /\ l > 0 /\ l - 1 \in 0..Levels
  BY <1>1, LevelsNat DEF Lists
<1>3. t = s * pow2[d]
  BY <1>2, PowerProduct DEF BlockSize
<1>4. pow2[d] = 2 * e /\ e \in Nat /\ pow2[l] = 2 * pow2[l - 1] /\ pow2[l - 1] \in Nat
  BY <1>2, Powers DEF Lists
<1>5. k \in Nat /\ x[2] = t * k /\ s \in Nat /\ s > 0
  BY NodeIndex, SizesOfBlocks
<1> HIDE DEF s, t, k, d, e
<1>6. x[2] = s * (2 * (e * k)) + 0 /\ 2 * (e * k) \in Nat /\ e * k \in Nat
  BY <1>3, <1>4, <1>5
<1>7. x[2] \div s = 2 * (e * k)
  BY <1>1, <1>5, <1>6, Quotient
<1>8. Bit(x[2], l) = 2 * pow2[l - 1] + 2 * (e * k)
  BY <1>4, <1>7 DEF Bit, s
<1>9. \A i, j \in Nat : (2 * i + 2 * j) % 2 = 0
  OBVIOUS
<1> QED BY <1>4, <1>6, <1>8, <1>9

\* The list getlist finds for a block is the block's own.
LEMMA ListFound ==
  ASSUME NEW h, NEW f, NEW T, NEW M, NEW D, Shape(h, f, T, M, D), Tiles(T), NEW x \in T
  PROVE  /\ getlist(h, x[2]) = x[1] /\ getlist_asserts(h, x[2])
         /\ actual_size(h, x[2]) = BlockSize(x[1])
<1>1. x \in Nodes /\ T \in SUBSET Nodes /\ h.bittable = Bits(T)
  BY HeapFields DEF Shape
<1>2. x[1] \in Lists /\ x[2] \in Units /\ x[1] \in Nat /\ x[2] \in Span(x)
  BY <1>1, NodeFields, SpanUnits
<1>3. ASSUME NEW l \in Lists, Bit(x[2], l) \in Bits(T) PROVE l = x[1]
  <2> DEFINE y == Above(x[2], l)
  <2>1. y \in Nodes /\ BitOf(y) = Bit(x[2], l) /\ x[2] \in Span(y) /\ y[1] = l
    BY <1>2, AboveIsNode DEF Above
  <2> HIDE DEF y
  <2>2. y \in T
    BY <1>1, <1>3, <2>1, BitsExact
  <2>3. y = x
    BY <1>2, <2>1, <2>2 DEF Tiles
  <2> QED BY <2>1, <2>3
<1>4. Bit(x[2], x[1]) \in Bits(T)
  BY <1>1, BitsExact DEF BitOf
<1>5. {l \in Lists : Bit(x[2], l) \in h.bittable} = {x[1]}
  BY <1>1, <1>2, <1>3, <1>4
<1>6. Max({-1} \cup {x[1]}) = x[1]
  BY <1>2 DEF Max
<1>7. getlist(h, x[2]) = x[1]
  BY <1>5, <1>6 DEF getlist
<1>8. getlist_asserts(h, x[2])
  BY <1>1, <1>7, EvenBelow DEF getlist_asserts
<1> QED BY <1>7, <1>8 DEF actual_size

\* The list of a size has blocks that hold it.
LEMMA SizeOfList ==
  ASSUME NEW size \in 0..(arena_size + 1)
  PROVE  /\ list_for(size) \in {-1} \cup Lists
         /\ list_for(size) >= 0 => list_for(size) \in Lists /\ BlockSize(list_for(size)) >= size
         /\ size <= arena_size => list_for(size) \in Lists
<1> DEFINE S == {l \in Lists : BlockSize(l) >= size}
           m == list_for(size)
<1>1. m \in {-1} \cup S /\ m \in Int /\ \A l \in S : l <= m
  <2>1. S \in SUBSET Lists /\ m = Max({-1} \cup S)
    BY DEF list_for
  <2> HIDE DEF S
  <2> QED BY <2>1, LargestList
<1>2. 0 \in Lists /\ BlockSize(0) = arena_size
  BY LevelsNat DEF Lists, BlockSize, arena_size
<1>3. arena_size \in Nat
  BY <1>2, SizesOfBlocks
<1>4. ASSUME size <= arena_size PROVE m \in Lists
  <2>1. 0 \in S
    BY <1>2, <1>3, <1>4
  <2> QED BY <1>1, <2>1
<1> HIDE DEF m
<1> QED BY <1>1, <1>4 DEF m

-----------------------------------------------------------------------------
(* The units that are handed out.                                          *)

Taken(M) == UNION {Span(x) : x \in M}

LEMMA SpanSize ==
  ASSUME NEW x \in Nodes
  PROVE  IsFiniteSet(Span(x)) /\ Cardinality(Span(x)) = BlockSize(x[1])
<1> DEFINE p == x[2]
           s == BlockSize(x[1])
<1>1. p \in Nat /\ s \in Nat /\ s > 0
  BY NodeFields, SizesOfBlocks
<1>2. Span(x) = p..(p + s - 1)
  BY DEF Span, Block
<1> HIDE DEF p, s
<1>3. p \in Int /\ p + s - 1 \in Int /\ ~ (p > p + s - 1) /\ (p + s - 1) - p + 1 = s
  BY <1>1
<1>4. /\ IsFiniteSet(p..(p + s - 1))
      /\ Cardinality(p..(p + s - 1)) = IF p > p + s - 1 THEN 0 ELSE (p + s - 1) - p + 1
  BY <1>3, FS_Interval
<1> QED BY <1>2, <1>3, <1>4 DEF s

\* One more block handed out, and its size more units.
LEMMA TakenSize ==
  ASSUME NEW T, Tiles(T), NEW M \in SUBSET T, NEW x \in T \ M
  PROVE  /\ Cardinality(Taken(M)) \in Nat
         /\ Cardinality(Taken(M \cup {x})) = Cardinality(Taken(M)) + BlockSize(x[1])
<1>0. x \in Nodes /\ \A y \in M : y \in Nodes
  BY DEF Tiles
<1>1. Taken(M) \in SUBSET Units
  BY <1>0, SpanUnits DEF Taken
<1>2. IsFiniteSet(Units)
  <2>1. arena_size - 1 \in Int
    BY <1>0, NodeFields, SizesOfBlocks
  <2> QED BY <2>1, FS_Interval DEF Units
<1>3. IsFiniteSet(Taken(M)) /\ Cardinality(Taken(M)) \in Nat
  BY <1>1, <1>2, FS_Subset, FS_CardinalityType
<1>4. IsFiniteSet(Span(x)) /\ Cardinality(Span(x)) = BlockSize(x[1]) /\ BlockSize(x[1]) \in Nat
  BY <1>0, SpanSize, NodeFields, SizesOfBlocks
<1>5. Taken(M) \cap Span(x) = {}
  BY DEF Taken, Tiles
<1>6. Taken(M \cup {x}) = Taken(M) \cup Span(x)
  BY DEF Taken
<1>7. Cardinality(Taken(M) \cup Span(x)) =
        Cardinality(Taken(M)) + Cardinality(Span(x)) - Cardinality(Taken(M) \cap Span(x))
  BY <1>3, <1>4, FS_Union
<1>8. Cardinality(Taken(M) \cap Span(x)) = 0
  BY <1>5, FS_EmptySet
<1>9. \A i, j \in Nat : i + j - 0 = i + j
  OBVIOUS
<1>10. Cardinality(Taken(M) \cup Span(x)) = Cardinality(Taken(M)) + BlockSize(x[1])
  BY <1>3, <1>4, <1>7, <1>8, <1>9
<1> QED BY <1>3, <1>6, <1>10

-----------------------------------------------------------------------------
(* The invariant of the heap.                                              *)

\* Each block handed out has one caller, which has room for what it asked.
Holders(M, G) ==
  /\ \A g \in G : \E x \in M : x[2] = g.ptr /\ g.size <= BlockSize(x[1])
  /\ \A x \in M : \E g \in G : x[2] = g.ptr
  /\ \A f, g \in G : f.ptr = g.ptr => f = g

\* There are blocks T that tile the arena; M of them are handed out, and no two
\* of the others are buddies.
HeapInv ==
  /\ zeroed = TRUE
  /\ \E f, T, M, D :
       /\ Whole(sh, f, T, M, D)
       /\ Holders(M, given) /\ used = Cardinality(Taken(M))

\* Two blocks of a tiling that begin at the same unit are one.
LEMMA SameStart ==
  ASSUME NEW T, Tiles(T), NEW x \in T, NEW y \in T, x[2] = y[2]
  PROVE  x = y
<1>1. x[2] \in Span(x) /\ y[2] \in Span(y)
  BY SpanUnits DEF Tiles
<1> QED BY <1>1 DEF Tiles

\* The bits of T and M, read back.
LEMMA BlocksRead ==
  ASSUME NEW f, NEW T, NEW M, NEW D, Shape(sh, f, T, M, D)
  PROVE  Blocks = T /\ FreeBlocks = T \ M /\ HeldBlocks = M /\ HeldUnits = Taken(M)
<1>1. /\ sh.bittable = Bits(T) /\ sh.bitmalloc = Bits(M)
      /\ T \in SUBSET Nodes /\ M \in SUBSET Nodes /\ M \subseteq T
  BY HeapFields DEF Shape
<1>2. \A x \in Nodes : (Bit(x[2], x[1]) \in sh.bittable <=> x \in T)
                       /\ (Bit(x[2], x[1]) \in sh.bitmalloc <=> x \in M)
  BY <1>1, BitsExact DEF BitOf
<1>3. Blocks = {x \in Nodes : Bit(x[2], x[1]) \in sh.bittable}
  BY DEF Blocks, Nodes
<1>4. Blocks = T
  BY <1>1, <1>2, <1>3
<1>5. FreeBlocks = T \ M
  BY <1>1, <1>2, <1>4 DEF FreeBlocks
<1>6. HeldBlocks = M
  BY <1>1, <1>4, <1>5 DEF HeldBlocks
<1> QED BY <1>4, <1>5, <1>6 DEF HeldUnits, Taken, Span

\* The invariant implies what the heap promises.
LEMMA InvTiled == HeapInv => Tiled
<1> SUFFICES ASSUME HeapInv PROVE Tiled
  OBVIOUS
<1>1. PICK f, T, M, D : /\ Whole(sh, f, T, M, D)
                        /\ Holders(M, given) /\ used = Cardinality(Taken(M))
  BY DEF HeapInv
<1>2. Shape(sh, f, T, M, D) /\ Tiles(T)
  BY <1>1 DEF Whole
<1>3. Blocks = T /\ FreeBlocks = T \ M /\ HeldBlocks = M /\ HeldUnits = Taken(M)
  BY <1>2, BlocksRead
<1>4. sh.asserts
  BY <1>2, HeapAsserts DEF Shape
<1>5. sh.freelist = f /\ ListsOK(f, T \ M)
  BY <1>2, HeapFields DEF Shape
<1>6. /\ \A u \in Units : \E x \in Blocks : u \in Block(x[2], x[1])
      /\ \A x, y \in Blocks : x # y => Block(x[2], x[1]) \cap Block(y[2], y[1]) = {}
  BY <1>2, <1>3 DEF Tiles, Span
<1>7. ASSUME NEW l \in Lists
      PROVE  /\ IsInjective(sh.freelist[l])
             /\ ToSet(sh.freelist[l]) = {p \in Units : <<l, p>> \in FreeBlocks}
  <2>1. /\ IsInjective(f[l])
        /\ \A p : (\E i \in DOMAIN f[l] : f[l][i] = p) <=> <<l, p>> \in T \ M
    BY <1>5 DEF ListsOK
  <2>2. \A p : <<l, p>> \in T \ M => p \in Units
    <3>1. T \subseteq Lists \X Units
      BY <1>2 DEF Tiles, Nodes
    <3> QED BY <3>1
  <2>3. ToSet(f[l]) = {f[l][i] : i \in DOMAIN f[l]}
    BY DEF ToSet
  <2> QED BY <1>3, <1>5, <2>1, <2>2, <2>3
<1>8. /\ \A g \in given : \E x \in HeldBlocks : x[2] = g.ptr /\ g.size <= BlockSize(x[1])
      /\ \A x \in HeldBlocks : \E g \in given : x[2] = g.ptr
      /\ \A e, g \in given : e.ptr = g.ptr => e = g
      /\ used = Cardinality(HeldUnits)
  BY <1>1, <1>3 DEF Holders
<1> QED BY <1>4, <1>6, <1>7, <1>8 DEF Tiled

\* A region with no unit handed out holds two free buddies, unless it lies in a
\* free block.
LEMMA FreeRegion ==
  ASSUME NEW T, Tiles(T), NEW M \in SUBSET T, NoTwins(T \ M), NEW n \in Nodes,
         \A u \in Span(n) : u \notin Taken(M)
  PROVE  \E x \in T \ M : x[1] <= n[1]
<1> SUFFICES ASSUME \A x \in T \ M : x[1] > n[1] PROVE FALSE
  <2>1. \A x \in T \ M : x[1] \in Nat /\ n[1] \in Nat
    BY NodeFields DEF Tiles
  <2> QED BY <2>1
<1> DEFINE F == T \ M
           R == {Levels - x[1] : x \in {y \in F : Span(y) \subseteq Span(n)}}
<1>0. Levels \in Nat /\ \A x \in Nodes : x[1] \in Nat /\ x[1] <= Levels
  BY LevelsNat, NodeFields DEF Lists
<1>1. F \subseteq Nodes /\ T \subseteq Nodes
  BY DEF Tiles
\* every unit of the region is in a free block within it
<1>2. ASSUME NEW u \in Span(n)
      PROVE  \E x \in F : u \in Span(x) /\ Span(x) \subseteq Span(n)
  <2>1. u \in Units
    BY SpanUnits
  <2>2. PICK x \in T : u \in Span(x)
    BY <2>1 DEF Tiles
  <2>3. x \in F
    BY <2>2 DEF Taken
  <2>4. n[1] <= x[1]
    BY <1>0, <1>1, <2>3
  <2>5. Span(x) \subseteq Span(n)
    BY <1>1, <2>2, <2>4, Nested
  <2> QED BY <2>2, <2>3, <2>5
<1>3. R \in SUBSET Nat
  <2>1. \A x \in F : Levels - x[1] \in Nat
    BY <1>0, <1>1
  <2> QED BY <2>1, Zenon
<1>4. R # {}
  <2>1. n[2] \in Span(n)
    BY SpanUnits
  <2>2. PICK x \in F : n[2] \in Span(x) /\ Span(x) \subseteq Span(n)
    BY <1>2, <2>1
  <2> QED BY <2>2, Zenon
<1>5. PICK r \in R : \A k \in R : r <= k
  <2> HIDE DEF R
  <2> QED BY <1>3, <1>4, Smallest
<1>6. PICK y \in F : Span(y) \subseteq Span(n) /\ r = Levels - y[1]
  BY <1>5, Zenon
<1>7. ASSUME NEW w \in F, Span(w) \subseteq Span(n) PROVE w[1] <= y[1]
  <2>1. Levels - w[1] \in R
    BY <1>7, Zenon
  <2>2. Levels - y[1] <= Levels - w[1]
    BY <1>5, <1>6, <2>1
  <2> QED BY <1>0, <1>1, <2>2
<1> HIDE DEF R
<1> DEFINE z == Buddy(y)
           p == Parent(y)
<1>8. y[1] > 0 /\ y[1] \in Nat /\ n[1] \in Nat /\ n[1] < y[1] /\ y \in Nodes
  BY <1>0, <1>1
<1>9. /\ p \in Nodes /\ z \in Nodes /\ {y, z} = {Lower(p), Upper(p)}
      /\ p[1] = y[1] - 1 /\ p[1] < Levels /\ z[1] = y[1]
  BY <1>8, JoinNode
<1>10. Span(p) = Span(y) \cup Span(z) /\ y[2] \in Span(y) /\ z[2] \in Span(z)
  BY <1>8, <1>9, SpanSplit, SpanUnits
<1> HIDE DEF z, p, F
<1>11. Span(p) \subseteq Span(n)
  <2>1. n[1] <= p[1] /\ y[2] \in Span(n) \cap Span(p)
    BY <1>6, <1>8, <1>9, <1>10
  <2> QED BY <1>9, <2>1, Nested
<1>12. PICK w \in F : z[2] \in Span(w) /\ Span(w) \subseteq Span(n)
  BY <1>2, <1>10, <1>11
<1>13. w \in Nodes /\ w[1] \in Nat /\ w[1] <= y[1]
  BY <1>0, <1>1, <1>7, <1>12
<1>14. CASE w[1] = y[1]
  <2>1. /\ w[1] \in Lists /\ z[2] \in Units /\ w[1] = z[1]
    BY <1>9, <1>13, <1>14, NodeFields
  <2>2. Span(w) \subseteq Span(z) /\ Span(z) \subseteq Span(w)
    <3>1. z[2] \in Span(w) \cap Span(z) /\ z[2] \in Span(z) \cap Span(w) /\ w[1] <= z[1] /\ z[1] <= w[1]
      BY <1>10, <1>12, <1>13, <2>1
    <3> QED BY <1>9, <1>13, <3>1, Nested
  <2>3. w[2] = z[2]
    <3>1. w[2] \in Span(z) /\ z[2] \in Span(w)
      BY <1>12, <1>13, <2>2, SpanUnits
    <3>2. z[2] <= w[2] /\ w[2] <= z[2]
      BY <1>9, <1>13, <3>1, SpanUnits
    <3> QED BY <1>9, <1>13, <3>2, NodeFields
  <2>4. w = z
    BY <1>9, <1>13, <2>1, <2>3, NodeFields
  <2>5. Buddy(y) \in T \ M /\ y \in T \ M
    BY <2>4 DEF z, F
  <2> QED BY <1>8, <2>5 DEF NoTwins
<1>15. CASE w[1] < y[1]
  <2>1. w[1] <= p[1] /\ z[2] \in Span(w) \cap Span(p)
    BY <1>8, <1>9, <1>10, <1>12, <1>13, <1>15
  <2>2. Span(p) \subseteq Span(w)
    BY <1>9, <1>13, <2>1, Nested
  <2>3. y[2] \in Span(y) \cap Span(w) /\ y # w /\ y \in T /\ w \in T
    BY <1>8, <1>10, <1>15, <2>2 DEF F
  <2> QED BY <2>3 DEF Tiles
<1> QED BY <1>8, <1>13, <1>14, <1>15

\* No aligned run of free units is overlooked.
LEMMA InvRefused == HeapInv => RefusedOnlyIfFull
<1> SUFFICES ASSUME HeapInv,
                    NEW size \in 0..arena_size,
                    \A l \in 0..list_for(size) : sh.freelist[l] = <<>>,
                    NEW p \in Units, p % BlockSize(list_for(size)) = 0,
                    Block(p, list_for(size)) \cap HeldUnits = {}
             PROVE  FALSE
  BY DEF RefusedOnlyIfFull
<1>1. PICK f, T, M, D : Whole(sh, f, T, M, D)
  BY DEF HeapInv
<1>2. Shape(sh, f, T, M, D) /\ Tiles(T) /\ NoTwins(T \ M)
  BY <1>1 DEF Whole
<1>3. HeldUnits = Taken(M) /\ M \in SUBSET T /\ sh.freelist = f /\ ListsOK(f, T \ M)
  BY <1>2, BlocksRead, HeapFields DEF Shape
<1> DEFINE m == list_for(size)
           n == <<m, p>>
<1>4. m \in Lists
  <2>1. arena_size \in Nat
    BY LevelsNat, SizesOfBlocks DEF Lists
  <2>2. size \in 0..(arena_size + 1) /\ size <= arena_size
    BY <2>1
  <2> QED BY <2>2, SizeOfList
<1> HIDE DEF m
<1>5. n \in Nodes /\ n[1] = m
  BY <1>4 DEF Nodes, m
<1>6. \A u \in Span(n) : u \notin Taken(M)
  BY <1>3 DEF Span, m
<1>7. PICK x \in T \ M : x[1] <= n[1]
  BY <1>2, <1>3, <1>5, <1>6, FreeRegion
<1>8. x[1] \in Lists /\ x[1] \in 0..m /\ x = <<x[1], x[2]>>
  BY <1>2, <1>4, <1>5, <1>7, NodeFields DEF Tiles, Lists
<1>9. f[x[1]] = <<>>
  BY <1>3, <1>8 DEF m
<1>10. \E i \in DOMAIN f[x[1]] : f[x[1]][i] = x[2]
  BY <1>3, <1>7, <1>8 DEF ListsOK
<1> QED BY <1>9, <1>10

-----------------------------------------------------------------------------
(* The steps.                                                              *)

LEMMA InitInv == HeapInit => HeapInv
<1> SUFFICES ASSUME HeapInit PROVE HeapInv
  OBVIOUS
<1> DEFINE f == [l \in Lists |-> IF l = 0 THEN <<0>> ELSE <<>>]
           x == <<0, 0>>
           T == {x}
<1>1. 0 \in Lists /\ BlockSize(0) = arena_size
  BY LevelsNat DEF Lists, BlockSize, arena_size
<1>2. arena_size \in Nat /\ arena_size > 0 /\ 0 \in Units
  BY <1>1, SizesOfBlocks DEF Units
<1>3. x \in Nodes /\ x[1] = 0 /\ x[2] = 0
  <2>1. 0 % arena_size = 0
    BY <1>2
  <2> QED BY <1>1, <1>2, <2>1 DEF Nodes
<1>4. Span(x) = Units
  BY <1>1, <1>2 DEF Span, Block, Units
<1>5. Tiles(T)
  BY <1>3, <1>4 DEF Tiles
<1>6. Bits(T) = {Bit(0, 0)} /\ Bits({}) = {}
  BY <1>3 DEF Bits, BitOf
<1>7. sh = Heap(f, Bits(T), Bits({}), {0})
  BY <1>6 DEF HeapInit, Heap
<1>8. ListsOK(f, T \ {})
  <2> SUFFICES ASSUME NEW l \in Lists
               PROVE  /\ f[l] \in Seq(Units) /\ IsInjective(f[l])
                      /\ \A p : (\E i \in DOMAIN f[l] : f[l][i] = p) <=> <<l, p>> \in T
    BY DEF ListsOK
  <2>1. CASE l = 0
    <3>1. f[l] = <<0>>
      BY <2>1
    <3> HIDE DEF f
    <3> QED BY <1>2, <2>1, <3>1 DEF IsInjective
  <2>2. CASE l # 0
    <3>1. f[l] = <<>>
      BY <2>2
    <3> HIDE DEF f
    <3> QED BY <2>2, <3>1 DEF IsInjective
  <2> QED BY <2>1, <2>2
<1>9. Shape(sh, f, T, {}, {0})
  BY <1>3, <1>7, <1>8 DEF Shape
<1>10. Clean({0}, T \ {}) /\ NoTwins(T \ {})
  BY <1>3 DEF Clean, NoTwins
<1>11. Holders({}, given) /\ used = Cardinality(Taken({})) /\ zeroed = TRUE
  <2>1. Taken({}) = {}
    BY DEF Taken
  <2> QED BY <2>1, FS_EmptySet DEF HeapInit, Holders
<1>12. Whole(sh, f, T, {}, {0})
  BY <1>5, <1>9, <1>10 DEF Whole
<1> HIDE DEF f, T, x
<1> QED BY <1>11, <1>12 DEF HeapInv

\* A block leaves its free list for the caller.
LEMMA Peel ==
  ASSUME NEW h, NEW f, NEW T, NEW M, NEW D, Shape(h, f, T, M, D), NEW x \in T \ M
  PROVE  LET found == Asserted(h, /\ Bit(x[2], x[1]) \in h.bittable
                                  /\ not_malloced(h, x[2], x[1]))
             peeled == handed_out(remove_from_list(
                         [found EXCEPT !.bitmalloc = @ \cup {Bit(x[2], x[1])}], x[2], x[1]), x[2]) IN
         Shape(peeled, Removed(f, x[2], x[1]), T, M \cup {x}, D \ {x[2]})
<1> DEFINE p == x[2]
           l == x[1]
           bit == Bit(p, l)
           bt == Bits(T)
           bm == Bits(M)
           found == Asserted(h, bit \in h.bittable /\ not_malloced(h, p, l))
           h1 == [found EXCEPT !.bitmalloc = @ \cup {bit}]
           h2 == remove_from_list(h1, p, l)
           g == Removed(f, p, l)
           E == D \ {p}
<1>0. x \in Nodes /\ M \in SUBSET Nodes /\ T \in SUBSET Nodes /\ M \subseteq T
  BY DEF Shape
<1>1. h = Heap(f, bt, bm, D) /\ h.bittable = bt /\ h.bitmalloc = bm
  BY HeapFields DEF Shape
<1>2. bit \in bt /\ bit \notin bm
  BY <1>0, BitsExact DEF BitOf
<1>3. found = h
  BY <1>1, <1>2 DEF Asserted, not_malloced
<1>4. bm \cup {bit} = Bits(M \cup {x})
  BY DEF Bits, BitOf
<1> DEFINE bn == Bits(M \cup {x})
<1>5. h1 = Heap(f, bt, bn, D)
  <2>1. h1 = [h EXCEPT !.bitmalloc = bn]
    BY <1>1, <1>3, <1>4
  <2>2. [Heap(f, bt, bm, D) EXCEPT !.bitmalloc = bn] = Heap(f, bt, bn, D)
    <3> HIDE DEF bt, bm, bn
    <3> QED BY SetMalloc
  <2> QED BY <1>1, <2>1, <2>2
<1>6. l \in Lists /\ f = [k \in Lists |-> f[k]]
  BY <1>0, NodeFields DEF Shape, ListsOK
<1>7. h2 = Heap(g, bt, bn, D)
  <2>1. h2 = remove_from_list(Heap(f, bt, bn, D), p, l)
    BY <1>5
  <2> HIDE DEF bt, bn, p, l, h2, h1
  <2> QED BY <1>6, <2>1, RemoveFromList
<1>8. handed_out(h2, p) = Heap(g, bt, bn, E)
  <2> HIDE DEF h2, g, bt, bn
  <2>1. h2.dirty = D
    BY <1>7, HeapFields
  <2>2. handed_out(h2, p) = [h2 EXCEPT !.dirty = E]
    BY <2>1 DEF handed_out
  <2>3. [Heap(g, bt, bn, D) EXCEPT !.dirty = E] = Heap(g, bt, bn, E)
    <3> HIDE DEF E
    <3> QED BY SetDirty
  <2> QED BY <1>7, <2>2, <2>3
<1>9. ListsOK(g, T \ (M \cup {x}))
  <2> DEFINE F == T \ M
  <2>1. ListsOK(f, F) /\ x \in F /\ T \ (M \cup {x}) = F \ {x}
    BY DEF Shape
  <2> HIDE DEF F
  <2>2. ListsOK(g, F \ {x})
    BY <1>0, <2>1, ListsRemove
  <2> QED BY <2>1, <2>2
<1>10. M \cup {x} \subseteq T
  BY <1>0
<1>11. Shape(handed_out(h2, p), g, T, M \cup {x}, E)
  BY <1>0, <1>8, <1>9, <1>10 DEF Shape
<1> QED BY <1>11

\* What the caller writes stays in its block; no two free blocks are buddies now.
LEMMA PeeledWhole ==
  ASSUME NEW T, Tiles(T), NEW M \in SUBSET T, NEW x \in T \ M, NEW D,
         Clean(D, T \ M), Twins(T \ M, x)
  PROVE  /\ (D \ {x[2]}) \cap Span(x) = {}
         /\ Clean((D \ {x[2]}) \cup Span(x), T \ (M \cup {x}))
         /\ NoTwins(T \ (M \cup {x}))
<1>1. (D \ {x[2]}) \cap Span(x) = {}
  BY DEF Clean
<1>2. Clean((D \ {x[2]}) \cup Span(x), T \ (M \cup {x}))
  <2> SUFFICES ASSUME NEW y \in T \ (M \cup {x}), NEW u \in Span(y), u \in (D \ {x[2]}) \cup Span(x)
               PROVE  u = y[2]
    BY DEF Clean
  <2>1. u \notin Span(x)
    BY DEF Tiles
  <2>2. y \in T \ M /\ u \in D
    BY <2>1
  <2> QED BY <2>2 DEF Clean
<1>3. NoTwins(T \ (M \cup {x}))
  <2> SUFFICES ASSUME NEW y \in T \ (M \cup {x}), y[1] > 0, Buddy(y) \in T \ (M \cup {x})
               PROVE  FALSE
    BY DEF NoTwins
  <2>1. y \in T \ M /\ Buddy(y) \in T \ M /\ y # x /\ Buddy(y) # x
    OBVIOUS
  <2> QED BY <2>1 DEF Twins
<1> QED BY <1>1, <1>2, <1>3

LEMMA HoldersGain ==
  ASSUME NEW T, Tiles(T), NEW M \in SUBSET T, NEW x \in T \ M, NEW G, Holders(M, G),
         NEW size, size <= BlockSize(x[1])
  PROVE  Holders(M \cup {x}, G \cup {[ptr |-> x[2], size |-> size]})
<1> DEFINE e == [ptr |-> x[2], size |-> size]
           H == G \cup {e}
           N == M \cup {x}
<1>0. e.ptr = x[2] /\ e.size = size
  OBVIOUS
<1> HIDE DEF e
<1>1. ASSUME NEW g \in H PROVE \E y \in N : y[2] = g.ptr /\ g.size <= BlockSize(y[1])
  BY <1>0 DEF Holders
<1>2. ASSUME NEW y \in N PROVE \E g \in H : y[2] = g.ptr
  BY <1>0 DEF Holders
<1>3. \A g \in G : g.ptr # e.ptr
  <2> SUFFICES ASSUME NEW g \in G, g.ptr = x[2] PROVE FALSE
    BY <1>0
  <2>1. PICK y \in M : y[2] = g.ptr
    BY DEF Holders
  <2>2. y = x
    BY <2>1, SameStart
  <2> QED BY <2>2
<1>4. ASSUME NEW g \in H, NEW k \in H, g.ptr = k.ptr PROVE g = k
  <2>1. CASE g \in G /\ k \in G
    BY <1>4, <2>1 DEF Holders
  <2>2. CASE ~ (g \in G /\ k \in G)
    BY <1>3, <1>4, <2>2
  <2> QED BY <2>1, <2>2
<1>5. Holders(N, H)
  BY <1>1, <1>2, <1>4 DEF Holders
<1> QED BY <1>5 DEF e

LEMMA HoldersLose ==
  ASSUME NEW T, Tiles(T), NEW M \in SUBSET T, NEW x \in M, NEW G, Holders(M, G),
         NEW e \in G, x[2] = e.ptr
  PROVE  Holders(M \ {x}, G \ {e})
<1>1. ASSUME NEW g \in G \ {e} PROVE \E y \in M \ {x} : y[2] = g.ptr /\ g.size <= BlockSize(y[1])
  <2>1. PICK y \in M : y[2] = g.ptr /\ g.size <= BlockSize(y[1])
    BY DEF Holders
  <2>2. g.ptr # e.ptr
    BY DEF Holders
  <2> QED BY <2>1, <2>2
<1>2. ASSUME NEW y \in M \ {x} PROVE \E g \in G \ {e} : y[2] = g.ptr
  <2>1. PICK g \in G : y[2] = g.ptr
    BY DEF Holders
  <2>2. y[2] # x[2]
    BY SameStart
  <2> QED BY <2>1, <2>2
<1>3. \A g, k \in G \ {e} : g.ptr = k.ptr => g = k
  BY DEF Holders
<1> QED BY <1>1, <1>2, <1>3 DEF Holders

\* sh_malloc keeps the invariant.
LEMMA MallocInv ==
  ASSUME HeapInv, NEW size \in 0..(arena_size + 1), secure_malloc(size)
  PROVE  HeapInv'
<1> DEFINE list == list_for(size)
           S == {l \in 0..list : sh.freelist[l] # <<>>}
           slist == Max({-1} \cup S)
           h == split(sh, slist, list)
           chunk == h.freelist[list][1]
           block == Block(chunk, list)
           peeled == handed_out(remove_from_list(
                       [Asserted(h, Bit(chunk, list) \in h.bittable /\ not_malloced(h, chunk, list))
                          EXCEPT !.bitmalloc = @ \cup {Bit(chunk, list)}],
                       chunk, list), chunk)
           e == [ptr |-> chunk, size |-> size]
<1>1. /\ list >= 0 /\ slist >= 0
      /\ sh' = [Asserted(peeled, getlist_asserts(peeled, chunk)) EXCEPT !.dirty = @ \cup block]
      /\ zeroed' = (zeroed /\ peeled.dirty \cap block = {})
      /\ used' = used + actual_size(peeled, chunk)
      /\ given' = given \cup {e}
  BY DEF secure_malloc
<1>2. PICK f, T, M, D : /\ Whole(sh, f, T, M, D)
                        /\ Holders(M, given) /\ used = Cardinality(Taken(M))
  BY DEF HeapInv
<1>3. sh.freelist = f
  BY <1>2, HeapFields DEF Whole, Shape
<1>0. list >= 0 /\ slist >= 0
  BY <1>1
<1>4. list \in Lists /\ BlockSize(list) >= size /\ list \in Nat /\ Levels \in Nat
  <2>1. list \in Lists /\ BlockSize(list) >= size
    BY <1>0, SizeOfList
  <2> HIDE DEF list
  <2> QED BY <2>1, LevelsNat DEF Lists
<1> HIDE DEF list
<1>5. slist \in Lists /\ slist <= list /\ f[slist] # <<>>
  <2>1. S \in SUBSET Lists
    BY <1>4 DEF Lists
  <2>2. slist \in {-1} \cup S
    <3> HIDE DEF S
    <3> QED BY <2>1, LargestList
  <2>3. slist \in S
    <3> HIDE DEF S, slist
    <3> QED BY <1>0, <2>2
  <2> HIDE DEF slist
  <2> QED BY <1>3, <1>4, <2>1, <2>3
<1> HIDE DEF slist, S
<1>6. Splitting(sh, M, slist)
  <2>1. Twins(T \ M, <<slist, f[slist][1]>>)
    BY <1>2 DEF Whole, NoTwins, Twins
  <2> QED BY <1>2, <1>5, <2>1 DEF Splitting, Whole
<1>7. Splitting(h, M, list)
  BY <1>4, <1>5, <1>6, SplitLoop
<1> HIDE DEF h
<1>8. PICK g, U, E : /\ Shape(h, g, U, M, E) /\ Tiles(U) /\ Clean(E, U \ M)
                     /\ g[list] # <<>> /\ Twins(U \ M, <<list, g[list][1]>>)
  BY <1>7 DEF Splitting
<1>9. h.freelist = g /\ chunk = g[list][1]
  BY <1>8, HeapFields DEF Shape
<1> HIDE DEF chunk
<1> DEFINE x == <<list, chunk>>
<1>10. x \in U \ M /\ x[1] = list /\ x[2] = chunk /\ Twins(U \ M, x)
  <2> DEFINE F == U \ M
  <2>1. F \in SUBSET Nodes /\ ListsOK(g, F)
    BY <1>8 DEF Shape
  <2>2. x \in F
    <3> HIDE DEF F
    <3> QED BY <1>4, <1>8, <1>9, <2>1, ListHead
  <2> QED BY <1>8, <1>9, <2>2
<1> HIDE DEF x
<1>11. M \in SUBSET U
  BY <1>8 DEF Shape
<1>12. Shape(peeled, Removed(g, chunk, list), U, M \cup {x}, E \ {chunk})
  <2>1. Shape(handed_out(remove_from_list(
                [Asserted(h, Bit(x[2], x[1]) \in h.bittable /\ not_malloced(h, x[2], x[1]))
                   EXCEPT !.bitmalloc = @ \cup {Bit(x[2], x[1])}], x[2], x[1]), x[2]),
              Removed(g, x[2], x[1]), U, M \cup {x}, E \ {x[2]})
    BY <1>8, <1>10, Peel
  <2> QED BY <1>10, <2>1
<1> HIDE DEF peeled
<1>13. peeled.dirty = E \ {chunk}
  BY <1>12, HeapFields DEF Shape
<1>14. x \in U /\ getlist_asserts(peeled, chunk) /\ actual_size(peeled, chunk) = BlockSize(list)
  <2> DEFINE N == M \cup {x}
             V == E \ {chunk}
             r == Removed(g, chunk, list)
  <2>1. Shape(peeled, r, U, N, V) /\ Tiles(U) /\ x \in U
    BY <1>8, <1>10, <1>12
  <2> HIDE DEF N, V, r
  <2>2. getlist_asserts(peeled, x[2]) /\ actual_size(peeled, x[2]) = BlockSize(x[1])
    BY <2>1, ListFound
  <2> QED BY <1>10, <2>1, <2>2
<1>15. block = Span(x)
  BY <1>10 DEF Span
<1> HIDE DEF block
<1>16. sh' = [peeled EXCEPT !.dirty = (E \ {chunk}) \cup block]
  BY <1>1, <1>13, <1>14 DEF Asserted
<1> DEFINE N == M \cup {x}
           V == (E \ {chunk}) \cup Span(x)
           r == Removed(g, chunk, list)
<1>17. Shape(sh', r, U, N, V)
  <2> DEFINE W == E \ {chunk}
  <2>1. Shape(peeled, r, U, N, W)
    BY <1>12
  <2> HIDE DEF r, N, W
  <2>2. Shape([peeled EXCEPT !.dirty = V], r, U, N, V)
    BY <2>1, ShapeCleared
  <2> QED BY <1>15, <1>16, <2>2
<1>18. (E \ {chunk}) \cap Span(x) = {} /\ Clean(V, U \ N) /\ NoTwins(U \ N)
  BY <1>8, <1>10, <1>11, PeeledWhole
<1>19. zeroed' = TRUE
  BY <1>1, <1>13, <1>15, <1>18 DEF HeapInv
<1>20. Holders(N, given')
  <2>1. size <= BlockSize(x[1])
    <3>1. BlockSize(list) \in Nat /\ size \in Int
      BY <1>4, SizesOfBlocks
    <3> QED BY <1>4, <1>10, <3>1
  <2>2. Holders(N, given \cup {[ptr |-> x[2], size |-> size]})
    BY <1>2, <1>8, <1>10, <1>11, <2>1, HoldersGain
  <2> QED BY <1>1, <1>10, <2>2
<1>21. used' = Cardinality(Taken(N))
  BY <1>1, <1>2, <1>8, <1>10, <1>11, <1>14, TakenSize
<1>22. Whole(sh', r, U, N, V)
  BY <1>8, <1>17, <1>18 DEF Whole
<1> HIDE DEF r, N, V
<1> QED BY <1>19, <1>20, <1>21, <1>22 DEF HeapInv

\* A block comes back, all zero, to the front of its list.
LEMMA GivenBack ==
  ASSUME NEW h, NEW f, NEW T, NEW M, NEW D, Shape(h, f, T, M, D), NEW x \in M
  PROVE  LET back == [h EXCEPT !.bitmalloc = @ \ {Bit(x[2], x[1])},
                               !.dirty = @ \ Block(x[2], x[1])] IN
         Shape(add_to_list(back, x[2], x[1]), Added(f, x[2], x[1]), T, M \ {x},
               (D \ Span(x)) \cup {x[2]})
<1> DEFINE p == x[2]
           l == x[1]
           bit == Bit(p, l)
           bt == Bits(T)
           bm == Bits(M)
           bn == Bits(M \ {x})
           E == D \ Span(x)
           h1 == [h EXCEPT !.bitmalloc = bn]
           back == [h EXCEPT !.bitmalloc = @ \ {bit}, !.dirty = @ \ Block(p, l)]
<1>0. x \in Nodes /\ M \in SUBSET Nodes /\ T \in SUBSET Nodes /\ M \subseteq T /\ x \in T
  BY DEF Shape
<1>1. h = Heap(f, bt, bm, D) /\ h.bitmalloc = bm /\ h.dirty = D
  BY HeapFields DEF Shape
<1>2. bm \ {bit} = bn
  <2>1. \A y \in M : BitOf(y) = bit => y = x
    BY <1>0, NodesDiffer DEF BitOf
  <2>2. BitOf(x) = bit
    BY DEF BitOf
  <2> HIDE DEF bit
  <2> QED BY <2>1, <2>2 DEF Bits
<1>3. back = [h1 EXCEPT !.dirty = E]
  <2>1. back = [[h EXCEPT !.bitmalloc = @ \ {bit}] EXCEPT !.dirty = h.dirty \ Block(p, l)]
    OBVIOUS
  <2> QED BY <1>1, <1>2, <2>1 DEF Span
<1>4. h1 = Heap(f, bt, bn, D)
  <2> HIDE DEF bt, bm, bn
  <2> QED BY <1>1, SetMalloc
<1>5. back = Heap(f, bt, bn, E)
  <2>1. [Heap(f, bt, bn, D) EXCEPT !.dirty = E] = Heap(f, bt, bn, E)
    <3> HIDE DEF bt, bn, E
    <3> QED BY SetDirty
  <2> QED BY <1>3, <1>4, <2>1
<1>6. l \in Lists /\ f = [k \in Lists |-> f[k]]
  BY <1>0, NodeFields DEF Shape, ListsOK
<1>7. add_to_list(back, p, l) = Heap(Added(f, p, l), bt, bn, E \cup {p})
  <2>1. add_to_list(back, p, l) = add_to_list(Heap(f, bt, bn, E), p, l)
    BY <1>5
  <2> HIDE DEF bt, bn, E, p, l, back
  <2> QED BY <1>6, <2>1, AddToList
<1>8. ListsOK(Added(f, p, l), T \ (M \ {x}))
  <2> DEFINE F == T \ M
  <2>1. ListsOK(f, F) /\ x \notin F /\ T \ (M \ {x}) = F \cup {x}
    BY <1>0 DEF Shape
  <2> HIDE DEF F
  <2>2. ListsOK(Added(f, p, l), F \cup {x})
    BY <1>0, <2>1, ListsAdd
  <2> QED BY <2>1, <2>2
<1>9. Shape(add_to_list(back, p, l), Added(f, p, l), T, M \ {x}, E \cup {p})
  BY <1>0, <1>7, <1>8 DEF Shape
<1> QED BY <1>9

\* sh_free keeps the invariant.
LEMMA FreeInv ==
  ASSUME HeapInv, NEW g \in given, secure_free(g)
  PROVE  HeapInv'
<1> DEFINE list == getlist(sh, g.ptr)
           found == Asserted(sh, /\ getlist_asserts(sh, g.ptr)
                                 /\ Bit(g.ptr, list) \in sh.bittable
                                 /\ Bit(g.ptr, list) \in sh.bitmalloc)
           h == [found EXCEPT !.bitmalloc = @ \ {Bit(g.ptr, list)},
                              !.dirty = @ \ Block(g.ptr, list)]
           k == add_to_list(h, g.ptr, list)
<1>1. /\ given' = given \ {g}
      /\ sh' = coalesce(k, g.ptr, list)
      /\ used' = used - actual_size(sh, g.ptr)
      /\ zeroed' = zeroed
  BY DEF secure_free
<1>2. PICK f, T, M, D : /\ Whole(sh, f, T, M, D)
                        /\ Holders(M, given) /\ used = Cardinality(Taken(M))
  BY DEF HeapInv
<1>3. Shape(sh, f, T, M, D) /\ Tiles(T) /\ Clean(D, T \ M) /\ NoTwins(T \ M)
  BY <1>2 DEF Whole
<1>4. PICK x \in M : x[2] = g.ptr /\ g.size <= BlockSize(x[1])
  BY <1>2 DEF Holders
<1>5. x \in T /\ M \in SUBSET T /\ x \in Nodes /\ T \in SUBSET Nodes /\ M \in SUBSET Nodes
  BY <1>3 DEF Shape
<1>6. list = x[1] /\ getlist_asserts(sh, g.ptr) /\ actual_size(sh, g.ptr) = BlockSize(x[1])
  BY <1>3, <1>4, <1>5, ListFound
<1>7. found = sh
  <2>1. sh.bittable = Bits(T) /\ sh.bitmalloc = Bits(M)
    BY <1>3, HeapFields DEF Shape
  <2>2. Bit(x[2], x[1]) \in Bits(T) /\ Bit(x[2], x[1]) \in Bits(M)
    BY <1>5, BitsExact DEF BitOf
  <2> QED BY <1>4, <1>6, <2>1, <2>2 DEF Asserted
<1> DEFINE N == M \ {x}
           E == (D \ Span(x)) \cup {x[2]}
           r == Added(f, x[2], x[1])
<1>8. Shape(k, r, T, N, E)
  <2>1. Shape(add_to_list([sh EXCEPT !.bitmalloc = @ \ {Bit(x[2], x[1])},
                                     !.dirty = @ \ Block(x[2], x[1])], x[2], x[1]), r, T, N, E)
    BY <1>3, GivenBack
  <2>2. k = add_to_list([sh EXCEPT !.bitmalloc = @ \ {Bit(x[2], x[1])},
                                   !.dirty = @ \ Block(x[2], x[1])], x[2], x[1])
    <3> HIDE DEF list, found
    <3> QED BY <1>4, <1>6, <1>7
  <2> QED BY <2>1, <2>2
<1> HIDE DEF k, list
<1>9. x \in T \ N /\ T \ N = (T \ M) \cup {x} /\ N \cup {x} = M /\ N \in SUBSET T
  BY <1>5
<1>10. Clean(E, T \ N)
  <2> SUFFICES ASSUME NEW y \in T \ N, NEW u \in Span(y), u \in E PROVE u = y[2]
    BY DEF Clean
  <2>1. CASE y = x
    BY <2>1
  <2>2. CASE y # x
    <3>1. y \in T \ M /\ y \in T /\ x \in T
      BY <1>5, <1>9, <2>2
    <3>2. Span(y) \cap Span(x) = {}
      BY <1>3, <2>2, <3>1 DEF Tiles
    <3>3. x[2] \in Span(x)
      BY <1>5, SpanUnits
    <3>4. u \in D
      BY <3>2, <3>3
    <3> QED BY <1>3, <3>1, <3>4 DEF Clean
  <2> QED BY <2>1, <2>2
<1>11. Twins(T \ N, x)
  <2> SUFFICES ASSUME NEW y \in T \ N, y[1] > 0, Buddy(y) \in T \ N, y # x, Buddy(y) # x
               PROVE  FALSE
    BY DEF Twins
  <2>1. y \in T \ M /\ Buddy(y) \in T \ M
    BY <1>9
  <2> QED BY <1>3, <2>1 DEF NoTwins
<1> HIDE DEF N, E, r
<1>12. PICK q, U, V : Whole(coalesce(k, x[2], x[1]), q, U, N, V)
  BY <1>3, <1>8, <1>9, <1>10, <1>11, JoinLoop
<1>13. Whole(sh', q, U, N, V)
  BY <1>1, <1>4, <1>6, <1>12
<1>14. Holders(N, given')
  BY <1>1, <1>2, <1>3, <1>4, <1>5, HoldersLose DEF N
<1>15. used' = Cardinality(Taken(N))
  <2>1. /\ Cardinality(Taken(N)) \in Nat
        /\ Cardinality(Taken(N \cup {x})) = Cardinality(Taken(N)) + BlockSize(x[1])
    <3>1. Tiles(T) /\ N \in SUBSET T /\ x \in T \ N
      BY <1>3, <1>9
    <3> QED BY <3>1, TakenSize
  <2>2. BlockSize(x[1]) \in Nat
    BY <1>5, NodeFields, SizesOfBlocks
  <2>3. used = Cardinality(Taken(N)) + BlockSize(x[1])
    BY <1>2, <1>9, <2>1
  <2> QED BY <1>1, <1>6, <2>1, <2>2, <2>3
<1>16. zeroed' = TRUE
  BY <1>1 DEF HeapInv
<1> QED BY <1>13, <1>14, <1>15, <1>16 DEF HeapInv

\* Whatever is asked of the heap and given back, its bits and lists describe a
\* tiling of the arena whose free blocks are clean and joined as far as they go.
THEOREM HeapInvariant == HeapSpec => []HeapInv
<1>1. ASSUME HeapInv, HeapNext PROVE HeapInv'
  <2>1. CASE \E size \in 0..(arena_size + 1) : secure_malloc(size)
    BY <1>1, <2>1, MallocInv
  <2>2. CASE \E size \in 0..(arena_size + 1) : secure_malloc_fails(size)
    <3>1. UNCHANGED heapVars
      BY <2>2 DEF secure_malloc_fails
    <3> QED BY <1>1, <3>1 DEF HeapInv, heapVars
  <2>3. CASE \E g \in given : secure_free(g)
    BY <1>1, <2>3, FreeInv
  <2> QED BY <1>1, <2>1, <2>2, <2>3 DEF HeapNext
<1>2. ASSUME HeapInv, UNCHANGED heapVars PROVE HeapInv'
  BY <1>2 DEF HeapInv, heapVars
<1> QED BY <1>1, <1>2, InitInv, PTL DEF HeapSpec

\* No assertion of the allocator fails; the blocks tile the arena, each in one
\* hand or once in its free list, every caller has the room it asked for, and
\* secure_mem_used is what is handed out; for an arena of any size.
THEOREM HeapTiled == HeapSpec => []Tiled
BY HeapInvariant, InvTiled, PTL

\* sh_malloc refuses only what no aligned run of free units can hold, for an arena
\* of any size and whatever order the blocks came back in.
THEOREM HeapRefuses == HeapSpec => []RefusedOnlyIfFull
BY HeapInvariant, InvRefused, PTL

\* Every block handed out is all zero: neither the bytes of an earlier caller nor
\* the pointers of the free lists are left in it.
THEOREM HeapZeroed == HeapSpec => []HandedOutZeroed
<1>1. HeapInv => HandedOutZeroed
  BY DEF HeapInv, HandedOutZeroed
<1> QED BY <1>1, HeapInvariant, PTL

=============================================================================
