----------------------------- MODULE SecureHeap -----------------------------
(***************************************************************************)
(* The secure heap (openssl-master/crypto/mem_sec.c): a buddy allocator    *)
(* over an arena of 2^Levels units of minsize, with one free list for each *)
(* size, the bit tables of the blocks there are and of those handed out,   *)
(* and the count of bytes in use.  Calls hold sec_malloc_lock throughout,  *)
(* so each is one step.                                                    *)
(*                                                                         *)
(* An address is a unit; list l holds blocks of 2^(Levels - l) units.      *)
(***************************************************************************)
EXTENDS Integers, Sequences, SequencesExt, FiniteSets, FiniteSetsExt

CONSTANT Levels

ASSUME SecureHeapAssumption == Levels \in Nat

\* ONE << n
pow2[n \in 0..Levels] == IF n = 0 THEN 1 ELSE 2 * pow2[n - 1]

arena_size == pow2[Levels]
Units == 0..(arena_size - 1)
Lists == 0..Levels
BlockSize(list) == pow2[Levels - list]

VARIABLES
  sh,           \* freelist, bittable and bitmalloc; dirty: the units that are
                \* not all zero; asserts: no assertion has failed
  used,         \* secure_mem_used
  given,        \* the blocks handed out, as the callers know them
  zeroed        \* every block was all zero when it was handed out

heapVars == <<sh, used, given, zeroed>>

-----------------------------------------------------------------------------
(* Bits and lists.                                                         *)

Bit(ptr, list) == pow2[list] + (ptr \div BlockSize(list))
bittable_size == 2 * arena_size

Asserted(h, cond) == IF cond THEN h ELSE [h EXCEPT !.asserts = FALSE]

InTable(ptr, list) == ptr % BlockSize(list) = 0 /\ Bit(ptr, list) \in 1..(bittable_size - 1)

setbit(h, ptr, list) ==
  [Asserted(h, InTable(ptr, list) /\ Bit(ptr, list) \notin h.bittable)
     EXCEPT !.bittable = @ \cup {Bit(ptr, list)}]

clearbit(h, ptr, list) ==
  [Asserted(h, InTable(ptr, list) /\ Bit(ptr, list) \in h.bittable)
     EXCEPT !.bittable = @ \ {Bit(ptr, list)}]

not_malloced(h, ptr, list) == Bit(ptr, list) \notin h.bitmalloc

\* The list's pointers are kept in the free block itself.  The assertions that
\* they lead into the arena or to the table of lists, and that the head of a
\* list is what was just put there, have no counterpart: a list is a sequence.
add_to_list(h, ptr, list) ==
  [h EXCEPT !.freelist[list] = <<ptr>> \o @, !.dirty = @ \cup {ptr}]
place_in(list, ptr) == Max({0} \cup {i \in DOMAIN list : list[i] = ptr})
remove_from_list(h, ptr, list) ==
  [h EXCEPT !.freelist[list] = RemoveAt(@, place_in(@, ptr))]

\* The block that ptr is in: bit >>= 1, from the smallest size up, to the first
\* bit that is set.
getlist(h, ptr) == Max({-1} \cup {l \in Lists : Bit(ptr, l) \in h.bittable})

\* "(bit & 1) == 0" of every bit passed over: ptr is where its block begins.
getlist_asserts(h, ptr) ==
  \A l \in Lists : l > getlist(h, ptr) => Bit(ptr, l) % 2 = 0

actual_size(h, ptr) == BlockSize(getlist(h, ptr))

\* mutant: a buddy that was split is taken for whole
find_my_buddy_any(h, ptr, list) ==
  LET bit == Bit(ptr, list)
      buddy == IF bit % 2 = 0 THEN bit + 1 ELSE bit - 1 IN
  IF buddy \notin h.bitmalloc /\ list > 0
  THEN (buddy % pow2[list]) * BlockSize(list) ELSE -1

\* The other half of ptr's double, if it is one block and free, -1 otherwise.
find_my_buddy(h, ptr, list) ==
  LET bit == Bit(ptr, list)
      buddy == IF bit % 2 = 0 THEN bit + 1 ELSE bit - 1 IN
  IF buddy \in h.bittable /\ buddy \notin h.bitmalloc
  THEN (buddy % pow2[list]) * BlockSize(list) ELSE -1

-----------------------------------------------------------------------------
(* sh_malloc and sh_free.                                                  *)

NewBlock(h, ptr, list) ==
  add_to_list(setbit(Asserted(h, not_malloced(h, ptr, list)), ptr, list), ptr, list)
DropBlock(h, ptr, list) ==
  remove_from_list(clearbit(Asserted(h, not_malloced(h, ptr, list)), ptr, list), ptr, list)

\* The first block of slist becomes two of the next list.
halve(h, slist) ==
  LET temp == h.freelist[slist][1]
      upper == temp + BlockSize(slist + 1)
      low == NewBlock(DropBlock(h, temp, slist), temp, slist + 1)
      both == NewBlock(low, upper, slist + 1) IN
  Asserted(both, find_my_buddy(both, upper, slist + 1) = temp)

\* Halve from slist on, until there is a block of list.
split(h, slist, list) ==
  LET halved[l \in slist..list] ==
        IF l = slist THEN h ELSE halve(halved[l - 1], l - 1) IN
  halved[list]

\* The list of the smallest blocks that hold size, -1 when none does.
list_for(size) == Max({-1} \cup {l \in Lists : BlockSize(l) >= size})

Block(ptr, list) == ptr .. (ptr + BlockSize(list) - 1)

\* mutant: the pointers of the free list are left in the block
handed_out_as_is(h, chunk) == h

\* "zero the free list header"; the header is the one part of a free block that
\* can be dirty, since secure_free cleanses the block before, so that clearing
\* it clears the unit.
handed_out(h, chunk) == [h EXCEPT !.dirty = @ \ {chunk}]

\* The caller gets a block, which it fills.
secure_malloc(size) ==
  LET list == list_for(size)
      slist == Max({-1} \cup {l \in 0..list : sh.freelist[l] # <<>>})
      h == split(sh, slist, list)
      chunk == h.freelist[list][1]
      block == Block(chunk, list)
      peeled == handed_out(remove_from_list(
                  [Asserted(h, Bit(chunk, list) \in h.bittable /\ not_malloced(h, chunk, list))
                     EXCEPT !.bitmalloc = @ \cup {Bit(chunk, list)}],
                  chunk, list), chunk) IN
  /\ list >= 0 /\ slist >= 0
  /\ sh' = [Asserted(peeled, getlist_asserts(peeled, chunk)) EXCEPT !.dirty = @ \cup block]
  /\ zeroed' = (zeroed /\ peeled.dirty \cap block = {})
  /\ used' = used + actual_size(peeled, chunk)
  /\ given' = given \cup {[ptr |-> chunk, size |-> size]}

\* sh_malloc finds nothing; the heap stays as it is.
secure_malloc_fails(size) ==
  /\ \A l \in 0..list_for(size) : sh.freelist[l] = <<>>
  /\ UNCHANGED heapVars

\* mutant: freed neighbours stay apart
coalesce_never(h, ptr, list) == h

\* The block c.ptr of c.list with its buddy, if that is free.
join(c) ==
  LET buddy == find_my_buddy(c.h, c.ptr, c.list)
      low == Min({c.ptr, buddy})
      found == Asserted(c.h, find_my_buddy(c.h, buddy, c.list) = c.ptr)
      apart == DropBlock(DropBlock(found, c.ptr, c.list), buddy, c.list)
      cleared == [apart EXCEPT !.dirty = @ \ {Max({c.ptr, buddy})}] IN
  IF buddy = -1 THEN c
  ELSE [h |-> NewBlock(cleared, low, c.list - 1), ptr |-> low, list |-> c.list - 1]

\* Join while there is a free buddy; the whole arena has none.
coalesce(h, ptr, list) ==
  LET joined[n \in 0..list] ==
        IF n = 0 THEN [h |-> h, ptr |-> ptr, list |-> list] ELSE join(joined[n - 1]) IN
  joined[list].h

secure_free(g) ==
  LET list == getlist(sh, g.ptr)
      found == Asserted(sh, /\ getlist_asserts(sh, g.ptr)
                            /\ Bit(g.ptr, list) \in sh.bittable
                            /\ Bit(g.ptr, list) \in sh.bitmalloc)
      h == [found EXCEPT !.bitmalloc = @ \ {Bit(g.ptr, list)},
                         !.dirty = @ \ Block(g.ptr, list)] IN
  /\ g \in given /\ given' = given \ {g}
  /\ sh' = coalesce(add_to_list(h, g.ptr, list), g.ptr, list)
  /\ used' = used - actual_size(sh, g.ptr)
  /\ UNCHANGED zeroed

-----------------------------------------------------------------------------
\* sh_init
HeapInit ==
  /\ sh = [freelist |-> [l \in Lists |-> IF l = 0 THEN <<0>> ELSE <<>>],
           bittable |-> {Bit(0, 0)}, bitmalloc |-> {}, dirty |-> {0}, asserts |-> TRUE]
  /\ used = 0 /\ given = {} /\ zeroed = TRUE

HeapNext ==
  \/ \E size \in 0..(arena_size + 1) : secure_malloc(size) \/ secure_malloc_fails(size)
  \/ \E g \in given : secure_free(g)

HeapSpec == HeapInit /\ [][HeapNext]_heapVars

-----------------------------------------------------------------------------
\* The blocks there are: <<list, ptr>> of every bit set in bittable.
Blocks == {x \in Lists \X Units :
             x[2] % BlockSize(x[1]) = 0 /\ Bit(x[2], x[1]) \in sh.bittable}
FreeBlocks == {x \in Blocks : Bit(x[2], x[1]) \notin sh.bitmalloc}
HeldBlocks == Blocks \ FreeBlocks
HeldUnits == UNION {Block(x[2], x[1]) : x \in HeldBlocks}

\* No assertion on the bit tables and the buddies fails, whatever is asked and
\* given back.
\* The blocks tile the arena, and each is handed out, to one caller, or once in
\* its free list: no unit is lost or in two hands, and every caller has room for
\* what it asked.  And secure_mem_used, which CRYPTO_secure_malloc_done trusts,
\* is the size of what is handed out.
Tiled ==
  /\ sh.asserts
  /\ \A u \in Units : \E x \in Blocks : u \in Block(x[2], x[1])
  /\ \A x, y \in Blocks : x # y => Block(x[2], x[1]) \cap Block(y[2], y[1]) = {}
  /\ \A l \in Lists : /\ IsInjective(sh.freelist[l])
                      /\ ToSet(sh.freelist[l]) = {p \in Units : <<l, p>> \in FreeBlocks}
  /\ \A g \in given : \E x \in HeldBlocks : x[2] = g.ptr /\ g.size <= BlockSize(x[1])
  /\ \A x \in HeldBlocks : \E g \in given : x[2] = g.ptr
  /\ \A f, g \in given : f.ptr = g.ptr => f = g
  /\ used = Cardinality(HeldUnits)

\* A request is refused only if no aligned run of free units can hold it: what
\* was freed is joined again, in whichever order it came back.
RefusedOnlyIfFull ==
  \A size \in 0..arena_size : (\A l \in 0..list_for(size) : sh.freelist[l] = <<>>) =>
    \A p \in Units : p % BlockSize(list_for(size)) = 0 =>
      Block(p, list_for(size)) \cap HeldUnits # {}

\* "CRYPTO_secure_malloc() zeroes allocations": neither what earlier callers left
\* nor the pointers of the free lists are in a block that is handed out.
HandedOutZeroed == zeroed

=============================================================================
