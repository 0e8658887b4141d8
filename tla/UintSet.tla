------------------------------ MODULE UintSet -------------------------------
(***************************************************************************)
(* The integer sets of openssl-master/ssl/quic/uint_set.c, kept as a list  *)
(* of inclusive ranges in ascending order.  The send buffers, the          *)
(* acknowledgement manager and the packet number tracking are built on it. *)
(***************************************************************************)
EXTENDS Integers, Sequences, SequencesExt

Interval(a, b) == [start |-> a, end |-> b]

overlaps(r, a, b) == Min({r.end, b}) >= Max({r.start, a})

\* x joins the range before it when they touch.
merge_adjacent(s, i) ==
  IF i > 1 /\ s[i].start - 1 = s[i - 1].end
  THEN RemoveAt([s EXCEPT ![i].start = s[i - 1].start], i - 1)
  ELSE s

\* Put one range in the place of the ranges lo..hi.
Splice(s, lo, hi, r) == SubSeq(s, 1, lo - 1) \o <<r>> \o SubSeq(s, hi + 1, Len(s))

\* [a, b] falls in the gap before range i.
insert_in_gap(s, i, a, b) ==
  IF s[i].start = b + 1 THEN merge_adjacent([s EXCEPT ![i].start = a], i)
  ELSE IF i > 1 /\ s[i - 1].end + 1 = a
  THEN merge_adjacent([s EXCEPT ![i - 1].end = b], i)
  ELSE InsertAt(s, i, Interval(a, b))

\* mutant: only the latest of the ranges overlapped is replaced
earliest_overlap_none(over) == Max(over)

earliest_overlap(over) == Min(over)

insert(s, a, b) ==
  LET n == Len(s)
      over == {i \in 1..n : overlaps(s[i], a, b)}
      gap == {i \in 1..n : b < s[i].start /\ (i = 1 \/ a > s[i - 1].end)} IN
  IF n = 0 THEN <<Interval(a, b)>>
  ELSE IF a > s[n].end
  THEN IF s[n].end + 1 = a THEN [s EXCEPT ![n].end = b]
                           ELSE Append(s, Interval(a, b))
  ELSE IF a <= s[1].start /\ b >= s[n].end THEN <<Interval(a, b)>>
  ELSE IF \E i \in 1..n : s[i].start <= a /\ s[i].end >= b THEN s
  ELSE IF over # {}
  THEN LET lo == earliest_overlap(over)
           hi == Max(over) IN
       Splice(s, lo, hi, Interval(Min({a, s[lo].start}), Max({b, s[hi].end})))
  ELSE insert_in_gap(s, Max(gap), a, b)

\* mutant: the rest begins with the last integer removed
cut_off_by_one(r, a, b) ==
  IF ~overlaps(r, a, b) THEN <<r>>
  ELSE (IF r.start < a THEN <<Interval(r.start, a - 1)>> ELSE <<>>)
       \o (IF b < r.end THEN <<Interval(b, r.end)>> ELSE <<>>)

\* What is left of one range when [a, b] is removed.
cut(r, a, b) ==
  IF ~overlaps(r, a, b) THEN <<r>>
  ELSE (IF r.start < a THEN <<Interval(r.start, a - 1)>> ELSE <<>>)
       \o (IF b < r.end THEN <<Interval(b + 1, r.end)>> ELSE <<>>)

remove(s, a, b) == FlattenSeq([i \in DOMAIN s |-> cut(s[i], a, b)])

\* The walk from the tail stops at the first range that ends before v.
query(s, v) ==
  \E i \in DOMAIN s : /\ s[i].start <= v /\ v <= s[i].end
                      /\ \A j \in (i + 1)..Len(s) : s[j].end >= v

-----------------------------------------------------------------------------
Members(s) == UNION {s[i].start .. s[i].end : i \in DOMAIN s}

\* The invariants uint_set.c states of its lists, but for the one on borders.
WellFormed(s) ==
  /\ \A i \in DOMAIN s : s[i].start <= s[i].end
  /\ \A i, j \in DOMAIN s : i < j => s[i].end < s[j].start

=============================================================================
