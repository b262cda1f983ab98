----------------------------- MODULE SparseGroup -----------------------------
(***************************************************************************)
(* The storage of sparsepp.h's hash map as operators on values: sparsegroup *)
(* packs the non-empty ones of GroupSize buckets into an array, in order,   *)
(* and sparsetable is an array of groups.  A bitmap is the set of the       *)
(* positions whose bit is set; an item is a pair <<key, value>>.            *)
(***************************************************************************)
EXTENDS Integers, FiniteSets, SequencesExt

CONSTANT GroupSize   \* SPP_GROUP_SIZE (32 in the program)

ASSUME GroupSizeAssumption == GroupSize \in {8, 16, 32, 64}

Positions == 0..(GroupSize - 1)

(* sparsegroup::_sizing, the capacity allocated for n items: rounded up by  *)
(* an eighth of the group, and by half of that in each following quarter,   *)
(* down to two.                                                             *)
Batch(quarter) ==
  LET eighth == GroupSize \div 8
  IN  IF eighth <= 2 THEN eighth
      ELSE IF eighth = 4 THEN (IF quarter = 0 THEN 4 ELSE 2)
      ELSE IF quarter = 0 THEN 8 ELSE IF quarter = 1 THEN 4 ELSE 2

_sizing(n) ==
  LET batch == Batch((n - 1) \div (GroupSize \div 4))
  IN  IF n = 0 THEN 0 ELSE ((n + batch - 1) \div batch) * batch

EmptyGroup == [bitmap |-> {}, erased |-> {}, items |-> <<>>, alloc |-> 0]

num_items(g) == Len(g.items)

(* The index in the array of the item at a position, and back: the offset-  *)
(* th position of the bitmap.                                               *)
pos_to_offset(bm, pos)    == Cardinality({p \in bm : p < pos})
offset_to_pos(bm, offset) ==
  CHOOSE p \in bm : Cardinality({q \in bm : q < p}) = offset

\* The capacity after one more item, when the array is full or has room.
GrownOnlyWhenEmpty(g) == IF num_items(g) = 0 THEN _sizing(1) ELSE g.alloc
Grown(g) == IF num_items(g) = _sizing(num_items(g))
            THEN _sizing(num_items(g) + 1) ELSE g.alloc

(* sparsegroup::set and _set_aux: replace the item, or make room for it at  *)
(* its offset by moving those after it.                                     *)
ClearedErased(g, pos) == g.erased \ {pos}
group_set(g, pos, item) ==
  LET at == pos_to_offset(g.bitmap, pos) + 1
  IN  IF pos \in g.bitmap
      THEN [g EXCEPT !.erased = ClearedErased(g, pos), !.items[at] = item]
      ELSE [bitmap |-> g.bitmap \cup {pos},
            erased |-> ClearedErased(g, pos),
            items  |-> InsertAt(g.items, at, item),
            alloc  |-> Grown(g)]

(* sparsegroup::erase and _group_erase_aux: close the gap, shrink the array *)
(* and remember the position as erased.                                     *)
UnmarkedErased(g, pos) == g.erased
MarkedErased(g, pos)   == g.erased \cup {pos}
group_erase(g, pos) ==
  IF pos \notin g.bitmap THEN g
  ELSE [bitmap |-> g.bitmap \ {pos},
        erased |-> MarkedErased(g, pos),
        items  |-> RemoveAt(g.items, pos_to_offset(g.bitmap, pos) + 1),
        alloc  |-> _sizing(num_items(g) - 1)]

------------------------------------------------------------------------------
(* sparsetable.                                                            *)

num_groups(size) == IF size = 0 THEN 0 ELSE (size - 1) \div GroupSize + 1

Table(size) ==
  [size |-> size, num_buckets |-> 0,
   groups |-> [k \in 0..(num_groups(size) - 1) |-> EmptyGroup]]

group_num(b)    == b \div GroupSize
pos_in_group(b) == b % GroupSize
which_group(t, b) == t.groups[group_num(b)]

Buckets(t) == 0..(t.size - 1)

\* Whether a bucket holds an item, and whether it does or did before an erase.
test(t, b) == pos_in_group(b) \in which_group(t, b).bitmap
test_strict(t, b) ==
  pos_in_group(b) \in which_group(t, b).bitmap \cup which_group(t, b).erased

unsafe_get(t, b) ==
  LET g == which_group(t, b)
  IN  g.items[pos_to_offset(g.bitmap, pos_in_group(b)) + 1]

(* sparsetable::set, move and erase.                                       *)
WithGroup(t, b, g) ==
  [t EXCEPT !.groups[group_num(b)] = g,
            !.num_buckets = @ + num_items(g) - num_items(which_group(t, b))]

table_set(t, b, item) ==
  WithGroup(t, b, group_set(which_group(t, b), pos_in_group(b), item))

table_erase(t, b) ==
  WithGroup(t, b, group_erase(which_group(t, b), pos_in_group(b)))

Erased(t) == {b \in Buckets(t) : test_strict(t, b) /\ ~test(t, b)}
Full(t)   == {b \in Buckets(t) : test(t, b)}
=============================================================================
