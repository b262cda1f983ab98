-------------------------- MODULE SparseGroupProofs --------------------------
(***************************************************************************)
(* Proofs about the storage of sparsepp.h's hash map, for every group size *)
(* and size of a table: a group's array holds the items of its bitmap in   *)
(* order and fits what is allocated for it, and setting or erasing a       *)
(* bucket leaves every other as it was.                                    *)
(***************************************************************************)
EXTENDS SparseGroup, SequenceTheorems, Indices

(***************************************************************************)
(* Numbers.                                                                *)
(***************************************************************************)

(* A division leaves a remainder, and a bucket is where its group and its  *)
(* position in the group say.                                              *)
LEMMA GroupOfBucket ==
  ASSUME NEW b \in Nat, NEW c \in Nat
  PROVE  /\ group_num(b) \in Nat /\ pos_in_group(b) \in Positions
         /\ b = GroupSize * group_num(b) + pos_in_group(b)
         /\ group_num(b) = group_num(c) /\ pos_in_group(b) = pos_in_group(c) => b = c
<1> QED
  BY GroupSizeAssumption DEF group_num, pos_in_group, Positions

(* The group of a bucket is one the table has.                             *)
LEMMA GroupInTable ==
  ASSUME NEW n \in Nat, NEW b \in 0..(n - 1)
  PROVE  num_groups(n) \in Nat /\ group_num(b) \in 0..(num_groups(n) - 1)
<1> QED
  BY GroupSizeAssumption DEF group_num, num_groups

(* The capacity for n items holds them, fits a group, and is the same for  *)
(* one more unless it is used up.                                          *)
LEMMA Sizing ==
  ASSUME NEW n \in 0..GroupSize
  PROVE  /\ _sizing(n) \in n..GroupSize
         /\ n < GroupSize /\ n # _sizing(n) => _sizing(n + 1) = _sizing(n)
<1>1. CASE GroupSize = 8
  BY <1>1 DEF _sizing, Batch
<1>2. CASE GroupSize = 16
  BY <1>2 DEF _sizing, Batch
<1>3. CASE GroupSize = 32
  BY <1>3 DEF _sizing, Batch
<1>4. CASE GroupSize = 64
  BY <1>4 DEF _sizing, Batch
<1> QED
  BY <1>1, <1>2, <1>3, <1>4, GroupSizeAssumption

(***************************************************************************)
(* Positions and offsets.                                                  *)
(***************************************************************************)

\* A bitmap is a finite set of positions.
LEMMA PositionsFinite ==
  ASSUME NEW bm \in SUBSET Positions
  PROVE  /\ IsFiniteSet(bm) /\ Cardinality(bm) \in Nat
         /\ Cardinality(bm) <= GroupSize
         /\ \A pos \in Int : IsFiniteSet({p \in bm : p < pos})
<1>1. IsFiniteSet(Positions) /\ Cardinality(Positions) = GroupSize
  BY FS_Interval, GroupSizeAssumption DEF Positions
<1>2. IsFiniteSet(bm) /\ Cardinality(bm) <= GroupSize
  BY <1>1, FS_Subset
<1>3. Cardinality(bm) \in Nat
  BY <1>2, FS_CardinalityType
<1>4. ASSUME NEW pos \in Int PROVE IsFiniteSet({p \in bm : p < pos})
  BY <1>2, FS_Subset
<1> QED
  BY <1>2, <1>3, <1>4

(* The offset of a position counts those before it: it is below the number *)
(* of items, and grows with the position.                                  *)
LEMMA Offset ==
  ASSUME NEW bm \in SUBSET Positions, NEW pos \in Positions
  PROVE  /\ pos_to_offset(bm, pos) \in 0..Cardinality(bm)
         /\ pos \in bm => pos_to_offset(bm, pos) < Cardinality(bm)
         /\ \A q \in Positions : q \in bm /\ q < pos =>
              pos_to_offset(bm, q) < pos_to_offset(bm, pos)
<1> DEFINE Below(x) == {p \in bm : p < x}
<1>1. /\ pos \in Int /\ \A q \in Positions : q \in Int
      /\ IsFiniteSet(bm) /\ Cardinality(bm) \in Nat
      /\ \A x \in Int : IsFiniteSet(Below(x))
  BY PositionsFinite DEF Positions
<1>2. Cardinality(Below(pos)) \in Nat /\ Cardinality(Below(pos)) <= Cardinality(bm)
  BY <1>1, FS_Subset, FS_CardinalityType
<1>3. ASSUME pos \in bm PROVE Cardinality(Below(pos)) # Cardinality(bm)
  <2>1. Below(pos) # bm
    BY <1>1, <1>3
  <2> QED BY <1>1, <2>1, FS_Subset
<1>4. ASSUME NEW q \in Positions, q \in bm, q < pos
      PROVE  Cardinality(Below(q)) < Cardinality(Below(pos))
  <2>1. Below(q) \in SUBSET Below(pos) /\ q \in Below(pos) /\ q \notin Below(q)
    <3>1. q \in Int /\ pos \in Int /\ \A p \in bm : p \in Int
      BY <1>1 DEF Positions
    <3>2. ASSUME NEW p \in Below(q) PROVE p \in Below(pos)
      <4>1. p \in bm /\ p < q /\ p \in Int
        BY <3>1
      <4> QED BY <1>4, <3>1, <4>1
    <3>3. q \in Below(pos) /\ q \notin Below(q)
      BY <1>4, <3>1
    <3> QED BY <3>2, <3>3
  <2>2. IsFiniteSet(Below(pos)) /\ IsFiniteSet(Below(q))
    BY <1>1
  <2> HIDE DEF Below
  <2>3. Cardinality(Below(q)) <= Cardinality(Below(pos))
        /\ Cardinality(Below(q)) # Cardinality(Below(pos))
    BY <2>1, <2>2, FS_Subset
  <2>4. Cardinality(Below(q)) \in Nat /\ Cardinality(Below(pos)) \in Nat
    BY <2>2, FS_CardinalityType
  <2> QED BY <2>3, <2>4
<1> QED
  BY <1>1, <1>2, <1>3, <1>4 DEF pos_to_offset

(* offset_to_pos inverts pos_to_offset on the positions that are set.      *)
LEMMA OffsetInverse ==
  ASSUME NEW bm \in SUBSET Positions, NEW pos \in bm
  PROVE  offset_to_pos(bm, pos_to_offset(bm, pos)) = pos
<1> DEFINE o == pos_to_offset(bm, pos)
           At(p) == Cardinality({q \in bm : q < p}) = o
<1>1. At(pos)
  BY DEF pos_to_offset
<1>2. ASSUME NEW p \in bm, At(p) PROVE p = pos
  <2>1. pos_to_offset(bm, p) = pos_to_offset(bm, pos)
    BY <1>2 DEF pos_to_offset
  <2>2. p \in Positions /\ pos \in Positions /\ p \in Int /\ pos \in Int
    BY DEF Positions
  <2>3. pos_to_offset(bm, p) \in Int /\ pos_to_offset(bm, pos) \in Int
    <3>1. Cardinality(bm) \in Nat
      BY PositionsFinite
    <3> QED BY <2>2, <3>1, Offset
  <2>4. ~(p < pos) /\ ~(pos < p)
    BY <2>1, <2>2, <2>3, Offset
  <2> QED BY <2>2, <2>4
<1> HIDE DEF At, o
<1>3. (CHOOSE p \in bm : At(p)) = pos
  BY <1>1, <1>2
<1> QED
  BY <1>3 DEF At, o, offset_to_pos

(* What setting or clearing a position does to the offsets of the others.  *)
LEMMA OffsetWith ==
  ASSUME NEW bm \in SUBSET Positions, NEW pos \in Positions, pos \notin bm,
         NEW p \in Positions
  PROVE  pos_to_offset(bm \cup {pos}, p) =
           IF pos < p THEN pos_to_offset(bm, p) + 1 ELSE pos_to_offset(bm, p)
<1>1. p \in Int /\ pos \in Int
  BY DEF Positions
<1>2. IsFiniteSet({q \in bm : q < p})
  BY <1>1, PositionsFinite
<1>3. CASE pos < p
  <2>1. {q \in bm \cup {pos} : q < p} = {q \in bm : q < p} \cup {pos}
    BY <1>3
  <2>2. pos \notin {q \in bm : q < p}
    OBVIOUS
  <2>3. Cardinality({q \in bm : q < p} \cup {pos}) = Cardinality({q \in bm : q < p}) + 1
    BY <1>2, <2>2, FS_AddElement
  <2> QED BY <1>3, <2>1, <2>3 DEF pos_to_offset
<1>4. CASE ~(pos < p)
  <2>1. {q \in bm \cup {pos} : q < p} = {q \in bm : q < p}
    BY <1>4
  <2> QED BY <1>4, <2>1 DEF pos_to_offset
<1> QED BY <1>3, <1>4

(***************************************************************************)
(* The array of a group.                                                   *)
(***************************************************************************)

(* Making room for an element, and closing the gap of one.                 *)
LEMMA Inserted ==
  ASSUME NEW I, NEW s \in Seq(I), NEW at \in 1..(Len(s) + 1), NEW e \in I
  PROVE  /\ InsertAt(s, at, e) \in Seq(I)
         /\ Len(InsertAt(s, at, e)) = Len(s) + 1
         /\ InsertAt(s, at, e)[at] = e
         /\ \A n \in 1..(at - 1) : InsertAt(s, at, e)[n] = s[n]
         /\ \A n \in at..Len(s) : InsertAt(s, at, e)[n + 1] = s[n]
<1> DEFINE u == SubSeq(s, 1, at - 1)
           v == <<e>>
           w == SubSeq(s, at, Len(s))
<1>1. Len(s) \in Nat /\ \A n \in 1..Len(s) : s[n] \in I
  BY LenProperties, ElementOfSeq
<1>2. /\ u \in Seq(I) /\ Len(u) = at - 1 /\ \A n \in 1..(at - 1) : u[n] = s[n]
  <2>1. 1 \in Int /\ at - 1 \in Int /\ \A n \in 1..(at - 1) : s[n] \in I
    BY <1>1
  <2>2. /\ SubSeq(s, 1, at - 1) \in Seq(I)
        /\ Len(SubSeq(s, 1, at - 1)) = IF 1 <= at - 1 THEN at - 1 - 1 + 1 ELSE 0
        /\ \A n \in 1..(at - 1 - 1 + 1) : SubSeq(s, 1, at - 1)[n] = s[1 + n - 1]
    BY <2>1, SubSeqProperties
  <2> QED BY <1>1, <2>2
<1>3. /\ w \in Seq(I) /\ Len(w) = Len(s) + 1 - at
      /\ \A n \in 1..(Len(s) + 1 - at) : w[n] = s[at + n - 1]
  <2>1. at \in Int /\ Len(s) \in Int /\ \A n \in at..Len(s) : s[n] \in I
    BY <1>1
  <2>2. /\ SubSeq(s, at, Len(s)) \in Seq(I)
        /\ Len(SubSeq(s, at, Len(s))) = IF at <= Len(s) THEN Len(s) - at + 1 ELSE 0
        /\ \A n \in 1..(Len(s) - at + 1) : SubSeq(s, at, Len(s))[n] = s[at + n - 1]
    BY <2>1, SubSeqProperties
  <2> QED BY <1>1, <2>2
<1>4. v \in Seq(I) /\ Len(v) = 1 /\ v[1] = e
  OBVIOUS
<1> HIDE DEF u, v, w
<1>5. /\ u \o v \in Seq(I) /\ Len(u \o v) = at
      /\ \A n \in 1..at : (u \o v)[n] = IF n <= at - 1 THEN s[n] ELSE e
  <2>1. /\ u \o v \in Seq(I) /\ Len(u \o v) = Len(u) + Len(v)
        /\ \A n \in 1..(Len(u) + Len(v)) :
             (u \o v)[n] = IF n <= Len(u) THEN u[n] ELSE v[n - Len(u)]
    BY <1>2, <1>4, ConcatProperties
  <2>2. Len(u) + Len(v) = at
    BY <1>2, <1>4
  <2> QED BY <1>2, <1>4, <2>1, <2>2
<1> DEFINE uv == u \o v
<1> HIDE DEF uv
<1>6. /\ uv \o w \in Seq(I) /\ Len(uv \o w) = Len(s) + 1
      /\ \A n \in 1..(Len(s) + 1) :
           (uv \o w)[n] = IF n <= at THEN uv[n] ELSE w[n - at]
  <2>1. uv \in Seq(I) /\ Len(uv) = at
    BY <1>5 DEF uv
  <2>2. /\ uv \o w \in Seq(I) /\ Len(uv \o w) = Len(uv) + Len(w)
        /\ \A n \in 1..(Len(uv) + Len(w)) :
             (uv \o w)[n] = IF n <= Len(uv) THEN uv[n] ELSE w[n - Len(uv)]
    BY <1>3, <2>1, ConcatProperties
  <2>3. Len(uv) + Len(w) = Len(s) + 1
    BY <1>1, <1>3, <2>1
  <2> QED BY <2>1, <2>2, <2>3
<1>7. InsertAt(s, at, e) = uv \o w
  BY DEF InsertAt, u, v, w, uv
<1>8. uv[at] = e /\ \A n \in 1..(at - 1) : uv[n] = s[n]
  <2>1. \A n \in 1..at : uv[n] = IF n <= at - 1 THEN s[n] ELSE e
    BY <1>5 DEF uv
  <2> QED BY <2>1
<1>9. ASSUME NEW n \in at..Len(s) PROVE (uv \o w)[n + 1] = s[n]
  <2>1. n + 1 \in 1..(Len(s) + 1) /\ ~(n + 1 <= at) /\ n + 1 - at \in 1..(Len(s) + 1 - at)
    BY <1>1
  <2>2. (uv \o w)[n + 1] = w[n + 1 - at]
    BY <1>6, <2>1
  <2>3. w[n + 1 - at] = s[at + (n + 1 - at) - 1]
    BY <1>3, <2>1
  <2>4. at + (n + 1 - at) - 1 = n
    BY <1>1
  <2> QED BY <2>2, <2>3, <2>4
<1>10. (uv \o w)[at] = e /\ \A n \in 1..(at - 1) : (uv \o w)[n] = s[n]
  <2>1. at \in 1..(Len(s) + 1) /\ \A n \in 1..(at - 1) : n \in 1..(Len(s) + 1) /\ n <= at
    BY <1>1
  <2> QED BY <1>6, <1>8, <2>1
<1> QED
  BY <1>6, <1>7, <1>9, <1>10

\* RemoveAt takes one item out and moves those after it.
LEMMA Removed ==
  ASSUME NEW I, NEW s \in Seq(I), NEW at \in 1..Len(s)
  PROVE  /\ RemoveAt(s, at) \in Seq(I)
         /\ Len(RemoveAt(s, at)) = Len(s) - 1
         /\ \A n \in 1..(at - 1) : RemoveAt(s, at)[n] = s[n]
         /\ \A n \in (at + 1)..Len(s) : RemoveAt(s, at)[n - 1] = s[n]
<1> DEFINE u == SubSeq(s, 1, at - 1)
           w == SubSeq(s, at + 1, Len(s))
<1>1. Len(s) \in Nat /\ \A n \in 1..Len(s) : s[n] \in I
  BY LenProperties, ElementOfSeq
<1>2. /\ u \in Seq(I) /\ Len(u) = at - 1 /\ \A n \in 1..(at - 1) : u[n] = s[n]
  <2>1. 1 \in Int /\ at - 1 \in Int /\ \A n \in 1..(at - 1) : s[n] \in I
    BY <1>1
  <2>2. /\ SubSeq(s, 1, at - 1) \in Seq(I)
        /\ Len(SubSeq(s, 1, at - 1)) = IF 1 <= at - 1 THEN at - 1 - 1 + 1 ELSE 0
        /\ \A n \in 1..(at - 1 - 1 + 1) : SubSeq(s, 1, at - 1)[n] = s[1 + n - 1]
    BY <2>1, SubSeqProperties
  <2> QED BY <1>1, <2>2
<1>3. /\ w \in Seq(I) /\ Len(w) = Len(s) - at
      /\ \A n \in 1..(Len(s) - at) : w[n] = s[at + n]
  <2>1. at + 1 \in Int /\ Len(s) \in Int /\ \A n \in (at + 1)..Len(s) : s[n] \in I
    BY <1>1
  <2>2. /\ SubSeq(s, at + 1, Len(s)) \in Seq(I)
        /\ Len(SubSeq(s, at + 1, Len(s))) =
             IF at + 1 <= Len(s) THEN Len(s) - (at + 1) + 1 ELSE 0
        /\ \A n \in 1..(Len(s) - (at + 1) + 1) :
             SubSeq(s, at + 1, Len(s))[n] = s[(at + 1) + n - 1]
    BY <2>1, SubSeqProperties
  <2>3. \A n \in 1..(Len(s) - at) : (at + 1) + n - 1 = at + n
    BY <1>1
  <2> QED BY <1>1, <2>2, <2>3
<1> HIDE DEF u, w
<1>4. /\ u \o w \in Seq(I) /\ Len(u \o w) = Len(s) - 1
      /\ \A n \in 1..(Len(s) - 1) :
           (u \o w)[n] = IF n <= at - 1 THEN u[n] ELSE w[n - (at - 1)]
  <2>1. /\ u \o w \in Seq(I) /\ Len(u \o w) = Len(u) + Len(w)
        /\ \A n \in 1..(Len(u) + Len(w)) :
             (u \o w)[n] = IF n <= Len(u) THEN u[n] ELSE w[n - Len(u)]
    BY <1>2, <1>3, ConcatProperties
  <2>2. Len(u) + Len(w) = Len(s) - 1
    BY <1>1, <1>2, <1>3
  <2> QED BY <1>2, <2>1, <2>2
<1>5. RemoveAt(s, at) = u \o w
  BY DEF RemoveAt, u, w
<1>6. ASSUME NEW n \in (at + 1)..Len(s) PROVE (u \o w)[n - 1] = s[n]
  <2>1. n - 1 \in 1..(Len(s) - 1) /\ ~(n - 1 <= at - 1) /\ n - at \in 1..(Len(s) - at)
        /\ n - 1 - (at - 1) = n - at /\ at + (n - at) = n
    BY <1>1
  <2> QED BY <1>3, <1>4, <2>1
<1>7. \A n \in 1..(at - 1) : n \in 1..(Len(s) - 1) /\ n <= at - 1
  BY <1>1
<1> QED
  BY <1>2, <1>4, <1>5, <1>6, <1>7

(***************************************************************************)
(* Groups.                                                                 *)
(***************************************************************************)

(* A group that holds items of the set I: its array has one for each bit   *)
(* of the bitmap and the capacity that this number calls for.              *)
IsGroup(g, I) ==
  /\ g \in [bitmap: SUBSET Positions, erased: SUBSET Positions, items: Seq(I),
            alloc: 0..GroupSize]
  /\ Len(g.items) = Cardinality(g.bitmap)
  /\ g.alloc = _sizing(Len(g.items))
  /\ g.bitmap \cap g.erased = {}

(* The item at a position.                                                 *)
ItemAt(g, pos) == g.items[pos_to_offset(g.bitmap, pos) + 1]

\* What a group consists of, and what the runs check of it.
LEMMA GroupType ==
  ASSUME NEW I, NEW g, IsGroup(g, I)
  PROVE  /\ g.bitmap \in SUBSET Positions /\ g.erased \in SUBSET Positions
         /\ g.items \in Seq(I) /\ num_items(g) = Cardinality(g.bitmap)
         /\ num_items(g) \in 0..GroupSize
         /\ g.alloc \in num_items(g)..GroupSize
         /\ \A pos \in g.bitmap :
              offset_to_pos(g.bitmap, pos_to_offset(g.bitmap, pos)) = pos
         /\ \A pos \in g.bitmap : ItemAt(g, pos) \in I
<1>1. /\ g.bitmap \in SUBSET Positions /\ g.erased \in SUBSET Positions
      /\ g.items \in Seq(I) /\ Len(g.items) = Cardinality(g.bitmap)
      /\ g.alloc = _sizing(Len(g.items)) /\ g.bitmap \cap g.erased = {}
  BY DEF IsGroup
<1>2. Len(g.items) \in 0..GroupSize
  BY <1>1, PositionsFinite, GroupSizeAssumption
<1>3. g.alloc \in Len(g.items)..GroupSize
  BY <1>1, <1>2, Sizing
<1>4. \A pos \in g.bitmap : offset_to_pos(g.bitmap, pos_to_offset(g.bitmap, pos)) = pos
  BY <1>1, OffsetInverse
<1>6. ASSUME NEW pos \in g.bitmap PROVE ItemAt(g, pos) \in I
  <2>1. pos_to_offset(g.bitmap, pos) \in 0..Cardinality(g.bitmap)
        /\ pos_to_offset(g.bitmap, pos) < Cardinality(g.bitmap)
    BY <1>1, Offset
  <2>2. pos_to_offset(g.bitmap, pos) + 1 \in 1..Len(g.items)
    BY <1>1, <1>2, <2>1
  <2> QED BY <1>1, <2>2, ElementOfSeq DEF ItemAt
<1> QED
  BY <1>1, <1>2, <1>3, <1>4, <1>6 DEF num_items

\* A new group holds nothing.
LEMMA EmptyGroupIsGroup ==
  ASSUME NEW I
  PROVE  IsGroup(EmptyGroup, I)
<1>1. Len(<<>>) = 0 /\ Cardinality({}) = 0 /\ <<>> \in Seq(I)
  BY FS_EmptySet
<1>2. _sizing(0) = 0 /\ 0 \in 0..GroupSize
  BY GroupSizeAssumption DEF _sizing
<1> QED
  BY <1>1, <1>2 DEF IsGroup, EmptyGroup

(* set puts the item at its position and leaves the others where a search  *)
(* by position finds them.                                                 *)
LEMMA GroupSet ==
  ASSUME NEW I, NEW g, IsGroup(g, I), NEW pos \in Positions, NEW item \in I
  PROVE  LET h == group_set(g, pos, item)
         IN  /\ IsGroup(h, I)
             /\ h.bitmap = g.bitmap \cup {pos} /\ h.erased = g.erased \ {pos}
             /\ num_items(h) = num_items(g) + (IF pos \in g.bitmap THEN 0 ELSE 1)
             /\ ItemAt(h, pos) = item
             /\ \A p \in g.bitmap : p # pos => ItemAt(h, p) = ItemAt(g, p)
<1> DEFINE h == group_set(g, pos, item)
           at == pos_to_offset(g.bitmap, pos) + 1
<1>1. /\ g \in [bitmap: SUBSET Positions, erased: SUBSET Positions, items: Seq(I),
                alloc: 0..GroupSize]
      /\ g.bitmap \in SUBSET Positions /\ g.erased \in SUBSET Positions
      /\ g.items \in Seq(I) /\ Len(g.items) = Cardinality(g.bitmap)
      /\ g.alloc = _sizing(Len(g.items)) /\ g.bitmap \cap g.erased = {}
      /\ Len(g.items) \in 0..GroupSize
  BY GroupType DEF IsGroup, num_items
<1>2. pos_to_offset(g.bitmap, pos) \in 0..Len(g.items)
  BY <1>1, Offset
<1>3. ASSUME NEW p \in g.bitmap
      PROVE  /\ p \in Positions /\ pos_to_offset(g.bitmap, p) \in 0..(Len(g.items) - 1)
             /\ p < pos => pos_to_offset(g.bitmap, p) < pos_to_offset(g.bitmap, pos)
             /\ pos \in g.bitmap /\ pos < p =>
                  pos_to_offset(g.bitmap, pos) < pos_to_offset(g.bitmap, p)
  <2>1. p \in Positions /\ Len(g.items) \in Nat
    BY <1>1
  <2> QED BY <1>1, <2>1, Offset
<1>4. CASE pos \in g.bitmap
  <2>1. at \in 1..Len(g.items)
    BY <1>1, <1>3, <1>4
  <2>2. h = [g EXCEPT !.erased = g.erased \ {pos}, !.items[at] = item]
    BY <1>4 DEF group_set, ClearedErased
  <2>3. PICK s : s = [g.items EXCEPT ![at] = item]
    OBVIOUS
  <2>4. s \in Seq(I) /\ Len(s) = Len(g.items) /\ s[at] = item
        /\ \A n \in 1..Len(g.items) : n # at => s[n] = g.items[n]
    <3> HIDE DEF at
    <3> QED BY <1>1, <2>1, <2>3, ExceptSeq
  <2>5. h = [bitmap |-> g.bitmap, erased |-> g.erased \ {pos}, items |-> s,
             alloc |-> g.alloc]
    <3> HIDE DEF at, h
    <3> QED BY <1>1, <2>2, <2>3
  <2> HIDE DEF h, at
  <2>6. /\ h.bitmap = g.bitmap /\ h.erased = g.erased \ {pos} /\ h.items = s
        /\ h.alloc = g.alloc
    BY <2>5
  <2>7. IsGroup(h, I)
    <3>1. h \in [bitmap: SUBSET Positions, erased: SUBSET Positions, items: Seq(I),
                 alloc: 0..GroupSize]
      BY <1>1, <2>4, <2>5
    <3> QED BY <1>1, <2>4, <2>6, <3>1 DEF IsGroup
  <2>8. ItemAt(h, pos) = item
    BY <2>4, <2>6 DEF ItemAt, at
  <2>9. ASSUME NEW p \in g.bitmap, p # pos PROVE ItemAt(h, p) = ItemAt(g, p)
    <3>1. p \in Int /\ pos \in Int
      BY <1>3 DEF Positions
    <3>2. pos_to_offset(g.bitmap, p) + 1 \in 1..Len(g.items)
          /\ pos_to_offset(g.bitmap, p) # pos_to_offset(g.bitmap, pos)
      BY <1>1, <1>2, <1>3, <1>4, <2>9, <3>1
    <3>3. pos_to_offset(g.bitmap, p) + 1 # at
      BY <1>1, <1>2, <1>3, <3>2 DEF at
    <3> QED BY <2>4, <2>6, <3>2, <3>3 DEF ItemAt
  <2> QED
    BY <1>1, <1>4, <2>4, <2>6, <2>7, <2>8, <2>9 DEF num_items, h
<1>5. CASE pos \notin g.bitmap
  <2>1. at \in 1..(Len(g.items) + 1)
    BY <1>1, <1>2
  <2>2. PICK s : s = InsertAt(g.items, at, item)
    OBVIOUS
  <2>3. h = [bitmap |-> g.bitmap \cup {pos}, erased |-> g.erased \ {pos},
             items |-> s, alloc |-> Grown(g)]
    BY <1>5, <2>2 DEF group_set, ClearedErased
  <2> HIDE DEF h, at
  <2>4. /\ s \in Seq(I) /\ Len(s) = Len(g.items) + 1 /\ s[at] = item
        /\ \A n \in 1..(at - 1) : s[n] = g.items[n]
        /\ \A n \in at..Len(g.items) : s[n + 1] = g.items[n]
    <3>1. PICK r \in Seq(I) : r = g.items
      BY <1>1
    <3>2. PICK x \in 1..(Len(r) + 1) : x = at
      BY <2>1, <3>1
    <3>3. /\ InsertAt(r, x, item) \in Seq(I)
          /\ Len(InsertAt(r, x, item)) = Len(r) + 1
          /\ InsertAt(r, x, item)[x] = item
          /\ \A n \in 1..(x - 1) : InsertAt(r, x, item)[n] = r[n]
          /\ \A n \in x..Len(r) : InsertAt(r, x, item)[n + 1] = r[n]
      BY Inserted
    <3> QED BY <2>2, <3>1, <3>2, <3>3
  <2>5. /\ h.bitmap = g.bitmap \cup {pos} /\ h.erased = g.erased \ {pos} /\ h.items = s
        /\ h.alloc = Grown(g)
    BY <2>3
  <2>6. Cardinality(h.bitmap) = Len(g.items) + 1 /\ Len(g.items) + 1 \in 0..GroupSize
    <3>1. IsFiniteSet(g.bitmap) /\ h.bitmap \in SUBSET Positions
      BY <1>1, <2>5, PositionsFinite
    <3>2. Cardinality(g.bitmap \cup {pos}) = Cardinality(g.bitmap) + 1
      BY <1>5, <3>1, FS_AddElement
    <3>3. Cardinality(h.bitmap) <= GroupSize
      BY <3>1, PositionsFinite
    <3> QED BY <1>1, <2>5, <3>2, <3>3, GroupSizeAssumption
  <2>7. Grown(g) = _sizing(Len(g.items) + 1)
    <3>1. Len(g.items) < GroupSize
      BY <1>1, <2>6, GroupSizeAssumption
    <3> QED BY <1>1, <3>1, Sizing DEF Grown, num_items
  <2>8. IsGroup(h, I)
    <3>1. h.alloc \in 0..GroupSize
      BY <2>5, <2>6, <2>7, Sizing, GroupSizeAssumption
    <3>2. h \in [bitmap: SUBSET Positions, erased: SUBSET Positions, items: Seq(I),
                 alloc: 0..GroupSize]
      BY <1>1, <2>3, <2>4, <2>5, <3>1
    <3> QED BY <1>1, <2>4, <2>5, <2>6, <2>7, <3>2 DEF IsGroup
  <2>9. ItemAt(h, pos) = item
    <3>1. pos_to_offset(h.bitmap, pos) = pos_to_offset(g.bitmap, pos)
      <4>1. pos \in Int
        BY DEF Positions
      <4> QED BY <1>1, <1>5, <2>5, <4>1, OffsetWith
    <3> QED BY <2>4, <2>5, <3>1 DEF ItemAt, at
  <2>10. ASSUME NEW p \in g.bitmap, p # pos PROVE ItemAt(h, p) = ItemAt(g, p)
    <3>1. p \in Int /\ pos \in Int /\ p \in Positions
      BY <1>3 DEF Positions
    <3>2. PICK o \in 0..(Len(g.items) - 1) : o = pos_to_offset(g.bitmap, p)
      BY <1>3
    <3>3. PICK a \in 0..Len(g.items) : a = pos_to_offset(g.bitmap, pos) /\ at = a + 1
      BY <1>2 DEF at
    <3>4. CASE p < pos
      <4>1. pos_to_offset(h.bitmap, p) = o
        BY <1>1, <1>5, <2>5, <3>1, <3>2, <3>4, OffsetWith
      <4>2. o < a
        BY <1>3, <3>2, <3>3, <3>4
      <4>3. o + 1 \in 1..(at - 1)
        BY <1>1, <3>2, <3>3, <4>2
      <4> QED BY <2>4, <2>5, <3>2, <4>1, <4>3 DEF ItemAt
    <3>5. CASE pos < p
      <4>1. pos_to_offset(h.bitmap, p) = o + 1
        BY <1>1, <1>5, <2>5, <3>1, <3>2, <3>5, OffsetWith
      <4>2. a <= o
        <5>1. {q \in g.bitmap : q < pos} \in SUBSET {q \in g.bitmap : q < p}
          <6>1. \A q \in g.bitmap : q \in Int
            BY <1>1 DEF Positions
          <6> QED BY <3>1, <3>5, <6>1
        <5>2. IsFiniteSet({q \in g.bitmap : q < p})
          BY <1>1, <3>1, PositionsFinite
        <5> QED BY <3>2, <3>3, <5>1, <5>2, FS_Subset DEF pos_to_offset
      <4>3. o + 1 \in at..Len(g.items)
        BY <1>1, <3>2, <3>3, <4>2
      <4>4. s[(o + 1) + 1] = g.items[o + 1]
        BY <2>4, <4>3
      <4> QED BY <2>5, <3>2, <4>1, <4>4 DEF ItemAt
    <3> QED BY <2>10, <3>1, <3>4, <3>5
  <2> QED
    BY <1>5, <2>4, <2>5, <2>8, <2>9, <2>10 DEF num_items, h
<1> QED
  BY <1>4, <1>5

(* erase takes the item at the position out and marks the position, and    *)
(* leaves the others where they are found.                                 *)
LEMMA GroupErase ==
  ASSUME NEW I, NEW g, IsGroup(g, I), NEW pos \in g.bitmap
  PROVE  LET h == group_erase(g, pos)
         IN  /\ IsGroup(h, I)
             /\ h.bitmap = g.bitmap \ {pos} /\ h.erased = g.erased \cup {pos}
             /\ num_items(h) = num_items(g) - 1
             /\ \A p \in g.bitmap : p # pos => ItemAt(h, p) = ItemAt(g, p)
<1> DEFINE h == group_erase(g, pos)
           at == pos_to_offset(g.bitmap, pos) + 1
<1>1. /\ g.bitmap \in SUBSET Positions /\ g.erased \in SUBSET Positions
      /\ g.items \in Seq(I) /\ Len(g.items) = Cardinality(g.bitmap)
      /\ g.bitmap \cap g.erased = {} /\ Len(g.items) \in 0..GroupSize
  BY GroupType DEF IsGroup, num_items
<1>2. pos \in Positions /\ pos \in Int /\ \A p \in g.bitmap : p \in Int /\ p \in Positions
  BY <1>1 DEF Positions
<1>3. ASSUME NEW p \in g.bitmap
      PROVE  pos_to_offset(g.bitmap, p) \in 0..(Len(g.items) - 1)
  <2>1. pos_to_offset(g.bitmap, p) \in 0..Len(g.items)
        /\ pos_to_offset(g.bitmap, p) < Len(g.items)
    BY <1>1, <1>2, Offset
  <2> QED BY <1>1, <2>1
<1>4. PICK a \in 0..(Len(g.items) - 1) : a = pos_to_offset(g.bitmap, pos) /\ at = a + 1
  BY <1>3
<1>5. PICK s : s = RemoveAt(g.items, at)
  OBVIOUS
<1>6. h = [bitmap |-> g.bitmap \ {pos}, erased |-> g.erased \cup {pos},
           items |-> s, alloc |-> _sizing(Len(g.items) - 1)]
  BY <1>5 DEF group_erase, MarkedErased, num_items
<1> HIDE DEF h, at
<1>7. /\ s \in Seq(I) /\ Len(s) = Len(g.items) - 1
      /\ \A n \in 1..(at - 1) : s[n] = g.items[n]
      /\ \A n \in (at + 1)..Len(g.items) : s[n - 1] = g.items[n]
  <2>1. PICK r \in Seq(I) : r = g.items
    BY <1>1
  <2>2. PICK x \in 1..Len(r) : x = at
    BY <1>1, <1>4, <2>1
  <2>3. /\ RemoveAt(r, x) \in Seq(I)
        /\ Len(RemoveAt(r, x)) = Len(r) - 1
        /\ \A n \in 1..(x - 1) : RemoveAt(r, x)[n] = r[n]
        /\ \A n \in (x + 1)..Len(r) : RemoveAt(r, x)[n - 1] = r[n]
    BY Removed
  <2> QED BY <1>5, <2>1, <2>2, <2>3
<1>8. /\ h.bitmap = g.bitmap \ {pos} /\ h.erased = g.erased \cup {pos} /\ h.items = s
      /\ h.alloc = _sizing(Len(g.items) - 1)
  BY <1>6
<1>9. Cardinality(h.bitmap) = Len(g.items) - 1 /\ Len(g.items) - 1 \in 0..GroupSize
  <2>1. IsFiniteSet(g.bitmap)
    BY <1>1, PositionsFinite
  <2>2. Cardinality(g.bitmap \ {pos}) = Cardinality(g.bitmap) - 1
    BY <2>1, FS_RemoveElement
  <2> QED BY <1>1, <1>4, <1>8, <2>2, GroupSizeAssumption
<1>10. IsGroup(h, I)
  <2>1. h.alloc \in 0..GroupSize
    BY <1>8, <1>9, Sizing, GroupSizeAssumption
  <2>2. h \in [bitmap: SUBSET Positions, erased: SUBSET Positions, items: Seq(I),
               alloc: 0..GroupSize]
    BY <1>1, <1>2, <1>6, <1>7, <1>8, <2>1
  <2> QED BY <1>1, <1>7, <1>8, <1>9, <2>2 DEF IsGroup
<1>11. ASSUME NEW p \in g.bitmap, p # pos PROVE ItemAt(h, p) = ItemAt(g, p)
  <2>1. PICK o \in 0..(Len(g.items) - 1) : o = pos_to_offset(g.bitmap, p)
    BY <1>3
  <2>2. pos_to_offset(g.bitmap, p) =
          IF pos < p THEN pos_to_offset(h.bitmap, p) + 1 ELSE pos_to_offset(h.bitmap, p)
    <3>1. h.bitmap \in SUBSET Positions /\ pos \notin h.bitmap
          /\ g.bitmap = h.bitmap \cup {pos}
      BY <1>1, <1>8
    <3> QED BY <1>2, <3>1, OffsetWith
  <2>3. pos_to_offset(h.bitmap, p) \in Int
    <3>1. h.bitmap \in SUBSET Positions /\ Cardinality(h.bitmap) \in Nat
      BY <1>1, <1>8, PositionsFinite
    <3> QED BY <1>2, <3>1, Offset
  <2>4. CASE p < pos
    <3>1. o < a
      BY <1>1, <1>2, <1>4, <2>1, <2>4, Offset
    <3>2. pos_to_offset(h.bitmap, p) = o /\ o + 1 \in 1..(at - 1)
      BY <1>1, <1>2, <1>4, <2>1, <2>2, <2>4, <3>1
    <3> QED BY <1>7, <1>8, <2>1, <3>2 DEF ItemAt
  <2>5. CASE pos < p
    <3>1. a < o
      BY <1>1, <1>2, <1>4, <2>1, <2>5, Offset
    <3>2. pos_to_offset(h.bitmap, p) = o - 1 /\ o + 1 \in (at + 1)..Len(g.items)
      BY <1>1, <1>4, <2>1, <2>2, <2>3, <2>5, <3>1
    <3>3. s[(o + 1) - 1] = g.items[o + 1]
      BY <1>7, <3>2
    <3>4. (o - 1) + 1 = o /\ (o + 1) - 1 = o
      OBVIOUS
    <3>5. ItemAt(h, p) = s[(o - 1) + 1] /\ ItemAt(g, p) = g.items[o + 1]
      BY <1>8, <2>1, <3>2 DEF ItemAt
    <3> QED BY <3>3, <3>4, <3>5
  <2> QED BY <1>2, <1>11, <2>4, <2>5
<1> QED
  BY <1>7, <1>8, <1>10, <1>11 DEF num_items, h

(***************************************************************************)
(* Tables.                                                                 *)
(***************************************************************************)

(* A table that holds items of the set I.                                  *)
IsTable(t, I) ==
  /\ t.size \in Nat /\ t.num_buckets \in Nat
  /\ t = [size |-> t.size, num_buckets |-> t.num_buckets, groups |-> t.groups]
  /\ t.groups = [k \in 0..(num_groups(t.size) - 1) |-> t.groups[k]]
  /\ \A k \in 0..(num_groups(t.size) - 1) : IsGroup(t.groups[k], I)
  /\ t.num_buckets = Cardinality(Full(t))

\* What a table consists of: full, erased and empty buckets.
LEMMA TableType ==
  ASSUME NEW I, NEW t, IsTable(t, I)
  PROVE  /\ Buckets(t) \in SUBSET Nat /\ IsFiniteSet(Buckets(t))
         /\ Cardinality(Buckets(t)) = t.size
         /\ IsFiniteSet(Full(t)) /\ IsFiniteSet(Erased(t))
         /\ t.num_buckets = Cardinality(Full(t)) /\ Cardinality(Erased(t)) \in Nat
         /\ Full(t) \cap Erased(t) = {}
         /\ Cardinality(Full(t)) + Cardinality(Erased(t)) <= t.size
         /\ \A b \in Buckets(t) :
              /\ b \in Full(t) <=> test(t, b)
              /\ b \in Full(t) \/ b \in Erased(t) <=> test_strict(t, b)
              /\ IsGroup(which_group(t, b), I)
         /\ \A b \in Full(t) : unsafe_get(t, b) \in I
<1>1. t.size \in Nat /\ t.num_buckets = Cardinality(Full(t))
  BY DEF IsTable
<1>2. /\ Buckets(t) \in SUBSET Nat /\ IsFiniteSet(Buckets(t))
      /\ Cardinality(Buckets(t)) = t.size
  <2>1. 0 \in Int /\ t.size - 1 \in Int /\ (0 > t.size - 1 <=> t.size = 0)
    BY <1>1
  <2>2. IsFiniteSet(0..(t.size - 1))
        /\ Cardinality(0..(t.size - 1)) = IF 0 > t.size - 1 THEN 0 ELSE t.size - 1 - 0 + 1
    BY <2>1, FS_Interval
  <2> QED BY <1>1, <2>1, <2>2 DEF Buckets
<1>3. /\ Full(t) \in SUBSET Buckets(t) /\ Erased(t) \in SUBSET Buckets(t)
      /\ Full(t) \cap Erased(t) = {}
  BY DEF Full, Erased
<1>4. IsFiniteSet(Full(t)) /\ IsFiniteSet(Erased(t))
  BY <1>2, <1>3, FS_Subset
<1>5. Cardinality(Full(t)) \in Nat /\ Cardinality(Erased(t)) \in Nat
  BY <1>4, FS_CardinalityType
<1>6. Cardinality(Full(t)) + Cardinality(Erased(t)) <= t.size
  <2>1. Cardinality(Full(t) \cup Erased(t)) =
          Cardinality(Full(t)) + Cardinality(Erased(t)) - Cardinality({})
    BY <1>3, <1>4, FS_Union
  <2>2. Cardinality({}) = 0
    BY FS_EmptySet
  <2>3. Cardinality(Full(t) \cup Erased(t)) <= Cardinality(Buckets(t))
    <3>1. Full(t) \cup Erased(t) \in SUBSET Buckets(t)
      BY <1>3
    <3> QED BY <1>2, <3>1, FS_Subset
  <2> QED BY <1>2, <1>5, <2>1, <2>2, <2>3
<1>7. ASSUME NEW b \in Buckets(t)
      PROVE  /\ b \in Full(t) <=> test(t, b)
             /\ b \in Full(t) \/ b \in Erased(t) <=> test_strict(t, b)
             /\ IsGroup(which_group(t, b), I)
  <2>1. group_num(b) \in 0..(num_groups(t.size) - 1)
    BY <1>1, GroupInTable DEF Buckets
  <2>2. IsGroup(which_group(t, b), I)
    BY <2>1 DEF IsTable, which_group
  <2> QED BY <2>2 DEF Full, Erased, test, test_strict
<1>8. ASSUME NEW b \in Full(t) PROVE unsafe_get(t, b) \in I
  <2>1. b \in Buckets(t) /\ IsGroup(which_group(t, b), I)
        /\ pos_in_group(b) \in which_group(t, b).bitmap
    BY <1>3, <1>7 DEF test
  <2> QED BY <2>1, GroupType DEF unsafe_get, ItemAt
<1> QED
  BY <1>1, <1>2, <1>3, <1>4, <1>5, <1>6, <1>7, <1>8

(* A table with one group replaced.                                        *)
LEMMA GroupReplaced ==
  ASSUME NEW I, NEW t, IsTable(t, I), NEW b \in Buckets(t), NEW g, IsGroup(g, I)
  PROVE  LET u == WithGroup(t, b, g)
         IN  /\ u.size = t.size
             /\ u.num_buckets = t.num_buckets + num_items(g) - num_items(which_group(t, b))
             /\ u = [size |-> u.size, num_buckets |-> u.num_buckets, groups |-> u.groups]
             /\ u.groups = [k \in 0..(num_groups(u.size) - 1) |-> u.groups[k]]
             /\ \A k \in 0..(num_groups(u.size) - 1) : IsGroup(u.groups[k], I)
             /\ \A c \in Buckets(t) :
                  which_group(u, c) =
                    IF group_num(c) = group_num(b) THEN g ELSE which_group(t, c)
<1> DEFINE u == WithGroup(t, b, g)
           n == group_num(b)
<1>1. /\ t.size \in Nat /\ t.num_buckets \in Nat
      /\ t = [size |-> t.size, num_buckets |-> t.num_buckets, groups |-> t.groups]
      /\ t.groups = [k \in 0..(num_groups(t.size) - 1) |-> t.groups[k]]
      /\ \A k \in 0..(num_groups(t.size) - 1) : IsGroup(t.groups[k], I)
  BY DEF IsTable
<1>2. \A c \in Buckets(t) : group_num(c) \in 0..(num_groups(t.size) - 1)
  BY <1>1, GroupInTable DEF Buckets
<1>3. u = [size |-> t.size,
           num_buckets |-> t.num_buckets + num_items(g) - num_items(which_group(t, b)),
           groups |-> [t.groups EXCEPT ![n] = g]]
  <2> HIDE DEF n
  <2>1. u = [t EXCEPT !.groups[n] = g,
                      !.num_buckets = @ + num_items(g) - num_items(which_group(t, b))]
    BY DEF WithGroup, n
  <2> HIDE DEF u
  <2> QED BY <1>1, <2>1
<1> HIDE DEF u
<1>4. /\ u.size = t.size
      /\ u.num_buckets = t.num_buckets + num_items(g) - num_items(which_group(t, b))
      /\ u = [size |-> u.size, num_buckets |-> u.num_buckets, groups |-> u.groups]
      /\ u.groups = [t.groups EXCEPT ![n] = g]
  BY <1>3
<1>5. \A k \in 0..(num_groups(t.size) - 1) :
        u.groups[k] = IF k = n THEN g ELSE t.groups[k]
  <2> HIDE DEF n
  <2> QED BY <1>1, <1>4
<1>6. u.groups = [k \in 0..(num_groups(u.size) - 1) |-> u.groups[k]]
  <2> HIDE DEF n
  <2> QED BY <1>1, <1>4
<1>7. \A k \in 0..(num_groups(u.size) - 1) : IsGroup(u.groups[k], I)
  BY <1>1, <1>4, <1>5
<1>8. ASSUME NEW c \in Buckets(t)
      PROVE  which_group(u, c) =
               IF group_num(c) = group_num(b) THEN g ELSE which_group(t, c)
  BY <1>2, <1>5 DEF which_group
<1> QED
  BY <1>4, <1>6, <1>7, <1>8 DEF u

(* sparsetable::set fills one bucket and leaves the others.                *)
LEMMA TableSet ==
  ASSUME NEW I, NEW t, IsTable(t, I), NEW b \in Buckets(t), NEW item \in I
  PROVE  LET u == table_set(t, b, item)
         IN  /\ IsTable(u, I) /\ u.size = t.size
             /\ Full(u) = Full(t) \cup {b} /\ Erased(u) = Erased(t) \ {b}
             /\ unsafe_get(u, b) = item
             /\ \A c \in Full(t) : c # b => unsafe_get(u, c) = unsafe_get(t, c)
<1> DEFINE u == table_set(t, b, item)
           g == which_group(t, b)
           pos == pos_in_group(b)
           h == group_set(g, pos, item)
<1>1. /\ t.size \in Nat /\ Buckets(t) \in SUBSET Nat
      /\ Full(t) \in SUBSET Buckets(t) /\ Erased(t) \in SUBSET Buckets(t)
      /\ IsGroup(g, I) /\ IsFiniteSet(Full(t))
      /\ t.num_buckets = Cardinality(Full(t)) /\ t.num_buckets \in Nat
  BY TableType DEF IsTable, Full, Erased
<1>2. /\ b \in Nat /\ pos \in Positions
      /\ \A c \in Buckets(t) : group_num(c) = group_num(b) /\ pos_in_group(c) = pos => c = b
  BY <1>1, GroupOfBucket
<1>3. /\ IsGroup(h, I)
      /\ h.bitmap = g.bitmap \cup {pos} /\ h.erased = g.erased \ {pos}
      /\ num_items(h) = num_items(g) + (IF pos \in g.bitmap THEN 0 ELSE 1)
      /\ ItemAt(h, pos) = item
      /\ \A p \in g.bitmap : p # pos => ItemAt(h, p) = ItemAt(g, p)
  <2> HIDE DEF g, pos
  <2> QED BY <1>1, <1>2, GroupSet DEF h
<1>4. u = WithGroup(t, b, h)
  BY DEF table_set
<1>5. g.bitmap \cap g.erased = {}
  BY <1>1 DEF IsGroup
<1> HIDE DEF u, h
<1>6. /\ u.size = t.size
      /\ u.num_buckets = t.num_buckets + num_items(h) - num_items(g)
      /\ u = [size |-> u.size, num_buckets |-> u.num_buckets, groups |-> u.groups]
      /\ u.groups = [k \in 0..(num_groups(u.size) - 1) |-> u.groups[k]]
      /\ \A k \in 0..(num_groups(u.size) - 1) : IsGroup(u.groups[k], I)
      /\ \A c \in Buckets(t) :
           which_group(u, c) =
             IF group_num(c) = group_num(b) THEN h ELSE which_group(t, c)
  BY <1>3, <1>4, GroupReplaced
<1>7. Buckets(u) = Buckets(t)
  BY <1>6 DEF Buckets
<1>8. ASSUME NEW c \in Buckets(t)
      PROVE  /\ test(u, c) <=> test(t, c) \/ c = b
             /\ test_strict(u, c) <=> test_strict(t, c) \/ c = b
             /\ test(t, c) /\ c # b => unsafe_get(u, c) = unsafe_get(t, c)
  <2>1. CASE group_num(c) = group_num(b)
    <3>1. which_group(u, c) = h /\ which_group(t, c) = g
      BY <1>6, <2>1 DEF which_group
    <3>2. c # b => pos_in_group(c) # pos
      BY <1>2, <2>1
    <3> HIDE DEF g, pos
    <3>3. test(u, c) <=> test(t, c) \/ c = b
      BY <1>3, <3>1, <3>2 DEF test, pos
    <3>4. test_strict(u, c) <=> test_strict(t, c) \/ c = b
      BY <1>3, <3>1, <3>2 DEF test_strict, pos
    <3>5. test(t, c) /\ c # b => unsafe_get(u, c) = unsafe_get(t, c)
      BY <1>3, <3>1, <3>2 DEF test, unsafe_get, ItemAt
    <3> QED BY <3>3, <3>4, <3>5
  <2>2. CASE group_num(c) # group_num(b)
    <3>1. which_group(u, c) = which_group(t, c) /\ c # b
      BY <1>6, <2>2
    <3> QED BY <3>1 DEF test, test_strict, unsafe_get
  <2> QED BY <2>1, <2>2
<1>9. Full(u) = Full(t) \cup {b}
  BY <1>7, <1>8 DEF Full
<1>10. Erased(u) = Erased(t) \ {b}
  BY <1>7, <1>8, <1>9 DEF Erased
<1>11. unsafe_get(u, b) = item
  <2>1. which_group(u, b) = h
    BY <1>6
  <2> QED BY <1>3, <2>1 DEF unsafe_get, ItemAt
<1>12. u.num_buckets = Cardinality(Full(u)) /\ u.num_buckets \in Nat
  <2>1. Cardinality(Full(u)) = IF b \in Full(t) THEN t.num_buckets ELSE t.num_buckets + 1
    BY <1>1, <1>9, FS_AddElement
  <2>2. b \in Full(t) <=> pos \in g.bitmap
    BY DEF Full, test
  <2>3. num_items(g) \in Nat /\ num_items(h) \in Nat
    BY <1>1, <1>3, GroupType
  <2> HIDE DEF g, pos
  <2> QED BY <1>1, <1>3, <1>6, <2>1, <2>2, <2>3
<1>13. IsTable(u, I)
  BY <1>1, <1>6, <1>12 DEF IsTable
<1>14. \A c \in Full(t) : c # b => unsafe_get(u, c) = unsafe_get(t, c)
  BY <1>8 DEF Full
<1> QED
  BY <1>6, <1>9, <1>10, <1>11, <1>13, <1>14 DEF u

(* sparsetable::erase turns a full bucket into an erased one.              *)
LEMMA TableErase ==
  ASSUME NEW I, NEW t, IsTable(t, I), NEW b \in Full(t)
  PROVE  LET u == table_erase(t, b)
         IN  /\ IsTable(u, I) /\ u.size = t.size
             /\ Full(u) = Full(t) \ {b} /\ Erased(u) = Erased(t) \cup {b}
             /\ \A c \in Full(t) : c # b => unsafe_get(u, c) = unsafe_get(t, c)
<1> DEFINE u == table_erase(t, b)
           g == which_group(t, b)
           pos == pos_in_group(b)
           h == group_erase(g, pos)
<1>1. /\ t.size \in Nat /\ Buckets(t) \in SUBSET Nat /\ b \in Buckets(t)
      /\ Full(t) \in SUBSET Buckets(t) /\ Erased(t) \in SUBSET Buckets(t)
      /\ IsGroup(g, I) /\ IsFiniteSet(Full(t)) /\ pos \in g.bitmap
      /\ t.num_buckets = Cardinality(Full(t)) /\ t.num_buckets \in Nat
  BY TableType DEF IsTable, Full, Erased, test
<1>2. /\ b \in Nat /\ pos \in Positions
      /\ \A c \in Buckets(t) : group_num(c) = group_num(b) /\ pos_in_group(c) = pos => c = b
  BY <1>1, GroupOfBucket
<1>3. /\ IsGroup(h, I)
      /\ h.bitmap = g.bitmap \ {pos} /\ h.erased = g.erased \cup {pos}
      /\ num_items(h) = num_items(g) - 1
      /\ \A p \in g.bitmap : p # pos => ItemAt(h, p) = ItemAt(g, p)
  <2> HIDE DEF g, pos
  <2> QED BY <1>1, GroupErase DEF h
<1>4. u = WithGroup(t, b, h)
  BY DEF table_erase
<1> HIDE DEF u, h
<1>6. /\ u.size = t.size
      /\ u.num_buckets = t.num_buckets + num_items(h) - num_items(g)
      /\ u = [size |-> u.size, num_buckets |-> u.num_buckets, groups |-> u.groups]
      /\ u.groups = [k \in 0..(num_groups(u.size) - 1) |-> u.groups[k]]
      /\ \A k \in 0..(num_groups(u.size) - 1) : IsGroup(u.groups[k], I)
      /\ \A c \in Buckets(t) :
           which_group(u, c) =
             IF group_num(c) = group_num(b) THEN h ELSE which_group(t, c)
  BY <1>1, <1>3, <1>4, GroupReplaced
<1>7. Buckets(u) = Buckets(t)
  BY <1>6 DEF Buckets
<1>8. ASSUME NEW c \in Buckets(t)
      PROVE  /\ test(u, c) <=> test(t, c) /\ c # b
             /\ test_strict(u, c) <=> test_strict(t, c)
             /\ test(t, c) /\ c # b => unsafe_get(u, c) = unsafe_get(t, c)
  <2>1. CASE group_num(c) = group_num(b)
    <3>1. which_group(u, c) = h /\ which_group(t, c) = g
      BY <1>6, <2>1 DEF which_group
    <3>2. c # b => pos_in_group(c) # pos
      BY <1>2, <2>1
    <3> HIDE DEF g, pos
    <3>3. test(u, c) <=> test(t, c) /\ c # b
      BY <1>3, <3>1, <3>2 DEF test, pos
    <3>4. test_strict(u, c) <=> test_strict(t, c)
      BY <1>1, <1>3, <3>1, <3>2 DEF test_strict, pos
    <3>5. test(t, c) /\ c # b => unsafe_get(u, c) = unsafe_get(t, c)
      BY <1>3, <3>1, <3>2 DEF test, unsafe_get, ItemAt
    <3> QED BY <3>3, <3>4, <3>5
  <2>2. CASE group_num(c) # group_num(b)
    <3>1. which_group(u, c) = which_group(t, c) /\ c # b
      BY <1>6, <2>2
    <3> QED BY <3>1 DEF test, test_strict, unsafe_get
  <2> QED BY <2>1, <2>2
<1>9. Full(u) = Full(t) \ {b}
  BY <1>7, <1>8 DEF Full
<1>10. Erased(u) = Erased(t) \cup {b}
  <2>1. test_strict(t, b) /\ test(t, b)
    BY <1>1 DEF test, test_strict
  <2> QED BY <1>1, <1>7, <1>8, <2>1 DEF Erased
<1>12. u.num_buckets = Cardinality(Full(u)) /\ u.num_buckets \in Nat
  <2>1. Cardinality(Full(u)) = t.num_buckets - 1 /\ Cardinality(Full(u)) \in Nat
    <3>1. IsFiniteSet(Full(u)) /\ Cardinality(Full(u)) = Cardinality(Full(t)) - 1
      <4>1. /\ IsFiniteSet(Full(t) \ {b})
            /\ Cardinality(Full(t) \ {b}) = Cardinality(Full(t)) - 1
        BY <1>1, FS_RemoveElement
      <4> QED BY <1>9, <4>1, Zenon
    <3> QED BY <1>1, <3>1, FS_CardinalityType
  <2>3. num_items(g) \in Nat /\ num_items(h) \in Nat
    BY <1>1, <1>3, GroupType
  <2> HIDE DEF g, pos
  <2> QED BY <1>1, <1>3, <1>6, <2>1, <2>3
<1>13. IsTable(u, I)
  BY <1>1, <1>6, <1>12 DEF IsTable
<1>14. \A c \in Full(t) : c # b => unsafe_get(u, c) = unsafe_get(t, c)
  BY <1>8 DEF Full
<1> QED
  BY <1>6, <1>9, <1>10, <1>13, <1>14 DEF u

(* A new table is empty.                                                   *)
LEMMA NewTable ==
  ASSUME NEW I, NEW n \in Nat
  PROVE  /\ IsTable(Table(n), I) /\ Table(n).size = n
         /\ Full(Table(n)) = {} /\ Erased(Table(n)) = {} /\ Table(n).num_buckets = 0
<1> DEFINE t == Table(n)
<1>1. /\ t.size = n /\ t.num_buckets = 0
      /\ t = [size |-> t.size, num_buckets |-> t.num_buckets, groups |-> t.groups]
      /\ t.groups = [k \in 0..(num_groups(t.size) - 1) |-> t.groups[k]]
      /\ \A k \in 0..(num_groups(t.size) - 1) : t.groups[k] = EmptyGroup
  BY DEF Table
<1> HIDE DEF t
<1>2. ASSUME NEW b \in Buckets(t) PROVE ~test(t, b) /\ ~test_strict(t, b)
  <2>1. group_num(b) \in 0..(num_groups(n) - 1)
    BY <1>1, GroupInTable DEF Buckets
  <2>2. which_group(t, b) = EmptyGroup
    BY <1>1, <2>1 DEF which_group
  <2> QED BY <2>2 DEF test, test_strict, EmptyGroup
<1>3. Full(t) = {} /\ Erased(t) = {}
  BY <1>2 DEF Full, Erased
<1>4. t.num_buckets = Cardinality(Full(t))
  BY <1>1, <1>3, FS_EmptySet
<1>5. IsTable(t, I)
  BY <1>1, <1>4, EmptyGroupIsGroup DEF IsTable
<1> QED
  BY <1>1, <1>3, <1>5 DEF t
==============================================================================
