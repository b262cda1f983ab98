------------------------------ MODULE SparseHash ------------------------------
(***************************************************************************)
(* sparsepp.h's sparse_hash_map, the type of Translator::_bbMap: a hash     *)
(* table with quadratic probing over a sparsetable.  An erased bucket stays *)
(* in the way of probes until an insertion takes it or a rehash drops it;   *)
(* the table doubles when half of its buckets are occupied or erased, and   *)
(* shrinks at the first insertion after an erase, if it is then nearly      *)
(* empty.                                                                   *)
(*                                                                          *)
(* A call is made (Call) and runs in steps: a rehash moves one item a step  *)
(* into the table tmp, which then takes the place of the old one.           *)
(***************************************************************************)
EXTENDS SparseGroup

CONSTANTS
  Keys, Values,
  None,                         \* no key, value or result
  Hashes,                       \* the hash functions the map may have
  Requests,                     \* the element counts resize is called with
  Calls,                        \* the operations called
  HT_MIN_BUCKETS,               \* 4 in the program
  HT_DEFAULT_STARTING_BUCKETS,  \* 32 in the program
  MaxDoublings                  \* bound on the table: HT_MIN_BUCKETS * 2^this

ASSUME HashesAssumption == \A h \in Hashes : h \in [Keys -> Nat]
\* "Must be a power of two, and at least 4." (sparsepp.h:3753)
ASSUME BucketsAssumption ==
         /\ HT_MIN_BUCKETS \in Nat /\ HT_MIN_BUCKETS >= 4
         /\ \E d \in 0..HT_MIN_BUCKETS : HT_MIN_BUCKETS = 2^d
         /\ MaxDoublings \in Nat
         /\ HT_DEFAULT_STARTING_BUCKETS \in
              {HT_MIN_BUCKETS * 2^d : d \in 0..MaxDoublings}
ASSUME CallsAssumption ==
         Calls \subseteq {"find", "index", "insert", "erase", "clear", "resize",
                          "squash", "copy"}
ASSUME NoneAssumption ==
         None \notin Keys \cup Values
           \cup {"find", "index", "insert", "erase", "clear", "resize", "squash",
                 "copy"}

VARIABLES
  table,        \* the sparsetable
  num_deleted,
  settings,     \* enlarge_threshold_, shrink_threshold_, consider_shrink_
  hash,         \* settings.hash
  pc,           \* where control is in the call
  call,         \* the call: <op, key, value>
  req_elements, \* for resize: the element count
  result,       \* what the last call returned
  slot,         \* find_or_insert's bucket for the key, and whether erased
  rehashed,     \* whether this call has rehashed (did_resize)
  tmp,          \* the table a rehash fills
  it,           \* its iterator over the old one
  resume        \* where the call goes on after it

vars == <<table, num_deleted, settings, hash, pc, call, req_elements, result, slot,
          rehashed, tmp, it, resume>>

callVars   == <<call, req_elements>>
rehashVars == <<tmp, it, resume>>

------------------------------------------------------------------------------
BucketCounts == {HT_MIN_BUCKETS * 2^d : d \in 0..MaxDoublings}

HT_OCCUPANCY_PCT == 50
HT_EMPTY_PCT     == 20

enlarge_size(x) == (x * HT_OCCUPANCY_PCT) \div 100
shrink_size(x)  == (x * HT_EMPTY_PCT) \div 100

reset_thresholds(size) ==
  [enlarge_threshold |-> enlarge_size(size),
   shrink_threshold  |-> shrink_size(size),
   consider_shrink   |-> FALSE]

\* The largest table of the model holds what resize asks for.
ASSUME RequestsAssumption ==
         /\ Requests \subseteq Nat
         /\ \A n \in Requests : n < enlarge_size(HT_MIN_BUCKETS * 2^MaxDoublings)

\* The table sizes that hold the elements without being too crowded.
Roomy(num_elts, wanted) ==
  {sz \in BucketCounts : sz >= wanted /\ num_elts < enlarge_size(sz)}
min_buckets(num_elts, wanted) ==
  CHOOSE sz \in Roomy(num_elts, wanted) :
    \A other \in Roomy(num_elts, wanted) : sz <= other

size(t) == t.num_buckets

------------------------------------------------------------------------------
(* Probing.  The n-th jump is by n buckets, so bucket n of the probe is at  *)
(* distance 1 + 2 + ... + n of the first.                                   *)
DoubleJumps(n) == n * (n + 1)
Jumps(n)       == (n * (n + 1)) \div 2
Probe(t, k, n) == (hash[k] + Jumps(n)) % t.size

\* A probe ends a search at a bucket that was never used or holds the key.
Holds(t, b, k) == test(t, b) /\ unsafe_get(t, b)[1] = k
StopsAtErased(t, k, n) ==
  ~test(t, Probe(t, k, n)) \/ Holds(t, Probe(t, k, n), k)
Stops(t, k, n) ==
  ~test_strict(t, Probe(t, k, n)) \/ Holds(t, Probe(t, k, n), k)
Ends(t, k) == \E n \in 0..(t.size - 1) : Stops(t, k, n)

Skips(t, k, n) ==
  test_strict(t, Probe(t, k, n)) /\ ~test(t, Probe(t, k, n))

\* _find_position: the key, or where it should go, which is the first erased
\* bucket on the way to the empty one.
_find_position(t, k) ==
  LET probes    == 0..(t.size - 1)
      pos[last \in probes] ==
        LET skipped == {n \in 0..last : Skips(t, k, n)}
        IN  IF Holds(t, Probe(t, k, last), k)
            THEN [t |-> "full", idx |-> Probe(t, k, last)]
            ELSE IF skipped # {}
            THEN [t |-> "erased", idx |-> Probe(t, k, Min(skipped))]
            ELSE [t |-> "empty", idx |-> Probe(t, k, last)]
  IN  pos[Min({n \in probes : Stops(t, k, n)})]

\* What find returns: the value of the item found, or end().
find(t, k) ==
  LET pos == _find_position(t, k)
  IN  IF pos.t = "full" THEN unsafe_get(t, pos.idx)[2] ELSE None

NoSlot == [t |-> "none", idx |-> 0]
NoCall == [op |-> None, key |-> None, value |-> None]

\* The map a constructor makes for so many elements.
ExactlySized(expected) ==
  Table(IF expected = 0 THEN HT_DEFAULT_STARTING_BUCKETS ELSE expected)
Constructed(expected) ==
  Table(IF expected = 0 THEN HT_DEFAULT_STARTING_BUCKETS
        ELSE min_buckets(expected, 0))

Init ==
  /\ \E n \in Requests : table = Constructed(n)
  /\ num_deleted = 0
  /\ settings = reset_thresholds(table.size)
  /\ hash \in Hashes
  /\ pc = "idle"
  /\ call = NoCall
  /\ req_elements = 0
  /\ result = None
  /\ slot = NoSlot
  /\ rehashed = FALSE
  /\ tmp = Table(0)
  /\ it = 0
  /\ resume = "idle"

------------------------------------------------------------------------------
(* Calls and returns.                                                      *)

Arguments(op) ==
  IF op \in {"index", "insert"} THEN Keys \X Values
  ELSE IF op \in {"find", "erase"} THEN Keys \X {None}
  ELSE {<<None, None>>}

\* A call that could outgrow the largest table of the model is not made.
Fits(delta) ==
  size(table) + num_deleted + delta
    < enlarge_size(HT_MIN_BUCKETS * 2^MaxDoublings)

Call(op) ==
  /\ pc = "idle"
  /\ op \in {"index", "insert"} => Fits(1)
  /\ \E a \in Arguments(op) : call' = [op |-> op, key |-> a[1], value |-> a[2]]
  /\ req_elements' \in IF op = "resize" THEN {n \in Requests : Fits(n)} ELSE {0}
  /\ pc' = op
  /\ result' = None
  /\ UNCHANGED <<table, num_deleted, settings, hash, slot, rehashed,
                 rehashVars>>

Return(value) ==
  /\ pc' = "idle"
  /\ call' = NoCall
  /\ req_elements' = 0
  /\ result' = value
  /\ slot' = NoSlot
  /\ rehashed' = FALSE
  /\ tmp' = Table(0)
  /\ it' = 0
  /\ resume' = "idle"
  /\ UNCHANGED hash

Key == call.key

------------------------------------------------------------------------------
(* Operations that do not rehash.                                          *)

Find ==
  /\ pc = "find"
  /\ Ends(table, Key)
  /\ Return(find(table, Key))
  /\ UNCHANGED <<table, num_deleted, settings>>

\* erase(key), and erase(iterator) of the element with the key.
EraseMissing ==
  /\ pc = "erase"
  /\ Ends(table, Key)
  /\ _find_position(table, Key).t # "full"
  /\ Return(FALSE)
  /\ UNCHANGED <<table, num_deleted, settings>>

Erase ==
  /\ pc = "erase"
  /\ Ends(table, Key)
  /\ \E pos \in {_find_position(table, Key)} :
       /\ pos.t = "full"
       /\ table' = table_erase(table, pos.idx)
  /\ num_deleted' = num_deleted + 1
  /\ settings' = [settings EXCEPT !.consider_shrink = TRUE]
  /\ Return(TRUE)

\* Whether clear has anything to clear.
OnlyItems == size(table) # 0
Cluttered == size(table) # 0 \/ num_deleted # 0

Clear ==
  /\ pc = "clear"
  /\ table' = IF Cluttered THEN Table(HT_DEFAULT_STARTING_BUCKETS) ELSE table
  /\ settings' = reset_thresholds(table'.size)
  /\ num_deleted' = 0
  /\ Return(None)

\* operator[] of a key that is there, and the assignment to what it returns.
Overwrite ==
  /\ pc = "index"
  /\ Ends(table, Key)
  /\ \E pos \in {_find_position(table, Key)} :
       /\ pos.t = "full"
       /\ table' = table_set(table, pos.idx, <<Key, call.value>>)
  /\ Return(None)
  /\ UNCHANGED <<num_deleted, settings>>

------------------------------------------------------------------------------
(* Rehashing: _resize_delta, _maybe_shrink, _move_from, _copy_from.        *)

\* Where a call that has to make room starts.
MakeRoom == pc' = IF settings.consider_shrink THEN "shrink" ELSE "grow"

\* operator[] of a key that is not there remembers where it would go.
IndexMissing ==
  /\ pc = "index"
  /\ Ends(table, Key)
  /\ _find_position(table, Key).t # "full"
  /\ slot' = _find_position(table, Key)
  /\ MakeRoom
  /\ UNCHANGED <<table, num_deleted, settings, hash, callVars, result, rehashed,
                 rehashVars>>

Insert ==
  /\ pc = "insert"
  /\ MakeRoom
  /\ UNCHANGED <<table, num_deleted, settings, hash, callVars, result, slot,
                 rehashed, rehashVars>>

Resize ==
  /\ pc = "resize"
  /\ pc' = IF settings.consider_shrink \/ req_elements = 0 THEN "shrink" ELSE "grow"
  /\ UNCHANGED <<table, num_deleted, settings, hash, callVars, result, slot,
                 rehashed, rehashVars>>

Rehash(buckets, then) ==
  /\ pc' = "move"
  /\ tmp' = Table(buckets)
  /\ it' = 0
  /\ resume' = then
  /\ rehashed' = TRUE
  /\ UNCHANGED <<table, num_deleted, settings, hash, callVars, result, slot>>

\* The size a nearly empty table shrinks to: halved until it is not.
NearlyEmpty(sz) == size(table) < shrink_size(sz)
ShrunkSize ==
  CHOOSE sz \in BucketCounts :
    /\ 2 * sz <= table.size /\ sz >= HT_DEFAULT_STARTING_BUCKETS
    /\ sz > HT_DEFAULT_STARTING_BUCKETS => ~NearlyEmpty(sz)
    /\ \A s \in BucketCounts : s > sz /\ 2 * s <= table.size => NearlyEmpty(s)

Shrinkable == /\ settings.shrink_threshold > 0
              /\ size(table) < settings.shrink_threshold
              /\ table.size > HT_DEFAULT_STARTING_BUCKETS

ShrinkWhileAble ==
  /\ pc = "shrink"
  /\ Shrinkable
  /\ Rehash(table.size, "shrink")

Shrink ==
  /\ pc = "shrink"
  /\ Shrinkable
  /\ Rehash(min_buckets(size(table), ShrunkSize), "grow")

DontShrink ==
  /\ pc = "shrink"
  /\ ~Shrinkable
  /\ pc' = "grow"
  /\ settings' = [settings EXCEPT !.consider_shrink = FALSE]
  /\ UNCHANGED <<table, num_deleted, hash, callVars, result, slot, rehashed,
                 rehashVars>>

\* The elements to make room for.  resize only grows.
Delta == IF call.op = "resize" THEN req_elements - size(table) ELSE 1

Needed == size(table) + num_deleted + Delta

RoomEnough ==
  \/ call.op = "resize" /\ Delta <= 0
  \/ table.size >= HT_MIN_BUCKETS /\ Needed <= settings.enlarge_threshold

\* Erased buckets count as occupied, and doubling is what drops them.
Grow ==
  /\ pc = "grow"
  /\ ~RoomEnough
  /\ Rehash(min_buckets(Needed, table.size), "place")

DontGrow ==
  /\ pc = "grow"
  /\ RoomEnough
  /\ pc' = "place"
  /\ UNCHANGED <<table, num_deleted, settings, hash, callVars, result, slot,
                 rehashed, rehashVars>>

\* _squash_deleted, which set_deleted_key and clear_deleted_key call.
Squash ==
  /\ pc = "squash"
  /\ num_deleted # 0
  /\ Rehash(IF table.size > HT_DEFAULT_STARTING_BUCKETS THEN table.size
            ELSE HT_DEFAULT_STARTING_BUCKETS, "place")

NothingToSquash ==
  /\ pc = "squash"
  /\ num_deleted = 0
  /\ Return(None)
  /\ UNCHANGED <<table, num_deleted, settings>>

\* The copy constructor; the copy is the map from then on.
Copy ==
  /\ pc = "copy"
  /\ Rehash(min_buckets(size(table), HT_DEFAULT_STARTING_BUCKETS), "place")

\* The next item of the old table goes to the first bucket that has none.
KeyAt(b) == unsafe_get(table, b)[1]
Ahead    == {b \in Full(table) : b >= it}
Free(k, n)  == ~test(tmp, Probe(tmp, k, n))
HasRoom(k)  == \E n \in 0..(tmp.size - 1) : Free(k, n)
Room(k) == Probe(tmp, k, Min({n \in 0..(tmp.size - 1) : Free(k, n)}))

Move ==
  /\ pc = "move"
  /\ \E from \in Ahead :
       /\ \A b \in Ahead : from <= b
       /\ HasRoom(KeyAt(from))
       /\ \E to \in {Room(KeyAt(from))} :
            tmp' = table_set(tmp, to, unsafe_get(table, from))
       /\ it' = from + 1
  /\ UNCHANGED <<table, num_deleted, settings, hash, pc, callVars, result, slot,
                 rehashed, resume>>

KeptDeleted    == num_deleted
DroppedDeleted == 0

\* swap(tmp)
Swap ==
  /\ pc = "move"
  /\ Ahead = {}
  /\ table' = tmp
  /\ num_deleted' = DroppedDeleted
  /\ settings' = reset_thresholds(tmp.size)
  /\ pc' = resume
  /\ tmp' = Table(0)
  /\ UNCHANGED <<hash, callVars, result, slot, rehashed, it, resume>>

------------------------------------------------------------------------------
(* The end of a call that may have rehashed.                               *)

\* The bucket found before is only good if nothing was rehashed since.
Target == IF call.op = "index" /\ ~rehashed
          THEN slot ELSE _find_position(table, Key)

Placing == pc = "place" /\ call.op \in {"index", "insert"}
           /\ (call.op = "insert" \/ rehashed => Ends(table, Key))

\* _insert_at
Place ==
  /\ Placing
  /\ \E pos \in {Target} :
       /\ pos.t # "full"
       /\ pos.t = "erased" => num_deleted > 0
       /\ table' = table_set(table, pos.idx, <<Key, call.value>>)
       /\ num_deleted' = num_deleted - (IF pos.t = "erased" THEN 1 ELSE 0)
  /\ Return(IF call.op = "insert" THEN TRUE ELSE None)
  /\ UNCHANGED settings

\* insert leaves a value that is there alone.
AlreadyThere ==
  /\ Placing
  /\ Target.t = "full"
  /\ Return(FALSE)
  /\ UNCHANGED <<table, num_deleted, settings>>

Reorganised ==
  /\ pc = "place"
  /\ call.op \in {"resize", "squash", "copy"}
  /\ Return(None)
  /\ UNCHANGED <<table, num_deleted, settings>>

------------------------------------------------------------------------------
Run ==
  \/ Find \/ EraseMissing \/ Erase \/ Clear \/ Overwrite \/ IndexMissing
  \/ Insert \/ Resize \/ Shrink \/ DontShrink \/ Grow \/ DontGrow \/ Squash
  \/ NothingToSquash \/ Copy \/ Move \/ Swap \/ Place \/ AlreadyThere
  \/ Reorganised

Next == Run \/ \E op \in Calls : Call(op)

Spec == Init /\ [][Next]_vars /\ WF_vars(Run)

\* operator=, from a map just constructed: num_deleted is the other map's, 0,
\* when clear looks at it.
Assign ==
  /\ pc = "idle"
  /\ table' = IF size(table) # 0 THEN Table(HT_DEFAULT_STARTING_BUCKETS)
              ELSE table
  /\ num_deleted' = 0
  /\ settings' = reset_thresholds(table'.size)
  /\ UNCHANGED <<hash, pc, callVars, result, slot, rehashed, rehashVars>>

AssignSpec == Init /\ [][Next \/ Assign]_vars

------------------------------------------------------------------------------
(* Properties.                                                             *)

Item == Keys \X Values
GroupOK(g) == /\ g.bitmap \subseteq Positions /\ g.erased \subseteq Positions
              /\ g.items \in Seq(Item) /\ g.alloc \in 0..GroupSize
TableOK(t) == /\ DOMAIN t.groups = 0..(num_groups(t.size) - 1)
              /\ \A k \in DOMAIN t.groups : GroupOK(t.groups[k])
              /\ t.num_buckets \in 0..t.size

(* The values of the variables; a table has a power of two of buckets,      *)
(* which is what makes "& (bucket_count - 1)" the modulo of the probes.     *)
TypeOK ==
  /\ TableOK(table) /\ table.size \in BucketCounts
  /\ TableOK(tmp) /\ tmp.size \in BucketCounts \cup {0}
  /\ num_deleted \in 0..table.size
  /\ settings \in [enlarge_threshold: Nat, shrink_threshold: Nat,
                   consider_shrink: BOOLEAN]
  /\ hash \in Hashes
  /\ pc \in Calls \cup {"idle", "shrink", "grow", "move", "place"}
  /\ call \in [op: Calls \cup {None}, key: Keys \cup {None},
              value: Values \cup {None}]
  /\ req_elements \in Requests \cup {0}
  /\ result \in Values \cup BOOLEAN \cup {None}
  /\ slot \in [t: {"none", "empty", "erased"}, idx: Buckets(table) \cup Nat]
  /\ rehashed \in BOOLEAN
  /\ it \in 0..(HT_MIN_BUCKETS * 2^MaxDoublings)
  /\ resume \in {"idle", "grow", "place"}

(* The counters agree with the bitmaps: num_deleted, which is kept by the   *)
(* table and the erased bits by the groups, is the number of erased         *)
(* buckets, num_buckets that of the full ones, the thresholds are those of  *)
(* the table's size, and what is occupied never exceeds the threshold.      *)
ErasedCounted ==
  /\ num_deleted = Cardinality(Erased(table))
  /\ table.num_buckets = Cardinality(Full(table))
  /\ settings.enlarge_threshold = enlarge_size(table.size)
  /\ table.num_buckets + num_deleted <= settings.enlarge_threshold

(* Every item is where a search for its key finds it: a probe of the key    *)
(* reaches its bucket over buckets that were never empty, and no other      *)
(* bucket holds the key.                                                    *)
StoredKeysFound ==
  \A b \in Full(table) :
    LET k == unsafe_get(table, b)[1]
    IN  /\ \E n \in 0..(table.size - 1) :
             /\ Probe(table, k, n) = b
             /\ \A m \in 0..(n - 1) : test_strict(table, Probe(table, k, m))
        /\ \A c \in Full(table) : unsafe_get(table, c)[1] = k => c = b

(* A group's array holds exactly the items of its bitmap, fits what was     *)
(* allocated for it, and offset_to_pos inverts pos_to_offset; no bucket is  *)
(* both full and erased.                                                    *)
Packed(g) ==
  /\ num_items(g) = Cardinality(g.bitmap)
  /\ num_items(g) <= g.alloc
  /\ g.bitmap \cap g.erased = {}
  /\ \A pos \in g.bitmap : offset_to_pos(g.bitmap, pos_to_offset(g.bitmap, pos)) = pos
GroupsPacked == \A t \in {table, tmp} : \A k \in DOMAIN t.groups : Packed(t.groups[k])

(* The assertions of the code: a search meets the key or an empty bucket,   *)
(* a rehash finds a bucket for every item, and num_deleted is not zero when *)
(* an erased bucket is taken.                                               *)
Searching == pc \in {"find", "erase", "index"}
             \/ (pc = "place" /\ (call.op = "insert" \/ rehashed)
                              /\ call.op \in {"index", "insert"})
AssertionsHold ==
  /\ Searching => Ends(table, Key)
  /\ pc = "move" =>
       \A b \in Ahead : HasRoom(KeyAt(b))
  /\ Placing /\ Target.t = "erased" => num_deleted > 0

(* One insertion rehashes at most once: having shrunk, the table has room   *)
(* for the element that is inserted.                                        *)
RehashOnce ==
  pc = "grow" /\ call.op \in {"index", "insert"} /\ rehashed => RoomEnough

(* The table implements a map: whatever is in the buckets, the caller sees  *)
(* the values last stored, through growth, shrinking, erasing and copying.  *)
Value(k) ==
  IF \E b \in Full(table) : KeyAt(b) = k
  THEN unsafe_get(table, CHOOSE b \in Full(table) : KeyAt(b) = k)[2] ELSE None

Abstract == INSTANCE Map WITH contents <- [k \in Keys |-> Value(k)],
                              request <- call
ImplementsMap == Abstract!Spec

(* A call never turns back: every step of it comes nearer to the end, or    *)
(* moves an item from further on in the old table.  So it rehashes at most  *)
(* twice, each time ends, and returns.                                      *)
Before(place) ==
  IF place = "idle" THEN 0
  ELSE IF place = "place" THEN 1
  ELSE IF place = "grow" THEN 3
  ELSE IF place = "shrink" THEN 5 ELSE 7
Distance == IF pc = "move" THEN Before(resume) + 1 ELSE Before(pc)
CallsAdvance ==
  [][pc # "idle" =>
       \/ Distance' < Distance
       \/ Distance' = Distance /\ table' = table /\ it < it' /\ it' <= table.size]_vars

(* Every call returns, if control goes on.                                  *)
CallsReturn == pc # "idle" ~> pc = "idle"
=============================================================================
