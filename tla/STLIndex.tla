------------------------------ MODULE STLIndex ------------------------------
(***************************************************************************)
(* The in-memory indexes (src/src/include/storage/index/stl_ordered.h,     *)
(* stl_unordered.h): data_ is a set of entries, at most one for a key.     *)
(* The two differ in when keys are the same: neither is less than the      *)
(* other for the std::map, same hash and comparator zero for the           *)
(* std::unordered_map.                                                     *)
(***************************************************************************)
EXTENDS Integers, SequencesExt

CONSTANTS Compare(_, _),  \* the comparator: negative, zero or positive
          Hash(_)

StlComparatorWrapper(lhs, rhs) == Compare(lhs, rhs) < 0

StlEqualWrapper(lhs, rhs) == Compare(lhs, rhs) = 0

StlHasherWrapper(key) == Hash(key)

SameKey(index_type, lhs, rhs) ==
    IF index_type = "STLOrderedIndex"
      THEN ~StlComparatorWrapper(lhs, rhs) /\ ~StlComparatorWrapper(rhs, lhs)
      ELSE StlHasherWrapper(lhs) = StlHasherWrapper(rhs) /\ StlEqualWrapper(lhs, rhs)

Find(index_type, data, key) == {e \in data : SameKey(index_type, e.key, key)}

\* A key that is there keeps its entry, and InsertEntry returns false.
InsertEntry(index_type, data, key, rid) ==
    IF Find(index_type, data, key) # {} THEN data
    ELSE data \cup {[key |-> key, rid |-> rid]}

\* The RID that is passed is not looked at.
DeleteEntry(index_type, data, key) == data \ Find(index_type, data, key)

ScanKey(index_type, data, key) == {e.rid : e \in Find(index_type, data, key)}

\* The entries an iterator of the ordered index yields, from the first
GetBeginIterator(data) ==
    SetToSortSeq(data, LAMBDA a, b : StlComparatorWrapper(a.key, b.key))

\* ... and from lower_bound(key)
GetBeginIteratorAt(data, key) ==
    GetBeginIterator({e \in data : ~StlComparatorWrapper(e.key, key)})

=============================================================================
