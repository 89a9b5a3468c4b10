------------------------- MODULE ArcReplacerLists ---------------------------
(***************************************************************************)
(* Facts about the lists and maps of ArcReplacer.                          *)
(*                                                                         *)
(* Listed ties a list to the set of its values.  Cached says that mru_,    *)
(* mfu_, alive_map_ and curr_size_ agree, Remembered says it of the ghost  *)
(* lists and ghost_map_, and Consistent joins the two; Bounded is the size *)
(* ARC allows the lists.  The lemmas say what each elementary change does  *)
(* to them, for plain values, before ArcReplacerSteps applies them to the  *)
(* record of the class.                                                    *)
(***************************************************************************)
EXTENDS ArcReplacer, FiniteSetTheorems, TLAPS

\* The provers' time limit, which includes the time tlapm needs on a long module.
USE SMTT(60)

\* An overwritten field has its new value. In the scope of every proof this also
\* keeps the SMT translation from inferring types: the translation tries that first
\* and gives it up at an update of a field, and what it has inferred is never
\* forgotten, so that in a module of this length each leaf takes longer than the last.
LEMMA FieldUpdate == \A r \in [curr_size : Nat] : [r EXCEPT !.curr_size = 0].curr_size = 0
  OBVIOUS

USE FieldUpdate

-----------------------------------------------------------------------------
(* Lists without repetition.                                               *)

\* l lists the elements of D, a subset of S, each once.
Listed(l, S, D) ==
    /\ l \in Seq(S) /\ D \subseteq S
    /\ \A i, j \in 1 .. Len(l) : l[i] = l[j] => i = j
    /\ \A i \in 1 .. Len(l) : l[i] \in D
    /\ \A x \in D : \E i \in 1 .. Len(l) : l[i] = x

\* Listed in the terms of the model.
LEMMA ListedDistinct ==
    ASSUME NEW S, NEW l \in Seq(S)
    PROVE  \A D : D \subseteq S => (Listed(l, S, D) <=> Distinct(l) /\ Range(l) = D)
  <1>1. DOMAIN l = 1 .. Len(l) /\ \A i \in 1 .. Len(l) : l[i] \in S OBVIOUS
  <1>2. QED BY <1>1 DEF Listed, Distinct, IsInjective, Range

\* The lists of an empty replacer.
LEMMA ListedEmpty ==
    ASSUME NEW S
    PROVE  Listed(<<>>, S, {})
  BY DEF Listed

\* push_back of a value that is not in the list.
LEMMA ListedAppend ==
    ASSUME NEW S, NEW D, NEW l, Listed(l, S, D), NEW x \in S \ D
    PROVE  Listed(Append(l, x), S, D \cup {x}) /\ Len(Append(l, x)) = Len(l) + 1
  <1>1. l \in Seq(S) /\ Len(l) \in Nat BY DEF Listed
  <1> DEFINE a == Append(l, x)
  <1>2. /\ a \in Seq(S) /\ Len(a) = Len(l) + 1
        /\ \A i \in 1 .. Len(l) : a[i] = l[i]
        /\ a[Len(l) + 1] = x
    BY <1>1
  <1> HIDE DEF a
  <1>3. \A i \in 1 .. Len(a) : i = Len(l) + 1 \/ i \in 1 .. Len(l) BY <1>1, <1>2
  <1>4. QED BY <1>1, <1>2, <1>3 DEF Listed, a

\* push_front of a value that is not in the list.
LEMMA ListedCons ==
    ASSUME NEW S, NEW D, NEW l, Listed(l, S, D), NEW x \in S \ D
    PROVE  Listed(<<x>> \o l, S, D \cup {x}) /\ Len(<<x>> \o l) = Len(l) + 1
  <1>1. l \in Seq(S) /\ Len(l) \in Nat BY DEF Listed
  <1> DEFINE a == <<x>> \o l
  <1>2. /\ a \in Seq(S) /\ Len(a) = Len(l) + 1
        /\ a[1] = x
        /\ \A i \in 1 .. Len(l) : a[i + 1] = l[i]
    BY <1>1
  <1> HIDE DEF a
  <1>3. \A i \in 1 .. Len(a) : i = 1 \/ (i - 1 \in 1 .. Len(l) /\ a[i] = l[i - 1])
    BY <1>1, <1>2
  <1>4. ASSUME NEW i \in 1 .. Len(a), NEW j \in 1 .. Len(a), a[i] = a[j] PROVE i = j
    <2>1. CASE i # 1 /\ j # 1
      <3>1. l[i - 1] = l[j - 1] /\ i - 1 \in 1 .. Len(l) /\ j - 1 \in 1 .. Len(l)
        BY <1>3, <1>4, <2>1
      <3>2. i - 1 = j - 1 BY <3>1 DEF Listed
      <3>3. QED BY <1>1, <1>2, <3>2
    <2>2. \A n \in 1 .. Len(a) : n # 1 => a[n] \in D BY <1>3 DEF Listed
    <2>3. QED BY <1>2, <1>4, <2>1, <2>2
  <1>5. \A i \in 1 .. Len(a) : a[i] \in D \cup {x} BY <1>2, <1>3 DEF Listed
  <1>6. ASSUME NEW y \in D \cup {x} PROVE \E i \in 1 .. Len(a) : a[i] = y
    <2>1. CASE y = x BY <1>1, <1>2, <2>1
    <2>2. CASE y \in D
      <3>1. PICK i \in 1 .. Len(l) : l[i] = y BY <2>2 DEF Listed
      <3>2. i + 1 \in 1 .. Len(a) /\ a[i + 1] = y BY <1>1, <1>2, <3>1
      <3>3. QED BY <3>2
    <2>3. QED BY <2>1, <2>2
  <1>7. QED BY <1>1, <1>2, <1>4, <1>5, <1>6 DEF Listed, a

\* A list without its k-th element.
LEMMA ListedWithout ==
    ASSUME NEW S, NEW D, NEW l, Listed(l, S, D), NEW k \in 1 .. Len(l), NEW r,
           r \in Seq(S), Len(r) = Len(l) - 1,
           \A i \in 1 .. Len(r) : r[i] = IF i < k THEN l[i] ELSE l[i + 1]
    PROVE  Listed(r, S, D \ {l[k]})
  <1>1. l \in Seq(S) /\ Len(l) \in Nat BY DEF Listed
  <1>2. \A i \in 1 .. Len(r) : /\ i < k => i \in 1 .. Len(l) /\ r[i] = l[i]
                               /\ i >= k => i + 1 \in 1 .. Len(l) /\ r[i] = l[i + 1]
    BY <1>1
  <1> DEFINE At(i) == IF i < k THEN i ELSE i + 1
  <1>3. ASSUME NEW i \in 1 .. Len(r), NEW j \in 1 .. Len(r), r[i] = r[j] PROVE i = j
    <2>1. l[At(i)] = l[At(j)] /\ At(i) \in 1 .. Len(l) /\ At(j) \in 1 .. Len(l)
      BY <1>1, <1>2, <1>3
    <2>2. At(i) = At(j) BY <2>1 DEF Listed
    <2>3. QED BY <2>2
  <1>4. \A i \in 1 .. Len(r) : r[i] \in D \ {l[k]} BY <1>1, <1>2 DEF Listed
  <1>5. ASSUME NEW y \in D \ {l[k]} PROVE \E i \in 1 .. Len(r) : r[i] = y
    <2>1. PICK i \in 1 .. Len(l) : l[i] = y BY DEF Listed
    <2>2. i # k BY <2>1
    <2>3. CASE i < k BY <1>1, <2>1, <2>3
    <2>4. CASE i > k
      <3>1. i - 1 \in 1 .. Len(r) /\ ~(i - 1 < k) /\ (i - 1) + 1 = i BY <1>1, <2>4
      <3>2. QED BY <2>1, <3>1, Zenon
    <2>5. QED BY <1>1, <2>2, <2>3, <2>4
  <1>6. QED BY <1>3, <1>4, <1>5 DEF Listed

\* erase through the stored iterator removes the value and shortens the list
\* by one.
LEMMA ListedUnlinked ==
    ASSUME NEW S, NEW D, NEW l, Listed(l, S, D), NEW x \in D
    PROVE  Listed(Unlinked(l, x), S, D \ {x}) /\ Len(Unlinked(l, x)) = Len(l) - 1
  <1>1. l \in Seq(S) /\ Len(l) \in Nat /\ DOMAIN l = 1 .. Len(l) BY DEF Listed
  <1> DEFINE k == CHOOSE i \in DOMAIN l : l[i] = x
             r == [i \in 1 .. Len(l) - 1 |-> l[IF i < k THEN i ELSE i + 1]]
  <1>2. k \in 1 .. Len(l) /\ l[k] = x BY <1>1 DEF Listed
  <1> HIDE DEF k
  <1>3. Len(l) - 1 \in Nat /\ \A i \in 1 .. Len(l) - 1 : l[IF i < k THEN i ELSE i + 1] \in S
    BY <1>1, <1>2
  <1>4. r \in Seq(S) /\ Len(r) = Len(l) - 1 BY <1>3
  <1>5. \A i \in 1 .. Len(r) : r[i] = IF i < k THEN l[i] ELSE l[i + 1] BY <1>4, Zenon
  <1>6. Unlinked(l, x) = r BY DEF Unlinked, k
  <1> HIDE DEF r
  <1>7. QED BY <1>2, <1>4, <1>5, <1>6, ListedWithout

\* pop_front removes the front value.
LEMMA ListedTail ==
    ASSUME NEW S, NEW D, NEW l, Listed(l, S, D), l # <<>>
    PROVE  /\ Listed(Tail(l), S, D \ {Head(l)}) /\ Len(Tail(l)) = Len(l) - 1 /\ Head(l) \in D
           /\ Len(l) > 0
  <1>1. l \in Seq(S) /\ Len(l) \in Nat /\ Len(l) > 0 /\ 1 \in 1 .. Len(l) BY DEF Listed
  <1>2. Head(l) = l[1] /\ l[1] \in D BY <1>1 DEF Listed
  <1>3. /\ Tail(l) \in Seq(S) /\ Len(Tail(l)) = Len(l) - 1
        /\ \A i \in 1 .. Len(Tail(l)) : Tail(l)[i] = l[i + 1]
    BY <1>1
  <1>4. \A i \in 1 .. Len(Tail(l)) : ~(i < 1) BY <1>1, <1>3
  <1>5. Listed(Tail(l), S, D \ {l[1]}) BY <1>1, <1>3, <1>4, ListedWithout, Zenon
  <1>6. QED BY <1>1, <1>2, <1>3, <1>5

\* pop_back removes the back value.
LEMMA ListedFront ==
    ASSUME NEW S, NEW D, NEW l, Listed(l, S, D), l # <<>>
    PROVE  LET front == SubSeq(l, 1, Len(l) - 1)
           IN  /\ Listed(front, S, D \ {l[Len(l)]}) /\ Len(front) = Len(l) - 1
               /\ l[Len(l)] \in D /\ Len(l) > 0
  <1>1. l \in Seq(S) /\ Len(l) \in Nat /\ Len(l) > 0 /\ Len(l) \in 1 .. Len(l) BY DEF Listed
  <1>2. l[Len(l)] \in D BY <1>1 DEF Listed
  <1> DEFINE n == Len(l) - 1
             r == SubSeq(l, 1, n)
  <1>3. n \in Nat /\ \A i \in 1 .. n : l[i] \in S /\ i < Len(l) BY <1>1
  <1> HIDE DEF n
  <1>4. r \in Seq(S) /\ Len(r) = n /\ \A i \in 1 .. n : r[i] = l[i] BY <1>3
  <1> HIDE DEF r
  <1>5. \A i \in 1 .. Len(r) : r[i] = IF i < Len(l) THEN l[i] ELSE l[i + 1] BY <1>3, <1>4
  <1>6. Len(r) = Len(l) - 1 BY <1>4 DEF n
  <1>7. Listed(r, S, D \ {l[Len(l)]}) BY <1>1, <1>4, <1>5, <1>6, ListedWithout, Zenon
  <1>8. QED BY <1>1, <1>2, <1>6, <1>7 DEF r, n

\* The length of a list is the number of its elements.
LEMMA ListedLength ==
    ASSUME NEW S, NEW D, NEW l, Listed(l, S, D)
    PROVE  IsFiniteSet(D) /\ Cardinality(D) = Len(l) /\ Len(l) \in Nat
  <1>1. l \in Seq(S) /\ Len(l) \in Nat /\ l \in [1 .. Len(l) -> S] BY DEF Listed
  <1>2. l \in Bijection(1 .. Len(l), D)
    BY <1>1 DEF Listed, Bijection, Injection, Surjection, IsInjective
  <1>3. ExistsBijection(1 .. Len(l), D) BY <1>2 DEF ExistsBijection
  <1>4. IsFiniteSet(D) BY <1>1, <1>3, FS_NatBijection
  <1>5. QED BY <1>1, <1>3, <1>4, FS_CountingElements

-----------------------------------------------------------------------------
(* The cached pages: mru_, mfu_, alive_map_ and curr_size_.                *)

WithStatus(am, status) == {f \in DOMAIN am : am[f].status = status}
EvictableIn(am) == {f \in DOMAIN am : am[f].evictable}

Cached(mru, mfu, am, size) ==
    /\ IsMap(am, Frames, AliveEntry)
    /\ Listed(mru, Frames, WithStatus(am, "MRU"))
    /\ Listed(mfu, Frames, WithStatus(am, "MFU"))
    /\ size = Cardinality(EvictableIn(am))
    /\ \A f, g \in DOMAIN am : am[f].page = am[g].page => f = g

\* What Cached says of sizes: mru_ and mfu_ share the frames of alive_map_ out
\* between them.
LEMMA CachedTypes ==
    ASSUME NEW mru, NEW mfu, NEW am, NEW size, Cached(mru, mfu, am, size)
    PROVE  /\ IsFiniteSet(DOMAIN am) /\ IsFiniteSet(EvictableIn(am)) /\ size \in Nat
           /\ DOMAIN am = WithStatus(am, "MRU") \cup WithStatus(am, "MFU")
           /\ WithStatus(am, "MRU") \cap WithStatus(am, "MFU") = {}
           /\ Len(mru) + Len(mfu) = Cardinality(DOMAIN am)
           /\ \A f \in DOMAIN am : am[f] \in AliveEntry
  <1>1. DOMAIN am \subseteq Frames /\ \A f \in DOMAIN am : am[f] \in AliveEntry
    BY DEF Cached, IsMap
  <1>2. IsFiniteSet(DOMAIN am) /\ IsFiniteSet(EvictableIn(am))
    BY <1>1, ArcAssumption, FS_Subset DEF EvictableIn
  <1>3. size \in Nat BY <1>2, FS_CardinalityType DEF Cached
  <1>4. DOMAIN am = WithStatus(am, "MRU") \cup WithStatus(am, "MFU")
    BY <1>1 DEF WithStatus, AliveEntry
  <1>5. WithStatus(am, "MRU") \cap WithStatus(am, "MFU") = {} BY DEF WithStatus
  <1> DEFINE A == WithStatus(am, "MRU")
             B == WithStatus(am, "MFU")
  <1>6. /\ IsFiniteSet(A) /\ Cardinality(A) = Len(mru) /\ Len(mru) \in Nat
        /\ IsFiniteSet(B) /\ Cardinality(B) = Len(mfu) /\ Len(mfu) \in Nat
    BY ListedLength DEF Cached
  <1>7. A \cap B = {} BY <1>5
  <1> HIDE DEF A, B
  <1>8. Cardinality(A \cup B) = Cardinality(A) + Cardinality(B) - Cardinality({})
    BY <1>6, <1>7, FS_Union
  <1>9. Cardinality(A \cup B) = Len(mru) + Len(mfu) BY <1>6, <1>8, FS_EmptySet
  <1>10. QED BY <1>1, <1>2, <1>3, <1>4, <1>5, <1>9 DEF A, B

\* InsertToMru and InsertToMfu.
LEMMA CachedInsert ==
    ASSUME NEW mru, NEW mfu, NEW am, NEW size, Cached(mru, mfu, am, size),
           NEW f \in Frames \ DOMAIN am, NEW p \in Pages,
           \A g \in DOMAIN am : am[g].page # p
    PROVE  /\ Cached(Append(mru, f), mfu, Put(am, f, NewEntry(p, "MRU")), size)
           /\ Cached(mru, <<f>> \o mfu, Put(am, f, NewEntry(p, "MFU")), size)
  <1>1. /\ DOMAIN am \subseteq Frames /\ \A g \in DOMAIN am : am[g] \in AliveEntry
        /\ f \notin WithStatus(am, "MRU") /\ f \notin WithStatus(am, "MFU")
    BY DEF Cached, IsMap, WithStatus
  <1>2. ASSUME NEW status \in {"MRU", "MFU"}
        PROVE  LET e == NewEntry(p, status)
                   m == Put(am, f, e)
               IN  /\ IsMap(m, Frames, AliveEntry)
                   /\ EvictableIn(m) = EvictableIn(am)
                   /\ \A g, h \in DOMAIN m : m[g].page = m[h].page => g = h
                   /\ \A s \in {"MRU", "MFU"} :
                        WithStatus(m, s) = WithStatus(am, s) \cup (IF s = status THEN {f} ELSE {})
    <2> DEFINE e == NewEntry(p, status)
               m == Put(am, f, e)
    <2>1. e \in AliveEntry /\ e.status = status /\ e.evictable = FALSE /\ e.page = p
      BY DEF NewEntry, AliveEntry
    <2> HIDE DEF e
    <2>2. /\ DOMAIN m = DOMAIN am \cup {f} /\ m[f] = e
          /\ \A g \in DOMAIN am : m[g] = am[g]
          /\ m \in [DOMAIN m -> AliveEntry]
      BY <1>1, <2>1 DEF Put
    <2> HIDE DEF m
    <2>3. IsMap(m, Frames, AliveEntry) BY <1>1, <2>2 DEF IsMap
    <2>4. EvictableIn(m) = EvictableIn(am) BY <2>1, <2>2 DEF EvictableIn
    <2>5. \A g, h \in DOMAIN m : m[g].page = m[h].page => g = h
      BY <2>1, <2>2 DEF Cached
    <2>6. \A s \in {"MRU", "MFU"} :
            WithStatus(m, s) = WithStatus(am, s) \cup (IF s = status THEN {f} ELSE {})
      BY <2>1, <2>2 DEF WithStatus
    <2>7. QED BY <2>3, <2>4, <2>5, <2>6 DEF m, e
  <1>3. /\ Listed(Append(mru, f), Frames, WithStatus(am, "MRU") \cup {f})
        /\ Listed(<<f>> \o mfu, Frames, WithStatus(am, "MFU") \cup {f})
    BY <1>1, ListedAppend, ListedCons DEF Cached
  <1>4. Cached(Append(mru, f), mfu, Put(am, f, NewEntry(p, "MRU")), size)
    <2> DEFINE m == Put(am, f, NewEntry(p, "MRU"))
    <2>1. WithStatus(m, "MRU") = WithStatus(am, "MRU") \cup {f} /\ WithStatus(m, "MFU") = WithStatus(am, "MFU")
      BY <1>2
    <2>2. /\ IsMap(m, Frames, AliveEntry) /\ EvictableIn(m) = EvictableIn(am)
          /\ \A g, h \in DOMAIN m : m[g].page = m[h].page => g = h
      BY <1>2
    <2> HIDE DEF m
    <2>3. Cached(Append(mru, f), mfu, m, size) BY <1>3, <2>1, <2>2, Zenon DEF Cached
    <2>4. QED BY <2>3 DEF m
  <1>5. Cached(mru, <<f>> \o mfu, Put(am, f, NewEntry(p, "MFU")), size)
    <2> DEFINE m == Put(am, f, NewEntry(p, "MFU"))
    <2>1. WithStatus(m, "MFU") = WithStatus(am, "MFU") \cup {f} /\ WithStatus(m, "MRU") = WithStatus(am, "MRU")
      BY <1>2
    <2>2. /\ IsMap(m, Frames, AliveEntry) /\ EvictableIn(m) = EvictableIn(am)
          /\ \A g, h \in DOMAIN m : m[g].page = m[h].page => g = h
      BY <1>2
    <2> HIDE DEF m
    <2>3. Cached(mru, <<f>> \o mfu, m, size) BY <1>3, <2>1, <2>2, Zenon DEF Cached
    <2>4. QED BY <2>3 DEF m
  <1>6. QED BY <1>4, <1>5

\* Erasing an entry, as Remove, the evictions and a frame reused for another
\* page do.
LEMMA CachedErase ==
    ASSUME NEW mru, NEW mfu, NEW am, NEW size, Cached(mru, mfu, am, size), NEW f \in DOMAIN am
    PROVE  Cached(IF am[f].status = "MRU" THEN Unlinked(mru, f) ELSE mru,
                  IF am[f].status = "MRU" THEN mfu ELSE Unlinked(mfu, f),
                  Erase(am, f), IF am[f].evictable THEN size - 1 ELSE size)
  <1> DEFINE m == Erase(am, f)
             mru1 == IF am[f].status = "MRU" THEN Unlinked(mru, f) ELSE mru
             mfu1 == IF am[f].status = "MRU" THEN mfu ELSE Unlinked(mfu, f)
             size1 == IF am[f].evictable THEN size - 1 ELSE size
  <1>1. /\ DOMAIN am \subseteq Frames /\ \A g \in DOMAIN am : am[g] \in AliveEntry
        /\ am[f].status \in {"MRU", "MFU"}
    BY DEF Cached, IsMap, AliveEntry
  <1>2. /\ DOMAIN m = DOMAIN am \ {f} /\ \A g \in DOMAIN m : m[g] = am[g]
        /\ m \in [DOMAIN m -> AliveEntry]
    BY <1>1 DEF Erase
  <1> HIDE DEF m
  <1>3. IsMap(m, Frames, AliveEntry) BY <1>1, <1>2 DEF IsMap
  <1>4. size1 = Cardinality(EvictableIn(m))
    <2>1. EvictableIn(m) = EvictableIn(am) \ {f} BY <1>2 DEF EvictableIn
    <2>2. f \in EvictableIn(am) <=> am[f].evictable BY DEF EvictableIn
    <2>3. IsFiniteSet(EvictableIn(am)) /\ size = Cardinality(EvictableIn(am))
      BY CachedTypes, Zenon DEF Cached
    <2>4. QED BY <2>1, <2>2, <2>3, FS_RemoveElement, Zenon
  <1>5. \A g, h \in DOMAIN m : m[g].page = m[h].page => g = h BY <1>2 DEF Cached
  <1>6. \A s \in {"MRU", "MFU"} : WithStatus(m, s) = WithStatus(am, s) \ {f}
    BY <1>2 DEF WithStatus
  <1>7. Listed(mru1, Frames, WithStatus(m, "MRU")) /\ Listed(mfu1, Frames, WithStatus(m, "MFU"))
    <2>1. CASE am[f].status = "MRU"
      <3>1. f \in WithStatus(am, "MRU") /\ f \notin WithStatus(am, "MFU") BY <2>1 DEF WithStatus
      <3>2. Listed(mru1, Frames, WithStatus(am, "MRU") \ {f}) BY <2>1, <3>1, ListedUnlinked DEF Cached
      <3>3. WithStatus(am, "MFU") \ {f} = WithStatus(am, "MFU") /\ mfu1 = mfu BY <2>1, <3>1
      <3>4. QED BY <1>6, <3>2, <3>3 DEF Cached
    <2>2. CASE am[f].status = "MFU"
      <3>1. f \in WithStatus(am, "MFU") /\ f \notin WithStatus(am, "MRU") BY <2>2 DEF WithStatus
      <3>2. Listed(mfu1, Frames, WithStatus(am, "MFU") \ {f}) BY <2>2, <3>1, ListedUnlinked DEF Cached
      <3>3. WithStatus(am, "MRU") \ {f} = WithStatus(am, "MRU") /\ mru1 = mru BY <2>2, <3>1
      <3>4. QED BY <1>6, <3>2, <3>3, Zenon DEF Cached
    <2>3. QED BY <1>1, <2>1, <2>2
  <1> HIDE DEF mru1, mfu1, size1
  <1>8. Cached(mru1, mfu1, m, size1) BY <1>3, <1>4, <1>5, <1>7 DEF Cached
  <1>9. QED BY <1>8 DEF m, mru1, mfu1, size1

\* MoveAliveToMfu and MoveAliveToMru: the entry leaves its list for one end of
\* the other, or of the same.
LEMMA CachedMove ==
    ASSUME NEW mru, NEW mfu, NEW am, NEW size, Cached(mru, mfu, am, size), NEW f \in DOMAIN am
    PROVE  LET mru1 == IF am[f].status = "MRU" THEN Unlinked(mru, f) ELSE mru
               mfu1 == IF am[f].status = "MRU" THEN mfu ELSE Unlinked(mfu, f)
           IN  /\ Cached(mru1, <<f>> \o mfu1, [am EXCEPT ![f].status = "MFU"], size)
               /\ Cached(Append(mru1, f), mfu1, [am EXCEPT ![f].status = "MRU"], size)
  <1> DEFINE mru1 == IF am[f].status = "MRU" THEN Unlinked(mru, f) ELSE mru
             mfu1 == IF am[f].status = "MRU" THEN mfu ELSE Unlinked(mfu, f)
             M(status) == [am EXCEPT ![f].status = status]
  <1>1. /\ DOMAIN am \subseteq Frames /\ \A g \in DOMAIN am : am[g] \in AliveEntry
        /\ am[f].status \in {"MRU", "MFU"} /\ am \in [DOMAIN am -> AliveEntry]
    BY DEF Cached, IsMap, AliveEntry
  <1>2. /\ Listed(mru1, Frames, WithStatus(am, "MRU") \ {f})
        /\ Listed(mfu1, Frames, WithStatus(am, "MFU") \ {f})
    <2>1. CASE am[f].status = "MRU"
      <3>1. f \in WithStatus(am, "MRU") /\ f \notin WithStatus(am, "MFU") BY <2>1 DEF WithStatus
      <3>2. Listed(mru1, Frames, WithStatus(am, "MRU") \ {f}) BY <2>1, <3>1, ListedUnlinked DEF Cached
      <3>3. WithStatus(am, "MFU") \ {f} = WithStatus(am, "MFU") /\ mfu1 = mfu BY <2>1, <3>1
      <3>4. QED BY <3>2, <3>3 DEF Cached
    <2>2. CASE am[f].status = "MFU"
      <3>1. f \in WithStatus(am, "MFU") /\ f \notin WithStatus(am, "MRU") BY <2>2 DEF WithStatus
      <3>2. Listed(mfu1, Frames, WithStatus(am, "MFU") \ {f}) BY <2>2, <3>1, ListedUnlinked DEF Cached
      <3>3. WithStatus(am, "MRU") \ {f} = WithStatus(am, "MRU") /\ mru1 = mru BY <2>2, <3>1
      <3>4. QED BY <3>2, <3>3 DEF Cached
    <2>3. QED BY <1>1, <2>1, <2>2
  <1> HIDE DEF mru1, mfu1
  <1>3. /\ Listed(Append(mru1, f), Frames, (WithStatus(am, "MRU") \ {f}) \cup {f})
        /\ Listed(<<f>> \o mfu1, Frames, (WithStatus(am, "MFU") \ {f}) \cup {f})
    BY <1>1, <1>2, ListedAppend, ListedCons
  <1>4. ASSUME NEW status \in {"MRU", "MFU"}
        PROVE  /\ IsMap(M(status), Frames, AliveEntry)
               /\ size = Cardinality(EvictableIn(M(status)))
               /\ \A g, h \in DOMAIN M(status) : M(status)[g].page = M(status)[h].page => g = h
               /\ \A s \in {"MRU", "MFU"} :
                     WithStatus(M(status), s) =
                       (WithStatus(am, s) \ {f}) \cup (IF s = status THEN {f} ELSE {})
    <2> DEFINE m == M(status)
    <2>1. /\ DOMAIN m = DOMAIN am /\ \A g \in DOMAIN am \ {f} : m[g] = am[g]
          /\ m[f].status = status /\ m[f].page = am[f].page /\ m[f].evictable = am[f].evictable
          /\ m \in [DOMAIN m -> AliveEntry]
      BY <1>1 DEF AliveEntry
    <2> HIDE DEF m
    <2>2. IsMap(m, Frames, AliveEntry) BY <1>1, <2>1 DEF IsMap
    <2>3. EvictableIn(m) = EvictableIn(am) BY <2>1 DEF EvictableIn
    <2>4. \A g \in DOMAIN am : m[g].page = am[g].page BY <2>1
    <2>5. \A g, h \in DOMAIN m : m[g].page = m[h].page => g = h BY <2>1, <2>4 DEF Cached
    <2>6. \A s \in {"MRU", "MFU"} : WithStatus(m, s) =
                       (WithStatus(am, s) \ {f}) \cup (IF s = status THEN {f} ELSE {})
      BY <2>1 DEF WithStatus
    <2>7. size = Cardinality(EvictableIn(m)) BY <2>3 DEF Cached
    <2>8. QED BY <2>2, <2>5, <2>6, <2>7, Zenon DEF m
  <1> HIDE DEF M
  <1>5. Cached(mru1, <<f>> \o mfu1, M("MFU"), size)
    <2>1. /\ WithStatus(M("MFU"), "MRU") = WithStatus(am, "MRU") \ {f}
          /\ WithStatus(M("MFU"), "MFU") = (WithStatus(am, "MFU") \ {f}) \cup {f}
      BY <1>4
    <2>2. QED BY <1>2, <1>3, <1>4, <2>1, Zenon DEF Cached
  <1>6. Cached(Append(mru1, f), mfu1, M("MRU"), size)
    <2>1. /\ WithStatus(M("MRU"), "MRU") = (WithStatus(am, "MRU") \ {f}) \cup {f}
          /\ WithStatus(M("MRU"), "MFU") = WithStatus(am, "MFU") \ {f}
      BY <1>4
    <2>2. QED BY <1>2, <1>3, <1>4, <2>1, Zenon DEF Cached
  <1>7. QED BY <1>5, <1>6 DEF M, mru1, mfu1

\* SetEvictable.
LEMMA CachedSetEvictable ==
    ASSUME NEW mru, NEW mfu, NEW am, NEW size, Cached(mru, mfu, am, size), NEW f \in DOMAIN am,
           NEW b \in BOOLEAN, am[f].evictable # b
    PROVE  Cached(mru, mfu, [am EXCEPT ![f].evictable = b], IF b THEN size + 1 ELSE size - 1)
  <1> DEFINE m == [am EXCEPT ![f].evictable = b]
  <1>1. /\ DOMAIN am \subseteq Frames /\ \A g \in DOMAIN am : am[g] \in AliveEntry
        /\ am \in [DOMAIN am -> AliveEntry]
    BY DEF Cached, IsMap
  <1>2. /\ DOMAIN m = DOMAIN am /\ \A g \in DOMAIN am \ {f} : m[g] = am[g]
        /\ m[f].status = am[f].status /\ m[f].page = am[f].page /\ m[f].evictable = b
        /\ m \in [DOMAIN m -> AliveEntry] /\ am[f].evictable \in BOOLEAN
    BY <1>1 DEF AliveEntry
  <1> HIDE DEF m
  <1>3. IsMap(m, Frames, AliveEntry) BY <1>1, <1>2 DEF IsMap
  <1>4. \A s : WithStatus(m, s) = WithStatus(am, s) BY <1>2 DEF WithStatus
  <1>5. \A g \in DOMAIN am : m[g].page = am[g].page BY <1>2
  <1>6. \A g, h \in DOMAIN m : m[g].page = m[h].page => g = h BY <1>2, <1>5 DEF Cached
  <1>7. (IF b THEN size + 1 ELSE size - 1) = Cardinality(EvictableIn(m))
    <2>1. IsFiniteSet(EvictableIn(am)) /\ size = Cardinality(EvictableIn(am))
      BY CachedTypes, Zenon DEF Cached
    <2>2. CASE b
      <3>1. EvictableIn(m) = EvictableIn(am) \cup {f} /\ f \notin EvictableIn(am)
        BY <1>2, <2>2, Zenon DEF EvictableIn
      <3>2. QED BY <2>1, <2>2, <3>1, FS_AddElement
    <2>3. CASE ~b
      <3>1. EvictableIn(m) = EvictableIn(am) \ {f} /\ f \in EvictableIn(am)
        BY <1>2, <2>3 DEF EvictableIn
      <3>2. QED BY <2>1, <2>3, <3>1, FS_RemoveElement, Zenon
    <2>4. QED BY <2>2, <2>3
  <1>8. QED BY <1>3, <1>4, <1>6, <1>7, Zenon DEF Cached, m

-----------------------------------------------------------------------------
(* The ghosts: mru_ghost_, mfu_ghost_ and ghost_map_.                      *)

GhostsOf(gm, status) == {p \in DOMAIN gm : gm[p] = status}

Remembered(mru_ghost, mfu_ghost, gm) ==
    /\ IsMap(gm, Pages, {"MRU_GHOST", "MFU_GHOST"})
    /\ Listed(mru_ghost, Pages, GhostsOf(gm, "MRU_GHOST"))
    /\ Listed(mfu_ghost, Pages, GhostsOf(gm, "MFU_GHOST"))

\* Forgetting a ghost.
LEMMA ForgetGhost ==
    ASSUME NEW g1, NEW g2, NEW gm, Remembered(g1, g2, gm), NEW p \in DOMAIN gm, NEW r1, NEW r2,
           Listed(r1, Pages, GhostsOf(gm, "MRU_GHOST") \ {p}),
           Listed(r2, Pages, GhostsOf(gm, "MFU_GHOST") \ {p})
    PROVE  Remembered(r1, r2, Erase(gm, p))
  <1> DEFINE m == Erase(gm, p)
  <1>1. /\ DOMAIN gm \subseteq Pages /\ \A q \in DOMAIN gm : gm[q] \in {"MRU_GHOST", "MFU_GHOST"}
    BY DEF Remembered, IsMap
  <1>2. /\ DOMAIN m = DOMAIN gm \ {p} /\ \A q \in DOMAIN m : m[q] = gm[q]
        /\ m \in [DOMAIN m -> {"MRU_GHOST", "MFU_GHOST"}]
    BY <1>1 DEF Erase
  <1> HIDE DEF m
  <1>3. \A s \in {"MRU_GHOST", "MFU_GHOST"} : GhostsOf(m, s) = GhostsOf(gm, s) \ {p}
    BY <1>2 DEF GhostsOf
  <1>4. IsMap(m, Pages, {"MRU_GHOST", "MFU_GHOST"}) BY <1>1, <1>2 DEF IsMap
  <1>5. Remembered(r1, r2, m) BY <1>3, <1>4 DEF Remembered
  <1>6. QED BY <1>5 DEF m

\* RemoveGhostEntry.
LEMMA RememberedErase ==
    ASSUME NEW g1, NEW g2, NEW gm, Remembered(g1, g2, gm), NEW p \in DOMAIN gm
    PROVE  LET r1 == IF gm[p] = "MRU_GHOST" THEN Unlinked(g1, p) ELSE g1
               r2 == IF gm[p] = "MRU_GHOST" THEN g2 ELSE Unlinked(g2, p)
           IN  /\ Remembered(r1, r2, Erase(gm, p))
               /\ Len(r1) <= Len(g1) /\ Len(r1) + Len(r2) = Len(g1) + Len(g2) - 1
  <1> DEFINE r1 == IF gm[p] = "MRU_GHOST" THEN Unlinked(g1, p) ELSE g1
             r2 == IF gm[p] = "MRU_GHOST" THEN g2 ELSE Unlinked(g2, p)
  <1>1. gm[p] \in {"MRU_GHOST", "MFU_GHOST"} BY DEF Remembered, IsMap
  <1>2. Len(g1) \in Nat /\ Len(g2) \in Nat BY ListedLength DEF Remembered
  <1>3. /\ Listed(r1, Pages, GhostsOf(gm, "MRU_GHOST") \ {p})
        /\ Listed(r2, Pages, GhostsOf(gm, "MFU_GHOST") \ {p})
        /\ Len(r1) <= Len(g1) /\ Len(r1) + Len(r2) = Len(g1) + Len(g2) - 1
    <2>1. CASE gm[p] = "MRU_GHOST"
      <3>1. p \in GhostsOf(gm, "MRU_GHOST") /\ p \notin GhostsOf(gm, "MFU_GHOST") BY <2>1 DEF GhostsOf
      <3>2. Listed(r1, Pages, GhostsOf(gm, "MRU_GHOST") \ {p}) /\ Len(r1) = Len(g1) - 1
        BY <2>1, <3>1, ListedUnlinked DEF Remembered
      <3>3. GhostsOf(gm, "MFU_GHOST") \ {p} = GhostsOf(gm, "MFU_GHOST") /\ r2 = g2 BY <2>1, <3>1
      <3> HIDE DEF r1, r2
      <3>4. Listed(r2, Pages, GhostsOf(gm, "MFU_GHOST") \ {p}) BY <3>3 DEF Remembered
      <3>5. Len(r1) <= Len(g1) /\ Len(r1) + Len(r2) = Len(g1) + Len(g2) - 1 BY <1>2, <3>2, <3>3
      <3>6. QED BY <3>2, <3>4, <3>5
    <2>2. CASE gm[p] = "MFU_GHOST"
      <3>1. p \in GhostsOf(gm, "MFU_GHOST") /\ p \notin GhostsOf(gm, "MRU_GHOST") BY <2>2 DEF GhostsOf
      <3>2. Listed(r2, Pages, GhostsOf(gm, "MFU_GHOST") \ {p}) /\ Len(r2) = Len(g2) - 1
        BY <2>2, <3>1, ListedUnlinked DEF Remembered
      <3>3. GhostsOf(gm, "MRU_GHOST") \ {p} = GhostsOf(gm, "MRU_GHOST") /\ r1 = g1 BY <2>2, <3>1
      <3> HIDE DEF r1, r2
      <3>4. Listed(r1, Pages, GhostsOf(gm, "MRU_GHOST") \ {p}) BY <3>3 DEF Remembered
      <3>5. Len(r1) <= Len(g1) /\ Len(r1) + Len(r2) = Len(g1) + Len(g2) - 1 BY <1>2, <3>2, <3>3
      <3>6. QED BY <3>2, <3>4, <3>5
    <2>3. QED BY <1>1, <2>1, <2>2
  <1> HIDE DEF r1, r2
  <1>4. Remembered(r1, r2, Erase(gm, p)) BY <1>3, ForgetGhost
  <1>5. QED BY <1>3, <1>4 DEF r1, r2

\* TrimGhosts: the oldest ghost of a list goes.
LEMMA RememberedTrim ==
    ASSUME NEW g1, NEW g2, NEW gm, Remembered(g1, g2, gm)
    PROVE  /\ g1 # <<>> => /\ Remembered(Tail(g1), g2, Erase(gm, Head(g1)))
                           /\ Head(g1) \in DOMAIN gm /\ Len(Tail(g1)) = Len(g1) - 1
           /\ g2 # <<>> => /\ Remembered(g1, SubSeq(g2, 1, Len(g2) - 1), Erase(gm, g2[Len(g2)]))
                           /\ g2[Len(g2)] \in DOMAIN gm
                           /\ Len(SubSeq(g2, 1, Len(g2) - 1)) = Len(g2) - 1
  <1>1. ASSUME g1 # <<>>
        PROVE  /\ Remembered(Tail(g1), g2, Erase(gm, Head(g1)))
               /\ Head(g1) \in DOMAIN gm /\ Len(Tail(g1)) = Len(g1) - 1
    <2>1. /\ Listed(Tail(g1), Pages, GhostsOf(gm, "MRU_GHOST") \ {Head(g1)})
          /\ Head(g1) \in GhostsOf(gm, "MRU_GHOST") /\ Len(Tail(g1)) = Len(g1) - 1
      BY <1>1, ListedTail DEF Remembered
    <2>2. /\ GhostsOf(gm, "MFU_GHOST") \ {Head(g1)} = GhostsOf(gm, "MFU_GHOST")
          /\ Head(g1) \in DOMAIN gm
      BY <2>1 DEF GhostsOf
    <2>3. Listed(g2, Pages, GhostsOf(gm, "MFU_GHOST") \ {Head(g1)}) BY <2>2 DEF Remembered
    <2>4. QED BY <2>1, <2>2, <2>3, ForgetGhost
  <1>2. ASSUME g2 # <<>>
        PROVE  /\ Remembered(g1, SubSeq(g2, 1, Len(g2) - 1), Erase(gm, g2[Len(g2)]))
               /\ g2[Len(g2)] \in DOMAIN gm
               /\ Len(SubSeq(g2, 1, Len(g2) - 1)) = Len(g2) - 1
    <2> DEFINE x == g2[Len(g2)]
               r == SubSeq(g2, 1, Len(g2) - 1)
    <2>1. /\ Listed(r, Pages, GhostsOf(gm, "MFU_GHOST") \ {x})
          /\ x \in GhostsOf(gm, "MFU_GHOST") /\ Len(r) = Len(g2) - 1
      BY <1>2, ListedFront DEF Remembered
    <2> HIDE DEF x, r
    <2>2. GhostsOf(gm, "MRU_GHOST") \ {x} = GhostsOf(gm, "MRU_GHOST") /\ x \in DOMAIN gm
      BY <2>1 DEF GhostsOf
    <2>3. Listed(g1, Pages, GhostsOf(gm, "MRU_GHOST") \ {x}) BY <2>2 DEF Remembered
    <2>4. Remembered(g1, r, Erase(gm, x)) BY <2>1, <2>2, <2>3, ForgetGhost
    <2>5. QED BY <2>1, <2>2, <2>4 DEF x, r
  <1>3. QED BY <1>1, <1>2

\* InsertMruGhost and InsertMfuGhost.
LEMMA RememberedInsert ==
    ASSUME NEW g1, NEW g2, NEW gm, Remembered(g1, g2, gm), NEW p \in Pages \ DOMAIN gm
    PROVE  /\ Remembered(Append(g1, p), g2, Put(gm, p, "MRU_GHOST"))
           /\ Remembered(g1, <<p>> \o g2, Put(gm, p, "MFU_GHOST"))
           /\ Len(Append(g1, p)) = Len(g1) + 1 /\ Len(<<p>> \o g2) = Len(g2) + 1
  <1>1. /\ DOMAIN gm \subseteq Pages /\ \A q \in DOMAIN gm : gm[q] \in {"MRU_GHOST", "MFU_GHOST"}
        /\ p \notin GhostsOf(gm, "MRU_GHOST") /\ p \notin GhostsOf(gm, "MFU_GHOST")
    BY DEF Remembered, IsMap, GhostsOf
  <1> DEFINE M(status) == Put(gm, p, status)
  <1>2. ASSUME NEW status \in {"MRU_GHOST", "MFU_GHOST"}
        PROVE  /\ IsMap(M(status), Pages, {"MRU_GHOST", "MFU_GHOST"})
               /\ \A s \in {"MRU_GHOST", "MFU_GHOST"} :
                    GhostsOf(M(status), s) = GhostsOf(gm, s) \cup (IF s = status THEN {p} ELSE {})
    <2> DEFINE m == M(status)
    <2>1. /\ DOMAIN m = DOMAIN gm \cup {p} /\ m[p] = status
          /\ \A q \in DOMAIN gm : m[q] = gm[q]
          /\ m \in [DOMAIN m -> {"MRU_GHOST", "MFU_GHOST"}]
      BY <1>1 DEF Put
    <2> HIDE DEF m
    <2>2. IsMap(m, Pages, {"MRU_GHOST", "MFU_GHOST"}) BY <1>1, <2>1 DEF IsMap
    <2>3. \A s \in {"MRU_GHOST", "MFU_GHOST"} :
             GhostsOf(m, s) = GhostsOf(gm, s) \cup (IF s = status THEN {p} ELSE {})
      BY <2>1 DEF GhostsOf
    <2>4. QED BY <2>2, <2>3 DEF m
  <1> HIDE DEF M
  <1>3. /\ Listed(Append(g1, p), Pages, GhostsOf(gm, "MRU_GHOST") \cup {p})
        /\ Listed(<<p>> \o g2, Pages, GhostsOf(gm, "MFU_GHOST") \cup {p})
        /\ Len(Append(g1, p)) = Len(g1) + 1 /\ Len(<<p>> \o g2) = Len(g2) + 1
    BY <1>1, ListedAppend, ListedCons DEF Remembered
  <1>4. Remembered(Append(g1, p), g2, M("MRU_GHOST"))
    <2>1. /\ GhostsOf(M("MRU_GHOST"), "MRU_GHOST") = GhostsOf(gm, "MRU_GHOST") \cup {p}
          /\ GhostsOf(M("MRU_GHOST"), "MFU_GHOST") = GhostsOf(gm, "MFU_GHOST")
      BY <1>2
    <2>2. QED BY <1>2, <1>3, <2>1, Zenon DEF Remembered
  <1>5. Remembered(g1, <<p>> \o g2, M("MFU_GHOST"))
    <2>1. /\ GhostsOf(M("MFU_GHOST"), "MRU_GHOST") = GhostsOf(gm, "MRU_GHOST")
          /\ GhostsOf(M("MFU_GHOST"), "MFU_GHOST") = GhostsOf(gm, "MFU_GHOST") \cup {p}
      BY <1>2
    <2>2. QED BY <1>2, <1>3, <2>1, Zenon DEF Remembered
  <1>6. QED BY <1>3, <1>4, <1>5 DEF M

-----------------------------------------------------------------------------
(* The whole directory, member by member.                                  *)

Consistent(mru, mfu, g1, g2, am, gm, size, target) ==
    /\ Cached(mru, mfu, am, size)
    /\ Remembered(g1, g2, gm)
    /\ \A f \in DOMAIN am : am[f].page \notin DOMAIN gm
    /\ target \in 0 .. replacer_size

\* ARC's bounds on the lists.
Bounded(mru, mfu, g1, g2) ==
    /\ Len(mru) + Len(g1) <= replacer_size
    /\ Len(mru) + Len(g1) + Len(mfu) + Len(g2) <= 2 * replacer_size

\* The members of a consistent directory have their types, and the cached frames
\* are at most all the frames.
LEMMA ListSizes ==
    ASSUME NEW mru, NEW mfu, NEW g1, NEW g2, NEW am, NEW gm, NEW size, NEW target,
           Consistent(mru, mfu, g1, g2, am, gm, size, target)
    PROVE  /\ replacer_size \in Nat /\ size \in Nat /\ target \in Nat
           /\ Len(mru) \in Nat /\ Len(mfu) \in Nat /\ Len(g1) \in Nat /\ Len(g2) \in Nat
           /\ mru \in Seq(Frames) /\ mfu \in Seq(Frames) /\ g1 \in Seq(Pages) /\ g2 \in Seq(Pages)
           /\ Len(mru) + Len(mfu) <= replacer_size
           /\ Frames # DOMAIN am => Len(mru) + Len(mfu) < replacer_size
  <1>1. replacer_size \in Nat BY ArcAssumption, FS_CardinalityType DEF replacer_size
  <1>2. /\ Len(mru) \in Nat /\ Len(mfu) \in Nat /\ Len(g1) \in Nat /\ Len(g2) \in Nat
    BY ListedLength DEF Consistent, Cached, Remembered
  <1>3. /\ size \in Nat /\ Len(mru) + Len(mfu) = Cardinality(DOMAIN am)
        /\ DOMAIN am \subseteq Frames
    BY CachedTypes, Zenon DEF Consistent, Cached, IsMap
  <1>4. /\ Cardinality(DOMAIN am) <= replacer_size
        /\ Cardinality(DOMAIN am) = replacer_size => DOMAIN am = Frames
    BY <1>3, ArcAssumption, FS_Subset DEF replacer_size
  <1>5. target \in Nat BY <1>1 DEF Consistent
  <1>6. mru \in Seq(Frames) /\ mfu \in Seq(Frames) /\ g1 \in Seq(Pages) /\ g2 \in Seq(Pages)
    BY DEF Consistent, Cached, Remembered, Listed
  <1>7. QED BY <1>1, <1>2, <1>3, <1>4, <1>5, <1>6

\* The lists without frame f.
MruWithout(mru, am, f) == IF am[f].status = "MRU" THEN Unlinked(mru, f) ELSE mru
MfuWithout(mfu, am, f) == IF am[f].status = "MRU" THEN mfu ELSE Unlinked(mfu, f)

\* Unlinking a live frame shortens the list its status names and no other.
LEMMA WithoutLengths ==
    ASSUME NEW mru, NEW mfu, NEW g1, NEW g2, NEW am, NEW gm, NEW size, NEW target,
           Consistent(mru, mfu, g1, g2, am, gm, size, target), NEW f \in DOMAIN am
    PROVE  /\ am[f] \in AliveEntry
           /\ Len(MruWithout(mru, am, f)) = IF am[f].status = "MRU" THEN Len(mru) - 1 ELSE Len(mru)
           /\ Len(MfuWithout(mfu, am, f)) = IF am[f].status = "MRU" THEN Len(mfu) ELSE Len(mfu) - 1
           /\ MruWithout(mru, am, f) \in Seq(Frames) /\ MfuWithout(mfu, am, f) \in Seq(Frames)
           /\ Len(MruWithout(mru, am, f)) \in Nat /\ Len(MfuWithout(mfu, am, f)) \in Nat
  <1>1. am[f] \in AliveEntry /\ am[f].status \in {"MRU", "MFU"}
    BY DEF Consistent, Cached, IsMap, AliveEntry
  <1>2. /\ Listed(mru, Frames, WithStatus(am, "MRU")) /\ Listed(mfu, Frames, WithStatus(am, "MFU"))
    BY DEF Consistent, Cached
  <1>3. CASE am[f].status = "MRU"
    <2>1. f \in WithStatus(am, "MRU") BY <1>3 DEF WithStatus
    <2>2. /\ Listed(Unlinked(mru, f), Frames, WithStatus(am, "MRU") \ {f})
          /\ Len(Unlinked(mru, f)) = Len(mru) - 1
      BY <1>2, <2>1, ListedUnlinked
    <2>3. QED BY <1>1, <1>2, <1>3, <2>2 DEF MruWithout, MfuWithout, Listed
  <1>4. CASE am[f].status = "MFU"
    <2>1. f \in WithStatus(am, "MFU") BY <1>4 DEF WithStatus
    <2>2. /\ Listed(Unlinked(mfu, f), Frames, WithStatus(am, "MFU") \ {f})
          /\ Len(Unlinked(mfu, f)) = Len(mfu) - 1
      BY <1>2, <2>1, ListedUnlinked
    <2>3. QED BY <1>1, <1>2, <1>4, <2>2 DEF MruWithout, MfuWithout, Listed
  <1>5. QED BY <1>1, <1>3, <1>4

\* What erase does to a map.
LEMMA EraseMap ==
    ASSUME NEW m, NEW k
    PROVE  /\ DOMAIN Erase(m, k) = DOMAIN m \ {k}
           /\ \A x \in DOMAIN m \ {k} : Erase(m, k)[x] = m[x]
  BY DEF Erase

\* What assignment through a key does to a map.
LEMMA PutMap ==
    ASSUME NEW m, NEW k, NEW v
    PROVE  /\ DOMAIN Put(m, k, v) = DOMAIN m \cup {k} /\ Put(m, k, v)[k] = v
           /\ \A x \in DOMAIN m \ {k} : Put(m, k, v)[x] = m[x]
  BY DEF Put

\* A frame leaves the cache.
LEMMA DropConsistent ==
    ASSUME NEW mru, NEW mfu, NEW g1, NEW g2, NEW am, NEW gm, NEW size, NEW target,
           Consistent(mru, mfu, g1, g2, am, gm, size, target), NEW f \in DOMAIN am
    PROVE  /\ Consistent(MruWithout(mru, am, f), MfuWithout(mfu, am, f), g1, g2, Erase(am, f), gm,
                         IF am[f].evictable THEN size - 1 ELSE size, target)
           /\ Bounded(mru, mfu, g1, g2) => Bounded(MruWithout(mru, am, f), MfuWithout(mfu, am, f), g1, g2)
  <1>1. Cached(MruWithout(mru, am, f), MfuWithout(mfu, am, f), Erase(am, f),
               IF am[f].evictable THEN size - 1 ELSE size)
    BY CachedErase DEF Consistent, MruWithout, MfuWithout
  <1>2. \A g \in DOMAIN Erase(am, f) : Erase(am, f)[g].page \notin DOMAIN gm
    <2>1. DOMAIN Erase(am, f) = DOMAIN am \ {f} /\ \A g \in DOMAIN am \ {f} : Erase(am, f)[g] = am[g]
      BY EraseMap, Zenon
    <2>2. QED BY <2>1 DEF Consistent
  <1>3. Bounded(mru, mfu, g1, g2) => Bounded(MruWithout(mru, am, f), MfuWithout(mfu, am, f), g1, g2)
    <2>1. /\ replacer_size \in Nat /\ Len(mru) \in Nat /\ Len(mfu) \in Nat
          /\ Len(g1) \in Nat /\ Len(g2) \in Nat
      BY ListSizes
    <2>2. /\ Len(MruWithout(mru, am, f)) \in Nat /\ Len(MruWithout(mru, am, f)) <= Len(mru)
          /\ Len(MfuWithout(mfu, am, f)) \in Nat /\ Len(MfuWithout(mfu, am, f)) <= Len(mfu)
      BY <2>1, WithoutLengths
    <2>3. QED BY <2>1, <2>2 DEF Bounded
  <1>4. QED BY <1>1, <1>2, <1>3 DEF Consistent

\* A cached frame is accessed again; a scan may take it to mru_.
LEMMA MoveConsistent ==
    ASSUME NEW mru, NEW mfu, NEW g1, NEW g2, NEW am, NEW gm, NEW size, NEW target,
           Consistent(mru, mfu, g1, g2, am, gm, size, target), NEW f \in DOMAIN am
    PROVE  LET mru1 == MruWithout(mru, am, f)
               mfu1 == MfuWithout(mfu, am, f)
           IN  /\ Consistent(mru1, <<f>> \o mfu1, g1, g2, [am EXCEPT ![f].status = "MFU"], gm, size, target)
               /\ Consistent(Append(mru1, f), mfu1, g1, g2, [am EXCEPT ![f].status = "MRU"], gm, size, target)
               /\ Bounded(mru, mfu, g1, g2) => Bounded(mru1, <<f>> \o mfu1, g1, g2)
  <1> DEFINE mru1 == MruWithout(mru, am, f)
             mfu1 == MfuWithout(mfu, am, f)
             M(s) == [am EXCEPT ![f].status = s]
  <1>1. Cached(mru1, <<f>> \o mfu1, M("MFU"), size) /\ Cached(Append(mru1, f), mfu1, M("MRU"), size)
    BY CachedMove, Zenon DEF Consistent, MruWithout, MfuWithout
  <1>2. \A s : \A g \in DOMAIN M(s) : M(s)[g].page = am[g].page /\ g \in DOMAIN am
    BY DEF Consistent, Cached, IsMap, AliveEntry
  <1>3. \A s : \A g \in DOMAIN M(s) : M(s)[g].page \notin DOMAIN gm
    BY <1>2 DEF Consistent
  <1>4. Bounded(mru, mfu, g1, g2) => Bounded(mru1, <<f>> \o mfu1, g1, g2)
    <2>1. Len(<<f>> \o mfu1) = Len(mfu1) + 1 BY WithoutLengths
    <2>2. /\ replacer_size \in Nat /\ Len(mru) \in Nat /\ Len(mfu) \in Nat
          /\ Len(g1) \in Nat /\ Len(g2) \in Nat
      BY ListSizes
    <2>3. /\ Len(mru1) = IF am[f].status = "MRU" THEN Len(mru) - 1 ELSE Len(mru)
          /\ Len(mfu1) = IF am[f].status = "MRU" THEN Len(mfu) ELSE Len(mfu) - 1
      BY WithoutLengths
    <2> DEFINE x == Len(mru1)
               y == Len(<<f>> \o mfu1)
    <2>4. /\ x \in Nat /\ x <= Len(mru) /\ x + y = Len(mru) + Len(mfu)
      <3> HIDE DEF mru1, mfu1
      <3>1. y = Len(mfu1) + 1 BY <2>1
      <3>2. am[f].status = "MRU" => Len(mru) > 0 BY <2>3, WithoutLengths DEF mru1
      <3> HIDE DEF y
      <3>3. QED BY <2>2, <2>3, <3>1, <3>2
    <2>5. Bounded(mru1, <<f>> \o mfu1, g1, g2) <=>
             x + Len(g1) <= replacer_size /\ x + Len(g1) + y + Len(g2) <= 2 * replacer_size
      BY Zenon DEF Bounded
    <2>6. y \in Nat BY <2>1, WithoutLengths
    <2> HIDE DEF x, y
    <2>7. QED BY <2>2, <2>4, <2>5, <2>6 DEF Bounded
  <1>5. QED BY <1>1, <1>3, <1>4 DEF Consistent

\* A page enters the cache.
LEMMA InsertConsistent ==
    ASSUME NEW mru, NEW mfu, NEW g1, NEW g2, NEW am, NEW gm, NEW size, NEW target,
           Consistent(mru, mfu, g1, g2, am, gm, size, target),
           NEW f \in Frames \ DOMAIN am, NEW p \in Pages \ DOMAIN gm, \A g \in DOMAIN am : am[g].page # p
    PROVE  /\ Consistent(Append(mru, f), mfu, g1, g2, Put(am, f, NewEntry(p, "MRU")), gm, size, target)
           /\ Consistent(mru, <<f>> \o mfu, g1, g2, Put(am, f, NewEntry(p, "MFU")), gm, size, target)
  <1>1. /\ Cached(Append(mru, f), mfu, Put(am, f, NewEntry(p, "MRU")), size)
        /\ Cached(mru, <<f>> \o mfu, Put(am, f, NewEntry(p, "MFU")), size)
    BY CachedInsert DEF Consistent
  <1>2. ASSUME NEW status PROVE \A g \in DOMAIN Put(am, f, NewEntry(p, status)) :
                                  Put(am, f, NewEntry(p, status))[g].page \notin DOMAIN gm
    <2>1. NewEntry(p, status).page = p BY DEF NewEntry
    <2> DEFINE m == Put(am, f, NewEntry(p, status))
    <2>2. DOMAIN m = DOMAIN am \cup {f} /\ m[f] = NewEntry(p, status) /\ \A g \in DOMAIN am \ {f} : m[g] = am[g]
      BY DEF Put
    <2> HIDE DEF m
    <2>3. \A g \in DOMAIN m : m[g].page \notin DOMAIN gm BY <2>1, <2>2 DEF Consistent
    <2>4. QED BY <2>3 DEF m
  <1>3. QED BY <1>1, <1>2 DEF Consistent

\* The ghost lists without page p.
G1Without(g1, gm, p) == IF gm[p] = "MRU_GHOST" THEN Unlinked(g1, p) ELSE g1
G2Without(g2, gm, p) == IF gm[p] = "MRU_GHOST" THEN g2 ELSE Unlinked(g2, p)

\* The ghost of p goes.
LEMMA ForgetConsistent ==
    ASSUME NEW mru, NEW mfu, NEW g1, NEW g2, NEW am, NEW gm, NEW size, NEW target,
           Consistent(mru, mfu, g1, g2, am, gm, size, target), NEW p \in DOMAIN gm
    PROVE  LET h1 == G1Without(g1, gm, p)
               h2 == G2Without(g2, gm, p)
           IN  /\ Consistent(mru, mfu, h1, h2, am, Erase(gm, p), size, target)
               /\ \A f : Bounded(mru, mfu, g1, g2) => Bounded(mru, <<f>> \o mfu, h1, h2)
  <1> DEFINE h1 == G1Without(g1, gm, p)
             h2 == G2Without(g2, gm, p)
  <1>1. /\ Remembered(h1, h2, Erase(gm, p))
        /\ Len(h1) <= Len(g1) /\ Len(h1) + Len(h2) = Len(g1) + Len(g2) - 1
    BY RememberedErase DEF Consistent, G1Without, G2Without
  <1> HIDE DEF h1, h2
  <1>2. DOMAIN Erase(gm, p) \subseteq DOMAIN gm BY EraseMap, Zenon
  <1>3. Consistent(mru, mfu, h1, h2, am, Erase(gm, p), size, target)
    BY <1>1, <1>2 DEF Consistent
  <1>4. ASSUME NEW f, Bounded(mru, mfu, g1, g2) PROVE Bounded(mru, <<f>> \o mfu, h1, h2)
    <2>1. /\ replacer_size \in Nat /\ Len(mru) \in Nat /\ Len(mfu) \in Nat
          /\ Len(g1) \in Nat /\ Len(g2) \in Nat /\ mfu \in Seq(Frames)
      BY ListSizes
    <2>2. Len(h1) \in Nat /\ Len(h2) \in Nat BY <1>1, ListedLength DEF Remembered
    <2>3. Len(<<f>> \o mfu) = Len(mfu) + 1
      <3>1. <<f>> \in Seq({f} \cup Frames) /\ mfu \in Seq({f} \cup Frames) /\ Len(<<f>>) = 1 BY <2>1
      <3>2. QED BY <2>1, <3>1
    <2>4. QED BY <1>1, <1>4, <2>1, <2>2, <2>3 DEF Bounded
  <1>5. QED BY <1>3, <1>4 DEF h1, h2

\* The page of a victim becomes a ghost.
LEMMA RememberConsistent ==
    ASSUME NEW mru, NEW mfu, NEW g1, NEW g2, NEW am, NEW gm, NEW size, NEW target,
           Consistent(mru, mfu, g1, g2, am, gm, size, target),
           NEW p \in Pages \ DOMAIN gm, \A g \in DOMAIN am : am[g].page # p
    PROVE  /\ Consistent(mru, mfu, Append(g1, p), g2, am, Put(gm, p, "MRU_GHOST"), size, target)
           /\ Consistent(mru, mfu, g1, <<p>> \o g2, am, Put(gm, p, "MFU_GHOST"), size, target)
  <1>1. /\ Remembered(Append(g1, p), g2, Put(gm, p, "MRU_GHOST"))
        /\ Remembered(g1, <<p>> \o g2, Put(gm, p, "MFU_GHOST"))
    BY RememberedInsert DEF Consistent
  <1>2. \A s : DOMAIN Put(gm, p, s) = DOMAIN gm \cup {p} BY PutMap, Zenon
  <1>3. QED BY <1>1, <1>2 DEF Consistent

\* A miss with f not in the cache: the trimmed ghosts leave room for one more
\* entry of mru_.
LEMMA MissBounded ==
    ASSUME NEW mru, NEW mfu, NEW g1, NEW g2, NEW am, NEW gm, NEW size, NEW target,
           Consistent(mru, mfu, g1, g2, am, gm, size, target), Bounded(mru, mfu, g1, g2),
           NEW f \in Frames \ DOMAIN am
    PROVE  LET left  == Len(mru) + Len(g1)
               total == left + Len(mfu) + Len(g2)
           IN  /\ left = replacer_size => g1 # <<>> /\ Len(mru) < replacer_size
               /\ left < replacer_size /\ total = 2 * replacer_size => g2 # <<>>
               /\ left = replacer_size => Bounded(Append(mru, f), mfu, Tail(g1), g2)
               /\ left < replacer_size /\ total = 2 * replacer_size =>
                    Bounded(Append(mru, f), mfu, g1, SubSeq(g2, 1, Len(g2) - 1))
               /\ left < replacer_size /\ total # 2 * replacer_size => Bounded(Append(mru, f), mfu, g1, g2)
  <1>1. /\ replacer_size \in Nat /\ Len(mru) \in Nat /\ Len(mfu) \in Nat
        /\ Len(g1) \in Nat /\ Len(g2) \in Nat /\ Frames # DOMAIN am
        /\ mru \in Seq(Frames) /\ mfu \in Seq(Frames) /\ g1 \in Seq(Pages) /\ g2 \in Seq(Pages)
    BY ListSizes
  <1>2. Len(mru) + Len(mfu) < replacer_size BY <1>1, ListSizes
  <1>3. Len(Append(mru, f)) = Len(mru) + 1 BY <1>1
  <1>4. g1 # <<>> => Len(Tail(g1)) = Len(g1) - 1 BY <1>1
  <1>5. g2 # <<>> => Len(SubSeq(g2, 1, Len(g2) - 1)) = Len(g2) - 1
    BY ListedFront, Zenon DEF Consistent, Remembered
  <1>6. (g1 = <<>> => Len(g1) = 0) /\ (g2 = <<>> => Len(g2) = 0) OBVIOUS
  <1> DEFINE a == Len(mru)
             b == Len(mfu)
             c == Len(g1)
             d == Len(g2)
  <1>7. /\ replacer_size \in Nat /\ a \in Nat /\ b \in Nat /\ c \in Nat /\ d \in Nat
        /\ a + b < replacer_size /\ a + c <= replacer_size
        /\ a + c + b + d <= 2 * replacer_size
    BY <1>1, <1>2 DEF Bounded
  <1>8. /\ a + c = replacer_size => c > 0 /\ a < replacer_size
        /\ a + c < replacer_size /\ a + c + b + d = 2 * replacer_size => d > 0
    <2> HIDE DEF a, b, c, d
    <2> QED BY <1>7
  <1>9. /\ Bounded(Append(mru, f), mfu, Tail(g1), g2) <=>
             /\ Len(Append(mru, f)) + Len(Tail(g1)) <= replacer_size
             /\ Len(Append(mru, f)) + Len(Tail(g1)) + b + d <= 2 * replacer_size
        /\ Bounded(Append(mru, f), mfu, g1, SubSeq(g2, 1, Len(g2) - 1)) <=>
             /\ Len(Append(mru, f)) + c <= replacer_size
             /\ Len(Append(mru, f)) + c + b + Len(SubSeq(g2, 1, Len(g2) - 1)) <= 2 * replacer_size
        /\ Bounded(Append(mru, f), mfu, g1, g2) <=>
             /\ Len(Append(mru, f)) + c <= replacer_size
             /\ Len(Append(mru, f)) + c + b + d <= 2 * replacer_size
    BY Zenon DEF Bounded
  <1> HIDE DEF a, b, c, d
  <1>10. ASSUME a + c = replacer_size PROVE Bounded(Append(mru, f), mfu, Tail(g1), g2)
    <2>1. Len(Append(mru, f)) = a + 1 /\ Len(Tail(g1)) = c - 1 BY <1>3, <1>4, <1>6, <1>7, <1>8, <1>10 DEF a, c
    <2>2. a + 1 + (c - 1) <= replacer_size /\ a + 1 + (c - 1) + b + d <= 2 * replacer_size BY <1>7, <1>10
    <2>3. /\ Len(Append(mru, f)) + Len(Tail(g1)) <= replacer_size
          /\ Len(Append(mru, f)) + Len(Tail(g1)) + b + d <= 2 * replacer_size
      BY <2>1, <2>2, Zenon
    <2>4. QED BY <1>9, <2>3, Zenon
  <1>11. ASSUME a + c < replacer_size, a + c + b + d = 2 * replacer_size
         PROVE  Bounded(Append(mru, f), mfu, g1, SubSeq(g2, 1, Len(g2) - 1))
    <2>1. Len(Append(mru, f)) = a + 1 /\ Len(SubSeq(g2, 1, Len(g2) - 1)) = d - 1
      BY <1>3, <1>5, <1>6, <1>7, <1>8, <1>11 DEF a, d
    <2>2. a + 1 + c <= replacer_size /\ a + 1 + c + b + (d - 1) <= 2 * replacer_size BY <1>7, <1>11
    <2>3. /\ Len(Append(mru, f)) + c <= replacer_size
          /\ Len(Append(mru, f)) + c + b + Len(SubSeq(g2, 1, Len(g2) - 1)) <= 2 * replacer_size
      BY <2>1, <2>2, Zenon
    <2>4. QED BY <1>9, <2>3, Zenon
  <1>12. ASSUME a + c < replacer_size, a + c + b + d # 2 * replacer_size
         PROVE  Bounded(Append(mru, f), mfu, g1, g2)
    <2>1. Len(Append(mru, f)) = a + 1 BY <1>3 DEF a
    <2>2. a + 1 + c <= replacer_size /\ a + 1 + c + b + d <= 2 * replacer_size BY <1>7, <1>12
    <2>3. QED BY <1>9, <2>1, <2>2, Zenon
  <1>13. /\ a + c = replacer_size => g1 # <<>> /\ a < replacer_size
         /\ a + c < replacer_size /\ a + c + b + d = 2 * replacer_size => g2 # <<>>
    BY <1>6, <1>7, <1>8 DEF c, d
  <1>14. QED BY <1>10, <1>11, <1>12, <1>13 DEF a, b, c, d

\* A victim's page stays in the directory, on the side it was cached on.
LEMMA EvictBounded ==
    ASSUME NEW mru, NEW mfu, NEW g1, NEW g2, NEW am, NEW gm, NEW size, NEW target,
           Consistent(mru, mfu, g1, g2, am, gm, size, target), Bounded(mru, mfu, g1, g2),
           NEW f \in DOMAIN am, NEW p
    PROVE  LET mru1 == MruWithout(mru, am, f)
               mfu1 == MfuWithout(mfu, am, f)
           IN  IF am[f].status = "MRU" THEN Bounded(mru1, mfu1, Append(g1, p), g2)
                                       ELSE Bounded(mru1, mfu1, g1, <<p>> \o g2)
  <1> DEFINE mru1 == MruWithout(mru, am, f)
             mfu1 == MfuWithout(mfu, am, f)
  <1>1. /\ replacer_size \in Nat /\ Len(mru) \in Nat /\ Len(mfu) \in Nat
        /\ Len(g1) \in Nat /\ Len(g2) \in Nat /\ g1 \in Seq(Pages) /\ g2 \in Seq(Pages)
    BY ListSizes
  <1>2. /\ Len(mru1) = IF am[f].status = "MRU" THEN Len(mru) - 1 ELSE Len(mru)
        /\ Len(mfu1) = IF am[f].status = "MRU" THEN Len(mfu) ELSE Len(mfu) - 1
    BY WithoutLengths
  <1> HIDE DEF mru1, mfu1
  <1>3. CASE am[f].status = "MRU"
    <2>1. Len(mru1) = Len(mru) - 1 /\ Len(mfu1) = Len(mfu) /\ Len(Append(g1, p)) = Len(g1) + 1
      BY <1>1, <1>2, <1>3
    <2>2. /\ Len(mru1) + Len(Append(g1, p)) = Len(mru) + Len(g1)
          /\ Len(mru1) + Len(Append(g1, p)) + Len(mfu1) + Len(g2) = Len(mru) + Len(g1) + Len(mfu) + Len(g2)
      BY <1>1, <2>1
    <2>3. Bounded(mru1, mfu1, Append(g1, p), g2) BY <2>2, Zenon DEF Bounded
    <2>4. QED BY <1>3, <2>3 DEF mru1, mfu1
  <1>4. CASE am[f].status # "MRU"
    <2>1. Len(<<p>> \o g2) = Len(g2) + 1
      <3>1. <<p>> \in Seq({p} \cup Pages) /\ g2 \in Seq({p} \cup Pages) /\ Len(<<p>>) = 1 BY <1>1
      <3>2. QED BY <1>1, <3>1
    <2>2. Len(mru1) = Len(mru) /\ Len(mfu1) = Len(mfu) - 1 BY <1>2, <1>4
    <2>3. Len(mru1) + Len(g1) + Len(mfu1) + Len(<<p>> \o g2) = Len(mru) + Len(g1) + Len(mfu) + Len(g2)
      BY <1>1, <2>1, <2>2
    <2>4. Bounded(mru1, mfu1, g1, <<p>> \o g2) BY <2>2, <2>3, Zenon DEF Bounded
    <2>5. QED BY <1>4, <2>4 DEF mru1, mfu1
  <1>5. QED BY <1>3, <1>4

=============================================================================
