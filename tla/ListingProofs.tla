---------------------------- MODULE ListingProofs ----------------------------
(***************************************************************************)
(* Proofs about what is listed: the panels, for directories with any       *)
(* names, and the cache of a remote file system that the listings of a     *)
(* panel there come from, for any directories, files, streams and handles. *)
(*                                                                         *)
(* Panels.  Every command is built from a few operations on one panel:     *)
(* marks are set or taken away, the summary is computed again, the list is *)
(* read again, an entry is selected by name.  Good is what each of them    *)
(* keeps; what marking does to the counters is a fact about the            *)
(* cardinalities of disjoint sets, and selecting by name rests on the list *)
(* having each of its entries at one place.                                *)
(*                                                                         *)
(* Cache.  Every operation is built from functions from a heap to a heap.  *)
(* WF is what each of them keeps: the heap is typed, the list of each      *)
(* directory and its entries lead to each other, what is open is there,    *)
(* and the counts are right, but for the inodes that a function has yet to *)
(* release.                                                                *)
(***************************************************************************)
EXTENDS PanelList, DirCache, FiniteSetTheorems, SequenceTheorems,
        WellFoundedInduction, TLAPS

-----------------------------------------------------------------------------
(* Finite sets of numbers.                                                 *)

LEMMA RanksAre ==
  ASSUME NEW S, S \subseteq Nat, IsFiniteSet(S)
  PROVE  /\ \A n \in S : Rank(S, n) \in 1 .. Cardinality(S)
         /\ \A m, n \in S : Rank(S, m) = Rank(S, n) => m = n
         /\ \A i \in 1 .. Cardinality(S) : \E n \in S : Rank(S, n) = i
<1> DEFINE Upto(n) == {m \in S : m <= n}
<1>0. \A n \in S : n \in Nat
  OBVIOUS
<1>1. S \subseteq Nat /\ IsFiniteSet(S) /\ Cardinality(S) \in Nat
  BY FS_CardinalityType
<1>2. \A n \in S : IsFiniteSet(Upto(n)) /\ Cardinality(Upto(n)) \in Nat
                   /\ Cardinality(Upto(n)) <= Cardinality(S)
  BY <1>1, FS_Subset, FS_CardinalityType
<1>3. \A n \in S : Rank(S, n) = Cardinality(Upto(n))
  BY DEF Rank
<1>4. \A n \in S : Rank(S, n) \in 1 .. Cardinality(S)
  <2> TAKE n \in S
  <2>1. Upto(n) # {}
    BY <1>1
  <2>2. Cardinality(Upto(n)) # 0
    BY <1>2, <2>1, FS_EmptySet
  <2> QED BY <1>1, <1>2, <1>3, <2>2
<1>5. \A m, n \in S : Rank(S, m) = Rank(S, n) => m = n
  <2>1. ASSUME NEW m \in S, NEW n \in S, m < n, Rank(S, m) = Rank(S, n)
        PROVE  FALSE
    <3>0. m \in Nat /\ n \in Nat /\ \A k \in S : k \in Nat
      BY <1>0
    <3>a. \A k \in S : k <= m => k <= n
      BY <2>1, <3>0, SMT
    <3>b. n <= n /\ ~ (n <= m)
      BY <2>1, <3>0, SMT
    <3>1. Upto(m) \subseteq Upto(n) /\ n \in Upto(n) /\ n \notin Upto(m)
      BY <3>a, <3>b, Zenon
    <3>2. Upto(m) = Upto(n)
      BY <1>2, <1>3, <2>1, <3>1, FS_Subset
    <3> QED BY <3>1, <3>2
  <2> QED BY <1>1, <2>1
<1>6. \A i \in 1 .. Cardinality(S) : \E n \in S : Rank(S, n) = i
  <2> DEFINE f == [n \in S |-> Rank(S, n)]
             T == 1 .. Cardinality(S)
  <2>1. f \in Injection(S, T)
    BY <1>4, <1>5 DEF Injection, IsInjective
  <2>2. IsFiniteSet(T) /\ Cardinality(T) = Cardinality(S)
    BY <1>1, FS_Interval
  <2> HIDE DEF f, T
  <2>3. f \in Surjection(S, T)
    BY <2>1, <2>2, FS_Injection
  <2> QED BY <2>3 DEF Surjection, f, T
<1> QED BY <1>4, <1>5, <1>6

LEMMA LeastNatural ==
  ASSUME NEW S \in SUBSET Nat, S # {}
  PROVE  \E n \in S : \A m \in S : n <= m
<1> DEFINE T == {0 .. n : n \in S}
           R == StrictSubsetOrdering(Nat)
<1>1. T \subseteq FiniteSubsetsOf(Nat) /\ T # {}
  <2>1. \A n \in S : IsFiniteSet(0 .. n) /\ 0 .. n \in SUBSET Nat
    BY FS_Interval
  <2> QED BY <2>1 DEF FiniteSubsetsOf
<1>2. IsWellFoundedOn(R, FiniteSubsetsOf(Nat))
  BY FS_StrictSubsetOrderingWellFounded
<1>3. PICK x \in T : \A y \in T : <<y, x>> \notin R
  BY <1>1, <1>2, WFMin
<1>4. PICK n \in S : x = 0 .. n
  OBVIOUS
<1>5. ASSUME NEW m \in S, m < n PROVE FALSE
  <2>1. 0 .. m \in T /\ 0 .. m \subseteq 0 .. n /\ n \notin 0 .. m
    BY <1>5
  <2>2. n \in 0 .. n /\ 0 .. m \in SUBSET Nat /\ 0 .. n \in SUBSET Nat
    OBVIOUS
  <2>3. <<0 .. m, 0 .. n>> \in R
    BY <2>1, <2>2 DEF StrictSubsetOrdering
  <2> QED BY <2>1, <2>3, <1>3, <1>4
<1> QED BY <1>5

-----------------------------------------------------------------------------
(* The panels.                                                             *)


Names == TopNames \cup SubNames

(* The counters of one panel.                                              *)
Summed(p) ==
  /\ p.marked = Cardinality(p.mark)
  /\ p.dirs_marked = Cardinality(DirsOf(p, p.mark))
  /\ p.total = SizeOf(p, p.mark)

(* A panel whose counters are to be computed, one that has been read, and  *)
(* one with its selection.                                                 *)
PanelRec == [cwd : {"top", "sub"}, names : SUBSET Names, mark : SUBSET Names,
             sized : SUBSET Names, marked : Int, dirs_marked : Int, total : Int,
             selected : Nat, panelized : BOOLEAN]
Filled(p) == p \in PanelRec /\ p.mark \subseteq p.names /\ p.sized \subseteq p.names
Listed(p) == Filled(p) /\ Summed(p)
Good(p) == Listed(p) /\ p.selected \in 0 .. Count(p) - 1

(* What is left alone by an operation on marks.                            *)
SameList(p, q) ==
  /\ q.cwd = p.cwd /\ q.names = p.names /\ q.sized = p.sized
  /\ q.selected = p.selected /\ q.panelized = p.panelized

(* Nothing is left in a directory that is gone.                            *)
Closed(fs) == \A f \in fs : f[1] = "sub" => <<"top", Sub>> \in fs

(* Where mc is, and the command that waits.                                *)
PlaceOK == wd \in {"top", "sub"} /\ lost \in BOOLEAN /\ WorksWhereShown
OpOK ==
  \/ op = Idle
  \/ op.at = "ask"
  \/ op \in [at : {"chmod"}, need_update : BOOLEAN]

DiskOK == files \subseteq Everything /\ Closed(files)
PanelsOK == Good(current_panel) /\ Good(other_panel)

IInv == DiskOK /\ PanelsOK /\ PlaceOK /\ OpOK

-----------------------------------------------------------------------------
(* Finite sets of names.                                                   *)

LEMMA NamesAre ==
  /\ Names \subseteq Nat /\ 0 \notin Names
  /\ IsFiniteSet(Names) /\ IsFiniteSet(Names \cup {0})
  /\ Sub \in TopNames /\ TopNames \subseteq Names /\ SubNames \subseteq Names
<1>1. IsFiniteSet(Names)
  BY PanelAssumption, FS_Union DEF Names
<1>2. IsFiniteSet(Names \cup {0})
  BY <1>1, FS_AddElement
<1> QED BY <1>1, <1>2, PanelAssumption DEF Names

LEMMA Sizes ==
  ASSUME NEW S, S \subseteq Names \cup {0}
  PROVE  IsFiniteSet(S) /\ Cardinality(S) \in Nat
<1>1. IsFiniteSet(S)
  BY NamesAre, FS_Subset
<1> QED BY <1>1, FS_CardinalityType

LEMMA Disjoint ==
  ASSUME NEW S, NEW T, S \subseteq Names, T \subseteq Names, S \cap T = {}
  PROVE  Cardinality(S \cup T) = Cardinality(S) + Cardinality(T)
<1>1. IsFiniteSet(S) /\ IsFiniteSet(T) /\ Cardinality(S) \in Nat /\ Cardinality(T) \in Nat
  BY Sizes
<1>2. Cardinality(S \cap T) = 0
  BY FS_EmptySet
<1>3. Cardinality(S \cup T) = Cardinality(S) + Cardinality(T) - Cardinality(S \cap T)
  BY <1>1, FS_Union
<1> QED BY <1>1, <1>2, <1>3

LEMMA SizesAdd ==
  ASSUME NEW p, NEW S, NEW T, S \subseteq Names, T \subseteq Names, S \cap T = {}
  PROVE  /\ Cardinality(DirsOf(p, S)) \in Nat /\ SizeOf(p, S) \in Nat
         /\ Cardinality(DirsOf(p, T)) \in Nat /\ SizeOf(p, T) \in Nat
         /\ Cardinality(DirsOf(p, S \cup T))
              = Cardinality(DirsOf(p, S)) + Cardinality(DirsOf(p, T))
         /\ SizeOf(p, S \cup T) = SizeOf(p, S) + SizeOf(p, T)
<1> DEFINE D(U) == DirsOf(p, U)
           Z(U) == D(U) \cap p.sized
           R(U) == U \ D(U)
<1>1. \A U : U \subseteq Names =>
        D(U) \subseteq Names /\ Z(U) \subseteq Names /\ R(U) \subseteq Names
  BY DEF DirsOf
<1>2. /\ D(S \cup T) = D(S) \cup D(T) /\ D(S) \cap D(T) = {}
      /\ Z(S \cup T) = Z(S) \cup Z(T) /\ Z(S) \cap Z(T) = {}
      /\ R(S \cup T) = R(S) \cup R(T) /\ R(S) \cap R(T) = {}
  BY DEF DirsOf
<1>3. \A U : SizeOf(p, U) = Cardinality(R(U)) + 2 * Cardinality(Z(U))
  BY DEF SizeOf
<1> HIDE DEF D, Z, R
<1>4. /\ Cardinality(D(S)) \in Nat /\ Cardinality(D(T)) \in Nat
      /\ Cardinality(Z(S)) \in Nat /\ Cardinality(Z(T)) \in Nat
      /\ Cardinality(R(S)) \in Nat /\ Cardinality(R(T)) \in Nat
  BY <1>1, Sizes
<1>5. /\ Cardinality(D(S \cup T)) = Cardinality(D(S)) + Cardinality(D(T))
      /\ Cardinality(Z(S \cup T)) = Cardinality(Z(S)) + Cardinality(Z(T))
      /\ Cardinality(R(S \cup T)) = Cardinality(R(S)) + Cardinality(R(T))
  BY <1>1, <1>2, Disjoint
<1>6. SizeOf(p, S) \in Nat /\ SizeOf(p, T) \in Nat
  BY <1>3, <1>4
<1>7. SizeOf(p, S \cup T) = SizeOf(p, S) + SizeOf(p, T)
  BY <1>3, <1>4, <1>5
<1> QED BY <1>4, <1>5, <1>6, <1>7 DEF D

-----------------------------------------------------------------------------
(* The list of a panel has each entry at one place.                        *)

LEMMA ListIs ==
  ASSUME NEW p, Filled(p)
  PROVE  /\ Entries(p) \subseteq p.names \cup {0} /\ Count(p) \in Nat \ {0}
         /\ DOMAIN List(p) = 1 .. Count(p)
         /\ \A i \in 1 .. Count(p) : List(p)[i] \in Entries(p)
         /\ \A n \in Entries(p) : \E i \in 1 .. Count(p) : List(p)[i] = n
         /\ \A i, j \in 1 .. Count(p) : List(p)[i] = List(p)[j] => i = j
<1> DEFINE E == Entries(p)
<1>1. E \subseteq p.names \cup {0} /\ E \subseteq Names \cup {0} /\ E # {}
  BY DEF Filled, PanelRec, Entries
<1>r. E \subseteq Nat /\ IsFiniteSet(E)
  <2>1. Names \cup {0} \subseteq Nat
    BY NamesAre
  <2> QED BY <1>1, <2>1, Sizes
<1>2. Count(p) \in Nat \ {0}
  BY <1>1, Sizes, FS_EmptySet DEF Count
<1>3. List(p) = [i \in 1 .. Count(p) |-> CHOOSE n \in E : Rank(E, n) = i]
  BY DEF List, Count
<1> HIDE DEF E
<1>4. \A i \in 1 .. Count(p) : List(p)[i] \in E /\ Rank(E, List(p)[i]) = i
  BY <1>1, <1>3, <1>r, RanksAre DEF Count, E
<1>5. \A n \in E : \E i \in 1 .. Count(p) : List(p)[i] = n
  <2> TAKE n \in E
  <2>1. Rank(E, n) \in 1 .. Count(p)
    BY <1>1, <1>r, RanksAre DEF Count, E
  <2>2. \A k, l \in E : Rank(E, k) = Rank(E, l) => k = l
    BY <1>1, <1>r, RanksAre
  <2> DEFINE i == Rank(E, n)
  <2>3. i \in 1 .. Count(p)
    BY <2>1
  <2>4. List(p)[i] \in E /\ Rank(E, List(p)[i]) = i
    BY <1>4, <2>3
  <2>5. List(p)[Rank(E, n)] = n
    BY <2>2, <2>4
  <2> QED BY <2>1, <2>5
<1> QED BY <1>1, <1>2, <1>3, <1>4, <1>5 DEF E

-----------------------------------------------------------------------------
(* Marks and counters.                                                     *)

LEMMA MarkAllIs ==
  ASSUME NEW p, Listed(p), NEW names, NEW m \in BOOLEAN,
         m => names \subseteq p.names \cup {0}
  PROVE  /\ Listed(MarkAll(p, names, m)) /\ SameList(p, MarkAll(p, names, m))
         /\ MarkAll(p, names, m).mark
              = IF m THEN p.mark \cup (names \ {0}) ELSE p.mark \ names
<1> DEFINE new == {n \in names \ {0} : m # (n \in p.mark)}
           by == IF m THEN 1 ELSE -1
           mark == IF m THEN p.mark \cup new ELSE p.mark \ new
           q == MarkAll(p, names, m)
<1>1. /\ p \in PanelRec /\ p.mark \subseteq p.names /\ p.sized \subseteq p.names
      /\ p.names \subseteq Names /\ 0 \notin p.mark /\ 0 \notin Names
  BY NamesAre DEF Listed, Filled, PanelRec
<1>2. /\ p.marked = Cardinality(p.mark)
      /\ p.dirs_marked = Cardinality(DirsOf(p, p.mark))
      /\ p.total = SizeOf(p, p.mark)
  BY DEF Listed, Summed
<1>3. q = [p EXCEPT !.mark = mark, !.marked = @ + by * Cardinality(new),
                    !.dirs_marked = @ + by * Cardinality(DirsOf(p, new)),
                    !.total = @ + by * SizeOf(p, new)]
  BY DEF MarkAll
<1>4. mark = IF m THEN p.mark \cup (names \ {0}) ELSE p.mark \ names
  BY <1>1
<1>5. mark \subseteq p.names /\ new \subseteq Names /\ mark \subseteq Names
  BY <1>1
<1> HIDE DEF q
<1>6. /\ q.mark = mark /\ SameList(p, q)
      /\ q.marked = p.marked + by * Cardinality(new)
      /\ q.dirs_marked = p.dirs_marked + by * Cardinality(DirsOf(p, new))
      /\ q.total = p.total + by * SizeOf(p, new)
      /\ q = [cwd |-> p.cwd, names |-> p.names, mark |-> mark, sized |-> p.sized,
              marked |-> q.marked, dirs_marked |-> q.dirs_marked,
              total |-> q.total, selected |-> p.selected,
              panelized |-> p.panelized]
  BY <1>1, <1>3 DEF PanelRec, SameList
<1>7. \A S : DirsOf(q, S) = DirsOf(p, S) /\ SizeOf(q, S) = SizeOf(p, S)
  BY <1>6 DEF DirsOf, SizeOf, SameList
<1>8. /\ q.marked = Cardinality(mark) /\ q.marked \in Int
      /\ q.dirs_marked = Cardinality(DirsOf(p, mark)) /\ q.dirs_marked \in Int
      /\ q.total = SizeOf(p, mark) /\ q.total \in Int
  <2> DEFINE old == IF m THEN p.mark ELSE p.mark \ new
  <2>1. /\ old \subseteq Names /\ old \cap new = {}
        /\ m => p.mark = old /\ mark = old \cup new
        /\ ~m => p.mark = old \cup new /\ mark = old
    BY <1>1, <1>5
  <2> HIDE DEF old, new, mark
  <2>2. /\ Cardinality(old) \in Nat /\ Cardinality(new) \in Nat
        /\ Cardinality(old \cup new) = Cardinality(old) + Cardinality(new)
    BY <1>5, <2>1, Sizes, Disjoint
  <2>3. /\ Cardinality(DirsOf(p, old)) \in Nat /\ SizeOf(p, old) \in Nat
        /\ Cardinality(DirsOf(p, new)) \in Nat /\ SizeOf(p, new) \in Nat
        /\ Cardinality(DirsOf(p, old \cup new))
             = Cardinality(DirsOf(p, old)) + Cardinality(DirsOf(p, new))
        /\ SizeOf(p, old \cup new) = SizeOf(p, old) + SizeOf(p, new)
    BY <1>5, <2>1, SizesAdd
  <2>4. CASE m
    <3>1. p.mark = old /\ mark = old \cup new /\ by = 1
      BY <2>1, <2>4
    <3> QED BY <1>2, <1>6, <2>2, <2>3, <3>1
  <2>5. CASE ~m
    <3>1. p.mark = old \cup new /\ mark = old /\ by = -1
      BY <2>1, <2>5
    <3> QED BY <1>2, <1>6, <2>2, <2>3, <3>1
  <2> QED BY <2>4, <2>5
<1>9. q \in PanelRec
  BY <1>1, <1>5, <1>6, <1>8 DEF PanelRec
<1>10. Filled(q)
  BY <1>1, <1>5, <1>6, <1>9 DEF Filled, SameList
<1>11. Summed(q)
  BY <1>6, <1>7, <1>8 DEF Summed
<1> QED BY <1>4, <1>6, <1>10, <1>11 DEF Listed, q

LEMMA MarksMore ==
  ASSUME NEW p, Listed(p), NEW names, names \subseteq p.names \cup {0}
  PROVE  /\ Listed(MarkAll(p, names, TRUE)) /\ SameList(p, MarkAll(p, names, TRUE))
         /\ MarkAll(p, names, TRUE).mark = p.mark \cup (names \ {0})
<1> DEFINE m == TRUE
<1>1. m \in BOOLEAN /\ m
  OBVIOUS
<1> HIDE DEF m
<1>2. /\ Listed(MarkAll(p, names, m)) /\ SameList(p, MarkAll(p, names, m))
      /\ MarkAll(p, names, m).mark = IF m THEN p.mark \cup (names \ {0}) ELSE p.mark \ names
  BY <1>1, MarkAllIs, ZenonT(60)
<1> QED BY <1>2 DEF m

LEMMA MarksLess ==
  ASSUME NEW p, Listed(p), NEW names
  PROVE  /\ Listed(MarkAll(p, names, FALSE)) /\ SameList(p, MarkAll(p, names, FALSE))
         /\ MarkAll(p, names, FALSE).mark = p.mark \ names
<1> DEFINE m == FALSE
<1>1. m \in BOOLEAN /\ ~m
  OBVIOUS
<1> HIDE DEF m
<1>w. m => names \subseteq p.names \cup {0}
  BY <1>1
<1>2. /\ Listed(MarkAll(p, names, m)) /\ SameList(p, MarkAll(p, names, m))
      /\ MarkAll(p, names, m).mark = IF m THEN p.mark \cup (names \ {0}) ELSE p.mark \ names
  BY <1>1, <1>w, MarkAllIs, ZenonT(60)
<1> QED BY <1>2 DEF m

LEMMA CleanedIs ==
  ASSUME NEW p, Filled(p)
  PROVE  Listed(Cleaned(p)) /\ SameList(p, Cleaned(p)) /\ Cleaned(p).mark = {}
<1> DEFINE q == Cleaned(p)
<1>1. q = [p EXCEPT !.mark = {}, !.marked = 0, !.dirs_marked = 0, !.total = 0]
  BY DEF Cleaned
<1>a. p \in PanelRec
  BY DEF Filled
<1>b. /\ q.mark = {} /\ q.marked = 0 /\ q.dirs_marked = 0 /\ q.total = 0
      /\ SameList(p, q)
      /\ q = [cwd |-> p.cwd, names |-> p.names, mark |-> {}, sized |-> p.sized,
              marked |-> 0, dirs_marked |-> 0, total |-> 0,
              selected |-> p.selected, panelized |-> p.panelized]
  BY <1>1, <1>a DEF PanelRec, SameList
<1>2. /\ q.mark = {} /\ q.marked = 0 /\ q.dirs_marked = 0 /\ q.total = 0
      /\ SameList(p, q) /\ q \in PanelRec
  BY <1>a, <1>b DEF PanelRec
<1> HIDE DEF q
<1>3. DirsOf(q, {}) = {} /\ {} \ DirsOf(q, {}) = {} /\ DirsOf(q, {}) \cap q.sized = {}
  BY DEF DirsOf
<1>4. Cardinality({}) = 0
  BY FS_EmptySet
<1>5. SizeOf(q, {}) = 0
  BY <1>3, <1>4 DEF SizeOf
<1>6. Summed(q)
  BY <1>2, <1>3, <1>4, <1>5 DEF Summed
<1>7. Filled(q)
  BY <1>2 DEF Filled, SameList
<1> QED BY <1>2, <1>6, <1>7 DEF Listed, q

LEMMA RecalculateIs ==
  ASSUME NEW p, Filled(p)
  PROVE  /\ Listed(Recalculate(p)) /\ SameList(p, Recalculate(p))
         /\ Recalculate(p).mark = p.mark
<1> DEFINE c == Cleaned(p)
<1>1. Listed(c) /\ SameList(p, c) /\ c.mark = {}
  BY CleanedIs
<1>2. p.mark \subseteq c.names \cup {0} /\ 0 \notin p.mark
  BY <1>1, NamesAre DEF Filled, PanelRec, SameList
<1>3. Recalculate(p) = MarkAll(c, p.mark, TRUE)
  BY DEF Recalculate
<1> HIDE DEF c
<1> DEFINE r == MarkAll(c, p.mark, TRUE)
<1>4. Listed(r) /\ SameList(c, r) /\ r.mark = c.mark \cup (p.mark \ {0})
  BY <1>1, <1>2, MarksMore
<1> HIDE DEF r
<1>5. Recalculate(p) = r
  BY <1>3 DEF r
<1> QED BY <1>1, <1>2, <1>4, <1>5 DEF SameList

-----------------------------------------------------------------------------
(* The selection, and a list that is read again.                           *)

LEMMA LeastOfTwo ==
  ASSUME NEW i \in Int, NEW j \in Int
  PROVE  Min({i, j}) \in {i, j} /\ Min({i, j}) <= i /\ Min({i, j}) <= j
<1>1. \E x \in {i, j} : \A y \in {i, j} : x <= y
  <2>1. CASE i <= j
    BY <2>1
  <2>2. CASE j <= i
    BY <2>2
  <2> QED BY <2>1, <2>2
<1> QED BY <1>1 DEF Min

LEMMA LeastOfOne ==
  ASSUME NEW i \in Int
  PROVE  Min({i}) = i
BY DEF Min

LEMMA SelectedIs ==
  ASSUME NEW p, Listed(p), NEW i \in Nat, i <= Count(p) - 1
  PROVE  Good([p EXCEPT !.selected = i])
<1> DEFINE q == [p EXCEPT !.selected = i]
<1>1. p \in PanelRec
  BY DEF Listed, Filled
<1>2. q = [cwd |-> p.cwd, names |-> p.names, mark |-> p.mark, sized |-> p.sized,
           marked |-> p.marked, dirs_marked |-> p.dirs_marked, total |-> p.total,
           selected |-> i, panelized |-> p.panelized]
  BY <1>1 DEF PanelRec
<1>3. q \in PanelRec
  BY <1>1, <1>2 DEF PanelRec
<1>4. /\ q.cwd = p.cwd /\ q.names = p.names /\ q.mark = p.mark /\ q.sized = p.sized
      /\ q.marked = p.marked /\ q.dirs_marked = p.dirs_marked /\ q.total = p.total
      /\ q.selected = i /\ q.panelized = p.panelized
  BY <1>2
<1> HIDE DEF q
<1>5. Filled(q)
  BY <1>3, <1>4 DEF Filled, Listed
<1>6. \A S : DirsOf(q, S) = DirsOf(p, S) /\ SizeOf(q, S) = SizeOf(p, S)
  BY <1>4 DEF DirsOf, SizeOf
<1>7. Summed(q)
  BY <1>4, <1>6 DEF Summed, Listed
<1>8. Count(q) = Count(p) /\ Count(p) \in Nat
  BY <1>4, ListIs DEF Count, Entries, Listed
<1> QED BY <1>4, <1>5, <1>7, <1>8 DEF Good, Listed, q

LEMMA TryToSelectIs ==
  ASSUME NEW p, Listed(p), NEW name
  PROVE  LET q == TryToSelect(p, name) IN
         /\ Good(q) /\ q.cwd = p.cwd /\ q.names = p.names /\ q.mark = p.mark
         /\ q.panelized = p.panelized
         /\ name \in Entries(p) => Selection(q) = name
<1> DEFINE q == TryToSelect(p, name)
           s == IF PlaceOf(p, name) # {} THEN Min(PlaceOf(p, name)) - 1
                ELSE Min({p.selected, Count(p) - 1})
<1>0. p \in PanelRec /\ Filled(p)
  BY DEF Listed, Filled
<1>1. q = [p EXCEPT !.selected = s]
  BY <1>0 DEF TryToSelect, PanelRec
<1>2. /\ Count(p) \in Nat \ {0} /\ DOMAIN List(p) = 1 .. Count(p)
      /\ \A n \in Entries(p) : \E i \in 1 .. Count(p) : List(p)[i] = n
      /\ \A i, j \in 1 .. Count(p) : List(p)[i] = List(p)[j] => i = j
  BY <1>0, ListIs
<1>3. /\ s \in Nat /\ s <= Count(p) - 1
      /\ name \in Entries(p) => List(p)[s + 1] = name
  <2>1. CASE PlaceOf(p, name) # {}
    <3>1. PICK i \in 1 .. Count(p) : List(p)[i] = name
      BY <1>2, <2>1 DEF PlaceOf
    <3>2. PlaceOf(p, name) = {i}
      BY <1>2, <3>1 DEF PlaceOf
    <3>3. s = i - 1
      BY <3>1, <3>2, LeastOfOne
    <3> QED BY <1>2, <3>1, <3>3
  <2>2. CASE PlaceOf(p, name) = {}
    <3>1. name \notin Entries(p)
      BY <1>2, <2>2 DEF PlaceOf
    <3>2. p.selected \in Int /\ Count(p) - 1 \in Int /\ p.selected \in Nat
      BY <1>0, <1>2 DEF PanelRec
    <3>3. s = Min({p.selected, Count(p) - 1})
      BY <2>2
    <3>4. s \in {p.selected, Count(p) - 1} /\ s <= Count(p) - 1
      BY <3>2, <3>3, LeastOfTwo
    <3> QED BY <1>2, <3>1, <3>2, <3>4
  <2> QED BY <2>1, <2>2
<1> HIDE DEF s, q
<1>4. Good(q)
  BY <1>1, <1>3, SelectedIs
<1>5. /\ q.cwd = p.cwd /\ q.names = p.names /\ q.mark = p.mark
      /\ q.panelized = p.panelized /\ q.selected = s
  BY <1>0, <1>1 DEF PanelRec
<1>6. List(q) = List(p)
  BY <1>5 DEF List, Entries
<1>7. name \in Entries(p) => Selection(q) = name
  BY <1>3, <1>5, <1>6 DEF Selection
<1> QED BY <1>4, <1>5, <1>7 DEF q

LEMMA MoveDownIs ==
  ASSUME NEW p, Good(p)
  PROVE  Good(MoveDown(p)) /\ MoveDown(p).names = p.names
<1>1. p \in PanelRec /\ Filled(p) /\ Listed(p)
  BY DEF Good, Listed, Filled
<1>2. Count(p) \in Nat \ {0} /\ p.selected \in 0 .. Count(p) - 1
  BY <1>1, ListIs DEF Good
<1> DEFINE s == Min({p.selected + 1, Count(p) - 1})
<1>a. p.selected + 1 \in Int /\ Count(p) - 1 \in Int /\ p.selected \in Nat
  BY <1>2
<1>3. s \in {p.selected + 1, Count(p) - 1} /\ s <= Count(p) - 1
  BY <1>a, LeastOfTwo
<1>4. MoveDown(p) = [p EXCEPT !.selected = s]
  BY <1>1 DEF MoveDown, PanelRec
<1> HIDE DEF s
<1>5. MoveDown(p).names = p.names
  BY <1>1, <1>4 DEF PanelRec
<1> QED BY <1>1, <1>2, <1>a, <1>3, <1>4, <1>5, SelectedIs

LEMMA LoadDirIs ==
  ASSUME NEW fs, NEW p, Filled(p), NEW d \in {"top", "sub"}
  PROVE  Good(LoadDir(fs, p, d)) /\ LoadDir(fs, p, d).cwd = d
<1> DEFINE c == Cleaned(p)
           e == [c EXCEPT !.cwd = d, !.names = Listing(fs, d), !.sized = {}]
           q == LoadDir(fs, p, d)
<1>1. Listing(fs, d) \subseteq Names
  BY DEF Listing, Names
<1>2. c \in PanelRec /\ c.mark = {} /\ Summed(c)
  BY CleanedIs DEF Listed, Filled
<1>3. q = [e EXCEPT !.selected = 0, !.panelized = FALSE]
  BY <1>2 DEF LoadDir, PanelRec
<1> HIDE DEF c
<1>4. /\ e.cwd = d /\ e.names = Listing(fs, d) /\ e.mark = c.mark /\ e.sized = {}
      /\ e.marked = c.marked /\ e.dirs_marked = c.dirs_marked /\ e.total = c.total
      /\ e.selected = c.selected /\ e.panelized = c.panelized
  BY <1>2 DEF PanelRec
<1>a. Listing(fs, d) \in SUBSET Names /\ {} \in SUBSET Names
  BY <1>1
<1>b. e \in PanelRec
  BY <1>2, <1>a DEF PanelRec
<1> HIDE DEF e
<1>5. /\ q.cwd = d /\ q.names = Listing(fs, d) /\ q.mark = {} /\ q.sized = {}
      /\ q.marked = c.marked /\ q.dirs_marked = c.dirs_marked /\ q.total = c.total
      /\ q.selected = 0
  BY <1>2, <1>3, <1>4, <1>b DEF PanelRec
<1>c. q \in PanelRec
  <2> DEFINE g == [e EXCEPT !.selected = 0]
  <2>1. g \in PanelRec
    BY <1>b DEF PanelRec
  <2>2. q = [g EXCEPT !.panelized = FALSE]
    BY <1>3, <1>b DEF PanelRec
  <2> HIDE DEF g
  <2> QED BY <2>1, <2>2 DEF PanelRec
<1> HIDE DEF q
<1>6. Filled(q)
  BY <1>5, <1>c DEF Filled
<1>7. DirsOf(q, {}) = {} /\ DirsOf(c, {}) = {} /\ SizeOf(q, {}) = SizeOf(c, {})
  BY DEF DirsOf, SizeOf
<1>8. Summed(q)
  BY <1>2, <1>5, <1>7 DEF Summed
<1>9. Count(q) \in Nat \ {0}
  BY <1>6, ListIs
<1> QED BY <1>5, <1>6, <1>8, <1>9 DEF Good, Listed, q

LEMMA PanelReloadIs ==
  ASSUME NEW fs, NEW p, Listed(p)
  PROVE  LET q == PanelReload(fs, p) IN
         /\ Listed(q) /\ q.cwd = Chdir(fs, "top", p.cwd)
         /\ q.names = Listing(fs, q.cwd) /\ q.mark = p.mark \cap q.names
<1> DEFINE d == Chdir(fs, "top", p.cwd)
           new == [p EXCEPT !.cwd = d, !.names = Listing(fs, d), !.sized = {},
                            !.mark = @ \cap Listing(fs, d)]
           i == Min({p.selected, Count(new) - 1})
           e == [new EXCEPT !.selected = i]
           q == PanelReload(fs, p)
<1>1. p \in PanelRec
  BY DEF Listed, Filled
<1>2. d \in {"top", "sub"}
  BY <1>1 DEF Chdir, PanelRec
<1>3. Listing(fs, d) \in SUBSET Names /\ {} \in SUBSET Names
      /\ p.mark \cap Listing(fs, d) \in SUBSET Names
  BY DEF Listing, Names
<1> HIDE DEF d
<1>4. /\ new.cwd = d /\ new.names = Listing(fs, d) /\ new.sized = {}
      /\ new.mark = p.mark \cap Listing(fs, d) /\ new.selected = p.selected
  BY <1>1 DEF PanelRec
<1>5. new \in PanelRec
  <2> DEFINE f == [p EXCEPT !.cwd = d, !.names = Listing(fs, d)]
  <2>1. f \in PanelRec
    BY <1>1, <1>2, <1>3 DEF PanelRec
  <2>2. f.mark = p.mark
    BY <1>1 DEF PanelRec
  <2>3. new = [f EXCEPT !.sized = {}, !.mark = p.mark \cap Listing(fs, d)]
    BY <1>1 DEF PanelRec
  <2> HIDE DEF f, new
  <2> QED BY <1>3, <2>1, <2>3 DEF PanelRec
<1>6. q = Recalculate(e)
  BY <1>1, <1>4 DEF PanelReload, d
<1> HIDE DEF new
<1>7. Filled(new)
  BY <1>4, <1>5 DEF Filled
<1>8. Count(new) \in Nat \ {0} /\ p.selected \in Nat
  BY <1>1, <1>7, ListIs DEF PanelRec
<1>9. i \in Nat
  <2> DEFINE j == Count(new) - 1
  <2>1. p.selected \in Nat /\ p.selected \in Int /\ j \in Nat /\ j \in Int
    BY <1>8
  <2> HIDE DEF j
  <2>2. Min({p.selected, j}) \in {p.selected, j}
    BY <2>1, LeastOfTwo
  <2>3. i = Min({p.selected, j})
    BY DEF j
  <2> QED BY <2>1, <2>2, <2>3
<1> HIDE DEF i
<1>10. e \in PanelRec
  BY <1>5, <1>9 DEF PanelRec
<1>11. e.cwd = d /\ e.names = Listing(fs, d) /\ e.sized = {}
       /\ e.mark = p.mark \cap Listing(fs, d)
  BY <1>4, <1>5 DEF PanelRec
<1> HIDE DEF e, q
<1>12. Filled(e)
  BY <1>10, <1>11 DEF Filled
<1>13. Listed(q) /\ SameList(e, q) /\ q.mark = e.mark
  BY <1>6, <1>12, RecalculateIs
<1>14. q.cwd = d /\ q.names = Listing(fs, q.cwd) /\ q.mark = p.mark \cap q.names
  BY <1>11, <1>13 DEF SameList
<1> QED BY <1>13, <1>14 DEF q, d

LEMMA ReloadPanelizedIs ==
  ASSUME NEW fs, NEW from, NEW p, Listed(p)
  PROVE  Listed(ReloadPanelized(fs, p, from))
<1> DEFINE m == MarkAll(p, p.mark, FALSE)
           names == {n \in m.names : Exists(fs, from, n)}
           sized == {n \in m.sized : Exists(fs, from, n)}
           q == ReloadPanelized(fs, p, from)
<1>1. Listed(m) /\ m.mark = {}
  <2>1. Listed(m) /\ m.mark = p.mark \ p.mark
    BY MarksLess
  <2> QED BY <2>1
<1> HIDE DEF m
<1>2. m \in PanelRec /\ m.names \subseteq Names /\ m.sized \subseteq m.names
  BY <1>1 DEF Listed, Filled, PanelRec
<1>3. q = [m EXCEPT !.names = names, !.sized = sized]
  BY <1>2 DEF ReloadPanelized, m, PanelRec
<1>4. names \in SUBSET Names /\ sized \in SUBSET Names /\ sized \subseteq names
  BY <1>2
<1> HIDE DEF names, sized
<1>5. /\ q.cwd = m.cwd /\ q.mark = {} /\ q.names = names /\ q.sized = sized
      /\ q.marked = m.marked /\ q.dirs_marked = m.dirs_marked /\ q.total = m.total
  BY <1>1, <1>2, <1>3 DEF PanelRec
<1>6. q \in PanelRec
  BY <1>2, <1>3, <1>4 DEF PanelRec
<1> HIDE DEF q
<1>7. Filled(q)
  BY <1>4, <1>5, <1>6 DEF Filled
<1>8. /\ DirsOf(q, {}) = {} /\ DirsOf(m, {}) = {}
      /\ {} \cap q.sized = {} /\ {} \cap m.sized = {}
  BY DEF DirsOf
<1>9. SizeOf(q, {}) = SizeOf(m, {})
  BY <1>8 DEF SizeOf
<1>10. Summed(q)
  BY <1>1, <1>5, <1>8, <1>9 DEF Summed, Listed
<1> QED BY <1>7, <1>10 DEF Listed, q

LEMMA UpdatePanelIs ==
  ASSUME NEW fs, NEW from, NEW p, Listed(p), NEW reload \in BOOLEAN
  PROVE  LET q == UpdatePanel(fs, p, reload, from) IN
         /\ Good(q)
         /\ ~p.panelized =>
              /\ q.cwd = Chdir(fs, "top", p.cwd)
              /\ q.names = Listing(fs, q.cwd) /\ q.mark = p.mark \cap q.names
              /\ Selection(p) \in q.names => Selection(q) = Selection(p)
<1> DEFINE e == [p EXCEPT !.panelized = @ /\ ~reload]
           r == IF e.panelized THEN ReloadPanelized(fs, e, from) ELSE PanelReload(fs, e)
           q == UpdatePanel(fs, p, reload, from)
<1>1. p \in PanelRec
  BY DEF Listed, Filled
<1>2. /\ e.cwd = p.cwd /\ e.names = p.names /\ e.mark = p.mark /\ e.sized = p.sized
      /\ e.marked = p.marked /\ e.dirs_marked = p.dirs_marked /\ e.total = p.total
      /\ e.panelized = (p.panelized /\ ~reload)
  BY <1>1 DEF PanelRec
<1>3. e \in PanelRec
  BY <1>1 DEF PanelRec
<1>4. q = TryToSelect(r, Selection(p))
  BY DEF UpdatePanel
<1> HIDE DEF e, q
<1>5. \A S : DirsOf(e, S) = DirsOf(p, S) /\ SizeOf(e, S) = SizeOf(p, S)
  BY <1>2 DEF DirsOf, SizeOf
<1>6. Listed(e)
  BY <1>2, <1>3, <1>5 DEF Listed, Filled, Summed
<1>7. Listed(r)
  BY <1>6, PanelReloadIs, ReloadPanelizedIs
<1>8. /\ Good(q) /\ q.cwd = r.cwd /\ q.names = r.names /\ q.mark = r.mark
      /\ Selection(p) \in Entries(r) => Selection(q) = Selection(p)
  <2> HIDE DEF r
  <2> QED BY <1>4, <1>7, TryToSelectIs
<1>9. ASSUME ~p.panelized
      PROVE  /\ q.cwd = Chdir(fs, "top", p.cwd)
             /\ q.names = Listing(fs, q.cwd) /\ q.mark = p.mark \cap q.names
  <2>1. r = PanelReload(fs, e)
    BY <1>2, <1>9
  <2> HIDE DEF r
  <2> QED BY <1>2, <1>6, <1>8, <2>1, PanelReloadIs
<1>10. Selection(p) \in q.names => Selection(q) = Selection(p)
  BY <1>8 DEF Entries
<1> QED BY <1>8, <1>9, <1>10 DEF q

(* Both panels are read again, and mc ends in the directory of the current *)
(* one if it can be entered.                                               *)
LEMMA UpdatePanelsIs ==
  ASSUME NEW fs, NEW cur, NEW reload \in BOOLEAN, NEW both \in BOOLEAN,
         Listed(cur), Good(other_panel), wd \in {"top", "sub"},
         UpdatePanels(fs, cur, reload, both)
  PROVE  /\ PanelsOK' /\ PlaceOK'
         /\ current_panel' = UpdatePanel(fs, cur, reload, wd)
         /\ ~both => other_panel' = other_panel
         /\ both => \E from : other_panel' = UpdatePanel(fs, other_panel, reload, from)
<1> DEFINE p == current_panel'
           q == other_panel'
           w == IF p.panelized THEN wd ELSE p.cwd
           v == CASE ~both -> w
                  [] both /\ q.panelized -> Chdir(fs, Chdir(fs, w, q.cwd), p.cwd)
                  [] both /\ ~q.panelized -> q.cwd
<1>1. /\ p = UpdatePanel(fs, cur, reload, wd)
      /\ q = IF both THEN UpdatePanel(fs, other_panel, reload, Chdir(fs, w, other_panel.cwd))
             ELSE other_panel
      /\ wd' = Chdir(fs, v, p.cwd)
      /\ lost' = ~DirExists(fs, p.cwd)
  BY DEF UpdatePanels
<1>2. Good(p) /\ Good(q)
  BY <1>1, UpdatePanelIs DEF Good
<1>3. p.cwd \in {"top", "sub"} /\ q.cwd \in {"top", "sub"}
  BY <1>2 DEF Good, Listed, Filled, PanelRec
<1> HIDE DEF p, q
<1>4. w \in {"top", "sub"}
  BY <1>3
<1> HIDE DEF w
<1>5. v \in {"top", "sub"}
  BY <1>3, <1>4 DEF Chdir
<1> HIDE DEF v
<1>6. wd' \in {"top", "sub"} /\ lost' \in BOOLEAN
  BY <1>1, <1>3, <1>5 DEF Chdir
<1>7. lost' \/ wd' = p.cwd
  BY <1>1 DEF Chdir
<1>8. PlaceOK'
  BY <1>6, <1>7 DEF PlaceOK, WorksWhereShown, p
<1>9. PanelsOK'
  BY <1>2 DEF PanelsOK, p, q
<1> QED BY <1>1, <1>8, <1>9 DEF p, q

-----------------------------------------------------------------------------
(* What the commands do to one panel.                                      *)

LEMMA StaysGood ==
  ASSUME NEW p, NEW q, Good(p), Listed(q), SameList(p, q)
  PROVE  Good(q)
BY DEF Good, SameList, Count, Entries

LEMMA SizedIs ==
  ASSUME NEW p, NEW done, Good(p), done \subseteq p.names
  PROVE  Good(Recalculate([p EXCEPT !.sized = @ \cup done]))
<1> DEFINE e == [p EXCEPT !.sized = @ \cup done]
           q == Recalculate(e)
<1>1. /\ p \in PanelRec /\ p.mark \subseteq p.names /\ p.sized \subseteq p.names
      /\ p.names \subseteq Names
  BY DEF Good, Listed, Filled, PanelRec
<1>2. p.sized \cup done \in SUBSET Names /\ p.sized \cup done \subseteq p.names
  BY <1>1
<1>3. /\ e.cwd = p.cwd /\ e.names = p.names /\ e.mark = p.mark
      /\ e.selected = p.selected /\ e.panelized = p.panelized
      /\ e.sized = p.sized \cup done
  BY <1>1 DEF PanelRec
<1>4. e \in PanelRec
  BY <1>1, <1>2 DEF PanelRec
<1> HIDE DEF e
<1>5. Listed(q) /\ SameList(e, q)
  BY <1>1, <1>2, <1>3, <1>4, RecalculateIs DEF Filled
<1> HIDE DEF q
<1>6. q.selected = p.selected /\ Count(q) = Count(p)
  BY <1>3, <1>5 DEF SameList, Count, Entries
<1> QED BY <1>5, <1>6 DEF Good, q, e

LEMMA PanelizedIs ==
  ASSUME NEW p, NEW names, Filled(p), names \subseteq Names
  PROVE  LET q == [Cleaned(p) EXCEPT !.names = names, !.sized = {},
                                     !.selected = 0, !.panelized = TRUE]
         IN Good(q) /\ q.cwd = p.cwd
<1> DEFINE c == Cleaned(p)
           e == [c EXCEPT !.names = names, !.sized = {}]
           g == [e EXCEPT !.selected = 0]
           q == [c EXCEPT !.names = names, !.sized = {}, !.selected = 0, !.panelized = TRUE]
<1>1. c \in PanelRec /\ c.mark = {} /\ Summed(c) /\ c.cwd = p.cwd
  BY CleanedIs DEF Listed, Filled, SameList
<1> HIDE DEF c
<1>2. q = [g EXCEPT !.panelized = TRUE]
  BY <1>1 DEF PanelRec
<1>3. names \in SUBSET Names /\ {} \in SUBSET Names
  OBVIOUS
<1>4. e \in PanelRec
  BY <1>1, <1>3 DEF PanelRec
<1>5. g \in PanelRec
  <2> HIDE DEF e
  <2> QED BY <1>4 DEF PanelRec
<1>6. q \in PanelRec
  <2> HIDE DEF g, q
  <2> QED BY <1>2, <1>5 DEF PanelRec
<1>7. /\ q.cwd = c.cwd /\ q.mark = {} /\ q.sized = {} /\ q.selected = 0
      /\ q.marked = c.marked /\ q.dirs_marked = c.dirs_marked /\ q.total = c.total
  BY <1>1 DEF PanelRec
<1> HIDE DEF q
<1>8. Filled(q)
  BY <1>6, <1>7 DEF Filled
<1>9. DirsOf(q, {}) = {} /\ DirsOf(c, {}) = {} /\ SizeOf(q, {}) = SizeOf(c, {})
  BY DEF DirsOf, SizeOf
<1>10. Summed(q)
  BY <1>1, <1>7, <1>9 DEF Summed
<1>11. Count(q) \in Nat \ {0}
  BY <1>8, ListIs
<1>12. Good(q)
  BY <1>7, <1>8, <1>10, <1>11 DEF Good, Listed
<1> QED BY <1>1, <1>7, <1>12 DEF q, c

(* A command that changes the current panel and nothing else.              *)
LEMMA QuietKeeps ==
  ASSUME IInv, NEW p, Good(p), p.cwd = current_panel.cwd, Become(p), Quiet
  PROVE  IInv'
BY DEF IInv, DiskOK, PanelsOK, PlaceOK, OpOK, WorksWhereShown, Become, Quiet

LEMMA MarkKeeps ==
  ASSUME IInv, Mark
  PROVE  IInv'
<1> DEFINE p == current_panel
<1>1. Good(p) /\ Good(other_panel)
  BY DEF IInv, PanelsOK
<1>2. /\ p \in PanelRec /\ p.mark \subseteq p.names /\ Listed(p) /\ Filled(p)
      /\ Listed(other_panel) /\ Filled(other_panel)
  BY <1>1 DEF Good, Listed, Filled
<1> HIDE DEF p
<1>3. Selection(p) \in p.names \cup {0}
  <2>1. p.selected \in 0 .. Count(p) - 1 /\ Count(p) \in Nat
    BY <1>1, <1>2, ListIs DEF Good
  <2>2. p.selected + 1 \in 1 .. Count(p)
    BY <2>1
  <2> QED BY <1>2, <2>2, ListIs DEF Selection
<1>4. ASSUME NEW i \in 0 .. Count(p) - 1, MoveTo(i)
      PROVE  IInv'
  <2> DEFINE q == [p EXCEPT !.selected = i]
  <2>1. i \in Nat /\ i <= Count(p) - 1
    BY <1>2, <1>4, ListIs
  <2>2. Good(q) /\ q.cwd = p.cwd
    BY <1>2, <2>1, SelectedIs DEF PanelRec
  <2>3. Become(q) /\ Quiet
    BY <1>4 DEF MoveTo, p
  <2> HIDE DEF q
  <2> QED BY <2>2, <2>3, QuietKeeps DEF p
<1>5. ASSUME MarkFile
      PROVE  IInv'
  <2> DEFINE m == Selection(p) \notin p.mark
             q == MarkAll(p, {Selection(p)}, m)
  <2>1. m \in BOOLEAN
    OBVIOUS
  <2>2. Become(q) \/ Become(MoveDown(q))
    BY <1>5 DEF MarkFile, FileMark, p
  <2>3. Quiet
    BY <1>5 DEF MarkFile
  <2> HIDE DEF m
  <2>4. Listed(q) /\ SameList(p, q)
    BY <1>2, <1>3, <2>1, MarkAllIs
  <2> HIDE DEF q
  <2>5. Good(q) /\ q.cwd = p.cwd
    BY <1>1, <2>4, StaysGood DEF SameList
  <2>6. Good(MoveDown(q)) /\ MoveDown(q).cwd = p.cwd
    BY <2>5, MoveDownIs DEF MoveDown, Good, Listed, Filled, PanelRec
  <2> QED BY <2>2, <2>3, <2>5, <2>6, QuietKeeps DEF p
<1>6. ASSUME NEW names \in SUBSET p.names, NEW m \in BOOLEAN, SelectGroup(names, m)
      PROVE  IInv'
  <2> DEFINE q == MarkAll(p, names, m)
  <2>1. Become(q) /\ Quiet
    BY <1>6 DEF SelectGroup, p
  <2>2. Listed(q) /\ SameList(p, q)
    BY <1>2, MarkAllIs
  <2> HIDE DEF q
  <2>3. Good(q) /\ q.cwd = p.cwd
    BY <1>1, <2>2, StaysGood DEF SameList
  <2> QED BY <2>1, <2>3, QuietKeeps DEF p
<1>7. ASSUME NEW which, which \subseteq p.names, ReverseSelection(which)
      PROVE  IInv'
  <2> DEFINE e == MarkAll(p, which \ p.mark, TRUE)
             q == MarkAll(e, which \cap p.mark, FALSE)
  <2>1. Become(q) /\ Quiet
    BY <1>7 DEF ReverseSelection, p
  <2>2. Listed(e) /\ SameList(p, e)
    BY <1>2, <1>7, MarksMore
  <2> HIDE DEF e
  <2>3. Listed(q) /\ SameList(e, q)
    BY <2>2, MarksLess
  <2> HIDE DEF q
  <2>4. SameList(p, q)
    BY <2>2, <2>3 DEF SameList
  <2>5. Good(q) /\ q.cwd = p.cwd
    BY <1>1, <2>3, <2>4, StaysGood DEF SameList
  <2> QED BY <2>1, <2>5, QuietKeeps DEF p
<1>8. ASSUME CompareDirs
      PROVE  IInv'
  <2>1. \A r, o, q : Good(r) /\ q \in Compared(r, o) => Good(q) /\ q.cwd = r.cwd
    <3>1. SUFFICES ASSUME NEW r, NEW o, NEW m, Good(r), m \subseteq Regular(r)
                   PROVE  LET q == MarkAll(Cleaned(r), m, TRUE) IN
                          Good(q) /\ q.cwd = r.cwd
      BY DEF Compared
    <3> DEFINE c == Cleaned(r)
               q == MarkAll(c, m, TRUE)
    <3>2. Listed(c) /\ SameList(r, c) /\ m \subseteq r.names
      BY <3>1, CleanedIs DEF Good, Listed, Regular
    <3> HIDE DEF c
    <3>3. Listed(q) /\ SameList(c, q)
      BY <3>2, MarksMore DEF SameList
    <3>4. SameList(r, q)
      BY <3>2, <3>3 DEF SameList
    <3> HIDE DEF q
    <3>5. Good(q) /\ q.cwd = r.cwd
      BY <3>1, <3>3, <3>4, StaysGood DEF SameList
    <3> QED BY <3>5 DEF q, c
  <2>2. /\ Good(current_panel') /\ Good(other_panel')
        /\ current_panel'.cwd = current_panel.cwd
    BY <1>1, <1>8, <2>1 DEF CompareDirs, p
  <2> QED BY <1>8, <2>2 DEF CompareDirs, IInv, DiskOK, PanelsOK, PlaceOK, OpOK,
                           WorksWhereShown, Quiet
<1>9. ASSUME NEW q, NEW done, Good(q), q.cwd = p.cwd, done \subseteq q.names,
             Sized(q, done), Quiet
      PROVE  IInv'
  <2> DEFINE e == [q EXCEPT !.sized = @ \cup done]
             r == Recalculate(e)
  <2>1. Become(r)
    BY <1>9 DEF Sized
  <2>2. Good(r)
    BY <1>9, SizedIs
  <2>3. r.cwd = p.cwd
    <3>1. q \in PanelRec
      BY <1>9 DEF Good, Listed, Filled
    <3>2. r.cwd = e.cwd
      BY DEF Recalculate, MarkAll, Cleaned
    <3> QED BY <1>9, <3>1, <3>2 DEF PanelRec
  <2> HIDE DEF r
  <2> QED BY <1>9, <2>1, <2>2, <2>3, QuietKeeps DEF p
<1>10. ASSUME SingleDirsize
       PROVE  IInv'
  <2>1. PICK done \in SUBSET (Subdirs(p) \cap {Selection(p)}), q \in {p, MoveDown(p)} :
          Sized(q, done)
    BY <1>10 DEF SingleDirsize, p
  <2>2. Good(q) /\ q.cwd = p.cwd /\ q.names = p.names
    BY <1>1, <1>2, MoveDownIs DEF MoveDown, PanelRec
  <2>3. done \subseteq q.names /\ Quiet
    BY <1>10, <2>2 DEF SingleDirsize, Subdirs, DirsOf
  <2> QED BY <1>9, <2>1, <2>2, <2>3
<1>11. ASSUME Dirsizes
       PROVE  IInv'
  <2>1. PICK done : Sized(p, done) /\ done \subseteq Subdirs(p)
    BY <1>11 DEF Dirsizes, p
  <2>2. done \subseteq p.names /\ Quiet
    BY <1>11, <2>1 DEF Dirsizes, Subdirs, DirsOf
  <2> QED BY <1>1, <1>9, <2>1, <2>2
<1>12. Regular(p) \subseteq p.names
  BY DEF Regular
<1> QED BY <1>4, <1>5, <1>6, <1>7, <1>8, <1>10, <1>11, <1>12 DEF Mark, p

LEMMA ShowKeeps ==
  ASSUME IInv, Show
  PROVE  IInv'
<1>1. Good(current_panel) /\ Good(other_panel) /\ wd \in {"top", "sub"}
  BY DEF IInv, PanelsOK, PlaceOK
<1>2. /\ Filled(current_panel) /\ Listed(current_panel) /\ Filled(other_panel)
      /\ current_panel.cwd \in {"top", "sub"} /\ other_panel.cwd \in {"top", "sub"}
  BY <1>1 DEF Good, Listed, Filled, PanelRec
<1>3. ASSUME NEW d \in {"top", "sub"}, PanelCd(d)
      PROVE  IInv'
  <2> DEFINE q == LoadDir(files, current_panel, d)
  <2>1. Good(q) /\ q.cwd = d
    BY <1>2, LoadDirIs
  <2>2. /\ current_panel' \in {q, TryToSelect(q, Sub)} /\ other_panel' = other_panel
        /\ wd' = d /\ lost' = FALSE /\ UNCHANGED <<files, op>>
    BY <1>3 DEF PanelCd, Become
  <2> HIDE DEF q
  <2>3. Good(current_panel') /\ current_panel'.cwd = d
    BY <2>1, <2>2, TryToSelectIs DEF Good
  <2> QED BY <2>2, <2>3 DEF IInv, DiskOK, PanelsOK, PlaceOK, OpOK, WorksWhereShown
<1>4. ASSUME NEW names \in SUBSET Listing(files, wd), ExternalPanelize(names)
      PROVE  IInv'
  <2> DEFINE q == [Cleaned(current_panel) EXCEPT !.names = names, !.sized = {},
                                          !.selected = 0, !.panelized = TRUE]
  <2>1. names \subseteq Names
    BY DEF Listing, Names
  <2>2. Good(q) /\ q.cwd = current_panel.cwd
    BY <1>2, <2>1, PanelizedIs
  <2>3. Become(q) /\ Quiet
    BY <1>4 DEF ExternalPanelize
  <2> HIDE DEF q
  <2> QED BY <2>2, <2>3, QuietKeeps
<1>5. ASSUME SyncOtherPanel
      PROVE  IInv'
  <2> DEFINE d == current_panel.cwd
             q == LoadDir(files, other_panel, d)
  <2>1. Good(q) /\ q.cwd = d
    BY <1>2, LoadDirIs
  <2>2. /\ other_panel' \in {q, TryToSelect(q, Selection(current_panel))}
        /\ wd' = d /\ lost' = FALSE /\ UNCHANGED <<files, current_panel, op>>
    BY <1>5 DEF SyncOtherPanel
  <2> HIDE DEF q
  <2>3. Good(other_panel')
    BY <2>1, <2>2, TryToSelectIs DEF Good
  <2> QED BY <1>2, <2>2, <2>3 DEF IInv, DiskOK, PanelsOK, PlaceOK, OpOK, WorksWhereShown
<1>6. ASSUME ChangePanel
      PROVE  IInv'
  <2>1. PlaceOK'
    BY <1>1, <1>2, <1>6 DEF ChangePanel, PlaceOK, WorksWhereShown, Chdir
  <2> QED BY <1>1, <1>6, <2>1 DEF ChangePanel, IInv, DiskOK, PanelsOK, OpOK
<1>7. ASSUME Reread
      PROVE  IInv'
  <2> DEFINE both == current_panel.cwd = other_panel.cwd
             reload == TRUE
  <2>1. both \in BOOLEAN /\ reload \in BOOLEAN
    OBVIOUS
  <2>2. UpdatePanels(files, current_panel, reload, both)
    BY <1>7 DEF Reread
  <2> HIDE DEF both, reload
  <2>3. PanelsOK' /\ PlaceOK'
    BY <1>1, <1>2, <2>1, <2>2, UpdatePanelsIs
  <2> QED BY <1>7, <2>3 DEF Reread, IInv, DiskOK, OpOK
<1>8. ASSUME Refresh
      PROVE  IInv'
  <2> DEFINE both == TRUE
             reload == FALSE
  <2>1. both \in BOOLEAN /\ reload \in BOOLEAN
    OBVIOUS
  <2>2. UpdatePanels(files, current_panel, reload, both)
    BY <1>8 DEF Refresh
  <2> HIDE DEF both, reload
  <2>3. PanelsOK' /\ PlaceOK'
    BY <1>1, <1>2, <2>1, <2>2, UpdatePanelsIs
  <2> QED BY <1>8, <2>3 DEF Refresh, IInv, DiskOK, OpOK
<1> QED BY <1>3, <1>4, <1>5, <1>6, <1>7, <1>8 DEF Show

(* What is gone takes what is in it along.                                 *)
LEMMA DiskStays ==
  ASSUME DiskOK, NEW gone
  PROVE  Without(files, gone) \subseteq Everything /\ Closed(Without(files, gone))
<1>1. Without(files, gone) \subseteq Everything
  BY DEF DiskOK, Without
<1>2. ASSUME NEW f \in Without(files, gone), f[1] = "sub"
      PROVE  <<"top", Sub>> \in Without(files, gone)
  <2>1. f \in files /\ <<"top", Sub>> \notin gone
    BY <1>2 DEF Without
  <2>2. <<"top", Sub>> \in files
    BY <1>2, <2>1 DEF DiskOK, Closed
  <2>3. <<"top", Sub>>[1] # "sub"
    OBVIOUS
  <2> QED BY <2>1, <2>2, <2>3 DEF Without
<1> QED BY <1>1, <1>2 DEF Closed

LEMMA OperateKeeps ==
  ASSUME IInv, Operate
  PROVE  IInv'
<1>1. Good(current_panel) /\ Good(other_panel) /\ wd \in {"top", "sub"}
  BY DEF IInv, PanelsOK, PlaceOK
<1>2. Filled(current_panel) /\ Listed(current_panel)
  BY <1>1 DEF Good, Listed
<1>3. ASSUME NEW force \in BOOLEAN, OperateAsks(force)
      PROVE  IInv'
  <2>1. op' = Idle \/ op'.at = "ask"
    BY <1>3 DEF OperateAsks
  <2>2. PanelsOK' /\ PlaceOK'
    <3>1. CASE current_panel.panelized
      BY <1>3, <3>1 DEF OperateAsks, IInv, PanelsOK, PlaceOK, WorksWhereShown
    <3>2. CASE ~current_panel.panelized
      <4> DEFINE both == TRUE
                 reload == TRUE
      <4>1. both \in BOOLEAN /\ reload \in BOOLEAN
        OBVIOUS
      <4>2. UpdatePanels(files, current_panel, reload, both)
        BY <1>3, <3>2 DEF OperateAsks
      <4> HIDE DEF both, reload
      <4> QED BY <1>1, <1>2, <4>1, <4>2, UpdatePanelsIs
    <3> QED BY <3>1, <3>2
  <2> QED BY <1>3, <2>1, <2>2 DEF OperateAsks, IInv, DiskOK, OpOK
<1>4. ASSUME NEW done, NEW moved \in BOOLEAN, OperateDoes(done, moved)
      PROVE  IInv'
  <2> DEFINE p == current_panel
             fs == IF moved THEN Without(files, Paths(p, done)) ELSE files
             unmarked == CASE ~op.single -> MarkAll(p, done, FALSE)
                           [] op.single /\ done # {} /\ ~op.force -> Cleaned(p)
                           [] OTHER -> p
             both == TRUE
             reload == FALSE
  <2>1. both \in BOOLEAN /\ reload \in BOOLEAN
    OBVIOUS
  <2>2. files' = fs /\ UpdatePanels(fs, unmarked, reload, both) /\ op' = Idle
    BY <1>4 DEF OperateDoes
  <2>3. DiskOK'
    <3>1. files' \subseteq Everything /\ Closed(files')
      BY <2>2, DiskStays DEF IInv, DiskOK
    <3> QED BY <3>1 DEF DiskOK, Everything, Closed
  <2>4. Listed(unmarked)
    BY <1>2, MarksLess, CleanedIs
  <2> HIDE DEF both, reload, fs, unmarked
  <2>5. PanelsOK' /\ PlaceOK'
    BY <1>1, <2>1, <2>2, <2>4, UpdatePanelsIs
  <2> QED BY <2>2, <2>3, <2>5 DEF IInv, OpOK
<1>5. ASSUME OperateRefused
      PROVE  IInv'
  BY <1>5 DEF OperateRefused, IInv, DiskOK, PanelsOK, PlaceOK, OpOK, WorksWhereShown
<1> QED BY <1>3, <1>4, <1>5 DEF Operate

LEMMA ChmodDoneKeeps ==
  ASSUME IInv, NEW p, NEW need_update, Listed(p), ChmodDone(p, need_update),
         UNCHANGED files
  PROVE  IInv'
<1>1. PanelsOK' /\ PlaceOK'
  <2>1. CASE need_update
    <3> DEFINE both == TRUE
               reload == FALSE
    <3>1. both \in BOOLEAN /\ reload \in BOOLEAN
      OBVIOUS
    <3>2. UpdatePanels(files, p, reload, both)
      BY <2>1 DEF ChmodDone
    <3> HIDE DEF both, reload
    <3>3. Good(other_panel) /\ wd \in {"top", "sub"}
      BY DEF IInv, PanelsOK, PlaceOK
    <3> QED BY <3>1, <3>2, <3>3, UpdatePanelsIs
  <2>2. CASE ~need_update
    BY <2>2 DEF ChmodDone, IInv, PanelsOK, PlaceOK, WorksWhereShown
  <2> QED BY <2>1, <2>2
<1>2. op' = Idle
  BY DEF ChmodDone
<1> QED BY <1>1, <1>2 DEF IInv, DiskOK, OpOK

LEMMA ChmodKeeps ==
  ASSUME IInv, Chmod
  PROVE  IInv'
<1>1. Good(current_panel) /\ Listed(current_panel)
  BY DEF IInv, PanelsOK, Good
<1>2. ASSUME ChmodCmd
      PROVE  IInv'
  <2>1. op' \in [at : {"chmod"}, need_update : BOOLEAN]
    BY <1>2 DEF ChmodCmd
  <2> QED BY <1>2, <2>1 DEF ChmodCmd, IInv, DiskOK, PanelsOK, PlaceOK, OpOK,
                            WorksWhereShown
<1>3. ASSUME ChmodGone
      PROVE  IInv'
  BY <1>1, <1>3, ChmodDoneKeeps DEF ChmodGone
<1>4. ASSUME ChmodSet
      PROVE  IInv'
  <2> DEFINE p == FileMark(current_panel, NextFile(current_panel), FALSE)
  <2>1. Listed(p) /\ SameList(current_panel, p)
    BY <1>1, MarksLess DEF FileMark
  <2> HIDE DEF p
  <2>2. Good(p) /\ p.cwd = current_panel.cwd
    BY <1>1, <2>1, StaysGood DEF SameList
  <2>3. CASE p.marked > 0
    <3>1. /\ Become(p) /\ op' = [op EXCEPT !.need_update = TRUE]
          /\ UNCHANGED <<files, wd, lost>> /\ op.at = "chmod"
      BY <1>4, <2>3 DEF ChmodSet, p
    <3>2. op \in [at : {"chmod"}, need_update : BOOLEAN]
      BY <3>1 DEF IInv, OpOK, Idle
    <3>3. op' \in [at : {"chmod"}, need_update : BOOLEAN]
      BY <3>1, <3>2
    <3> QED BY <2>2, <3>1, <3>3 DEF Become, IInv, DiskOK, PanelsOK, PlaceOK, OpOK,
                                   WorksWhereShown
  <2>4. CASE ~(p.marked > 0)
    <3>1. ChmodDone(p, TRUE) /\ UNCHANGED files
      BY <1>4, <2>4 DEF ChmodSet, p
    <3> QED BY <2>1, <3>1, ChmodDoneKeeps
  <2> QED BY <2>3, <2>4
<1>5. ASSUME ChmodAll
      PROVE  IInv'
  <2>1. PICK done : ChmodDone(MarkAll(current_panel, done, FALSE), TRUE)
    BY <1>5 DEF ChmodAll
  <2> DEFINE p == MarkAll(current_panel, done, FALSE)
  <2>2. Listed(p)
    BY <1>1, MarksLess
  <2>3. UNCHANGED files
    BY <1>5 DEF ChmodAll
  <2> HIDE DEF p
  <2>4. ChmodDone(p, TRUE)
    BY <2>1 DEF p
  <2> QED BY <2>2, <2>3, <2>4, ChmodDoneKeeps
<1>6. ASSUME ChmodCancelled
      PROVE  IInv'
  BY <1>1, <1>6, ChmodDoneKeeps DEF ChmodCancelled
<1> QED BY <1>2, <1>3, <1>4, <1>5, <1>6 DEF Chmod

LEMMA OthersKeep ==
  ASSUME IInv, Others
  PROVE  IInv'
<1>1. PICK f \in Everything : Create(f) \/ Delete(f)
  BY DEF Others
<1>2. files' \subseteq Everything /\ Closed(files')
  <2>1. CASE Create(f)
    <3>1. files' = files \cup {f} /\ DirExists(files, f[1])
      BY <2>1 DEF Create
    <3>2. f[1] = "sub" => <<"top", Sub>> \in files
      BY <3>1 DEF DirExists
    <3> QED BY <3>1, <3>2 DEF IInv, DiskOK, Closed
  <2>2. CASE Delete(f)
    BY <2>2, DiskStays DEF Delete, IInv
  <2> QED BY <1>1, <2>1, <2>2
<1>3. DiskOK'
  BY <1>2 DEF DiskOK, Everything, Closed
<1>4. UNCHANGED <<current_panel, other_panel, wd, lost, op>>
  BY <1>1 DEF Create, Delete
<1> QED BY <1>3, <1>4 DEF IInv, PanelsOK, PlaceOK, OpOK, WorksWhereShown

LEMMA InitOK ==
  ASSUME Init
  PROVE  IInv
<1> DEFINE p == [cwd |-> "top", names |-> {}, mark |-> {}, sized |-> {},
                 marked |-> 0, dirs_marked |-> 0, total |-> 0,
                 selected |-> 0, panelized |-> FALSE]
<1>1. p \in PanelRec
  BY DEF PanelRec
<1>2. Filled(p)
  BY <1>1 DEF Filled
<1>3. current_panel = LoadDir(files, p, "top") /\ other_panel = current_panel
  BY DEF Init
<1> HIDE DEF p
<1>4. Good(current_panel) /\ current_panel.cwd = "top"
  BY <1>2, <1>3, LoadDirIs
<1>5. DiskOK
  <2>1. <<"top", Sub>> \in Everything
    BY NamesAre DEF Everything
  <2> QED BY <2>1 DEF Init, DiskOK, Closed
<1>6. PlaceOK /\ OpOK
  BY <1>4 DEF Init, PlaceOK, OpOK, WorksWhereShown
<1> QED BY <1>3, <1>4, <1>5, <1>6 DEF IInv, PanelsOK

LEMMA StepOK ==
  ASSUME IInv, [Next]_vars
  PROVE  IInv'
<1>1. CASE UNCHANGED vars
  BY <1>1 DEF vars, IInv, DiskOK, PanelsOK, PlaceOK, OpOK, WorksWhereShown
<1> QED BY <1>1, MarkKeeps, ShowKeeps, OperateKeeps, ChmodKeeps, OthersKeep DEF Next

LEMMA Invariance == Spec => []IInv
<1>1. Init => IInv
  BY InitOK
<1>2. IInv /\ [Next]_vars => IInv'
  BY StepOK
<1> QED BY <1>1, <1>2, PTL DEF Spec

(* Whatever other processes do to the directories, and however the         *)
(* commands follow each other, the counters of a panel are those of its    *)
(* marks, marks and selection are in its list, and relative names are      *)
(* those of the directory it shows, if mc could enter that.                *)
THEOREM PanelsConsistent == Spec => []PanelsAreConsistent
<1>1. IInv => PanelsAreConsistent
  <2> SUFFICES ASSUME IInv
               PROVE  PanelsAreConsistent
    OBVIOUS
  <2>1. ASSUME NEW p, Good(p)
        PROVE  /\ p.cwd \in {"top", "sub"} /\ p.panelized \in BOOLEAN
               /\ p.mark \subseteq p.names /\ p.sized \subseteq p.names
               /\ p.selected \in 0 .. Count(p) - 1
               /\ Summed(p)
    BY <2>1 DEF Good, Listed, Filled, PanelRec
  <2>2. TypeOK
    BY <2>1 DEF IInv, DiskOK, PanelsOK, PlaceOK, OpOK, Idle, TypeOK
  <2>3. SummaryMatches
    BY <2>1 DEF IInv, PanelsOK, SummaryMatches, Summed
  <2> QED BY <2>2, <2>3 DEF PanelsAreConsistent, IInv, PlaceOK
<1> QED BY <1>1, Invariance, PTL

-----------------------------------------------------------------------------
(* What a panel that is read again keeps.                                  *)

LEMMA KeepsPanel ==
  ASSUME NEW fs, NEW from, NEW p, Good(p), NEW reload \in BOOLEAN
  PROVE  Kept(p, UpdatePanel(fs, p, reload, from))
BY UpdatePanelIs DEF Kept, Good

LEMMA StaysKept ==
  ASSUME NEW p, Good(p)
  PROVE  Kept(p, p)
BY DEF Kept, Good, Listed, Filled

(* Reading the panels again, by itself or as a command, keeps the marks    *)
(* and the selection of what is still there, by name, in both panels.      *)
THEOREM ReloadsKeep == Spec => ReloadKeeps
<1> DEFINE A == Refresh \/ Reread => /\ Kept(current_panel, current_panel')
                                    /\ Kept(other_panel, other_panel')
<1>1. IInv /\ [Next]_vars => [A]_vars
  <2> SUFFICES ASSUME IInv, Refresh \/ Reread
               PROVE  /\ Kept(current_panel, current_panel')
                      /\ Kept(other_panel, other_panel')
    OBVIOUS
  <2>1. PICK reload \in BOOLEAN, both \in BOOLEAN :
          UpdatePanels(files, current_panel, reload, both)
    BY DEF Refresh, Reread
  <2>2. Good(current_panel) /\ Listed(current_panel) /\ Good(other_panel)
        /\ wd \in {"top", "sub"}
    BY DEF IInv, PanelsOK, PlaceOK, Good
  <2>3. /\ current_panel' = UpdatePanel(files, current_panel, reload, wd)
        /\ ~both => other_panel' = other_panel
        /\ both => \E from : other_panel' = UpdatePanel(files, other_panel, reload, from)
    BY <2>1, <2>2, UpdatePanelsIs
  <2>4. Kept(current_panel, current_panel')
    BY <2>2, <2>3, KeepsPanel
  <2>5. Kept(other_panel, other_panel')
    BY <2>2, <2>3, KeepsPanel, StaysKept
  <2> QED BY <2>4, <2>5
<1> QED BY <1>1, Invariance, PTL DEF Spec, ReloadKeeps

-----------------------------------------------------------------------------
(* What a command works on.                                                *)

LEMMA OneMark ==
  ASSUME NEW S, S \subseteq Names, Cardinality(S) = 1
  PROVE  S = {Min(S)}
<1>1. IsFiniteSet(S)
  BY Sizes
<1>2. PICK n : S = {n}
  BY <1>1, FS_Singleton
<1>3. n \in Int
  BY <1>2, NamesAre
<1> QED BY <1>2, <1>3, LeastOfOne

(* A file operation works on the paths that were marked, or selected, when *)
(* the user gave the command, or not all of them exist any more.           *)
THEOREM OperatesOnWhatWasAsked == Spec => OperatesOnAsked
<1> DEFINE A == op = Idle /\ op'.at = "ask" =>
                  LET meant == Paths(current_panel, Meant(current_panel, op'.force)) IN
                  meant \subseteq files =>
                    Paths(current_panel', op'.source) = meant
<1>1. IInv /\ [Next]_vars => [A]_vars
  <2> SUFFICES ASSUME IInv, Next, op = Idle, op'.at = "ask"
               PROVE  LET meant == Paths(current_panel, Meant(current_panel, op'.force)) IN
                      meant \subseteq files =>
                        Paths(current_panel', op'.source) = meant
    BY DEF vars, Idle
  <2>1. \E force \in BOOLEAN : OperateAsks(force)
    <3>1. op.at = "idle" /\ op' # op /\ op' # Idle
      BY DEF Idle
    <3>2. ~Mark
      BY <3>1 DEF Mark, MoveTo, MarkFile, CompareDirs, SingleDirsize, Dirsizes,
                  SelectGroup, ReverseSelection, Quiet
    <3>3. ~Show
      BY <3>1 DEF Show, PanelCd, ExternalPanelize, SyncOtherPanel, ChangePanel,
                  Reread, Refresh, Quiet
    <3>4. ~Chmod
      BY <3>1 DEF Chmod, ChmodCmd, ChmodGone, ChmodSet, ChmodAll, ChmodCancelled
    <3>5. ~Others
      BY <3>1 DEF Others, Create, Delete
    <3>6. ~OperateRefused /\ op.at # "ask"
      BY <3>1 DEF OperateRefused
    <3> QED BY <3>2, <3>3, <3>4, <3>5, <3>6 DEF Next, Operate
  <2>2. PICK force \in BOOLEAN : OperateAsks(force)
    BY <2>1
  <2> DEFINE p == current_panel
             q == current_panel'
             single == force \/ p.marked <= 1
             source == CASE ~single -> q.mark
                         [] single /\ ~force /\ q.marked > 0 -> {Min(q.mark)}
                         [] OTHER -> {Selection(q)}
  <2>3. op'.force = force /\ op'.source = source
    BY <2>2 DEF OperateAsks, Idle
  <2>4. /\ Good(p) /\ Listed(p) /\ Good(other_panel) /\ wd \in {"top", "sub"}
        /\ p.mark \subseteq Names /\ p.marked = Cardinality(p.mark)
        /\ Cardinality(p.mark) \in Nat
    BY Sizes DEF IInv, PanelsOK, PlaceOK, Good, Listed, Filled, PanelRec, Summed
  <2>5. p.marked = 0 => p.mark = {}
    BY <2>4, Sizes, FS_EmptySet
  <2>6. SUFFICES ASSUME Paths(p, Meant(p, force)) \subseteq files
                 PROVE  /\ q.cwd = p.cwd
                        /\ q.mark = p.mark \/ force
                        /\ force \/ p.marked = 0 => Selection(q) = Selection(p)
                        /\ q.marked = Cardinality(q.mark)
    <3> SUFFICES ASSUME /\ q.cwd = p.cwd
                        /\ q.mark = p.mark \/ force
                        /\ force \/ p.marked = 0 => Selection(q) = Selection(p)
                        /\ q.marked = Cardinality(q.mark)
                 PROVE  source = Meant(p, force)
      BY <2>3 DEF Paths
    <3> HIDE DEF p, q
    <3>1. CASE force
      BY <3>1 DEF Meant
    <3>2. CASE ~force /\ p.marked = 0
      <4>a. q.mark = p.mark /\ q.marked = p.marked
        BY <2>4, <3>2
      <4>b. p.marked <= 1 /\ ~(q.marked > 0)
        BY <3>2, <4>a
      <4>1. single /\ ~(q.marked > 0) /\ Selection(q) = Selection(p)
        BY <3>2, <4>b, Zenon
      <4>2. source = {Selection(q)}
        BY <3>2, <4>1
      <4> QED BY <3>2, <4>1, <4>2 DEF Meant
    <3>3. CASE ~force /\ p.marked = 1
      <4>a. q.mark = p.mark /\ q.marked = p.marked
        BY <2>4, <3>3
      <4>b. p.marked <= 1 /\ q.marked > 0 /\ p.marked # 0
        BY <3>3, <4>a
      <4>1. single /\ q.mark = p.mark /\ q.marked > 0 /\ p.marked # 0
        BY <3>3, <4>a, <4>b, Zenon
      <4>2. source = {Min(p.mark)}
        BY <3>3, <4>1
      <4>3. p.mark = {Min(p.mark)}
        BY <2>4, <3>3, OneMark
      <4> QED BY <3>3, <4>1, <4>2, <4>3 DEF Meant
    <3>4. CASE ~force /\ p.marked > 1
      BY <2>4, <3>4 DEF Meant
    <3> QED BY <2>4, <3>1, <3>2, <3>3, <3>4
  <2>7. CASE p.panelized
    BY <2>2, <2>4, <2>7 DEF OperateAsks
  <2>8. CASE ~p.panelized
    <3> DEFINE t == TRUE
    <3>1. t \in BOOLEAN /\ UpdatePanels(files, p, t, t)
      BY <2>2, <2>8 DEF OperateAsks
    <3> HIDE DEF t, source, single
    <3>2. q = UpdatePanel(files, p, t, wd) /\ PanelsOK'
      BY <2>4, <3>1, UpdatePanelsIs
    <3>3. /\ q.cwd = Chdir(files, "top", p.cwd)
          /\ q.names = Listing(files, q.cwd) /\ q.mark = p.mark \cap q.names
          /\ Selection(p) \in q.names => Selection(q) = Selection(p)
      BY <2>4, <2>8, <3>1, <3>2, UpdatePanelIs
    <3>4. q.marked = Cardinality(q.mark)
      BY <3>2 DEF PanelsOK, Good, Listed, Summed
    <3> HIDE DEF p, q
    <3>5. \A n \in Meant(p, force) : <<p.cwd, n>> \in files
      BY <2>6 DEF Paths
    <3>6. \E n : n \in Meant(p, force)
      BY <2>4, FS_EmptySet DEF Meant
    <3>7. q.cwd = p.cwd
      <4>1. p.cwd \in {"top", "sub"} /\ \A f \in files : f[1] = "sub" => <<"top", Sub>> \in files
        BY <2>4 DEF Good, Listed, Filled, PanelRec, IInv, DiskOK, Closed
      <4>2. PICK n : <<p.cwd, n>> \in files
        BY <3>5, <3>6
      <4>3. DirExists(files, p.cwd)
        BY <4>1, <4>2 DEF DirExists
      <4> QED BY <3>3, <4>3 DEF Chdir
    <3>8. \A n : <<p.cwd, n>> \in files => n \in q.names
      <4>1. \A d, n : <<d, n>> \in Everything => n \in Names
        BY NamesAre DEF Everything
      <4> QED BY <3>3, <3>7, <4>1 DEF Listing, Names, IInv, DiskOK
    <3>9. Meant(p, force) \subseteq q.names
      BY <3>5, <3>8
    <3>10. q.mark = p.mark \/ force
      BY <2>5, <3>3, <3>9 DEF Meant
    <3>11. force \/ p.marked = 0 => Selection(q) = Selection(p)
      BY <3>3, <3>9 DEF Meant
    <3> QED BY <3>4, <3>7, <3>10, <3>11
  <2> QED BY <2>7, <2>8
<1> QED BY <1>1, Invariance, PTL DEF Spec, OperatesOnAsked

-----------------------------------------------------------------------------
(* The directory cache.                                                    *)

Ptr == Nat \X (Dirs \cup Files \cup {Root})
InodeRec == [name : Dirs \cup Files \cup {Root}, nlink : Nat, ent : BOOLEAN,
             subdir : Seq(Ptr), local : BOOLEAN, doubt : BOOLEAN]

(* A heap with root r.                                                     *)
HeapTyped(h) ==
  /\ h = [ino |-> h.ino, ent |-> h.ent]
  /\ h.ino \in [DOMAIN h.ino -> InodeRec] /\ h.ent \in [DOMAIN h.ent -> DOMAIN h.ino]
  /\ DOMAIN h.ino \subseteq Ptr /\ IsFiniteSet(DOMAIN h.ino)
  /\ DOMAIN h.ent \subseteq DOMAIN h.ino

(* The list of a directory leads to its entries, and they to it.           *)
ListsMatch(h, r) ==
  /\ \A i \in DOMAIN h.ino : Below(h, i) = {e \in DOMAIN h.ent : h.ent[e] = i}
  /\ \A i \in DOMAIN h.ino \ {r} : h.ino[i].ent <=> i \in DOMAIN h.ent
  /\ r \notin DOMAIN h.ent
  /\ \A e \in DOMAIN h.ent :
       \/ h.ent[e] = r /\ h.ino[e].name \in Dirs
       \/ h.ent[e] # r /\ h.ino[e].name \in Files /\ h.ino[h.ent[e]].name \in Dirs

(* What is open: streams st and handles hd.                                *)
Opened(h, r, st, hd) ==
  /\ st \in [Streams -> [dir : DOMAIN h.ino \cup {NoPtr}, cur : DOMAIN h.ent \cup {NoPtr}]]
  /\ \A s \in Streams :
       /\ st[s].dir # NoPtr => st[s].dir # r /\ h.ino[st[s].dir].name \in Dirs
       /\ st[s].cur # NoPtr => h.ent[st[s].cur] = st[s].dir
  /\ hd \in [Handles -> [ino : DOMAIN h.ino \cup {NoPtr}, changed : BOOLEAN]]
  /\ \A x \in Handles :
       hd[x].ino # NoPtr => hd[x].ino # r /\ h.ino[hd[x].ino].name \in Files

Opens(st, hd, i) == Cardinality({s \in Streams : st[s].dir = i})
                    + Cardinality({x \in Handles : hd[x].ino = i})
One(b) == IF b THEN 1 ELSE 0

(* The counts are right but for the inodes P, whose counts are one too     *)
(* high: their users are gone and the count follows.                       *)
Counted(h, r, st, hd, P) ==
  /\ P \subseteq DOMAIN h.ino \ {r}
  /\ \A i \in DOMAIN h.ino \ {r} :
       /\ h.ino[i].nlink = One(h.ino[i].ent) + Opens(st, hd, i) + One(i \in P)
       /\ h.ino[i].nlink > 0

WF(h, r, st, hd, P) ==
  /\ HeapTyped(h) /\ ListsMatch(h, r) /\ r \in DOMAIN h.ino \cup {NoPtr}
  /\ Opened(h, r, st, hd) /\ Counted(h, r, st, hd, P)

(* What the cache shows is what the server has, or mc wrote, but for a     *)
(* listing in doubt.                                                       *)
Shows(h, d, rm) == ~h.ino[d].doubt =>
  /\ \A n \in rm[h.ino[d].name] : \E f \in Below(h, d) : h.ino[f].name = n
  /\ \A f \in Below(h, d) : h.ino[f].local \/ h.ino[f].name \in rm[h.ino[d].name]
Current(h, r, rm) == \A d \in Below(h, r) : Shows(h, d, rm)

CacheInv ==
  /\ WF(heap, root, streams, handles, {})
  /\ stale \in BOOLEAN /\ remote \in [Dirs -> SUBSET Files]
  /\ root = NoPtr => DOMAIN inodes = {}
  /\ ~stale /\ root # NoPtr => Current(heap, root, remote)

-----------------------------------------------------------------------------
(* Lists of entries.                                                       *)

LEMMA LessKeeps ==
  ASSUME NEW T, NEW s \in Seq(T), NEW S
  PROVE  /\ Less(s, S) \in Seq(T)
         /\ Range(Less(s, S)) = Range(s) \ S
         /\ Range(s) \cap S = {} => Less(s, S) = s
<1> DEFINE kept == {k \in DOMAIN s : s[k] \notin S}
           n == Cardinality(kept)
           at(i) == CHOOSE k \in kept : Rank(kept, k) = i
<1>1. Len(s) \in Nat /\ DOMAIN s = 1 .. Len(s) /\ \A k \in 1 .. Len(s) : s[k] \in T
  BY LenProperties, ElementOfSeq
<1>2. IsFiniteSet(1 .. Len(s)) /\ Cardinality(1 .. Len(s)) = Len(s)
  <2>1. 1 \in Int /\ Len(s) \in Int
    BY <1>1
  <2>2. /\ IsFiniteSet(1 .. Len(s))
        /\ Cardinality(1 .. Len(s)) = IF 1 > Len(s) THEN 0 ELSE Len(s) - 1 + 1
    BY <2>1, FS_Interval, Zenon
  <2> QED BY <2>2, <1>1
<1>3. kept \subseteq Nat /\ IsFiniteSet(kept) /\ n \in Nat
  BY <1>1, <1>2, FS_Subset, FS_CardinalityType
<1>4. /\ \A k \in kept : Rank(kept, k) \in 1 .. n
      /\ \A j, k \in kept : Rank(kept, j) = Rank(kept, k) => j = k
      /\ \A i \in 1 .. n : \E k \in kept : Rank(kept, k) = i
  BY <1>3, RanksAre
<1>5. Less(s, S) = [i \in 1 .. n |-> s[at(i)]]
  BY DEF Less
<1>6. \A i \in 1 .. n : at(i) \in kept /\ Rank(kept, at(i)) = i
  BY <1>4
<1>7. \A k \in kept : at(Rank(kept, k)) = k
  BY <1>4, <1>6
<1>8. \A i \in 1 .. n : s[at(i)] \in T
  BY <1>1, <1>6
<1>9. ASSUME Range(s) \cap S = {} PROVE Less(s, S) = s
  <2>1. kept = 1 .. Len(s)
    BY <1>1, <1>9 DEF Range
  <2>2. n = Len(s)
    BY <2>1, <1>2
  <2>3. \A k \in 1 .. Len(s) : Rank(kept, k) = k
    <3> TAKE k \in 1 .. Len(s)
    <3>1. {m \in 1 .. Len(s) : m <= k} = 1 .. k
      BY <1>1
    <3>2. Cardinality(1 .. k) = k
      BY <1>1, FS_Interval
    <3> QED BY <2>1, <3>1, <3>2 DEF Rank
  <2>4. \A k \in 1 .. Len(s) : at(k) = k
    BY <2>1, <2>3, <1>7
  <2> HIDE DEF at
  <2>5. Less(s, S) = [k \in 1 .. Len(s) |-> s[k]]
    BY <1>5, <2>2, <2>4
  <2>6. s = [k \in 1 .. Len(s) |-> s[k]]
    BY <1>1
  <2> QED BY <2>5, <2>6
<1> HIDE DEF at, n
<1>10. Less(s, S) \in [1 .. n -> T]
  BY <1>5, <1>8
<1>11. Less(s, S) \in Seq(T)
  BY <1>3, <1>10, SeqDef DEF n
<1>12. ASSUME NEW x \in Range(s) \ S PROVE x \in Range(Less(s, S))
  <2>1. PICK k \in kept : x = s[k]
    BY <1>1 DEF Range
  <2>2. Rank(kept, k) \in 1 .. n /\ Less(s, S)[Rank(kept, k)] = s[k]
    BY <1>4, <1>5, <1>7 DEF n
  <2> QED BY <2>1, <2>2, <1>5 DEF Range
<1>13. ASSUME NEW x \in Range(Less(s, S)) PROVE x \in Range(s) \ S
  <2>1. PICK i \in 1 .. n : x = s[at(i)]
    BY <1>5, <1>13 DEF Range
  <2>2. at(i) \in kept
    BY <1>6 DEF n
  <2> QED BY <2>1, <2>2, <1>1 DEF Range
<1> QED BY <1>9, <1>11, <1>12, <1>13

-----------------------------------------------------------------------------
(* Pointers.                                                               *)

LEMMA PointersDiffer ==
  /\ NoPtr \notin Ptr /\ Root \notin Dirs /\ Root \notin Files /\ Dirs \cap Files = {}
  /\ \A p \in Ptr : p = <<p[1], p[2]>> /\ p[1] \in Nat
BY DirCacheAssumption DEF Ptr

(* Nothing refers to a number that is fresh.                               *)
LEMMA FreshIsFree ==
  ASSUME NEW h, NEW r, NEW P, WF(h, r, streams, handles, P)
  PROVE  /\ Fresh(h) \in Nat
         /\ \A x : <<Fresh(h), x>> \notin DOMAIN h.ino
<1> DEFINE N == Numbers(h)
           c == Cardinality(N)
<1>1. /\ IsFiniteSet(DOMAIN h.ino) /\ DOMAIN h.ino \subseteq Ptr
      /\ DOMAIN h.ent \subseteq DOMAIN h.ino
      /\ \A s \in Streams : /\ streams[s].dir \in DOMAIN h.ino \cup {NoPtr}
                            /\ streams[s].cur \in DOMAIN h.ino \cup {NoPtr}
      /\ \A x \in Handles : handles[x].ino \in DOMAIN h.ino \cup {NoPtr}
  BY DEF WF, HeapTyped, Opened
<1>2. Referred(h) \subseteq DOMAIN h.ino /\ DOMAIN h.ino \subseteq Referred(h)
  BY <1>1, PointersDiffer DEF Referred
<1>3. N = {p[1] : p \in DOMAIN h.ino}
  BY <1>2 DEF Numbers
<1>4. N \subseteq Nat /\ IsFiniteSet(N)
  <2> DEFINE f == [p \in DOMAIN h.ino |-> p[1]]
  <2>1. f \in Surjection(DOMAIN h.ino, N)
    BY <1>3 DEF Surjection
  <2>2. IsFiniteSet(N)
    BY <1>1, <2>1, FS_Surjection
  <2> QED BY <1>1, <1>3, <2>2, PointersDiffer
<1>5. c \in Nat
  BY <1>4, FS_CardinalityType
<1> DEFINE F == {n \in 1 .. c + 1 : n \notin N}
<1>6. F # {}
  <2>1. IsFiniteSet(1 .. c + 1) /\ Cardinality(1 .. c + 1) = c + 1
    <3>1. 1 \in Int /\ c + 1 \in Int /\ ~ (1 > c + 1) /\ (c + 1) - 1 + 1 = c + 1
      BY <1>5
    <3> HIDE DEF c
    <3> QED BY <3>1, FS_Interval, Zenon
  <2>2. ASSUME F = {} PROVE FALSE
    <3>1. 1 .. c + 1 \in SUBSET N
      BY <2>2
    <3>2. c + 1 <= c
      BY <1>4, <2>1, <3>1, FS_Subset
    <3> QED BY <1>5, <3>2
  <2> QED BY <2>2
<1>7. F \in SUBSET Nat
  BY <1>5
<1>8. PICK n \in F : \A m \in F : n <= m
  BY <1>6, <1>7, LeastNatural
<1>9. \A m \in 1 .. n - 1 : m \in N
  <2> SUFFICES ASSUME NEW m \in 1 .. n - 1, m \notin N PROVE FALSE
    OBVIOUS
  <2>1. n \in 1 .. c + 1 /\ c \in Nat
    BY <1>5
  <2>2. m \in 1 .. c + 1 /\ ~ (n <= m)
    BY <2>1
  <2> QED BY <1>8, <2>2
<1>10. n \in 1 .. c + 1 /\ n \notin N
  OBVIOUS
<1>11. Fresh(h) \in 1 .. c + 1 /\ Fresh(h) \notin N
  BY <1>9, <1>10, Zenon DEF Fresh
<1>12. Fresh(h) \in Nat
  BY <1>5, <1>11
<1>13. ASSUME NEW x, <<Fresh(h), x>> \in DOMAIN h.ino PROVE FALSE
  <2>1. <<Fresh(h), x>>[1] \in N
    BY <1>3, <1>13
  <2> QED BY <1>11, <2>1
<1> QED BY <1>12, <1>13

-----------------------------------------------------------------------------
(* The functions of direntry.c on a heap.                                  *)

LEMMA OpensIsNat ==
  ASSUME NEW st, NEW hd, NEW i
  PROVE  Opens(st, hd, i) \in Nat
<1>1. /\ IsFiniteSet({s \in Streams : st[s].dir = i})
      /\ IsFiniteSet({x \in Handles : hd[x].ino = i})
  BY DirCacheAssumption, FS_Subset
<1> QED BY <1>1, FS_CardinalityType DEF Opens

(* A pending inode that nobody has open and that has no entry is unused.   *)
LEMMA UnusedIsClosed ==
  ASSUME NEW st, NEW hd, NEW i
  PROVE  /\ Opens(st, hd, i) = 0 =>
              /\ \A s \in Streams : st[s].dir # i
              /\ \A x \in Handles : hd[x].ino # i
<1>1. /\ IsFiniteSet({s \in Streams : st[s].dir = i})
      /\ IsFiniteSet({x \in Handles : hd[x].ino = i})
  BY DirCacheAssumption, FS_Subset
<1>2. /\ Cardinality({s \in Streams : st[s].dir = i}) \in Nat
      /\ Cardinality({x \in Handles : hd[x].ino = i}) \in Nat
  BY <1>1, FS_CardinalityType
<1>3. ASSUME Opens(st, hd, i) = 0
      PROVE  {s \in Streams : st[s].dir = i} = {} /\ {x \in Handles : hd[x].ino = i} = {}
  <2>1. /\ Cardinality({s \in Streams : st[s].dir = i}) = 0
        /\ Cardinality({x \in Handles : hd[x].ino = i}) = 0
    BY <1>2, <1>3 DEF Opens
  <2> QED BY <1>1, <2>1, FS_EmptySet
<1> QED BY <1>3

(* Entries S are out of the lists in g.                                    *)
TookOut(h, g, S) ==
  /\ DOMAIN g.ino = DOMAIN h.ino /\ DOMAIN g.ent = DOMAIN h.ent \ S
  /\ \A i \in DOMAIN h.ino :
       /\ g.ino[i].nlink = h.ino[i].nlink /\ g.ino[i].name = h.ino[i].name
       /\ g.ino[i].local = h.ino[i].local
       /\ g.ino[i].doubt = h.ino[i].doubt
       /\ Below(g, i) = Below(h, i) \ S
       /\ Below(h, i) \cap S = {} => g.ino[i].subdir = h.ino[i].subdir

(* vfs_s_free_entry: the entries S leave the lists of their directories.   *)
LEMMA UnlinkedKeeps ==
  ASSUME NEW h, NEW r, NEW st, NEW hd, NEW P, WF(h, r, st, hd, P),
         NEW S, S \subseteq DOMAIN h.ent, S \cap P = {},
         \A s \in Streams : st[s].cur \notin S
  PROVE  /\ WF(Unlinked(h, S), r, st, hd, P \cup S)
         /\ TookOut(h, Unlinked(h, S), S)
<1> DEFINE g == Unlinked(h, S)
<1>0. /\ HeapTyped(h) /\ ListsMatch(h, r) /\ r \in DOMAIN h.ino \cup {NoPtr}
      /\ Opened(h, r, st, hd) /\ Counted(h, r, st, hd, P)
  BY DEF WF
<1>1. /\ g = [ino |-> g.ino, ent |-> g.ent]
      /\ g.ent = [e \in DOMAIN h.ent \ S |-> h.ent[e]]
      /\ g.ino = [i \in DOMAIN h.ino |->
                    [h.ino[i] EXCEPT !.subdir = Less(@, S), !.ent = @ /\ i \notin S]]
  BY DEF Unlinked, Removed, Restrict
<1>2. \A i \in DOMAIN h.ino : h.ino[i] \in InodeRec
  BY <1>0 DEF HeapTyped
<1>3. \A i \in DOMAIN h.ino :
        /\ g.ino[i] \in InodeRec
        /\ g.ino[i].nlink = h.ino[i].nlink /\ g.ino[i].name = h.ino[i].name
        /\ g.ino[i].local = h.ino[i].local
        /\ g.ino[i].doubt = h.ino[i].doubt
        /\ g.ino[i].ent = (h.ino[i].ent /\ i \notin S)
        /\ g.ino[i].subdir = Less(h.ino[i].subdir, S)
  <2> TAKE i \in DOMAIN h.ino
  <2> DEFINE q == h.ino[i]
             l == Less(q.subdir, S)
             b == (q.ent /\ i \notin S)
  <2>1. q \in InodeRec /\ q.subdir \in Seq(Ptr) /\ q.ent \in BOOLEAN
    BY <1>2 DEF InodeRec
  <2>2. l \in Seq(Ptr) /\ b \in BOOLEAN
    BY <2>1, LessKeeps
  <2>3. g.ino[i] = [q EXCEPT !.subdir = l, !.ent = b]
    BY <1>1
  <2> HIDE DEF q, l, b
  <2>4. /\ [q EXCEPT !.subdir = l, !.ent = b] \in InodeRec
        /\ [q EXCEPT !.subdir = l, !.ent = b].nlink = q.nlink
        /\ [q EXCEPT !.subdir = l, !.ent = b].name = q.name
        /\ [q EXCEPT !.subdir = l, !.ent = b].local = q.local
        /\ [q EXCEPT !.subdir = l, !.ent = b].doubt = q.doubt
        /\ [q EXCEPT !.subdir = l, !.ent = b].ent = b
        /\ [q EXCEPT !.subdir = l, !.ent = b].subdir = l
    BY <2>1, <2>2 DEF InodeRec
  <2> QED BY <2>3, <2>4 DEF q, l, b
<1> HIDE DEF g
<1>4. DOMAIN g.ino = DOMAIN h.ino /\ DOMAIN g.ent = DOMAIN h.ent \ S
  BY <1>1
<1>5. \A i \in DOMAIN h.ino :
        /\ Below(g, i) = Below(h, i) \ S
        /\ Below(h, i) \cap S = {} => g.ino[i].subdir = h.ino[i].subdir
  BY <1>2, <1>3, LessKeeps DEF Below, InodeRec
<1>e. \A e \in DOMAIN g.ent :
        /\ e \in DOMAIN h.ent /\ e \notin S /\ e \in DOMAIN h.ino
        /\ g.ent[e] = h.ent[e] /\ g.ent[e] \in DOMAIN h.ino
  <2> TAKE e \in DOMAIN g.ent
  <2>1. e \in DOMAIN h.ent /\ e \notin S /\ g.ent[e] = h.ent[e]
    BY <1>1
  <2>2. \A d \in DOMAIN h.ent : h.ent[d] \in DOMAIN h.ino /\ d \in DOMAIN h.ino
    BY <1>0 DEF HeapTyped
  <2> QED BY <2>1, <2>2
<1>6. HeapTyped(g)
  <2>1. g.ino \in [DOMAIN g.ino -> InodeRec]
    BY <1>1, <1>3, <1>4
  <2>2. g.ent \in [DOMAIN g.ent -> DOMAIN g.ino]
    BY <1>1, <1>4, <1>e
  <2> QED BY <2>1, <2>2, <1>0, <1>1, <1>4 DEF HeapTyped
<1>7. ListsMatch(g, r)
  <2>1. \A i \in DOMAIN g.ino : Below(g, i) = {e \in DOMAIN g.ent : g.ent[e] = i}
    <3> SUFFICES ASSUME NEW i \in DOMAIN h.ino
                 PROVE  Below(h, i) \ S = {e \in DOMAIN g.ent : g.ent[e] = i}
      BY <1>4, <1>5
    <3>1. Below(h, i) = {e \in DOMAIN h.ent : h.ent[e] = i}
      BY <1>0 DEF ListsMatch
    <3> QED BY <3>1, <1>4, <1>e
  <2>2. \A i \in DOMAIN g.ino \ {r} : g.ino[i].ent <=> i \in DOMAIN g.ent
    BY <1>0, <1>3, <1>4 DEF ListsMatch
  <2>3. \A e \in DOMAIN g.ent :
          \/ g.ent[e] = r /\ g.ino[e].name \in Dirs
          \/ g.ent[e] # r /\ g.ino[e].name \in Files /\ g.ino[g.ent[e]].name \in Dirs
    BY <1>0, <1>3, <1>e DEF ListsMatch
  <2> QED BY <2>1, <2>2, <2>3, <1>0, <1>4 DEF ListsMatch
<1>8. Opened(g, r, st, hd)
  <2>1. st \in [Streams -> [dir : DOMAIN g.ino \cup {NoPtr}, cur : DOMAIN g.ent \cup {NoPtr}]]
    BY <1>0, <1>4 DEF Opened
  <2>2. \A s \in Streams :
       /\ st[s].dir # NoPtr => st[s].dir # r /\ g.ino[st[s].dir].name \in Dirs
       /\ st[s].cur # NoPtr => g.ent[st[s].cur] = st[s].dir
    <3> TAKE s \in Streams
    <3>1. /\ st[s].dir \in DOMAIN h.ino \cup {NoPtr} /\ st[s].cur \in DOMAIN g.ent \cup {NoPtr}
          /\ st[s].dir # NoPtr => st[s].dir # r /\ h.ino[st[s].dir].name \in Dirs
          /\ st[s].cur # NoPtr => h.ent[st[s].cur] = st[s].dir
      BY <2>1, <1>0, <1>4 DEF Opened
    <3> QED BY <3>1, <1>3, <1>e
  <2>3. \A x \in Handles :
       hd[x].ino # NoPtr => hd[x].ino # r /\ g.ino[hd[x].ino].name \in Files
    <3> TAKE x \in Handles
    <3>1. /\ hd[x].ino \in DOMAIN h.ino \cup {NoPtr}
          /\ hd[x].ino # NoPtr => hd[x].ino # r /\ h.ino[hd[x].ino].name \in Files
      BY <1>0 DEF Opened
    <3> QED BY <3>1, <1>3
  <2> QED BY <2>1, <2>2, <2>3, <1>0, <1>4 DEF Opened
<1>9. Counted(g, r, st, hd, P \cup S)
  <2>1. S \subseteq DOMAIN h.ino \ {r}
    BY <1>0 DEF HeapTyped, ListsMatch
  <2> SUFFICES ASSUME NEW i \in DOMAIN h.ino \ {r}
               PROVE  /\ g.ino[i].nlink = One(g.ino[i].ent) + Opens(st, hd, i)
                                          + One(i \in P \cup S)
                      /\ g.ino[i].nlink > 0
    BY <1>0, <1>4, <2>1 DEF Counted
  <2>2. /\ h.ino[i].nlink = One(h.ino[i].ent) + Opens(st, hd, i) + One(i \in P)
        /\ h.ino[i].nlink > 0
    BY <1>0 DEF Counted
  <2>3. Opens(st, hd, i) \in Nat
    BY OpensIsNat
  <2>4. CASE i \in S
    <3>1. h.ino[i].ent /\ ~g.ino[i].ent /\ i \notin P
      BY <2>4, <1>0, <1>3 DEF ListsMatch
    <3> QED BY <2>2, <2>3, <2>4, <3>1, <1>3 DEF One
  <2>5. CASE i \notin S
    <3>1. g.ino[i].ent = h.ino[i].ent /\ (i \in P \cup S <=> i \in P)
      BY <2>5, <1>3, <1>2 DEF InodeRec
    <3> QED BY <2>2, <3>1, <1>3 DEF One
  <2> QED BY <2>4, <2>5
<1> QED BY <1>0, <1>3, <1>4, <1>5, <1>6, <1>7, <1>8, <1>9 DEF WF, TookOut, g

(* An inode is unused when its entry is gone and nobody has it open.       *)
LEMMA UnusedMeans ==
  ASSUME NEW h, NEW r, NEW st, NEW hd, NEW P, WF(h, r, st, hd, P),
         NEW S, S \subseteq P, NEW i \in Unused(h, S)
  PROVE  /\ i \in S /\ i \in DOMAIN h.ino /\ i # r
         /\ ~h.ino[i].ent /\ i \notin DOMAIN h.ent
         /\ \A s \in Streams : st[s].dir # i
         /\ \A x \in Handles : hd[x].ino # i
<1>1. /\ i \in S /\ i \in P /\ h.ino[i].nlink <= 1
      /\ P \subseteq DOMAIN h.ino \ {r}
      /\ h.ino[i].nlink = One(h.ino[i].ent) + Opens(st, hd, i) + One(i \in P)
      /\ h.ino[i].ent <=> i \in DOMAIN h.ent
  BY DEF WF, Counted, Unused, ListsMatch
<1>2. Opens(st, hd, i) \in Nat
  BY OpensIsNat
<1>3. Opens(st, hd, i) = 0 /\ ~h.ino[i].ent
  BY <1>1, <1>2 DEF One
<1> QED BY <1>1, <1>3, UnusedIsClosed

(* The inodes S have lost a user in g, or are gone.                        *)
Freed(h, g, S) ==
  /\ DOMAIN g.ino = DOMAIN h.ino \ Unused(h, S) /\ g.ent = h.ent
  /\ \A i \in DOMAIN g.ino :
       /\ g.ino[i].nlink = h.ino[i].nlink - One(i \in S)
       /\ g.ino[i].name = h.ino[i].name /\ g.ino[i].local = h.ino[i].local
       /\ g.ino[i].doubt = h.ino[i].doubt
       /\ g.ino[i].subdir = h.ino[i].subdir

(* vfs_s_free_inode, of inodes whose entries below are gone.               *)
LEMMA ReleasedKeeps ==
  ASSUME NEW h, NEW r, NEW st, NEW hd, NEW P, WF(h, r, st, hd, P),
         NEW S, S \subseteq P, \A i \in Unused(h, S) : Below(h, i) = {}
  PROVE  /\ WF(Released(h, S), r, st, hd, P \ S)
         /\ Freed(h, Released(h, S), S)
<1> DEFINE g == Released(h, S)
           U == Unused(h, S)
           D == DOMAIN h.ino \ U
<1>0. /\ HeapTyped(h) /\ ListsMatch(h, r) /\ r \in DOMAIN h.ino \cup {NoPtr}
      /\ Opened(h, r, st, hd) /\ Counted(h, r, st, hd, P)
  BY DEF WF
<1>1. /\ g = [ino |-> g.ino, ent |-> h.ent]
      /\ g.ino = [i \in D |-> IF i \in S THEN [h.ino[i] EXCEPT !.nlink = @ - 1] ELSE h.ino[i]]
  <2>1. h = [ino |-> h.ino, ent |-> h.ent]
    BY <1>0 DEF HeapTyped
  <2> DEFINE f == [i \in D |-> IF i \in S THEN [h.ino[i] EXCEPT !.nlink = @ - 1] ELSE h.ino[i]]
             k == Removed(h.ino, U)
  <2>2. DOMAIN k = D /\ \A i \in D : k[i] = h.ino[i]
    BY DEF Removed, Restrict
  <2>3. [i \in DOMAIN k |-> IF i \in S THEN [k[i] EXCEPT !.nlink = @ - 1] ELSE k[i]] = f
    BY <2>2
  <2>4. g = [h EXCEPT !.ino = f]
    BY <2>3 DEF Released
  <2> HIDE DEF f, g
  <2>5. g = [ino |-> f, ent |-> h.ent]
    BY <2>1, <2>4
  <2> QED BY <2>5 DEF f
<1>2. \A i \in DOMAIN h.ino : h.ino[i] \in InodeRec
  BY <1>0 DEF HeapTyped
<1>c. /\ P \subseteq DOMAIN h.ino \ {r}
      /\ \A i \in DOMAIN h.ino \ {r} :
           /\ h.ino[i].nlink = One(h.ino[i].ent) + Opens(st, hd, i) + One(i \in P)
           /\ h.ino[i].nlink > 0
  BY <1>0 DEF Counted
<1>3. \A i \in D :
        /\ g.ino[i] \in InodeRec
        /\ g.ino[i].nlink = h.ino[i].nlink - One(i \in S) /\ g.ino[i].name = h.ino[i].name
        /\ g.ino[i].local = h.ino[i].local
        /\ g.ino[i].doubt = h.ino[i].doubt
        /\ g.ino[i].ent = h.ino[i].ent
        /\ g.ino[i].subdir = h.ino[i].subdir
  <2> TAKE i \in D
  <2>1. h.ino[i] \in InodeRec /\ h.ino[i].nlink \in Nat
    BY <1>2 DEF InodeRec
  <2>2. CASE i \in S
    <3>1. h.ino[i].nlink > 1
      BY <2>1, <2>2 DEF Unused
    <3> DEFINE q == h.ino[i]
               n == q.nlink - 1
    <3>2. n \in Nat /\ g.ino[i] = [q EXCEPT !.nlink = n]
      BY <1>1, <2>1, <2>2, <3>1
    <3>3. q \in InodeRec
      BY <2>1
    <3> HIDE DEF q, n
    <3>4. /\ [q EXCEPT !.nlink = n] \in InodeRec
          /\ [q EXCEPT !.nlink = n].nlink = n
          /\ [q EXCEPT !.nlink = n].name = q.name
          /\ [q EXCEPT !.nlink = n].local = q.local
          /\ [q EXCEPT !.nlink = n].doubt = q.doubt
          /\ [q EXCEPT !.nlink = n].ent = q.ent
          /\ [q EXCEPT !.nlink = n].subdir = q.subdir
      BY <3>2, <3>3 DEF InodeRec
    <3> QED BY <2>2, <3>2, <3>4 DEF q, n, One
  <2>3. CASE i \notin S
    BY <1>1, <2>1, <2>3 DEF One
  <2> QED BY <2>2, <2>3
<1>4. DOMAIN g.ino = D /\ g.ent = h.ent
  BY <1>1
<1>5. \A i \in U : /\ i \in S /\ i # r /\ i \notin DOMAIN h.ent /\ Below(h, i) = {}
                   /\ \A s \in Streams : st[s].dir # i
                   /\ \A x \in Handles : hd[x].ino # i
  BY UnusedMeans
<1>6. \A e \in DOMAIN h.ent : e \in D /\ h.ent[e] \in D
  <2> TAKE e \in DOMAIN h.ent
  <2>1. e \in DOMAIN h.ino /\ h.ent[e] \in DOMAIN h.ino
    BY <1>0 DEF HeapTyped
  <2>2. e \in Below(h, h.ent[e])
    BY <2>1, <1>0 DEF ListsMatch
  <2> QED BY <2>1, <2>2, <1>5
<1> HIDE DEF g, U, D
<1>7. HeapTyped(g)
  <2>1. g.ino \in [DOMAIN g.ino -> InodeRec]
    BY <1>1, <1>3, <1>4
  <2>2. g.ent \in [DOMAIN g.ent -> DOMAIN g.ino]
    BY <1>0, <1>4, <1>6 DEF HeapTyped
  <2>3. DOMAIN g.ino \subseteq DOMAIN h.ino
    BY <1>4 DEF D
  <2>4. IsFiniteSet(DOMAIN g.ino)
    BY <1>0, <2>3, FS_Subset DEF HeapTyped
  <2> QED BY <1>0, <1>1, <1>4, <1>6, <2>1, <2>2, <2>3, <2>4 DEF HeapTyped
<1>8. ListsMatch(g, r)
  <2>1. \A i \in D : Below(g, i) = Below(h, i) /\ i \in DOMAIN h.ino
    BY <1>3 DEF Below, D
  <2>2. \A i \in DOMAIN g.ino : Below(g, i) = {e \in DOMAIN g.ent : g.ent[e] = i}
    BY <1>0, <1>4, <2>1 DEF ListsMatch
  <2>3. \A i \in DOMAIN g.ino \ {r} : g.ino[i].ent <=> i \in DOMAIN g.ent
    BY <1>0, <1>3, <1>4, <2>1 DEF ListsMatch
  <2>4. \A e \in DOMAIN g.ent :
          \/ g.ent[e] = r /\ g.ino[e].name \in Dirs
          \/ g.ent[e] # r /\ g.ino[e].name \in Files /\ g.ino[g.ent[e]].name \in Dirs
    <3> TAKE e \in DOMAIN g.ent
    <3>1. e \in DOMAIN h.ent /\ e \in D /\ h.ent[e] \in D /\ g.ent[e] = h.ent[e]
      BY <1>4, <1>6
    <3> QED BY <3>1, <1>0, <1>3 DEF ListsMatch
  <2> QED BY <2>2, <2>3, <2>4, <1>0, <1>4 DEF ListsMatch
<1>9. Opened(g, r, st, hd)
  <2>1. \A s \in Streams :
          /\ st[s] \in [dir : DOMAIN h.ino \cup {NoPtr}, cur : DOMAIN h.ent \cup {NoPtr}]
          /\ st[s].dir \in DOMAIN h.ino \cup {NoPtr} /\ st[s].cur \in DOMAIN h.ent \cup {NoPtr}
          /\ st[s].dir # NoPtr => st[s].dir # r /\ h.ino[st[s].dir].name \in Dirs
          /\ st[s].cur # NoPtr => h.ent[st[s].cur] = st[s].dir
          /\ st[s].dir \notin U
    BY <1>0, <1>5 DEF Opened
  <2>2. \A x \in Handles :
          /\ hd[x] \in [ino : DOMAIN h.ino \cup {NoPtr}, changed : BOOLEAN]
          /\ hd[x].ino \in DOMAIN h.ino \cup {NoPtr}
          /\ hd[x].ino # NoPtr => hd[x].ino # r /\ h.ino[hd[x].ino].name \in Files
          /\ hd[x].ino \notin U
    BY <1>0, <1>5 DEF Opened
  <2>3. \A s \in Streams :
          /\ st[s].dir \in D \cup {NoPtr}
          /\ st[s] \in [dir : D \cup {NoPtr}, cur : DOMAIN h.ent \cup {NoPtr}]
    BY <2>1 DEF D
  <2>4. \A x \in Handles :
          /\ hd[x].ino \in D \cup {NoPtr}
          /\ hd[x] \in [ino : D \cup {NoPtr}, changed : BOOLEAN]
    BY <2>2 DEF D
  <2>5. /\ st \in [Streams -> [dir : D \cup {NoPtr}, cur : DOMAIN h.ent \cup {NoPtr}]]
        /\ hd \in [Handles -> [ino : D \cup {NoPtr}, changed : BOOLEAN]]
    BY <1>0, <2>3, <2>4 DEF Opened
  <2>6. \A s \in Streams :
          /\ st[s].dir # NoPtr => st[s].dir # r /\ g.ino[st[s].dir].name \in Dirs
          /\ st[s].cur # NoPtr => g.ent[st[s].cur] = st[s].dir
    BY <1>3, <1>4, <2>1, <2>3
  <2>7. \A x \in Handles :
          hd[x].ino # NoPtr => hd[x].ino # r /\ g.ino[hd[x].ino].name \in Files
    BY <1>3, <1>4, <2>2, <2>4
  <2> QED BY <1>4, <2>5, <2>6, <2>7 DEF Opened
<1>10. Counted(g, r, st, hd, P \ S)
  <2>1. P \ S \subseteq DOMAIN g.ino \ {r}
    BY <1>4, <1>5, <1>c DEF D
  <2>2. ASSUME NEW i \in DOMAIN g.ino \ {r}
        PROVE  /\ g.ino[i].nlink = One(g.ino[i].ent) + Opens(st, hd, i) + One(i \in P \ S)
               /\ g.ino[i].nlink > 0
    <3>1. i \in D /\ i \in DOMAIN h.ino \ {r}
      BY <1>4 DEF D
    <3>2. /\ h.ino[i].nlink = One(h.ino[i].ent) + Opens(st, hd, i) + One(i \in P)
          /\ h.ino[i].nlink > 0 /\ h.ino[i].nlink \in Nat
      BY <1>2, <1>c, <3>1 DEF InodeRec
    <3>3. g.ino[i].nlink = h.ino[i].nlink - One(i \in S) /\ g.ino[i].ent = h.ino[i].ent
      BY <1>3, <3>1
    <3>4. Opens(st, hd, i) \in Nat
      BY OpensIsNat
    <3>5. CASE i \in S
      <4>1. h.ino[i].nlink > 1
        BY <3>1, <3>2, <3>5 DEF Unused, D, U
      <4> QED BY <3>2, <3>3, <3>4, <3>5, <4>1 DEF One
    <3>6. CASE i \notin S
      <4>1. One(i \in P \ S) = One(i \in P) /\ One(i \in S) = 0
        BY <3>6 DEF One
      <4> QED BY <3>2, <3>3, <4>1
    <3> QED BY <3>5, <3>6
  <2> QED BY <2>1, <2>2 DEF Counted
<1>11. r \in DOMAIN g.ino \cup {NoPtr}
  BY <1>0, <1>4, <1>5 DEF D
<1> QED BY <1>3, <1>4, <1>7, <1>8, <1>9, <1>10, <1>11 DEF WF, Freed, g, D, U

(* What is left of the heap h in g is as it was, but for users and marks.  *)
SameLists(h, g) ==
  /\ DOMAIN g.ino \subseteq DOMAIN h.ino
  /\ \A i \in DOMAIN g.ino : /\ g.ino[i].name = h.ino[i].name
                             /\ g.ino[i].local = h.ino[i].local
                             /\ g.ino[i].doubt = h.ino[i].doubt
                             /\ g.ino[i].subdir = h.ino[i].subdir

OneKind(h, S) == \/ \A i \in S : h.ino[i].name \in Dirs
                 \/ \A i \in S : h.ino[i].name \in Files

LEMMA BelowIs ==
  ASSUME NEW h, NEW r, NEW st, NEW hd, NEW P, WF(h, r, st, hd, P),
         NEW i \in DOMAIN h.ino, NEW e \in Below(h, i)
  PROVE  /\ e \in DOMAIN h.ent /\ h.ent[e] = i /\ e \in DOMAIN h.ino /\ e # r
         /\ i = r => h.ino[e].name \in Dirs
         /\ i # r => h.ino[e].name \in Files /\ h.ino[i].name \in Dirs
         /\ i # r => Below(h, e) = {}
<1>1. /\ e \in DOMAIN h.ent /\ h.ent[e] = i /\ e \in DOMAIN h.ino /\ r \notin DOMAIN h.ent
      /\ \/ h.ent[e] = r /\ h.ino[e].name \in Dirs
         \/ h.ent[e] # r /\ h.ino[e].name \in Files /\ h.ino[h.ent[e]].name \in Dirs
  BY DEF WF, HeapTyped, ListsMatch
<1>2. ASSUME i # r, NEW x \in Below(h, e) PROVE FALSE
  <2>1. x \in DOMAIN h.ent /\ h.ent[x] = e
    BY <1>1 DEF WF, ListsMatch
  <2>2. \/ h.ent[x] = r /\ h.ino[x].name \in Dirs
        \/ h.ent[x] # r /\ h.ino[x].name \in Files /\ h.ino[h.ent[x]].name \in Dirs
    BY <2>1 DEF WF, ListsMatch
  <2> QED BY <1>1, <1>2, <2>1, <2>2, PointersDiffer
<1> QED BY <1>1, <1>2

(* A file has nothing below it.                                            *)
LEMMA FilesAreLeaves ==
  ASSUME NEW h, NEW r, NEW st, NEW hd, NEW P, WF(h, r, st, hd, P),
         NEW i \in DOMAIN h.ino, i # r, h.ino[i].name \in Files
  PROVE  Below(h, i) = {}
BY BelowIs, PointersDiffer

(* vfs_s_free_inode, with what is below.                                   *)
LEMMA FreeInodesKeeps ==
  ASSUME NEW h, NEW r, NEW st, NEW hd, NEW S, WF(h, r, st, hd, S), OneKind(h, S)
  PROVE  /\ WF(FreeInodes(h, S), r, st, hd, {})
         /\ SameLists(h, FreeInodes(h, S))
<1> DEFINE U == Unused(h, S)
           B == UNION {Below(h, i) : i \in U}
           h1 == Unlinked(h, B)
           h2 == Released(h1, B)
           g == Released(h2, S)
<1>0. S \subseteq DOMAIN h.ino \ {r}
  BY DEF WF, Counted
<1>1. \A i \in U : /\ i \in S /\ i \in DOMAIN h.ino /\ i # r /\ i \notin DOMAIN h.ent
                   /\ \A s \in Streams : st[s].dir # i
  BY UnusedMeans
<1>2. \A e \in B : \E i \in U : e \in Below(h, i)
  OBVIOUS
<1>3. ASSUME NEW e \in B
      PROVE  /\ e \in DOMAIN h.ent /\ h.ino[e].name \in Files /\ Below(h, e) = {}
             /\ e \in DOMAIN h.ino /\ e \notin S
             /\ \A s \in Streams : st[s].cur # e
  <2>1. PICK i \in U : e \in Below(h, i)
    BY <1>2
  <2>2. /\ e \in DOMAIN h.ent /\ h.ent[e] = i /\ e \in DOMAIN h.ino
        /\ h.ino[e].name \in Files /\ h.ino[i].name \in Dirs /\ Below(h, e) = {}
    BY <1>1, <2>1, BelowIs
  <2>3. e \notin S
    BY <1>1, <2>2, PointersDiffer DEF OneKind
  <2>4. ASSUME NEW s \in Streams, st[s].cur = e PROVE FALSE
    <3>1. st[s].cur # NoPtr
      BY <2>2, <2>4, PointersDiffer DEF WF, HeapTyped
    <3>2. st[s].dir = i
      BY <2>2, <2>4, <3>1 DEF WF, Opened
    <3> QED BY <1>1, <3>2
  <2> QED BY <2>2, <2>3, <2>4
<1>4. B \subseteq DOMAIN h.ent /\ B \cap S = {} /\ \A s \in Streams : st[s].cur \notin B
  BY <1>3
<1> HIDE DEF B, U
<1>5. WF(h1, r, st, hd, S \cup B) /\ TookOut(h, h1, B)
  BY <1>4, UnlinkedKeeps
<1> HIDE DEF h1
<1>6. \A i \in Unused(h1, B) : Below(h1, i) = {}
  BY <1>3, <1>5 DEF Unused, TookOut
<1>b. B \subseteq S \cup B
  OBVIOUS
<1>7. WF(h2, r, st, hd, (S \cup B) \ B) /\ Freed(h1, h2, B)
  BY <1>5, <1>6, <1>b, ReleasedKeeps
<1>8. (S \cup B) \ B = S /\ WF(h2, r, st, hd, S)
  <2>1. (S \cup B) \ B = S
    BY <1>4
  <2> QED BY <2>1, <1>7
<1> HIDE DEF h2
<1>9. Unused(h2, S) = U /\ \A i \in S : i \in DOMAIN h2.ino
  <2>1. ASSUME NEW i \in S
        PROVE  /\ i \in DOMAIN h2.ino /\ i \notin B /\ h2.ino[i].nlink = h.ino[i].nlink
    <3>1. i \in DOMAIN h.ino /\ i \notin B /\ i \notin Unused(h1, B)
      BY <1>0, <1>4 DEF Unused
    <3>2. h.ino[i].nlink \in Nat
      BY <3>1 DEF WF, HeapTyped, InodeRec
    <3> QED BY <1>5, <1>7, <3>1, <3>2 DEF One, TookOut, Freed
  <2> QED BY <2>1 DEF Unused, U
<1>10. \A i \in Unused(h2, S) : Below(h2, i) = {}
  <2> SUFFICES ASSUME NEW i \in U PROVE Below(h2, i) = {}
    BY <1>9
  <2>1. i \in DOMAIN h.ino /\ i \in DOMAIN h2.ino
    BY <1>1, <1>9
  <2>2. Below(h2, i) = Below(h1, i)
    BY <1>7, <2>1 DEF Below, Freed
  <2>3. Below(h, i) \subseteq B
    BY DEF B
  <2> QED BY <1>5, <2>1, <2>2, <2>3 DEF TookOut
<1>11. WF(g, r, st, hd, S \ S) /\ Freed(h2, g, S)
  <2>1. S \subseteq S
    OBVIOUS
  <2> QED BY <1>8, <1>10, <2>1, ReleasedKeeps
<1>12. \A i \in DOMAIN h.ino : i \notin U => Below(h, i) \cap B = {}
  <2> SUFFICES ASSUME NEW i \in DOMAIN h.ino, i \notin U, NEW e \in Below(h, i), e \in B
               PROVE  FALSE
    OBVIOUS
  <2>1. PICK k \in U : e \in Below(h, k)
    BY <1>2
  <2> QED BY <2>1, <1>1, BelowIs
<1>13. SameLists(h, g)
  BY <1>5, <1>7, <1>9, <1>11, <1>12 DEF SameLists, TookOut, Freed
<1>14. g = FreeInodes(h, S)
  BY DEF FreeInodes, g, h2, h1, B, U
<1>15. S \ S = {}
  OBVIOUS
<1> QED BY <1>11, <1>13, <1>14, <1>15

(* The same for all but the root.                                          *)
SameBut(h, g, r) ==
  /\ DOMAIN g.ino \subseteq DOMAIN h.ino
  /\ \A i \in DOMAIN g.ino \ {r} : /\ g.ino[i].name = h.ino[i].name
                                   /\ g.ino[i].local = h.ino[i].local
                                   /\ g.ino[i].doubt = h.ino[i].doubt
                                   /\ g.ino[i].subdir = h.ino[i].subdir

(* Entries of the root are freed: listings that expired.                   *)
LEMMA FreeEntriesKeeps ==
  ASSUME NEW h, NEW r, NEW st, NEW hd, WF(h, r, st, hd, {}), r \in DOMAIN h.ino,
         NEW S, S \subseteq Below(h, r)
  PROVE  /\ WF(FreeEntries(h, S), r, st, hd, {})
         /\ SameBut(h, FreeEntries(h, S), r)
         /\ r # NoPtr => r \in DOMAIN FreeEntries(h, S).ino
                         /\ Below(FreeEntries(h, S), r) = Below(h, r) \ S
<1> DEFINE h1 == Unlinked(h, S)
           g == FreeInodes(h1, S)
<1>1. \A e \in S : /\ e \in DOMAIN h.ent /\ e \in DOMAIN h.ino
                   /\ h.ent[e] = r /\ h.ino[e].name \in Dirs
  BY BelowIs
<1>2. ASSUME NEW s \in Streams PROVE st[s].cur \notin S
  <2> SUFFICES ASSUME st[s].cur \in S PROVE FALSE
    OBVIOUS
  <2>1. st[s].cur # NoPtr
    BY <1>1, PointersDiffer DEF WF, HeapTyped
  <2>2. st[s].dir = r /\ st[s].dir # NoPtr
    BY <1>1, <2>1, PointersDiffer DEF WF, Opened, HeapTyped
  <2> QED BY <2>2 DEF WF, Opened
<1>3. S \subseteq DOMAIN h.ent /\ S \cap {} = {} /\ {} \cup S = S
  BY <1>1
<1>4. WF(h1, r, st, hd, {} \cup S) /\ TookOut(h, h1, S)
  BY <1>2, <1>3, UnlinkedKeeps
<1>5. WF(h1, r, st, hd, S)
  BY <1>3, <1>4
<1> HIDE DEF h1
<1>6. OneKind(h1, S)
  BY <1>1, <1>4 DEF OneKind, TookOut
<1>7. WF(g, r, st, hd, {}) /\ SameLists(h1, g)
  BY <1>5, <1>6, FreeInodesKeeps
<1> HIDE DEF g
<1>8. SameBut(h, g, r)
  <2> SUFFICES ASSUME NEW i \in DOMAIN g.ino, i # r
               PROVE  /\ i \in DOMAIN h.ino
                      /\ g.ino[i].name = h.ino[i].name
                      /\ g.ino[i].local = h.ino[i].local
                      /\ g.ino[i].doubt = h.ino[i].doubt
                      /\ g.ino[i].subdir = h.ino[i].subdir
    BY <1>4, <1>7 DEF SameBut, SameLists, TookOut
  <2>1. i \in DOMAIN h.ino /\ i \in DOMAIN h1.ino
    BY <1>4, <1>7 DEF SameLists, TookOut
  <2>2. Below(h, i) \cap S = {}
    BY <1>1, <2>1, BelowIs
  <2> QED BY <1>4, <1>7, <2>1, <2>2 DEF SameLists, TookOut
<1>9. ASSUME r # NoPtr
      PROVE  r \in DOMAIN g.ino /\ Below(g, r) = Below(h, r) \ S
  <2>1. r \in DOMAIN g.ino
    BY <1>7, <1>9 DEF WF
  <2> QED BY <1>4, <1>7, <2>1 DEF Below, SameLists, TookOut
<1>10. g = FreeEntries(h, S)
  BY DEF FreeEntries, g, h1
<1> QED BY <1>7, <1>8, <1>9, <1>10

(* vfs_s_free_super: what is left is held by streams and handles.          *)
LEMMA FreeRootKeeps ==
  ASSUME NEW h, NEW st, NEW hd, WF(h, root, st, hd, {}), root # NoPtr
  PROVE  /\ WF(FreeRoot(h), NoPtr, st, hd, {})
         /\ SameBut(h, FreeRoot(h), NoPtr)
<1> DEFINE g == FreeEntries(h, Below(h, root))
           f == [i \in DOMAIN g.ino \ {root} |-> g.ino[i]]
           q == [g EXCEPT !.ino = f]
<1>0. root \in DOMAIN h.ino
  BY DEF WF
<1>1. /\ WF(g, root, st, hd, {}) /\ SameBut(h, g, root)
      /\ root \in DOMAIN g.ino /\ Below(g, root) = Below(h, root) \ Below(h, root)
  BY <1>0, FreeEntriesKeeps
<1>2. q = FreeRoot(h)
  BY DEF FreeRoot, Removed, Restrict
<1>3. g = [ino |-> g.ino, ent |-> g.ent]
  BY <1>1 DEF WF, HeapTyped
<1> HIDE DEF g
<1>4. q = [ino |-> f, ent |-> g.ent]
  <2> HIDE DEF f
  <2> QED BY <1>3
<1>5. /\ q = [ino |-> q.ino, ent |-> q.ent] /\ q.ent = g.ent
      /\ DOMAIN q.ino = DOMAIN g.ino \ {root}
      /\ \A i \in DOMAIN q.ino : q.ino[i] = g.ino[i] /\ Below(q, i) = Below(g, i)
      /\ q.ino = [i \in DOMAIN g.ino \ {root} |-> g.ino[i]]
  BY <1>4 DEF Below
<1> HIDE DEF q
<1>6. \A e \in DOMAIN g.ent : /\ g.ent[e] # root /\ e # root
                              /\ g.ent[e] \in DOMAIN g.ino /\ e \in DOMAIN g.ino
  <2> TAKE e \in DOMAIN g.ent
  <2>1. /\ g.ent[e] \in DOMAIN g.ino /\ e \in DOMAIN g.ino /\ root \notin DOMAIN g.ent
        /\ Below(g, root) = {x \in DOMAIN g.ent : g.ent[x] = root}
    BY <1>1 DEF WF, HeapTyped, ListsMatch
  <2> QED BY <2>1, <1>1
<1>7. /\ DOMAIN g.ino \subseteq Ptr /\ IsFiniteSet(DOMAIN g.ino)
      /\ \A i \in DOMAIN g.ino : g.ino[i] \in InodeRec
      /\ g.ent \in [DOMAIN g.ent -> DOMAIN g.ino]
  BY <1>1 DEF WF, HeapTyped
<1>8. NoPtr \notin DOMAIN g.ino /\ NoPtr \notin DOMAIN g.ent
  BY <1>6, <1>7, PointersDiffer
<1>9. HeapTyped(q)
  <2>1. q.ino \in [DOMAIN q.ino -> InodeRec]
    BY <1>5, <1>7
  <2>2. q.ent \in [DOMAIN q.ent -> DOMAIN q.ino]
    BY <1>5, <1>6, <1>7
  <2>3. IsFiniteSet(DOMAIN q.ino)
    BY <1>5, <1>7, FS_Subset
  <2> QED BY <1>5, <1>6, <1>7, <2>1, <2>2, <2>3 DEF HeapTyped
<1>10. ListsMatch(q, NoPtr)
  <2>1. ASSUME NEW i \in DOMAIN q.ino
        PROVE  Below(q, i) = {e \in DOMAIN q.ent : q.ent[e] = i}
    <3>1. i \in DOMAIN g.ino /\ Below(q, i) = Below(g, i) /\ q.ent = g.ent
      BY <1>5
    <3>2. Below(g, i) = {e \in DOMAIN g.ent : g.ent[e] = i}
      BY <1>1, <3>1 DEF WF, ListsMatch
    <3> QED BY <3>1, <3>2
  <2>2. ASSUME NEW i \in DOMAIN q.ino PROVE q.ino[i].ent <=> i \in DOMAIN q.ent
    <3>1. i \in DOMAIN g.ino \ {root} /\ q.ino[i] = g.ino[i]
      BY <1>5
    <3>2. g.ino[i].ent <=> i \in DOMAIN g.ent
      BY <1>1, <3>1 DEF WF, ListsMatch
    <3> QED BY <1>5, <3>1, <3>2
  <2>3. \A e \in DOMAIN q.ent :
          /\ q.ent[e] # NoPtr /\ q.ino[e].name \in Files /\ q.ino[q.ent[e]].name \in Dirs
    BY <1>1, <1>5, <1>6, <1>8 DEF WF, ListsMatch
  <2> QED BY <1>5, <1>8, <2>1, <2>2, <2>3 DEF ListsMatch
<1>11. Opened(q, NoPtr, st, hd)
  <2>1. \A s \in Streams :
          /\ st[s] \in [dir : DOMAIN g.ino \cup {NoPtr}, cur : DOMAIN g.ent \cup {NoPtr}]
          /\ st[s].dir \in DOMAIN g.ino \cup {NoPtr} /\ st[s].cur \in DOMAIN g.ent \cup {NoPtr}
          /\ st[s].dir # NoPtr => st[s].dir # root /\ g.ino[st[s].dir].name \in Dirs
          /\ st[s].cur # NoPtr => g.ent[st[s].cur] = st[s].dir
    BY <1>1 DEF WF, Opened
  <2>2. \A x \in Handles :
          /\ hd[x] \in [ino : DOMAIN g.ino \cup {NoPtr}, changed : BOOLEAN]
          /\ hd[x].ino \in DOMAIN g.ino \cup {NoPtr}
          /\ hd[x].ino # NoPtr => hd[x].ino # root /\ g.ino[hd[x].ino].name \in Files
    BY <1>1 DEF WF, Opened
  <2>3. \A s \in Streams :
          /\ st[s].dir \in DOMAIN q.ino \cup {NoPtr}
          /\ st[s] \in [dir : DOMAIN q.ino \cup {NoPtr}, cur : DOMAIN q.ent \cup {NoPtr}]
    BY <1>5, <2>1
  <2>4. \A x \in Handles :
          /\ hd[x].ino \in DOMAIN q.ino \cup {NoPtr}
          /\ hd[x] \in [ino : DOMAIN q.ino \cup {NoPtr}, changed : BOOLEAN]
    BY <1>5, <2>2
  <2>5. /\ st \in [Streams -> [dir : DOMAIN q.ino \cup {NoPtr},
                               cur : DOMAIN q.ent \cup {NoPtr}]]
        /\ hd \in [Handles -> [ino : DOMAIN q.ino \cup {NoPtr}, changed : BOOLEAN]]
    BY <1>1, <2>3, <2>4 DEF WF, Opened
  <2>6. \A s \in Streams :
          /\ st[s].dir # NoPtr => st[s].dir # NoPtr /\ q.ino[st[s].dir].name \in Dirs
          /\ st[s].cur # NoPtr => q.ent[st[s].cur] = st[s].dir
    BY <1>5, <2>1, <2>3
  <2>7. \A x \in Handles :
          hd[x].ino # NoPtr => hd[x].ino # NoPtr /\ q.ino[hd[x].ino].name \in Files
    BY <1>5, <2>2, <2>4
  <2> QED BY <2>5, <2>6, <2>7 DEF Opened
<1>12. Counted(q, NoPtr, st, hd, {})
  BY <1>1, <1>5 DEF WF, Counted
<1>13. SameBut(h, q, NoPtr)
  BY <1>1, <1>5 DEF SameBut
<1> QED BY <1>2, <1>9, <1>10, <1>11, <1>12, <1>13 DEF WF

(* Removed a root and with nothing open, no inode is left.                 *)
LEMMA NothingIsLeft ==
  ASSUME NEW h, NEW st, NEW hd, WF(h, NoPtr, st, hd, {}),
         \A s \in Streams : st[s].dir = NoPtr, \A x \in Handles : hd[x].ino = NoPtr
  PROVE  DOMAIN h.ino = {} /\ DOMAIN h.ent = {}
<1>1. NoPtr \notin DOMAIN h.ino
  BY PointersDiffer DEF WF, HeapTyped
<1>2. ASSUME NEW i \in DOMAIN h.ino
      PROVE  i \in DOMAIN h.ent /\ h.ent[i] \in DOMAIN h.ino
             /\ h.ino[i].name \in Files /\ h.ino[h.ent[i]].name \in Dirs
  <2>1. {s \in Streams : st[s].dir = i} = {} /\ {x \in Handles : hd[x].ino = i} = {}
    BY <1>1
  <2>2. Opens(st, hd, i) = 0
    <3>1. /\ Cardinality({s \in Streams : st[s].dir = i}) = 0
          /\ Cardinality({x \in Handles : hd[x].ino = i}) = 0
      BY <2>1, FS_EmptySet
    <3> QED BY <3>1 DEF Opens
  <2>3. i \in DOMAIN h.ent
    BY <1>1, <2>2 DEF WF, Counted, One, ListsMatch
  <2> QED BY <1>1, <2>3 DEF WF, HeapTyped, ListsMatch
<1>3. DOMAIN h.ino = {}
  BY <1>2, PointersDiffer
<1> QED BY <1>3 DEF WF, HeapTyped

(* vfs_s_invalidate: the old root goes, and there is a new one.            *)
LEMMA InvalidatedKeeps ==
  ASSUME NEW h, WF(h, root, streams, handles, {}), root # NoPtr
  PROVE  /\ WF(Invalidated(h), NewRoot(h), streams, handles, {})
         /\ NewRoot(h) # NoPtr /\ Below(Invalidated(h), NewRoot(h)) = {}
         /\ \A i \in DOMAIN Invalidated(h).ino \ {NewRoot(h)} :
              /\ i \in DOMAIN h.ino
              /\ Invalidated(h).ino[i].name = h.ino[i].name
              /\ Invalidated(h).ino[i].local = h.ino[i].local
              /\ Invalidated(h).ino[i].doubt = h.ino[i].doubt
              /\ Invalidated(h).ino[i].subdir = h.ino[i].subdir
<1> DEFINE g == FreeRoot(h)
           r == NewRoot(h)
           f == [i \in DOMAIN g.ino \cup {r} |->
                   IF i = r THEN NewInode(Root, 0, FALSE) ELSE g.ino[i]]
           q == [g EXCEPT !.ino = f]
<1>1. WF(g, NoPtr, streams, handles, {}) /\ SameBut(h, g, NoPtr)
  BY FreeRootKeeps
<1>2. r \in Ptr /\ r \notin DOMAIN g.ino
  <2>1. Fresh(g) \in Nat /\ \A x : <<Fresh(g), x>> \notin DOMAIN g.ino
    BY <1>1, FreshIsFree
  <2>2. r = <<Fresh(g), Root>>
    BY DEF NewRoot
  <2> QED BY <2>1, <2>2 DEF Ptr
<1>3. q = Invalidated(h)
  BY DEF Invalidated
<1>4. g = [ino |-> g.ino, ent |-> g.ent]
  BY <1>1 DEF WF, HeapTyped
<1> HIDE DEF g, r
<1>5. q = [ino |-> f, ent |-> g.ent]
  <2> HIDE DEF f
  <2> QED BY <1>4
<1> DEFINE new == NewInode(Root, 0, FALSE)
<1>6. new \in InodeRec /\ new.subdir = << >> /\ new.name = Root
  BY EmptySeq DEF NewInode, InodeRec
<1>7. /\ q = [ino |-> q.ino, ent |-> q.ent] /\ q.ent = g.ent
      /\ DOMAIN q.ino = DOMAIN g.ino \cup {r}
      /\ q.ino = [i \in DOMAIN g.ino \cup {r} |-> q.ino[i]]
      /\ \A i \in DOMAIN g.ino : q.ino[i] = g.ino[i] /\ Below(q, i) = Below(g, i)
      /\ q.ino[r] = new
  BY <1>2, <1>5 DEF Below
<1>8. Below(q, r) = {}
  <2>1. DOMAIN << >> = {}
    OBVIOUS
  <2>2. q.ino[r].subdir = << >>
    BY <1>6, <1>7
  <2> QED BY <2>1, <2>2 DEF Below, Range
<1> HIDE DEF q, f, new
<1>9. /\ DOMAIN g.ino \subseteq Ptr /\ IsFiniteSet(DOMAIN g.ino)
      /\ \A i \in DOMAIN g.ino : g.ino[i] \in InodeRec
      /\ g.ent \in [DOMAIN g.ent -> DOMAIN g.ino]
      /\ DOMAIN g.ent \subseteq DOMAIN g.ino
      /\ \A e \in DOMAIN g.ent : g.ent[e] \in DOMAIN g.ino /\ g.ent[e] # r /\ e # r
  BY <1>1, <1>2 DEF WF, HeapTyped
<1>10. NoPtr \notin DOMAIN g.ino /\ r # NoPtr
  BY <1>2, <1>9, PointersDiffer
<1>11. HeapTyped(q)
  <2>1. q.ino \in [DOMAIN q.ino -> InodeRec]
    BY <1>6, <1>7, <1>9
  <2>2. q.ent \in [DOMAIN q.ent -> DOMAIN q.ino]
    BY <1>7, <1>9
  <2>3. IsFiniteSet(DOMAIN q.ino)
    BY <1>7, <1>9, FS_AddElement
  <2> QED BY <1>2, <1>7, <1>9, <2>1, <2>2, <2>3 DEF HeapTyped
<1>12. ListsMatch(q, r)
  <2>1. ASSUME NEW i \in DOMAIN q.ino
        PROVE  Below(q, i) = {e \in DOMAIN q.ent : q.ent[e] = i}
    <3>1. CASE i = r
      BY <1>7, <1>8, <1>9, <3>1
    <3>2. CASE i # r
      <4>1. i \in DOMAIN g.ino /\ Below(q, i) = Below(g, i) /\ q.ent = g.ent
        BY <1>7, <3>2
      <4>2. Below(g, i) = {e \in DOMAIN g.ent : g.ent[e] = i}
        BY <1>1, <4>1 DEF WF, ListsMatch
      <4> QED BY <4>1, <4>2
    <3> QED BY <3>1, <3>2
  <2>2. ASSUME NEW i \in DOMAIN q.ino, i # r PROVE q.ino[i].ent <=> i \in DOMAIN q.ent
    <3>1. i \in DOMAIN g.ino /\ q.ino[i] = g.ino[i] /\ i # NoPtr
      BY <1>7, <1>10, <2>2
    <3>2. g.ino[i].ent <=> i \in DOMAIN g.ent
      BY <1>1, <3>1 DEF WF, ListsMatch
    <3> QED BY <1>7, <3>1, <3>2
  <2>3. ASSUME NEW e \in DOMAIN q.ent
        PROVE  /\ q.ent[e] # r /\ q.ino[e].name \in Files /\ q.ino[q.ent[e]].name \in Dirs
    <3>1. /\ e \in DOMAIN g.ino /\ g.ent[e] \in DOMAIN g.ino /\ g.ent[e] # NoPtr
          /\ q.ent[e] = g.ent[e] /\ e \in DOMAIN g.ent /\ g.ent[e] # r
      BY <1>7, <1>9, <1>10
    <3>2. g.ino[e].name \in Files /\ g.ino[g.ent[e]].name \in Dirs
      BY <1>1, <3>1 DEF WF, ListsMatch
    <3> QED BY <1>7, <3>1, <3>2
  <2> QED BY <1>7, <1>9, <2>1, <2>2, <2>3 DEF ListsMatch
<1>13. Opened(q, r, streams, handles)
  <2>1. \A s \in Streams :
          /\ streams[s] \in [dir : DOMAIN g.ino \cup {NoPtr}, cur : DOMAIN g.ent \cup {NoPtr}]
          /\ streams[s].dir \in DOMAIN g.ino \cup {NoPtr}
          /\ streams[s].cur \in DOMAIN g.ent \cup {NoPtr}
          /\ streams[s].dir # NoPtr => g.ino[streams[s].dir].name \in Dirs
          /\ streams[s].cur # NoPtr => g.ent[streams[s].cur] = streams[s].dir
    BY <1>1 DEF WF, Opened
  <2>2. \A x \in Handles :
          /\ handles[x] \in [ino : DOMAIN g.ino \cup {NoPtr}, changed : BOOLEAN]
          /\ handles[x].ino \in DOMAIN g.ino \cup {NoPtr}
          /\ handles[x].ino # NoPtr => g.ino[handles[x].ino].name \in Files
    BY <1>1 DEF WF, Opened
  <2>3. \A s \in Streams :
          streams[s] \in [dir : DOMAIN q.ino \cup {NoPtr}, cur : DOMAIN q.ent \cup {NoPtr}]
    BY <1>7, <2>1
  <2>4. \A x \in Handles :
          handles[x] \in [ino : DOMAIN q.ino \cup {NoPtr}, changed : BOOLEAN]
    BY <1>7, <2>2
  <2>5. /\ streams \in [Streams -> [dir : DOMAIN q.ino \cup {NoPtr},
                                    cur : DOMAIN q.ent \cup {NoPtr}]]
        /\ handles \in [Handles -> [ino : DOMAIN q.ino \cup {NoPtr}, changed : BOOLEAN]]
    BY <1>1, <2>3, <2>4 DEF WF, Opened
  <2>6. \A s \in Streams :
          /\ streams[s].dir # NoPtr => streams[s].dir # r /\ q.ino[streams[s].dir].name \in Dirs
          /\ streams[s].cur # NoPtr => q.ent[streams[s].cur] = streams[s].dir
    BY <1>2, <1>7, <2>1
  <2>7. \A x \in Handles :
          handles[x].ino # NoPtr =>
            handles[x].ino # r /\ q.ino[handles[x].ino].name \in Files
    BY <1>2, <1>7, <2>2
  <2> QED BY <2>5, <2>6, <2>7 DEF Opened
<1>14. Counted(q, r, streams, handles, {})
  <2> SUFFICES ASSUME NEW i \in DOMAIN q.ino, i # r
               PROVE  /\ q.ino[i].nlink = One(q.ino[i].ent) + Opens(streams, handles, i)
                                          + One(i \in {})
                      /\ q.ino[i].nlink > 0
    BY DEF Counted
  <2>1. i \in DOMAIN g.ino \ {NoPtr} /\ q.ino[i] = g.ino[i]
    BY <1>7, <1>10
  <2> QED BY <1>1, <2>1 DEF WF, Counted
<1>15. WF(q, r, streams, handles, {})
  BY <1>7, <1>11, <1>12, <1>13, <1>14 DEF WF
<1>16. \A i \in DOMAIN q.ino \ {r} :
         /\ i \in DOMAIN h.ino
         /\ q.ino[i].name = h.ino[i].name
         /\ q.ino[i].local = h.ino[i].local
         /\ q.ino[i].doubt = h.ino[i].doubt
         /\ q.ino[i].subdir = h.ino[i].subdir
  BY <1>1, <1>7, <1>10 DEF SameBut
<1> QED BY <1>3, <1>8, <1>10, <1>15, <1>16 DEF r

(* Below the directory dir of g there are new inodes of a heap h.          *)
Added(h, g, dir, n, names, local) ==
  LET new == [k \in DOMAIN names |-> <<n, names[k]>>]
  IN /\ DOMAIN g.ino = DOMAIN h.ino \cup Range(new)
     /\ \A i \in DOMAIN h.ino :
          /\ g.ino[i].name = h.ino[i].name /\ g.ino[i].local = h.ino[i].local
          /\ g.ino[i].doubt = h.ino[i].doubt
          /\ i # dir => g.ino[i].subdir = h.ino[i].subdir
     /\ g.ino[dir].subdir = h.ino[dir].subdir \o new
     /\ Below(g, dir) = Below(h, dir) \cup Range(new)
     /\ \A i \in Range(new) : /\ g.ino[i].name = i[2] /\ g.ino[i].local = local
                              /\ g.ino[i].subdir = << >>

LEMMA NobodyOpens ==
  ASSUME NEW h, NEW r, NEW st, NEW hd, NEW P, WF(h, r, st, hd, P),
         NEW i, i \notin DOMAIN h.ino, i # NoPtr
  PROVE  Opens(st, hd, i) = 0
<1>1. /\ \A s \in Streams : st[s].dir \in DOMAIN h.ino \cup {NoPtr}
      /\ \A x \in Handles : hd[x].ino \in DOMAIN h.ino \cup {NoPtr}
  BY DEF WF, Opened
<1>2. {s \in Streams : st[s].dir = i} = {} /\ {x \in Handles : hd[x].ino = i} = {}
  BY <1>1
<1>3. /\ Cardinality({s \in Streams : st[s].dir = i}) = 0
      /\ Cardinality({x \in Handles : hd[x].ino = i}) = 0
  BY <1>2, FS_EmptySet
<1> QED BY <1>3 DEF Opens

(* vfs_s_insert_entry: the directories of the root, or the files of a      *)
(* directory.                                                              *)
LEMMA InsertKeeps ==
  ASSUME NEW h, NEW r, NEW st, NEW hd, WF(h, r, st, hd, {}),
         NEW dir \in DOMAIN h.ino, NEW n \in Nat, NEW T, NEW names \in Seq(T),
         NEW local \in BOOLEAN,
         \/ dir = r /\ T = Dirs
         \/ dir # r /\ T = Files /\ h.ino[dir].name \in Dirs,
         \A x \in T : <<n, x>> \notin DOMAIN h.ino
  PROVE  /\ WF(Insert(h, dir, n, names, local), r, st, hd, {})
         /\ Added(h, Insert(h, dir, n, names, local), dir, n, names, local)
<1> DEFINE new == [k \in DOMAIN names |-> <<n, names[k]>>]
           N == Range(new)
           g == Insert(h, dir, n, names, local)
<1>0. /\ HeapTyped(h) /\ ListsMatch(h, r) /\ r \in DOMAIN h.ino \cup {NoPtr}
      /\ Opened(h, r, st, hd) /\ Counted(h, r, st, hd, {})
  BY DEF WF
<1>1. /\ g = [ino |-> g.ino, ent |-> g.ent]
      /\ g.ent = [i \in DOMAIN h.ent \cup N |-> IF i \in N THEN dir ELSE h.ent[i]]
      /\ g.ino = [i \in DOMAIN h.ino \cup N |->
                    IF i \in N THEN NewInode(i[2], 1, local)
                    ELSE IF i = dir THEN [h.ino[i] EXCEPT !.subdir = @ \o new]
                    ELSE h.ino[i]]
  BY DEF Insert
<1>2. /\ new \in Seq(N) /\ N \subseteq Ptr /\ IsFiniteSet(N)
      /\ \A i \in N : i[2] \in T /\ i \notin DOMAIN h.ino /\ i = <<n, i[2]>>
  <2>1. Len(names) \in Nat /\ DOMAIN names = 1 .. Len(names)
        /\ \A k \in 1 .. Len(names) : names[k] \in T
    BY LenProperties, ElementOfSeq
  <2>2. \A k \in 1 .. Len(names) : new[k] = <<n, names[k]>> /\ new[k] \in N
    BY <2>1 DEF Range
  <2>3. \A i \in N : \E k \in 1 .. Len(names) : i = <<n, names[k]>>
    BY <2>1 DEF Range
  <2>4. new \in [1 .. Len(names) -> N]
    BY <2>1, <2>2
  <2> HIDE DEF new, N
  <2>5. new \in Seq(N)
    BY <2>1, <2>4, SeqDef
  <2>6. T \subseteq Dirs \cup Files \cup {Root}
    OBVIOUS
  <2>7. N \subseteq Ptr
    BY <2>1, <2>3, <2>6 DEF Ptr
  <2>8. IsFiniteSet(N)
    <3>1. new \in Surjection(1 .. Len(names), N)
      BY <2>1, <2>4 DEF Surjection, N, Range
    <3>2. IsFiniteSet(1 .. Len(names))
      <4>1. 1 \in Int /\ Len(names) \in Int
        BY <2>1
      <4> QED BY <4>1, FS_Interval
    <3> QED BY <3>1, <3>2, FS_Surjection
  <2> QED BY <2>1, <2>3, <2>5, <2>7, <2>8
<1> HIDE DEF new, N, g
<1>3. \A i \in DOMAIN h.ino : h.ino[i] \in InodeRec /\ i \in Ptr /\ i \notin N
  BY <1>0, <1>2 DEF HeapTyped
<1>n. \A i \in N : /\ g.ino[i] \in InodeRec /\ g.ino[i].name = i[2] /\ g.ino[i].nlink = 1
                   /\ g.ino[i].ent /\ g.ino[i].subdir = << >> /\ g.ino[i].local = local
                   /\ Below(g, i) = {}
  <2> TAKE i \in N
  <2>1. g.ino[i] = NewInode(i[2], 1, local)
    BY <1>1
  <2>2. i[2] \in Dirs \cup Files \cup {Root}
    BY <1>2
  <2>3. << >> \in Seq(Ptr) /\ 1 \in Nat
    BY EmptySeq
  <2>4. /\ g.ino[i] \in InodeRec /\ g.ino[i].name = i[2] /\ g.ino[i].nlink = 1
        /\ g.ino[i].ent /\ g.ino[i].subdir = << >> /\ g.ino[i].local = local
    BY <2>1, <2>2, <2>3 DEF NewInode, InodeRec
  <2>5. DOMAIN << >> = {}
    OBVIOUS
  <2> QED BY <2>4, <2>5 DEF Below, Range
<1>o. \A i \in DOMAIN h.ino :
        /\ g.ino[i] \in InodeRec /\ g.ino[i].name = h.ino[i].name
        /\ g.ino[i].nlink = h.ino[i].nlink /\ g.ino[i].ent = h.ino[i].ent
        /\ g.ino[i].local = h.ino[i].local
        /\ g.ino[i].doubt = h.ino[i].doubt
        /\ g.ino[i].subdir = IF i = dir THEN h.ino[i].subdir \o new ELSE h.ino[i].subdir
  <2> TAKE i \in DOMAIN h.ino
  <2>1. CASE i = dir
    <3> DEFINE q == h.ino[dir]
               l == q.subdir \o new
    <3>1. q \in InodeRec /\ q.subdir \in Seq(Ptr)
      BY <1>3 DEF InodeRec
    <3>2. l \in Seq(Ptr)
      <4>1. new \in Seq(Ptr)
        BY <1>2, SeqMonotonic
      <4> QED BY <3>1, <4>1, ConcatProperties
    <3>3. g.ino[i] = [q EXCEPT !.subdir = l]
      BY <1>1, <1>3, <2>1
    <3> HIDE DEF q, l
    <3>4. /\ [q EXCEPT !.subdir = l] \in InodeRec
          /\ [q EXCEPT !.subdir = l].name = q.name
          /\ [q EXCEPT !.subdir = l].nlink = q.nlink
          /\ [q EXCEPT !.subdir = l].ent = q.ent
          /\ [q EXCEPT !.subdir = l].local = q.local
          /\ [q EXCEPT !.subdir = l].doubt = q.doubt
          /\ [q EXCEPT !.subdir = l].subdir = l
      BY <3>1, <3>2 DEF InodeRec
    <3> QED BY <2>1, <3>3, <3>4 DEF q, l
  <2>2. CASE i # dir
    BY <1>1, <1>3, <2>2
  <2> QED BY <2>1, <2>2
<1>b. /\ Below(g, dir) = Below(h, dir) \cup N
      /\ \A i \in DOMAIN h.ino \ {dir} : Below(g, i) = Below(h, i)
  <2>1. h.ino[dir].subdir \in Seq(Ptr) /\ new \in Seq(Ptr)
    BY <1>2, <1>3, SeqMonotonic DEF InodeRec
  <2>2. Range(h.ino[dir].subdir \o new) = Range(h.ino[dir].subdir) \cup Range(new)
    BY <2>1, RangeConcatenation
  <2> QED BY <2>2, <1>o DEF Below, N
<1>d. /\ DOMAIN g.ino = DOMAIN h.ino \cup N /\ DOMAIN g.ent = DOMAIN h.ent \cup N
      /\ \A e \in DOMAIN h.ent : e \in DOMAIN h.ino /\ h.ent[e] \in DOMAIN h.ino /\ e \notin N
      /\ \A e \in N : g.ent[e] = dir
      /\ \A e \in DOMAIN h.ent : g.ent[e] = h.ent[e]
  <2>1. \A e \in DOMAIN h.ent : e \in DOMAIN h.ino /\ h.ent[e] \in DOMAIN h.ino
    BY <1>0 DEF HeapTyped
  <2>2. \A e \in DOMAIN h.ent : e \notin N
    BY <2>1, <1>3
  <2> QED BY <1>1, <2>1, <2>2
<1>6. HeapTyped(g)
  <2>1. g.ino \in [DOMAIN g.ino -> InodeRec]
    <3>1. \A i \in DOMAIN g.ino : g.ino[i] \in InodeRec
      BY <1>d, <1>n, <1>o
    <3>2. g.ino = [i \in DOMAIN g.ino |-> g.ino[i]]
      BY <1>1
    <3> QED BY <3>1, <3>2
  <2>2. g.ent \in [DOMAIN g.ent -> DOMAIN g.ino]
    <3>1. \A e \in DOMAIN g.ent : g.ent[e] \in DOMAIN g.ino
      BY <1>d
    <3>2. g.ent = [e \in DOMAIN g.ent |-> g.ent[e]]
      BY <1>1
    <3> QED BY <3>1, <3>2
  <2>3. IsFiniteSet(DOMAIN g.ino)
    <3>1. IsFiniteSet(DOMAIN h.ino) /\ IsFiniteSet(N)
      BY <1>0, <1>2 DEF HeapTyped
    <3>2. IsFiniteSet(DOMAIN h.ino \cup N)
      BY <3>1, FS_Union
    <3> QED BY <3>2, <1>d
  <2>4. DOMAIN g.ino \subseteq Ptr /\ DOMAIN g.ent \subseteq DOMAIN g.ino
    BY <1>2, <1>3, <1>d
  <2> QED BY <1>1, <2>1, <2>2, <2>3, <2>4 DEF HeapTyped
<1>p. r \notin N /\ NoPtr \notin N
  BY <1>0, <1>2, PointersDiffer
<1>7. ListsMatch(g, r)
  <2>1. ASSUME NEW i \in DOMAIN g.ino
        PROVE  Below(g, i) = {e \in DOMAIN g.ent : g.ent[e] = i}
    <3>1. CASE i \in N
      <4>1. i # dir /\ i \notin DOMAIN h.ino
        BY <1>2, <3>1
      <4> QED BY <1>d, <1>n, <3>1, <4>1
    <3>2. CASE i = dir
      <4>1. Below(h, dir) = {e \in DOMAIN h.ent : h.ent[e] = dir}
        BY <1>0 DEF ListsMatch
      <4> QED BY <1>b, <1>d, <3>2, <4>1
    <3>3. CASE i \in DOMAIN h.ino \ {dir}
      <4>1. Below(h, i) = {e \in DOMAIN h.ent : h.ent[e] = i}
        BY <1>0, <3>3 DEF ListsMatch
      <4> QED BY <1>b, <1>d, <3>3, <4>1
    <3> QED BY <1>d, <3>1, <3>2, <3>3
  <2>2. ASSUME NEW i \in DOMAIN g.ino \ {r} PROVE g.ino[i].ent <=> i \in DOMAIN g.ent
    <3>1. CASE i \in N
      BY <1>d, <1>n, <3>1
    <3>2. CASE i \in DOMAIN h.ino
      <4>1. h.ino[i].ent <=> i \in DOMAIN h.ent
        BY <1>0, <3>2 DEF ListsMatch
      <4>2. i \notin N /\ g.ino[i].ent = h.ino[i].ent
        BY <1>3, <1>o, <3>2
      <4> QED BY <4>1, <4>2, <1>d
    <3> QED BY <1>d, <3>1, <3>2
  <2>3. r \notin DOMAIN g.ent
    BY <1>0, <1>d, <1>p DEF ListsMatch
  <2>4. ASSUME NEW e \in DOMAIN g.ent
        PROVE  \/ g.ent[e] = r /\ g.ino[e].name \in Dirs
               \/ g.ent[e] # r /\ g.ino[e].name \in Files /\ g.ino[g.ent[e]].name \in Dirs
    <3>1. CASE e \in N
      <4>1. g.ent[e] = dir /\ g.ino[e].name \in T /\ g.ino[dir].name = h.ino[dir].name
        BY <1>2, <1>d, <1>n, <1>o, <3>1
      <4> QED BY <4>1
    <3>2. CASE e \in DOMAIN h.ent
      <4>1. g.ent[e] = h.ent[e] /\ e \in DOMAIN h.ino /\ h.ent[e] \in DOMAIN h.ino
        BY <1>d, <3>2
      <4>2. g.ino[e].name = h.ino[e].name /\ g.ino[h.ent[e]].name = h.ino[h.ent[e]].name
        BY <1>o, <4>1
      <4> QED BY <1>0, <3>2, <4>1, <4>2 DEF ListsMatch
    <3> QED BY <1>d, <3>1, <3>2
  <2> QED BY <2>1, <2>2, <2>3, <2>4 DEF ListsMatch
<1>8. Opened(g, r, st, hd)
  <2>1. \A s \in Streams :
          /\ st[s] \in [dir : DOMAIN h.ino \cup {NoPtr}, cur : DOMAIN h.ent \cup {NoPtr}]
          /\ st[s].dir \in DOMAIN h.ino \cup {NoPtr} /\ st[s].cur \in DOMAIN h.ent \cup {NoPtr}
          /\ st[s].dir # NoPtr => st[s].dir # r /\ h.ino[st[s].dir].name \in Dirs
          /\ st[s].cur # NoPtr => h.ent[st[s].cur] = st[s].dir
    BY <1>0 DEF Opened
  <2>2. \A x \in Handles :
          /\ hd[x] \in [ino : DOMAIN h.ino \cup {NoPtr}, changed : BOOLEAN]
          /\ hd[x].ino \in DOMAIN h.ino \cup {NoPtr}
          /\ hd[x].ino # NoPtr => hd[x].ino # r /\ h.ino[hd[x].ino].name \in Files
    BY <1>0 DEF Opened
  <2>3. \A s \in Streams :
          st[s] \in [dir : DOMAIN g.ino \cup {NoPtr}, cur : DOMAIN g.ent \cup {NoPtr}]
    BY <1>d, <2>1
  <2>4. \A x \in Handles : hd[x] \in [ino : DOMAIN g.ino \cup {NoPtr}, changed : BOOLEAN]
    BY <1>d, <2>2
  <2>5. /\ st \in [Streams -> [dir : DOMAIN g.ino \cup {NoPtr}, cur : DOMAIN g.ent \cup {NoPtr}]]
        /\ hd \in [Handles -> [ino : DOMAIN g.ino \cup {NoPtr}, changed : BOOLEAN]]
    BY <1>0, <2>3, <2>4 DEF Opened
  <2>6. \A s \in Streams :
          /\ st[s].dir # NoPtr => st[s].dir # r /\ g.ino[st[s].dir].name \in Dirs
          /\ st[s].cur # NoPtr => g.ent[st[s].cur] = st[s].dir
    BY <1>d, <1>o, <2>1
  <2>7. \A x \in Handles :
          hd[x].ino # NoPtr => hd[x].ino # r /\ g.ino[hd[x].ino].name \in Files
    BY <1>o, <2>2
  <2> QED BY <2>5, <2>6, <2>7 DEF Opened
<1>9. Counted(g, r, st, hd, {})
  <2> SUFFICES ASSUME NEW i \in DOMAIN g.ino \ {r}
               PROVE  /\ g.ino[i].nlink = One(g.ino[i].ent) + Opens(st, hd, i) + One(i \in {})
                      /\ g.ino[i].nlink > 0
    BY DEF Counted
  <2>1. CASE i \in N
    <3>1. i \notin DOMAIN h.ino /\ i # NoPtr
      BY <1>2, <1>p, <2>1
    <3>2. Opens(st, hd, i) = 0
      BY <3>1, NobodyOpens
    <3> QED BY <1>n, <2>1, <3>2 DEF One
  <2>2. CASE i \in DOMAIN h.ino
    <3>1. /\ h.ino[i].nlink = One(h.ino[i].ent) + Opens(st, hd, i) + One(i \in {})
          /\ h.ino[i].nlink > 0
      BY <1>0, <2>2 DEF Counted
    <3>2. g.ino[i].nlink = h.ino[i].nlink /\ g.ino[i].ent = h.ino[i].ent
      BY <1>o, <2>2
    <3> QED BY <3>1, <3>2
  <2> QED BY <1>d, <2>1, <2>2
<1>10. Added(h, g, dir, n, names, local)
  BY <1>b, <1>d, <1>n, <1>o DEF Added, N, new
<1>11. r \in DOMAIN g.ino \cup {NoPtr}
  BY <1>0, <1>d
<1> QED BY <1>6, <1>7, <1>8, <1>9, <1>10, <1>11 DEF WF, g

(* A finite set as a sequence.                                             *)
LEMMA SetToSeqIs ==
  ASSUME NEW S, IsFiniteSet(S)
  PROVE  SetToSeq(S) \in Seq(S) /\ Range(SetToSeq(S)) = S
<1>1. Cardinality(S) \in Nat /\ ExistsBijection(1 .. Cardinality(S), S)
  BY FS_CardinalityType
<1>2. \E f \in [1 .. Cardinality(S) -> S] : IsInjective(f)
  BY <1>1 DEF ExistsBijection, Bijection, Injection
<1>3. SetToSeq(S) \in [1 .. Cardinality(S) -> S] /\ IsInjective(SetToSeq(S))
  BY <1>2, Zenon DEF SetToSeq
<1>4. SetToSeq(S) \in Seq(S)
  BY <1>1, <1>3, SeqDef
<1>5. SetToSeq(S) \in Injection(1 .. Cardinality(S), S)
  BY <1>3 DEF Injection
<1>6. IsFiniteSet(1 .. Cardinality(S)) /\ Cardinality(1 .. Cardinality(S)) = Cardinality(S)
  <2> DEFINE c == Cardinality(S)
  <2>1. 1 \in Int /\ c \in Int /\ (IF 1 > c THEN 0 ELSE c - 1 + 1) = c
    BY <1>1
  <2> HIDE DEF c
  <2>2. IsFiniteSet(1 .. c) /\ Cardinality(1 .. c) = c
    BY <2>1, FS_Interval, Zenon
  <2> QED BY <2>2 DEF c
<1>7. SetToSeq(S) \in Surjection(1 .. Cardinality(S), S)
  BY <1>5, <1>6, FS_Injection
<1>8. Range(SetToSeq(S)) = S
  BY <1>7, <1>3 DEF Surjection, Range
<1> QED BY <1>4, <1>8

-----------------------------------------------------------------------------
(* What the cache shows.                                                   *)

LEMMA ShowsStill ==
  ASSUME NEW h, NEW g, NEW d, Shows(h, d, remote), g.ino[d].name = h.ino[d].name,
         g.ino[d].doubt = h.ino[d].doubt,
         Below(h, d) \subseteq Below(g, d),
         \A f \in Below(h, d) : /\ g.ino[f].name = h.ino[f].name
                                /\ h.ino[f].local => g.ino[f].local,
         \A f \in Below(g, d) : f \in Below(h, d) \/ g.ino[f].local
  PROVE  Shows(g, d, remote)
<1>0. SUFFICES ASSUME ~h.ino[d].doubt PROVE Shows(g, d, remote)
  BY DEF Shows
<1>1. ASSUME NEW n \in remote[g.ino[d].name] PROVE \E f \in Below(g, d) : g.ino[f].name = n
  <2>1. PICK f \in Below(h, d) : h.ino[f].name = n
    BY <1>0 DEF Shows
  <2> QED BY <2>1
<1>2. ASSUME NEW f \in Below(g, d)
      PROVE  g.ino[f].local \/ g.ino[f].name \in remote[g.ino[d].name]
  BY <1>0 DEF Shows
<1> QED BY <1>1, <1>2 DEF Shows

(* A listing that is not freed shows what it showed.                       *)
LEMMA FreeEntriesShow ==
  ASSUME NEW h, NEW r, NEW st, NEW hd, WF(h, r, st, hd, {}), r \in DOMAIN h.ino,
         r # NoPtr, NEW S, S \subseteq Below(h, r), Current(h, r, remote)
  PROVE  Current(FreeEntries(h, S), r, remote)
<1> DEFINE g == FreeEntries(h, S)
<1>1. /\ WF(g, r, st, hd, {}) /\ SameBut(h, g, r)
      /\ r \in DOMAIN g.ino /\ Below(g, r) = Below(h, r) \ S
  BY FreeEntriesKeeps
<1> HIDE DEF g
<1>2. ASSUME NEW d \in Below(g, r) PROVE Shows(g, d, remote)
  <2>1. d \in DOMAIN g.ino /\ d # r /\ d \in Below(h, r)
    BY <1>1, BelowIs
  <2>2. /\ g.ino[d].name = h.ino[d].name /\ g.ino[d].doubt = h.ino[d].doubt
        /\ Below(g, d) = Below(h, d)
    BY <1>1, <2>1 DEF SameBut, Below
  <2>3. \A f \in Below(g, d) : f \in DOMAIN g.ino /\ f # r
    BY <1>1, <2>1, BelowIs
  <2>4. \A f \in Below(g, d) : g.ino[f].name = h.ino[f].name /\ g.ino[f].local = h.ino[f].local
    BY <1>1, <2>3 DEF SameBut
  <2>5. Shows(h, d, remote)
    BY <2>1 DEF Current
  <2> QED BY <2>2, <2>4, <2>5, ShowsStill
<1> QED BY <1>2 DEF Current, g

(* Entries are added to a directory, which shows as much as before if they *)
(* are mc's own.                                                           *)
LEMMA AddedShow ==
  ASSUME NEW h, NEW r, NEW st, NEW hd, WF(h, r, st, hd, {}), NEW g,
         NEW dir, NEW n, NEW names, NEW local, Added(h, g, dir, n, names, local),
         NEW d \in DOMAIN h.ino, Shows(h, d, remote), d = dir => local
  PROVE  Shows(g, d, remote)
<1>1. \A f \in Below(h, d) : f \in DOMAIN h.ino
  BY BelowIs
<1>2. /\ g.ino[d].name = h.ino[d].name /\ g.ino[d].doubt = h.ino[d].doubt
      /\ \A f \in Below(h, d) : g.ino[f].name = h.ino[f].name /\ g.ino[f].local = h.ino[f].local
  BY <1>1 DEF Added
<1>3. CASE d = dir
  <2> DEFINE N == Range([k \in DOMAIN names |-> <<n, names[k]>>])
  <2>1. Below(g, d) = Below(h, d) \cup N /\ \A f \in N : g.ino[f].local = local
    BY <1>3 DEF Added
  <2> HIDE DEF N
  <2> QED BY <2>1, <1>2, <1>3, ShowsStill
<1>4. CASE d # dir
  <2>1. Below(g, d) = Below(h, d)
    BY <1>4 DEF Added, Below
  <2> QED BY <2>1, <1>2, ShowsStill
<1> QED BY <1>3, <1>4

-----------------------------------------------------------------------------
(* vfs_s_find_entry_linear.                                                *)

(* The directories that are open are as they were in h.                    *)
OpenAsIn(h, g) ==
  \A s \in Streams : streams[s].dir # NoPtr =>
    g.ino[streams[s].dir].subdir = h.ino[streams[s].dir].subdir

LEMMA SomeName ==
  ASSUME NEW x, NEW n
  PROVE  /\ <<x>> \in Seq({x}) /\ DOMAIN <<x>> = {1}
         /\ Range([k \in DOMAIN <<x>> |-> <<n, <<x>>[k]>>]) = {<<n, x>>}
<1>1. <<x>> \in Seq({x}) /\ DOMAIN <<x>> = {1} /\ <<x>>[1] = x
  OBVIOUS
<1>2. Range([k \in DOMAIN <<x>> |-> <<n, <<x>>[k]>>])
        = {[k \in DOMAIN <<x>> |-> <<n, <<x>>[k]>>][j] : j \in {1}}
  BY <1>1 DEF Range
<1> QED BY <1>1, <1>2

LEMMA LoadKeeps ==
  ASSUME NEW h, WF(h, root, streams, handles, {}), root \in DOMAIN h.ino,
         remote \in [Dirs -> SUBSET Files], NEW d \in Dirs,
         NEW g, NEW i, g = Load(h, d).heap, i = Load(h, d).dir
  PROVE  /\ WF(g, root, streams, handles, {})
         /\ i \in Below(g, root) /\ g.ino[i].name = d
         /\ OpenAsIn(h, g)
         /\ Current(h, root, remote) => Current(g, root, remote)
<1> DEFINE n == Fresh(h)
           f == SetToSeq(remote[d])
           m == Insert(h, root, n, <<d>>, FALSE)
<1>1. n \in Nat /\ \A x : <<n, x>> \notin DOMAIN h.ino
  BY FreshIsFree
<1>2. i = <<n, d>> /\ g = Insert(m, i, n, f, FALSE)
  BY DEF Load
<1> HIDE DEF n
<1>3. WF(m, root, streams, handles, {}) /\ Added(h, m, root, n, <<d>>, FALSE)
  <2>1. <<d>> \in Seq(Dirs)
    OBVIOUS
  <2>2. FALSE \in BOOLEAN /\ root = root /\ Dirs = Dirs
    OBVIOUS
  <2> QED BY <1>1, <2>1, <2>2, InsertKeeps
<1> HIDE DEF m
<1>4. /\ DOMAIN m.ino = DOMAIN h.ino \cup {i} /\ i \notin DOMAIN h.ino /\ i # root
      /\ Below(m, root) = Below(h, root) \cup {i}
      /\ m.ino[i].name = d /\ m.ino[i].subdir = << >> /\ Below(m, i) = {}
  <2>1. Range([k \in DOMAIN <<d>> |-> <<n, <<d>>[k]>>]) = {i}
    BY <1>2, SomeName
  <2>2. i[2] = d /\ i \notin DOMAIN h.ino /\ i # root
    BY <1>1, <1>2
  <2>3. /\ DOMAIN m.ino = DOMAIN h.ino \cup {i} /\ Below(m, root) = Below(h, root) \cup {i}
        /\ m.ino[i].name = d /\ m.ino[i].subdir = << >>
    BY <1>3, <2>1, <2>2 DEF Added
  <2>4. DOMAIN << >> = {}
    OBVIOUS
  <2> QED BY <2>2, <2>3, <2>4 DEF Below, Range
<1>5. f \in Seq(remote[d]) /\ Range(f) = remote[d] /\ remote[d] \subseteq Files
  <2>1. remote[d] \in SUBSET Files /\ IsFiniteSet(remote[d])
    BY DirCacheAssumption, FS_Subset
  <2> QED BY <2>1, SetToSeqIs
<1>6. f \in Seq(Files)
  BY <1>5, SeqMonotonic
<1> HIDE DEF f
<1>7. WF(g, root, streams, handles, {}) /\ Added(m, g, i, n, f, FALSE)
  <2>1. \A x \in Files : <<n, x>> \notin DOMAIN m.ino
    <3>1. \A x \in Files : <<n, x>> # i
      BY <1>2, PointersDiffer
    <3> QED BY <3>1, <1>1, <1>4
  <2>2. /\ i \in DOMAIN m.ino /\ i # root /\ m.ino[i].name \in Dirs
        /\ FALSE \in BOOLEAN /\ Files = Files
    BY <1>4
  <2>3. \/ i = root /\ Files = Dirs
        \/ i # root /\ Files = Files /\ m.ino[i].name \in Dirs
    BY <2>2
  <2>4. /\ WF(Insert(m, i, n, f, FALSE), root, streams, handles, {})
        /\ Added(m, Insert(m, i, n, f, FALSE), i, n, f, FALSE)
    <3> DEFINE no == FALSE
    <3>1. no \in BOOLEAN /\ i \in DOMAIN m.ino /\ n \in Nat
      BY <1>1, <2>2
    <3> HIDE DEF no
    <3>2. /\ WF(Insert(m, i, n, f, no), root, streams, handles, {})
          /\ Added(m, Insert(m, i, n, f, no), i, n, f, no)
      BY <1>3, <1>6, <2>1, <2>3, <3>1, InsertKeeps
    <3> QED BY <3>2 DEF no
  <2> QED BY <1>2, <2>4
<1>8. root \in DOMAIN m.ino
  BY <1>4
<1>9. /\ Below(g, root) = Below(h, root) \cup {i} /\ g.ino[i].name = d
      /\ \A x \in DOMAIN h.ino : x # root => g.ino[x].subdir = h.ino[x].subdir
  <2>1. Below(g, root) = Below(m, root) /\ g.ino[i].name = d
    BY <1>4, <1>7, <1>8 DEF Added, Below
  <2>2. ASSUME NEW x \in DOMAIN h.ino, x # root
        PROVE  g.ino[x].subdir = h.ino[x].subdir
    <3>1. x \in DOMAIN m.ino /\ x # i
      BY <1>4
    <3>2. g.ino[x].subdir = m.ino[x].subdir
      BY <3>1, <1>7, Zenon DEF Added
    <3>3. m.ino[x].subdir = h.ino[x].subdir
      BY <2>2, <1>3 DEF Added
    <3> QED BY <3>2, <3>3
  <2> QED BY <2>1, <2>2, <1>4
<1>10. OpenAsIn(h, g)
  <2> SUFFICES ASSUME NEW s \in Streams, streams[s].dir # NoPtr
               PROVE  g.ino[streams[s].dir].subdir = h.ino[streams[s].dir].subdir
    BY DEF OpenAsIn
  <2>1. streams[s].dir \in DOMAIN h.ino /\ streams[s].dir # root
    BY DEF WF, Opened
  <2> QED BY <2>1, <1>9
<1>11. Shows(g, i, remote)
  <2> DEFINE N == Range([k \in DOMAIN f |-> <<n, f[k]>>])
  <2>1. /\ Below(g, i) = Below(m, i) \cup N
        /\ \A x \in N : g.ino[x].name = x[2]
    BY <1>7, Zenon DEF Added
  <2>2. \A x \in remote[d] : <<n, x>> \in N
    <3> TAKE x \in remote[d]
    <3>1. PICK k \in DOMAIN f : f[k] = x
      BY <1>5 DEF Range
    <3> QED BY <3>1 DEF Range
  <2>3. \A y \in N : y[2] \in remote[d]
    <3> TAKE y \in N
    <3>1. PICK k \in DOMAIN f : y = <<n, f[k]>>
      BY DEF Range
    <3>2. f[k] \in remote[d]
      BY <1>5 DEF Range
    <3> QED BY <3>1, <3>2
  <2> HIDE DEF N
  <2>4. Below(g, i) = N /\ g.ino[i].name = d
    BY <1>4, <1>9, <2>1
  <2>5. \A x \in remote[d] : <<n, x>> \in Below(g, i) /\ g.ino[<<n, x>>].name = x
    BY <2>1, <2>2, <2>4
  <2>6. \A y \in Below(g, i) : g.ino[y].name \in remote[d]
    BY <2>1, <2>3, <2>4
  <2>7. \A x \in remote[g.ino[i].name] : \E y \in Below(g, i) : g.ino[y].name = x
    BY <2>4, <2>5
  <2>8. \A y \in Below(g, i) : g.ino[y].local \/ g.ino[y].name \in remote[g.ino[i].name]
    BY <2>4, <2>6
  <2> QED BY <2>7, <2>8, Zenon DEF Shows
<1>12. ASSUME Current(h, root, remote), NEW x \in Below(h, root) PROVE Shows(g, x, remote)
  <2>1. Shows(h, x, remote) /\ x \in DOMAIN h.ino /\ x # root
    BY <1>12, BelowIs DEF Current
  <2>2. Shows(m, x, remote)
    BY <1>3, <2>1, AddedShow
  <2>3. x \in DOMAIN m.ino /\ x # i
    BY <1>4, <2>1
  <2> DEFINE no == FALSE
  <2>4. Added(m, g, i, n, f, no) /\ (x = i => no)
    BY <1>7, <2>3
  <2> HIDE DEF no
  <2> QED BY <1>3, <2>2, <2>3, <2>4, AddedShow
<1> QED BY <1>7, <1>9, <1>10, <1>11, <1>12 DEF Current

(* A lookup of d in the heap, after which nothing that is open has gone.   *)
Found(l, d) ==
  /\ WF(l.heap, root, streams, handles, {})
  /\ l.dir # NoPtr => l.dir \in Below(l.heap, root) /\ l.heap.ino[l.dir].name = d
  /\ OpenAsIn(heap, l.heap)
  /\ Current(heap, root, remote) => Current(l.heap, root, remote)

LEMMA LookupsKeep ==
  ASSUME WF(heap, root, streams, handles, {}), root \in DOMAIN inodes, root # NoPtr,
         remote \in [Dirs -> SUBSET Files], NEW d \in Dirs, NEW l \in Lookups(d)
  PROVE  Found(l, d)
<1> DEFINE here == {i \in Below(heap, root) : inodes[i].name = d}
           gone == FreeEntries(heap, here)
<1>0. heap.ino = inodes /\ here \subseteq Below(heap, root)
  BY DEF heap
<1>1. /\ WF(gone, root, streams, handles, {}) /\ SameBut(heap, gone, root)
      /\ root \in DOMAIN gone.ino
  BY <1>0, FreeEntriesKeeps
<1>2. Current(heap, root, remote) => Current(gone, root, remote)
  BY <1>0, FreeEntriesShow
<1>3. OpenAsIn(heap, gone)
  <2> SUFFICES ASSUME NEW s \in Streams, streams[s].dir # NoPtr
               PROVE  gone.ino[streams[s].dir].subdir = heap.ino[streams[s].dir].subdir
    BY DEF OpenAsIn
  <2>1. streams[s].dir \in DOMAIN gone.ino /\ streams[s].dir # root
    BY <1>1 DEF WF, Opened
  <2> QED BY <2>1, <1>1 DEF SameBut
<1>4. l \in {[heap |-> heap, dir |-> i] : i \in here}
           \cup {Load(gone, d), [heap |-> gone, dir |-> NoPtr]}
  BY DEF Lookups
<1> HIDE DEF gone
<1>5. CASE l \in {[heap |-> heap, dir |-> i] : i \in here}
  <2> HIDE DEF here
  <2>1. PICK i \in here : l = [heap |-> heap, dir |-> i]
    BY <1>5
  <2>2. l.heap = heap /\ l.dir = i
    BY <2>1
  <2>3. i \in Below(heap, root) /\ heap.ino[i].name = d
    BY <1>0 DEF here
  <2> QED BY <2>2, <2>3 DEF Found, OpenAsIn
<1>6. CASE l = Load(gone, d)
  <2>1. /\ WF(l.heap, root, streams, handles, {})
        /\ l.dir \in Below(l.heap, root) /\ l.heap.ino[l.dir].name = d
        /\ OpenAsIn(gone, l.heap)
        /\ Current(gone, root, remote) => Current(l.heap, root, remote)
    BY <1>1, <1>6, LoadKeeps
  <2>2. OpenAsIn(heap, l.heap)
    BY <1>3, <2>1 DEF OpenAsIn
  <2> QED BY <1>2, <2>1, <2>2 DEF Found
<1>7. CASE l = [heap |-> gone, dir |-> NoPtr]
  <2>1. l.heap = gone /\ l.dir = NoPtr
    BY <1>7
  <2> QED BY <1>1, <1>2, <1>3, <2>1 DEF Found
<1> QED BY <1>4, <1>5, <1>6, <1>7

-----------------------------------------------------------------------------
(* Users come and go.                                                      *)

(* In g only counts and marks of h have changed.                           *)
SameShape(h, g) ==
  /\ g = [ino |-> g.ino, ent |-> h.ent]
  /\ g.ino \in [DOMAIN h.ino -> InodeRec]
  /\ \A i \in DOMAIN h.ino : /\ g.ino[i].name = h.ino[i].name
                             /\ g.ino[i].ent = h.ino[i].ent
                             /\ g.ino[i].subdir = h.ino[i].subdir

LEMMA SameShapeKeeps ==
  ASSUME NEW h, NEW r, NEW st, NEW hd, HeapTyped(h), ListsMatch(h, r),
         Opened(h, r, st, hd), NEW g, SameShape(h, g)
  PROVE  HeapTyped(g) /\ ListsMatch(g, r) /\ Opened(g, r, st, hd)
<1>1. /\ g = [ino |-> g.ino, ent |-> g.ent] /\ g.ent = h.ent
      /\ DOMAIN g.ino = DOMAIN h.ino /\ g.ino \in [DOMAIN h.ino -> InodeRec]
      /\ \A i \in DOMAIN h.ino : /\ g.ino[i].name = h.ino[i].name
                                 /\ g.ino[i].ent = h.ino[i].ent
                                 /\ Below(g, i) = Below(h, i)
  <2>1. /\ g = [ino |-> g.ino, ent |-> h.ent]
        /\ g.ino \in [DOMAIN h.ino -> InodeRec]
        /\ \A i \in DOMAIN h.ino : /\ g.ino[i].name = h.ino[i].name
                                   /\ g.ino[i].ent = h.ino[i].ent
                                   /\ g.ino[i].subdir = h.ino[i].subdir
    BY Zenon DEF SameShape
  <2>2. g.ent = h.ent
    BY <2>1
  <2> QED BY <2>1, <2>2 DEF Below
<1>2. HeapTyped(g)
  BY <1>1 DEF HeapTyped
<1>e. \A e \in DOMAIN h.ent : e \in DOMAIN h.ino /\ h.ent[e] \in DOMAIN h.ino
  BY DEF HeapTyped
<1>3. ListsMatch(g, r)
  <2>1. \A i \in DOMAIN g.ino : Below(g, i) = {e \in DOMAIN g.ent : g.ent[e] = i}
    <3> TAKE i \in DOMAIN g.ino
    <3>1. i \in DOMAIN h.ino /\ Below(g, i) = Below(h, i)
      BY <1>1
    <3>2. Below(h, i) = {e \in DOMAIN h.ent : h.ent[e] = i}
      BY <3>1 DEF ListsMatch
    <3> QED BY <1>1, <3>1, <3>2
  <2>2. \A i \in DOMAIN g.ino \ {r} : g.ino[i].ent <=> i \in DOMAIN g.ent
    <3> TAKE i \in DOMAIN g.ino \ {r}
    <3>1. i \in DOMAIN h.ino \ {r} /\ g.ino[i].ent = h.ino[i].ent
      BY <1>1
    <3>2. h.ino[i].ent <=> i \in DOMAIN h.ent
      BY <3>1 DEF ListsMatch
    <3> QED BY <1>1, <3>1, <3>2
  <2>3. r \notin DOMAIN g.ent
    BY <1>1 DEF ListsMatch
  <2>4. \A e \in DOMAIN g.ent :
          \/ g.ent[e] = r /\ g.ino[e].name \in Dirs
          \/ g.ent[e] # r /\ g.ino[e].name \in Files /\ g.ino[g.ent[e]].name \in Dirs
    <3> TAKE e \in DOMAIN g.ent
    <3>1. /\ e \in DOMAIN h.ent /\ g.ent[e] = h.ent[e] /\ g.ino[e].name = h.ino[e].name
          /\ g.ino[g.ent[e]].name = h.ino[h.ent[e]].name
      BY <1>1, <1>e
    <3> QED BY <3>1 DEF ListsMatch
  <2> QED BY <2>1, <2>2, <2>3, <2>4 DEF ListsMatch
<1>4. Opened(g, r, st, hd)
  <2>1. /\ st \in [Streams -> [dir : DOMAIN h.ino \cup {NoPtr}, cur : DOMAIN h.ent \cup {NoPtr}]]
        /\ hd \in [Handles -> [ino : DOMAIN h.ino \cup {NoPtr}, changed : BOOLEAN]]
    BY DEF Opened
  <2>2. \A s \in Streams :
          /\ st[s].dir # NoPtr => st[s].dir # r /\ g.ino[st[s].dir].name \in Dirs
          /\ st[s].cur # NoPtr => g.ent[st[s].cur] = st[s].dir
    <3> TAKE s \in Streams
    <3>1. /\ st[s].dir # NoPtr => st[s].dir # r /\ h.ino[st[s].dir].name \in Dirs
          /\ st[s].cur # NoPtr => h.ent[st[s].cur] = st[s].dir
      BY DEF Opened
    <3>2. st[s].dir \in DOMAIN h.ino \cup {NoPtr}
      BY <2>1
    <3> QED BY <1>1, <3>1, <3>2
  <2>3. \A x \in Handles :
          hd[x].ino # NoPtr => hd[x].ino # r /\ g.ino[hd[x].ino].name \in Files
    <3> TAKE x \in Handles
    <3>1. hd[x].ino # NoPtr => hd[x].ino # r /\ h.ino[hd[x].ino].name \in Files
      BY DEF Opened
    <3>2. hd[x].ino \in DOMAIN h.ino \cup {NoPtr}
      BY <2>1
    <3> QED BY <1>1, <3>1, <3>2
  <2> QED BY <1>1, <2>1, <2>2, <2>3 DEF Opened
<1> QED BY <1>2, <1>3, <1>4

(* Streams st2 and handles hd2 have one user of i more.                    *)
OneMore(st, hd, st2, hd2, i) ==
  \A j : j # NoPtr => Opens(st2, hd2, j) = Opens(st, hd, j) + One(j = i)

LEMMA StreamIsOneMore ==
  ASSUME NEW st, NEW st2, NEW hd, NEW s \in Streams, st[s].dir = NoPtr,
         \A t \in Streams \ {s} : st2[t].dir = st[t].dir
  PROVE  OneMore(st, hd, st2, hd, st2[s].dir)
<1> SUFFICES ASSUME NEW j, j # NoPtr
             PROVE  Opens(st2, hd, j) = Opens(st, hd, j) + One(j = st2[s].dir)
  BY DEF OneMore
<1> DEFINE A == {t \in Streams : st[t].dir = j}
           B == {t \in Streams : st2[t].dir = j}
           C == {x \in Handles : hd[x].ino = j}
<1>1. IsFiniteSet(A) /\ IsFiniteSet(B) /\ IsFiniteSet(C)
  BY DirCacheAssumption, FS_Subset
<1>2. s \notin A
  OBVIOUS
<1>3. Cardinality(A) \in Nat /\ Cardinality(B) \in Nat /\ Cardinality(C) \in Nat
  BY <1>1, FS_CardinalityType
<1>4. Opens(st, hd, j) = Cardinality(A) + Cardinality(C)
      /\ Opens(st2, hd, j) = Cardinality(B) + Cardinality(C)
  BY DEF Opens
<1>5. CASE j = st2[s].dir
  <2>1. B = A \cup {s}
    BY <1>5
  <2> HIDE DEF A, B, C
  <2>2. Cardinality(B) = Cardinality(A) + 1
    BY <1>1, <1>2, <2>1, FS_AddElement
  <2> QED BY <1>3, <1>4, <1>5, <2>2 DEF One
<1>6. CASE j # st2[s].dir
  <2>1. B = A
    BY <1>6
  <2> HIDE DEF A, B, C
  <2> QED BY <1>3, <1>4, <1>6, <2>1 DEF One
<1> QED BY <1>5, <1>6

LEMMA HandleIsOneMore ==
  ASSUME NEW st, NEW hd, NEW hd2, NEW s \in Handles, hd[s].ino = NoPtr,
         \A t \in Handles \ {s} : hd2[t].ino = hd[t].ino
  PROVE  OneMore(st, hd, st, hd2, hd2[s].ino)
<1> SUFFICES ASSUME NEW j, j # NoPtr
             PROVE  Opens(st, hd2, j) = Opens(st, hd, j) + One(j = hd2[s].ino)
  BY DEF OneMore
<1> DEFINE A == {t \in Handles : hd[t].ino = j}
           B == {t \in Handles : hd2[t].ino = j}
           C == {x \in Streams : st[x].dir = j}
<1>1. IsFiniteSet(A) /\ IsFiniteSet(B) /\ IsFiniteSet(C)
  BY DirCacheAssumption, FS_Subset
<1>2. s \notin A
  OBVIOUS
<1>3. Cardinality(A) \in Nat /\ Cardinality(B) \in Nat /\ Cardinality(C) \in Nat
  BY <1>1, FS_CardinalityType
<1>4. Opens(st, hd, j) = Cardinality(C) + Cardinality(A)
      /\ Opens(st, hd2, j) = Cardinality(C) + Cardinality(B)
  BY DEF Opens
<1>5. CASE j = hd2[s].ino
  <2>1. B = A \cup {s}
    BY <1>5
  <2> HIDE DEF A, B, C
  <2>2. Cardinality(B) = Cardinality(A) + 1
    BY <1>1, <1>2, <2>1, FS_AddElement
  <2> QED BY <1>3, <1>4, <1>5, <2>2 DEF One
<1>6. CASE j # hd2[s].ino
  <2>1. B = A
    BY <1>6
  <2> HIDE DEF A, B, C
  <2> QED BY <1>3, <1>4, <1>6, <2>1 DEF One
<1> QED BY <1>5, <1>6

(* The count of i follows a new user.                                      *)
LEMMA AddUserKeeps ==
  ASSUME NEW h, NEW r, NEW st, NEW hd, WF(h, r, st, hd, {}),
         NEW st2, NEW hd2, NEW i \in DOMAIN h.ino \ {r},
         OneMore(st, hd, st2, hd2, i), Opened(h, r, st2, hd2)
  PROVE  /\ WF(AddUser(h, i), r, st2, hd2, {})
         /\ DOMAIN AddUser(h, i).ino = DOMAIN h.ino
         /\ \A j \in DOMAIN h.ino :
              /\ AddUser(h, i).ino[j].name = h.ino[j].name
              /\ AddUser(h, i).ino[j].local = h.ino[j].local
              /\ AddUser(h, i).ino[j].doubt = h.ino[j].doubt
              /\ AddUser(h, i).ino[j].subdir = h.ino[j].subdir
<1> DEFINE g == AddUser(h, i)
           q == h.ino[i]
           n == q.nlink + 1
<1>0. HeapTyped(h) /\ ListsMatch(h, r) /\ Counted(h, r, st, hd, {}) /\ r \in DOMAIN h.ino \cup {NoPtr}
  BY DEF WF
<1>1. q \in InodeRec /\ n \in Nat
  BY <1>0 DEF HeapTyped, InodeRec
<1>2. h = [ino |-> h.ino, ent |-> h.ent]
  BY <1>0 DEF HeapTyped
<1> DEFINE p == [q EXCEPT !.nlink = n]
           f == [h.ino EXCEPT ![i] = p]
<1>3. g = [h EXCEPT !.ino = f]
  BY <1>2 DEF AddUser
<1> HIDE DEF g
<1>4. g = [ino |-> f, ent |-> h.ent]
  <2> HIDE DEF f
  <2> QED BY <1>2, <1>3
<1>5. /\ p \in InodeRec /\ p.nlink = n /\ p.name = q.name /\ p.ent = q.ent
      /\ p.subdir = q.subdir /\ p.local = q.local /\ p.doubt = q.doubt
  <2> HIDE DEF n, q
  <2> QED BY <1>1 DEF InodeRec
<1> HIDE DEF p
<1>6. /\ \A j \in DOMAIN h.ino : g.ino[j] = IF j = i THEN p ELSE h.ino[j]
      /\ g.ent = h.ent /\ DOMAIN g.ino = DOMAIN h.ino
      /\ g.ino = [j \in DOMAIN h.ino |-> g.ino[j]] /\ g = [ino |-> g.ino, ent |-> h.ent]
  <2>1. /\ \A j \in DOMAIN h.ino : f[j] = IF j = i THEN p ELSE h.ino[j]
        /\ DOMAIN f = DOMAIN h.ino /\ f = [j \in DOMAIN h.ino |-> f[j]]
    OBVIOUS
  <2> HIDE DEF f
  <2> QED BY <1>4, <2>1
<1>7. SameShape(h, g)
  <2>1. \A j \in DOMAIN h.ino : h.ino[j] \in InodeRec
    BY <1>0 DEF HeapTyped
  <2>2. \A j \in DOMAIN h.ino : g.ino[j] \in InodeRec
    BY <1>5, <1>6, <2>1
  <2>3. g.ino \in [DOMAIN h.ino -> InodeRec]
    BY <1>6, <2>2
  <2>4. \A j \in DOMAIN h.ino : /\ g.ino[j].name = h.ino[j].name
                                /\ g.ino[j].ent = h.ino[j].ent
                                /\ g.ino[j].subdir = h.ino[j].subdir
    BY <1>5, <1>6
  <2> QED BY <1>6, <2>3, <2>4 DEF SameShape
<1>8. HeapTyped(g) /\ ListsMatch(g, r) /\ Opened(g, r, st2, hd2)
  BY <1>0, <1>7, SameShapeKeeps
<1>9. Counted(g, r, st2, hd2, {})
  <2> SUFFICES ASSUME NEW j \in DOMAIN h.ino \ {r}
               PROVE  /\ g.ino[j].nlink = One(g.ino[j].ent) + Opens(st2, hd2, j) + One(j \in {})
                      /\ g.ino[j].nlink > 0
    BY <1>6 DEF Counted
  <2>1. /\ h.ino[j].nlink = One(h.ino[j].ent) + Opens(st, hd, j) + One(j \in {})
        /\ h.ino[j].nlink > 0
    BY <1>0 DEF Counted
  <2>2. j # NoPtr
    BY <1>0, PointersDiffer DEF HeapTyped
  <2>3. Opens(st2, hd2, j) = Opens(st, hd, j) + One(j = i)
    BY <2>2 DEF OneMore
  <2>4. Opens(st, hd, j) \in Nat
    BY OpensIsNat
  <2>5. g.ino[j].nlink = h.ino[j].nlink + One(j = i) /\ g.ino[j].ent = h.ino[j].ent
    <3>1. CASE j = i
      BY <1>5, <1>6, <3>1 DEF One
    <3>2. CASE j # i
      BY <1>6, <2>1, <2>4, <3>2 DEF One
    <3> QED BY <3>1, <3>2
  <2> QED BY <2>1, <2>3, <2>4, <2>5 DEF One
<1>10. WF(g, r, st2, hd2, {})
  BY <1>0, <1>6, <1>8, <1>9 DEF WF
<1>11. \A j \in DOMAIN h.ino : /\ g.ino[j].name = h.ino[j].name
                               /\ g.ino[j].local = h.ino[j].local
                               /\ g.ino[j].doubt = h.ino[j].doubt
                               /\ g.ino[j].subdir = h.ino[j].subdir
  BY <1>5, <1>6
<1> QED BY <1>6, <1>10, <1>11 DEF g

(* A user has left, and the count of i is to follow.                       *)
LEMMA UserLeaves ==
  ASSUME NEW h, NEW r, NEW st, NEW hd, WF(h, r, st, hd, {}),
         NEW st2, NEW hd2, NEW i \in DOMAIN h.ino \ {r},
         OneMore(st2, hd2, st, hd, i), Opened(h, r, st2, hd2)
  PROVE  WF(h, r, st2, hd2, {i})
<1>0. HeapTyped(h) /\ ListsMatch(h, r) /\ Counted(h, r, st, hd, {}) /\ r \in DOMAIN h.ino \cup {NoPtr}
  BY DEF WF
<1>1. Counted(h, r, st2, hd2, {i})
  <2> SUFFICES ASSUME NEW j \in DOMAIN h.ino \ {r}
               PROVE  /\ h.ino[j].nlink = One(h.ino[j].ent) + Opens(st2, hd2, j) + One(j \in {i})
                      /\ h.ino[j].nlink > 0
    BY DEF Counted
  <2>1. /\ h.ino[j].nlink = One(h.ino[j].ent) + Opens(st, hd, j) + One(j \in {})
        /\ h.ino[j].nlink > 0
    BY <1>0 DEF Counted
  <2>2. j # NoPtr
    BY <1>0, PointersDiffer DEF HeapTyped
  <2>3. Opens(st, hd, j) = Opens(st2, hd2, j) + One(j = i)
    BY <2>2 DEF OneMore
  <2>4. Opens(st2, hd2, j) \in Nat
    BY OpensIsNat
  <2> QED BY <2>1, <2>3, <2>4 DEF One
<1> QED BY <1>0, <1>1 DEF WF

(* The count of i follows a new user, and i has a copy.                    *)
LEMMA WithCopyKeeps ==
  ASSUME NEW h, NEW r, NEW st, NEW hd, WF(h, r, st, hd, {}), NEW i \in DOMAIN h.ino
  PROVE  /\ WF(WithCopy(h, i), r, st, hd, {})
         /\ DOMAIN WithCopy(h, i).ino = DOMAIN h.ino
         /\ \A j \in DOMAIN h.ino :
              /\ WithCopy(h, i).ino[j].name = h.ino[j].name
              /\ WithCopy(h, i).ino[j].local = (h.ino[j].local \/ j = i)
              /\ WithCopy(h, i).ino[j].doubt = h.ino[j].doubt
              /\ WithCopy(h, i).ino[j].subdir = h.ino[j].subdir
<1> DEFINE g == WithCopy(h, i)
           q == h.ino[i]
           n == TRUE
<1>0. HeapTyped(h) /\ ListsMatch(h, r) /\ Counted(h, r, st, hd, {})
      /\ r \in DOMAIN h.ino \cup {NoPtr} /\ Opened(h, r, st, hd)
  BY DEF WF
<1>1. q \in InodeRec /\ n \in BOOLEAN /\ \A j \in DOMAIN h.ino : h.ino[j] \in InodeRec
  BY <1>0 DEF HeapTyped
<1>2. h = [ino |-> h.ino, ent |-> h.ent]
  BY <1>0 DEF HeapTyped
<1> DEFINE p == [q EXCEPT !.local = n]
           f == [h.ino EXCEPT ![i] = p]
<1>3. g = [h EXCEPT !.ino = f]
  BY <1>2 DEF WithCopy
<1> HIDE DEF g
<1>4. g = [ino |-> f, ent |-> h.ent]
  <2> HIDE DEF f
  <2> QED BY <1>2, <1>3
<1>5. /\ p \in InodeRec /\ p.nlink = q.nlink /\ p.name = q.name /\ p.ent = q.ent
      /\ p.subdir = q.subdir /\ p.local = n /\ p.doubt = q.doubt
  <2> HIDE DEF n, q
  <2> QED BY <1>1 DEF InodeRec
<1> HIDE DEF p
<1>6. /\ \A j \in DOMAIN h.ino : g.ino[j] = IF j = i THEN p ELSE h.ino[j]
      /\ g.ent = h.ent /\ DOMAIN g.ino = DOMAIN h.ino
      /\ g.ino = [j \in DOMAIN h.ino |-> g.ino[j]] /\ g = [ino |-> g.ino, ent |-> h.ent]
  <2>1. /\ \A j \in DOMAIN h.ino : f[j] = IF j = i THEN p ELSE h.ino[j]
        /\ DOMAIN f = DOMAIN h.ino /\ f = [j \in DOMAIN h.ino |-> f[j]]
    OBVIOUS
  <2> HIDE DEF f
  <2> QED BY <1>4, <2>1
<1> HIDE DEF f
<1>7. \A j \in DOMAIN h.ino : /\ g.ino[j] \in InodeRec
                              /\ g.ino[j].name = h.ino[j].name
                              /\ g.ino[j].nlink = h.ino[j].nlink
                              /\ g.ino[j].ent = h.ino[j].ent
                              /\ g.ino[j].doubt = h.ino[j].doubt
                              /\ g.ino[j].subdir = h.ino[j].subdir
  BY <1>1, <1>5, <1>6
<1>l. \A j \in DOMAIN h.ino : g.ino[j].local = (h.ino[j].local \/ j = i)
  <2> TAKE j \in DOMAIN h.ino
  <2>1. CASE j = i
    BY <1>5, <1>6, <2>1
  <2>2. CASE j # i
    <3>1. g.ino[j].local = h.ino[j].local /\ h.ino[j].local \in BOOLEAN
      BY <1>1, <1>6, <2>2 DEF InodeRec
    <3> QED BY <2>2, <3>1
  <2> QED BY <2>1, <2>2
<1>8. SameShape(h, g)
  <2>1. g.ino \in [DOMAIN h.ino -> InodeRec]
    BY <1>6, <1>7
  <2> QED BY <1>6, <1>7, <2>1 DEF SameShape
<1>9. HeapTyped(g) /\ ListsMatch(g, r) /\ Opened(g, r, st, hd)
  BY <1>0, <1>8, SameShapeKeeps
<1>10. Counted(g, r, st, hd, {})
  BY <1>0, <1>6, <1>7 DEF Counted
<1>11. WF(g, r, st, hd, {})
  BY <1>0, <1>6, <1>9, <1>10 DEF WF
<1> QED BY <1>6, <1>7, <1>l, <1>11 DEF g

(* Nobody has come or gone.                                                *)
LEMMA SameUsersKeep ==
  ASSUME NEW h, NEW r, NEW st, NEW hd, WF(h, r, st, hd, {}), NEW st2, NEW hd2,
         \A s \in Streams : st2[s].dir = st[s].dir,
         \A x \in Handles : hd2[x].ino = hd[x].ino, Opened(h, r, st2, hd2)
  PROVE  WF(h, r, st2, hd2, {})
<1>1. \A i : Opens(st2, hd2, i) = Opens(st, hd, i)
  <2> TAKE i
  <2>1. /\ {s \in Streams : st2[s].dir = i} = {s \in Streams : st[s].dir = i}
        /\ {x \in Handles : hd2[x].ino = i} = {x \in Handles : hd[x].ino = i}
    OBVIOUS
  <2> QED BY <2>1 DEF Opens
<1>2. Counted(h, r, st2, hd2, {})
  BY <1>1 DEF WF, Counted
<1> QED BY <1>2 DEF WF

(* An inode that loses a user leaves the listings as they were.            *)
LEMMA FreeInodesShow ==
  ASSUME NEW h, NEW r, NEW st, NEW hd, NEW S, WF(h, r, st, hd, S), OneKind(h, S),
         r # NoPtr, NEW rm, Current(h, r, rm)
  PROVE  Current(FreeInodes(h, S), r, rm)
<1> DEFINE g == FreeInodes(h, S)
<1>1. WF(g, r, st, hd, {}) /\ SameLists(h, g)
  BY FreeInodesKeeps
<1> HIDE DEF g
<1>2. r \in DOMAIN g.ino /\ Below(g, r) = Below(h, r)
  BY <1>1 DEF WF, SameLists, Below
<1>3. ASSUME NEW d \in Below(g, r) PROVE Shows(g, d, rm)
  <2>1. d \in DOMAIN g.ino /\ d \in Below(h, r)
    BY <1>1, <1>2, BelowIs
  <2>2. /\ g.ino[d].name = h.ino[d].name /\ g.ino[d].doubt = h.ino[d].doubt
        /\ Below(g, d) = Below(h, d)
    BY <1>1, <2>1 DEF SameLists, Below
  <2>3. \A f \in Below(g, d) : f \in DOMAIN g.ino
    BY <1>1, <2>1, BelowIs
  <2>4. \A f \in Below(g, d) : g.ino[f].name = h.ino[f].name /\ g.ino[f].local = h.ino[f].local
    BY <1>1, <2>3 DEF SameLists
  <2>5. Shows(h, d, rm)
    BY <2>1 DEF Current
  <2>6. ~g.ino[d].doubt =>
          \A n \in rm[g.ino[d].name] : \E f \in Below(g, d) : g.ino[f].name = n
    BY <2>2, <2>4, <2>5 DEF Shows
  <2>7. ~g.ino[d].doubt =>
          \A f \in Below(g, d) : g.ino[f].local \/ g.ino[f].name \in rm[g.ino[d].name]
    BY <2>2, <2>4, <2>5 DEF Shows
  <2> QED BY <2>6, <2>7 DEF Shows
<1> QED BY <1>3 DEF Current, g

-----------------------------------------------------------------------------
(* The steps.                                                              *)

Extends(old, now) == Len(old) <= Len(now) /\ SubSeq(now, 1, Len(old)) = old

StreamsKept ==
  \A s \in Streams :
    streams[s].dir # NoPtr /\ streams'[s].dir = streams[s].dir
    => /\ streams[s].dir \in DOMAIN inodes'
       /\ Extends(inodes[streams[s].dir].subdir, inodes'[streams[s].dir].subdir)

LEMMA ExtendsIs ==
  ASSUME NEW T, NEW s \in Seq(T), NEW t \in Seq(T)
  PROVE  Extends(s, s) /\ Extends(s, s \o t)
<1>1. Len(s) \in Nat /\ Len(s \o t) = Len(s) + Len(t) /\ Len(t) \in Nat
  BY LenProperties, ConcatProperties
<1>2. SubSeq(s, 1, Len(s)) = s
  BY SubSeqFull
<1>3. SubSeq(s \o t, 1, Len(s)) = s
  <2>1. SubSeq(s \o t, 1, Len(s)) = SubSeq(s, 1, Len(s))
    BY <1>1, SubSeqOfConcat1
  <2> QED BY <1>2, <2>1
<1> QED BY <1>1, <1>2, <1>3 DEF Extends

(* What an open directory is, in the inductive invariant.                  *)
LEMMA OpenDirectory ==
  ASSUME NEW h, NEW r, NEW hd, NEW P, WF(h, r, streams, hd, P),
         NEW s \in Streams, streams[s].dir # NoPtr
  PROVE  /\ streams[s].dir \in DOMAIN h.ino /\ streams[s].dir # r
         /\ h.ino[streams[s].dir].name \in Dirs
         /\ h.ino[streams[s].dir].subdir \in Seq(Ptr)
BY DEF WF, HeapTyped, Opened, InodeRec

(* Every step but FreeSuper: the heap becomes g.                           *)
Steps(g) ==
  /\ Becomes(g)
  /\ WF(g, root', streams', handles', {}) /\ root' # NoPtr
  /\ stale' \in BOOLEAN /\ remote' \in [Dirs -> SUBSET Files]
  /\ ~stale' => Current(g, root', remote')
  /\ \A s \in Streams :
       streams[s].dir # NoPtr /\ streams'[s].dir = streams[s].dir
       => Extends(inodes[streams[s].dir].subdir, g.ino[streams[s].dir].subdir)

LEMMA StepKeeps ==
  ASSUME CacheInv, root # NoPtr, NEW g, Steps(g)
  PROVE  CacheInv' /\ StreamsKept
<1>1. g = [ino |-> g.ino, ent |-> g.ent]
  BY DEF Steps, WF, HeapTyped
<1>2. heap' = g /\ inodes' = g.ino
  BY <1>1 DEF Steps, Becomes, heap
<1>3. CacheInv'
  BY <1>2 DEF Steps, CacheInv
<1>4. StreamsKept
  <2> SUFFICES ASSUME NEW s \in Streams, streams[s].dir # NoPtr,
                      streams'[s].dir = streams[s].dir
               PROVE  /\ streams[s].dir \in DOMAIN inodes'
                      /\ Extends(inodes[streams[s].dir].subdir,
                                 inodes'[streams[s].dir].subdir)
    BY DEF StreamsKept
  <2>1. streams'[s].dir \in DOMAIN g.ino \cup {NoPtr}
    BY DEF Steps, WF, Opened
  <2> QED BY <1>2, <2>1 DEF Steps
<1> QED BY <1>3, <1>4

LEMMA CacheInvIs ==
  ASSUME CacheInv, root # NoPtr
  PROVE  /\ WF(heap, root, streams, handles, {}) /\ root \in DOMAIN inodes
         /\ remote \in [Dirs -> SUBSET Files] /\ stale \in BOOLEAN
         /\ ~stale => Current(heap, root, remote)
         /\ heap.ino = inodes /\ heap.ent = entries
         /\ \A s \in Streams : streams[s].dir # NoPtr =>
              Extends(inodes[streams[s].dir].subdir, inodes[streams[s].dir].subdir)
<1>1. heap.ino = inodes /\ heap.ent = entries
  BY DEF heap
<1>2. WF(heap, root, streams, handles, {})
  BY DEF CacheInv
<1>3. \A s \in Streams : streams[s].dir # NoPtr =>
        Extends(inodes[streams[s].dir].subdir, inodes[streams[s].dir].subdir)
  BY <1>1, <1>2, OpenDirectory, ExtendsIs
<1>4. root \in DOMAIN inodes
  BY <1>1, <1>2 DEF WF
<1> QED BY <1>1, <1>2, <1>3, <1>4 DEF CacheInv

LEMMA ReadDirKeeps ==
  ASSUME CacheInv, root # NoPtr, NEW s \in Streams, ReadDir(s)
  PROVE  Steps(heap)
<1> DEFINE i == streams[s].dir
           sub == inodes[entries[streams[s].cur]].subdir
           next == {k \in 2 .. Len(sub) : sub[k - 1] = streams[s].cur}
           c == IF next = {} THEN NoPtr ELSE sub[CHOOSE k \in next : TRUE]
<1>0. /\ WF(heap, root, streams, handles, {}) /\ heap.ino = inodes /\ heap.ent = entries
      /\ Opened(heap, root, streams, handles)
  BY CacheInvIs DEF WF
<1>1. /\ streams' = [streams EXCEPT ![s].cur = c]
      /\ UNCHANGED <<inodes, entries, root, stale, remote, handles>>
  BY Zenon DEF ReadDir
<1>2. streams[s].cur \in DOMAIN entries /\ entries[streams[s].cur] = i
  BY <1>0 DEF ReadDir, Opened
<1>3. i \in DOMAIN inodes /\ sub = inodes[i].subdir /\ sub \in Seq(Ptr)
  BY <1>0, <1>2 DEF WF, HeapTyped, InodeRec
<1>4. c # NoPtr => c \in DOMAIN entries /\ entries[c] = i
  <2> SUFFICES ASSUME next # {} PROVE c \in DOMAIN entries /\ entries[c] = i
    OBVIOUS
  <2> DEFINE k == CHOOSE j \in next : TRUE
  <2>1. k \in next /\ c = sub[k]
    OBVIOUS
  <2>2. Len(sub) \in Nat /\ DOMAIN sub = 1 .. Len(sub) /\ k \in 1 .. Len(sub)
    BY <1>3, LenProperties
  <2> HIDE DEF c, k
  <2>3. c \in Below(heap, i)
    BY <1>0, <1>3, <2>1, <2>2 DEF Below, Range
  <2>4. c \in DOMAIN heap.ent /\ heap.ent[c] = i
    <3>1. i \in DOMAIN heap.ino
      BY <1>0, <1>3
    <3> HIDE DEF i
    <3> QED BY <1>0, <2>3, <3>1, BelowIs
  <2> QED BY <1>0, <2>4
<1> HIDE DEF c
<1>5. /\ \A t \in Streams : streams'[t].dir = streams[t].dir
      /\ \A t \in Streams : streams'[t].cur = IF t = s THEN c ELSE streams[t].cur
      /\ streams' \in [Streams -> [dir : DOMAIN inodes \cup {NoPtr},
                                   cur : DOMAIN entries \cup {NoPtr}]]
  <2>1. streams \in [Streams -> [dir : DOMAIN inodes \cup {NoPtr},
                                 cur : DOMAIN entries \cup {NoPtr}]]
    BY <1>0 DEF Opened
  <2>2. c \in DOMAIN entries \cup {NoPtr}
    BY <1>4
  <2> QED BY <1>1, <2>1, <2>2
<1>6. Opened(heap, root, streams', handles)
  <2>1. \A t \in Streams :
          /\ streams'[t].dir # NoPtr =>
               streams'[t].dir # root /\ heap.ino[streams'[t].dir].name \in Dirs
          /\ streams'[t].cur # NoPtr => heap.ent[streams'[t].cur] = streams'[t].dir
    <3> TAKE t \in Streams
    <3>1. /\ streams[t].dir # NoPtr =>
               streams[t].dir # root /\ heap.ino[streams[t].dir].name \in Dirs
          /\ streams[t].cur # NoPtr => heap.ent[streams[t].cur] = streams[t].dir
      BY <1>0 DEF Opened
    <3> QED BY <1>0, <1>4, <1>5, <3>1
  <2> QED BY <1>0, <1>5, <2>1 DEF Opened
<1>7. WF(heap, root, streams', handles, {})
  BY <1>0, <1>5, <1>6, SameUsersKeep
<1>8. Becomes(heap) /\ handles' = handles
  BY <1>0, <1>1 DEF Becomes
<1> QED BY <1>0, <1>1, <1>7, <1>8, CacheInvIs DEF Steps

(* A lookup that changes nothing else.                                     *)
LEMMA LookupKeeps ==
  ASSUME CacheInv, root # NoPtr, NEW d \in Dirs, NEW l \in Lookups(d), Becomes(l.heap),
         stale' \in BOOLEAN, stale \/ stale' => stale',
         UNCHANGED <<root, remote, streams, handles>>
  PROVE  Steps(l.heap)
<1>1. Found(l, d)
  BY CacheInvIs, LookupsKeep
<1>2. ~stale' => Current(l.heap, root, remote)
  BY <1>1, CacheInvIs DEF Found
<1>3. \A s \in Streams : streams[s].dir # NoPtr =>
        l.heap.ino[streams[s].dir].subdir = inodes[streams[s].dir].subdir
  BY <1>1, CacheInvIs DEF Found, OpenAsIn
<1>4. /\ root' = root /\ remote' = remote /\ streams' = streams /\ handles' = handles
  OBVIOUS
<1> QED BY <1>1, <1>2, <1>3, <1>4, CacheInvIs DEF Steps, Found

(* What a found directory is.                                              *)
LEMMA FoundIs ==
  ASSUME root # NoPtr, root \in DOMAIN inodes, NEW d \in Dirs, NEW l, Found(l, d),
         l.dir # NoPtr
  PROVE  /\ root \in DOMAIN l.heap.ino /\ l.dir \in DOMAIN l.heap.ino \ {root}
         /\ l.heap.ino[l.dir].name \in Dirs /\ l.heap.ino[l.dir].subdir \in Seq(Ptr)
<1>1. WF(l.heap, root, streams, handles, {}) /\ l.dir \in Below(l.heap, root)
      /\ l.heap.ino[l.dir].name = d
  BY DEF Found
<1>2. root \in DOMAIN l.heap.ino
  BY <1>1 DEF WF
<1>3. l.dir \in DOMAIN l.heap.ino /\ l.dir # root
  BY <1>1, <1>2, BelowIs
<1>4. l.heap.ino[l.dir].subdir \in Seq(Ptr)
  BY <1>1, <1>3 DEF WF, HeapTyped, InodeRec
<1> QED BY <1>1, <1>2, <1>3, <1>4

(* A new user changes nothing that is shown.                               *)
LEMMA AddUserShows ==
  ASSUME NEW h, NEW r, NEW st, NEW hd, WF(h, r, st, hd, {}), r \in DOMAIN h.ino, NEW g,
         \A j \in DOMAIN h.ino : /\ g.ino[j].name = h.ino[j].name
                                 /\ h.ino[j].local => g.ino[j].local
                                 /\ g.ino[j].doubt = h.ino[j].doubt
                                 /\ g.ino[j].subdir = h.ino[j].subdir,
         Current(h, r, remote)
  PROVE  Current(g, r, remote)
<1>1. Below(g, r) = Below(h, r)
  BY DEF Below
<1>2. ASSUME NEW d \in Below(h, r) PROVE Shows(g, d, remote)
  <2>1. d \in DOMAIN h.ino /\ Shows(h, d, remote)
    BY <1>2, BelowIs DEF Current
  <2>2. /\ Below(g, d) = Below(h, d) /\ g.ino[d].name = h.ino[d].name
        /\ g.ino[d].doubt = h.ino[d].doubt
    BY <2>1 DEF Below
  <2>3. \A f \in Below(h, d) : f \in DOMAIN h.ino
    BY <2>1, BelowIs
  <2>4. \A f \in Below(h, d) : /\ g.ino[f].name = h.ino[f].name
                               /\ h.ino[f].local => g.ino[f].local
    BY <2>3
  <2>5. Below(h, d) \subseteq Below(g, d) /\ \A f \in Below(g, d) : f \in Below(h, d)
    BY <2>2
  <2> QED BY <2>1, <2>2, <2>4, <2>5, ShowsStill
<1> QED BY <1>1, <1>2 DEF Current

LEMMA OpenDirKeeps ==
  ASSUME CacheInv, root # NoPtr, NEW s \in Streams, NEW d \in Dirs, OpenDir(s, d)
  PROVE  \E g : Steps(g)
<1>1. PICK l \in Lookups(d) :
        IF l.dir = NoPtr THEN Becomes(l.heap) /\ UNCHANGED streams
        ELSE LET sub == l.heap.ino[l.dir].subdir
             IN /\ Becomes(AddUser(l.heap, l.dir))
                /\ streams' = [streams EXCEPT ![s] =
                     [dir |-> l.dir, cur |-> IF sub = <<>> THEN NoPtr ELSE Head(sub)]]
  BY Zenon DEF OpenDir
<1>2. /\ UNCHANGED <<root, stale, remote, handles>> /\ streams[s].dir = NoPtr
  BY DEF OpenDir
<1>3. Found(l, d)
  BY CacheInvIs, LookupsKeep
<1>4. CASE l.dir = NoPtr
  <2>1. Becomes(l.heap) /\ streams' = streams
    BY <1>1, <1>4
  <2>2. stale' \in BOOLEAN /\ (stale \/ stale' => stale')
    BY <1>2, CacheInvIs
  <2>3. Steps(l.heap)
    BY <1>2, <2>1, <2>2, LookupKeeps
  <2> QED BY <2>3
<1>5. CASE l.dir # NoPtr
  <2> DEFINE h == l.heap
             i == l.dir
             sub == h.ino[i].subdir
             c == IF sub = <<>> THEN NoPtr ELSE Head(sub)
             g == AddUser(h, i)
  <2>1. Becomes(g) /\ streams' = [streams EXCEPT ![s] = [dir |-> i, cur |-> c]]
    BY <1>1, <1>5
  <2>2. /\ WF(h, root, streams, handles, {}) /\ OpenAsIn(heap, h)
        /\ Current(heap, root, remote) => Current(h, root, remote)
        /\ Opened(h, root, streams, handles)
    BY <1>3 DEF Found, WF
  <2>3. /\ root \in DOMAIN h.ino /\ i \in DOMAIN h.ino \ {root}
        /\ h.ino[i].name \in Dirs /\ sub \in Seq(Ptr)
    BY <1>3, <1>5, FoundIs, CacheInvIs
  <2>4. c # NoPtr => c \in DOMAIN h.ent /\ h.ent[c] = i
    <3> SUFFICES ASSUME sub # << >> PROVE c \in DOMAIN h.ent /\ h.ent[c] = i
      OBVIOUS
    <3>1. Len(sub) \in Nat /\ Len(sub) # 0 /\ DOMAIN sub = 1 .. Len(sub) /\ c = sub[1]
      BY <2>3, EmptySeq, LenProperties
    <3>2. c \in Below(h, i)
      BY <3>1 DEF Below, Range
    <3> HIDE DEF h, i, c
    <3> QED BY <2>2, <2>3, <3>2, BelowIs
  <2> HIDE DEF c, sub, h, i
  <2>5. /\ \A t \in Streams : streams'[t] = IF t = s THEN [dir |-> i, cur |-> c] ELSE streams[t]
        /\ streams' \in [Streams -> [dir : DOMAIN h.ino \cup {NoPtr},
                                     cur : DOMAIN h.ent \cup {NoPtr}]]
    <3>1. streams \in [Streams -> [dir : DOMAIN h.ino \cup {NoPtr},
                                   cur : DOMAIN h.ent \cup {NoPtr}]]
      BY <2>2 DEF Opened
    <3>2. [dir |-> i, cur |-> c] \in [dir : DOMAIN h.ino \cup {NoPtr},
                                      cur : DOMAIN h.ent \cup {NoPtr}]
      BY <2>3, <2>4
    <3> QED BY <2>1, <3>1, <3>2
  <2>6. Opened(h, root, streams', handles)
    <3>1. \A t \in Streams :
            /\ streams'[t].dir # NoPtr =>
                 streams'[t].dir # root /\ h.ino[streams'[t].dir].name \in Dirs
            /\ streams'[t].cur # NoPtr => h.ent[streams'[t].cur] = streams'[t].dir
      <4> TAKE t \in Streams
      <4>1. CASE t = s
        <5>1. streams'[t].dir = i /\ streams'[t].cur = c
          BY <2>5, <4>1
        <5> QED BY <2>3, <2>4, <5>1
      <4>2. CASE t # s
        <5>1. streams'[t] = streams[t]
          BY <2>5, <4>2
        <5> QED BY <2>2, <5>1 DEF Opened
      <4> QED BY <4>1, <4>2
    <3> QED BY <2>2, <2>5, <3>1 DEF Opened
  <2>7. OneMore(streams, handles, streams', handles, i)
    <3>1. streams'[s].dir = i
      BY <2>5
    <3>2. \A t \in Streams \ {s} : streams'[t].dir = streams[t].dir
      BY <2>5
    <3> QED BY <1>2, <3>1, <3>2, StreamIsOneMore
  <2>8. /\ WF(g, root, streams', handles, {})
        /\ \A j \in DOMAIN h.ino : /\ g.ino[j].name = h.ino[j].name
                                   /\ g.ino[j].local = h.ino[j].local
                                   /\ g.ino[j].doubt = h.ino[j].doubt
                                   /\ g.ino[j].subdir = h.ino[j].subdir
    BY <2>2, <2>3, <2>6, <2>7, AddUserKeeps
  <2> HIDE DEF g
  <2>9. ~stale => Current(g, root, remote)
    <3>1. ~stale => Current(h, root, remote)
      BY <2>2, CacheInvIs
    <3> QED BY <2>2, <2>3, <2>8, <3>1, AddUserShows
  <2>10. \A t \in Streams :
           streams[t].dir # NoPtr /\ streams'[t].dir = streams[t].dir
           => Extends(inodes[streams[t].dir].subdir, g.ino[streams[t].dir].subdir)
    <3> SUFFICES ASSUME NEW t \in Streams, streams[t].dir # NoPtr
                 PROVE  g.ino[streams[t].dir].subdir = inodes[streams[t].dir].subdir
      BY CacheInvIs
    <3>1. streams[t].dir \in DOMAIN h.ino
      BY <2>2, OpenDirectory
    <3>2. h.ino[streams[t].dir].subdir = inodes[streams[t].dir].subdir
      BY <2>2, CacheInvIs DEF OpenAsIn
    <3> QED BY <2>8, <3>1, <3>2
  <2>11. root' = root /\ stale' = stale /\ remote' = remote /\ handles' = handles
    BY <1>2
  <2>12. Steps(g)
    BY <2>1, <2>8, <2>9, <2>10, <2>11, CacheInvIs DEF Steps
  <2> QED BY <2>12
<1> QED BY <1>4, <1>5

LEMMA CloseDirKeeps ==
  ASSUME CacheInv, root # NoPtr, NEW s \in Streams, CloseDir(s)
  PROVE  \E g : Steps(g)
<1> DEFINE i == streams[s].dir
           g == FreeInodes(heap, {i})
<1>1. /\ i # NoPtr /\ Becomes(g)
      /\ streams' = [streams EXCEPT ![s] = [dir |-> NoPtr, cur |-> NoPtr]]
      /\ UNCHANGED <<root, stale, remote, handles>>
  BY Zenon DEF CloseDir
<1>2. WF(heap, root, streams, handles, {}) /\ Opened(heap, root, streams, handles)
  BY CacheInvIs DEF WF
<1>3. i \in DOMAIN heap.ino \ {root} /\ heap.ino[i].name \in Dirs
  BY <1>1, <1>2, OpenDirectory
<1>4. /\ \A t \in Streams : streams'[t] = IF t = s THEN [dir |-> NoPtr, cur |-> NoPtr]
                                          ELSE streams[t]
      /\ streams' \in [Streams -> [dir : DOMAIN heap.ino \cup {NoPtr},
                                   cur : DOMAIN heap.ent \cup {NoPtr}]]
  <2>1. streams \in [Streams -> [dir : DOMAIN heap.ino \cup {NoPtr},
                                 cur : DOMAIN heap.ent \cup {NoPtr}]]
    BY <1>2 DEF Opened
  <2> QED BY <1>1, <2>1
<1>5. Opened(heap, root, streams', handles)
  <2>1. \A t \in Streams :
          /\ streams'[t].dir # NoPtr =>
               streams'[t].dir # root /\ heap.ino[streams'[t].dir].name \in Dirs
          /\ streams'[t].cur # NoPtr => heap.ent[streams'[t].cur] = streams'[t].dir
    <3> TAKE t \in Streams
    <3>1. CASE t = s
      BY <1>4, <3>1
    <3>2. CASE t # s
      <4>1. streams'[t] = streams[t]
        BY <1>4, <3>2
      <4> QED BY <1>2, <4>1 DEF Opened
    <3> QED BY <3>1, <3>2
  <2> QED BY <1>2, <1>4, <2>1 DEF Opened
<1> HIDE DEF i
<1>6. OneMore(streams', handles, streams, handles, i)
  <2>1. streams'[s].dir = NoPtr
    BY <1>4
  <2>2. \A t \in Streams \ {s} : streams[t].dir = streams'[t].dir
    BY <1>4
  <2>3. OneMore(streams', handles, streams, handles, streams[s].dir)
    BY <2>1, <2>2, StreamIsOneMore
  <2> QED BY <2>3 DEF i
<1>7. WF(heap, root, streams', handles, {i})
  BY <1>2, <1>3, <1>5, <1>6, UserLeaves
<1>8. OneKind(heap, {i})
  BY <1>3 DEF OneKind
<1>9. WF(g, root, streams', handles, {}) /\ SameLists(heap, g)
  BY <1>7, <1>8, FreeInodesKeeps
<1>10. ~stale => Current(g, root, remote)
  BY <1>7, <1>8, FreeInodesShow, CacheInvIs
<1> HIDE DEF g
<1>11. \A t \in Streams :
         streams[t].dir # NoPtr /\ streams'[t].dir = streams[t].dir
         => Extends(inodes[streams[t].dir].subdir, g.ino[streams[t].dir].subdir)
  <2> SUFFICES ASSUME NEW t \in Streams, streams[t].dir # NoPtr,
                      streams'[t].dir = streams[t].dir
               PROVE  g.ino[streams[t].dir].subdir = inodes[streams[t].dir].subdir
    BY CacheInvIs
  <2>1. streams'[t].dir \in DOMAIN g.ino \cup {NoPtr}
    BY <1>9 DEF WF, Opened
  <2> QED BY <1>9, <2>1, CacheInvIs DEF SameLists
<1>12. root' = root /\ stale' = stale /\ remote' = remote /\ handles' = handles
  BY <1>1
<1>13. Steps(g)
  BY <1>1, <1>9, <1>10, <1>11, <1>12, CacheInvIs DEF Steps
<1> QED BY <1>13

(* vfs_s_find_inode in a directory that was found: an inode, perhaps new.  *)
LEMMA OpenFound ==
  ASSUME CacheInv, root # NoPtr, NEW d \in Dirs, NEW l, Found(l, d), l.dir # NoPtr,
         NEW n \in Files, NEW h, NEW i,
         LET found == {j \in Below(l.heap, l.dir) : l.heap.ino[j].name = n}
         IN \/ found # {} /\ i \in found /\ h = l.heap
            \/ /\ found = {} /\ i = <<Fresh(l.heap), n>>
               /\ h = Insert(l.heap, l.dir, Fresh(l.heap), <<n>>, TRUE)
  PROVE  /\ WF(h, root, streams, handles, {}) /\ root \in DOMAIN h.ino
         /\ i \in DOMAIN h.ino \ {root} /\ h.ino[i].name \in Files
         /\ Current(l.heap, root, remote) => Current(h, root, remote)
         /\ \A s \in Streams : streams[s].dir # NoPtr =>
              Extends(inodes[streams[s].dir].subdir, h.ino[streams[s].dir].subdir)
<1> DEFINE b == l.heap
           e == l.dir
           found == {j \in Below(b, e) : b.ino[j].name = n}
           yes == TRUE
<1>1. /\ WF(b, root, streams, handles, {}) /\ OpenAsIn(heap, b)
      /\ root \in DOMAIN b.ino /\ e \in DOMAIN b.ino \ {root} /\ b.ino[e].name \in Dirs
  BY FoundIs, CacheInvIs DEF Found
<1>2. \A s \in Streams : streams[s].dir # NoPtr =>
        /\ streams[s].dir \in DOMAIN b.ino /\ b.ino[streams[s].dir].subdir \in Seq(Ptr)
        /\ b.ino[streams[s].dir].subdir = inodes[streams[s].dir].subdir
  BY <1>1, OpenDirectory, CacheInvIs DEF OpenAsIn
<1>3. CASE found # {} /\ i \in found /\ h = b
  <2>1. i \in Below(b, e)
    BY <1>3
  <2>2. i \in DOMAIN b.ino /\ i # root /\ b.ino[i].name \in Files
    <3> HIDE DEF b, e, found
    <3> QED BY <1>1, <2>1, BelowIs
  <2>3. \A s \in Streams : streams[s].dir # NoPtr =>
          Extends(inodes[streams[s].dir].subdir, h.ino[streams[s].dir].subdir)
    BY <1>2, <1>3, ExtendsIs
  <2> QED BY <1>1, <1>3, <2>2, <2>3
<1>4. CASE found = {} /\ i = <<Fresh(b), n>> /\ h = Insert(b, e, Fresh(b), <<n>>, yes)
  <2> DEFINE k == Fresh(b)
             N == Range([x \in DOMAIN <<n>> |-> <<k, <<n>>[x]>>])
  <2>1. k \in Nat /\ \A x : <<k, x>> \notin DOMAIN b.ino
    BY <1>1, FreshIsFree
  <2>2. i = <<k, n>> /\ h = Insert(b, e, k, <<n>>, yes)
    BY <1>4
  <2>3. N = {i} /\ <<n>> \in Seq(Files) /\ yes \in BOOLEAN
    BY <2>2, SomeName
  <2> HIDE DEF k, b, e, yes, found
  <2>4. WF(h, root, streams, handles, {}) /\ Added(b, h, e, k, <<n>>, yes)
    <3>1. \/ e = root /\ Files = Dirs
          \/ e # root /\ Files = Files /\ b.ino[e].name \in Dirs
      BY <1>1
    <3>2. e \in DOMAIN b.ino /\ <<n>> \in Seq(Files)
      BY <1>1, <2>3
    <3> DEFINE ns == <<n>>
    <3> HIDE DEF ns
    <3>3. ns \in Seq(Files) /\ h = Insert(b, e, k, ns, yes)
      BY <2>2, <2>3 DEF ns
    <3>4. /\ WF(Insert(b, e, k, ns, yes), root, streams, handles, {})
          /\ Added(b, Insert(b, e, k, ns, yes), e, k, ns, yes)
      BY <1>1, <2>1, <2>3, <3>1, <3>2, <3>3, InsertKeeps
    <3> QED BY <3>3, <3>4 DEF ns
  <2>5. /\ DOMAIN h.ino = DOMAIN b.ino \cup N /\ i \in N
        /\ \A j \in N : h.ino[j].name = j[2]
    BY <2>3, <2>4, Zenon DEF Added
  <2>6. root \in DOMAIN h.ino /\ i \in DOMAIN h.ino \ {root} /\ h.ino[i].name \in Files
    BY <1>1, <2>1, <2>2, <2>5
  <2>7. ASSUME Current(b, root, remote) PROVE Current(h, root, remote)
    <3>1. Below(h, root) = Below(b, root)
      <4>1. h.ino[root].subdir = b.ino[root].subdir
        BY <1>1, <2>4, Zenon DEF Added
      <4> QED BY <4>1 DEF Below
    <3>2. ASSUME NEW x \in Below(b, root) PROVE Shows(h, x, remote)
      <4>1. x \in DOMAIN b.ino /\ Shows(b, x, remote)
        BY <1>1, <2>7, <3>2, BelowIs DEF Current
      <4>2. x = e => yes
        BY DEF yes
      <4> QED BY <1>1, <2>4, <4>1, <4>2, AddedShow
    <3> QED BY <3>1, <3>2 DEF Current
  <2>8. \A s \in Streams : streams[s].dir # NoPtr =>
          Extends(inodes[streams[s].dir].subdir, h.ino[streams[s].dir].subdir)
    <3> SUFFICES ASSUME NEW s \in Streams, streams[s].dir # NoPtr
                 PROVE  Extends(b.ino[streams[s].dir].subdir, h.ino[streams[s].dir].subdir)
      BY <1>2
    <3> DEFINE j == streams[s].dir
    <3>1. j \in DOMAIN b.ino /\ b.ino[j].subdir \in Seq(Ptr)
      BY <1>2
    <3> HIDE DEF j
    <3>2. CASE j # e
      <4>1. h.ino[j].subdir = b.ino[j].subdir
        BY <2>4, <3>1, <3>2, Zenon DEF Added
      <4> QED BY <3>1, <4>1, ExtendsIs DEF j
    <3>3. CASE j = e
      <4> DEFINE new == [x \in DOMAIN <<n>> |-> <<k, <<n>>[x]>>]
      <4>1. h.ino[e].subdir = b.ino[e].subdir \o new
        BY <2>4, Zenon DEF Added
      <4>2. new = << <<k, n>> >>
        OBVIOUS
      <4>3. <<k, n>> \in Ptr
        BY <2>1 DEF Ptr
      <4>4. new \in Seq(Ptr)
        BY <4>2, <4>3
      <4> HIDE DEF new
      <4> QED BY <3>1, <3>3, <4>1, <4>4, ExtendsIs DEF j
    <3> QED BY <3>2, <3>3
  <2> QED BY <2>4, <2>6, <2>7, <2>8 DEF b
<1> QED BY <1>3, <1>4

LEMMA OpenKeeps ==
  ASSUME CacheInv, root # NoPtr, NEW x \in Handles, NEW d \in Dirs, NEW n \in Files,
         NEW write \in BOOLEAN, Open(x, d, n, write)
  PROVE  \E g : Steps(g)
<1> DEFINE F(l) == {i \in Below(l.heap, l.dir) : l.heap.ino[i].name = n}
           I(l) == IF F(l) = {} THEN <<Fresh(l.heap), n>> ELSE CHOOSE j \in F(l) : TRUE
           H(l) == IF F(l) = {} THEN Insert(l.heap, l.dir, Fresh(l.heap), <<n>>, TRUE)
                   ELSE l.heap
<1>1. PICK l \in Lookups(d), ok \in BOOLEAN :
        IF l.dir = NoPtr THEN Becomes(l.heap) /\ UNCHANGED handles
        ELSE IF F(l) = {} /\ ~write THEN Becomes(l.heap) /\ UNCHANGED handles
        ELSE IF ~ok THEN Becomes(H(l)) /\ UNCHANGED handles
        ELSE /\ Becomes(AddUser(WithCopy(H(l), I(l)), I(l)))
             /\ handles' = [handles EXCEPT ![x] = Handle(I(l), F(l) = {})]
  BY Zenon DEF Open
<1>2. /\ UNCHANGED <<root, stale, remote, streams>> /\ handles[x].ino = NoPtr
  BY DEF Open
<1>3. Found(l, d)
  BY CacheInvIs, LookupsKeep
<1> DEFINE h == H(l)
           i == I(l)
           new == F(l) = {}
<1>4. CASE Becomes(l.heap) /\ UNCHANGED handles
  <2>1. stale' \in BOOLEAN /\ (stale \/ stale' => stale') /\ handles' = handles
    BY <1>2, <1>4, CacheInvIs
  <2>2. Steps(l.heap)
    BY <1>2, <1>4, <2>1, LookupKeeps
  <2> QED BY <2>2
<1>5. ASSUME l.dir # NoPtr
      PROVE  /\ WF(h, root, streams, handles, {}) /\ root \in DOMAIN h.ino
             /\ i \in DOMAIN h.ino \ {root} /\ h.ino[i].name \in Files
             /\ Current(l.heap, root, remote) => Current(h, root, remote)
             /\ \A s \in Streams : streams[s].dir # NoPtr =>
                  Extends(inodes[streams[s].dir].subdir, h.ino[streams[s].dir].subdir)
  <2>1. \/ F(l) # {} /\ i \in F(l) /\ h = l.heap
        \/ /\ F(l) = {} /\ i = <<Fresh(l.heap), n>>
           /\ h = Insert(l.heap, l.dir, Fresh(l.heap), <<n>>, TRUE)
    BY Zenon
  <2> HIDE DEF i, h, I, H
  <2> QED BY <1>3, <1>5, <2>1, OpenFound
<1>6. ~stale => Current(l.heap, root, remote)
  BY <1>3, CacheInvIs DEF Found
<1>7. CASE l.dir # NoPtr /\ Becomes(h) /\ UNCHANGED handles
  <2> HIDE DEF h, i
  <2>1. handles' = handles /\ streams' = streams /\ root' = root /\ stale' = stale
        /\ remote' = remote
    BY <1>2, <1>7
  <2>2. Steps(h)
    BY <1>5, <1>6, <1>7, <2>1, CacheInvIs DEF Steps
  <2> QED BY <2>2
<1>8. CASE /\ l.dir # NoPtr /\ Becomes(AddUser(WithCopy(h, i), i))
           /\ handles' = [handles EXCEPT ![x] = Handle(i, new)]
  <2>0. new \in BOOLEAN
    OBVIOUS
  <2> DEFINE c == WithCopy(h, i)
             g == AddUser(c, i)
  <2> HIDE DEF h, i, new, F
  <2>1. /\ WF(h, root, streams, handles, {}) /\ root \in DOMAIN h.ino
        /\ i \in DOMAIN h.ino \ {root} /\ h.ino[i].name \in Files
        /\ Current(l.heap, root, remote) => Current(h, root, remote)
        /\ \A s \in Streams : streams[s].dir # NoPtr =>
             Extends(inodes[streams[s].dir].subdir, h.ino[streams[s].dir].subdir)
    BY <1>5, <1>8
  <2>2. /\ WF(c, root, streams, handles, {})
        /\ DOMAIN c.ino = DOMAIN h.ino
        /\ \A j \in DOMAIN h.ino : /\ c.ino[j].name = h.ino[j].name
                                   /\ c.ino[j].local = (h.ino[j].local \/ j = i)
                                   /\ c.ino[j].doubt = h.ino[j].doubt
                                   /\ c.ino[j].subdir = h.ino[j].subdir
    BY <2>1, WithCopyKeeps
  <2> HIDE DEF c
  <2>3. Opened(c, root, streams, handles) /\ i \in DOMAIN c.ino \ {root}
        /\ c.ino[i].name \in Files
    BY <2>1, <2>2 DEF WF
  <2>4. /\ \A t \in Handles : handles'[t] = IF t = x THEN [ino |-> i, changed |-> new]
                                            ELSE handles[t]
        /\ handles' \in [Handles -> [ino : DOMAIN c.ino \cup {NoPtr}, changed : BOOLEAN]]
    <3>1. handles \in [Handles -> [ino : DOMAIN c.ino \cup {NoPtr}, changed : BOOLEAN]]
      BY <2>3 DEF Opened
    <3>2. [ino |-> i, changed |-> new] \in [ino : DOMAIN c.ino \cup {NoPtr}, changed : BOOLEAN]
      BY <2>0, <2>3
    <3>3. handles' = [handles EXCEPT ![x] = [ino |-> i, changed |-> new]]
      BY <1>8 DEF Handle
    <3> QED BY <3>1, <3>2, <3>3
  <2>5. Opened(c, root, streams, handles')
    <3>1. \A t \in Handles :
            handles'[t].ino # NoPtr =>
              handles'[t].ino # root /\ c.ino[handles'[t].ino].name \in Files
      <4> TAKE t \in Handles
      <4>1. CASE t = x
        <5>1. handles'[t].ino = i
          BY <2>4, <4>1
        <5> QED BY <2>3, <5>1
      <4>2. CASE t # x
        <5>1. handles'[t] = handles[t]
          BY <2>4, <4>2
        <5> QED BY <2>3, <5>1 DEF Opened
      <4> QED BY <4>1, <4>2
    <3> QED BY <2>3, <2>4, <3>1 DEF Opened
  <2>6. OneMore(streams, handles, streams, handles', i)
    <3>1. handles'[x].ino = i
      BY <2>4
    <3>2. \A t \in Handles \ {x} : handles'[t].ino = handles[t].ino
      BY <2>4
    <3> QED BY <1>2, <3>1, <3>2, HandleIsOneMore
  <2>7. /\ WF(g, root, streams, handles', {})
        /\ \A j \in DOMAIN c.ino : /\ g.ino[j].name = c.ino[j].name
                                   /\ g.ino[j].local = c.ino[j].local
                                   /\ g.ino[j].doubt = c.ino[j].doubt
                                   /\ g.ino[j].subdir = c.ino[j].subdir
    BY <2>2, <2>3, <2>5, <2>6, AddUserKeeps
  <2>8. Becomes(g)
    BY <1>8 DEF c
  <2> HIDE DEF g
  <2>9. \A j \in DOMAIN h.ino : /\ g.ino[j].name = h.ino[j].name
                                /\ h.ino[j].local => g.ino[j].local
                                /\ g.ino[j].doubt = h.ino[j].doubt
                                /\ g.ino[j].subdir = h.ino[j].subdir
    BY <2>2, <2>7
  <2>10. ~stale => Current(g, root, remote)
    <3>1. ~stale => Current(h, root, remote)
      BY <1>6, <2>1
    <3> QED BY <2>1, <2>9, <3>1, AddUserShows
  <2>11. \A t \in Streams : streams[t].dir # NoPtr =>
           Extends(inodes[streams[t].dir].subdir, g.ino[streams[t].dir].subdir)
    <3> TAKE t \in Streams
    <3>1. streams[t].dir # NoPtr => streams[t].dir \in DOMAIN h.ino
      BY <2>1, OpenDirectory
    <3> QED BY <2>1, <2>9, <3>1
  <2>12. root' = root /\ stale' = stale /\ remote' = remote /\ streams' = streams
    BY <1>2
  <2>13. Steps(g)
    BY <2>7, <2>8, <2>10, <2>11, <2>12, CacheInvIs DEF Steps
  <2> QED BY <2>13
<1> QED BY <1>1, <1>4, <1>7, <1>8

LEMMA WriteKeeps ==
  ASSUME CacheInv, root # NoPtr, NEW x \in Handles, Write(x)
  PROVE  Steps(heap)
<1>0. /\ WF(heap, root, streams, handles, {}) /\ heap.ino = inodes /\ heap.ent = entries
      /\ Opened(heap, root, streams, handles)
  BY CacheInvIs DEF WF
<1>1. /\ handles' = [handles EXCEPT ![x].changed = TRUE]
      /\ UNCHANGED <<inodes, entries, root, stale, remote, streams>>
  BY Zenon DEF Write
<1>2. handles \in [Handles -> [ino : DOMAIN heap.ino \cup {NoPtr}, changed : BOOLEAN]]
  BY <1>0 DEF Opened
<1>3. /\ handles' \in [Handles -> [ino : DOMAIN heap.ino \cup {NoPtr}, changed : BOOLEAN]]
      /\ \A t \in Handles : handles'[t].ino = handles[t].ino
  BY <1>1, <1>2
<1>4. Opened(heap, root, streams, handles')
  <2>1. \A t \in Handles :
          handles'[t].ino # NoPtr =>
            handles'[t].ino # root /\ heap.ino[handles'[t].ino].name \in Files
    BY <1>0, <1>3 DEF Opened
  <2> QED BY <1>0, <1>3, <2>1 DEF Opened
<1>5. WF(heap, root, streams, handles', {})
  BY <1>0, <1>3, <1>4, SameUsersKeep
<1>6. Becomes(heap)
  BY <1>0, <1>1 DEF Becomes
<1> QED BY <1>0, <1>1, <1>5, <1>6, CacheInvIs DEF Steps

(* A change on the server, after which the inodes S lose a user: handles   *)
(* hd are left.                                                            *)
LEMMA InvalidateAndKeeps ==
  ASSUME CacheInv, root # NoPtr, NEW S, InvalidateAnd(heap, S),
         UNCHANGED <<stale, streams>>, remote' \in [Dirs -> SUBSET Files],
         \A h, r : WF(h, r, streams, handles, {}) =>
                     WF(h, r, streams, handles', S) /\ OneKind(h, S)
  PROVE  \E g : Steps(g)
<1>1. WF(heap, root, streams, handles, {})
  BY CacheInvIs
<1>2. streams' = streams /\ stale' = stale
  OBVIOUS
<1>3. CASE stale
  <2> DEFINE g == FreeInodes(heap, S)
  <2>1. Becomes(g) /\ root' = root
    BY <1>3 DEF InvalidateAnd
  <2>2. WF(g, root, streams, handles', {}) /\ SameLists(heap, g)
    BY <1>1, FreeInodesKeeps
  <2> HIDE DEF g
  <2>3. \A s \in Streams : streams[s].dir # NoPtr =>
          Extends(inodes[streams[s].dir].subdir, g.ino[streams[s].dir].subdir)
    <3> SUFFICES ASSUME NEW s \in Streams, streams[s].dir # NoPtr
                 PROVE  g.ino[streams[s].dir].subdir = inodes[streams[s].dir].subdir
      BY CacheInvIs
    <3>1. streams[s].dir \in DOMAIN g.ino
      BY <2>2, OpenDirectory
    <3> QED BY <2>2, <3>1, CacheInvIs DEF SameLists
  <2>4. Steps(g)
    BY <1>2, <1>3, <2>1, <2>2, <2>3, CacheInvIs DEF Steps
  <2> QED BY <2>4
<1>4. CASE ~stale
  <2> DEFINE k == Invalidated(heap)
             r == NewRoot(heap)
             g == FreeInodes(k, S)
  <2>1. Becomes(g) /\ root' = r
    BY <1>4 DEF InvalidateAnd
  <2>2. /\ WF(k, r, streams, handles, {})
        /\ r # NoPtr /\ Below(k, r) = {}
        /\ \A i \in DOMAIN k.ino \ {r} : k.ino[i].subdir = heap.ino[i].subdir
    BY <1>1, InvalidatedKeeps
  <2> HIDE DEF k, r
  <2>3. WF(g, r, streams, handles', {}) /\ SameLists(k, g)
    BY <2>2, FreeInodesKeeps
  <2> HIDE DEF g
  <2>4. \A s \in Streams : streams[s].dir # NoPtr =>
          Extends(inodes[streams[s].dir].subdir, g.ino[streams[s].dir].subdir)
    <3> SUFFICES ASSUME NEW s \in Streams, streams[s].dir # NoPtr
                 PROVE  g.ino[streams[s].dir].subdir = inodes[streams[s].dir].subdir
      BY CacheInvIs
    <3>1. streams[s].dir \in DOMAIN g.ino /\ streams[s].dir # r
      BY <2>3, OpenDirectory
    <3>2. streams[s].dir \in DOMAIN k.ino
      BY <2>2, OpenDirectory
    <3>3. g.ino[streams[s].dir].subdir = k.ino[streams[s].dir].subdir
      BY <2>3, <3>1 DEF SameLists
    <3> QED BY <2>2, <3>1, <3>2, <3>3, CacheInvIs
  <2>5. Current(g, r, remote')
    <3>1. r \in DOMAIN g.ino
      BY <2>2, <2>3 DEF WF
    <3>2. Below(g, r) = {}
      BY <2>2, <2>3, <3>1 DEF SameLists, Below
    <3> QED BY <3>2 DEF Current
  <2>6. Steps(g)
    BY <1>2, <2>1, <2>2, <2>3, <2>4, <2>5, CacheInvIs DEF Steps
  <2> QED BY <2>6
<1> QED BY <1>3, <1>4

(* A listing in doubt is no other listing, and claims nothing.             *)
LEMMA InDoubtIs ==
  ASSUME WF(heap, root, streams, handles, {}), NEW d
  PROVE  LET g == InDoubt(heap, d)
         IN /\ WF(g, root, streams, handles, {}) /\ SameShape(heap, g)
            /\ \A i \in DOMAIN heap.ino :
                 /\ g.ino[i].local = heap.ino[i].local
                 /\ i \in Below(heap, root) =>
                      (g.ino[i].doubt <=> heap.ino[i].doubt \/ heap.ino[i].name = d)
<1> DEFINE listed == {i \in Below(heap, root) : heap.ino[i].name = d}
           f == [i \in DOMAIN heap.ino |->
                   [heap.ino[i] EXCEPT !.doubt = @ \/ i \in listed]]
           g == InDoubt(heap, d)
<1>0. /\ HeapTyped(heap) /\ ListsMatch(heap, root) /\ Opened(heap, root, streams, handles)
      /\ Counted(heap, root, streams, handles, {}) /\ root \in DOMAIN heap.ino \cup {NoPtr}
      /\ heap = [ino |-> heap.ino, ent |-> heap.ent]
  BY DEF WF, HeapTyped
<1>1. g = [ino |-> f, ent |-> heap.ent]
  BY <1>0 DEF InDoubt
<1>2. ASSUME NEW i \in DOMAIN heap.ino
      PROVE  /\ f[i] \in InodeRec /\ f[i].name = heap.ino[i].name
             /\ f[i].nlink = heap.ino[i].nlink /\ f[i].ent = heap.ino[i].ent
             /\ f[i].subdir = heap.ino[i].subdir /\ f[i].local = heap.ino[i].local
             /\ f[i].doubt <=> heap.ino[i].doubt \/ i \in listed
  <2> DEFINE q == heap.ino[i]
             b == q.doubt \/ i \in listed
  <2>1. f[i] = [q EXCEPT !.doubt = b]
    OBVIOUS
  <2>2. q \in InodeRec
    BY <1>0 DEF HeapTyped
  <2>3. b \in BOOLEAN
    OBVIOUS
  <2> HIDE DEF f, q, b
  <2>4. /\ f[i] \in InodeRec /\ f[i].name = q.name /\ f[i].nlink = q.nlink
        /\ f[i].ent = q.ent /\ f[i].subdir = q.subdir /\ f[i].local = q.local
        /\ f[i].doubt = b
    BY <2>1, <2>2, <2>3 DEF InodeRec
  <2> QED BY <2>4 DEF q, b
<1>3. DOMAIN f = DOMAIN heap.ino /\ f = [i \in DOMAIN heap.ino |-> f[i]]
  OBVIOUS
<1> HIDE DEF f, g
<1>4. g.ino = f /\ g.ent = heap.ent
  BY <1>1
<1>5. f \in [DOMAIN heap.ino -> InodeRec]
  BY <1>2, <1>3
<1>6. SameShape(heap, g)
  BY <1>1, <1>2, <1>4, <1>5 DEF SameShape
<1>7. HeapTyped(g) /\ ListsMatch(g, root) /\ Opened(g, root, streams, handles)
  BY <1>0, <1>6, SameShapeKeeps
<1>8. Counted(g, root, streams, handles, {})
  BY <1>0, <1>2, <1>3, <1>4 DEF Counted
<1>9. WF(g, root, streams, handles, {})
  BY <1>0, <1>3, <1>4, <1>7, <1>8 DEF WF
<1> QED BY <1>2, <1>4, <1>6, <1>9 DEF g

(* A change whose reply is lost leaves every other listing current.        *)
LEMMA LostReplyKeeps ==
  ASSUME CacheInv, root # NoPtr, NEW d \in Dirs, NEW n \in Files,
         remote' = [remote EXCEPT ![d] = @ \ {n}], Becomes(InDoubt(heap, d)),
         UNCHANGED <<root, stale, streams, handles>>
  PROVE  \E g : Steps(g)
<1> DEFINE g == InDoubt(heap, d)
<1>1. /\ WF(heap, root, streams, handles, {}) /\ root \in DOMAIN heap.ino
      /\ remote \in [Dirs -> SUBSET Files] /\ heap.ino = inodes
  BY CacheInvIs
<1>2. /\ WF(g, root, streams, handles, {}) /\ SameShape(heap, g)
      /\ \A i \in DOMAIN heap.ino :
           /\ g.ino[i].local = heap.ino[i].local
           /\ i \in Below(heap, root) =>
                (g.ino[i].doubt <=> heap.ino[i].doubt \/ heap.ino[i].name = d)
  BY <1>1, InDoubtIs
<1> HIDE DEF g
<1>3. \A i \in DOMAIN heap.ino : /\ g.ino[i].name = heap.ino[i].name
                                  /\ Below(g, i) = Below(heap, i)
  BY <1>2 DEF SameShape, Below
<1>4. remote' \in [Dirs -> SUBSET Files] /\ \A e \in Dirs \ {d} : remote'[e] = remote[e]
  BY <1>1
<1>5. ASSUME ~stale PROVE Current(g, root, remote')
  <2> SUFFICES ASSUME NEW i \in Below(heap, root), ~g.ino[i].doubt
               PROVE  Shows(g, i, remote')
    BY <1>1, <1>3 DEF Current, Shows
  <2>1. i \in DOMAIN heap.ino /\ i # root /\ heap.ino[i].name \in Dirs
    <3>1. i \in DOMAIN heap.ino /\ i # root
      BY <1>1, BelowIs
    <3>2. i \in DOMAIN heap.ent /\ heap.ent[i] = root
      BY <1>1 DEF WF, ListsMatch
    <3> QED BY <1>1, <3>1, <3>2 DEF WF, ListsMatch
  <2>2. heap.ino[i].name # d /\ ~heap.ino[i].doubt
    BY <1>2, <2>1
  <2>3. Shows(heap, i, remote)
    BY <1>5, CacheInvIs DEF Current
  <2>4. \A f \in Below(heap, i) : f \in DOMAIN heap.ino
    BY <1>1, <2>1, BelowIs
  <2>5. Shows(g, i, remote)
    <3>1. /\ g.ino[i].name = heap.ino[i].name /\ Below(g, i) = Below(heap, i)
          /\ \A f \in Below(heap, i) : /\ g.ino[f].name = heap.ino[f].name
                                        /\ g.ino[f].local = heap.ino[f].local
      BY <1>2, <1>3, <2>1, <2>4
    <3> QED BY <2>2, <2>3, <3>1 DEF Shows
  <2>6. remote'[g.ino[i].name] = remote[g.ino[i].name]
    BY <1>3, <1>4, <2>1, <2>2
  <2> QED BY <2>5, <2>6 DEF Shows
<1>6. \A s \in Streams : streams[s].dir # NoPtr =>
        Extends(inodes[streams[s].dir].subdir, g.ino[streams[s].dir].subdir)
  <2> SUFFICES ASSUME NEW s \in Streams, streams[s].dir # NoPtr
               PROVE  g.ino[streams[s].dir].subdir = inodes[streams[s].dir].subdir
    BY CacheInvIs
  <2>1. streams[s].dir \in DOMAIN heap.ino
    BY <1>1, OpenDirectory
  <2> QED BY <1>1, <1>2, <2>1 DEF SameShape
<1>7. Steps(g)
  BY <1>2, <1>4, <1>5, <1>6, CacheInvIs DEF Steps, g
<1> QED BY <1>7

LEMMA UnlinkKeeps ==
  ASSUME CacheInv, root # NoPtr, NEW d \in Dirs, NEW n \in Files, Unlink(d, n)
  PROVE  \E g : Steps(g)
<1>1. /\ remote' = [remote EXCEPT ![d] = @ \ {n}]
      /\ \/ InvalidateAnd(heap, {})
         \/ Becomes(InDoubt(heap, d)) /\ root' = root
      /\ UNCHANGED <<stale, streams>> /\ handles' = handles
  BY DEF Unlink
<1>2. remote' \in [Dirs -> SUBSET Files]
  BY <1>1, CacheInvIs
<1>3. \A h, r : WF(h, r, streams, handles, {}) =>
                  WF(h, r, streams, handles', {}) /\ OneKind(h, {})
  BY <1>1 DEF OneKind
<1>4. CASE InvalidateAnd(heap, {})
  BY <1>1, <1>2, <1>3, <1>4, InvalidateAndKeeps
<1>5. CASE Becomes(InDoubt(heap, d)) /\ root' = root
  BY <1>1, <1>5, LostReplyKeeps
<1> QED BY <1>1, <1>4, <1>5

LEMMA CloseKeeps ==
  ASSUME CacheInv, root # NoPtr, NEW x \in Handles, Close(x)
  PROVE  \E g : Steps(g)
<1> DEFINE i == handles[x].ino
           no == FALSE
<1>1. /\ i # NoPtr
      /\ IF handles[x].changed
         THEN InvalidateAnd(heap, {i}) /\ (Stored(PathOf(i)) \/ UNCHANGED remote)
         ELSE Becomes(FreeInodes(heap, {i})) /\ UNCHANGED <<root, remote>>
      /\ handles' = [handles EXCEPT ![x] = [ino |-> NoPtr, changed |-> no]]
      /\ UNCHANGED <<stale, streams>>
  BY Zenon DEF Close, Handle
<1>n. no \in BOOLEAN
  OBVIOUS
<1> HIDE DEF no
<1>2. ASSUME NEW h, NEW r, WF(h, r, streams, handles, {})
      PROVE  WF(h, r, streams, handles', {i}) /\ OneKind(h, {i})
  <2>1. Opened(h, r, streams, handles)
    BY <1>2 DEF WF
  <2>2. i \in DOMAIN h.ino \ {r} /\ h.ino[i].name \in Files
    BY <1>1, <2>1 DEF Opened
  <2>3. /\ \A t \in Handles : handles'[t] = IF t = x THEN [ino |-> NoPtr, changed |-> no]
                                            ELSE handles[t]
        /\ handles' \in [Handles -> [ino : DOMAIN h.ino \cup {NoPtr}, changed : BOOLEAN]]
    <3>1. handles \in [Handles -> [ino : DOMAIN h.ino \cup {NoPtr}, changed : BOOLEAN]]
      BY <2>1 DEF Opened
    <3> QED BY <1>1, <1>n, <3>1
  <2>4. Opened(h, r, streams, handles')
    <3>1. \A t \in Handles :
            handles'[t].ino # NoPtr =>
              handles'[t].ino # r /\ h.ino[handles'[t].ino].name \in Files
      <4> TAKE t \in Handles
      <4>1. CASE t = x
        BY <2>3, <4>1
      <4>2. CASE t # x
        <5>1. handles'[t] = handles[t]
          BY <2>3, <4>2
        <5> QED BY <2>1, <5>1 DEF Opened
      <4> QED BY <4>1, <4>2
    <3> QED BY <2>1, <2>3, <3>1 DEF Opened
  <2>5. OneMore(streams, handles', streams, handles, i)
    <3>1. handles'[x].ino = NoPtr
      BY <2>3
    <3>2. \A t \in Handles \ {x} : handles[t].ino = handles'[t].ino
      BY <2>3
    <3> QED BY <3>1, <3>2, HandleIsOneMore
  <2> HIDE DEF i
  <2>6. WF(h, r, streams, handles', {i})
    BY <1>2, <2>2, <2>4, <2>5, UserLeaves
  <2> QED BY <2>2, <2>6 DEF OneKind
<1> HIDE DEF i
<1>3. CASE handles[x].changed
  <2>1. InvalidateAnd(heap, {i}) /\ (Stored(PathOf(i)) \/ UNCHANGED remote)
    BY <1>1, <1>3
  <2>2. remote' \in [Dirs -> SUBSET Files]
    <3>1. CASE UNCHANGED remote
      BY <3>1, CacheInvIs
    <3>2. CASE Stored(PathOf(i))
      <4> DEFINE p == PathOf(i)
      <4>1. CASE ~ (p # <<>> /\ p[1] \in Dirs)
        BY <3>2, <4>1, CacheInvIs DEF Stored
      <4>2. CASE p # <<>> /\ p[1] \in Dirs
        <5>1. p[2] \in Files
          <6>1. p = IF ~inodes[i].ent THEN <<>>
                    ELSE IF ~inodes[entries[i]].ent THEN <<Root, inodes[i].name>>
                    ELSE <<inodes[entries[i]].name, inodes[i].name>>
            BY DEF PathOf
          <6>2. p[2] = inodes[i].name
            BY <4>2, <6>1
          <6>3. Opened(heap, root, streams, handles) /\ heap.ino = inodes
            BY CacheInvIs DEF WF
          <6>4. inodes[i].name \in Files
            BY <1>1, <6>3 DEF Opened, i
          <6> QED BY <6>2, <6>4
        <5>2. remote' = [remote EXCEPT ![p[1]] = @ \cup {p[2]}]
          BY <3>2, <4>2 DEF Stored
        <5>3. remote \in [Dirs -> SUBSET Files]
          BY CacheInvIs
        <5> HIDE DEF p
        <5> QED BY <4>2, <5>1, <5>2, <5>3
      <4> QED BY <4>1, <4>2
    <3> QED BY <2>1, <3>1, <3>2
  <2>3. \A h, r : WF(h, r, streams, handles, {}) =>
                    WF(h, r, streams, handles', {i}) /\ OneKind(h, {i})
    BY <1>2
  <2> QED BY <1>1, <2>1, <2>2, <2>3, InvalidateAndKeeps
<1>4. CASE ~handles[x].changed
  <2> DEFINE g == FreeInodes(heap, {i})
  <2>1. Becomes(g) /\ root' = root /\ remote' = remote /\ stale' = stale /\ streams' = streams
    BY <1>1, <1>4
  <2>2. WF(heap, root, streams, handles', {i}) /\ OneKind(heap, {i})
    BY <1>2, CacheInvIs
  <2>3. WF(g, root, streams, handles', {}) /\ SameLists(heap, g)
    BY <2>2, FreeInodesKeeps
  <2>4. ~stale => Current(g, root, remote)
    BY <2>2, FreeInodesShow, CacheInvIs
  <2> HIDE DEF g
  <2>5. \A s \in Streams : streams[s].dir # NoPtr =>
          Extends(inodes[streams[s].dir].subdir, g.ino[streams[s].dir].subdir)
    <3> SUFFICES ASSUME NEW s \in Streams, streams[s].dir # NoPtr
                 PROVE  g.ino[streams[s].dir].subdir = inodes[streams[s].dir].subdir
      BY CacheInvIs
    <3>1. streams[s].dir \in DOMAIN g.ino
      BY <2>3, OpenDirectory
    <3> QED BY <2>3, <3>1, CacheInvIs DEF SameLists
  <2>6. Steps(g)
    BY <2>1, <2>3, <2>4, <2>5, CacheInvIs DEF Steps
  <2> QED BY <2>6
<1> QED BY <1>3, <1>4

LEMMA HoldCacheKeeps ==
  ASSUME CacheInv, root # NoPtr, NEW d \in Dirs, HoldCache(d)
  PROVE  \E g : Steps(g)
<1>1. PICK l \in Lookups(d) : Becomes(l.heap) /\ stale' = (l.dir # NoPtr)
  BY DEF HoldCache
<1>2. ~stale /\ UNCHANGED <<root, remote, streams, handles>>
  BY DEF HoldCache
<1>3. stale' \in BOOLEAN
  BY <1>1
<1>4. Steps(l.heap)
  BY <1>1, <1>2, <1>3, LookupKeeps
<1> QED BY <1>4

LEMMA DropCacheKeeps ==
  ASSUME CacheInv, root # NoPtr, NEW d \in Dirs, DropCache(d)
  PROVE  \E g : Steps(g)
<1>1. PICK l \in Lookups(d) :
        IF l.dir = NoPtr THEN Becomes(l.heap) /\ UNCHANGED <<root, stale>>
        ELSE /\ stale' = FALSE
             /\ Becomes(Invalidated(l.heap)) /\ root' = NewRoot(l.heap)
  BY Zenon DEF DropCache
<1>2. UNCHANGED <<remote, streams, handles>>
  BY DEF DropCache
<1>3. CASE l.dir = NoPtr
  <2>1. Becomes(l.heap) /\ UNCHANGED <<root, stale>>
    BY <1>1, <1>3
  <2>2. stale' \in BOOLEAN /\ (stale \/ stale' => stale')
    BY <2>1, CacheInvIs
  <2>3. UNCHANGED <<root, remote, streams, handles>>
    BY <1>2, <2>1
  <2>4. Steps(l.heap)
    BY <2>1, <2>2, <2>3, LookupKeeps
  <2> QED BY <2>4
<1>4. CASE l.dir # NoPtr
  <2> DEFINE h == l.heap
             g == Invalidated(h)
             r == NewRoot(h)
  <2>1. Becomes(g) /\ root' = r /\ stale' = FALSE /\ remote' = remote /\ streams' = streams
        /\ handles' = handles
    BY <1>1, <1>2, <1>4
  <2>2. WF(h, root, streams, handles, {}) /\ OpenAsIn(heap, h)
    BY CacheInvIs, LookupsKeep DEF Found
  <2> HIDE DEF h
  <2>3. /\ WF(g, r, streams, handles, {})
        /\ r # NoPtr /\ Below(g, r) = {}
        /\ \A i \in DOMAIN g.ino \ {r} : g.ino[i].subdir = h.ino[i].subdir
    BY <2>2, InvalidatedKeeps
  <2> HIDE DEF g, r
  <2>4. \A s \in Streams : streams[s].dir # NoPtr =>
          Extends(inodes[streams[s].dir].subdir, g.ino[streams[s].dir].subdir)
    <3> SUFFICES ASSUME NEW s \in Streams, streams[s].dir # NoPtr
                 PROVE  g.ino[streams[s].dir].subdir = inodes[streams[s].dir].subdir
      BY CacheInvIs
    <3>1. streams[s].dir \in DOMAIN g.ino /\ streams[s].dir # r
      BY <2>3, OpenDirectory
    <3> QED BY <2>2, <2>3, <3>1, CacheInvIs DEF OpenAsIn
  <2>5. Current(g, r, remote)
    BY <2>3 DEF Current
  <2>6. Steps(g)
    BY <2>1, <2>3, <2>4, <2>5, CacheInvIs DEF Steps
  <2> QED BY <2>6
<1> QED BY <1>3, <1>4

LEMMA FreeSuperKeeps ==
  ASSUME CacheInv, FreeSuper
  PROVE  CacheInv' /\ StreamsKept
<1> DEFINE g == FreeRoot(heap)
<1>1. /\ root # NoPtr /\ Becomes(g) /\ root' = NoPtr /\ stale' = FALSE
      /\ remote' = remote /\ streams' = streams /\ handles' = handles
      /\ \A s \in Streams : streams[s].dir = NoPtr
      /\ \A x \in Handles : handles[x].ino = NoPtr
  BY DEF FreeSuper
<1>2. WF(g, NoPtr, streams, handles, {})
  BY <1>1, FreeRootKeeps, CacheInvIs
<1> HIDE DEF g
<1>3. g = [ino |-> g.ino, ent |-> g.ent]
  BY <1>2 DEF WF, HeapTyped
<1>4. heap' = g /\ inodes' = g.ino
  BY <1>1, <1>3 DEF Becomes, heap
<1>5. DOMAIN g.ino = {}
  BY <1>1, <1>2, NothingIsLeft
<1>6. CacheInv'
  BY <1>1, <1>2, <1>4, <1>5, CacheInvIs DEF CacheInv
<1> QED BY <1>1, <1>6 DEF StreamsKept

-----------------------------------------------------------------------------
(* The inductive invariant.                                                *)

LEMMA InitIsWell ==
  ASSUME CacheInit
  PROVE  CacheInv
<1> DEFINE r == <<1, Root>>
           new == NewInode(Root, 0, FALSE)
<1>1. /\ root = r /\ entries = << >> /\ inodes = [i \in {r} |-> new]
      /\ stale = FALSE /\ remote \in [Dirs -> SUBSET Files]
      /\ streams = [s \in Streams |-> [dir |-> NoPtr, cur |-> NoPtr]]
      /\ handles = [x \in Handles |-> [ino |-> NoPtr, changed |-> FALSE]]
  BY DEF CacheInit
<1>2. r \in Ptr /\ r # NoPtr
  BY PointersDiffer DEF Ptr
<1>3. new \in InodeRec /\ new.subdir = << >>
  BY EmptySeq DEF NewInode, InodeRec
<1> HIDE DEF r, new
<1>4. /\ heap = [ino |-> inodes, ent |-> entries] /\ heap.ino = inodes /\ heap.ent = entries
      /\ DOMAIN heap.ino = {r} /\ heap.ino[r] = new /\ DOMAIN heap.ent = {}
  BY <1>1 DEF heap
<1>5. Below(heap, r) = {}
  <2>1. DOMAIN << >> = {}
    OBVIOUS
  <2> QED BY <1>3, <1>4, <2>1 DEF Below, Range
<1>6. HeapTyped(heap)
  <2>1. heap.ino \in [DOMAIN heap.ino -> InodeRec]
    BY <1>1, <1>3, <1>4
  <2>2. heap.ent \in [DOMAIN heap.ent -> DOMAIN heap.ino]
    BY <1>1, <1>4
  <2>3. IsFiniteSet({r})
    BY FS_Singleton
  <2> QED BY <1>2, <1>4, <2>1, <2>2, <2>3 DEF HeapTyped
<1>7. ListsMatch(heap, r)
  BY <1>4, <1>5 DEF ListsMatch
<1>8. Opened(heap, r, streams, handles)
  <2> DEFINE no == FALSE
  <2>1. handles = [x \in Handles |-> [ino |-> NoPtr, changed |-> no]] /\ no \in BOOLEAN
    BY <1>1
  <2> HIDE DEF no
  <2>2. /\ streams \in [Streams -> [dir : DOMAIN heap.ino \cup {NoPtr},
                                    cur : DOMAIN heap.ent \cup {NoPtr}]]
        /\ handles \in [Handles -> [ino : DOMAIN heap.ino \cup {NoPtr}, changed : BOOLEAN]]
        /\ \A s \in Streams : streams[s].dir = NoPtr /\ streams[s].cur = NoPtr
        /\ \A x \in Handles : handles[x].ino = NoPtr
    BY <1>1, <2>1
  <2> QED BY <2>2 DEF Opened
<1>9. Counted(heap, r, streams, handles, {})
  BY <1>4 DEF Counted
<1>10. WF(heap, r, streams, handles, {})
  BY <1>4, <1>6, <1>7, <1>8, <1>9 DEF WF
<1>11. Current(heap, r, remote)
  BY <1>5 DEF Current
<1> QED BY <1>1, <1>2, <1>10, <1>11 DEF CacheInv

LEMMA NextKeeps ==
  ASSUME CacheInv, CacheNext
  PROVE  CacheInv' /\ StreamsKept
<1>1. CASE FreeSuper
  BY <1>1, FreeSuperKeeps
<1>2. ASSUME root # NoPtr,
             \/ \E s \in Streams : ReadDir(s) \/ CloseDir(s) \/ \E d \in Dirs : OpenDir(s, d)
             \/ \E x \in Handles : Write(x) \/ Close(x)
             \/ \E x \in Handles, d \in Dirs, n \in Files, w \in BOOLEAN : Open(x, d, n, w)
             \/ \E d \in Dirs : HoldCache(d) \/ DropCache(d)
             \/ \E d \in Dirs, n \in Files : Unlink(d, n)
      PROVE  \E g : Steps(g)
  <2>1. ASSUME NEW s \in Streams, ReadDir(s) PROVE \E g : Steps(g)
    BY <1>2, <2>1, ReadDirKeeps
  <2>2. ASSUME NEW s \in Streams, CloseDir(s) PROVE \E g : Steps(g)
    BY <1>2, <2>2, CloseDirKeeps
  <2>3. ASSUME NEW s \in Streams, NEW d \in Dirs, OpenDir(s, d) PROVE \E g : Steps(g)
    BY <1>2, <2>3, OpenDirKeeps
  <2>4. ASSUME NEW x \in Handles, Write(x) PROVE \E g : Steps(g)
    BY <1>2, <2>4, WriteKeeps
  <2>5. ASSUME NEW x \in Handles, Close(x) PROVE \E g : Steps(g)
    BY <1>2, <2>5, CloseKeeps
  <2>6. ASSUME NEW x \in Handles, NEW d \in Dirs, NEW n \in Files, NEW w \in BOOLEAN,
               Open(x, d, n, w)
        PROVE  \E g : Steps(g)
    BY <1>2, <2>6, OpenKeeps
  <2>7. ASSUME NEW d \in Dirs, HoldCache(d) PROVE \E g : Steps(g)
    BY <1>2, <2>7, HoldCacheKeeps
  <2>8. ASSUME NEW d \in Dirs, DropCache(d) PROVE \E g : Steps(g)
    BY <1>2, <2>8, DropCacheKeeps
  <2>9. ASSUME NEW d \in Dirs, NEW n \in Files, Unlink(d, n) PROVE \E g : Steps(g)
    BY <1>2, <2>9, UnlinkKeeps
  <2> QED BY <1>2, <2>1, <2>2, <2>3, <2>4, <2>5, <2>6, <2>7, <2>8, <2>9
<1> QED BY <1>1, <1>2, StepKeeps DEF CacheNext

LEMMA StutterKeeps ==
  ASSUME CacheInv, UNCHANGED cache_vars
  PROVE  CacheInv'
<1>1. /\ heap' = heap /\ root' = root /\ streams' = streams /\ handles' = handles
      /\ stale' = stale /\ remote' = remote /\ inodes' = inodes
  BY DEF cache_vars, heap
<1> QED BY <1>1 DEF CacheInv

LEMMA CacheInvariance == CacheSpec => []CacheInv
<1>1. CacheInit => CacheInv
  BY InitIsWell
<1>2. CacheInv /\ [CacheNext]_cache_vars => CacheInv'
  BY NextKeeps, StutterKeeps
<1> QED BY <1>1, <1>2, PTL DEF CacheSpec

LEMMA WellMeansAccounted ==
  ASSUME CacheInv
  PROVE  MemoryIsAccounted
<1>0. /\ HeapTyped(heap) /\ ListsMatch(heap, root) /\ root \in DOMAIN heap.ino \cup {NoPtr}
      /\ Opened(heap, root, streams, handles) /\ Counted(heap, root, streams, handles, {})
      /\ heap.ino = inodes /\ heap.ent = entries
  BY DEF CacheInv, WF, heap
<1>1. HeapOK
  <2>1. ASSUME NEW i \in DOMAIN inodes
        PROVE  inodes[i] \in [name : Dirs \cup Files \cup {Root}, nlink : Nat, ent : BOOLEAN,
                              subdir : Seq(DOMAIN entries), local : BOOLEAN,
                              doubt : BOOLEAN]
    <3>1. inodes[i] \in InodeRec
      BY <1>0 DEF HeapTyped
    <3>2. inodes[i].subdir \in Seq(Ptr)
      BY <3>1 DEF InodeRec
    <3>3. inodes[i].subdir \in Seq(Range(inodes[i].subdir))
      BY <3>2, SeqOfRange
    <3>4. Range(inodes[i].subdir) \subseteq DOMAIN entries
      BY <1>0 DEF ListsMatch, Below
    <3>5. inodes[i].subdir \in Seq(DOMAIN entries)
      BY <3>3, <3>4, SeqMonotonic
    <3> QED BY <3>1, <3>5 DEF InodeRec
  <2>2. \A x \in Handles : handles[x].changed \in BOOLEAN
    BY <1>0 DEF Opened
  <2> QED BY <1>0, <2>1, <2>2 DEF HeapOK, CacheInv
<1>2. NoDangling
  <2>1. \A e \in DOMAIN entries : e \in DOMAIN inodes /\ entries[e] \in DOMAIN inodes
    BY <1>0 DEF HeapTyped
  <2>2. \A s \in Streams : /\ streams[s].dir \in DOMAIN inodes \cup {NoPtr}
                           /\ streams[s].cur \in DOMAIN entries \cup {NoPtr}
    BY <1>0 DEF Opened
  <2>3. \A x \in Handles : handles[x].ino \in DOMAIN inodes \cup {NoPtr}
    BY <1>0 DEF Opened
  <2> QED BY <2>1, <2>2, <2>3 DEF NoDangling
<1>3. CountsMatch
  <2> SUFFICES ASSUME NEW i \in DOMAIN inodes \ {root}
               PROVE  inodes[i].nlink = Users(i) /\ Users(i) > 0
    BY DEF CountsMatch
  <2>1. /\ inodes[i].nlink = One(inodes[i].ent) + Opens(streams, handles, i) + One(i \in {})
        /\ inodes[i].nlink > 0
    BY <1>0 DEF Counted
  <2> DEFINE a == Cardinality({s \in Streams : streams[s].dir = i})
             b == Cardinality({x \in Handles : handles[x].ino = i})
             o == IF inodes[i].ent THEN 1 ELSE 0
  <2>2. a \in Nat /\ b \in Nat
    <3>1. /\ IsFiniteSet({s \in Streams : streams[s].dir = i})
          /\ IsFiniteSet({x \in Handles : handles[x].ino = i})
      BY DirCacheAssumption, FS_Subset
    <3> QED BY <3>1, FS_CardinalityType
  <2>3. /\ Users(i) = o + a + b /\ Opens(streams, handles, i) = a + b
        /\ One(inodes[i].ent) = o /\ One(i \in {}) = 0 /\ o \in Nat
    BY DEF Users, Opens, One
  <2> HIDE DEF a, b, o
  <2> QED BY <2>1, <2>2, <2>3
<1>4. SuperFreesAll
  BY <1>0 DEF SuperFreesAll, HeapTyped, CacheInv
<1> QED BY <1>1, <1>2, <1>3, <1>4 DEF MemoryIsAccounted

(* Whatever expires, changes or fails while files and directories are      *)
(* open, direntry.c frees an inode when its last user goes, neither        *)
(* earlier nor later, and vfs_s_free_super leaves nothing behind.          *)
THEOREM MemoryStaysAccounted == CacheSpec => []MemoryIsAccounted
BY CacheInvariance, WellMeansAccounted, PTL

(* Unless the cache is held back, its listings show what is on the server, *)
(* or what mc has written itself, but for a directory that a command       *)
(* changed whose reply was lost.                                           *)
THEOREM ListingStaysCurrent == CacheSpec => []ListingIsCurrent
<1>1. CacheInv => ListingIsCurrent
  <2>1. heap.ino = inodes
    BY DEF heap
  <2> QED BY <2>1 DEF CacheInv, Current, Shows, ListingIsCurrent
<1> QED BY <1>1, CacheInvariance, PTL

(* vfs_s_readdir never loses an entry that it has still to return: not     *)
(* when the listing expires, nor when vfs_s_invalidate drops the cache.    *)
THEOREM StreamsStayStable == CacheSpec => StreamsAreStable
<1>1. CacheInv /\ [CacheNext]_cache_vars => [StreamsKept]_cache_vars
  BY NextKeeps
<1>2. CacheSpec => [][StreamsKept]_cache_vars
  BY <1>1, CacheInvariance, PTL DEF CacheSpec
<1> QED BY <1>2 DEF StreamsAreStable, StreamsKept, Extends
=============================================================================
