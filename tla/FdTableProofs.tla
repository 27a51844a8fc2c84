--------------------------- MODULE FdTableProofs ---------------------------
(***************************************************************************)
(* What the operators of Paths and FdTable keep, for all paths and tables. *)
(***************************************************************************)
EXTENDS FdTable, SequenceTheorems, WellFoundedInduction, TLAPS

(* A non-empty set of naturals has a least element.                        *)
LEMMA LeastElement ==
    ASSUME NEW S \in SUBSET Nat, S # {}
    PROVE  \E n \in S : \A m \in S : n <= m
<1> DEFINE R == OpToRel(<, Nat)
<1>1. IsWellFoundedOn(R, Nat)
  BY NatLessThanWellFounded
<1>2. \A x, y \in Nat : x < y => <<x, y>> \in R
  BY DEF OpToRel
<1> HIDE DEF R
<1>3. PICK x \in S : \A y \in S : <<y, x>> \notin R
  BY <1>1, WFMin
<1>4. ASSUME NEW y \in S PROVE x <= y
  <2>1. x \in Nat /\ y \in Nat
    OBVIOUS
  <2>2. ~(y < x)
    BY <1>2, <1>3, <2>1
  <2> QED BY <2>1, <2>2
<1> QED BY <1>4

(* Induction, up to n: what holds of 0 and passes on to the successor is   *)
(* given as a set.                                                         *)
LEMMA SetInduction ==
    ASSUME NEW n \in Nat, NEW S, 0 \in S, \A k \in Nat : k < n /\ k \in S => k + 1 \in S
    PROVE  \A k \in 0..n : k \in S
<1> DEFINE bad == {k \in Nat : k <= n /\ k \notin S}
<1>1. bad \in SUBSET Nat
  OBVIOUS
<1>2. ASSUME bad # {} PROVE FALSE
  <2>1. PICK k \in bad : \A j \in bad : k <= j
    <3> HIDE DEF bad
    <3> QED BY <1>1, <1>2, LeastElement
  <2>2. k \in Nat /\ k <= n /\ k \notin S /\ k # 0
    OBVIOUS
  <2>3. k - 1 \in Nat /\ k - 1 < n /\ k - 1 + 1 = k
    BY <2>2
  <2>4. k - 1 \notin bad
    BY <2>1, <2>2, <2>3
  <2> QED BY <2>2, <2>3, <2>4
<1> QED BY <1>2

-----------------------------------------------------------------------------
(* Rebasing a path at or below old gives a path at or below new, with the  *)
(* same rest, ...                                                          *)
LEMMA RebaseShape ==
    ASSUME NEW p \in Path, NEW old \in Path, NEW new \in Path,
           p = old \/ Under(p, old)
    PROVE  /\ Rebase(p, old, new) \in Path
           /\ Len(Rebase(p, old, new)) = Len(new) + Len(p) - Len(old)
           /\ \A i \in 1..Len(new) : Rebase(p, old, new)[i] = new[i]
           /\ \A i \in 1..Len(p) - Len(old) :
                 Rebase(p, old, new)[Len(new) + i] = p[Len(old) + i]
<1> DEFINE tail == SubSeq(p, Len(old) + 1, Len(p))
<1>1. Len(p) \in Nat /\ Len(old) \in Nat /\ Len(new) \in Nat /\ Len(old) <= Len(p)
  BY DEF Path, Under
<1>2. \A i \in Len(old) + 1 .. Len(p) : p[i] \in Name
  BY <1>1, ElementOfSeq DEF Path
<1>3. /\ tail \in Path
      /\ Len(tail) = Len(p) - Len(old)
      /\ \A i \in 1..Len(tail) : tail[i] = p[Len(old) + i]
  <2>1. /\ tail \in Seq(Name)
        /\ Len(tail) = IF Len(old) + 1 <= Len(p) THEN Len(p) - (Len(old) + 1) + 1 ELSE 0
        /\ \A i \in 1 .. Len(p) - (Len(old) + 1) + 1 : tail[i] = p[Len(old) + 1 + i - 1]
    BY <1>1, <1>2, SubSeqProperties
  <2> HIDE DEF tail
  <2> QED BY <1>1, <2>1 DEF Path
<1> HIDE DEF tail
<1>4. /\ new \o tail \in Path
      /\ Len(new \o tail) = Len(new) + Len(tail)
      /\ \A i \in 1 .. Len(new) + Len(tail) :
            (new \o tail)[i] = IF i <= Len(new) THEN new[i] ELSE tail[i - Len(new)]
  BY <1>3, ConcatProperties DEF Path
<1>5. ASSUME NEW i \in 1..Len(p) - Len(old)
      PROVE  (new \o tail)[Len(new) + i] = p[Len(old) + i]
  <2>1. Len(new) + i \in 1 .. Len(new) + Len(tail) /\ ~(Len(new) + i <= Len(new))
    BY <1>1, <1>3
  <2>2. (new \o tail)[Len(new) + i] = tail[Len(new) + i - Len(new)]
    BY <1>4, <2>1
  <2>3. Len(new) + i - Len(new) = i /\ i \in 1..Len(tail)
    BY <1>1, <1>3
  <2> QED BY <1>3, <2>2, <2>3
<1>6. \A i \in 1..Len(new) : (new \o tail)[i] = new[i]
  BY <1>1, <1>3, <1>4
<1> QED BY <1>1, <1>3, <1>4, <1>5, <1>6 DEF Rebase, tail

(* ... a path below old one below new ...                                  *)
LEMMA RebaseUnder ==
    ASSUME NEW p \in Path, NEW old \in Path, NEW new \in Path, Under(p, old)
    PROVE  Under(Rebase(p, old, new), new)
<1> DEFINE r == Rebase(p, old, new)
           head == SubSeq(r, 1, Len(new))
<1>1. /\ r \in Path
      /\ Len(r) = Len(new) + Len(p) - Len(old)
      /\ \A i \in 1..Len(new) : r[i] = new[i]
  BY RebaseShape
<1> HIDE DEF r
<1>2. Len(new) < Len(r) /\ Len(new) \in Nat /\ Len(r) \in Nat
  BY <1>1 DEF Under, Path
<1>3. \A i \in 1..Len(new) : r[i] \in Name
  BY <1>1, <1>2, ElementOfSeq DEF Path
<1>4. /\ head \in Seq(Name)
      /\ Len(head) = IF 1 <= Len(new) THEN Len(new) - 1 + 1 ELSE 0
      /\ \A i \in 1 .. Len(new) - 1 + 1 : head[i] = r[1 + i - 1]
  BY <1>2, <1>3, SubSeqProperties
<1> HIDE DEF head
<1>5. head = new
  <2>1. Len(head) = Len(new)  BY <1>2, <1>4
  <2>2. \A i \in 1..Len(head) : head[i] = new[i]  BY <1>1, <1>2, <1>4, <2>1
  <2> QED BY <1>4, <2>1, <2>2, SeqEqual DEF Path
<1> QED BY <1>2, <1>5 DEF Under, r, head

(* ... and rebasing it back gives the path again.                          *)
LEMMA RebaseInverse ==
    ASSUME NEW p \in Path, NEW old \in Path, NEW new \in Path,
           p = old \/ Under(p, old)
    PROVE  Rebase(Rebase(p, old, new), new, old) = p
<1> DEFINE r == Rebase(p, old, new)
           b == Rebase(r, new, old)
<1>1. /\ r \in Path
      /\ Len(r) = Len(new) + Len(p) - Len(old)
      /\ \A i \in 1..Len(new) : r[i] = new[i]
      /\ \A i \in 1..Len(p) - Len(old) : r[Len(new) + i] = p[Len(old) + i]
  BY RebaseShape
<1>4. Len(p) \in Nat /\ Len(old) \in Nat /\ Len(new) \in Nat /\ Len(old) <= Len(p)
  BY DEF Path, Under
<1>2. r = new \/ Under(r, new)
  <2>1. CASE p = old
    <3> HIDE DEF r
    <3>1. Len(r) = Len(new)
      BY <1>1, <1>4, <2>1
    <3>2. \A i \in 1..Len(r) : r[i] = new[i]
      BY <1>1, <3>1
    <3> QED BY <1>1, <3>1, <3>2, SeqEqual DEF Path
  <2>2. CASE Under(p, old)  BY <2>2, RebaseUnder
  <2> QED BY <2>1, <2>2
<1> HIDE DEF r
<1>3. /\ b \in Path
      /\ Len(b) = Len(old) + Len(r) - Len(new)
      /\ \A i \in 1..Len(old) : b[i] = old[i]
      /\ \A i \in 1..Len(r) - Len(new) : b[Len(old) + i] = r[Len(new) + i]
  BY <1>1, <1>2, RebaseShape
<1> HIDE DEF b
<1>5. Len(b) = Len(p)
  BY <1>1, <1>3, <1>4
<1>6. \A i \in 1..Len(old) : p[i] = old[i]
  <2>1. CASE p = old  BY <2>1
  <2>2. CASE Under(p, old)
    <3>1. \A i \in 1..Len(old) : p[i] \in Name
      BY <1>4, ElementOfSeq DEF Path
    <3>2. \A i \in 1 .. Len(old) - 1 + 1 : SubSeq(p, 1, Len(old))[i] = p[1 + i - 1]
      BY <1>4, <3>1, SubSeqProperties
    <3> QED BY <1>4, <2>2, <3>2 DEF Under
  <2> QED BY <2>1, <2>2
<1>7. \A i \in 1..Len(p) - Len(old) : b[Len(old) + i] = p[Len(old) + i]
  <2>1. Len(r) - Len(new) = Len(p) - Len(old)  BY <1>1, <1>4
  <2> QED BY <1>1, <1>3, <2>1
<1>8. ASSUME NEW i \in 1..Len(b) PROVE b[i] = p[i]
  <2>1. CASE i <= Len(old)  BY <1>3, <1>4, <1>6, <2>1
  <2>2. CASE i > Len(old)
    <3>1. i - Len(old) \in 1..Len(p) - Len(old)  BY <1>4, <1>5, <2>2
    <3>2. Len(old) + (i - Len(old)) = i  BY <1>4
    <3> QED BY <1>7, <3>1, <3>2
  <2> QED BY <1>4, <2>1, <2>2
<1>9. b = p
  BY <1>3, <1>5, <1>8, SeqEqual DEF Path
<1> QED BY <1>9 DEF b, r

-----------------------------------------------------------------------------
(* Under, component by component.                                          *)
LEMMA UnderPointwise ==
    ASSUME NEW p \in Path, NEW q \in Path
    PROVE  Under(p, q) <=> Len(q) < Len(p) /\ \A i \in 1..Len(q) : p[i] = q[i]
<1> DEFINE head == SubSeq(p, 1, Len(q))
<1>1. Len(p) \in Nat /\ Len(q) \in Nat
  BY DEF Path
<1> SUFFICES ASSUME Len(q) < Len(p)
             PROVE  head = q <=> \A i \in 1..Len(q) : p[i] = q[i]
  BY DEF Under
<1>2. \A i \in 1..Len(q) : p[i] \in Name
  BY <1>1, ElementOfSeq DEF Path
<1>3. /\ head \in Seq(Name)
      /\ Len(head) = IF 1 <= Len(q) THEN Len(q) - 1 + 1 ELSE 0
      /\ \A i \in 1 .. Len(q) - 1 + 1 : head[i] = p[1 + i - 1]
  BY <1>1, <1>2, SubSeqProperties
<1> HIDE DEF head
<1>4. Len(head) = Len(q) /\ \A i \in 1..Len(q) : head[i] = p[i]
  BY <1>1, <1>2, <1>3
<1>5. (\A i \in 1..Len(q) : p[i] = q[i]) => head = q
  BY <1>3, <1>4, SeqEqual DEF Path
<1> QED BY <1>4, <1>5

(* The parent of a path is the path without its last component.            *)
LEMMA ParentShape ==
    ASSUME NEW p \in Path, p # Root
    PROVE  /\ Parent(p) \in Path
           /\ Len(Parent(p)) = Len(p) - 1
           /\ \A i \in 1 .. Len(p) - 1 : Parent(p)[i] = p[i]
<1>1. Len(p) \in Nat /\ Len(p) > 0
  BY EmptySeq DEF Path, Root
<1>2. \A i \in 1 .. Len(p) - 1 : p[i] \in Name
  BY <1>1, ElementOfSeq DEF Path
<1>3. /\ Parent(p) \in Seq(Name)
      /\ Len(Parent(p)) = IF 1 <= Len(p) - 1 THEN Len(p) - 1 - 1 + 1 ELSE 0
      /\ \A i \in 1 .. Len(p) - 1 - 1 + 1 : Parent(p)[i] = p[1 + i - 1]
  BY <1>1, <1>2, SubSeqProperties DEF Parent
<1>4. Len(Parent(p)) = Len(p) - 1
  <2>1. CASE Len(p) = 1
    BY <1>3, <2>1
  <2>2. CASE Len(p) > 1
    <3>1. 1 <= Len(p) - 1 /\ Len(p) - 1 - 1 + 1 = Len(p) - 1
      BY <1>1, <2>2
    <3> QED BY <1>3, <3>1
  <2> QED BY <1>1, <2>1, <2>2
<1>5. ASSUME NEW i \in 1 .. Len(p) - 1 PROVE Parent(p)[i] = p[i]
  <2>1. i \in 1 .. Len(p) - 1 - 1 + 1 /\ 1 + i - 1 = i
    BY <1>1
  <2> QED BY <1>3, <2>1
<1> QED BY <1>3, <1>4, <1>5 DEF Path

LEMMA ParentOfRoot == Parent(Root) = Root
<1>1. Len(Root) = 0
  BY EmptySeq DEF Root
<1> QED BY <1>1, SubSeqEmpty DEF Parent, Root

LEMMA RootIsPath == Root \in Path /\ Len(Root) = 0 /\ \A p \in Path : p # Root => Len(p) > 0
BY EmptySeq DEF Root, Path

LEMMA ParentIsPath == \A p \in Path : Parent(p) \in Path
BY ParentShape, ParentOfRoot, RootIsPath

(* A path lies below its parent, and below exactly what is its parent or   *)
(* what its parent lies below.                                             *)
LEMMA UnderParent ==
    ASSUME NEW p \in Path, NEW q \in Path, p # Root
    PROVE  Under(p, q) <=> Parent(p) = q \/ Under(Parent(p), q)
<1>1. /\ Parent(p) \in Path /\ Len(Parent(p)) = Len(p) - 1
      /\ \A i \in 1 .. Len(p) - 1 : Parent(p)[i] = p[i]
  BY ParentShape
<1>2. Len(p) \in Nat /\ Len(q) \in Nat
  BY DEF Path
<1>3. Under(p, q) <=> Len(q) < Len(p) /\ \A i \in 1..Len(q) : p[i] = q[i]
  BY UnderPointwise
<1>4. Under(Parent(p), q) <=>
         Len(q) < Len(Parent(p)) /\ \A i \in 1..Len(q) : Parent(p)[i] = q[i]
  BY <1>1, UnderPointwise
<1>5. Parent(p) = q <=> Len(q) = Len(p) - 1 /\ \A i \in 1..Len(q) : p[i] = q[i]
  <2>1. ASSUME Len(q) = Len(p) - 1, \A i \in 1..Len(q) : p[i] = q[i]
        PROVE  Parent(p) = q
    <3>1. Len(Parent(p)) = Len(q) /\ \A i \in 1..Len(Parent(p)) : Parent(p)[i] = q[i]
      BY <1>1, <1>2, <2>1
    <3> QED BY <1>1, <3>1, SeqEqual DEF Path
  <2> QED BY <1>1, <1>2, <2>1
<1>6. CASE Len(q) = Len(p) - 1
  BY <1>1, <1>2, <1>3, <1>4, <1>5, <1>6
<1>7. CASE Len(q) # Len(p) - 1
  BY <1>1, <1>2, <1>3, <1>4, <1>5, <1>7
<1> QED BY <1>6, <1>7

(* Rebasing goes down the tree with the path.                              *)
LEMMA RebaseParent ==
    ASSUME NEW p \in Path, NEW old \in Path, NEW new \in Path, Under(p, old)
    PROVE  /\ Rebase(p, old, new) # Root
           /\ Parent(Rebase(p, old, new)) = Rebase(Parent(p), old, new)
<1> DEFINE r == Rebase(p, old, new)
           s == Rebase(Parent(p), old, new)
<1>1. Len(p) \in Nat /\ Len(old) \in Nat /\ Len(new) \in Nat /\ Len(old) < Len(p)
  BY DEF Path, Under
<1>2. p # Root
  BY <1>1, RootIsPath
<1>3. /\ Parent(p) \in Path /\ Len(Parent(p)) = Len(p) - 1
      /\ \A i \in 1 .. Len(p) - 1 : Parent(p)[i] = p[i]
  BY <1>2, ParentShape
<1>4. Parent(p) = old \/ Under(Parent(p), old)
  BY <1>2, UnderParent
<1>5. /\ r \in Path
      /\ Len(r) = Len(new) + Len(p) - Len(old)
      /\ \A i \in 1..Len(new) : r[i] = new[i]
      /\ \A i \in 1..Len(p) - Len(old) : r[Len(new) + i] = p[Len(old) + i]
  BY RebaseShape
<1>6. /\ s \in Path
      /\ Len(s) = Len(new) + Len(Parent(p)) - Len(old)
      /\ \A i \in 1..Len(new) : s[i] = new[i]
      /\ \A i \in 1..Len(Parent(p)) - Len(old) : s[Len(new) + i] = Parent(p)[Len(old) + i]
  BY <1>3, <1>4, RebaseShape
<1> HIDE DEF r, s
<1>7. r # Root
  BY <1>1, <1>5, RootIsPath
<1>8. /\ Parent(r) \in Path /\ Len(Parent(r)) = Len(r) - 1
      /\ \A i \in 1 .. Len(r) - 1 : Parent(r)[i] = r[i]
  BY <1>5, <1>7, ParentShape
<1>9. Len(Parent(r)) = Len(s)
  BY <1>1, <1>3, <1>5, <1>6, <1>8
<1>10. ASSUME NEW i \in 1..Len(Parent(r)) PROVE Parent(r)[i] = s[i]
  <2>1. CASE i <= Len(new)
    BY <1>1, <1>5, <1>6, <1>8, <2>1
  <2>2. CASE i > Len(new)
    <3>1. /\ i - Len(new) \in 1..Len(p) - Len(old)
          /\ i - Len(new) \in 1..Len(Parent(p)) - Len(old)
          /\ Len(old) + (i - Len(new)) \in 1 .. Len(p) - 1
          /\ Len(new) + (i - Len(new)) = i
      BY <1>1, <1>3, <1>5, <1>8, <2>2
    <3>2. Parent(r)[i] = r[i]
      BY <1>8
    <3>3. r[i] = p[Len(old) + (i - Len(new))]
      BY <1>5, <3>1
    <3>4. s[i] = Parent(p)[Len(old) + (i - Len(new))]
      BY <1>6, <3>1
    <3> QED BY <1>3, <3>1, <3>2, <3>3, <3>4
  <2> QED BY <1>1, <1>5, <1>8, <2>1, <2>2
<1>11. Parent(r) = s
  BY <1>6, <1>8, <1>9, <1>10, SeqEqual DEF Path
<1> QED BY <1>7, <1>11 DEF r, s

LEMMA RebaseSelf ==
    ASSUME NEW old \in Path, NEW new \in Path
    PROVE  Rebase(old, old, new) = new
<1>1. /\ Rebase(old, old, new) \in Path
      /\ Len(Rebase(old, old, new)) = Len(new) + Len(old) - Len(old)
      /\ \A i \in 1..Len(new) : Rebase(old, old, new)[i] = new[i]
  BY RebaseShape
<1>2. Len(old) \in Nat /\ Len(new) \in Nat
  BY DEF Path
<1> QED BY <1>1, <1>2, SeqEqual DEF Path

(* The inputs of a bounded instance are paths.                             *)
LEMMA PathsUpToArePaths == \A n \in Nat : PathsUpTo(n) \subseteq Path
<1> SUFFICES ASSUME NEW n \in Nat, NEW p \in PathsUpTo(n) PROVE p \in Path
  OBVIOUS
<1>1. PICK k \in 0..n : p \in [1..k -> Name]
  BY DEF PathsUpTo
<1> QED BY <1>1 DEF Path

LEMMA AppendIsPath ==
    ASSUME NEW p \in Path, NEW n \in Name
    PROVE  /\ Append(p, n) \in Path
           /\ Append(p, n) # Root
           /\ Parent(Append(p, n)) = p
<1> DEFINE a == Append(p, n)
<1>1. /\ a \in Path /\ a # Root /\ Len(a) = Len(p) + 1
      /\ \A i \in 1..Len(p) : a[i] = p[i]
  BY AppendProperties DEF Path, Root
<1> HIDE DEF a
<1>2. /\ Parent(a) \in Path /\ Len(Parent(a)) = Len(a) - 1
      /\ \A i \in 1 .. Len(a) - 1 : Parent(a)[i] = a[i]
  BY <1>1, ParentShape
<1>3. Len(p) \in Nat
  BY DEF Path
<1>4. Parent(a) = p
  BY <1>1, <1>2, <1>3, SeqEqual DEF Path
<1> QED BY <1>1, <1>4 DEF a

-----------------------------------------------------------------------------
LEMMA EmptyTableOK == TableType(EmptyTable) /\ Consistent(EmptyTable)
BY DEF EmptyTable, TableType, Consistent, Known, FirstFD, NoFD, Number

(* GetFD hands out a number above every number in use.                     *)
LEMMA GetFDOK ==
    ASSUME NEW t, TableType(t), Consistent(t), NEW p \in Path
    PROVE  TableType(GetFD(t, p)) /\ Consistent(GetFD(t, p))
<1>1. CASE p \in Known(t)
  BY <1>1 DEF GetFD
<1>2. CASE p \notin Known(t)
  <2> DEFINE fd == t.FDcounter + 1
             A  == [q \in Known(t) \cup {p} |-> IF q = p THEN fd ELSE t.PathMapA[q]]
             B  == [f \in DOMAIN t.PathMapB \cup {fd} |->
                       IF f = fd THEN p ELSE t.PathMapB[f]]
             u  == [PathMapA |-> A, PathMapB |-> B, FDcounter |-> fd]
  <2>1. GetFD(t, p) = u
    BY <1>2 DEF GetFD
  <2>2. /\ fd \in Nat /\ fd > FirstFD /\ fd \in Number
        /\ \A f \in DOMAIN t.PathMapB : f # fd /\ f <= fd
    BY DEF TableType, Consistent, Number, FirstFD, NoFD
  <2> HIDE DEF fd
  <2>3. TableType(u)
    <3>1. /\ DOMAIN A = Known(t) \cup {p}
          /\ A \in [Known(t) \cup {p} -> Number]
      BY <2>2 DEF TableType
    <3>2. /\ DOMAIN B = DOMAIN t.PathMapB \cup {fd}
          /\ B \in [DOMAIN t.PathMapB \cup {fd} -> Path]
      BY <2>2 DEF TableType
    <3>3. Known(t) \cup {p} \subseteq Path /\ DOMAIN t.PathMapB \cup {fd} \subseteq Number
      BY <2>2 DEF TableType
    <3> HIDE DEF A, B
    <3> QED BY <2>2, <3>1, <3>2, <3>3 DEF TableType, Known, FirstFD
  <2>4. Consistent(u)
    <3>1. \A f \in DOMAIN u.PathMapB : f <= u.FDcounter
      BY <2>2
    <3>2. FirstFD + 1 .. u.FDcounter \subseteq DOMAIN u.PathMapB
      BY <2>2 DEF Consistent, TableType, FirstFD, fd
    <3>3. ASSUME NEW q \in Known(u), u.PathMapA[q] # NoFD
          PROVE  /\ u.PathMapA[q] \in DOMAIN u.PathMapB
                 /\ u.PathMapB[u.PathMapA[q]] = q
      BY <2>2, <3>3 DEF Consistent, Known
    <3> QED BY <3>1, <3>2, <3>3 DEF Consistent
  <2> QED BY <2>1, <2>3, <2>4
<1> QED BY <1>1, <1>2

(* The re-rooted paths are paths, and rebase back to where they came from. *)
LEMMA DescendantsOK ==
    ASSUME NEW t, TableType(t), NEW old \in Path, NEW new \in Path, NEW isdir \in BOOLEAN,
           NEW p \in Descendants(t, old, isdir)
    PROVE  /\ p \in Known(t)
           /\ p # old
           /\ Rebase(p, old, new) \in Path
           /\ Rebase(Rebase(p, old, new), new, old) = p
<1>1. p \in Known(t) /\ p \in Path /\ Under(p, old)
  BY DEF Descendants, TableType
<1>2. p # old
  BY <1>1 DEF Under, Path
<1> QED BY <1>1, <1>2, RebaseShape, RebaseInverse

(* ReplacePath moves numbers between paths and keeps the two maps in step. *)
LEMMA ReplacePathOK ==
    ASSUME NEW t, TableType(t), Consistent(t),
           NEW old \in Path, NEW new \in Path, NEW isdir \in BOOLEAN
    PROVE  /\ TableType(ReplacePath(t, old, new, isdir))
           /\ Consistent(ReplacePath(t, old, new, isdir))
<1> DEFINE A     == t.PathMapA
           B     == t.PathMapB
           fd    == IF old \in Known(t) THEN A[old] ELSE NoFD
           moved == Descendants(t, old, isdir)
           dest  == {Rebase(p, old, new) : p \in moved}
           rest  == Known(t) \ (moved \cup {old})
           from(f) == CHOOSE p \in moved : A[p] = f
           A2 == [q \in rest \cup dest \cup {new} |->
                    IF q = new THEN fd
                    ELSE IF q \in dest THEN A[Rebase(q, new, old)] ELSE A[q]]
           B2 == [f \in DOMAIN B \cup {fd} |->
                    IF f = fd THEN new
                    ELSE IF \E p \in moved : A[p] = f THEN Rebase(from(f), old, new)
                    ELSE B[f]]
           u  == [PathMapA |-> A2, PathMapB |-> B2, FDcounter |-> t.FDcounter]
<1>1. ReplacePath(t, old, new, isdir) = u
  BY DEF ReplacePath
<1>2. /\ A \in [Known(t) -> Number] /\ Known(t) \subseteq Path /\ fd \in Number
      /\ B \in [DOMAIN B -> Path] /\ DOMAIN B \subseteq Number
      /\ t.FDcounter \in Nat /\ t.FDcounter >= FirstFD
  BY DEF TableType, Number
<1>3. \A p \in moved : /\ p \in Known(t) /\ p # old
                       /\ Rebase(p, old, new) \in Path
                       /\ Rebase(Rebase(p, old, new), new, old) = p
  BY DescendantsOK
<1>4. \A p \in Known(t) : A[p] # NoFD => A[p] \in DOMAIN B /\ B[A[p]] = p
  BY DEF Consistent
<1>5. fd # NoFD => old \in Known(t) /\ A[old] = fd /\ fd \in DOMAIN B /\ B[fd] = old
  BY <1>4
<1>6. \A f \in DOMAIN B : f <= t.FDcounter
  BY DEF Consistent
<1>7. FirstFD + 1 .. t.FDcounter \subseteq DOMAIN B
  BY DEF Consistent
<1> HIDE DEF A, B, fd, moved
<1>8. \A q \in dest : /\ Rebase(q, new, old) \in moved /\ q \in Path
                      /\ q = Rebase(Rebase(q, new, old), old, new)
  BY <1>3
<1>9. \A f : (\E p \in moved : A[p] = f) => from(f) \in moved /\ A[from(f)] = f
  OBVIOUS
<1>10. TableType(u)
  <2>1. A2 \in [rest \cup dest \cup {new} -> Number]
    BY <1>2, <1>3, <1>8
  <2>2. rest \cup dest \cup {new} \subseteq Path
    BY <1>2, <1>8
  <2>3. B2 \in [DOMAIN B \cup {fd} -> Path]
    BY <1>2, <1>3, <1>9
  <2> HIDE DEF A2, B2, rest, dest
  <2> QED BY <1>2, <2>1, <2>2, <2>3 DEF TableType, Known
<1>11. Consistent(u)
  <2>1. \A f \in DOMAIN u.PathMapB : f <= u.FDcounter
    BY <1>2, <1>5, <1>6 DEF NoFD
  <2>2. FirstFD + 1 .. u.FDcounter \subseteq DOMAIN u.PathMapB
    BY <1>7
  <2>3. ASSUME NEW q \in rest \cup dest \cup {new}, A2[q] # NoFD
        PROVE  A2[q] \in DOMAIN B2 /\ B2[A2[q]] = q
    <3>1. CASE q = new
      BY <3>1
    <3>2. CASE q # new /\ q \in dest
      <4> DEFINE p == Rebase(q, new, old)
      <4>1. p \in moved /\ q = Rebase(p, old, new) /\ A2[q] = A[p]
        BY <1>8, <3>2
      <4> HIDE DEF p
      <4>2. A[p] \in DOMAIN B /\ B[A[p]] = p /\ p # old
        BY <1>3, <1>4, <2>3, <4>1
      <4>3. A[p] # fd
        BY <1>5, <2>3, <4>1, <4>2
      <4>4. from(A[p]) = p
        BY <1>3, <1>4, <1>9, <2>3, <4>1
      <4>5. B2[A[p]] = Rebase(p, old, new)
        BY <4>1, <4>2, <4>3, <4>4
      <4> QED BY <4>1, <4>2, <4>5
    <3>3. CASE q # new /\ q \notin dest
      <4>1. q \in Known(t) /\ q \notin moved /\ q # old /\ A2[q] = A[q]
        BY <3>3
      <4>2. A[q] \in DOMAIN B /\ B[A[q]] = q
        BY <1>4, <2>3, <4>1
      <4>3. A[q] # fd
        BY <1>5, <2>3, <4>1, <4>2
      <4>4. ~ \E p \in moved : A[p] = A[q]
        BY <1>3, <1>4, <2>3, <4>1, <4>2
      <4> QED BY <4>1, <4>2, <4>3, <4>4
    <3> QED BY <3>1, <3>2, <3>3
  <2>4. Known(u) = rest \cup dest \cup {new} /\ u.PathMapA = A2 /\ u.PathMapB = B2
    BY DEF Known
  <2> QED BY <2>1, <2>2, <2>3, <2>4 DEF Consistent
<1> QED BY <1>1, <1>10, <1>11

-----------------------------------------------------------------------------
(* Neither method touches a superseded handle.                             *)
LEMMA GetFDFreezes ==
    ASSUME NEW t, TableType(t), Consistent(t), NEW p \in Path, NEW f \in Superseded(t)
    PROVE  f \in Superseded(GetFD(t, p)) /\ GetFD(t, p).PathMapB[f] = t.PathMapB[f]
<1>1. CASE p \in Known(t)
  BY <1>1 DEF GetFD
<1>2. CASE p \notin Known(t)
  <2>1. f \in DOMAIN t.PathMapB /\ f # NoFD /\ f # t.FDcounter + 1
    BY DEF Superseded, Consistent, TableType, Number, NoFD
  <2>2. t.PathMapB[f] \notin Known(t) \/ t.PathMapA[t.PathMapB[f]] # f
    BY DEF Superseded
  <2> QED BY <1>2, <2>1, <2>2 DEF GetFD, Superseded, Known
<1> QED BY <1>1, <1>2

LEMMA ReplacePathFreezes ==
    ASSUME NEW t, TableType(t), Consistent(t),
           NEW old \in Path, NEW new \in Path, NEW isdir \in BOOLEAN,
           NEW f \in Superseded(t)
    PROVE  /\ f \in Superseded(ReplacePath(t, old, new, isdir))
           /\ ReplacePath(t, old, new, isdir).PathMapB[f] = t.PathMapB[f]
<1> DEFINE A     == t.PathMapA
           B     == t.PathMapB
           u     == ReplacePath(t, old, new, isdir)
           fd    == IF old \in Known(t) THEN A[old] ELSE NoFD
           moved == Descendants(t, old, isdir)
           dest  == {Rebase(p, old, new) : p \in moved}
           rest  == Known(t) \ (moved \cup {old})
<1>1. /\ f \in DOMAIN B /\ f # NoFD
      /\ B[f] \in Known(t) => A[B[f]] # f
  BY DEF Superseded
<1>2. \A p \in Known(t) : A[p] # f
  BY <1>1 DEF Consistent
<1>3. f # fd
  BY <1>1, <1>2
<1>4. \A p \in moved : p \in Known(t) /\ Rebase(Rebase(p, old, new), new, old) = p
  BY DescendantsOK
<1>5. \A q \in dest : Rebase(q, new, old) \in Known(t)
  BY <1>4
<1>6. u.PathMapB[f] = B[f] /\ f \in DOMAIN u.PathMapB
  BY <1>1, <1>2, <1>3, <1>4 DEF ReplacePath
<1>7. \A q \in Known(u) : u.PathMapA[q] # f
  <2>1. /\ Known(u) = rest \cup dest \cup {new}
        /\ \A q \in Known(u) : u.PathMapA[q] =
              IF q = new THEN fd ELSE IF q \in dest THEN A[Rebase(q, new, old)] ELSE A[q]
    BY DEF ReplacePath, Known
  <2> HIDE DEF u, fd, dest, moved, A
  <2> QED BY <1>2, <1>3, <1>5, <2>1
<1> QED BY <1>1, <1>6, <1>7 DEF Superseded
=============================================================================
