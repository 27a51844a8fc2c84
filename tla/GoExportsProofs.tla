-------------------------- MODULE GoExportsProofs --------------------------
(***************************************************************************)
(* What the backend and the exported functions keep, for all trees, tables *)
(* and handles: the tree hangs together, the two maps of the table stay in *)
(* step, and a handle that has been given out follows its object.          *)
(***************************************************************************)
EXTENDS GoExports, FdTableProofs, FiniteSetTheorems

-----------------------------------------------------------------------------
(* Trees.                                                                  *)

(* Whatever lies below p hangs on a chain of directories that starts in p. *)
LEMMA NoOrphans ==
    ASSUME NEW f, TreeType(f), NEW p \in Path, NEW q \in DOMAIN f.node, Under(q, p)
    PROVE  IsDir(f, p) /\ Children(f, p) # {}
<1> DEFINE below == {r \in DOMAIN f.node : Under(r, p)}
           S == {Len(r) : r \in below}
<1>1. \A r \in below : r \in Path /\ Len(r) \in Nat /\ r # Root
  BY RootIsPath DEF TreeType, Under, Path
<1>2. PICK n \in S : \A m \in S : n <= m
  <2>1. S \in SUBSET Nat /\ S # {}
    BY <1>1
  <2> HIDE DEF S
  <2> QED BY <2>1, LeastElement
<1>3. PICK r \in below : n = Len(r)
  BY <1>2
<1>4. /\ IsDir(f, Parent(r)) /\ Parent(r) \in DOMAIN f.node
      /\ Parent(r) \in Path /\ Len(Parent(r)) = Len(r) - 1
  BY <1>1, <1>3, ParentShape DEF TreeType, IsDir, Exists
<1>5. ~Under(Parent(r), p)
  <2>1. ASSUME Under(Parent(r), p) PROVE FALSE
    <3>1. Len(Parent(r)) \in S
      BY <1>4, <2>1
    <3>2. Len(r) <= Len(r) - 1
      BY <1>2, <1>3, <1>4, <3>1
    <3> QED BY <1>1, <1>3, <3>2
  <2> QED BY <2>1
<1>6. Parent(r) = p
  BY <1>1, <1>3, <1>5, UnderParent
<1> QED BY <1>1, <1>3, <1>4, <1>6 DEF Children

(* What a well-typed tree gives at one path.                               *)
LEMMA TreeAt ==
    ASSUME NEW f, TreeType(f), NEW p \in DOMAIN f.node
    PROVE  /\ p \in Path
           /\ f.node[p] \in Object
           /\ f.node[p].id \in Nat /\ f.node[p].id # 0 /\ f.node[p].id <= f.born
           /\ IsDir(f, Parent(p)) /\ Parent(p) \in DOMAIN f.node
           /\ f.born \in Nat
BY DEF TreeType, Object, IsDir, Exists

LEMMA BornOK ==
    ASSUME NEW f, TreeType(f), NEW p \in Path, ~Exists(f, p), IsDir(f, Parent(p)),
           NEW kind \in {"REG", "DIR"}, NEW mtime \in Times
    PROVE  /\ TreeType(Born(f, p, kind, mtime))
           /\ Born(f, p, kind, mtime).born = f.born + 1
           /\ DOMAIN Born(f, p, kind, mtime).node = DOMAIN f.node \cup {p}
           /\ Born(f, p, kind, mtime).node[p].id = f.born + 1
           /\ \A q \in DOMAIN f.node : Born(f, p, kind, mtime).node[q] = f.node[q]
<1> DEFINE o == [id |-> f.born + 1, kind |-> kind, mode |-> DefaultMode,
                 size |-> 0, mtime |-> mtime]
           node == [q \in DOMAIN f.node \cup {p} |-> IF q = p THEN o ELSE f.node[q]]
           f2 == [node |-> node, born |-> f.born + 1]
<1>1. Born(f, p, kind, mtime) = f2
  BY DEF Born
<1>2. o \in Object /\ o.id = f.born + 1 /\ f.born \in Nat
  BY MinFSAssumption DEF TreeType, Object
<1>3. p \notin DOMAIN f.node
  BY DEF Exists
<1> HIDE DEF o
<1>4. /\ DOMAIN node = DOMAIN f.node \cup {p}
      /\ node[p] = o
      /\ \A q \in DOMAIN f.node : node[q] = f.node[q]
      /\ node \in [DOMAIN node -> Object]
  BY <1>2, <1>3 DEF TreeType
<1> HIDE DEF node
<1>5. IsFiniteSet(DOMAIN node)
  BY <1>4, FS_AddElement DEF TreeType
<1>6. ASSUME NEW q \in DOMAIN node
      PROVE  node[q].id <= f.born + 1 /\ IsDir(f2, Parent(q))
  <2>1. CASE q = p
    <3>1. Parent(p) \in DOMAIN f.node /\ f.node[Parent(p)].kind = "DIR"
      BY DEF IsDir, Exists
    <3> QED BY <1>2, <1>4, <2>1, <3>1 DEF IsDir, Exists
  <2>2. CASE q \in DOMAIN f.node
    <3>1. /\ f.node[q].id \in Nat /\ f.node[q].id <= f.born
          /\ Parent(q) \in DOMAIN f.node /\ f.node[Parent(q)].kind = "DIR"
      BY <2>2, TreeAt DEF IsDir
    <3> QED BY <1>2, <1>4, <2>2, <3>1 DEF IsDir, Exists
  <2> QED BY <1>4, <2>1, <2>2
<1>7. ASSUME NEW q \in DOMAIN node, NEW r \in DOMAIN node, node[q].id = node[r].id
      PROVE  q = r
  <2>1. \A x \in DOMAIN f.node : node[x].id \in Nat /\ node[x].id <= f.born
    BY <1>4, TreeAt
  <2>2. node[p].id = f.born + 1
    BY <1>2, <1>4
  <2>3. CASE q = p \/ r = p
    BY <1>2, <1>4, <1>7, <2>1, <2>2, <2>3
  <2>4. CASE q # p /\ r # p
    BY <1>4, <1>7, <2>4 DEF TreeType
  <2> QED BY <2>3, <2>4
<1>8. TreeType(f2)
  <2>1. f2.node = node /\ f2.born = f.born + 1
    OBVIOUS
  <2>2. DOMAIN node \subseteq Path /\ Root \in DOMAIN node
    BY <1>4 DEF TreeType
  <2> QED BY <1>2, <1>4, <1>5, <1>6, <1>7, <2>1, <2>2 DEF TreeType
<1> QED BY <1>1, <1>2, <1>4, <1>8

LEMMA WithoutOK ==
    ASSUME NEW f, TreeType(f), NEW p \in DOMAIN f.node, p # Root, Children(f, p) = {}
    PROVE  /\ TreeType(Without(f, p))
           /\ Without(f, p).born = f.born
           /\ DOMAIN Without(f, p).node = DOMAIN f.node \ {p}
           /\ \A q \in DOMAIN f.node \ {p} : Without(f, p).node[q] = f.node[q]
<1> DEFINE node == [q \in DOMAIN f.node \ {p} |-> f.node[q]]
           f2 == [node |-> node, born |-> f.born]
<1>1. Without(f, p) = f2
  BY DEF Without, TreeType
<1>2. /\ DOMAIN node = DOMAIN f.node \ {p}
      /\ \A q \in DOMAIN node : node[q] = f.node[q]
      /\ node \in [DOMAIN node -> Object]
  BY DEF TreeType
<1> HIDE DEF node
<1>3. IsFiniteSet(DOMAIN node)
  BY <1>2, FS_RemoveElement DEF TreeType
<1>4. ASSUME NEW q \in DOMAIN node
      PROVE  node[q].id <= f.born /\ IsDir(f2, Parent(q))
  <2>1. /\ f.node[q].id <= f.born
        /\ Parent(q) \in DOMAIN f.node /\ f.node[Parent(q)].kind = "DIR"
    BY <1>2, TreeAt DEF IsDir
  <2>2. Parent(q) # p
    BY <1>2, ParentOfRoot DEF Children
  <2> QED BY <1>2, <2>1, <2>2 DEF IsDir, Exists
<1>5. TreeType(f2)
  <2>1. f2.node = node /\ f2.born = f.born
    OBVIOUS
  <2>2. DOMAIN node \subseteq Path /\ Root \in DOMAIN node /\ f.born \in Nat
    BY <1>2 DEF TreeType
  <2>3. \A q, r \in DOMAIN node : node[q].id = node[r].id => q = r
    BY <1>2 DEF TreeType
  <2> QED BY <1>2, <1>3, <1>4, <2>1, <2>2, <2>3 DEF TreeType
<1> QED BY <1>1, <1>2, <1>5

(* The object at p gets other attributes.                                  *)
LEMMA AlteredOK ==
    ASSUME NEW f, TreeType(f), NEW p \in DOMAIN f.node, NEW o \in Object,
           o.id = f.node[p].id, o.kind = f.node[p].kind
    PROVE  /\ TreeType([f EXCEPT !.node[p] = o])
           /\ [f EXCEPT !.node[p] = o].born = f.born
           /\ DOMAIN [f EXCEPT !.node[p] = o].node = DOMAIN f.node
           /\ \A q \in DOMAIN f.node :
                 /\ [f EXCEPT !.node[p] = o].node[q].id = f.node[q].id
                 /\ q # p => [f EXCEPT !.node[p] = o].node[q] = f.node[q]
           /\ [f EXCEPT !.node[p] = o].node[p] = o
<1> DEFINE node == [f.node EXCEPT ![p] = o]
           f2 == [node |-> node, born |-> f.born]
<1>1. [f EXCEPT !.node[p] = o] = f2
  BY DEF TreeType
<1>2. /\ DOMAIN node = DOMAIN f.node
      /\ node[p] = o
      /\ \A q \in DOMAIN node : q # p => node[q] = f.node[q]
      /\ node \in [DOMAIN node -> Object]
      /\ \A q \in DOMAIN node : node[q].id = f.node[q].id /\ node[q].kind = f.node[q].kind
  BY DEF TreeType
<1> HIDE DEF node
<1>3. \A q \in DOMAIN node : IsDir(f2, Parent(q))
  BY <1>2, TreeAt DEF IsDir, Exists
<1>4. TreeType(f2)
  <2>1. f2.node = node /\ f2.born = f.born
    OBVIOUS
  <2> QED BY <1>2, <1>3, <2>1 DEF TreeType
<1> QED BY <1>1, <1>2, <1>4

(* The moves that Move lets through.                                       *)
MoveAllowed(f, old, new) ==
    /\ Exists(f, old) /\ old # new /\ old # Root /\ new # Root /\ ~Under(new, old)
    /\ IsDir(f, Parent(new)) /\ Children(f, new) = {}

(* Where the object at p of the moved tree was before.                     *)
Whence(f, old, new, p) ==
    IF \E q \in DOMAIN f.node : (q = old \/ Under(q, old)) /\ p = Rebase(q, old, new)
    THEN Rebase(p, new, old) ELSE p

(* A move takes the object at old and all below it to new, puts nothing    *)
(* where something else stays, and takes away at most what was at new.     *)
LEMMA MovedShape ==
    ASSUME NEW f, TreeType(f), NEW old \in Path, NEW new \in Path, MoveAllowed(f, old, new)
    PROVE  /\ Moved(f, old, new) = [node |-> Moved(f, old, new).node, born |-> f.born]
           /\ DOMAIN Moved(f, old, new).node \subseteq Path
           /\ IsFiniteSet(DOMAIN Moved(f, old, new).node)
           /\ \A p \in DOMAIN Moved(f, old, new).node :
                 LET w == Whence(f, old, new, p)
                 IN /\ w \in DOMAIN f.node /\ w # new
                    /\ Moved(f, old, new).node[p] = f.node[w]
                    /\ w = old \/ Under(w, old) => p = Rebase(w, old, new)
                    /\ ~(w = old \/ Under(w, old)) => p = w /\ p # new /\ ~Under(p, new)
           /\ \A q \in DOMAIN f.node \ {new} :
                 LET p == IF q = old \/ Under(q, old) THEN Rebase(q, old, new) ELSE q
                 IN p \in DOMAIN Moved(f, old, new).node /\ Whence(f, old, new, p) = q
<1> DEFINE inside == {q \in DOMAIN f.node : q = old \/ Under(q, old)}
           dest   == {Rebase(q, old, new) : q \in inside}
           dom    == ((DOMAIN f.node) \ (inside \cup {new})) \cup dest
           node   == [q \in dom |-> IF q \in dest THEN f.node[Rebase(q, new, old)] ELSE f.node[q]]
<1>1. Moved(f, old, new) = [node |-> node, born |-> f.born]
  BY DEF Moved, TreeType
<1>2. \A q \in DOMAIN f.node : q \in Path
  BY DEF TreeType
<1>3. \A q \in inside : /\ q \in DOMAIN f.node /\ q \in Path /\ q # new
                        /\ Rebase(q, old, new) \in Path
                        /\ Rebase(Rebase(q, old, new), new, old) = q
                        /\ Rebase(q, old, new) = new \/ Under(Rebase(q, old, new), new)
  <2> TAKE q \in inside
  <2>1. q \in Path /\ q # new
    BY <1>2 DEF MoveAllowed
  <2>2. CASE q = old
    BY <2>1, <2>2, RebaseShape, RebaseInverse, RebaseSelf
  <2>3. CASE Under(q, old)
    BY <2>1, <2>3, RebaseShape, RebaseInverse, RebaseUnder
  <2> QED BY <2>1, <2>2, <2>3
<1>4. \A p \in dest : /\ Rebase(p, new, old) \in inside
                      /\ p = Rebase(Rebase(p, new, old), old, new)
                      /\ p = new \/ Under(p, new)
  BY <1>3
<1>5. \A q \in DOMAIN f.node : ~Under(q, new)
  BY NoOrphans DEF MoveAllowed
<1>6. \A p : p \in dest <=>
         \E q \in DOMAIN f.node : (q = old \/ Under(q, old)) /\ p = Rebase(q, old, new)
  OBVIOUS
<1>7. \A p : Whence(f, old, new, p) = IF p \in dest THEN Rebase(p, new, old) ELSE p
  BY <1>6 DEF Whence
<1>8. IsFiniteSet(dom)
  <2>1. IsFiniteSet(inside) /\ IsFiniteSet((DOMAIN f.node) \ (inside \cup {new}))
    BY FS_Subset DEF TreeType
  <2>2. IsFiniteSet(dest)
    <3> DEFINE image == [q \in inside |-> Rebase(q, old, new)]
    <3>1. image \in Surjection(inside, dest)
      BY DEF Surjection
    <3> QED BY <2>1, <3>1, FS_Surjection
  <2> HIDE DEF dest
  <2> QED BY <2>1, <2>2, FS_Union
<1> HIDE DEF dest, inside
<1>9. ASSUME NEW p \in dom
      PROVE  LET w == Whence(f, old, new, p)
             IN /\ p \in Path
                /\ w \in DOMAIN f.node /\ w # new
                /\ node[p] = f.node[w]
                /\ w = old \/ Under(w, old) => p = Rebase(w, old, new)
                /\ ~(w = old \/ Under(w, old)) => p = w /\ p # new /\ ~Under(p, new)
  <2>1. CASE p \in dest
    <3>1. /\ Rebase(p, new, old) \in inside
          /\ Rebase(p, new, old) = old \/ Under(Rebase(p, new, old), old)
      BY <1>4, <2>1 DEF inside
    <3> QED BY <1>3, <1>4, <1>7, <2>1, <3>1
  <2>2. CASE p \notin dest
    <3>1. p \in DOMAIN f.node /\ p # new /\ ~(p = old \/ Under(p, old))
      BY <2>2 DEF inside
    <3> QED BY <1>2, <1>5, <1>7, <2>2, <3>1
  <2> QED BY <2>1, <2>2
<1>10. ASSUME NEW q \in DOMAIN f.node \ {new}
       PROVE  LET p == IF q = old \/ Under(q, old) THEN Rebase(q, old, new) ELSE q
              IN p \in dom /\ Whence(f, old, new, p) = q
  <2>1. CASE q = old \/ Under(q, old)
    <3>1. q \in inside /\ Rebase(q, old, new) \in dest
      BY <2>1 DEF inside, dest
    <3> QED BY <1>3, <1>7, <2>1, <3>1
  <2>2. CASE ~(q = old \/ Under(q, old))
    <3>1. q \notin inside /\ q \notin dest
      BY <1>4, <1>5, <2>2 DEF inside
    <3> QED BY <1>7, <2>2, <3>1
  <2> QED BY <2>1, <2>2
<1> HIDE DEF dom
<1>11. DOMAIN node = dom
  OBVIOUS
<1> HIDE DEF node
<1> QED BY <1>1, <1>8, <1>9, <1>10, <1>11

LEMMA MovedOK ==
    ASSUME NEW f, TreeType(f), NEW old \in Path, NEW new \in Path, MoveAllowed(f, old, new)
    PROVE  TreeType(Moved(f, old, new))
<1> DEFINE f2 == Moved(f, old, new)
           W(p) == Whence(f, old, new, p)
           In(q) == q = old \/ Under(q, old)
<1>1. /\ f2 = [node |-> f2.node, born |-> f.born]
      /\ DOMAIN f2.node \subseteq Path
      /\ IsFiniteSet(DOMAIN f2.node)
      /\ \A p \in DOMAIN f2.node :
            /\ W(p) \in DOMAIN f.node /\ W(p) # new
            /\ f2.node[p] = f.node[W(p)]
            /\ In(W(p)) => p = Rebase(W(p), old, new)
            /\ ~In(W(p)) => p = W(p) /\ p # new /\ ~Under(p, new)
      /\ \A q \in DOMAIN f.node \ {new} :
            LET p == IF In(q) THEN Rebase(q, old, new) ELSE q
            IN p \in DOMAIN f2.node /\ W(p) = q
  BY MovedShape
<1>2. f2.node \in [DOMAIN f2.node -> Object] /\ f2.born = f.born /\ f.born \in Nat
  <2>1. \A q \in DOMAIN f.node : f.node[q] \in Object
    BY TreeAt
  <2>2. f2.node = [p \in DOMAIN f2.node |-> f2.node[p]]
    BY DEF Moved, TreeType
  <2> HIDE DEF f2, W, In
  <2> QED BY <1>1, <2>1, <2>2 DEF TreeType
<1> HIDE DEF f2, W
<1>3. Root \in DOMAIN f2.node
  <2>1. Root \in DOMAIN f.node \ {new} /\ ~In(Root)
    BY RootIsPath DEF MoveAllowed, TreeType, Under, Path
  <2> QED BY <1>1, <2>1
<1>4. \A p, q \in DOMAIN f2.node : f2.node[p].id = f2.node[q].id => p = q
  <2> SUFFICES ASSUME NEW p \in DOMAIN f2.node, NEW q \in DOMAIN f2.node,
                      f2.node[p].id = f2.node[q].id
               PROVE  p = q
    OBVIOUS
  <2>1. W(p) = W(q)
    BY <1>1 DEF TreeType
  <2> HIDE DEF In
  <2> QED BY <1>1, <2>1
(* The directory of what has moved has moved with it; that of the rest,    *)
(* and that of new itself, have stayed.                                    *)
<1>5. ASSUME NEW d \in DOMAIN f.node, d # new, ~In(d), IsDir(f, d)
      PROVE  IsDir(f2, d)
  BY <1>1, <1>5 DEF IsDir, Exists
<1>6. ASSUME NEW p \in DOMAIN f2.node PROVE IsDir(f2, Parent(p))
  <2> DEFINE w == W(p)
  <2>1. w \in DOMAIN f.node /\ w \in Path /\ p \in Path /\ w # new
    BY <1>1, TreeAt
  <2>2. Parent(w) \in DOMAIN f.node /\ IsDir(f, Parent(w)) /\ Parent(w) \in Path
    BY <2>1, TreeAt
  <2>3. CASE w = old
    <3>1. p = new
      BY <1>1, <2>3, RebaseSelf
    <3>2. Parent(new) \in DOMAIN f.node /\ IsDir(f, Parent(new)) /\ Parent(new) # new
      BY ParentShape, RootIsPath DEF MoveAllowed, IsDir, Exists, Path
    <3>3. ~In(Parent(new))
      BY UnderParent DEF MoveAllowed
    <3> QED BY <1>5, <3>1, <3>2, <3>3
  <2>4. CASE Under(w, old)
    <3>1. /\ p = Rebase(w, old, new) /\ w # Root
          /\ Parent(p) = Rebase(Parent(w), old, new)
      BY <1>1, <2>1, <2>4, RebaseParent, RootIsPath DEF Under, Path
    <3>2. In(Parent(w)) /\ Parent(w) # new
      BY <2>1, <2>2, <2>4, <3>1, UnderParent DEF MoveAllowed
    <3>3. Parent(p) \in DOMAIN f2.node /\ W(Parent(p)) = Parent(w)
      BY <1>1, <2>2, <3>1, <3>2
    <3> QED BY <1>1, <2>2, <3>3 DEF IsDir, Exists
  <2>5. CASE ~In(w)
    <3>1. p = w
      BY <1>1, <2>5
    <3>2. Parent(p) # new
      BY <2>1, <3>1, ParentOfRoot DEF Children, MoveAllowed
    <3>3. ~In(Parent(p))
      <4>1. CASE p = Root
        BY <2>5, <3>1, <4>1, ParentOfRoot
      <4>2. CASE p # Root
        BY <2>1, <2>5, <3>1, <4>2, UnderParent
      <4> QED BY <4>1, <4>2
    <3> QED BY <1>5, <2>2, <3>1, <3>2, <3>3
  <2> QED BY <2>3, <2>4, <2>5
<1>7. \A p \in DOMAIN f2.node : f2.node[p].id <= f.born
  BY <1>1, TreeAt
<1> HIDE DEF In
<1>8. TreeType(f2)
  BY <1>1, <1>2, <1>3, <1>4, <1>6, <1>7 DEF TreeType
<1> QED BY <1>8 DEF f2

-----------------------------------------------------------------------------
(* The table.                                                              *)

LEMMA RebaseSame ==
    ASSUME NEW p \in Path, NEW q \in Path, p = q \/ Under(p, q)
    PROVE  Rebase(p, q, q) = p
<1>1. CASE p = q
  BY <1>1, RebaseSelf
<1>2. CASE Under(p, q)
  <2> DEFINE r == Rebase(p, q, q)
  <2>1. /\ r \in Path
        /\ Len(r) = Len(q) + Len(p) - Len(q)
        /\ \A i \in 1..Len(q) : r[i] = q[i]
        /\ \A i \in 1..Len(p) - Len(q) : r[Len(q) + i] = p[Len(q) + i]
    BY RebaseShape
  <2>2. Len(p) \in Nat /\ Len(q) \in Nat /\ Len(q) < Len(p)
    BY <1>2 DEF Path, Under
  <2>3. \A i \in 1..Len(q) : p[i] = q[i]
    BY <1>2, UnderPointwise
  <2> HIDE DEF r
  <2>4. ASSUME NEW i \in 1..Len(r) PROVE r[i] = p[i]
    <3>1. CASE i <= Len(q)
      BY <2>1, <2>2, <2>3, <3>1
    <3>2. CASE i > Len(q)
      <4>1. i - Len(q) \in 1..Len(p) - Len(q) /\ Len(q) + (i - Len(q)) = i
        BY <2>1, <2>2, <3>2
      <4> QED BY <2>1, <4>1
    <3> QED BY <2>1, <2>2, <3>1, <3>2
  <2>5. r = p
    BY <2>1, <2>2, <2>4, SeqEqual DEF Path
  <2> QED BY <2>5 DEF r
<1> QED BY <1>1, <1>2

(* Who has which number after GetFD, ...                                   *)
LEMMA GetFDNumbers ==
    ASSUME NEW t, TableType(t), NEW p \in Path
    PROVE  /\ \A q \in Known(t) : /\ q \in Known(GetFD(t, p))
                                  /\ GetFD(t, p).PathMapA[q] = t.PathMapA[q]
           /\ p \in Known(GetFD(t, p))
<1>1. CASE p \in Known(t)
  BY <1>1 DEF GetFD
<1>2. CASE p \notin Known(t)
  BY <1>2 DEF GetFD, Known
<1> QED BY <1>1, <1>2

(* ... after the numbers of a READDIR page are given out, ...              *)
LEMMA EnterOK ==
    ASSUME NEW t, TableType(t), Consistent(t),
           NEW page \in SUBSET Path, IsFiniteSet(page), NEW num \in Numberings(t, page)
    PROVE  /\ TableType(Enter(t, num))
           /\ Consistent(Enter(t, num))
           /\ \A q \in Known(t) : /\ q \in Known(Enter(t, num))
                                  /\ Enter(t, num).PathMapA[q] = t.PathMapA[q]
<1> DEFINE fresh   == page \ Known(t)
           n       == Cardinality(fresh)
           next    == t.FDcounter + 1 .. t.FDcounter + n
           entered == {num[p] : p \in DOMAIN num}
           place(f) == CHOOSE p \in DOMAIN num : num[p] = f
           A == [p \in Known(t) \cup DOMAIN num |->
                    IF p \in DOMAIN num THEN num[p] ELSE t.PathMapA[p]]
           B == [f \in DOMAIN t.PathMapB \cup entered |->
                    IF f \in entered THEN place(f) ELSE t.PathMapB[f]]
           u == [PathMapA |-> A, PathMapB |-> B, FDcounter |-> t.FDcounter + n]
<1>1. num \in [fresh -> next] /\ \A p, q \in fresh : num[p] = num[q] => p = q
  BY DEF Numberings
<1>2. DOMAIN num = fresh /\ fresh \cap Known(t) = {} /\ fresh \subseteq Path
  BY <1>1
<1>3. Enter(t, num) = u
  BY <1>2 DEF Enter
<1>4. t.FDcounter \in Nat /\ n \in Nat /\ IsFiniteSet(fresh)
  BY FS_Subset, FS_CardinalityType DEF TableType
<1>5. entered = next
  <2>1. IsFiniteSet(next) /\ Cardinality(next) = n
    <3> DEFINE lo == t.FDcounter + 1
               hi == t.FDcounter + n
    <3> HIDE DEF n
    <3>1. lo \in Int /\ hi \in Int
      BY <1>4
    <3> HIDE DEF lo, hi
    <3>2. IsFiniteSet(lo..hi) /\ Cardinality(lo..hi) = IF lo > hi THEN 0 ELSE hi - lo + 1
      BY <3>1, FS_Interval
    <3>3. next = lo..hi
      BY DEF lo, hi
    <3> HIDE DEF next
    <3>4. Cardinality(next) = IF lo > hi THEN 0 ELSE hi - lo + 1
      BY <3>2, <3>3
    <3>5. n = IF lo > hi THEN 0 ELSE hi - lo + 1
      BY <1>4 DEF lo, hi
    <3> QED BY <3>2, <3>3, <3>4, <3>5
  <2>2. num \in Injection(fresh, next)
    BY <1>1 DEF Injection, IsInjective
  <2>3. num \in Surjection(fresh, next)
    BY <2>1, <2>2, FS_Injection
  <2> QED BY <1>1, <1>2, <2>3 DEF Surjection
<1>6. \A f \in next : f \in Number /\ f # NoFD /\ f > t.FDcounter /\ f <= t.FDcounter + n
  BY <1>4 DEF TableType, Number, FirstFD, NoFD
<1>7. \A f \in entered : place(f) \in DOMAIN num /\ num[place(f)] = f
  OBVIOUS
<1>8. \A p \in fresh : num[p] \in next /\ num[p] \in entered /\ place(num[p]) = p
  BY <1>1, <1>2, <1>7
<1> HIDE DEF n, next, entered, place, fresh
<1>9. /\ DOMAIN A = Known(t) \cup fresh
      /\ \A p \in fresh : A[p] = num[p]
      /\ \A p \in Known(t) : A[p] = t.PathMapA[p]
  BY <1>2
<1>10. /\ DOMAIN B = DOMAIN t.PathMapB \cup next
       /\ \A f \in next : B[f] = place(f)
       /\ \A f \in DOMAIN t.PathMapB : f \notin next => B[f] = t.PathMapB[f]
  BY <1>5
<1>11. \A f \in DOMAIN t.PathMapB : f \in Nat /\ f <= t.FDcounter /\ f \notin next
  BY <1>4, <1>6 DEF Consistent, TableType, Number, NoFD
<1>12. TableType(u)
  <2>1. A \in [Known(t) \cup fresh -> Number]
    BY <1>2, <1>6, <1>8 DEF TableType
  <2>2. B \in [DOMAIN t.PathMapB \cup next -> Path]
    BY <1>2, <1>5, <1>7 DEF TableType
  <2>3. Known(t) \cup fresh \subseteq Path /\ DOMAIN t.PathMapB \cup next \subseteq Number
    BY <1>2, <1>6 DEF TableType
  <2>4. t.FDcounter + n \in Nat /\ t.FDcounter + n >= FirstFD
    BY <1>4 DEF TableType, FirstFD
  <2> HIDE DEF A, B
  <2> QED BY <2>1, <2>2, <2>3, <2>4 DEF TableType, Known
<1> HIDE DEF A, B
<1>13. Consistent(u)
  <2>1. \A f \in DOMAIN B : f <= t.FDcounter + n
    BY <1>4, <1>6, <1>10, <1>11
  <2>2. FirstFD + 1 .. t.FDcounter + n \subseteq DOMAIN B
    <3>1. FirstFD + 1 .. t.FDcounter \subseteq DOMAIN t.PathMapB
      BY DEF Consistent
    <3>2. \A f \in FirstFD + 1 .. t.FDcounter + n :
             f \in FirstFD + 1 .. t.FDcounter \/ f \in t.FDcounter + 1 .. t.FDcounter + n
      BY <1>4 DEF FirstFD
    <3> QED BY <1>10, <3>1, <3>2 DEF next
  <2>3. ASSUME NEW p \in Known(t) \cup fresh, A[p] # NoFD
        PROVE  A[p] \in DOMAIN B /\ B[A[p]] = p
    <3>1. CASE p \in fresh
      BY <1>8, <1>9, <1>10, <3>1
    <3>2. CASE p \in Known(t)
      BY <1>9, <1>10, <1>11, <2>3, <3>2 DEF Consistent
    <3> QED BY <2>3, <3>1, <3>2
  <2> QED BY <1>9, <2>1, <2>2, <2>3 DEF Consistent, Known
<1> QED BY <1>3, <1>9, <1>12, <1>13 DEF Known

(* ... and after a rename: the old path's number is at the new one, those  *)
(* below have moved along, and those that are in nobody's way have stayed. *)
LEMMA ReplacePathNumbers ==
    ASSUME NEW t, TableType(t), NEW old \in Path, NEW new \in Path, NEW isdir \in BOOLEAN
    PROVE  LET u == ReplacePath(t, old, new, isdir)
           IN /\ old \in Known(t) => new \in Known(u) /\ u.PathMapA[new] = t.PathMapA[old]
              /\ \A p \in Known(t) :
                    isdir /\ Under(p, old) =>
                       /\ Rebase(p, old, new) \in Known(u)
                       /\ u.PathMapA[Rebase(p, old, new)] = t.PathMapA[p]
              /\ \A p \in Known(t) :
                    /\ p # old /\ ~(isdir /\ Under(p, old))
                    /\ p # new /\ ~(isdir /\ Under(p, new))
                    => p \in Known(u) /\ u.PathMapA[p] = t.PathMapA[p]
<1> DEFINE A     == t.PathMapA
           u     == ReplacePath(t, old, new, isdir)
           fd    == IF old \in Known(t) THEN A[old] ELSE NoFD
           moved == Descendants(t, old, isdir)
           dest  == {Rebase(p, old, new) : p \in moved}
           rest  == Known(t) \ (moved \cup {old})
<1>1. /\ Known(u) = rest \cup dest \cup {new}
      /\ \A q \in Known(u) : u.PathMapA[q] =
            IF q = new THEN fd ELSE IF q \in dest THEN A[Rebase(q, new, old)] ELSE A[q]
  BY DEF ReplacePath, Known
<1>2. \A p \in moved : /\ p \in Known(t) /\ p \in Path
                       /\ isdir /\ Under(p, old)
                       /\ Rebase(Rebase(p, old, new), new, old) = p
                       /\ Under(Rebase(p, old, new), new)
                       /\ Rebase(p, old, new) # new
  <2> TAKE p \in moved
  <2>1. p \in Known(t) /\ p \in Path /\ isdir /\ Under(p, old)
    BY DEF Descendants, TableType
  <2>2. Under(Rebase(p, old, new), new) /\ Rebase(Rebase(p, old, new), new, old) = p
    BY <2>1, RebaseUnder, RebaseInverse
  <2>3. ~Under(new, new)
    BY DEF Under, Path
  <2> QED BY <2>1, <2>2, <2>3
<1>3. \A p \in Known(t) : p \in moved <=> isdir /\ Under(p, old)
  BY DEF Descendants
<1> HIDE DEF u, moved, A
<1>4. old \in Known(t) => new \in Known(u) /\ u.PathMapA[new] = A[old]
  BY <1>1
<1>5. \A p \in moved : /\ Rebase(p, old, new) \in Known(u)
                       /\ u.PathMapA[Rebase(p, old, new)] = A[p]
  BY <1>1, <1>2
<1>6. ASSUME NEW p \in Known(t), p # old, p \notin moved, p # new,
             ~(isdir /\ Under(p, new))
      PROVE  p \in Known(u) /\ u.PathMapA[p] = A[p]
  BY <1>1, <1>2, <1>6
<1> QED BY <1>3, <1>4, <1>5, <1>6 DEF u, A

-----------------------------------------------------------------------------
(* The backend's calls.                                                    *)

(* From f to f2: the objects that f had are where they were; no object has *)
(* been altered, wherever it is; those outside the paths S are still there.*)
Stays(f, f2) ==
    /\ f.born <= f2.born
    /\ \A p \in DOMAIN f2.node :
          f2.node[p].id <= f.born => p \in DOMAIN f.node /\ f2.node[p].id = f.node[p].id

Unaltered(f, f2) ==
    /\ f.born <= f2.born
    /\ \A p \in DOMAIN f2.node :
          f2.node[p].id <= f.born => \E q \in DOMAIN f.node : f2.node[p] = f.node[q]

Spares(f, f2, S) == \A p \in DOMAIN f.node \ S : f.node[p].id \in Ids(f2)

(* A call that may fail, and leaves the tree alone when it does.           *)
CallOK(f, o) ==
    /\ o = [err |-> o.err, fs |-> o.fs]
    /\ o.err \in GoError
    /\ TreeType(o.fs)
    /\ o.err # "nil" => o.fs = f

LEMMA SameTree ==
    ASSUME NEW f, TreeType(f)
    PROVE  Stays(f, f) /\ Unaltered(f, f) /\ Spares(f, f, {})
BY TreeAt DEF Stays, Unaltered, Spares, Ids, TreeType

LEMMA UnalteredTrans ==
    ASSUME NEW f, TreeType(f), NEW f2, TreeType(f2), NEW f3, TreeType(f3),
           Unaltered(f, f2), Unaltered(f2, f3)
    PROVE  Unaltered(f, f3)
<1>1. f.born \in Nat /\ f2.born \in Nat /\ f3.born \in Nat
  BY DEF TreeType
<1>2. ASSUME NEW p \in DOMAIN f3.node, f3.node[p].id <= f.born
      PROVE  \E q \in DOMAIN f.node : f3.node[p] = f.node[q]
  <2>1. f3.node[p].id \in Nat
    BY TreeAt
  <2>2. PICK x \in DOMAIN f2.node : f3.node[p] = f2.node[x]
    BY <1>1, <1>2, <2>1 DEF Unaltered
  <2> QED BY <1>2, <2>2 DEF Unaltered
<1> QED BY <1>1, <1>2 DEF Unaltered

LEMMA FailOK ==
    ASSUME NEW f, TreeType(f), NEW e \in GoError \ {"nil"}, NEW o, o = Fail(f, e)
    PROVE  CallOK(f, o) /\ o.fs = f /\ o.err # "nil"
BY DEF Fail, CallOK

LEMMA MayFailOK ==
    ASSUME NEW f, TreeType(f), NEW f2, TreeType(f2), NEW o \in MayFail(f, f2)
    PROVE  /\ CallOK(f, o)
           /\ o.err = "nil" => o.fs = f2
BY DEF Fail, Done, MayFail, CallOK, GoError

LEMMA MakeOK ==
    ASSUME NEW f, TreeType(f), NEW p \in Path, NEW kind \in {"REG", "DIR"},
           NEW o \in Make(f, p, kind)
    PROVE  /\ CallOK(f, o)
           /\ Stays(f, o.fs) /\ Unaltered(f, o.fs) /\ Spares(f, o.fs, {})
           /\ o.err = "nil" => Exists(o.fs, p) /\ o.fs.node[p].id > f.born
<1>1. CASE Exists(f, p) \/ ~IsDir(f, Parent(p))
  <2>1. \E e \in {"ErrExist", "ErrNotExist"} : o = Fail(f, e)
    BY <1>1 DEF Make
  <2> QED BY <2>1, FailOK, SameTree DEF GoError
<1>2. CASE ~Exists(f, p) /\ IsDir(f, Parent(p))
  <2>1. PICK mt \in Times : o \in MayFail(f, Born(f, p, kind, mt))
    BY <1>2 DEF Make
  <2> DEFINE f2 == Born(f, p, kind, mt)
  <2>2. /\ TreeType(f2)
        /\ f2.born = f.born + 1
        /\ DOMAIN f2.node = DOMAIN f.node \cup {p}
        /\ f2.node[p].id = f.born + 1
        /\ \A q \in DOMAIN f.node : f2.node[q] = f.node[q]
    BY <1>2, BornOK
  <2> HIDE DEF f2
  <2>3. f.born \in Nat
    BY DEF TreeType
  <2>4. CallOK(f, o) /\ (o.err = "nil" => o.fs = f2)
    BY <2>1, <2>2, MayFailOK DEF f2
  <2>5. o.err # "nil" => o.fs = f
    BY <2>4 DEF CallOK
  <2>6. Stays(f, f2) /\ Unaltered(f, f2) /\ Spares(f, f2, {})
    BY <2>2, <2>3 DEF Stays, Unaltered, Spares, Ids
  <2>7. Exists(f2, p) /\ f2.node[p].id > f.born
    BY <2>2, <2>3 DEF Exists
  <2> QED BY <2>4, <2>5, <2>6, <2>7, SameTree
<1> QED BY <1>1, <1>2

LEMMA RemoveOK ==
    ASSUME NEW f, TreeType(f), NEW p \in Path, NEW o \in Remove(f, p)
    PROVE  /\ CallOK(f, o)
           /\ Stays(f, o.fs) /\ Unaltered(f, o.fs) /\ Spares(f, o.fs, {p})
           /\ o.err = "nil" => Exists(f, p) /\ Children(f, p) = {}
<1>1. CASE ~Exists(f, p) \/ p = Root \/ Children(f, p) # {}
  <2>1. \E e \in {"ErrNotExist", "ErrPermission", "not_empty"} : o = Fail(f, e)
    BY <1>1 DEF Remove
  <2>2. CallOK(f, o) /\ o.fs = f /\ o.err # "nil"
    BY <2>1, FailOK DEF GoError
  <2> QED BY <2>2, SameTree DEF Spares
<1>2. CASE Exists(f, p) /\ p # Root /\ Children(f, p) = {}
  <2> DEFINE f2 == Without(f, p)
  <2>1. /\ TreeType(f2)
        /\ f2.born = f.born
        /\ DOMAIN f2.node = DOMAIN f.node \ {p}
        /\ \A q \in DOMAIN f.node \ {p} : f2.node[q] = f.node[q]
    BY <1>2, WithoutOK DEF Exists
  <2> HIDE DEF f2
  <2>2. CallOK(f, o) /\ (o.err = "nil" => o.fs = f2)
    BY <1>2, <2>1, MayFailOK DEF Remove, f2
  <2>3. o.err # "nil" => o.fs = f
    BY <2>2 DEF CallOK
  <2>4. Stays(f, f2) /\ Unaltered(f, f2) /\ Spares(f, f2, {p})
    BY <2>1 DEF Stays, Unaltered, Spares, Ids, TreeType
  <2>5. Spares(f, f, {p})
    BY SameTree DEF Spares
  <2> QED BY <1>2, <2>2, <2>3, <2>4, <2>5, SameTree
<1> QED BY <1>1, <1>2

(* A value that can be set as the attribute attr.                          *)
ValueOf(attr, v) ==
    \/ attr = "size" /\ v \in Nat
    \/ attr = "mode" /\ v \in Modes
    \/ attr = "mtime" /\ v \in Times

(* A call that alters nothing but the attributes of the object at p.       *)
AltersAt(f, f2, p) ==
    /\ f2.born = f.born
    /\ DOMAIN f2.node = DOMAIN f.node
    /\ \A q \in DOMAIN f.node : /\ f2.node[q].id = f.node[q].id
                                /\ q # p => f2.node[q] = f.node[q]

LEMMA AltersAtOK ==
    ASSUME NEW f, TreeType(f), NEW f2, NEW p, AltersAt(f, f2, p)
    PROVE  Stays(f, f2) /\ Spares(f, f2, {})
BY DEF AltersAt, Stays, Spares, Ids, TreeType

LEMMA SetAttributeOK ==
    ASSUME NEW f, TreeType(f), NEW p \in Path, NEW attr, NEW v, ValueOf(attr, v),
           NEW o \in SetAttribute(f, p, attr, v)
    PROVE  CallOK(f, o) /\ AltersAt(f, o.fs, p)
<1>1. AltersAt(f, f, p)
  BY DEF AltersAt
<1>2. CASE ~Exists(f, p) \/ (attr = "size" /\ IsDir(f, p))
  <2>1. \E e \in {"ErrNotExist", "ErrInvalid"} : o = Fail(f, e)
    BY <1>2 DEF SetAttribute
  <2> QED BY <1>1, <2>1, FailOK DEF GoError
<1>3. CASE Exists(f, p) /\ ~(attr = "size" /\ IsDir(f, p))
  <2> DEFINE ob == f.node[p]
  <2>1. p \in DOMAIN f.node /\ ob \in Object
    BY <1>3, TreeAt DEF Exists
  <2> HIDE DEF ob
  <2>2. PICK o2 : /\ o2 \in Object /\ o2.id = ob.id /\ o2.kind = ob.kind
                  /\ o \in MayFail(f, [f EXCEPT !.node[p] = o2])
    <3>1. CASE attr = "mode"
      <4>1. o \in MayFail(f, [f EXCEPT !.node[p] = [ob EXCEPT !["mode"] = v]])
        BY <1>3, <3>1 DEF SetAttribute, ob
      <4>2. /\ [ob EXCEPT !["mode"] = v] \in Object
            /\ [ob EXCEPT !["mode"] = v].id = ob.id
            /\ [ob EXCEPT !["mode"] = v].kind = ob.kind
        BY <2>1, <3>1 DEF Object, ValueOf
      <4> QED BY <4>1, <4>2
    <3>2. CASE attr = "mtime"
      <4>1. o \in MayFail(f, [f EXCEPT !.node[p] = [ob EXCEPT !["mtime"] = v]])
        BY <1>3, <3>2 DEF SetAttribute, ob
      <4>2. /\ [ob EXCEPT !["mtime"] = v] \in Object
            /\ [ob EXCEPT !["mtime"] = v].id = ob.id
            /\ [ob EXCEPT !["mtime"] = v].kind = ob.kind
        BY <2>1, <3>2 DEF Object, ValueOf
      <4> QED BY <4>1, <4>2
    <3>3. CASE attr = "size"
      <4>1. PICK mt \in Times :
               o \in MayFail(f, [f EXCEPT !.node[p] = [ob EXCEPT !.size = v, !.mtime = mt]])
        BY <1>3, <3>3 DEF SetAttribute, ob
      <4>2. /\ [ob EXCEPT !.size = v, !.mtime = mt] \in Object
            /\ [ob EXCEPT !.size = v, !.mtime = mt].id = ob.id
            /\ [ob EXCEPT !.size = v, !.mtime = mt].kind = ob.kind
        BY <2>1, <3>3 DEF Object, ValueOf
      <4> QED BY <4>1, <4>2
    <3> QED BY <3>1, <3>2, <3>3 DEF ValueOf
  <2> DEFINE f2 == [f EXCEPT !.node[p] = o2]
  <2>3. TreeType(f2) /\ AltersAt(f, f2, p)
    BY <2>1, <2>2, AlteredOK DEF AltersAt, ob
  <2> HIDE DEF f2
  <2>4. CallOK(f, o) /\ (o.err = "nil" => o.fs = f2)
    BY <2>2, <2>3, MayFailOK DEF f2
  <2>5. o.err # "nil" => o.fs = f
    BY <2>4 DEF CallOK
  <2> QED BY <1>1, <2>3, <2>4, <2>5
<1> QED BY <1>2, <1>3

LEMMA WriteFileOK ==
    ASSUME NEW f, TreeType(f), NEW p \in Path, NEW off \in Nat, NEW n \in Nat,
           NEW o \in WriteFile(f, p, off, n)
    PROVE  CallOK(f, o) /\ AltersAt(f, o.fs, p)
<1>1. AltersAt(f, f, p)
  BY DEF AltersAt
<1>2. CASE ~Exists(f, p) \/ IsDir(f, p)
  <2>1. \E e \in {"ErrNotExist", "ErrInvalid"} : o = Fail(f, e)
    BY <1>2 DEF WriteFile
  <2> QED BY <1>1, <2>1, FailOK DEF GoError
<1>3. CASE Exists(f, p) /\ ~IsDir(f, p)
  <2> DEFINE ob == f.node[p]
             len == IF off + n > ob.size THEN off + n ELSE ob.size
  <2>1. p \in DOMAIN f.node /\ ob \in Object
    BY <1>3, TreeAt DEF Exists
  <2>2. PICK mt \in Times :
           o \in MayFail(f, [f EXCEPT !.node[p] = [ob EXCEPT !.size = len, !.mtime = mt]])
    BY <1>3 DEF WriteFile
  <2> DEFINE o2 == [ob EXCEPT !.size = len, !.mtime = mt]
             f2 == [f EXCEPT !.node[p] = o2]
  <2>3. len \in Nat
    BY <2>1 DEF Object
  <2>4. o2 \in Object /\ o2.id = ob.id /\ o2.kind = ob.kind
    <3> HIDE DEF ob, len
    <3> QED BY <2>1, <2>3 DEF Object
  <2> HIDE DEF o2
  <2>5. TreeType(f2) /\ AltersAt(f, f2, p)
    BY <2>1, <2>4, AlteredOK DEF AltersAt
  <2>6. CallOK(f, o) /\ (o.err = "nil" => o.fs = f2)
    <3>1. o \in MayFail(f, f2)
      BY <2>2 DEF o2
    <3> HIDE DEF f2
    <3> QED BY <2>5, <3>1, MayFailOK
  <2> HIDE DEF f2
  <2>7. o.err # "nil" => o.fs = f
    BY <2>6 DEF CallOK
  <2> QED BY <1>1, <2>5, <2>6, <2>7
<1> QED BY <1>2, <1>3

LEMMA ReadFileOK ==
    ASSUME NEW f, TreeType(f), NEW p \in Path, NEW o \in ReadFile(f, p)
    PROVE  CallOK(f, o) /\ o.fs = f
<1>1. CASE ~Exists(f, p) \/ IsDir(f, p)
  <2>1. \E e \in {"ErrNotExist", "ErrInvalid"} : o = Fail(f, e)
    BY <1>1 DEF ReadFile
  <2> QED BY <2>1, FailOK DEF GoError
<1>2. CASE Exists(f, p) /\ ~IsDir(f, p)
  <2>1. CallOK(f, o) /\ (o.err = "nil" => o.fs = f)
    BY <1>2, MayFailOK DEF ReadFile
  <2> QED BY <2>1 DEF CallOK
<1> QED BY <1>1, <1>2

LEMMA MoveOK ==
    ASSUME NEW f, TreeType(f), NEW old \in Path, NEW new \in Path, NEW o \in Move(f, old, new)
    PROVE  /\ CallOK(f, o)
           /\ Unaltered(f, o.fs) /\ Spares(f, o.fs, {new})
           /\ o.err = "nil" => \/ old = new /\ o.fs = f
                               \/ MoveAllowed(f, old, new) /\ o.fs = Moved(f, old, new)
<1>1. Unaltered(f, f) /\ Spares(f, f, {new})
  BY SameTree DEF Spares
<1>2. CASE Exists(f, old) /\ old = new
  <2>1. CallOK(f, o) /\ (o.err = "nil" => o.fs = f)
    BY <1>2, MayFailOK DEF Move
  <2> QED BY <1>1, <1>2, <2>1 DEF CallOK
<1>3. CASE MoveAllowed(f, old, new) /\ (Exists(f, new) => IsDir(f, old) = IsDir(f, new))
  <2> DEFINE f2 == Moved(f, old, new)
  <2>1. TreeType(f2)
    BY <1>3, MovedOK
  <2>2. o \in MayFail(f, f2)
    BY <1>3 DEF Move, MoveAllowed
  <2>3. /\ f2 = [node |-> f2.node, born |-> f.born]
        /\ \A p \in DOMAIN f2.node :
              \E q \in DOMAIN f.node : f2.node[p] = f.node[q]
        /\ \A q \in DOMAIN f.node \ {new} :
              \E p \in DOMAIN f2.node : f2.node[p] = f.node[q]
    <3> DEFINE W(p) == Whence(f, old, new, p)
    <3>1. /\ f2 = [node |-> f2.node, born |-> f.born]
          /\ \A p \in DOMAIN f2.node : W(p) \in DOMAIN f.node /\ f2.node[p] = f.node[W(p)]
          /\ \A q \in DOMAIN f.node \ {new} :
                LET p == IF q = old \/ Under(q, old) THEN Rebase(q, old, new) ELSE q
                IN p \in DOMAIN f2.node /\ W(p) = q
      BY <1>3, MovedShape
    <3> HIDE DEF f2, W
    <3> QED BY <3>1
  <2> HIDE DEF f2
  <2>4. f2.born = f.born /\ f.born \in Nat
    BY <2>3 DEF TreeType
  <2>5. Unaltered(f, f2) /\ Spares(f, f2, {new})
    BY <2>3, <2>4 DEF Unaltered, Spares, Ids
  <2>6. CallOK(f, o) /\ (o.err = "nil" => o.fs = f2)
    BY <2>1, <2>2, MayFailOK
  <2> QED BY <1>1, <1>3, <2>5, <2>6 DEF CallOK, f2
<1>4. CASE /\ ~(Exists(f, old) /\ old = new)
           /\ ~(MoveAllowed(f, old, new) /\ (Exists(f, new) => IsDir(f, old) = IsDir(f, new)))
  <2>1. \E e \in {"ErrNotExist", "ErrInvalid", "ErrExist", "not_empty"} : o = Fail(f, e)
    BY <1>4 DEF Move, MoveAllowed
  <2> QED BY <1>1, <2>1, FailOK DEF GoError
<1> QED BY <1>2, <1>3, <1>4

-----------------------------------------------------------------------------
(* The exported functions.                                                 *)

(* A server state whose tree hangs together and whose table is in step.    *)
ServerOK(s) ==
    /\ s = [fs |-> s.fs, fddb |-> s.fddb]
    /\ TreeType(s.fs)
    /\ TableType(s.fddb)
    /\ Consistent(s.fddb)

(* The handle x, <<number, object>>, follows its object: where the object  *)
(* is, there the number is.                                                *)
Follows(s, x) ==
    /\ x \in Number \X Nat
    /\ x[2] <= s.fs.born
    /\ \A p \in DOMAIN s.fs.node :
          x[1] # NoFD /\ s.fs.node[p].id = x[2] =>
             p \in Known(s.fddb) /\ s.fddb.PathMapA[p] = x[1]

(* From s to s2 nothing of this is lost.                                   *)
Keeps(s, s2) == ServerOK(s2) /\ \A x : Follows(s, x) => Follows(s2, x)

AnyPath == Path \cup {NULL}

LEMMA KeepsItself == ASSUME NEW s, ServerOK(s) PROVE Keeps(s, s)
BY DEF Keeps

LEMMA KeepsTrans ==
    ASSUME NEW s, NEW s2, NEW s3, Keeps(s, s2), Keeps(s2, s3)
    PROVE  Keeps(s, s3)
BY DEF Keeps

LEMMA CleanOK == \A p \in AnyPath : Clean(p) \in Path /\ Clean(Clean(p)) = Clean(p)
BY PathsAssumption, RootIsPath DEF AnyPath, Clean

(* A tree whose objects stay, under the same table.                        *)
LEMMA StaysKeeps ==
    ASSUME NEW s, ServerOK(s), NEW f2, TreeType(f2), Stays(s.fs, f2)
    PROVE  Keeps(s, [s EXCEPT !.fs = f2])
<1> DEFINE s2 == [fs |-> f2, fddb |-> s.fddb]
<1>1. [s EXCEPT !.fs = f2] = s2
  BY DEF ServerOK
<1>2. s2.fs = f2 /\ s2.fddb = s.fddb
  OBVIOUS
<1> HIDE DEF s2
<1>3. ServerOK(s2)
  BY <1>2 DEF ServerOK, s2
<1>4. ASSUME NEW x, Follows(s, x) PROVE Follows(s2, x)
  <2>1. x[2] \in Nat /\ x[2] <= s.fs.born /\ s.fs.born <= f2.born
    BY <1>4 DEF Follows, Stays
  <2>2. s.fs.born \in Nat /\ f2.born \in Nat
    BY DEF ServerOK, TreeType
  <2>3. ASSUME NEW p \in DOMAIN f2.node, f2.node[p].id = x[2]
        PROVE  p \in DOMAIN s.fs.node /\ s.fs.node[p].id = x[2]
    BY <2>1, <2>3 DEF Stays
  <2> QED BY <1>2, <1>4, <2>1, <2>2, <2>3 DEF Follows
<1> QED BY <1>1, <1>3, <1>4 DEF Keeps

(* A table that keeps the numbers of the known paths, under the same tree. *)
LEMMA NumbersKeep ==
    ASSUME NEW s, ServerOK(s), NEW t, TableType(t), Consistent(t),
           \A q \in Known(s.fddb) : q \in Known(t) /\ t.PathMapA[q] = s.fddb.PathMapA[q]
    PROVE  Keeps(s, [s EXCEPT !.fddb = t])
<1> DEFINE s2 == [fs |-> s.fs, fddb |-> t]
<1>1. [s EXCEPT !.fddb = t] = s2
  BY DEF ServerOK
<1>2. s2.fs = s.fs /\ s2.fddb = t /\ s2 = [fs |-> s2.fs, fddb |-> s2.fddb]
  OBVIOUS
<1> HIDE DEF s2
<1>3. ServerOK(s2)
  BY <1>2 DEF ServerOK
<1>4. \A x : Follows(s, x) => Follows(s2, x)
  BY <1>2 DEF Follows
<1> QED BY <1>1, <1>3, <1>4 DEF Keeps

(* A handle that is given out for a known path follows the object there.   *)
LEMMA GivenFollows ==
    ASSUME NEW s, ServerOK(s), NEW p \in DOMAIN s.fs.node, p \in Known(s.fddb)
    PROVE  Follows(s, <<FDOf(s.fddb, p), s.fs.node[p].id>>)
<1>1. FDOf(s.fddb, p) = s.fddb.PathMapA[p] /\ s.fddb.PathMapA[p] \in Number
  BY DEF FDOf, ServerOK, TableType
<1>2. s.fs.node[p].id \in Nat /\ s.fs.node[p].id <= s.fs.born
  BY TreeAt DEF ServerOK
<1>3. \A q \in DOMAIN s.fs.node : s.fs.node[q].id = s.fs.node[p].id => q = p
  BY DEF ServerOK, TreeType
<1> QED BY <1>1, <1>2, <1>3 DEF Follows

(* go_lstat: the tree stays, the path has a number if it is there.         *)
LEMMA go_lstatOK ==
    ASSUME NEW s, ServerOK(s), NEW path \in AnyPath
    PROVE  LET r == go_lstat(s, path)
           IN /\ r.status \in Status
              /\ Keeps(s, r.s)
              /\ r.s.fs = s.fs
              /\ r.status = "OK" <=> Exists(s.fs, Clean(path))
              /\ Exists(s.fs, Clean(path)) => Clean(path) \in Known(r.s.fddb)
<1> DEFINE t == GetFD(s.fddb, Clean(path))
<1>1. CASE Exists(s.fs, Clean(path))
  <2>1. go_lstat(s, path) = Result("OK", [s EXCEPT !.fddb = t])
    BY <1>1 DEF go_lstat
  <2>2. Clean(path) \in Path
    BY CleanOK
  <2>3. /\ TableType(t) /\ Consistent(t) /\ Clean(path) \in Known(t)
        /\ \A q \in Known(s.fddb) : q \in Known(t) /\ t.PathMapA[q] = s.fddb.PathMapA[q]
    BY <2>2, GetFDOK, GetFDNumbers DEF ServerOK
  <2> HIDE DEF t
  <2>4. Keeps(s, [s EXCEPT !.fddb = t])
    BY <2>3, NumbersKeep
  <2>5. [s EXCEPT !.fddb = t].fs = s.fs /\ [s EXCEPT !.fddb = t].fddb = t
    BY DEF ServerOK
  <2>6. /\ go_lstat(s, path).status = "OK"
        /\ go_lstat(s, path).s = [s EXCEPT !.fddb = t]
    BY <2>1 DEF Result
  <2> QED BY <1>1, <2>3, <2>4, <2>5, <2>6 DEF Status
<1>2. CASE ~Exists(s.fs, Clean(path))
  BY <1>2, KeepsItself DEF go_lstat, Result, Status
<1> QED BY <1>1, <1>2

LEMMA StatusOf ==
    \A e \in GoError : errTranslator[e] \in Status /\ (errTranslator[e] = "OK" <=> e = "nil")
BY DEF GoError, errTranslator, Status

(* A translated call: its status says whether it had an effect.            *)
LEMMA TranslatedOK ==
    ASSUME NEW s, ServerOK(s), NEW outcomes, \A o \in outcomes : CallOK(s.fs, o),
           NEW r \in Translated(s, outcomes)
    PROVE  \E o \in outcomes :
              /\ r.status = errTranslator[o.err]
              /\ r.s = [s EXCEPT !.fs = o.fs]
              /\ r.s.fs = o.fs /\ r.s.fddb = s.fddb
              /\ r.status \in Status
              /\ r.status = "OK" <=> o.err = "nil"
              /\ r.status # "OK" => r.s.fs = s.fs
<1>1. PICK o \in outcomes : r = Result(errTranslator[o.err], [s EXCEPT !.fs = o.fs])
  BY DEF Translated
<1>2. r.status = errTranslator[o.err] /\ r.s = [s EXCEPT !.fs = o.fs]
  BY <1>1 DEF Result
<1>3. r.s.fs = o.fs /\ r.s.fddb = s.fddb
  BY <1>2 DEF ServerOK
<1>4. CallOK(s.fs, o)
  OBVIOUS
<1> QED BY <1>2, <1>3, <1>4, StatusOf DEF CallOK

LEMMA TranslatedTree ==
    ASSUME NEW s, ServerOK(s), NEW outcomes, \A o \in outcomes : CallOK(s.fs, o),
           NEW r \in Translated(s, outcomes)
    PROVE  /\ r.status \in Status
           /\ r.status # "OK" => r.s.fs = s.fs /\ r.s = s
           /\ \E o \in outcomes : r.s.fs = o.fs /\ (r.status = "OK" <=> o.err = "nil")
<1>1. PICK o \in outcomes :
         /\ r.status = errTranslator[o.err]
         /\ r.s = [s EXCEPT !.fs = o.fs]
         /\ r.s.fs = o.fs /\ r.s.fddb = s.fddb
         /\ r.status \in Status
         /\ r.status = "OK" <=> o.err = "nil"
         /\ r.status # "OK" => r.s.fs = s.fs
  BY TranslatedOK
<1>2. [s EXCEPT !.fs = s.fs] = s
  BY DEF ServerOK
<1>3. r.status # "OK" => r.s = s
  <2>1. CASE o.err # "nil"
    BY <1>1, <1>2, <2>1 DEF CallOK
  <2> QED BY <1>1, <2>1
<1>4. /\ r.status \in Status
      /\ r.status # "OK" => r.s.fs = s.fs
      /\ r.s.fs = o.fs /\ (r.status = "OK" <=> o.err = "nil")
  BY <1>1
<1> QED BY <1>3, <1>4

(* What a call that leaves objects where they are does to a state.         *)
LEMMA TranslatedKeeps ==
    ASSUME NEW s, ServerOK(s), NEW outcomes,
           \A o \in outcomes : CallOK(s.fs, o) /\ Stays(s.fs, o.fs),
           NEW r \in Translated(s, outcomes)
    PROVE  r.status \in Status /\ Keeps(s, r.s)
<1>1. PICK o \in outcomes : r.s = [s EXCEPT !.fs = o.fs] /\ r.status \in Status
  BY TranslatedOK
<1>2. TreeType(o.fs) /\ Stays(s.fs, o.fs)
  BY DEF CallOK
<1> QED BY <1>1, <1>2, StaysKeeps
(* SetAttribute, WriteFile and ReadFile: nothing moves.                    *)
LEMMA go_setOK ==
    ASSUME NEW s, ServerOK(s), NEW path \in AnyPath, NEW attr, NEW v, ValueOf(attr, v),
           NEW r \in go_set(s, path, attr, v)
    PROVE  /\ r.status \in Status
           /\ Keeps(s, r.s)
           /\ AltersAt(s.fs, r.s.fs, Clean(path))
<1> DEFINE outcomes == SetAttribute(s.fs, Clean(path), attr, v)
<1>1. r \in Translated(s, outcomes)
  BY DEF go_set
<1>2. \A o \in outcomes : CallOK(s.fs, o) /\ AltersAt(s.fs, o.fs, Clean(path))
  BY SetAttributeOK, CleanOK DEF ServerOK
<1>3. \A o \in outcomes : CallOK(s.fs, o) /\ Stays(s.fs, o.fs)
  BY <1>2, AltersAtOK DEF ServerOK
<1> HIDE DEF outcomes
<1>4. \E o \in outcomes : r.s.fs = o.fs
  BY <1>1, <1>2, TranslatedTree
<1> QED BY <1>1, <1>2, <1>3, <1>4, TranslatedKeeps

LEMMA go_pwriteOK ==
    ASSUME NEW s, ServerOK(s), NEW path \in AnyPath, NEW offset \in Nat, NEW count \in Nat,
           NEW r \in go_pwrite(s, path, offset, count)
    PROVE  /\ r.status \in Status
           /\ Keeps(s, r.s)
           /\ AltersAt(s.fs, r.s.fs, Clean(path))
           /\ r.status # "OK" => r.s.fs = s.fs
<1> DEFINE outcomes == WriteFile(s.fs, Clean(path), offset, count)
<1>1. r \in Translated(s, outcomes)
  BY DEF go_pwrite
<1>2. \A o \in outcomes : CallOK(s.fs, o) /\ AltersAt(s.fs, o.fs, Clean(path))
  BY WriteFileOK, CleanOK DEF ServerOK
<1>3. \A o \in outcomes : CallOK(s.fs, o) /\ Stays(s.fs, o.fs)
  BY <1>2, AltersAtOK DEF ServerOK
<1> HIDE DEF outcomes
<1>4. \E o \in outcomes : r.s.fs = o.fs /\ (r.status # "OK" => r.s.fs = s.fs)
  BY <1>1, <1>2, TranslatedTree
<1> QED BY <1>1, <1>2, <1>3, <1>4, TranslatedKeeps

LEMMA go_preadOK ==
    ASSUME NEW s, ServerOK(s), NEW path \in AnyPath, NEW r \in go_pread(s, path)
    PROVE  r.status \in Status /\ Keeps(s, r.s) /\ r.s.fs = s.fs
<1> DEFINE outcomes == ReadFile(s.fs, Clean(path))
<1>1. r \in Translated(s, outcomes)
  BY DEF go_pread
<1>2. \A o \in outcomes : CallOK(s.fs, o) /\ Stays(s.fs, o.fs) /\ o.fs = s.fs
  BY ReadFileOK, CleanOK, SameTree DEF ServerOK
<1> HIDE DEF outcomes
<1>3. \E o \in outcomes : r.s.fs = o.fs
  BY <1>1, <1>2, TranslatedTree
<1> QED BY <1>1, <1>2, <1>3, TranslatedKeeps

(* A call that takes away nothing, or the childless object at p alone.     *)
TakesAtMost(f, f2, p) ==
    /\ Spares(f, f2, {p})
    /\ Spares(f, f2, {}) \/ Children(f, p) = {}

LEMMA go_mkdirOK ==
    ASSUME NEW s, ServerOK(s), NEW path \in AnyPath, NEW r \in go_mkdir(s, path)
    PROVE  /\ r.status \in Status
           /\ Keeps(s, r.s)
           /\ Unaltered(s.fs, r.s.fs) /\ Spares(s.fs, r.s.fs, {})
           /\ r.status = "OK" => Exists(r.s.fs, Clean(path))
           /\ r.status # "OK" => r.s.fs = s.fs
<1> DEFINE outcomes == CreateDirectory(s.fs, Clean(path))
<1>1. r \in Translated(s, outcomes)
  BY DEF go_mkdir
<1>2. \A o \in outcomes : /\ CallOK(s.fs, o) /\ Stays(s.fs, o.fs)
                          /\ Unaltered(s.fs, o.fs) /\ Spares(s.fs, o.fs, {})
                          /\ o.err = "nil" => Exists(o.fs, Clean(path))
  BY MakeOK, CleanOK DEF ServerOK, CreateDirectory
<1> HIDE DEF outcomes
<1>3. \E o \in outcomes : /\ r.s.fs = o.fs
                          /\ r.status = "OK" <=> o.err = "nil"
                          /\ r.status # "OK" => r.s.fs = s.fs
  BY <1>1, <1>2, TranslatedTree
<1> QED BY <1>1, <1>2, <1>3, TranslatedKeeps

(* What both go_remove and go_rmdir end with, and go_createover starts     *)
(* with.                                                                   *)
LEMMA RemovalOK ==
    ASSUME NEW s, ServerOK(s), NEW p \in Path, NEW r \in Translated(s, Remove(s.fs, p))
    PROVE  /\ r.status \in Status
           /\ Keeps(s, r.s)
           /\ Unaltered(s.fs, r.s.fs) /\ TakesAtMost(s.fs, r.s.fs, p)
           /\ r.status # "OK" => r.s.fs = s.fs
<1> DEFINE outcomes == Remove(s.fs, p)
<1>1. \A o \in outcomes : /\ CallOK(s.fs, o) /\ Stays(s.fs, o.fs)
                          /\ Unaltered(s.fs, o.fs) /\ Spares(s.fs, o.fs, {p})
                          /\ o.err = "nil" => Children(s.fs, p) = {}
  BY RemoveOK DEF ServerOK
<1> HIDE DEF outcomes
<1>2. \E o \in outcomes : /\ r.s.fs = o.fs
                          /\ r.status = "OK" <=> o.err = "nil"
                          /\ r.status # "OK" => r.s.fs = s.fs
  BY <1>1, TranslatedTree DEF outcomes
<1>3. Spares(s.fs, s.fs, {})
  BY SameTree DEF ServerOK
<1>4. r.status \in Status /\ Keeps(s, r.s)
  BY <1>1, TranslatedKeeps DEF outcomes
<1> QED BY <1>1, <1>2, <1>3, <1>4 DEF TakesAtMost

(* A refusal that comes before any call of the backend.                    *)
LEMMA RefusedOK ==
    ASSUME NEW s, ServerOK(s), NEW st \in Status \ {"OK"}, NEW p
    PROVE  LET r == Result(st, s)
           IN /\ r.status = st /\ r.s = s
              /\ Keeps(s, s) /\ Unaltered(s.fs, s.fs) /\ Spares(s.fs, s.fs, {})
              /\ TakesAtMost(s.fs, s.fs, p)
BY KeepsItself, SameTree DEF Result, TakesAtMost, Spares, ServerOK

LEMMA go_removeOK ==
    ASSUME NEW s, ServerOK(s), NEW path \in AnyPath, NEW r \in go_remove(s, path)
    PROVE  /\ r.status \in Status
           /\ Keeps(s, r.s)
           /\ Unaltered(s.fs, r.s.fs) /\ TakesAtMost(s.fs, r.s.fs, Clean(path))
           /\ r.status # "OK" => r.s.fs = s.fs
<1>1. CASE ~Exists(s.fs, Clean(path))
  BY <1>1, RefusedOK DEF go_remove, Status
<1>2. CASE Exists(s.fs, Clean(path)) /\ IsDir(s.fs, Clean(path))
  BY <1>2, RefusedOK DEF go_remove, Status
<1>3. CASE Exists(s.fs, Clean(path)) /\ ~IsDir(s.fs, Clean(path))
  BY <1>3, RemovalOK, CleanOK DEF go_remove
<1> QED BY <1>1, <1>2, <1>3

LEMMA go_rmdirOK ==
    ASSUME NEW s, ServerOK(s), NEW path \in AnyPath, NEW r \in go_rmdir(s, path)
    PROVE  /\ r.status \in Status
           /\ Keeps(s, r.s)
           /\ Unaltered(s.fs, r.s.fs) /\ TakesAtMost(s.fs, r.s.fs, Clean(path))
           /\ r.status # "OK" => r.s.fs = s.fs
<1>1. CASE ~Exists(s.fs, Clean(path))
  BY <1>1, RefusedOK DEF go_rmdir, Status
<1>2. CASE Exists(s.fs, Clean(path)) /\ ~IsDir(s.fs, Clean(path))
  BY <1>2, RefusedOK DEF go_rmdir, Status
<1>3. CASE Exists(s.fs, Clean(path)) /\ IsDir(s.fs, Clean(path))
  BY <1>3, RemovalOK, CleanOK DEF go_rmdir
<1> QED BY <1>1, <1>2, <1>3

(* go_create: after a failure of chmod the new file is there all the same, *)
(* but nothing else has changed.                                           *)
LEMMA go_createOK ==
    ASSUME NEW s, ServerOK(s), NEW path \in AnyPath, NEW mode \in Modes,
           NEW r \in go_create(s, path, mode)
    PROVE  /\ r.status \in Status
           /\ Keeps(s, r.s)
           /\ Unaltered(s.fs, r.s.fs) /\ Spares(s.fs, r.s.fs, {})
           /\ r.status = "OK" => Exists(r.s.fs, Clean(path))
<1> DEFINE pp == Clean(path)
           created == Translated(s, CreateFile(s.fs, pp))
<1>1. pp \in Path /\ pp \in AnyPath /\ Clean(pp) = pp
  BY CleanOK DEF AnyPath
<1>2. ASSUME NEW q \in created
      PROVE  /\ q.status \in Status
             /\ Keeps(s, q.s)
             /\ Unaltered(s.fs, q.s.fs) /\ Spares(s.fs, q.s.fs, {})
             /\ q.status = "OK" => Exists(q.s.fs, pp) /\ q.s.fs.node[pp].id > s.fs.born
  <2> DEFINE outcomes == CreateFile(s.fs, pp)
  <2>1. \A o \in outcomes : /\ CallOK(s.fs, o) /\ Stays(s.fs, o.fs)
                            /\ Unaltered(s.fs, o.fs) /\ Spares(s.fs, o.fs, {})
                            /\ o.err = "nil" => /\ Exists(o.fs, pp)
                                                /\ o.fs.node[pp].id > s.fs.born
    BY <1>1, MakeOK DEF ServerOK, CreateFile
  <2>2. q \in Translated(s, outcomes)
    OBVIOUS
  <2> HIDE DEF outcomes, pp
  <2>3. \E o \in outcomes : q.s.fs = o.fs /\ (q.status = "OK" <=> o.err = "nil")
    BY <2>1, <2>2, TranslatedTree
  <2> QED BY <2>1, <2>2, <2>3, TranslatedKeeps
<1>3. \/ r \in created /\ r.status # "OK"
      \/ \E q \in created : q.status = "OK" /\ r \in go_chmod(q.s, pp, mode)
  BY DEF go_create, Then
<1> HIDE DEF created, pp
<1>4. CASE r \in created /\ r.status # "OK"
  BY <1>2, <1>4
<1>5. ASSUME NEW q \in created, q.status = "OK", r \in go_chmod(q.s, pp, mode)
      PROVE  /\ r.status \in Status
             /\ Keeps(s, r.s)
             /\ Unaltered(s.fs, r.s.fs) /\ Spares(s.fs, r.s.fs, {})
             /\ Exists(r.s.fs, pp)
  <2>1. /\ Keeps(s, q.s) /\ ServerOK(q.s)
        /\ Unaltered(s.fs, q.s.fs) /\ Spares(s.fs, q.s.fs, {})
        /\ Exists(q.s.fs, pp) /\ q.s.fs.node[pp].id > s.fs.born
    BY <1>2, <1>5 DEF Keeps
  <2>2. r.status \in Status /\ Keeps(q.s, r.s) /\ AltersAt(q.s.fs, r.s.fs, pp)
    BY <1>1, <1>5, <2>1, go_setOK DEF go_chmod, ValueOf
  <2>3. Keeps(s, r.s)
    BY <2>1, <2>2, KeepsTrans
  <2>4. Exists(r.s.fs, pp) /\ Spares(s.fs, r.s.fs, {})
    BY <2>1, <2>2 DEF AltersAt, Exists, Spares, Ids
  <2>5. s.fs.born \in Nat
    BY DEF ServerOK, TreeType
  <2>6. Unaltered(s.fs, r.s.fs)
    <3> SUFFICES ASSUME NEW p \in DOMAIN r.s.fs.node, r.s.fs.node[p].id <= s.fs.born
                 PROVE  \E x \in DOMAIN s.fs.node : r.s.fs.node[p] = s.fs.node[x]
      BY <2>1, <2>2 DEF Unaltered, AltersAt
    <3>1. p \in DOMAIN q.s.fs.node /\ q.s.fs.node[p].id <= s.fs.born
      BY <2>2 DEF AltersAt
    <3>2. p # pp
      <4>1. q.s.fs.node[pp].id \in Nat
        BY <2>1, TreeAt DEF ServerOK, Exists
      <4> QED BY <2>1, <2>5, <3>1, <4>1
    <3>3. r.s.fs.node[p] = q.s.fs.node[p]
      BY <2>2, <3>1, <3>2 DEF AltersAt
    <3> QED BY <2>1, <3>1, <3>3 DEF Unaltered
  <2> QED BY <2>2, <2>3, <2>4, <2>6
<1> QED BY <1>3, <1>4, <1>5 DEF pp

(* go_createover may remove a file and then fail to make the new one.      *)
LEMMA go_createoverOK ==
    ASSUME NEW s, ServerOK(s), NEW path \in AnyPath, NEW mode \in Modes,
           NEW r \in go_createover(s, path, mode)
    PROVE  /\ r.status \in Status
           /\ Keeps(s, r.s)
           /\ Unaltered(s.fs, r.s.fs) /\ TakesAtMost(s.fs, r.s.fs, Clean(path))
           /\ r.status = "OK" => Exists(r.s.fs, Clean(path))
<1> DEFINE pp == Clean(path)
           removed == Translated(s, Remove(s.fs, pp))
<1>1. pp \in Path /\ pp \in AnyPath /\ Clean(pp) = pp
  BY CleanOK DEF AnyPath
<1>2. CASE IsDir(s.fs, pp)
  BY <1>2, RefusedOK DEF go_createover, Status
<1>3. CASE ~IsDir(s.fs, pp) /\ ~Exists(s.fs, pp)
  <2>1. r \in go_create(s, pp, mode)
    BY <1>3 DEF go_createover
  <2> HIDE DEF pp
  <2>2. /\ r.status \in Status /\ Keeps(s, r.s)
        /\ Unaltered(s.fs, r.s.fs) /\ Spares(s.fs, r.s.fs, {})
        /\ r.status = "OK" => Exists(r.s.fs, pp)
    BY <1>1, <2>1, go_createOK
  <2> QED BY <2>2 DEF TakesAtMost, Spares, pp
<1>4. CASE ~IsDir(s.fs, pp) /\ Exists(s.fs, pp)
  <2>1. \/ r \in removed /\ r.status # "OK"
        \/ \E q \in removed : q.status = "OK" /\ r \in go_create(q.s, pp, mode)
    BY <1>4 DEF go_createover, Then
  <2>2. \A q \in removed : /\ q.status \in Status
                           /\ Keeps(s, q.s)
                           /\ Unaltered(s.fs, q.s.fs) /\ TakesAtMost(s.fs, q.s.fs, pp)
    BY <1>1, RemovalOK
  <2> HIDE DEF removed, pp
  <2>3. ASSUME NEW q \in removed, r \in go_create(q.s, pp, mode)
        PROVE  /\ r.status \in Status
               /\ Keeps(s, r.s)
               /\ Unaltered(s.fs, r.s.fs) /\ TakesAtMost(s.fs, r.s.fs, pp)
               /\ r.status = "OK" => Exists(r.s.fs, pp)
    <3>1. /\ Keeps(s, q.s) /\ ServerOK(q.s)
          /\ Unaltered(s.fs, q.s.fs) /\ TakesAtMost(s.fs, q.s.fs, pp)
      BY <2>2, <2>3 DEF Keeps
    <3>2. /\ r.status \in Status /\ Keeps(q.s, r.s)
          /\ Unaltered(q.s.fs, r.s.fs) /\ Spares(q.s.fs, r.s.fs, {})
          /\ r.status = "OK" => Exists(r.s.fs, pp)
      BY <1>1, <2>3, <3>1, go_createOK
    <3>3. Keeps(s, r.s)
      BY <3>1, <3>2, KeepsTrans
    <3>4. TakesAtMost(s.fs, r.s.fs, pp)
      BY <3>1, <3>2 DEF TakesAtMost, Spares, Ids
    <3>5. Unaltered(s.fs, r.s.fs)
      BY <3>1, <3>2, UnalteredTrans DEF ServerOK, Keeps
    <3> QED BY <3>2, <3>3, <3>4, <3>5
  <2> QED BY <2>1, <2>2, <2>3 DEF pp
<1> QED BY <1>2, <1>3, <1>4

(* The move of the object at old to new, with the table's numbers sent     *)
(* after it: every handle that followed its object still does.             *)
LEMMA MovedKeeps ==
    ASSUME NEW s, ServerOK(s), NEW old \in Path, NEW new \in Path,
           MoveAllowed(s.fs, old, new)
    PROVE  Keeps(s, [fs   |-> Moved(s.fs, old, new),
                     fddb |-> ReplacePath(s.fddb, old, new, IsDir(s.fs, old))])
<1> DEFINE isdir == IsDir(s.fs, old)
           f2 == Moved(s.fs, old, new)
           u  == ReplacePath(s.fddb, old, new, isdir)
           s2 == [fs |-> f2, fddb |-> u]
           W(p) == Whence(s.fs, old, new, p)
<1>1. isdir \in BOOLEAN /\ TreeType(s.fs) /\ TableType(s.fddb) /\ Consistent(s.fddb)
  BY DEF IsDir, Exists, ServerOK
<1>2. TreeType(f2) /\ f2.born = s.fs.born
  <2>1. f2 = [node |-> f2.node, born |-> s.fs.born]
    BY <1>1, MovedShape
  <2> HIDE DEF f2
  <2>2. f2.born = s.fs.born
    BY <2>1
  <2> QED BY <1>1, <2>2, MovedOK DEF f2
<1>3. \A p \in DOMAIN f2.node :
         /\ W(p) \in DOMAIN s.fs.node
         /\ f2.node[p] = s.fs.node[W(p)]
         /\ W(p) = old \/ Under(W(p), old) => p = Rebase(W(p), old, new)
         /\ ~(W(p) = old \/ Under(W(p), old)) => p = W(p) /\ p # new /\ ~Under(p, new)
  BY <1>1, MovedShape
<1>4. TableType(u) /\ Consistent(u)
  BY <1>1, ReplacePathOK
<1>5. /\ old \in Known(s.fddb) => new \in Known(u) /\ u.PathMapA[new] = s.fddb.PathMapA[old]
      /\ \A p \in Known(s.fddb) :
            isdir /\ Under(p, old) =>
               /\ Rebase(p, old, new) \in Known(u)
               /\ u.PathMapA[Rebase(p, old, new)] = s.fddb.PathMapA[p]
      /\ \A p \in Known(s.fddb) :
            /\ p # old /\ ~(isdir /\ Under(p, old))
            /\ p # new /\ ~(isdir /\ Under(p, new))
            => p \in Known(u) /\ u.PathMapA[p] = s.fddb.PathMapA[p]
  BY <1>1, ReplacePathNumbers
<1>6. \A w \in DOMAIN s.fs.node : Under(w, old) => isdir
  BY <1>1, NoOrphans
<1>7. Rebase(old, old, new) = new
  BY RebaseSelf
<1>8. s2.fs = f2 /\ s2.fddb = u /\ s2 = [fs |-> s2.fs, fddb |-> s2.fddb]
  OBVIOUS
<1> HIDE DEF isdir, f2, u, s2, W
<1>9. ServerOK(s2)
  BY <1>2, <1>4, <1>8 DEF ServerOK
<1>10. ASSUME NEW x, Follows(s, x),
              NEW p \in DOMAIN f2.node, x[1] # NoFD, f2.node[p].id = x[2]
       PROVE  p \in Known(u) /\ u.PathMapA[p] = x[1]
  <2>1. W(p) \in Known(s.fddb) /\ s.fddb.PathMapA[W(p)] = x[1]
    BY <1>3, <1>10 DEF Follows
  <2>2. CASE W(p) = old
    BY <1>3, <1>5, <1>7, <2>1, <2>2
  <2>3. CASE Under(W(p), old)
    BY <1>3, <1>5, <1>6, <2>1, <2>3
  <2>4. CASE ~(W(p) = old \/ Under(W(p), old))
    BY <1>3, <1>5, <2>1, <2>4
  <2> QED BY <2>2, <2>3, <2>4
<1>11. \A x : Follows(s, x) => Follows(s2, x)
  BY <1>2, <1>8, <1>10 DEF Follows
<1> QED BY <1>9, <1>11 DEF Keeps, s2, f2, u, isdir

(* ReplacePath of a path by itself gives nothing another number.           *)
LEMMA ReplaceSelfKeeps ==
    ASSUME NEW s, ServerOK(s), NEW p \in Path, NEW isdir \in BOOLEAN
    PROVE  Keeps(s, [s EXCEPT !.fddb = ReplacePath(s.fddb, p, p, isdir)])
<1> DEFINE u == ReplacePath(s.fddb, p, p, isdir)
<1>1. TableType(s.fddb) /\ Consistent(s.fddb)
  BY DEF ServerOK
<1>2. TableType(u) /\ Consistent(u)
  BY <1>1, ReplacePathOK
<1>3. /\ p \in Known(s.fddb) => p \in Known(u) /\ u.PathMapA[p] = s.fddb.PathMapA[p]
      /\ \A q \in Known(s.fddb) :
            isdir /\ Under(q, p) =>
               /\ Rebase(q, p, p) \in Known(u)
               /\ u.PathMapA[Rebase(q, p, p)] = s.fddb.PathMapA[q]
      /\ \A q \in Known(s.fddb) :
            /\ q # p /\ ~(isdir /\ Under(q, p))
            /\ q # p /\ ~(isdir /\ Under(q, p))
            => q \in Known(u) /\ u.PathMapA[q] = s.fddb.PathMapA[q]
  BY <1>1, ReplacePathNumbers
<1>4. \A q \in Known(s.fddb) : Under(q, p) => Rebase(q, p, p) = q
  BY <1>1, RebaseSame DEF TableType
<1> HIDE DEF u
<1>5. \A q \in Known(s.fddb) : q \in Known(u) /\ u.PathMapA[q] = s.fddb.PathMapA[q]
  BY <1>3, <1>4
<1> QED BY <1>2, <1>5, NumbersKeep DEF u

LEMMA go_renameOK ==
    ASSUME NEW s, ServerOK(s), NEW oldpath \in AnyPath, NEW newpath \in AnyPath,
           NEW r \in go_rename(s, oldpath, newpath)
    PROVE  /\ r.status \in Status
           /\ Keeps(s, r.s)
           /\ Unaltered(s.fs, r.s.fs) /\ TakesAtMost(s.fs, r.s.fs, Clean(newpath))
           /\ r.status # "OK" => r.s.fs = s.fs
<1> DEFINE op == Clean(oldpath)
           np == Clean(newpath)
           outcomes == Move(s.fs, op, np)
           u == ReplacePath(s.fddb, op, np, IsDir(s.fs, op))
<1>1. op \in Path /\ np \in Path /\ IsDir(s.fs, op) \in BOOLEAN /\ TreeType(s.fs)
  BY CleanOK DEF IsDir, Exists, ServerOK
<1>2. CASE ~Exists(s.fs, op)
  <2>1. r = Result("NOENT", s)
    BY <1>2 DEF go_rename
  <2> QED BY <2>1, RefusedOK DEF Status
<1>3. CASE Exists(s.fs, op)
  <2>1. \/ r \in Translated(s, outcomes) /\ r.status # "OK"
        \/ \E q \in Translated(s, outcomes) :
              /\ q.status = "OK"
              /\ r = Result("OK", [q.s EXCEPT
                        !.fddb = ReplacePath(@, op, np, IsDir(s.fs, op))])
    BY <1>3 DEF go_rename, Then
  <2>2. \A o \in outcomes : CallOK(s.fs, o)
    BY <1>1, MoveOK
  <2>3. \A o \in outcomes :
           /\ Unaltered(s.fs, o.fs) /\ Spares(s.fs, o.fs, {np})
           /\ o.err = "nil" => \/ op = np /\ o.fs = s.fs
                               \/ MoveAllowed(s.fs, op, np) /\ o.fs = Moved(s.fs, op, np)
    BY <1>1, MoveOK
  <2>4. Unaltered(s.fs, s.fs) /\ Spares(s.fs, s.fs, {}) /\ TakesAtMost(s.fs, s.fs, np)
    BY <1>1, SameTree DEF TakesAtMost, Spares
  <2> HIDE DEF outcomes, op, np
  <2>5. CASE r \in Translated(s, outcomes) /\ r.status # "OK"
    <3>1. r.status \in Status /\ r.s.fs = s.fs /\ r.s = s
      BY <2>2, <2>5, TranslatedTree
    <3> QED BY <2>4, <2>5, <3>1, KeepsItself DEF np
  <2>6. ASSUME NEW q \in Translated(s, outcomes), q.status = "OK",
               r = Result("OK", [q.s EXCEPT
                        !.fddb = ReplacePath(@, op, np, IsDir(s.fs, op))])
        PROVE  /\ r.status = "OK"
               /\ Keeps(s, r.s)
               /\ Unaltered(s.fs, r.s.fs) /\ TakesAtMost(s.fs, r.s.fs, np)
    <3>1. PICK o \in outcomes :
             /\ q.status = errTranslator[o.err]
             /\ q.s = [s EXCEPT !.fs = o.fs]
             /\ q.s.fs = o.fs /\ q.s.fddb = s.fddb
             /\ q.status \in Status
             /\ q.status = "OK" <=> o.err = "nil"
             /\ q.status # "OK" => q.s.fs = s.fs
      BY <2>2, <2>6, TranslatedOK
    <3>2. q.s = [fs |-> o.fs, fddb |-> s.fddb]
      BY <3>1 DEF ServerOK
    <3>3. r.status = "OK" /\ r.s = [fs |-> o.fs, fddb |-> u]
      BY <2>6, <3>2 DEF Result
    <3>4. r.s.fs = o.fs
      BY <3>3
    <3> HIDE DEF u
    <3>5. o.err = "nil"
      BY <2>6, <3>1
    <3>6. CASE op = np /\ o.fs = s.fs
      <4>1. [s EXCEPT !.fddb = u] = [fs |-> o.fs, fddb |-> u]
        BY <3>6 DEF ServerOK
      <4>2. Keeps(s, [s EXCEPT !.fddb = u])
        BY <1>1, <3>6, ReplaceSelfKeeps DEF u, op, np
      <4> QED BY <2>4, <3>3, <3>4, <3>6, <4>1, <4>2
    <3>7. CASE MoveAllowed(s.fs, op, np) /\ o.fs = Moved(s.fs, op, np)
      <4>1. Keeps(s, r.s)
        BY <1>1, <3>3, <3>7, MovedKeeps DEF u, op, np
      <4>2. Children(s.fs, np) = {}
        BY <3>7 DEF MoveAllowed
      <4> QED BY <2>3, <3>3, <3>4, <4>1, <4>2 DEF TakesAtMost
    <3> QED BY <2>3, <3>5, <3>6, <3>7
  <2>7. r.status \in Status
    BY <2>1, <2>5, <2>6 DEF Status
  <2> QED BY <2>1, <2>5, <2>6, <2>7 DEF np
<1> QED BY <1>2, <1>3

(* go_readdir_full numbers the entries of a page and leaves the tree.      *)
LEMMA go_readdir_fullOK ==
    ASSUME NEW s, ServerOK(s), NEW path \in AnyPath, NEW r \in go_readdir_full(s, path)
    PROVE  r.status \in Status /\ Keeps(s, r.s) /\ r.s.fs = s.fs
<1> DEFINE dirp == Clean(path)
<1>1. CASE ~Exists(s.fs, dirp) \/ ~IsDir(s.fs, dirp)
  <2>1. \E st \in {"NOENT", "IO"} : r = Result(st, s)
    BY <1>1 DEF go_readdir_full
  <2> QED BY <2>1, RefusedOK DEF Status
<1>2. CASE Exists(s.fs, dirp) /\ IsDir(s.fs, dirp)
  <2>1. \/ r = Result("BAD_COOKIE", s)
        \/ \E page \in SUBSET Children(s.fs, dirp) : \E num \in Numberings(s.fddb, page) :
              r = Result("OK", [s EXCEPT !.fddb = Enter(s.fddb, num)])
    BY <1>2 DEF go_readdir_full
  <2>2. CASE r = Result("BAD_COOKIE", s)
    BY <2>2, RefusedOK DEF Status
  <2>3. ASSUME NEW page \in SUBSET Children(s.fs, dirp),
               NEW num \in Numberings(s.fddb, page),
               r = Result("OK", [s EXCEPT !.fddb = Enter(s.fddb, num)])
        PROVE  r.status \in Status /\ Keeps(s, r.s) /\ r.s.fs = s.fs
    <3> DEFINE t == Enter(s.fddb, num)
    <3>1. page \in SUBSET Path /\ IsFiniteSet(page)
      BY FS_Subset DEF Children, ServerOK, TreeType
    <3>2. /\ TableType(t) /\ Consistent(t)
          /\ \A q \in Known(s.fddb) : q \in Known(t) /\ t.PathMapA[q] = s.fddb.PathMapA[q]
      BY <3>1, EnterOK DEF ServerOK
    <3>3. r.status = "OK" /\ r.s = [s EXCEPT !.fddb = t]
      BY <2>3 DEF Result
    <3> HIDE DEF t
    <3>4. [s EXCEPT !.fddb = t].fs = s.fs
      BY DEF ServerOK
    <3>5. Keeps(s, [s EXCEPT !.fddb = t])
      BY <3>2, NumbersKeep
    <3> QED BY <3>3, <3>4, <3>5 DEF Status
  <2> QED BY <2>1, <2>2, <2>3
<1> QED BY <1>1, <1>2

-----------------------------------------------------------------------------
(* The arguments the procedures make.                                      *)

LEMMA create_modeOK == \A mode \in SetIt(Modes) : create_mode(mode) \in Modes
BY MinFSAssumption DEF SetIt, create_mode

LEMMA cat_nameOK ==
    ASSUME NEW path \in AnyPath, NEW name \in Name \cup {".", "..", BadName}
    PROVE  LET c == cat_name(path, name)
           IN /\ c.status \in {"OK", "STALE", "ACCES", "NAMETOOLONG"}
              /\ c.status = "OK" => c.obj \in Path
              /\ c.status # "OK" => c.obj = NULL
              /\ path = NULL => c.status = "STALE"
<1>1. CASE path = NULL
  BY <1>1 DEF cat_name
<1>2. CASE path # NULL
  <2>1. path \in Path
    BY <1>2 DEF AnyPath
  <2>2. Parent(path) \in Path
    BY <2>1, ParentIsPath
  <2>3. name \in Name => Append(path, name) \in Path
    BY <2>1, AppendIsPath
  <2>4. CASE name = BadName
    BY <1>2, <2>4 DEF cat_name
  <2>5. CASE name # BadName /\ Len(path) + 1 > MaxDepth
    BY <1>2, <2>5 DEF cat_name
  <2>6. CASE name # BadName /\ ~(Len(path) + 1 > MaxDepth)
    <3> DEFINE obj == IF name = "." THEN path
                      ELSE IF name = ".." THEN Parent(path) ELSE Append(path, name)
    <3>1. obj \in Path
      BY <2>1, <2>2, <2>3, <2>6
    <3>2. cat_name(path, name) = [status |-> "OK", obj |-> obj]
      BY <1>2, <2>6 DEF cat_name
    <3> HIDE DEF obj
    <3> QED BY <1>2, <3>1, <3>2
  <2> QED BY <2>4, <2>5, <2>6
<1> QED BY <1>1, <1>2

(* A request that does nothing but stat.                                   *)
LEMMA StatOK ==
    ASSUME NEW s, ServerOK(s), NEW path \in AnyPath
    PROVE  LET s2 == go_lstat(s, path).s IN Keeps(s, s2) /\ ServerOK(s2) /\ s2.fs = s.fs
BY go_lstatOK DEF Keeps
=============================================================================
