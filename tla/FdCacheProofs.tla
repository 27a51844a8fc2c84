--------------------------- MODULE FdCacheProofs ---------------------------
(***************************************************************************)
(* The handle table keeps its invariants for every set of names and every  *)
(* value of the bounds, its superseded handles stay as they are, and its   *)
(* two maps implement HandleTable: a handle follows its object through     *)
(* every rename.                                                           *)
(***************************************************************************)
EXTENDS FdCache, FdTableProofs

IInv == TypeOK /\ TableConsistent

LEMMA IInvInit == Init => IInv
BY EmptyTableOK DEF Init, IInv, TypeOK, TableConsistent

LEMMA IInvNext == IInv /\ [Next]_vars => IInv'
<1> SUFFICES ASSUME IInv, [Next]_vars PROVE IInv'
  OBVIOUS
<1> USE FdCacheAssumption DEF IInv, TypeOK, TableConsistent
<1>1. ASSUME NEW p \in PathsUpTo(MaxLen), Acquire(p) PROVE IInv'
  BY <1>1, GetFDOK, PathsUpToArePaths DEF Acquire
<1>2. ASSUME NEW old \in PathsUpTo(MaxLen), NEW new \in PathsUpTo(MaxLen),
             NEW isdir \in BOOLEAN, Rename(old, new, isdir)
      PROVE IInv'
  BY <1>2, ReplacePathOK, PathsUpToArePaths DEF Rename
<1>3. CASE Restart
  BY <1>3, EmptyTableOK DEF Restart
<1>4. CASE UNCHANGED vars
  BY <1>4 DEF vars
<1> QED BY <1>1, <1>2, <1>3, <1>4 DEF Next

(* The table is well typed in every reachable state.                       *)
THEOREM TypeCorrect == Spec => []TypeOK
<1>1. IInv => TypeOK
  BY DEF IInv
<1> QED BY <1>1, IInvInit, IInvNext, PTL DEF Spec

(* Every number handed out still resolves, and the number of a path        *)
(* resolves to that path: fdCache never forgets or confuses two paths.     *)
THEOREM AlwaysConsistent == Spec => []TableConsistent
<1>1. IInv => TableConsistent
  BY DEF IInv
<1> QED BY <1>1, IInvInit, IInvNext, PTL DEF Spec

(* A superseded handle stays superseded, with its path, as long as the     *)
(* process lives.                                                          *)
THEOREM SupersededStayFrozen == Spec => SupersededFrozen
<1>1. IInv /\ [Next]_vars => [SupersededStep]_fddb
  <2> SUFFICES ASSUME IInv, Next, fddb' # EmptyTable, NEW f \in Superseded(fddb)
               PROVE  /\ f \in Superseded(fddb')
                      /\ fddb'.PathMapB[f] = fddb.PathMapB[f]
    BY DEF SupersededStep, vars
  <2> USE FdCacheAssumption DEF IInv, TypeOK, TableConsistent
  <2>1. ASSUME NEW p \in PathsUpTo(MaxLen), Acquire(p)
        PROVE  f \in Superseded(fddb') /\ fddb'.PathMapB[f] = fddb.PathMapB[f]
    BY <2>1, GetFDFreezes, PathsUpToArePaths DEF Acquire
  <2>2. ASSUME NEW old \in PathsUpTo(MaxLen), NEW new \in PathsUpTo(MaxLen),
               NEW isdir \in BOOLEAN, Rename(old, new, isdir)
        PROVE  f \in Superseded(fddb') /\ fddb'.PathMapB[f] = fddb.PathMapB[f]
    BY <2>2, ReplacePathFreezes, PathsUpToArePaths DEF Rename
  <2>3. ~Restart
    BY DEF Restart
  <2> QED BY <2>1, <2>2, <2>3 DEF Next
<1> QED BY <1>1, IInvInit, IInvNext, PTL DEF Spec, SupersededFrozen

-----------------------------------------------------------------------------
(* The refinement of HandleTable.  A rename of old takes the path p along: *)
Moves(p, old, isdir) == p = old \/ (isdir /\ Under(p, old))

(* The known paths that a rename re-roots, itself included, and where to.  *)
Movers(t, old, isdir) == {p \in Known(t) : Moves(p, old, isdir)}
Landed(t, old, new, isdir) ==
    {new} \cup {Rebase(p, old, new) : p \in Movers(t, old, isdir)}

(* The handles in use that the rename supersedes.                          *)
Killed(t, old, new, isdir) ==
    {h \in InUse(t) : /\ ~Moves(t.PathMapB[h], old, isdir)
                      /\ t.PathMapB[h] \in Landed(t, old, new, isdir)}

LostOf(t) == {p \in Known(t) : t.PathMapA[p] = NoFD}

(* A handle is in use exactly if it is the number of the path it resolves  *)
(* to, ...                                                                 *)
LEMMA InUseIs ==
    ASSUME NEW t, TableType(t), Consistent(t)
    PROVE  /\ \A h \in InUse(t) : /\ h \in DOMAIN t.PathMapB /\ h # NoFD
                                 /\ t.PathMapB[h] \in Known(t)
                                 /\ t.PathMapA[t.PathMapB[h]] = h
           /\ \A p \in Known(t) : t.PathMapA[p] # NoFD =>
                 t.PathMapA[p] \in InUse(t) /\ t.PathMapB[t.PathMapA[p]] = p
BY DEF InUse, Superseded, Consistent

(* ... so that the known paths are the lost ones and those in use.         *)
LEMMA KnownIsOccupied ==
    ASSUME NEW t, TableType(t), Consistent(t)
    PROVE  Known(t) = LostOf(t) \cup {t.PathMapB[h] : h \in InUse(t)}
BY InUseIs DEF LostOf

(* What a moving path re-roots to, and that it re-roots back.              *)
LEMMA MoversOK ==
    ASSUME NEW t, TableType(t), NEW old \in Path, NEW new \in Path, NEW isdir \in BOOLEAN,
           NEW p \in Path, Moves(p, old, isdir)
    PROVE  /\ Rebase(p, old, new) \in Path
           /\ Rebase(Rebase(p, old, new), new, old) = p
           /\ (p = old) = (Rebase(p, old, new) = new)
<1>1. p = old \/ Under(p, old)
  BY DEF Moves
<1>2. Rebase(p, old, new) \in Path /\ Rebase(Rebase(p, old, new), new, old) = p
  BY <1>1, RebaseShape, RebaseInverse
<1>3. Rebase(old, old, new) = new
  <2>1. old = old \/ Under(old, old)
    OBVIOUS
  <2>2. /\ Rebase(old, old, new) \in Path
        /\ Len(Rebase(old, old, new)) = Len(new) + Len(old) - Len(old)
        /\ \A i \in 1..Len(new) : Rebase(old, old, new)[i] = new[i]
    BY <2>1, RebaseShape
  <2>3. Len(new) \in Nat /\ Len(old) \in Nat
    BY DEF Path
  <2>4. Len(Rebase(old, old, new)) = Len(new)
    BY <2>2, <2>3
  <2> QED BY <2>2, <2>4, SeqEqual DEF Path
<1>4. Rebase(new, new, old) = old
  <2>1. Rebase(Rebase(old, old, new), new, old) = old
    BY RebaseInverse
  <2> QED BY <2>1, <1>3
<1> QED BY <1>2, <1>3, <1>4

(* ReplacePath in terms of the paths that move: each takes its number      *)
(* along, every other path that is not landed on keeps its own.            *)
LEMMA RenamedNumbers ==
    ASSUME NEW t, TableType(t), Consistent(t),
           NEW old \in Path, NEW new \in Path, NEW isdir \in BOOLEAN
    PROVE  LET u  == ReplacePath(t, old, new, isdir)
               mv == Movers(t, old, isdir)
               ld == Landed(t, old, new, isdir)
           IN /\ Known(u) = (Known(t) \ mv) \cup ld
              /\ u.PathMapA[new] = IF old \in mv THEN t.PathMapA[old] ELSE NoFD
              /\ \A p \in mv : u.PathMapA[Rebase(p, old, new)] = t.PathMapA[p]
              /\ \A q \in (Known(t) \ mv) \ ld : u.PathMapA[q] = t.PathMapA[q]
              /\ \A f \in DOMAIN t.PathMapB :
                    (\A p \in mv : t.PathMapA[p] # f) /\ f # NoFD
                       => u.PathMapB[f] = t.PathMapB[f]
              /\ (DOMAIN u.PathMapB) \ {NoFD} = (DOMAIN t.PathMapB) \ {NoFD}
<1> DEFINE A     == t.PathMapA
           B     == t.PathMapB
           u     == ReplacePath(t, old, new, isdir)
           fd    == IF old \in Known(t) THEN A[old] ELSE NoFD
           moved == Descendants(t, old, isdir)
           dest  == {Rebase(p, old, new) : p \in moved}
           rest  == Known(t) \ (moved \cup {old})
           mv    == Movers(t, old, isdir)
           ld    == Landed(t, old, new, isdir)
<1>1. /\ Known(u) = rest \cup dest \cup {new}
      /\ \A q \in rest \cup dest \cup {new} : u.PathMapA[q] =
            IF q = new THEN fd ELSE IF q \in dest THEN A[Rebase(q, new, old)] ELSE A[q]
      /\ DOMAIN u.PathMapB = DOMAIN B \cup {fd}
      /\ \A f \in DOMAIN B : f # fd /\ (\A p \in moved : A[p] # f) => u.PathMapB[f] = B[f]
  BY DEF ReplacePath, Known
<1>2. mv = {p \in Known(t) : p = old \/ p \in moved} /\ moved \subseteq Known(t)
  BY DEF Movers, Moves, Descendants
<1>3. \A p \in mv : /\ Rebase(p, old, new) \in Path
                    /\ Rebase(Rebase(p, old, new), new, old) = p
                    /\ (p = old) = (Rebase(p, old, new) = new)
  BY MoversOK DEF Movers, TableType
<1>4. \A p \in moved : p # old
  BY DescendantsOK
<1>5. ld = {new} \cup {Rebase(p, old, new) : p \in mv}
  BY DEF Landed
<1>6. fd # NoFD => fd \in DOMAIN B
  BY DEF Consistent
<1> HIDE DEF A, B, u, moved, mv, ld
<1>7. rest = Known(t) \ mv
  BY <1>2
<1>8. ld = {new} \cup dest
  BY <1>2, <1>3, <1>5
<1>9. Known(u) = (Known(t) \ mv) \cup ld
  BY <1>1, <1>7, <1>8
<1>10. u.PathMapA[new] = IF old \in mv THEN A[old] ELSE NoFD
  BY <1>1, <1>2
<1>11. ASSUME NEW p \in mv PROVE u.PathMapA[Rebase(p, old, new)] = A[p]
  <2>1. CASE p = old
    BY <1>1, <1>2, <1>3, <2>1
  <2>2. CASE p # old
    <3>1. p \in moved /\ Rebase(p, old, new) \in dest /\ Rebase(p, old, new) # new
      BY <1>2, <1>3, <2>2
    <3> QED BY <1>1, <1>3, <3>1
  <2> QED BY <2>1, <2>2
<1>12. \A q \in (Known(t) \ mv) \ ld : u.PathMapA[q] = A[q]
  BY <1>1, <1>7, <1>8
<1>13. \A f \in DOMAIN B :
          (\A p \in mv : A[p] # f) /\ f # NoFD => u.PathMapB[f] = B[f]
  BY <1>1, <1>2
<1>14. (DOMAIN u.PathMapB) \ {NoFD} = (DOMAIN B) \ {NoFD}
  BY <1>1, <1>6
<1> QED BY <1>9, <1>10, <1>11, <1>12, <1>13, <1>14 DEF A, B, u, mv, ld

(* A rename, seen as HandleTable sees it: the handles of what moved follow,*)
(* those landed on are superseded and stay, the lost paths move along.     *)
LEMMA ReplacePathMoves ==
    ASSUME NEW t, TableType(t), Consistent(t),
           NEW old \in Path, NEW new \in Path, NEW isdir \in BOOLEAN
    PROVE  LET u == ReplacePath(t, old, new, isdir)
               killed == Killed(t, old, new, isdir)
           IN /\ InUse(u) = InUse(t) \ killed
              /\ \A h \in InUse(t) \ killed :
                    u.PathMapB[h] = IF Moves(t.PathMapB[h], old, isdir)
                                    THEN Rebase(t.PathMapB[h], old, new)
                                    ELSE t.PathMapB[h]
              /\ Superseded(u) = Superseded(t) \cup killed
              /\ \A h \in Superseded(t) \cup killed : u.PathMapB[h] = t.PathMapB[h]
              /\ LostOf(u) =
                    (LostOf(t) \ (Landed(t, old, new, isdir) \cup
                                     {p \in LostOf(t) : Moves(p, old, isdir)}))
                    \cup {Rebase(p, old, new) :
                             p \in {q \in LostOf(t) : Moves(q, old, isdir)}
                                      \cup ({old} \ Known(t))}
<1> DEFINE A  == t.PathMapA
           B  == t.PathMapB
           u  == ReplacePath(t, old, new, isdir)
           mv == Movers(t, old, isdir)
           ld == Landed(t, old, new, isdir)
           killed == Killed(t, old, new, isdir)
<1>1. /\ Known(u) = (Known(t) \ mv) \cup ld
      /\ u.PathMapA[new] = IF old \in mv THEN A[old] ELSE NoFD
      /\ \A p \in mv : u.PathMapA[Rebase(p, old, new)] = A[p]
      /\ \A q \in (Known(t) \ mv) \ ld : u.PathMapA[q] = A[q]
      /\ \A f \in DOMAIN B : (\A p \in mv : A[p] # f) /\ f # NoFD
                                 => u.PathMapB[f] = B[f]
      /\ (DOMAIN u.PathMapB) \ {NoFD} = (DOMAIN B) \ {NoFD}
  BY RenamedNumbers
<1>2. /\ \A h \in InUse(t) : /\ h \in DOMAIN B /\ h # NoFD
                              /\ B[h] \in Known(t) /\ A[B[h]] = h
      /\ \A p \in Known(t) : A[p] # NoFD => A[p] \in InUse(t) /\ B[A[p]] = p
  BY InUseIs
<1>3. /\ \A h \in InUse(u) : /\ h # NoFD /\ u.PathMapB[h] \in Known(u)
                              /\ u.PathMapA[u.PathMapB[h]] = h
      /\ \A p \in Known(u) : u.PathMapA[p] # NoFD =>
            u.PathMapA[p] \in InUse(u) /\ u.PathMapB[u.PathMapA[p]] = p
  <2>1. TableType(u) /\ Consistent(u)
    BY ReplacePathOK
  <2> HIDE DEF u
  <2> QED BY <2>1, InUseIs
<1>4. /\ mv = {p \in Known(t) : Moves(p, old, isdir)}
      /\ ld = {new} \cup {Rebase(p, old, new) : p \in mv}
      /\ killed = {h \in InUse(t) : ~Moves(B[h], old, isdir) /\ B[h] \in ld}
  BY DEF Movers, Landed, Killed
<1>5. Moves(old, old, isdir) /\ Rebase(old, old, new) = new
  BY MoversOK DEF Moves
<1>6. /\ Superseded(u) = ((DOMAIN u.PathMapB) \ {NoFD}) \ InUse(u)
      /\ Superseded(t) = ((DOMAIN B) \ {NoFD}) \ InUse(t)
  BY DEF InUse, Superseded
<1>7. \A h \in Superseded(t) : u.PathMapB[h] = B[h]
  BY ReplacePathFreezes
<1>8. /\ LostOf(t) = {p \in Known(t) : A[p] = NoFD}
      /\ LostOf(u) = {p \in Known(u) : u.PathMapA[p] = NoFD}
  BY DEF LostOf
<1> HIDE DEF A, B, u, mv, ld, killed
<1>9. ASSUME NEW h \in InUse(t) \ killed
      PROVE  /\ h \in InUse(u)
             /\ u.PathMapB[h] = IF Moves(B[h], old, isdir) THEN Rebase(B[h], old, new)
                                                            ELSE B[h]
  <2>1. CASE Moves(B[h], old, isdir)
    <3>1. B[h] \in mv /\ Rebase(B[h], old, new) \in Known(u)
      BY <1>1, <1>2, <1>4, <2>1
    <3>2. u.PathMapA[Rebase(B[h], old, new)] = h
      BY <1>1, <1>2, <3>1
    <3> QED BY <1>2, <1>3, <2>1, <3>1, <3>2
  <2>2. CASE ~Moves(B[h], old, isdir)
    <3>1. B[h] \in (Known(t) \ mv) \ ld
      BY <1>2, <1>4, <2>2
    <3>2. u.PathMapA[B[h]] = h /\ B[h] \in Known(u)
      BY <1>1, <1>2, <3>1
    <3> QED BY <1>2, <1>3, <2>2, <3>2
  <2> QED BY <2>1, <2>2
<1>10. ASSUME NEW h \in InUse(u) PROVE h \in InUse(t) \ killed
  <2> DEFINE q == u.PathMapB[h]
  <2>1. h # NoFD /\ q \in Known(u) /\ u.PathMapA[q] = h
    BY <1>3
  <2> HIDE DEF q
  <2>2. CASE q \in ld
    <3>1. PICK p \in mv : A[p] = h
      <4>1. CASE q = new
        BY <1>1, <2>1, <4>1
      <4>2. CASE q # new
        BY <1>1, <1>4, <2>1, <2>2, <4>2
      <4> QED BY <4>1, <4>2
    <3>2. h \in InUse(t) /\ B[h] = p /\ Moves(p, old, isdir)
      BY <1>2, <1>4, <2>1, <3>1
    <3> QED BY <1>4, <3>2
  <2>3. CASE q \notin ld
    <3>1. q \in Known(t) /\ A[q] = h
      BY <1>1, <2>1, <2>3
    <3> QED BY <1>2, <1>4, <2>1, <2>3, <3>1
  <2> QED BY <2>2, <2>3
<1>11. InUse(u) = InUse(t) \ killed
  BY <1>9, <1>10
<1>12. Superseded(u) = Superseded(t) \cup killed
  BY <1>1, <1>2, <1>4, <1>6, <1>11
<1>13. ASSUME NEW h \in killed PROVE u.PathMapB[h] = B[h]
  <2>1. h \in InUse(t) /\ ~Moves(B[h], old, isdir)
    BY <1>4
  <2>2. \A p \in mv : A[p] # h
    BY <1>2, <1>4, <2>1
  <2> QED BY <1>1, <1>2, <2>1, <2>2
<1>14. LostOf(u) = (LostOf(t) \ (ld \cup {p \in LostOf(t) : Moves(p, old, isdir)}))
                   \cup {Rebase(p, old, new) :
                            p \in {q \in LostOf(t) : Moves(q, old, isdir)}
                                     \cup ({old} \ Known(t))}
  <2> DEFINE drifters == {q \in LostOf(t) : Moves(q, old, isdir)} \cup ({old} \ Known(t))
             stay     == LostOf(t) \ (ld \cup {p \in LostOf(t) : Moves(p, old, isdir)})
  <2>1. ASSUME NEW q \in LostOf(u)
        PROVE  q \in stay \/ \E p \in drifters : q = Rebase(p, old, new)
    <3>1. q \in Known(u) /\ u.PathMapA[q] = NoFD
      BY <1>8
    <3>2. CASE q = new
      <4>1. old \in drifters
        BY <1>1, <1>4, <1>5, <1>8, <3>1, <3>2
      <4> QED BY <1>5, <3>2, <4>1
    <3>3. CASE q # new /\ q \in ld
      <4>1. PICK p \in mv : q = Rebase(p, old, new)
        BY <1>4, <3>3
      <4>2. A[p] = NoFD /\ p \in Known(t) /\ Moves(p, old, isdir)
        BY <1>1, <1>4, <3>1, <4>1
      <4>3. p \in drifters
        BY <1>8, <4>2
      <4> QED BY <4>1, <4>3
    <3>4. CASE q \notin ld
      BY <1>1, <1>4, <1>8, <3>1, <3>4
    <3> QED BY <3>2, <3>3, <3>4
  <2>2. ASSUME NEW q \in stay PROVE q \in LostOf(u)
    <3>1. q \in Known(t) /\ A[q] = NoFD /\ q \notin ld /\ q \notin mv
      BY <1>4, <1>8
    <3> QED BY <1>1, <1>8, <3>1
  <2>3. ASSUME NEW p \in drifters PROVE Rebase(p, old, new) \in LostOf(u)
    <3>1. CASE p \in LostOf(t) /\ Moves(p, old, isdir)
      <4>1. p \in mv /\ A[p] = NoFD
        BY <1>4, <1>8, <3>1
      <4> QED BY <1>1, <1>4, <1>8, <4>1
    <3>2. CASE p = old /\ old \notin Known(t)
      <4>1. u.PathMapA[new] = NoFD /\ new \in Known(u)
        BY <1>1, <1>4, <3>2
      <4> QED BY <1>5, <1>8, <3>2, <4>1
    <3> QED BY <3>1, <3>2
  <2> QED BY <2>1, <2>2, <2>3
<1> QED BY <1>7, <1>9, <1>11, <1>12, <1>13, <1>14 DEF A, B, u, ld, killed

-----------------------------------------------------------------------------
(* GetFD of an unknown path puts a fresh handle in use and moves nothing.  *)
LEMMA GetFDIssues ==
    ASSUME NEW t, TableType(t), Consistent(t), NEW p \in Path, p \notin Known(t)
    PROVE  LET u  == GetFD(t, p)
               fd == t.FDcounter + 1
           IN /\ fd \notin DOMAIN t.PathMapB
              /\ InUse(u) = InUse(t) \cup {fd}
              /\ \A h \in InUse(u) : u.PathMapB[h] = IF h = fd THEN p ELSE t.PathMapB[h]
              /\ Superseded(u) = Superseded(t)
              /\ \A h \in Superseded(t) : u.PathMapB[h] = t.PathMapB[h]
              /\ LostOf(u) = LostOf(t)
<1> DEFINE A  == t.PathMapA
           B  == t.PathMapB
           u  == GetFD(t, p)
           fd == t.FDcounter + 1
<1>1. /\ fd \notin DOMAIN B /\ fd # NoFD
      /\ \A q \in Known(t) : A[q] # fd
  BY DEF TableType, Consistent, Number, FirstFD, NoFD
<1>2. /\ Known(u) = Known(t) \cup {p}
      /\ \A q \in Known(u) : u.PathMapA[q] = IF q = p THEN fd ELSE A[q]
      /\ DOMAIN u.PathMapB = DOMAIN B \cup {fd}
      /\ \A f \in DOMAIN B \cup {fd} : u.PathMapB[f] = IF f = fd THEN p ELSE B[f]
  BY DEF GetFD, Known
<1>3. /\ InUse(t) = {f \in DOMAIN B : f # NoFD /\ B[f] \in Known(t) /\ A[B[f]] = f}
      /\ InUse(u) = {f \in DOMAIN u.PathMapB : /\ f # NoFD
                                               /\ u.PathMapB[f] \in Known(u)
                                               /\ u.PathMapA[u.PathMapB[f]] = f}
      /\ Superseded(t) = ((DOMAIN B) \ {NoFD}) \ InUse(t)
      /\ Superseded(u) = ((DOMAIN u.PathMapB) \ {NoFD}) \ InUse(u)
      /\ LostOf(t) = {q \in Known(t) : A[q] = NoFD}
      /\ LostOf(u) = {q \in Known(u) : u.PathMapA[q] = NoFD}
  BY DEF InUse, Superseded, LostOf
<1> HIDE DEF A, B, u, fd
<1>4. InUse(u) = InUse(t) \cup {fd}
  BY <1>1, <1>2, <1>3
<1>5. \A h \in InUse(u) : u.PathMapB[h] = IF h = fd THEN p ELSE B[h]
  BY <1>2, <1>3
<1>6. Superseded(u) = Superseded(t)
  BY <1>1, <1>2, <1>3, <1>4
<1>7. \A h \in Superseded(t) : u.PathMapB[h] = B[h]
  BY <1>1, <1>2, <1>3
<1>8. LostOf(u) = LostOf(t)
  BY <1>1, <1>2, <1>3
<1> QED BY <1>1, <1>4, <1>5, <1>6, <1>7, <1>8 DEF A, B, u, fd

(* The paths that are not free for a new handle are the known ones.        *)
LEMMA OccupiedIsKnown == IInv => H!Occupied = Known(fddb)
<1> SUFFICES ASSUME IInv PROVE H!Occupied = Known(fddb)
  OBVIOUS
<1>1. TableType(fddb) /\ Consistent(fddb)
  BY DEF IInv, TypeOK, TableConsistent
<1>2. Known(fddb) = LostOf(fddb) \cup {fddb.PathMapB[h] : h \in InUse(fddb)}
  BY <1>1, KnownIsOccupied
<1>3. /\ DOMAIN liveMap = InUse(fddb)
      /\ \A h \in InUse(fddb) : liveMap[h] = fddb.PathMapB[h]
  BY DEF liveMap
<1>4. lostSet = LostOf(fddb)
  BY DEF lostSet, LostOf
<1> QED BY <1>2, <1>3, <1>4 DEF H!Occupied

LEMMA InitRefines == Init => H!Init
<1> SUFFICES ASSUME Init PROVE H!Init
  OBVIOUS
<1>1. InUse(fddb) = {} /\ Superseded(fddb) = {} /\ Known(fddb) = {}
  BY DEF Init, EmptyTable, InUse, Superseded, Known
<1> QED BY <1>1 DEF Init, H!Init, liveMap, deadMap, lostSet

(* Acquire is Issue, or nothing when the path has its number already.      *)
LEMMA AcquireRefines ==
    ASSUME IInv, NEW p \in PathsUpTo(MaxLen), Acquire(p)
    PROVE  H!Issue(p) \/ UNCHANGED H!vars
<1> DEFINE fd == fddb.FDcounter + 1
<1>1. TableType(fddb) /\ Consistent(fddb) /\ p \in Path
  BY FdCacheAssumption, PathsUpToArePaths DEF IInv, TypeOK, TableConsistent
<1>2. CASE p \in Known(fddb)
  <2>1. UNCHANGED <<fddb, asdir>>
    BY <1>2 DEF Acquire, GetFD
  <2> QED BY <2>1 DEF H!vars, liveMap, deadMap, lostSet
<1>3. CASE p \notin Known(fddb)
  <2>1. /\ fd \notin DOMAIN fddb.PathMapB
        /\ InUse(fddb') = InUse(fddb) \cup {fd}
        /\ \A h \in InUse(fddb') :
              fddb'.PathMapB[h] = IF h = fd THEN p ELSE fddb.PathMapB[h]
        /\ Superseded(fddb') = Superseded(fddb)
        /\ \A h \in Superseded(fddb) : fddb'.PathMapB[h] = fddb.PathMapB[h]
        /\ LostOf(fddb') = LostOf(fddb)
    BY <1>1, <1>3, GetFDIssues DEF Acquire
  <2>2. fd \in FirstFD + 1 .. MaxFD
    <3>1. fddb'.FDcounter = fd /\ fddb'.FDcounter <= MaxFD
      BY <1>3 DEF Acquire, GetFD, Fits
    <3> QED BY <1>1, <3>1, FdCacheAssumption DEF TableType, FirstFD
  <2>3. fd \notin InUse(fddb) /\ fd \notin Superseded(fddb)
    BY <2>1 DEF InUse, Superseded
  <2> HIDE DEF fd
  <2>4. DOMAIN liveMap = InUse(fddb) /\ DOMAIN deadMap = Superseded(fddb)
    BY DEF liveMap, deadMap
  <2>5. liveMap' = [g \in DOMAIN liveMap \cup {fd} |-> IF g = fd THEN p ELSE liveMap[g]]
    BY <2>1, <2>3, <2>4 DEF liveMap
  <2>6. UNCHANGED <<deadMap, lostSet, asdir>>
    <3>1. deadMap' = deadMap
      BY <2>1 DEF deadMap
    <3>2. lostSet' = lostSet
      BY <2>1 DEF lostSet, LostOf
    <3> QED BY <3>1, <3>2 DEF Acquire
  <2>7. p \notin H!Occupied
    BY <1>3, OccupiedIsKnown
  <2> QED BY <2>2, <2>3, <2>4, <2>5, <2>6, <2>7 DEF H!Issue
<1> QED BY <1>2, <1>3

(* Rename is Rename, with the same arguments.                              *)
LEMMA RenameRefines ==
    ASSUME IInv, NEW old \in PathsUpTo(MaxLen), NEW new \in PathsUpTo(MaxLen),
           NEW isdir \in BOOLEAN, Rename(old, new, isdir)
    PROVE  H!Rename(old, new, isdir)
<1> DEFINE mvrs   == {h \in DOMAIN liveMap : Moves(liveMap[h], old, isdir)}
           ld     == Landed(fddb, old, new, isdir)
           killed == Killed(fddb, old, new, isdir)
           gone   == {h \in (DOMAIN liveMap) \ mvrs : liveMap[h] \in ld}
           adrift == {p \in lostSet : Moves(p, old, isdir)} \cup ({old} \ Known(fddb))
<1>1. TableType(fddb) /\ Consistent(fddb) /\ old \in Path /\ new \in Path
  BY FdCacheAssumption, PathsUpToArePaths DEF IInv, TypeOK, TableConsistent
<1>2. /\ InUse(fddb') = InUse(fddb) \ killed
      /\ \A h \in InUse(fddb) \ killed :
            fddb'.PathMapB[h] = IF Moves(fddb.PathMapB[h], old, isdir)
                                THEN Rebase(fddb.PathMapB[h], old, new)
                                ELSE fddb.PathMapB[h]
      /\ Superseded(fddb') = Superseded(fddb) \cup killed
      /\ \A h \in Superseded(fddb) \cup killed : fddb'.PathMapB[h] = fddb.PathMapB[h]
      /\ LostOf(fddb') =
            (LostOf(fddb) \ (ld \cup {p \in LostOf(fddb) : Moves(p, old, isdir)}))
            \cup {Rebase(p, old, new) :
                     p \in {q \in LostOf(fddb) : Moves(q, old, isdir)}
                              \cup ({old} \ Known(fddb))}
  BY <1>1, ReplacePathMoves DEF Rename
<1>3. /\ DOMAIN liveMap = InUse(fddb) /\ DOMAIN deadMap = Superseded(fddb)
      /\ \A h \in InUse(fddb) : liveMap[h] = fddb.PathMapB[h]
      /\ \A h \in Superseded(fddb) : deadMap[h] = fddb.PathMapB[h]
      /\ lostSet = LostOf(fddb) /\ lostSet' = LostOf(fddb')
  BY DEF liveMap, deadMap, lostSet, LostOf
<1>4. gone = killed
  BY <1>3 DEF Killed
<1>5. liveMap' = [h \in (DOMAIN liveMap) \ gone |->
                     IF h \in mvrs THEN Rebase(liveMap[h], old, new) ELSE liveMap[h]]
  <2> HIDE DEF killed, ld, gone
  <2>1. liveMap' = [h \in InUse(fddb) \ killed |-> fddb'.PathMapB[h]]
    BY <1>2 DEF liveMap
  <2>2. \A h \in InUse(fddb) \ killed :
           fddb'.PathMapB[h] = IF h \in mvrs THEN Rebase(liveMap[h], old, new)
                                              ELSE liveMap[h]
    BY <1>2, <1>3
  <2> HIDE DEF mvrs
  <2> QED BY <1>3, <1>4, <2>1, <2>2
<1>6. deadMap' = [h \in DOMAIN deadMap \cup gone |->
                     IF h \in gone THEN liveMap[h] ELSE deadMap[h]]
  <2>1. killed \subseteq InUse(fddb)
    BY DEF Killed
  <2> HIDE DEF killed, ld, gone
  <2>2. deadMap' = [h \in Superseded(fddb) \cup killed |-> fddb'.PathMapB[h]]
    BY <1>2 DEF deadMap
  <2>3. \A h \in Superseded(fddb) \cup killed :
           fddb'.PathMapB[h] = IF h \in gone THEN liveMap[h] ELSE deadMap[h]
    BY <1>2, <1>3, <1>4, <2>1
  <2> QED BY <1>3, <1>4, <2>2, <2>3
<1>7. lostSet' = (lostSet \ (ld \cup {p \in lostSet : Moves(p, old, isdir)}))
                    \cup {Rebase(p, old, new) : p \in adrift}
  BY <1>2, <1>3
<1>8. H!Occupied = Known(fddb)
  BY OccupiedIsKnown
<1>9. ld = {new} \cup {H!Rebase(p, old, new) :
                         p \in {q \in H!Occupied : q = old \/ (isdir /\ H!Under(q, old))}}
  BY <1>8 DEF Landed, Movers, Moves, H!Rebase, Rebase, H!Under, Under
<1>10. old = new \/ (~H!Under(new, old) /\ ~H!Under(old, new))
  BY DEF Rename, Movable, H!Under, Under
<1>11. asdir' = isdir
  BY DEF Rename
<1>12. \A p, q, r : H!Rebase(p, q, r) = Rebase(p, q, r)
  BY DEF H!Rebase, Rebase
<1>13. \A p : Moves(p, old, isdir) = (p = old \/ (isdir /\ H!Under(p, old)))
  BY DEF Moves, H!Under, Under
<1> HIDE DEF ld
<1> QED
  BY <1>5, <1>6, <1>7, <1>8, <1>9, <1>10, <1>11, <1>12, <1>13 DEF H!Rename

(* Restart is Restart.                                                     *)
LEMMA RestartRefines == Restart => H!Restart
<1> SUFFICES ASSUME Restart PROVE H!Restart
  OBVIOUS
<1>1. InUse(fddb') = {} /\ Superseded(fddb') = {} /\ Known(fddb') = {}
  BY DEF Restart, EmptyTable, InUse, Superseded, Known
<1> QED BY <1>1 DEF Restart, H!Restart, liveMap, deadMap, lostSet

(* The table keeps the promise of HandleTable.                             *)
THEOREM TableFollowsObjects == Spec => FollowsObjects
<1>1. IInv /\ [Next]_vars => [H!Next]_(H!vars)
  <2> SUFFICES ASSUME IInv, [Next]_vars PROVE H!Next \/ UNCHANGED H!vars
    OBVIOUS
  <2> USE DEF H!Next
  <2>0. PathsUpTo(MaxLen) = H!PathsUpTo(MaxLen)
    BY DEF PathsUpTo, H!PathsUpTo
  <2>1. ASSUME NEW p \in PathsUpTo(MaxLen), Acquire(p)
        PROVE  H!Next \/ UNCHANGED H!vars
    BY <2>0, <2>1, AcquireRefines
  <2>2. ASSUME NEW old \in PathsUpTo(MaxLen), NEW new \in PathsUpTo(MaxLen),
               NEW isdir \in BOOLEAN, Rename(old, new, isdir)
        PROVE  H!Next
    BY <2>0, <2>2, RenameRefines
  <2>3. CASE Restart
    BY <2>3, RestartRefines
  <2>4. CASE UNCHANGED vars
    BY <2>4 DEF vars, H!vars, liveMap, deadMap, lostSet
  <2> QED BY <2>1, <2>2, <2>3, <2>4 DEF Next
<1> QED
  BY <1>1, InitRefines, IInvInit, IInvNext, PTL DEF Spec, FollowsObjects, H!Spec
=============================================================================
