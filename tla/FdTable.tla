------------------------------ MODULE FdTable ------------------------------
(***************************************************************************)
(* The file handle table of unfs2go_exports.go (type fdCache): PathMapA    *)
(* gives the number of a path, PathMapB the path of a number.  The number  *)
(* is what the C side puts in a file handle and in every fileid.           *)
(*                                                                         *)
(* A table is a record and a method an operator that returns the new       *)
(* table, so that a module can thread a table through a handler that calls *)
(* several of them.  FdCache is the table as a state machine.              *)
(***************************************************************************)
EXTENDS Paths

FirstFD == 100          \* go_init starts the counter here
NoFD    == 0            \* what a Go map returns for an absent key

(* The empty table of go_init.                                             *)
EmptyTable == [PathMapA  |-> [p \in {} |-> NoFD],
               PathMapB  |-> [f \in {} |-> Root],
               FDcounter |-> FirstFD]

Known(t) == DOMAIN t.PathMapA

(* fdCache.GetPath: numbers below 100 are refused before the lookup.       *)
GetPath(t, fd) == IF fd >= 100 /\ fd \in DOMAIN t.PathMapB
                  THEN t.PathMapB[fd] ELSE NULL

(* fdCache.GetFD: the number it returns ...                                *)
FDOf(t, p) == IF p \in Known(t) THEN t.PathMapA[p] ELSE t.FDcounter + 1

(* Mutants of GetFD, for the checks: the counter is read before it is      *)
(* incremented, is not written back, the number is not put into PathMapB,  *)
(* or a number whose path this once was is found again.                    *)
GetFD_PostIncrement(t, p) ==
    IF p \in Known(t) THEN t
    ELSE [PathMapA  |-> [q \in Known(t) \cup {p} |->
                            IF q = p THEN t.FDcounter ELSE t.PathMapA[q]],
          PathMapB  |-> [f \in DOMAIN t.PathMapB \cup {t.FDcounter} |->
                            IF f = t.FDcounter THEN p ELSE t.PathMapB[f]],
          FDcounter |-> t.FDcounter + 1]

GetFD_NotCounted(t, p) ==
    IF p \in Known(t) THEN t
    ELSE [PathMapA  |-> [q \in Known(t) \cup {p} |->
                            IF q = p THEN t.FDcounter + 1 ELSE t.PathMapA[q]],
          PathMapB  |-> [f \in DOMAIN t.PathMapB \cup {t.FDcounter + 1} |->
                            IF f = t.FDcounter + 1 THEN p ELSE t.PathMapB[f]],
          FDcounter |-> t.FDcounter]

GetFD_OneWay(t, p) ==
    IF p \in Known(t) THEN t
    ELSE [t EXCEPT !.FDcounter = @ + 1,
                   !.PathMapA = [q \in Known(t) \cup {p} |->
                                    IF q = p THEN t.FDcounter + 1 ELSE t.PathMapA[q]]]

GetFD_Recycles(t, p) ==
    LET old == {f \in DOMAIN t.PathMapB : t.PathMapB[f] = p}
        fd  == IF old = {} THEN t.FDcounter + 1 ELSE CHOOSE f \in old : TRUE
    IN IF p \in Known(t) THEN t
       ELSE [PathMapA  |-> [q \in Known(t) \cup {p} |->
                               IF q = p THEN fd ELSE t.PathMapA[q]],
             PathMapB  |-> [f \in DOMAIN t.PathMapB \cup {fd} |->
                               IF f = fd THEN p ELSE t.PathMapB[f]],
             FDcounter |-> IF old = {} THEN fd ELSE t.FDcounter]

(* ... and the table it leaves.                                            *)
GetFD(t, p) ==
    IF p \in Known(t) THEN t
    ELSE LET fd == t.FDcounter + 1 IN
         [PathMapA  |-> [q \in Known(t) \cup {p} |->
                            IF q = p THEN fd ELSE t.PathMapA[q]],
          PathMapB  |-> [f \in DOMAIN t.PathMapB \cup {fd} |->
                            IF f = fd THEN p ELSE t.PathMapB[f]],
          FDcounter |-> fd]

(***************************************************************************)
(* fdCache.ReplacePath.  The number of the old path, 0 when it has none,   *)
(* goes to the new path; for a directory every known path below it is      *)
(* re-rooted, whatever order Go visits the map in: a re-rooted path is     *)
(* never below oldpath, unless the two are equal and nothing changes.      *)
(* Entry 0 of PathMapB alone depends on that order; GetPath never reads it.*)
(***************************************************************************)
Descendants_None(t, old, isdir) == {}     \* mutant: the loop is left out
Descendants(t, old, isdir) == {p \in Known(t) : isdir /\ Under(p, old)}

(* Mutants: the numbers of re-rooted paths keep their old path, or the old *)
(* path keeps its number.                                                  *)
ReplacePath_StaleChildren(t, old, new, isdir) ==
    LET A     == t.PathMapA
        fd    == IF old \in Known(t) THEN A[old] ELSE NoFD
        moved == Descendants(t, old, isdir)
        dest  == {Rebase(p, old, new) : p \in moved}
    IN [PathMapA  |-> [q \in (Known(t) \ (moved \cup {old})) \cup dest \cup {new} |->
                          IF q = new THEN fd
                          ELSE IF q \in dest THEN A[Rebase(q, new, old)] ELSE A[q]],
        PathMapB  |-> [f \in DOMAIN t.PathMapB \cup {fd} |->
                          IF f = fd THEN new ELSE t.PathMapB[f]],
        FDcounter |-> t.FDcounter]

ReplacePath_KeepsOld(t, old, new, isdir) ==
    LET fd == IF old \in Known(t) THEN t.PathMapA[old] ELSE NoFD
    IN [PathMapA  |-> [q \in Known(t) \cup {new} |-> IF q = new THEN fd ELSE t.PathMapA[q]],
        PathMapB  |-> [f \in DOMAIN t.PathMapB \cup {fd} |->
                          IF f = fd THEN new ELSE t.PathMapB[f]],
        FDcounter |-> t.FDcounter]

ReplacePath(t, old, new, isdir) ==
    LET A     == t.PathMapA
        B     == t.PathMapB
        fd    == IF old \in Known(t) THEN A[old] ELSE NoFD
        moved == Descendants(t, old, isdir)
        dest  == {Rebase(p, old, new) : p \in moved}
        rest  == Known(t) \ (moved \cup {old})
    IN [PathMapA  |-> [q \in rest \cup dest \cup {new} |->
                          IF q = new THEN fd
                          ELSE IF q \in dest THEN A[Rebase(q, new, old)]
                          ELSE A[q]],
        PathMapB  |-> [f \in DOMAIN B \cup {fd} |->
                          IF f = fd THEN new
                          ELSE IF \E p \in moved : A[p] = f
                               THEN Rebase(CHOOSE p \in moved : A[p] = f, old, new)
                               ELSE B[f]],
        FDcounter |-> t.FDcounter]

(* The renames that reach ReplacePath: ns.Move has already refused to move *)
(* a directory into itself or over one of its ancestors.                   *)
Movable(old, new) == old = new \/ (~Under(new, old) /\ ~Under(old, new))

-----------------------------------------------------------------------------
(* The numbers a table can hold: 0, and those GetFD hands out.             *)
Number == {NoFD} \cup {f \in Nat : f > FirstFD}

TableType(t) ==
    /\ t = [PathMapA |-> t.PathMapA, PathMapB |-> t.PathMapB, FDcounter |-> t.FDcounter]
    /\ Known(t) \subseteq Path
    /\ t.PathMapA \in [Known(t) -> Number]
    /\ DOMAIN t.PathMapB \subseteq Number
    /\ t.PathMapB \in [DOMAIN t.PathMapB -> Path]
    /\ t.FDcounter \in Nat
    /\ t.FDcounter >= FirstFD

(* Every number handed out still resolves, and the number of a path        *)
(* resolves to that path.                                                  *)
Consistent(t) ==
    /\ \A f \in DOMAIN t.PathMapB : f <= t.FDcounter
    /\ FirstFD + 1 .. t.FDcounter \subseteq DOMAIN t.PathMapB
    /\ \A p \in Known(t) :
          t.PathMapA[p] # NoFD => /\ t.PathMapA[p] \in DOMAIN t.PathMapB
                                 /\ t.PathMapB[t.PathMapA[p]] = p

(* The handles whose path has since been taken over by another number:     *)
(* what is left of the target of a rename.                                 *)
Superseded(t) == {f \in DOMAIN t.PathMapB :
                     /\ f # NoFD
                     /\ \/ t.PathMapB[f] \notin Known(t)
                        \/ t.PathMapA[t.PathMapB[f]] # f}

InUse(t) == {f \in DOMAIN t.PathMapB : f # NoFD} \ Superseded(t)
=============================================================================
