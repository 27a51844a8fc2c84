------------------------------ MODULE FdCache ------------------------------
(***************************************************************************)
(* The file handle table alone, under any sequence of the calls that the   *)
(* RPC thread, its only caller, can make.                                  *)
(***************************************************************************)
EXTENDS FdTable, FiniteSets

CONSTANTS
    MaxFD,     \* bound: the largest number the table hands out
    MaxLen,    \* bound: the longest path the table stores
    MaxKnown   \* bound: how many paths it stores

ASSUME FdCacheAssumption == MaxFD \in Nat /\ MaxLen \in Nat /\ MaxKnown \in Nat

VARIABLES
    fddb,
    asdir      \* history: what the last ReplacePath was told of its path's kind

vars == <<fddb, asdir>>

Fits(t) == /\ t.FDcounter <= MaxFD
           /\ \A p \in Known(t) : Len(p) <= MaxLen
           /\ Cardinality(Known(t)) <= MaxKnown

-----------------------------------------------------------------------------
Init == fddb = EmptyTable /\ asdir = FALSE

Acquire(p) == /\ fddb' = GetFD(fddb, p)
              /\ Fits(fddb')
              /\ UNCHANGED asdir

Rename(old, new, isdir) == /\ Movable(old, new)
                           /\ fddb' = ReplacePath(fddb, old, new, isdir)
                           /\ asdir' = isdir
                           /\ Fits(fddb')

(* A new process starts from go_init.                                      *)
Restart == fddb' = EmptyTable /\ UNCHANGED asdir

Next == \/ \E p \in PathsUpTo(MaxLen) : Acquire(p)
        \/ \E old, new \in PathsUpTo(MaxLen), isdir \in BOOLEAN :
              Rename(old, new, isdir)
        \/ Restart

Spec == Init /\ [][Next]_vars

-----------------------------------------------------------------------------
TypeOK == TableType(fddb) /\ asdir \in BOOLEAN

(* The table never forgets or renumbers: every number it has handed out    *)
(* still resolves, and the number of a path resolves to that path, so two  *)
(* paths never share a number other than 0.                                *)
TableConsistent == Consistent(fddb)

(* A superseded handle is frozen while the process lives: no later call    *)
(* brings it back as the number of any path or changes what it resolves to,*)
(* so it can never follow, nor be handed out for, another object.          *)
SupersededStep ==
    fddb' # EmptyTable =>
        \A f \in Superseded(fddb) :
            /\ f \in Superseded(fddb')
            /\ fddb'.PathMapB[f] = fddb.PathMapB[f]

SupersededFrozen == [][SupersededStep]_fddb

-----------------------------------------------------------------------------
(* The table seen as HandleTable sees it: where each handle in use points, *)
(* the superseded handles, and the paths that were moved under number 0.   *)
liveMap == [f \in InUse(fddb) |-> fddb.PathMapB[f]]
deadMap == [f \in Superseded(fddb) |-> fddb.PathMapB[f]]
lostSet == {p \in Known(fddb) : fddb.PathMapA[p] = NoFD}

H == INSTANCE HandleTable WITH Handle <- FirstFD + 1 .. MaxFD,
                               live <- liveMap, dead <- deadMap, lost <- lostSet

(* The two maps together keep the promise of HandleTable: a handle follows *)
(* its object through every rename of it or of a directory above it, and   *)
(* only a rename that is told of a directory moves what is below.          *)
FollowsObjects == H!Spec
=============================================================================
