------------------------------- MODULE MinFS -------------------------------
(***************************************************************************)
(* The minfs file system behind the server (ns in unfs2go.go).  It is not  *)
(* part of the repository: each operator below is the behaviour the calls  *)
(* in unfs2go_exports.go rely on.  A call that changes the tree either     *)
(* takes effect at once or fails and leaves the tree alone; it may always  *)
(* fail with an error the server does not recognise ("other").  Stat and   *)
(* ReadDirectory fail only for a path that is not there.                   *)
(*                                                                         *)
(* A tree is [node, born]: node maps the paths that exist to objects, born *)
(* counts the objects ever made, so that an object keeps one identity      *)
(* whatever it is called.                                                  *)
(***************************************************************************)
EXTENDS Paths, FiniteSets

CONSTANTS
    Modes, DefaultMode,   \* permission bits; the 0775 of create_mode
    Times                 \* modification times

ASSUME MinFSAssumption == DefaultMode \in Modes

GoError == {"nil", "ErrPermission", "ErrNotExist", "ErrInvalid", "ErrExist",
            "not_empty", "other"}

RootId == 1

Exists(f, p) == p \in DOMAIN f.node
IsDir(f, p)  == Exists(f, p) /\ f.node[p].kind = "DIR"
Children(f, p) == {q \in DOMAIN f.node : q # Root /\ Parent(q) = p}
Ids(f) == {f.node[p].id : p \in DOMAIN f.node}

(* Every object but the root has its directory, and none is in two places. *)
Object == [id : Nat \ {0}, kind : {"REG", "DIR"}, mode : Modes, size : Nat, mtime : Times]

TreeType(f) ==
    /\ f = [node |-> f.node, born |-> f.born]
    /\ f.born \in Nat
    /\ IsFiniteSet(DOMAIN f.node)
    /\ DOMAIN f.node \subseteq Path
    /\ f.node \in [DOMAIN f.node -> Object]
    /\ Root \in DOMAIN f.node
    /\ \A p \in DOMAIN f.node : f.node[p].id <= f.born /\ IsDir(f, Parent(p))
    /\ \A p, q \in DOMAIN f.node : f.node[p].id = f.node[q].id => p = q

Fail(f, e) == [err |-> e, fs |-> f]
Done(f)    == [err |-> "nil", fs |-> f]
(* Either the effect f2, or an unrecognised failure that leaves f.         *)
MayFail(f, f2) == {Done(f2), Fail(f, "other")}

-----------------------------------------------------------------------------
(* A new object at p.                                                      *)
Born(f, p, kind, mtime) ==
    [node |-> [q \in DOMAIN f.node \cup {p} |->
                  IF q = p THEN [id    |-> f.born + 1, kind |-> kind,
                                 mode  |-> DefaultMode, size |-> 0, mtime |-> mtime]
                  ELSE f.node[q]],
     born |-> f.born + 1]

Make(f, p, kind) ==
    IF Exists(f, p) THEN {Fail(f, "ErrExist")}
    ELSE IF ~IsDir(f, Parent(p)) THEN {Fail(f, "ErrNotExist")}
    ELSE UNION {MayFail(f, Born(f, p, kind, mt)) : mt \in Times}

CreateFile(f, p)      == Make(f, p, "REG")
CreateDirectory(f, p) == Make(f, p, "DIR")

(* Remove: files and empty directories, never the exported root.           *)
Without(f, p) == [f EXCEPT !.node = [q \in DOMAIN f.node \ {p} |-> f.node[q]]]

Remove(f, p) ==
    IF ~Exists(f, p) THEN {Fail(f, "ErrNotExist")}
    ELSE IF p = Root THEN {Fail(f, "ErrPermission")}
    ELSE IF Children(f, p) # {} THEN {Fail(f, "not_empty")}
    ELSE MayFail(f, Without(f, p))

(* Move: the object and everything below it; a target of the same kind,    *)
(* empty if it is a directory, is replaced.                                *)
Moved(f, old, new) ==
    LET inside == {q \in DOMAIN f.node : q = old \/ Under(q, old)}
        dest   == {Rebase(q, old, new) : q \in inside}
    IN [f EXCEPT !.node =
          [q \in ((DOMAIN f.node) \ (inside \cup {new})) \cup dest |->
              IF q \in dest THEN f.node[Rebase(q, new, old)] ELSE f.node[q]]]

Move(f, old, new) ==
    IF ~Exists(f, old) THEN {Fail(f, "ErrNotExist")}
    ELSE IF old = new THEN MayFail(f, f)
    ELSE IF old = Root \/ new = Root \/ Under(new, old) THEN {Fail(f, "ErrInvalid")}
    ELSE IF ~IsDir(f, Parent(new)) THEN {Fail(f, "ErrNotExist")}
    ELSE IF Exists(f, new) /\ IsDir(f, old) # IsDir(f, new) THEN {Fail(f, "ErrExist")}
    ELSE IF Children(f, new) # {} THEN {Fail(f, "not_empty")}
    ELSE MayFail(f, Moved(f, old, new))

-----------------------------------------------------------------------------
(* SetAttribute(p, attr, v) for attr in "mode", "size", "mtime" (modtime); *)
(* a backend may take the time of a truncation for the modification time.  *)
SetAttribute(f, p, attr, v) ==
    IF ~Exists(f, p) THEN {Fail(f, "ErrNotExist")}
    ELSE IF attr # "size" THEN MayFail(f, [f EXCEPT !.node[p] = [@ EXCEPT ![attr] = v]])
    ELSE IF IsDir(f, p) THEN {Fail(f, "ErrInvalid")}
    ELSE UNION {MayFail(f, [f EXCEPT !.node[p] = [@ EXCEPT !.size = v, !.mtime = mt]]) :
                   mt \in Times}

(* WriteFile of n bytes at off: all of them, or an error.                  *)
WriteFile(f, p, off, n) ==
    LET grown(size) == IF off + n > size THEN off + n ELSE size
    IN IF ~Exists(f, p) THEN {Fail(f, "ErrNotExist")}
       ELSE IF IsDir(f, p) THEN {Fail(f, "ErrInvalid")}
       ELSE UNION {MayFail(f, [f EXCEPT !.node[p] =
                       [@ EXCEPT !.size = grown(f.node[p].size), !.mtime = mt]]) : mt \in Times}

ReadFile(f, p) ==
    IF ~Exists(f, p) THEN {Fail(f, "ErrNotExist")}
    ELSE IF IsDir(f, p) THEN {Fail(f, "ErrInvalid")}
    ELSE MayFail(f, f)
=============================================================================
