---------------------------- MODULE HandleTable ----------------------------
(***************************************************************************)
(* What the file handle table promises the rest of the server, without its *)
(* two maps: a handle is issued for a path, then follows the object that   *)
(* was there through every rename of the object or of a directory above    *)
(* it, until another object is renamed onto its path.  From then on it is  *)
(* dead: it keeps its last path and never follows anything again.          *)
(*                                                                         *)
(* An object renamed before any handle was issued for it is lost: no       *)
(* handle is ever issued for it as long as this process runs.              *)
(***************************************************************************)
EXTENDS Paths

CONSTANTS
    Handle,    \* the handles that can be issued
    MaxLen     \* bound: the longest path

VARIABLES
    live,      \* handle -> path of the object it follows
    dead,      \* handle -> last path, once another object has taken it
    lost,      \* paths of the objects that have no handle
    asdir      \* whether the last rename was of a directory

vars == <<live, dead, lost, asdir>>

Init == /\ live = [h \in {} |-> Root]
        /\ dead = [h \in {} |-> Root]
        /\ lost = {}
        /\ asdir = FALSE

Occupied == lost \cup {live[h] : h \in DOMAIN live}

Issue(p) ==
    /\ p \notin Occupied
    /\ \E h \in Handle \ (DOMAIN live \cup DOMAIN dead) :
          live' = [g \in DOMAIN live \cup {h} |-> IF g = h THEN p ELSE live[g]]
    /\ UNCHANGED <<dead, lost, asdir>>

Rename(old, new, isdir) ==
    LET Moves(p) == p = old \/ (isdir /\ Under(p, old))
        movers   == {h \in DOMAIN live : Moves(live[h])}
        landed   == {new} \cup {Rebase(p, old, new) : p \in {q \in Occupied : Moves(q)}}
        killed   == {h \in DOMAIN live \ movers : live[h] \in landed}
        drifters == {p \in lost : Moves(p)} \cup ({old} \ Occupied)
    IN /\ old = new \/ (~Under(new, old) /\ ~Under(old, new))
       /\ asdir' = isdir
       /\ live' = [h \in DOMAIN live \ killed |->
                      IF h \in movers THEN Rebase(live[h], old, new) ELSE live[h]]
       /\ dead' = [h \in DOMAIN dead \cup killed |->
                      IF h \in killed THEN live[h] ELSE dead[h]]
       /\ lost' = (lost \ (landed \cup {p \in lost : Moves(p)}))
                     \cup {Rebase(p, old, new) : p \in drifters}

Restart == /\ live' = [h \in {} |-> Root]
           /\ dead' = [h \in {} |-> Root]
           /\ lost' = {}
           /\ UNCHANGED asdir

Next == \/ \E p \in PathsUpTo(MaxLen) : Issue(p)
        \/ \E old, new \in PathsUpTo(MaxLen), isdir \in BOOLEAN : Rename(old, new, isdir)
        \/ Restart

Spec == Init /\ [][Next]_vars
=============================================================================
