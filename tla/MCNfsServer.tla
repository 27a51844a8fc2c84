---------------------------- MODULE MCNfsServer ----------------------------
(* Trees and bounds for the namespace of NfsServer.                        *)
EXTENDS NfsServer, TLC

object(id, kind) ==
    [id |-> id, kind |-> kind, mode |-> DefaultMode, size |-> 0,
     mtime |-> CHOOSE t \in Times : TRUE]

BareTree == [node |-> << >> :> object(RootId, "DIR"), born |-> 1]

(* A directory with one file in it, under each naming of the two.          *)
SmallTrees ==
    {[node |-> << >> :> object(RootId, "DIR") @@ <<n>> :> object(2, "DIR")
                 @@ <<n, m>> :> object(3, "REG"),
      born |-> 3] : n, m \in Name}

MCTrees == {BareTree} \cup SmallTrees

(* One file in the root.                                                   *)
MCOneFile ==
    {[node |-> << >> :> object(RootId, "DIR") @@ <<n>> :> object(2, "REG"),
      born |-> 2] : n \in Name}

NameSymmetry == Permutations(Name)
=============================================================================
