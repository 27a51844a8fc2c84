------------------------------- MODULE Paths -------------------------------
(***************************************************************************)
(* Absolute, cleaned paths.  The Go side of the server applies             *)
(* path.Clean("/" + s) to every string it receives from C, so a path is    *)
(* the sequence of its components and "/" is the empty sequence.           *)
(***************************************************************************)
EXTENDS Naturals, Sequences

CONSTANTS
    Name,      \* the ordinary file names: not empty, no "/", not "." or ".."
    NULL       \* no path: the char * that fh_decomp returns on failure

Path == Seq(Name)

ASSUME PathsAssumption == NULL \notin Path

Root == << >>

Parent(p) == SubSeq(p, 1, Len(p) - 1)

(* p lies strictly below q: the test strings.HasPrefix(p, q + "/").        *)
Under(p, q) == /\ Len(q) < Len(p)
               /\ SubSeq(p, 1, Len(q)) = q

(* p with its prefix old exchanged for new: strings.Replace(p, old + "/",  *)
(* new + "/", 1) for a p below old, and new itself for p = old.            *)
Rebase(p, old, new) == new \o SubSeq(p, Len(old) + 1, Len(p))

(* The paths of at most n components: the inputs of a bounded instance.    *)
PathsUpTo(n) == UNION {[1..k -> Name] : k \in 0..n}
=============================================================================
