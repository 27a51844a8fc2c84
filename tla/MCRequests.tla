----------------------------- MODULE MCRequests -----------------------------
(* Requests on the root (number 101) and on the object numbered next: each *)
(* procedure, with names that are and are not there.                       *)
EXTENDS Requests

CONSTANTS a, b, m1, m2, t1, t2

object(id, kind) == [id |-> id, kind |-> kind, mode |-> m1, size |-> 0, mtime |-> t1]

(* A file, or an empty directory, in the root.                             *)
MCTree ==
    {[node |-> [p \in {Root, <<a>>} |-> IF p = Root THEN object(1, "DIR") ELSE object(2, kind)],
      born |-> 2] : kind \in {"REG", "DIR"}}

MCRequest ==
    [proc : {"CREATE"}, h : {101}, name : {a}, how : {"UNCHECKED", "GUARDED"}, mode : {<<m2>>}]
    \cup [proc : {"MKDIR"}, h : {101}, name : {b}]
    \cup [proc : {"REMOVE", "RMDIR"}, h : {101}, name : {a}]
    \cup [proc : {"RENAME"}, h : {101}, name : {b}, h2 : {101}, name2 : {a}]
    \cup [proc : {"RENAME"}, h : {101}, name : {a}, h2 : {101}, name2 : {b}]
    \cup [proc : {"SETATTR"}, h : {102}, size : {<<1>>}, mode : {<<>>}, mtime : {<<t2>>}]
=============================================================================
