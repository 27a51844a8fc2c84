----------------------------- MODULE GoExports -----------------------------
(***************************************************************************)
(* The exported functions of unfs2go_exports.go that the NFS procedures    *)
(* call, and cat_name and create_mode, which make their arguments.         *)
(*                                                                         *)
(* A server state s is [fs, fddb]: the backend's tree and the handle       *)
(* table.  A go_ function maps it to the set of [status, s] that the call  *)
(* can return and leave.                                                   *)
(***************************************************************************)
EXTENDS FdTable, MinFS

CONSTANT
    MaxDepth        \* stands for NFS_MAXPATHLEN: the components cat_name lets through

ASSUME GoExportsAssumption == MaxDepth \in Nat

BadName == "/"                          \* stands for a name cat_name refuses
(* The members of nfsstat3 that the program answers with.                  *)
Status == {"OK", "STALE", "ACCES", "NOENT", "INVAL", "EXIST", "NOTEMPTY", "IO",
           "ISDIR", "NOTDIR", "NAMETOOLONG", "NOTSUPP", "BAD_COOKIE"}

SetIt(S) == {<<>>} \cup {<<v>> : v \in S}    \* an optional attribute of sattr3

-----------------------------------------------------------------------------
(* unfs2go_exports.go: errTranslator; as a mutant, its default is taken for *)
(* an object that is not there.                                            *)
errTranslator_OtherIsNoent ==
    [e \in GoError |->
        CASE e = "nil"           -> "OK"
          [] e = "ErrPermission" -> "ACCES"
          [] e = "ErrNotExist"   -> "NOENT"
          [] e = "ErrInvalid"    -> "INVAL"
          [] e = "ErrExist"      -> "EXIST"
          [] e = "not_empty"     -> "NOTEMPTY"
          [] e = "other"         -> "NOENT"]

errTranslator ==
    [e \in GoError |->
        CASE e = "nil"           -> "OK"
          [] e = "ErrPermission" -> "ACCES"
          [] e = "ErrNotExist"   -> "NOENT"
          [] e = "ErrInvalid"    -> "INVAL"
          [] e = "ErrExist"      -> "EXIST"
          [] e = "not_empty"     -> "NOTEMPTY"
          [] e = "other"         -> "IO"]

(* pathpkg.Clean("/" + C.GoString(path)): a NULL path is "/".              *)
Clean(path) == IF path = NULL THEN Root ELSE path

Result(st, s) == [status |-> st, s |-> s]
(* The translated outcomes of a backend call made in s.                    *)
Translated(s, outcomes) ==
    {Result(errTranslator[o.err], [s EXCEPT !.fs = o.fs]) : o \in outcomes}
(* f goes on from the outcomes in R that are OK.                           *)
Then(R, f(_)) == {r \in R : r.status # "OK"}
                    \cup UNION {f(r.s) : r \in {q \in R : q.status = "OK"}}

(* go_lstat, go_sync and statTranslator: a path that is there gets a number.*)
go_lstat(s, path) ==
    IF Exists(s.fs, Clean(path))
    THEN Result("OK", [s EXCEPT !.fddb = GetFD(@, Clean(path))])
    ELSE Result("NOENT", s)
go_sync(s, path) == go_lstat(s, path)

go_set(s, path, attr, v) == Translated(s, SetAttribute(s.fs, Clean(path), attr, v))
go_truncate(s, path, size) == go_set(s, path, "size", size)
go_chmod(s, path, mode)    == go_set(s, path, "mode", mode)
go_modtime(s, path, mtime) == go_set(s, path, "mtime", mtime)

(* Mutant: the error of CreateFile does not end the call.                  *)
go_create_GoesOn(s, path, mode) ==
    UNION {go_chmod(r.s, path, mode) : r \in Translated(s, CreateFile(s.fs, Clean(path)))}

go_create(s, path, mode) ==
    LET pp == Clean(path)
        setmode(s1) == go_chmod(s1, pp, mode)
    IN Then(Translated(s, CreateFile(s.fs, pp)), setmode)

go_createover(s, path, mode) ==
    LET pp == Clean(path)
        create(s1) == go_create(s1, pp, mode)
    IN IF IsDir(s.fs, pp) THEN {Result("ISDIR", s)}
       ELSE IF Exists(s.fs, pp) THEN Then(Translated(s, Remove(s.fs, pp)), create)
       ELSE create(s)

go_remove(s, path) ==
    LET pp == Clean(path)
    IN IF ~Exists(s.fs, pp) THEN {Result("NOENT", s)}
       ELSE IF IsDir(s.fs, pp) THEN {Result("ISDIR", s)}
       ELSE Translated(s, Remove(s.fs, pp))

(* Mutant: the kind is looked at after the removal.                        *)
go_rmdir_TestsLate(s, path) ==
    LET pp == Clean(path)
        check(s1) == {Result(IF IsDir(s.fs, pp) THEN "OK" ELSE "NOTDIR", s1)}
    IN IF ~Exists(s.fs, pp) THEN {Result("NOENT", s)}
       ELSE Then(Translated(s, Remove(s.fs, pp)), check)

go_rmdir(s, path) ==
    LET pp == Clean(path)
    IN IF ~Exists(s.fs, pp) THEN {Result("NOENT", s)}
       ELSE IF ~IsDir(s.fs, pp) THEN {Result("NOTDIR", s)}
       ELSE Translated(s, Remove(s.fs, pp))

go_mkdir(s, path) == Translated(s, CreateDirectory(s.fs, Clean(path)))

(* Mutants: the stat is made after the move, or the target is removed first.*)
go_rename_StatsLate(s, oldpath, newpath) ==
    LET op == Clean(oldpath)
        np == Clean(newpath)
        replace(s1) == {Result("OK", [s1 EXCEPT
                            !.fddb = ReplacePath(@, op, np, IsDir(s1.fs, op))])}
    IN IF ~Exists(s.fs, op) THEN {Result("NOENT", s)}
       ELSE Then(Translated(s, Move(s.fs, op, np)), replace)

go_rename_RemovesFirst(s, oldpath, newpath) ==
    LET op == Clean(oldpath)
        np == Clean(newpath)
        replace(s1) == {Result("OK", [s1 EXCEPT
                            !.fddb = ReplacePath(@, op, np, IsDir(s.fs, op))])}
        move(s1) == Then(Translated(s1, Move(s1.fs, op, np)), replace)
    IN IF ~Exists(s.fs, op) THEN {Result("NOENT", s)}
       ELSE IF Exists(s.fs, np) THEN Then(Translated(s, Remove(s.fs, np)), move)
       ELSE move(s)

go_rename(s, oldpath, newpath) ==
    LET op == Clean(oldpath)
        np == Clean(newpath)
        replace(s1) == {Result("OK", [s1 EXCEPT
                            !.fddb = ReplacePath(@, op, np, IsDir(s.fs, op))])}
    IN IF ~Exists(s.fs, op) THEN {Result("NOENT", s)}
       ELSE Then(Translated(s, Move(s.fs, op, np)), replace)

go_pwrite(s, path, offset, count) ==
    Translated(s, WriteFile(s.fs, Clean(path), offset, count))
go_pread(s, path) == Translated(s, ReadFile(s.fs, Clean(path)))

(* go_readdir_full: the entries of the page, whichever they are, get       *)
(* numbers in the order the backend lists them.                            *)
Numberings(t, page) ==
    LET fresh == page \ Known(t)
        next  == t.FDcounter + 1 .. t.FDcounter + Cardinality(fresh)
    IN {num \in [fresh -> next] : \A p, q \in fresh : num[p] = num[q] => p = q}

Enter(t, num) ==
    LET entered == {num[p] : p \in DOMAIN num}
    IN [PathMapA  |-> [p \in Known(t) \cup DOMAIN num |->
                          IF p \in DOMAIN num THEN num[p] ELSE t.PathMapA[p]],
        PathMapB  |-> [f \in DOMAIN t.PathMapB \cup entered |->
                          IF f \in entered THEN CHOOSE p \in DOMAIN num : num[p] = f
                          ELSE t.PathMapB[f]],
        FDcounter |-> t.FDcounter + Cardinality(DOMAIN num)]

go_readdir_full(s, path) ==
    LET dirp == Clean(path)
    IN IF ~Exists(s.fs, dirp) THEN {Result("NOENT", s)}
       ELSE IF ~IsDir(s.fs, dirp) THEN {Result("IO", s)}
       ELSE {Result("BAD_COOKIE", s)} \cup
            UNION {{Result("OK", [s EXCEPT !.fddb = Enter(@, num)]) :
                       num \in Numberings(s.fddb, page)} :
                   page \in SUBSET Children(s.fs, dirp)}

-----------------------------------------------------------------------------
(* attr.c: create_mode.                                                    *)
create_mode(mode) == IF mode = <<>> THEN DefaultMode ELSE mode[1]

(* nfs.c: cat_name; as a mutant, without its test for NULL.                *)
cat_name_NoStale(path, name) ==
    LET answer(st, p) == [status |-> st, obj |-> p]
        dir == Clean(path)
    IN IF name = BadName THEN answer("ACCES", NULL)
       ELSE IF Len(dir) + 1 > MaxDepth THEN answer("NAMETOOLONG", NULL)
       ELSE answer("OK", IF name = "." THEN dir
                         ELSE IF name = ".." THEN Parent(dir)
                         ELSE Append(dir, name))

cat_name(path, name) ==
    LET answer(st, p) == [status |-> st, obj |-> p]
    IN IF path = NULL THEN answer("STALE", NULL)
       ELSE IF name = BadName THEN answer("ACCES", NULL)
       ELSE IF Len(path) + 1 > MaxDepth THEN answer("NAMETOOLONG", NULL)
       ELSE answer("OK", IF name = "." THEN path
                         ELSE IF name = ".." THEN Parent(path)
                         ELSE Append(path, name))
=============================================================================
