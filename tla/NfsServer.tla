----------------------------- MODULE NfsServer -----------------------------
(***************************************************************************)
(* The NFSv3 procedures of unfs3/nfs.c, with the file handle routines of   *)
(* fh.c and the attribute routines of attr.c, over the exported functions  *)
(* of GoExports.  One thread serves one request at a time, so a procedure  *)
(* is one action; every call it makes that assigns a file number or        *)
(* touches the tree is in it.                                              *)
(*                                                                         *)
(* Abstracted: a handle is the number it carries (the server builds every  *)
(* handle with len = 1, so nfh_valid holds of those it is sent back); the  *)
(* bytes of files and the paging of READDIR.                               *)
(***************************************************************************)
EXTENDS GoExports

CONSTANTS
    SpecialName,    \* which of ".", ".." and BadName clients send besides Name
    Sizes,          \* the lengths SETATTR asks for, and WRITE's extents
    InitialTrees,   \* what the exported tree may hold when the server starts
    MaxFD,          \* bound: numbers the table hands out
    MaxObj,         \* bound: objects ever made
    MaxRestarts     \* bound: restarts of the server

VARIABLES
    fs,         \* the backend's tree
    fddb,       \* the handle table
    issued,     \* history: <<number, object>> of the handles this process gave out
    held,       \* numbers of the handles clients kept from earlier processes
    reply,      \* the last reply
    restarts

vars == <<fs, fddb, issued, held, reply, restarts>>

ArgName == Name \cup SpecialName        \* the names clients send

ASSUME NfsServerAssumption ==
    /\ SpecialName \subseteq {".", "..", BadName}
    /\ Sizes \subseteq Nat
    /\ \A f \in InitialTrees : TreeType(f)
    /\ {MaxFD, MaxObj, MaxRestarts} \subseteq Nat

-----------------------------------------------------------------------------
(* fh.c and attr.c.                                                        *)
fh_decomp(h) == GetPath(fddb, h)

(* get_pre and get_post: the state after the lstat they make.              *)
Stat(s, path) == go_lstat(s, path).s

-----------------------------------------------------------------------------
Now == [fs |-> fs, fddb |-> fddb]

(* The handles a client can send.                                          *)
Presented == {x[1] : x \in issued} \cup held

(* An lstat of path in s finds something.                                  *)
Found(s, path) == Exists(s.fs, Clean(path))

(* The request proc, sent with handle path (NULL: it did not resolve), is  *)
(* (or "QUERY", for those that only look at the tree, GETATTR apart) is    *)
(* answered with st; found: the attributes in the reply are an object's.   *)
Answer(proc, path, st, found, s) ==
    /\ fs' = s.fs
    /\ fddb' = s.fddb
    /\ s.fs.born <= MaxObj
    /\ s.fddb.FDcounter <= MaxFD
    /\ reply' = [proc |-> proc, resolved |-> path # NULL, status |-> st, found |-> found]
    /\ UNCHANGED <<held, restarts>>

NoHandle == UNCHANGED issued
(* The reply carries the handle of path, built from what lstat in s found. *)
GiveHandle(s, path) ==
    issued' = issued \cup {<<FDOf(s.fddb, Clean(path)), s.fs.node[Clean(path)].id>>}

-----------------------------------------------------------------------------
(* The procedures, in the order of nfs.c.                                  *)

(* The reply is OK whether or not get_post found the object.               *)
Getattr(h) ==
    LET path == fh_decomp(h)
    IN /\ Answer("GETATTR", path, "OK", Found(Now, path), Stat(Now, path))
       /\ NoHandle

(* Each attribute that is asked for is set on its own, whatever became of  *)
(* the others; the status is that of the first to fail.                    *)
Setattr(h, size, mode, mtime) ==
    LET path == fh_decomp(h)
        s0   == Stat(Now, path)
        Set(s, attr, v) == IF v = <<>> THEN {Result("OK", s)}
                           ELSE go_set(s, path, attr, v[1])
    IN \E r1 \in Set(s0, "size", size) : \E r2 \in Set(r1.s, "mode", mode) :
       \E r3 \in Set(r2.s, "mtime", mtime) :
          LET status == IF r1.status # "OK" THEN r1.status
                        ELSE IF r2.status # "OK" THEN r2.status ELSE r3.status
          IN /\ Answer("SETATTR", path, status, Found(r3.s, path), Stat(r3.s, path))
             /\ NoHandle

Lookup(h, name) ==
    LET path == fh_decomp(h)
        c    == cat_name(path, name)
        r    == go_lstat(Now, c.obj)
    IN IF c.status # "OK"
       THEN Answer("LOOKUP", path, c.status, FALSE, Stat(Now, path)) /\ NoHandle
       ELSE IF r.status # "OK"
       THEN Answer("LOOKUP", path, r.status, FALSE, Stat(Now, path)) /\ NoHandle
       ELSE /\ Answer("LOOKUP", path, "OK", Found(r.s, c.obj), Stat(r.s, path))
            /\ GiveHandle(r.s, c.obj)

Access(h) ==
    LET path == fh_decomp(h)
        r    == go_lstat(Now, path)
    IN Answer("QUERY", path, r.status, Found(Now, path), r.s) /\ NoHandle

Read(h) ==
    LET path == fh_decomp(h)
    IN \E r \in go_pread(Now, path) :
          Answer("QUERY", path, r.status, Found(Now, path), Stat(r.s, path)) /\ NoHandle

Write(h, offset, count) ==
    LET path == fh_decomp(h)
    IN \E r \in go_pwrite(Stat(Now, path), path, offset, count) :
          Answer("WRITE", path, r.status, Found(Now, path), Stat(r.s, path)) /\ NoHandle

(* The status of cat_name is overwritten: after a refusal the object is    *)
(* made at whatever path the uninitialised buffer obj happens to hold, and *)
(* an EXCLUSIVE create takes its mode from the uninitialised new_attr.     *)
Create(h, name, how, mode) ==
    LET dirpath == fh_decomp(h)
        c       == cat_name(dirpath, name)
        s0      == Stat(Now, dirpath)
        make(obj) == IF how = "UNCHECKED" THEN go_createover(s0, obj, create_mode(mode))
                                          ELSE go_create(s0, obj, create_mode(mode))
    IN \E obj \in IF c.status = "OK" THEN {c.obj} ELSE PathsUpTo(MaxDepth) :
       \E r \in make(obj) :
          LET s1 == Stat(r.s, obj)
          IN IF r.status = "OK"
             THEN /\ Answer("CREATE", dirpath, "OK", Found(s1, obj), Stat(s1, dirpath))
                  /\ GiveHandle(s1, obj)
             ELSE Answer("CREATE", dirpath, r.status, FALSE, Stat(r.s, dirpath)) /\ NoHandle

Mkdir(h, name) ==
    LET path == fh_decomp(h)
        c    == cat_name(path, name)
        s0   == Stat(Now, path)
    IN \/ /\ c.status # "OK"
          /\ Answer("MKDIR", path, c.status, FALSE, Stat(s0, path)) /\ NoHandle
       \/ /\ c.status = "OK"
          /\ \E r \in go_mkdir(s0, c.obj) :
                LET s1 == Stat(r.s, c.obj)
                IN IF r.status = "OK"
                   THEN /\ Answer("MKDIR", path, "OK", Found(s1, c.obj), Stat(s1, path))
                        /\ GiveHandle(s1, c.obj)
                   ELSE Answer("MKDIR", path, r.status, FALSE, Stat(r.s, path)) /\ NoHandle

Remove3(h, name) ==
    LET path == fh_decomp(h)
        c    == cat_name(path, name)
        s0   == Stat(Now, path)
    IN \E r \in IF c.status = "OK" THEN go_remove(s0, c.obj) ELSE {Result(c.status, s0)} :
          Answer("REMOVE", path, r.status, FALSE, Stat(r.s, path)) /\ NoHandle

Rmdir(h, name) ==
    LET path == fh_decomp(h)
        c    == cat_name(path, name)
        s0   == Stat(Now, path)
    IN \E r \in IF c.status = "OK" THEN go_rmdir(s0, c.obj) ELSE {Result(c.status, s0)} :
          Answer("RMDIR", path, r.status, FALSE, Stat(r.s, path)) /\ NoHandle

(* The second handle is decoded after get_pre of the first.                *)
Rename(h1, name1, h2, name2) ==
    LET from == fh_decomp(h1)
        pre  == Stat(Now, from)
        to   == GetPath(pre.fddb, h2)
        c1   == cat_name(from, name1)
        c2   == cat_name(to, name2)
        s0   == Stat(pre, to)
    IN \E r \in IF c1.status # "OK" THEN {Result(c1.status, s0)}
                ELSE IF c2.status # "OK" THEN {Result(c2.status, s0)}
                ELSE go_rename(s0, c1.obj, c2.obj) :
          /\ Answer("RENAME", IF from = NULL THEN NULL ELSE to, r.status, FALSE,
                    Stat(Stat(r.s, from), to))
          /\ NoHandle

Readdir(h) ==
    LET path == fh_decomp(h)
    IN \E r \in go_readdir_full(Now, path) :
          Answer("QUERY", path, r.status, Found(Now, path), Stat(r.s, path)) /\ NoHandle

Fsstat(h) ==
    LET path == fh_decomp(h)
    IN Answer("QUERY", path, "OK", Found(Now, path), Stat(Now, path)) /\ NoHandle

Fsinfo(h) ==
    LET path == fh_decomp(h)
    IN Answer("QUERY", path, "OK", Found(Now, path), Stat(Now, path)) /\ NoHandle

Pathconf(h) ==
    LET path == fh_decomp(h)
    IN Answer("QUERY", path, "OK", Found(Now, path), Stat(Now, path)) /\ NoHandle

Commit(h) ==
    LET path == fh_decomp(h)
        r    == go_sync(Now, path)
    IN Answer("QUERY", path, r.status, Found(Now, path), r.s) /\ NoHandle

(* READLINK, SYMLINK, MKNOD, LINK and READDIRPLUS look at nothing.         *)
Unsupported == Answer("QUERY", Root, "NOTSUPP", FALSE, Now) /\ NoHandle

(* mount.c: MNT of a directory, for a client that go_accept_mount accepts. *)
Mnt(path) ==
    LET r == go_lstat(Now, path)
    IN IF r.status # "OK" THEN Answer("QUERY", path, "NOENT", FALSE, r.s) /\ NoHandle
       ELSE IF ~IsDir(fs, path) THEN Answer("QUERY", path, "NOTDIR", FALSE, r.s) /\ NoHandle
       ELSE Answer("QUERY", path, "OK", Found(r.s, path), r.s) /\ GiveHandle(r.s, path)

(* The process ends and is started again: the table is gone, the tree and  *)
(* the clients' handles are not.                                           *)
Restart ==
    /\ restarts < MaxRestarts
    /\ restarts' = restarts + 1
    /\ fddb' = EmptyTable
    /\ held' = Presented
    /\ issued' = {}
    /\ reply' = [proc |-> "none", resolved |-> TRUE, status |-> "OK", found |-> FALSE]
    /\ UNCHANGED fs

-----------------------------------------------------------------------------
Init ==
    /\ fs \in InitialTrees
    /\ fddb = EmptyTable
    /\ issued = {}
    /\ held = {}
    /\ reply = [proc |-> "none", resolved |-> TRUE, status |-> "OK", found |-> FALSE]
    /\ restarts = 0

Next ==
    \/ \E p \in PathsUpTo(MaxDepth) : Mnt(p)
    \/ \E h \in Presented :
          \/ Getattr(h)
          \/ \E size \in SetIt(Sizes), mode \in SetIt(Modes), mtime \in SetIt(Times) :
                Setattr(h, size, mode, mtime)
          \/ Access(h)
          \/ Read(h)
          \/ \E offset, count \in Sizes : Write(h, offset, count)
          \/ Readdir(h)
          \/ Fsstat(h)
          \/ Fsinfo(h)
          \/ Pathconf(h)
          \/ Commit(h)
          \/ \E name \in ArgName :
                \/ Lookup(h, name)
                \/ \E how \in {"UNCHECKED", "GUARDED", "EXCLUSIVE"}, mode \in SetIt(Modes) :
                      Create(h, name, how, mode)
                \/ Mkdir(h, name)
                \/ Remove3(h, name)
                \/ Rmdir(h, name)
                \/ \E h2 \in Presented, name2 \in ArgName : Rename(h, name, h2, name2)
    \/ Unsupported
    \/ Restart

Spec == Init /\ [][Next]_vars

-----------------------------------------------------------------------------
(* Type: a tree whose paths hang together, a well-typed table, handles     *)
(* that are numbers, and a status of the protocol in the reply.            *)
TypeOK ==
    /\ TreeType(fs)
    /\ TableType(fddb)
    /\ issued \subseteq Number \X Nat
    /\ held \subseteq Number
    /\ reply.status \in Status

(* A handle this process gave out for an object resolves to that object's  *)
(* path as long as the object exists, wherever renames of it or of the     *)
(* directories above it have taken it.  (Number 0 is the exception: see    *)
(* EveryHandleResolves.)                                                   *)
HandleFollowsObject ==
    \A x \in issued :
        x[1] # NoFD =>
        \A p \in DOMAIN fs.node : fs.node[p].id = x[2] => GetPath(fddb, x[1]) = p

(* No two objects that exist are shown the same fileid, number 0 apart.    *)
FileidsDiffer ==
    \A p, q \in DOMAIN fs.node \cap Known(fddb) :
        fddb.PathMapA[p] = fddb.PathMapA[q] => p = q \/ fddb.PathMapA[p] = NoFD

(* A request that is refused leaves the tree as it was.  CREATE and SETATTR *)
(* make several calls of the backend and cannot promise it.                *)
RefusedStep ==
    reply'.status # "OK" /\ reply'.proc \notin {"CREATE", "SETATTR"} => fs' = fs
RefusedLeavesTree == [][RefusedStep]_vars

(* One request takes at most one object away, never a directory that is    *)
(* not empty.  Only REMOVE, RMDIR and RENAME do, when they are answered    *)
(* OK, and CREATE, which may remove a file and then fail to make another.  *)
DestroyStep ==
    \A p, q \in DOMAIN fs.node :
        /\ fs.node[p].id \notin Ids(fs')
        /\ fs.node[q].id \notin Ids(fs')
        => /\ p = q
           /\ Children(fs, p) = {}
           /\ \/ reply'.proc \in {"REMOVE", "RMDIR", "RENAME"} /\ reply'.status = "OK"
              \/ reply'.proc = "CREATE"
DestroysOneAtMost == [][DestroyStep]_vars

(* A request leaves the attributes of every object that survives it alone, *)
(* unless it is a SETATTR or a WRITE: in particular a CREATE that finds    *)
(* its name taken by a file or a directory never touches that object.      *)
AlterStep ==
    \A p \in DOMAIN fs.node, q \in DOMAIN fs'.node :
        /\ fs.node[p].id = fs'.node[q].id
        /\ fs.node[p] # fs'.node[q]
        => reply'.proc \in {"SETATTR", "WRITE"}
OnlyWritersAlter == [][AlterStep]_vars

(* LOOKUP, MKDIR, REMOVE, RMDIR and RENAME refuse a directory handle that  *)
(* does not resolve, and do nothing with it: neither the tree changes nor  *)
(* is a handle given out.                                                  *)
StaleStep ==
    ~reply'.resolved /\ reply'.proc \in {"LOOKUP", "MKDIR", "REMOVE", "RMDIR", "RENAME"}
        => /\ reply'.status \in {"STALE", "ACCES", "NAMETOOLONG"}
           /\ fs' = fs
           /\ issued' = issued
StaleDirectoryRefused == [][StaleStep]_vars

-----------------------------------------------------------------------------
(* What the comments in the source say and the code does not keep.         *)

(* fh.c:43, "resolve a filehandle into a path": a handle of this process   *)
(* resolves as long as its object exists.  An object renamed before it had *)
(* a number is given number 0, which GetPath refuses for ever.             *)
EveryHandleResolves ==
    \A x \in issued : x[2] \in Ids(fs) => GetPath(fddb, x[1]) # NULL

(* fh.c:15, "check whether an NFS filehandle is valid", and nfs.c:10,      *)
(* "checking for illegal input": a CREATE or a SETATTR whose handle does   *)
(* not resolve changes nothing.  SETATTR acts on "/", which fh_decomp's    *)
(* NULL is cleaned to, and CREATE on whatever path its buffer holds.       *)
StrayHandleChangesNothing ==
    [][reply'.proc \in {"CREATE", "SETATTR"} /\ ~reply'.resolved => fs' = fs]_vars

(* attr.c:9, "post_op_attr for error returns": the empty attributes go     *)
(* with an error status, an OK GETATTR carries an object's.                *)
GetattrOkHasAttributes ==
    reply.proc = "GETATTR" /\ reply.status = "OK" => reply.found
=============================================================================
