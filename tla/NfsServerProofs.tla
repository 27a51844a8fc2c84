-------------------------- MODULE NfsServerProofs --------------------------
(***************************************************************************)
(* The safety properties of NfsServer, for every set of names and modes,   *)
(* every initial tree and every value of the bounds.                       *)
(***************************************************************************)
EXTENDS NfsServer, GoExportsProofs

(* The inductive invariant: the types, the two maps of the table in step,  *)
(* and every handle given out following its object.                        *)
IInv ==
    /\ TypeOK
    /\ Consistent(fddb)
    /\ \A x \in issued : Follows(Now, x)

(* What a request keeps and promises.                                      *)
Safe == IInv' /\ RefusedStep /\ DestroyStep /\ AlterStep /\ StaleStep

(* The handles that are new in this step follow their objects in s.        *)
Handed(s) == \A x \in issued' : x \in issued \/ Follows(s, x)

LEMMA NowOK == IInv => ServerOK(Now) /\ Now.fs = fs /\ Now.fddb = fddb
BY DEF IInv, TypeOK, Now, ServerOK

LEMMA HandleOK == ASSUME IInv, NEW h PROVE fh_decomp(h) \in AnyPath
BY DEF IInv, TypeOK, TableType, fh_decomp, GetPath, AnyPath

LEMMA NoHandleHanded == ASSUME NoHandle, NEW STATE s PROVE Handed(s)
BY DEF NoHandle, Handed

(* A handle given out in g for what is there and has a number follows it.  *)
LEMMA GivenHanded ==
    ASSUME NEW STATE g, ServerOK(g), NEW STATE p, Exists(g.fs, Clean(p)),
           Clean(p) \in Known(g.fddb), GiveHandle(g, p), NEW STATE s, Keeps(g, s)
    PROVE  Handed(s)
<1> DEFINE x == <<FDOf(g.fddb, Clean(p)), g.fs.node[Clean(p)].id>>
<1>1. issued' = issued \cup {x}
  BY DEF GiveHandle
<1>2. Follows(g, x)
  BY GivenFollows DEF Exists
<1> HIDE DEF x
<1> QED BY <1>1, <1>2 DEF Handed, Keeps

LEMMA SparesTakes ==
    ASSUME NEW f, NEW f2, Spares(f, f2, {}), NEW p
    PROVE  TakesAtMost(f, f2, p)
BY DEF Spares, TakesAtMost

(* The state s that a request is answered in carries the invariant over.   *)
LEMMA AnswerKeeps ==
    ASSUME IInv, NEW STATE proc, NEW STATE path, NEW STATE st, st \in Status,
           NEW STATE found, NEW STATE s,
           Answer(proc, path, st, found, s), Keeps(Now, s), Handed(s)
    PROVE  IInv'
<1>1. /\ fs' = s.fs /\ fddb' = s.fddb /\ held' = held
      /\ reply'.status = st
  BY DEF Answer
<1>2. ServerOK(s)
  BY DEF Keeps
<1>3. Now' = s
  BY <1>1, <1>2 DEF Now, ServerOK
<1>4. \A x \in issued' : Follows(s, x)
  BY DEF IInv, Keeps, Handed
<1>5. issued' \subseteq Number \X Nat
  BY <1>4 DEF Follows
<1>6. TypeOK'
  BY <1>1, <1>2, <1>5 DEF TypeOK, IInv, ServerOK
<1>7. Consistent(fddb)'
  BY <1>1, <1>2 DEF ServerOK
<1>8. \A x \in issued' : Follows(Now', x)
  BY <1>3, <1>4
<1> QED BY <1>6, <1>7, <1>8 DEF IInv

(* What a request proc, answered with st, may have done to the tree: it     *)
(* takes away at most what was at d.                                       *)
TreeStep(proc, st, f, f2, d) ==
    /\ TakesAtMost(f, f2, d)
    /\ \/ Spares(f, f2, {})
       \/ proc \in {"REMOVE", "RMDIR", "RENAME"} /\ st = "OK"
       \/ proc = "CREATE"
    /\ Unaltered(f, f2) \/ proc \in {"SETATTR", "WRITE"}
    /\ st # "OK" /\ proc \notin {"CREATE", "SETATTR"} => f2 = f

(* A stale handle of a directory is refused.                               *)
Refuses(proc, path, st, f, f2) ==
    path = NULL /\ proc \in {"LOOKUP", "MKDIR", "REMOVE", "RMDIR", "RENAME"} =>
        st \in {"STALE", "ACCES", "NAMETOOLONG"} /\ f2 = f /\ NoHandle

(* The tree that a request leaves decides what it promises.                *)
LEMMA AnswerSafe ==
    ASSUME IInv, NEW STATE proc, NEW STATE path, NEW STATE st, st \in Status,
           NEW STATE found, NEW STATE s,
           Answer(proc, path, st, found, s), Keeps(Now, s), Handed(s),
           NEW STATE d, TreeStep(proc, st, fs, s.fs, d), Refuses(proc, path, st, fs, s.fs)
    PROVE  Safe
<1>1. /\ fs' = s.fs
      /\ reply'.proc = proc /\ reply'.status = st /\ reply'.resolved = (path # NULL)
  BY DEF Answer
<1>2. TreeType(fs) /\ fs.born \in Nat
  BY DEF IInv, TypeOK, TreeType
<1>3. IInv'
  BY AnswerKeeps
<1>4. RefusedStep
  BY <1>1 DEF RefusedStep, TreeStep
<1>5. DestroyStep
  <2> SUFFICES ASSUME NEW p \in DOMAIN fs.node, NEW q \in DOMAIN fs.node,
                      fs.node[p].id \notin Ids(s.fs), fs.node[q].id \notin Ids(s.fs)
               PROVE  /\ p = q
                      /\ Children(fs, p) = {}
                      /\ \/ proc \in {"REMOVE", "RMDIR", "RENAME"} /\ st = "OK"
                         \/ proc = "CREATE"
    BY <1>1 DEF DestroyStep
  <2>1. ~Spares(fs, s.fs, {})
    BY DEF Spares
  <2>2. p = d /\ q = d
    BY DEF TakesAtMost, Spares, TreeStep
  <2> QED BY <2>1, <2>2 DEF TakesAtMost, TreeStep
<1>6. AlterStep
  <2> SUFFICES ASSUME NEW p \in DOMAIN fs.node, NEW q \in DOMAIN s.fs.node,
                      fs.node[p].id = s.fs.node[q].id, fs.node[p] # s.fs.node[q]
               PROVE  proc \in {"SETATTR", "WRITE"}
    BY <1>1 DEF AlterStep
  <2> SUFFICES ASSUME Unaltered(fs, s.fs) PROVE FALSE
    BY DEF TreeStep
  <2>1. fs.node[p].id <= fs.born
    BY <1>2, TreeAt
  <2>2. PICK x \in DOMAIN fs.node : s.fs.node[q] = fs.node[x]
    BY <2>1 DEF Unaltered
  <2>3. x = p
    BY <1>2, <2>2 DEF TreeType
  <2> QED BY <2>2, <2>3
<1>7. StaleStep
  BY <1>1 DEF StaleStep, NoHandle, Refuses
<1> QED BY <1>3, <1>4, <1>5, <1>6, <1>7 DEF Safe

(* A request that takes nothing away, ...                                  *)
LEMMA SparesStep ==
    ASSUME NEW proc, NEW st, NEW f, NEW f2, Spares(f, f2, {}),
           Unaltered(f, f2) \/ proc \in {"SETATTR", "WRITE"},
           st # "OK" /\ proc \notin {"CREATE", "SETATTR"} => f2 = f
    PROVE  TreeStep(proc, st, f, f2, Root)
BY SparesTakes DEF TreeStep

(* ... and one that leaves the tree alone.                                 *)
LEMMA LookSafe ==
    ASSUME IInv, NEW STATE proc, NEW STATE path, NEW STATE st, st \in Status,
           NEW STATE found, NEW STATE s,
           Answer(proc, path, st, found, s), Keeps(Now, s), s.fs = fs, Handed(s),
           Refuses(proc, path, st, fs, fs)
    PROVE  Safe
<1>1. Unaltered(fs, s.fs) /\ Spares(fs, s.fs, {})
  BY SameTree DEF IInv, TypeOK
<1>2. TreeStep(proc, st, fs, s.fs, Root)
  BY <1>1, SparesStep
<1> QED BY <1>2, AnswerSafe

-----------------------------------------------------------------------------
(* The procedures that look only.                                          *)

LEMMA StatNow ==
    ASSUME IInv, NEW path \in AnyPath
    PROVE  /\ Keeps(Now, Stat(Now, path)) /\ Stat(Now, path).fs = fs
           /\ Keeps(Now, go_lstat(Now, path).s) /\ go_lstat(Now, path).s.fs = fs
           /\ go_lstat(Now, path).status \in Status
BY NowOK, StatOK, go_lstatOK DEF Stat

LEMMA GetattrSafe == ASSUME IInv, NEW h, Getattr(h) PROVE Safe
<1> DEFINE path == fh_decomp(h)
<1>1. path \in AnyPath
  BY HandleOK
<1>2. Answer("GETATTR", path, "OK", Found(Now, path), Stat(Now, path)) /\ NoHandle
  BY DEF Getattr
<1>3. Keeps(Now, Stat(Now, path)) /\ Stat(Now, path).fs = fs
  BY <1>1, StatNow
<1>4. "OK" \in Status /\ Refuses("GETATTR", path, "OK", fs, fs)
  BY DEF Status, Refuses
<1> HIDE DEF path
<1> QED BY <1>2, <1>3, <1>4, NoHandleHanded, LookSafe

(* Those that answer with a status st and leave s, without a handle.       *)
LEMMA QuerySafe ==
    ASSUME IInv, NEW STATE path, NEW STATE st, st \in Status, NEW STATE found, NEW STATE s,
           Answer("QUERY", path, st, found, s), NoHandle, Keeps(Now, s), s.fs = fs
    PROVE  Safe
<1>1. Refuses("QUERY", path, st, fs, fs)
  BY DEF Refuses
<1> QED BY <1>1, NoHandleHanded, LookSafe

LEMMA AccessSafe == ASSUME IInv, NEW h, Access(h) PROVE Safe
<1> DEFINE path == fh_decomp(h)
           r == go_lstat(Now, path)
<1>1. Answer("QUERY", path, r.status, Found(Now, path), r.s) /\ NoHandle
  BY DEF Access
<1>2. Keeps(Now, r.s) /\ r.s.fs = fs /\ r.status \in Status
  BY HandleOK, StatNow
<1> HIDE DEF path, r
<1> QED BY <1>1, <1>2, QuerySafe

LEMMA CommitSafe == ASSUME IInv, NEW h, Commit(h) PROVE Safe
<1> DEFINE path == fh_decomp(h)
           r == go_lstat(Now, path)
<1>1. Answer("QUERY", path, r.status, Found(Now, path), r.s) /\ NoHandle
  BY DEF Commit, go_sync
<1>2. Keeps(Now, r.s) /\ r.s.fs = fs /\ r.status \in Status
  BY HandleOK, StatNow
<1> HIDE DEF path, r
<1> QED BY <1>1, <1>2, QuerySafe

LEMMA FsSafe == ASSUME IInv, NEW h, Fsstat(h) \/ Fsinfo(h) \/ Pathconf(h) PROVE Safe
<1> DEFINE path == fh_decomp(h)
<1>1. Answer("QUERY", path, "OK", Found(Now, path), Stat(Now, path)) /\ NoHandle
  BY DEF Fsstat, Fsinfo, Pathconf
<1>2. Keeps(Now, Stat(Now, path)) /\ Stat(Now, path).fs = fs
  BY HandleOK, StatNow
<1>3. "OK" \in Status
  BY DEF Status
<1> HIDE DEF path
<1> QED BY <1>1, <1>2, <1>3, QuerySafe

LEMMA UnsupportedSafe == ASSUME IInv, Unsupported PROVE Safe
<1>1. Answer("QUERY", Root, "NOTSUPP", FALSE, Now) /\ NoHandle
  BY DEF Unsupported
<1>2. Keeps(Now, Now) /\ Now.fs = fs
  BY NowOK, KeepsItself
<1>3. "NOTSUPP" \in Status
  BY DEF Status
<1> QED BY <1>1, <1>2, <1>3, QuerySafe

(* The stat after a call that left s keeps what s keeps.                   *)
LEMMA StatAfter ==
    ASSUME NEW s0, NEW s, Keeps(s0, s), NEW path \in AnyPath
    PROVE  Keeps(s0, Stat(s, path)) /\ Keeps(s, Stat(s, path)) /\ Stat(s, path).fs = s.fs
<1>1. ServerOK(s)
  BY DEF Keeps
<1>2. Keeps(s, Stat(s, path)) /\ Stat(s, path).fs = s.fs
  BY <1>1, StatOK DEF Stat
<1> QED BY <1>2, KeepsTrans

LEMMA ReadSafe == ASSUME IInv, NEW h, Read(h) PROVE Safe
<1> DEFINE path == fh_decomp(h)
<1>1. PICK r \in go_pread(Now, path) :
         Answer("QUERY", path, r.status, Found(Now, path), Stat(r.s, path)) /\ NoHandle
  BY DEF Read
<1>2. path \in AnyPath
  BY HandleOK
<1>3. r.status \in Status /\ Keeps(Now, r.s) /\ r.s.fs = fs
  BY <1>2, NowOK, go_preadOK
<1>4. Keeps(Now, Stat(r.s, path)) /\ Stat(r.s, path).fs = fs
  BY <1>2, <1>3, StatAfter
<1> HIDE DEF path
<1> QED BY <1>1, <1>3, <1>4, QuerySafe

LEMMA ReaddirSafe == ASSUME IInv, NEW h, Readdir(h) PROVE Safe
<1> DEFINE path == fh_decomp(h)
<1>1. PICK r \in go_readdir_full(Now, path) :
         Answer("QUERY", path, r.status, Found(Now, path), Stat(r.s, path)) /\ NoHandle
  BY DEF Readdir
<1>2. path \in AnyPath
  BY HandleOK
<1>3. r.status \in Status /\ Keeps(Now, r.s) /\ r.s.fs = fs
  BY <1>2, NowOK, go_readdir_fullOK
<1>4. Keeps(Now, Stat(r.s, path)) /\ Stat(r.s, path).fs = fs
  BY <1>2, <1>3, StatAfter
<1> HIDE DEF path
<1> QED BY <1>1, <1>3, <1>4, QuerySafe

LEMMA ArgNameOK == ArgName \subseteq Name \cup {".", "..", BadName}
BY NfsServerAssumption DEF ArgName

LEMMA LookupSafe == ASSUME IInv, NEW h, NEW name \in ArgName, Lookup(h, name) PROVE Safe
<1> DEFINE path == fh_decomp(h)
           c == cat_name(path, name)
           r == go_lstat(Now, c.obj)
           s == Stat(Now, path)
           s2 == Stat(r.s, path)
<1>1. path \in AnyPath
  BY HandleOK
<1>2. /\ c.status \in {"OK", "STALE", "ACCES", "NAMETOOLONG"}
      /\ c.status = "OK" => c.obj \in AnyPath
      /\ path = NULL => c.status = "STALE"
  BY <1>1, ArgNameOK, cat_nameOK DEF AnyPath
<1>3. Keeps(Now, s) /\ s.fs = fs
  BY <1>1, StatNow
<1>4. \/ c.status # "OK" /\ Answer("LOOKUP", path, c.status, FALSE, s) /\ NoHandle
      \/ /\ c.status = "OK" /\ r.status # "OK"
         /\ Answer("LOOKUP", path, r.status, FALSE, s) /\ NoHandle
      \/ /\ c.status = "OK" /\ r.status = "OK"
         /\ Answer("LOOKUP", path, "OK", Found(r.s, c.obj), s2)
         /\ GiveHandle(r.s, c.obj)
  BY DEF Lookup
<1>5. c.status = "OK" => r.status \in Status /\ Keeps(Now, r.s) /\ r.s.fs = fs
  BY <1>2, StatNow
<1>6. c.status = "OK" /\ r.status = "OK" =>
         Exists(r.s.fs, Clean(c.obj)) /\ Clean(c.obj) \in Known(r.s.fddb)
  BY <1>2, <1>5, NowOK, go_lstatOK
<1>7. c.status = "OK" => Keeps(r.s, s2) /\ Keeps(Now, s2) /\ s2.fs = fs
  BY <1>1, <1>5, StatAfter
<1> HIDE DEF path, c, r, s, s2
<1>8. c.status \in Status /\ "OK" \in Status
  BY <1>2 DEF Status
<1>9. CASE c.status # "OK"
  <2>1. Refuses("LOOKUP", path, c.status, fs, fs)
    BY <1>2, <1>4, <1>9 DEF Refuses
  <2> QED BY <1>3, <1>4, <1>8, <1>9, <2>1, NoHandleHanded, LookSafe
<1>10. CASE c.status = "OK" /\ r.status # "OK"
  <2>1. Refuses("LOOKUP", path, r.status, fs, fs)
    BY <1>2, <1>10 DEF Refuses
  <2> QED BY <1>3, <1>4, <1>5, <1>10, <2>1, NoHandleHanded, LookSafe
<1>11. CASE c.status = "OK" /\ r.status = "OK"
  <2>1. Refuses("LOOKUP", path, "OK", fs, fs)
    BY <1>2, <1>11 DEF Refuses
  <2>2. Handed(s2)
    BY <1>4, <1>5, <1>6, <1>7, <1>11, GivenHanded DEF Keeps
  <2> QED BY <1>4, <1>7, <1>8, <1>11, <2>1, <2>2, LookSafe
<1> QED BY <1>9, <1>10, <1>11

-----------------------------------------------------------------------------
(* The procedures that change the tree.                                    *)

LEMMA WriteSafe ==
    ASSUME IInv, NEW h, NEW offset \in Sizes, NEW count \in Sizes, Write(h, offset, count)
    PROVE  Safe
<1> DEFINE path == fh_decomp(h)
           s0 == Stat(Now, path)
<1>1. PICK r \in go_pwrite(s0, path, offset, count) :
         Answer("WRITE", path, r.status, Found(Now, path), Stat(r.s, path)) /\ NoHandle
  BY DEF Write
<1>2. path \in AnyPath /\ offset \in Nat /\ count \in Nat
  BY HandleOK, NfsServerAssumption
<1>3. Keeps(Now, s0) /\ ServerOK(s0) /\ s0.fs = fs
  BY <1>2, StatNow DEF Keeps
<1> HIDE DEF path, s0
<1>4. /\ r.status \in Status /\ Keeps(s0, r.s)
      /\ AltersAt(s0.fs, r.s.fs, Clean(path))
      /\ r.status # "OK" => r.s.fs = s0.fs
  BY <1>2, <1>3, go_pwriteOK
<1>5. Keeps(Now, r.s)
  BY <1>3, <1>4, KeepsTrans
<1>6. Keeps(Now, Stat(r.s, path)) /\ Stat(r.s, path).fs = r.s.fs
  BY <1>2, <1>5, StatAfter
<1>7. Spares(fs, r.s.fs, {})
  BY <1>3, <1>4, AltersAtOK DEF IInv, TypeOK
<1>8. TreeStep("WRITE", r.status, fs, r.s.fs, Root)
  BY <1>3, <1>4, <1>7, SparesStep
<1>9. Refuses("WRITE", path, r.status, fs, r.s.fs)
  BY DEF Refuses
<1> QED BY <1>1, <1>4, <1>6, <1>8, <1>9, NoHandleHanded, AnswerSafe

LEMMA SparesTrans ==
    ASSUME NEW f, NEW f2, NEW f3, Spares(f, f2, {}), Spares(f2, f3, {})
    PROVE  Spares(f, f3, {})
BY DEF Spares, Ids

(* One attribute of a SETATTR, which may not have been asked for.          *)
LEMMA SetOneOK ==
    ASSUME NEW s, ServerOK(s), NEW path \in AnyPath, NEW attr, NEW v,
           v = <<>> \/ ValueOf(attr, v[1]),
           NEW r \in IF v = <<>> THEN {Result("OK", s)} ELSE go_set(s, path, attr, v[1])
    PROVE  r.status \in Status /\ Keeps(s, r.s) /\ Spares(s.fs, r.s.fs, {})
<1>1. CASE v = <<>>
  <2>1. r = Result("OK", s)
    BY <1>1
  <2>2. r.status = "OK" /\ r.s = s
    BY <2>1 DEF Result
  <2> QED BY <2>2, KeepsItself, SameTree DEF Status, ServerOK
<1>2. CASE v # <<>>
  <2>1. r \in go_set(s, path, attr, v[1]) /\ ValueOf(attr, v[1])
    BY <1>2
  <2>2. r.status \in Status /\ Keeps(s, r.s) /\ AltersAt(s.fs, r.s.fs, Clean(path))
    BY <2>1, go_setOK
  <2> QED BY <2>2, AltersAtOK DEF ServerOK
<1> QED BY <1>1, <1>2

LEMMA SetattrSafe ==
    ASSUME IInv, NEW h, NEW size \in SetIt(Sizes), NEW mode \in SetIt(Modes),
           NEW mtime \in SetIt(Times), Setattr(h, size, mode, mtime)
    PROVE  Safe
<1> DEFINE path == fh_decomp(h)
           s0 == Stat(Now, path)
           Set(s, attr, v) == IF v = <<>> THEN {Result("OK", s)}
                              ELSE go_set(s, path, attr, v[1])
           status(r1, r2, r3) == IF r1.status # "OK" THEN r1.status
                                 ELSE IF r2.status # "OK" THEN r2.status ELSE r3.status
<1>1. PICK r1 \in Set(s0, "size", size) : \E r2 \in Set(r1.s, "mode", mode) :
      \E r3 \in Set(r2.s, "mtime", mtime) :
         /\ Answer("SETATTR", path, status(r1, r2, r3), Found(r3.s, path), Stat(r3.s, path))
         /\ NoHandle
  BY DEF Setattr
<1>2. PICK r2 \in Set(r1.s, "mode", mode) : \E r3 \in Set(r2.s, "mtime", mtime) :
         /\ Answer("SETATTR", path, status(r1, r2, r3), Found(r3.s, path), Stat(r3.s, path))
         /\ NoHandle
  BY <1>1
<1>3. PICK r3 \in Set(r2.s, "mtime", mtime) :
         /\ Answer("SETATTR", path, status(r1, r2, r3), Found(r3.s, path), Stat(r3.s, path))
         /\ NoHandle
  BY <1>2
<1>4. path \in AnyPath
  BY HandleOK
<1>5. Keeps(Now, s0) /\ ServerOK(s0) /\ s0.fs = fs
  BY <1>4, StatNow DEF Keeps
<1>6. /\ size = <<>> \/ ValueOf("size", size[1])
      /\ mode = <<>> \/ ValueOf("mode", mode[1])
      /\ mtime = <<>> \/ ValueOf("mtime", mtime[1])
  BY NfsServerAssumption DEF SetIt, ValueOf
<1> HIDE DEF path, s0
<1>7. r1.status \in Status /\ Keeps(s0, r1.s) /\ Spares(fs, r1.s.fs, {})
  BY <1>1, <1>4, <1>5, <1>6, SetOneOK
<1>8. r2.status \in Status /\ Keeps(r1.s, r2.s) /\ Spares(r1.s.fs, r2.s.fs, {})
  BY <1>2, <1>4, <1>6, <1>7, SetOneOK DEF Keeps
<1>9. r3.status \in Status /\ Keeps(r2.s, r3.s) /\ Spares(r2.s.fs, r3.s.fs, {})
  BY <1>3, <1>4, <1>6, <1>8, SetOneOK DEF Keeps
<1>10. Keeps(Now, r3.s)
  BY <1>5, <1>7, <1>8, <1>9, KeepsTrans
<1>11. Spares(fs, r3.s.fs, {})
  BY <1>7, <1>8, <1>9, SparesTrans
<1>12. Keeps(Now, Stat(r3.s, path)) /\ Stat(r3.s, path).fs = r3.s.fs
  BY <1>4, <1>10, StatAfter
<1>13. status(r1, r2, r3) \in Status
  BY <1>7, <1>8, <1>9
<1> HIDE DEF status
<1>14. TreeStep("SETATTR", status(r1, r2, r3), fs, r3.s.fs, Root)
  BY <1>11, SparesStep
<1>15. Refuses("SETATTR", path, status(r1, r2, r3), fs, r3.s.fs)
  BY DEF Refuses
<1> QED BY <1>3, <1>12, <1>13, <1>14, <1>15, NoHandleHanded, AnswerSafe

(* The object a CREATE or a MKDIR has made is found, and its handle        *)
(* follows it.                                                             *)
LEMMA MadeHanded ==
    ASSUME IInv, NEW STATE s, Keeps(Now, s), NEW STATE obj, obj \in AnyPath,
           Exists(s.fs, Clean(obj)), GiveHandle(Stat(s, obj), obj),
           NEW STATE dirpath, dirpath \in AnyPath
    PROVE  /\ Handed(Stat(Stat(s, obj), dirpath))
           /\ Keeps(Now, Stat(Stat(s, obj), dirpath))
           /\ Stat(Stat(s, obj), dirpath).fs = s.fs
<1> DEFINE s1 == Stat(s, obj)
<1>1. ServerOK(s)
  BY DEF Keeps
<1>2. Keeps(Now, s1) /\ s1.fs = s.fs /\ ServerOK(s1)
  BY StatAfter DEF Keeps
<1>3. Clean(obj) \in Known(s1.fddb)
  BY <1>1, go_lstatOK DEF Stat
<1>4. GiveHandle(s1, obj)
  OBVIOUS
<1> HIDE DEF s1
<1>5. Keeps(Now, Stat(s1, dirpath)) /\ Keeps(s1, Stat(s1, dirpath)) /\ Stat(s1, dirpath).fs = s1.fs
  BY <1>2, StatAfter
<1>6. Handed(Stat(s1, dirpath))
  BY <1>2, <1>3, <1>4, <1>5, GivenHanded
<1> QED BY <1>2, <1>5, <1>6 DEF s1

LEMMA CreateSafe ==
    ASSUME IInv, NEW h, NEW name \in ArgName, NEW how, NEW mode \in SetIt(Modes),
           Create(h, name, how, mode)
    PROVE  Safe
<1> DEFINE dirpath == fh_decomp(h)
           c == cat_name(dirpath, name)
           s0 == Stat(Now, dirpath)
           make(obj) == IF how = "UNCHECKED" THEN go_createover(s0, obj, create_mode(mode))
                                             ELSE go_create(s0, obj, create_mode(mode))
<1>1. PICK obj \in IF c.status = "OK" THEN {c.obj} ELSE PathsUpTo(MaxDepth) :
      \E r \in make(obj) :
         LET s1 == Stat(r.s, obj)
         IN IF r.status = "OK"
            THEN /\ Answer("CREATE", dirpath, "OK", Found(s1, obj), Stat(s1, dirpath))
                 /\ GiveHandle(s1, obj)
            ELSE Answer("CREATE", dirpath, r.status, FALSE, Stat(r.s, dirpath)) /\ NoHandle
  BY DEF Create
<1>2. PICK r \in make(obj) :
         LET s1 == Stat(r.s, obj)
         IN IF r.status = "OK"
            THEN /\ Answer("CREATE", dirpath, "OK", Found(s1, obj), Stat(s1, dirpath))
                 /\ GiveHandle(s1, obj)
            ELSE Answer("CREATE", dirpath, r.status, FALSE, Stat(r.s, dirpath)) /\ NoHandle
  BY <1>1
<1>3. dirpath \in AnyPath
  BY HandleOK
<1>4. obj \in AnyPath
  <2>1. c.status = "OK" => c.obj \in Path
    BY <1>3, ArgNameOK, cat_nameOK
  <2>2. PathsUpTo(MaxDepth) \subseteq Path
    BY GoExportsAssumption, PathsUpToArePaths
  <2> HIDE DEF c
  <2> QED BY <1>1, <2>1, <2>2 DEF AnyPath
<1>5. Keeps(Now, s0) /\ ServerOK(s0) /\ s0.fs = fs
  BY <1>3, StatNow DEF Keeps
<1>6. create_mode(mode) \in Modes
  BY create_modeOK
<1> DEFINE m == create_mode(mode)
<1> HIDE DEF c, s0, dirpath, m
<1>7. /\ r.status \in Status /\ Keeps(s0, r.s)
      /\ Unaltered(fs, r.s.fs) /\ TakesAtMost(fs, r.s.fs, Clean(obj))
      /\ r.status = "OK" => Exists(r.s.fs, Clean(obj))
  <2>1. CASE how = "UNCHECKED"
    <3>1. r \in go_createover(s0, obj, m)
      BY <1>2, <2>1 DEF m
    <3> QED BY <1>4, <1>5, <1>6, <3>1, go_createoverOK DEF m
  <2>2. CASE how # "UNCHECKED"
    <3>1. r \in go_create(s0, obj, m)
      BY <1>2, <2>2 DEF m
    <3>2. /\ r.status \in Status /\ Keeps(s0, r.s)
          /\ Unaltered(fs, r.s.fs) /\ Spares(fs, r.s.fs, {})
          /\ r.status = "OK" => Exists(r.s.fs, Clean(obj))
      BY <1>4, <1>5, <1>6, <3>1, go_createOK DEF m
    <3> QED BY <3>2, SparesTakes
  <2> QED BY <2>1, <2>2
<1>8. Keeps(Now, r.s)
  BY <1>5, <1>7, KeepsTrans
<1>9. \A st : TreeStep("CREATE", st, fs, r.s.fs, Clean(obj))
  BY <1>7 DEF TreeStep
<1>10. \A st : Refuses("CREATE", dirpath, st, fs, r.s.fs)
  BY DEF Refuses
<1>11. CASE r.status = "OK"
  <2> DEFINE s1 == Stat(r.s, obj)
             s2 == Stat(s1, dirpath)
  <2>1. Answer("CREATE", dirpath, "OK", Found(s1, obj), s2) /\ GiveHandle(s1, obj)
    BY <1>2, <1>11
  <2>2. Handed(s2) /\ Keeps(Now, s2) /\ s2.fs = r.s.fs
    BY <1>3, <1>4, <1>7, <1>8, <1>11, <2>1, MadeHanded
  <2> HIDE DEF s1, s2
  <2>3. "OK" \in Status
    BY DEF Status
  <2> QED BY <1>9, <1>10, <2>1, <2>2, <2>3, AnswerSafe
<1>12. CASE r.status # "OK"
  <2> DEFINE s2 == Stat(r.s, dirpath)
  <2>1. Answer("CREATE", dirpath, r.status, FALSE, s2) /\ NoHandle
    BY <1>2, <1>12
  <2>2. Keeps(Now, s2) /\ s2.fs = r.s.fs
    BY <1>3, <1>8, StatAfter
  <2> HIDE DEF s2
  <2> QED BY <1>7, <1>9, <1>10, <2>1, <2>2, NoHandleHanded, AnswerSafe
<1> QED BY <1>11, <1>12

LEMMA MkdirSafe == ASSUME IInv, NEW h, NEW name \in ArgName, Mkdir(h, name) PROVE Safe
<1> DEFINE path == fh_decomp(h)
           c == cat_name(path, name)
           s0 == Stat(Now, path)
<1>1. path \in AnyPath
  BY HandleOK
<1>2. /\ c.status \in {"OK", "STALE", "ACCES", "NAMETOOLONG"}
      /\ c.status = "OK" => c.obj \in AnyPath
      /\ path = NULL => c.status = "STALE"
  BY <1>1, ArgNameOK, cat_nameOK DEF AnyPath
<1>3. Keeps(Now, s0) /\ ServerOK(s0) /\ s0.fs = fs
  BY <1>1, StatNow DEF Keeps
<1>4. \/ /\ c.status # "OK"
         /\ Answer("MKDIR", path, c.status, FALSE, Stat(s0, path)) /\ NoHandle
      \/ /\ c.status = "OK"
         /\ \E r \in go_mkdir(s0, c.obj) :
               LET s1 == Stat(r.s, c.obj)
               IN IF r.status = "OK"
                  THEN /\ Answer("MKDIR", path, "OK", Found(s1, c.obj), Stat(s1, path))
                       /\ GiveHandle(s1, c.obj)
                  ELSE Answer("MKDIR", path, r.status, FALSE, Stat(r.s, path)) /\ NoHandle
  BY DEF Mkdir
<1> HIDE DEF path, c, s0
<1>5. CASE c.status # "OK" /\ Answer("MKDIR", path, c.status, FALSE, Stat(s0, path)) /\ NoHandle
  <2>1. Keeps(Now, Stat(s0, path)) /\ Stat(s0, path).fs = fs
    BY <1>1, <1>3, StatAfter
  <2>2. c.status \in Status /\ Refuses("MKDIR", path, c.status, fs, fs)
    BY <1>2, <1>5 DEF Status, Refuses
  <2> QED BY <1>5, <2>1, <2>2, NoHandleHanded, LookSafe
<1>6. ASSUME c.status = "OK", NEW r \in go_mkdir(s0, c.obj),
             LET s1 == Stat(r.s, c.obj)
             IN IF r.status = "OK"
                THEN /\ Answer("MKDIR", path, "OK", Found(s1, c.obj), Stat(s1, path))
                     /\ GiveHandle(s1, c.obj)
                ELSE Answer("MKDIR", path, r.status, FALSE, Stat(r.s, path)) /\ NoHandle
      PROVE  Safe
  <2>1. /\ r.status \in Status /\ Keeps(s0, r.s)
        /\ Unaltered(fs, r.s.fs) /\ Spares(fs, r.s.fs, {})
        /\ r.status = "OK" => Exists(r.s.fs, Clean(c.obj))
        /\ r.status # "OK" => r.s.fs = fs
    BY <1>2, <1>3, <1>6, go_mkdirOK
  <2>2. Keeps(Now, r.s)
    BY <1>3, <2>1, KeepsTrans
  <2>3. TreeStep("MKDIR", r.status, fs, r.s.fs, Root)
    BY <2>1, SparesStep
  <2>4. \A st, f : Refuses("MKDIR", path, st, fs, f)
    BY <1>2, <1>6 DEF Refuses
  <2>5. CASE r.status = "OK"
    <3> DEFINE s1 == Stat(r.s, c.obj)
               s2 == Stat(s1, path)
    <3>1. Answer("MKDIR", path, "OK", Found(s1, c.obj), s2) /\ GiveHandle(s1, c.obj)
      BY <1>6, <2>5
    <3>2. Handed(s2) /\ Keeps(Now, s2) /\ s2.fs = r.s.fs
      BY <1>1, <1>2, <1>6, <2>1, <2>2, <2>5, <3>1, MadeHanded
    <3> HIDE DEF s1, s2
    <3> QED BY <2>1, <2>3, <2>4, <2>5, <3>1, <3>2, AnswerSafe
  <2>6. CASE r.status # "OK"
    <3> DEFINE s2 == Stat(r.s, path)
    <3>1. Answer("MKDIR", path, r.status, FALSE, s2) /\ NoHandle
      BY <1>6, <2>6
    <3>2. Keeps(Now, s2) /\ s2.fs = r.s.fs
      BY <1>1, <2>2, StatAfter
    <3> HIDE DEF s2
    <3> QED BY <2>1, <2>3, <2>4, <3>1, <3>2, NoHandleHanded, AnswerSafe
  <2> QED BY <2>5, <2>6
<1> QED BY <1>4, <1>5, <1>6

(* A request that takes at most the childless object at d away, and only   *)
(* when it is answered OK.                                                 *)
LEMMA DestroyerSafe ==
    ASSUME IInv, NEW proc \in {"REMOVE", "RMDIR", "RENAME"}, NEW STATE path,
           NEW STATE st, st \in Status, NEW STATE s, NEW STATE d,
           Answer(proc, path, st, FALSE, s), NoHandle, Keeps(Now, s),
           Unaltered(fs, s.fs), TakesAtMost(fs, s.fs, d), st # "OK" => s.fs = fs,
           path = NULL => st \in {"STALE", "ACCES", "NAMETOOLONG"}
    PROVE  Safe
<1>1. st # "OK" => Spares(fs, s.fs, {})
  BY SameTree DEF IInv, TypeOK
<1>2. TreeStep(proc, st, fs, s.fs, d)
  BY <1>1 DEF TreeStep
<1>3. Refuses(proc, path, st, fs, s.fs)
  BY DEF Refuses
<1> QED BY <1>2, <1>3, NoHandleHanded, AnswerSafe

(* What is left to do after the call that leaves r.s in place of s0.       *)
LEMMA AfterRemoval ==
    ASSUME IInv, NEW s0, Keeps(Now, s0), s0.fs = fs, NEW r, NEW d, NEW path \in AnyPath,
           \/ \E st \in Status \ {"OK"} : r = Result(st, s0)
           \/ /\ r.status \in Status /\ Keeps(s0, r.s)
              /\ Unaltered(s0.fs, r.s.fs) /\ TakesAtMost(s0.fs, r.s.fs, d)
              /\ r.status # "OK" => r.s.fs = s0.fs
    PROVE  LET s2 == Stat(r.s, path)
           IN /\ r.status \in Status /\ Keeps(Now, s2)
              /\ Unaltered(fs, s2.fs) /\ TakesAtMost(fs, s2.fs, d)
              /\ r.status # "OK" => s2.fs = fs
<1>1. /\ r.status \in Status /\ Keeps(s0, r.s)
      /\ Unaltered(s0.fs, r.s.fs) /\ TakesAtMost(s0.fs, r.s.fs, d)
      /\ r.status # "OK" => r.s.fs = s0.fs
  <2>1. ASSUME NEW st \in Status \ {"OK"}, r = Result(st, s0)
        PROVE  /\ r.status \in Status /\ Keeps(s0, r.s)
               /\ Unaltered(s0.fs, r.s.fs) /\ TakesAtMost(s0.fs, r.s.fs, d)
               /\ r.status # "OK" => r.s.fs = s0.fs
    BY <2>1, RefusedOK DEF Keeps
  <2> QED BY <2>1
<1>2. Keeps(Now, r.s)
  BY <1>1, KeepsTrans
<1>3. Keeps(Now, Stat(r.s, path)) /\ Stat(r.s, path).fs = r.s.fs
  BY <1>2, StatAfter
<1> QED BY <1>1, <1>3

LEMMA Remove3Safe == ASSUME IInv, NEW h, NEW name \in ArgName, Remove3(h, name) PROVE Safe
<1> DEFINE path == fh_decomp(h)
           c == cat_name(path, name)
           s0 == Stat(Now, path)
<1>1. PICK r \in IF c.status = "OK" THEN go_remove(s0, c.obj) ELSE {Result(c.status, s0)} :
         Answer("REMOVE", path, r.status, FALSE, Stat(r.s, path)) /\ NoHandle
  BY DEF Remove3
<1>2. path \in AnyPath
  BY HandleOK
<1>3. /\ c.status \in {"OK", "STALE", "ACCES", "NAMETOOLONG"}
      /\ c.status = "OK" => c.obj \in AnyPath
      /\ path = NULL => c.status = "STALE"
  BY <1>2, ArgNameOK, cat_nameOK DEF AnyPath
<1>4. Keeps(Now, s0) /\ ServerOK(s0) /\ s0.fs = fs
  BY <1>2, StatNow DEF Keeps
<1> HIDE DEF path, c, s0
<1>5. \/ c.status # "OK" /\ r = Result(c.status, s0)
      \/ c.status = "OK" /\ r \in go_remove(s0, c.obj)
  BY <1>1
<1>6. path = NULL => r.status = "STALE"
  BY <1>3, <1>5 DEF Result
<1>7. \/ \E st \in Status \ {"OK"} : r = Result(st, s0)
      \/ /\ r.status \in Status /\ Keeps(s0, r.s)
         /\ Unaltered(s0.fs, r.s.fs) /\ TakesAtMost(s0.fs, r.s.fs, Clean(c.obj))
         /\ r.status # "OK" => r.s.fs = s0.fs
  <2>1. CASE c.status # "OK"
    BY <1>3, <1>5, <2>1 DEF Status
  <2>2. CASE c.status = "OK"
    BY <1>3, <1>4, <1>5, <2>2, go_removeOK
  <2> QED BY <2>1, <2>2
<1> DEFINE s2 == Stat(r.s, path)
<1>8. /\ r.status \in Status /\ Keeps(Now, s2)
      /\ Unaltered(fs, s2.fs) /\ TakesAtMost(fs, s2.fs, Clean(c.obj))
      /\ r.status # "OK" => s2.fs = fs
  BY <1>2, <1>4, <1>7, AfterRemoval
<1> HIDE DEF s2
<1> QED BY <1>1, <1>6, <1>8, DestroyerSafe DEF s2

LEMMA RmdirSafe == ASSUME IInv, NEW h, NEW name \in ArgName, Rmdir(h, name) PROVE Safe
<1> DEFINE path == fh_decomp(h)
           c == cat_name(path, name)
           s0 == Stat(Now, path)
<1>1. PICK r \in IF c.status = "OK" THEN go_rmdir(s0, c.obj) ELSE {Result(c.status, s0)} :
         Answer("RMDIR", path, r.status, FALSE, Stat(r.s, path)) /\ NoHandle
  BY DEF Rmdir
<1>2. path \in AnyPath
  BY HandleOK
<1>3. /\ c.status \in {"OK", "STALE", "ACCES", "NAMETOOLONG"}
      /\ c.status = "OK" => c.obj \in AnyPath
      /\ path = NULL => c.status = "STALE"
  BY <1>2, ArgNameOK, cat_nameOK DEF AnyPath
<1>4. Keeps(Now, s0) /\ ServerOK(s0) /\ s0.fs = fs
  BY <1>2, StatNow DEF Keeps
<1> HIDE DEF path, c, s0
<1>5. \/ c.status # "OK" /\ r = Result(c.status, s0)
      \/ c.status = "OK" /\ r \in go_rmdir(s0, c.obj)
  BY <1>1
<1>6. path = NULL => r.status = "STALE"
  BY <1>3, <1>5 DEF Result
<1>7. \/ \E st \in Status \ {"OK"} : r = Result(st, s0)
      \/ /\ r.status \in Status /\ Keeps(s0, r.s)
         /\ Unaltered(s0.fs, r.s.fs) /\ TakesAtMost(s0.fs, r.s.fs, Clean(c.obj))
         /\ r.status # "OK" => r.s.fs = s0.fs
  <2>1. CASE c.status # "OK"
    BY <1>3, <1>5, <2>1 DEF Status
  <2>2. CASE c.status = "OK"
    BY <1>3, <1>4, <1>5, <2>2, go_rmdirOK
  <2> QED BY <2>1, <2>2
<1> DEFINE s2 == Stat(r.s, path)
<1>8. /\ r.status \in Status /\ Keeps(Now, s2)
      /\ Unaltered(fs, s2.fs) /\ TakesAtMost(fs, s2.fs, Clean(c.obj))
      /\ r.status # "OK" => s2.fs = fs
  BY <1>2, <1>4, <1>7, AfterRemoval
<1> HIDE DEF s2
<1> QED BY <1>1, <1>6, <1>8, DestroyerSafe DEF s2

LEMMA RenameSafe ==
    ASSUME IInv, NEW h1, NEW name1 \in ArgName, NEW h2, NEW name2 \in ArgName,
           Rename(h1, name1, h2, name2)
    PROVE  Safe
<1> DEFINE from == fh_decomp(h1)
           pre  == Stat(Now, from)
           to   == GetPath(pre.fddb, h2)
           c1   == cat_name(from, name1)
           c2   == cat_name(to, name2)
           s0   == Stat(pre, to)
           path == IF from = NULL THEN NULL ELSE to
<1>1. PICK r \in IF c1.status # "OK" THEN {Result(c1.status, s0)}
                 ELSE IF c2.status # "OK" THEN {Result(c2.status, s0)}
                 ELSE go_rename(s0, c1.obj, c2.obj) :
         /\ Answer("RENAME", path, r.status, FALSE, Stat(Stat(r.s, from), to))
         /\ NoHandle
  BY DEF Rename
<1>2. from \in AnyPath /\ to \in AnyPath
  <2>1. from \in AnyPath
    BY HandleOK
  <2>2. TableType(pre.fddb)
    BY <2>1, StatNow DEF Keeps, ServerOK
  <2> QED BY <2>1, <2>2 DEF GetPath, TableType, AnyPath
<1>3. /\ c1.status \in {"OK", "STALE", "ACCES", "NAMETOOLONG"}
      /\ c1.status = "OK" => c1.obj \in AnyPath
      /\ from = NULL => c1.status = "STALE"
      /\ c2.status \in {"OK", "STALE", "ACCES", "NAMETOOLONG"}
      /\ c2.status = "OK" => c2.obj \in AnyPath
      /\ to = NULL => c2.status = "STALE"
  BY <1>2, ArgNameOK, cat_nameOK DEF AnyPath
<1>4. Keeps(Now, s0) /\ ServerOK(s0) /\ s0.fs = fs
  <2>1. Keeps(Now, pre) /\ pre.fs = fs
    BY <1>2, StatNow
  <2> HIDE DEF pre
  <2> QED BY <1>2, <2>1, StatAfter DEF Keeps
<1> HIDE DEF from, pre, to, c1, c2, s0
<1>5. \/ c1.status # "OK" /\ r = Result(c1.status, s0)
      \/ c1.status = "OK" /\ c2.status # "OK" /\ r = Result(c2.status, s0)
      \/ c1.status = "OK" /\ c2.status = "OK" /\ r \in go_rename(s0, c1.obj, c2.obj)
  BY <1>1
<1>6. path = NULL => r.status \in {"STALE", "ACCES", "NAMETOOLONG"}
  BY <1>3, <1>5 DEF Result
<1>7. \/ \E st \in Status \ {"OK"} : r = Result(st, s0)
      \/ /\ r.status \in Status /\ Keeps(s0, r.s)
         /\ Unaltered(s0.fs, r.s.fs) /\ TakesAtMost(s0.fs, r.s.fs, Clean(c2.obj))
         /\ r.status # "OK" => r.s.fs = s0.fs
  <2>1. CASE c1.status # "OK" \/ c2.status # "OK"
    BY <1>3, <1>5, <2>1 DEF Status
  <2>2. CASE c1.status = "OK" /\ c2.status = "OK"
    BY <1>3, <1>4, <1>5, <2>2, go_renameOK
  <2> QED BY <2>1, <2>2
<1> DEFINE s1 == Stat(r.s, from)
           s2 == Stat(s1, to)
<1>8. /\ r.status \in Status /\ Keeps(Now, s1)
      /\ Unaltered(fs, s1.fs) /\ TakesAtMost(fs, s1.fs, Clean(c2.obj))
      /\ r.status # "OK" => s1.fs = fs
  BY <1>2, <1>4, <1>7, AfterRemoval
<1> HIDE DEF s1, path
<1>9. Keeps(Now, s2) /\ s2.fs = s1.fs
  BY <1>2, <1>8, StatAfter
<1>10. Answer("RENAME", path, r.status, FALSE, s2) /\ NoHandle
  BY <1>1 DEF s1
<1> HIDE DEF s2
<1> QED BY <1>6, <1>8, <1>9, <1>10, DestroyerSafe

-----------------------------------------------------------------------------
(* MNT and the restart.                                                    *)

LEMMA MntSafe == ASSUME IInv, NEW path \in PathsUpTo(MaxDepth), Mnt(path) PROVE Safe
<1> DEFINE r == go_lstat(Now, path)
<1>1. path \in AnyPath
  BY GoExportsAssumption, PathsUpToArePaths DEF AnyPath
<1>2. Keeps(Now, r.s) /\ ServerOK(r.s) /\ r.s.fs = fs
  BY <1>1, StatNow DEF Keeps
<1>3. r.status = "OK" => Exists(r.s.fs, Clean(path)) /\ Clean(path) \in Known(r.s.fddb)
  BY <1>1, <1>2, NowOK, go_lstatOK
<1>4. \/ \E st \in {"NOENT", "NOTDIR"} : Answer("QUERY", path, st, FALSE, r.s) /\ NoHandle
      \/ /\ r.status = "OK"
         /\ Answer("QUERY", path, "OK", Found(r.s, path), r.s) /\ GiveHandle(r.s, path)
  BY DEF Mnt
<1> HIDE DEF r
<1>5. \A st \in {"NOENT", "NOTDIR", "OK"} : st \in Status /\ Refuses("QUERY", path, st, fs, fs)
  BY DEF Status, Refuses
<1>6. ASSUME NEW st \in {"NOENT", "NOTDIR"}, Answer("QUERY", path, st, FALSE, r.s), NoHandle
      PROVE  Safe
  BY <1>2, <1>5, <1>6, QuerySafe
<1>7. CASE /\ r.status = "OK"
           /\ Answer("QUERY", path, "OK", Found(r.s, path), r.s) /\ GiveHandle(r.s, path)
  <2>1. Handed(r.s)
    BY <1>2, <1>3, <1>7, KeepsItself, GivenHanded
  <2> QED BY <1>2, <1>5, <1>7, <2>1, LookSafe
<1> QED BY <1>4, <1>6, <1>7

LEMMA RestartSafe == ASSUME IInv, Restart PROVE Safe
<1>1. /\ fddb' = EmptyTable /\ issued' = {} /\ fs' = fs /\ held' = Presented
      /\ reply'.proc = "none" /\ reply'.resolved = TRUE /\ reply'.status = "OK"
  BY DEF Restart
<1>2. Presented \subseteq Number
  <2>1. \A x \in issued : x[1] \in Number
    BY DEF IInv, TypeOK
  <2> QED BY <2>1 DEF Presented, IInv, TypeOK
<1>3. TypeOK'
  BY <1>1, <1>2, EmptyTableOK DEF TypeOK, IInv, Status
<1>4. IInv'
  BY <1>1, <1>3, EmptyTableOK DEF IInv
<1>5. RefusedStep /\ DestroyStep /\ StaleStep
  BY <1>1 DEF RefusedStep, DestroyStep, StaleStep, Ids
<1>6. AlterStep
  BY <1>1 DEF AlterStep, IInv, TypeOK, TreeType
<1> QED BY <1>4, <1>5, <1>6 DEF Safe

-----------------------------------------------------------------------------
(* The theorems.                                                           *)

LEMMA IInvInit == Init => IInv
BY NfsServerAssumption, EmptyTableOK DEF Init, IInv, TypeOK, Status

LEMMA NextSafe == IInv /\ Next => Safe
<1> SUFFICES ASSUME IInv, Next PROVE Safe
  OBVIOUS
<1>1. ASSUME NEW p \in PathsUpTo(MaxDepth), Mnt(p) PROVE Safe
  BY <1>1, MntSafe
<1>2. ASSUME NEW h, Getattr(h) PROVE Safe
  BY <1>2, GetattrSafe
<1>3. ASSUME NEW h, NEW size \in SetIt(Sizes), NEW mode \in SetIt(Modes),
             NEW mtime \in SetIt(Times), Setattr(h, size, mode, mtime)
      PROVE  Safe
  BY <1>3, SetattrSafe
<1>4. ASSUME NEW h, Access(h) PROVE Safe
  BY <1>4, AccessSafe
<1>5. ASSUME NEW h, Read(h) PROVE Safe
  BY <1>5, ReadSafe
<1>6. ASSUME NEW h, NEW offset \in Sizes, NEW count \in Sizes, Write(h, offset, count)
      PROVE  Safe
  BY <1>6, WriteSafe
<1>7. ASSUME NEW h, Readdir(h) PROVE Safe
  BY <1>7, ReaddirSafe
<1>8. ASSUME NEW h, Fsstat(h) \/ Fsinfo(h) \/ Pathconf(h) PROVE Safe
  BY <1>8, FsSafe
<1>9. ASSUME NEW h, Commit(h) PROVE Safe
  BY <1>9, CommitSafe
<1>10. ASSUME NEW h, NEW name \in ArgName, Lookup(h, name) PROVE Safe
  BY <1>10, LookupSafe
<1>11. ASSUME NEW h, NEW name \in ArgName, NEW how, NEW mode \in SetIt(Modes),
              Create(h, name, how, mode)
       PROVE  Safe
  BY <1>11, CreateSafe
<1>12. ASSUME NEW h, NEW name \in ArgName, Mkdir(h, name) PROVE Safe
  BY <1>12, MkdirSafe
<1>13. ASSUME NEW h, NEW name \in ArgName, Remove3(h, name) PROVE Safe
  BY <1>13, Remove3Safe
<1>14. ASSUME NEW h, NEW name \in ArgName, Rmdir(h, name) PROVE Safe
  BY <1>14, RmdirSafe
<1>15. ASSUME NEW h, NEW name \in ArgName, NEW h2, NEW name2 \in ArgName,
              Rename(h, name, h2, name2)
       PROVE  Safe
  BY <1>15, RenameSafe
<1>16. CASE Unsupported
  BY <1>16, UnsupportedSafe
<1>17. CASE Restart
  BY <1>17, RestartSafe
<1> QED
  BY <1>1, <1>2, <1>3, <1>4, <1>5, <1>6, <1>7, <1>8, <1>9, <1>10, <1>11, <1>12, <1>13,
     <1>14, <1>15, <1>16, <1>17 DEF Next

LEMMA IInvNext == IInv /\ [Next]_vars => IInv'
<1>1. IInv /\ Next => IInv'
  BY NextSafe DEF Safe
<1>2. IInv /\ UNCHANGED vars => IInv'
  BY DEF IInv, TypeOK, Now, vars
<1> QED BY <1>1, <1>2

LEMMA IInvHolds == Spec => []IInv
BY IInvInit, IInvNext, PTL DEF Spec

(* The tree hangs together, the table and the handles are well typed, in   *)
(* every reachable state.                                                  *)
THEOREM TypeCorrect == Spec => []TypeOK
<1>1. IInv => TypeOK
  BY DEF IInv
<1> QED BY <1>1, IInvHolds, PTL

(* A handle resolves to where its object is, whatever was renamed, removed *)
(* or made since it was given out.                                         *)
THEOREM HandlesFollowObjects == Spec => []HandleFollowsObject
<1>1. IInv => HandleFollowsObject
  <2> SUFFICES ASSUME IInv, NEW x \in issued, x[1] # NoFD,
                      NEW p \in DOMAIN fs.node, fs.node[p].id = x[2]
               PROVE  GetPath(fddb, x[1]) = p
    BY DEF HandleFollowsObject
  <2>1. Follows(Now, x) /\ Now.fs = fs /\ Now.fddb = fddb
    BY DEF IInv, Now
  <2>2. p \in Known(fddb) /\ fddb.PathMapA[p] = x[1] /\ x[1] \in Number
    BY <2>1 DEF Follows
  <2>3. x[1] \in DOMAIN fddb.PathMapB /\ fddb.PathMapB[x[1]] = p
    BY <2>2 DEF IInv, Consistent
  <2>4. x[1] >= 100
    BY <2>2 DEF Number, FirstFD
  <2> QED BY <2>3, <2>4 DEF GetPath
<1> QED BY <1>1, IInvHolds, PTL

(* Two objects never share a fileid other than 0.                          *)
THEOREM FileidsAreUnique == Spec => []FileidsDiffer
<1>1. IInv => FileidsDiffer
  BY DEF IInv, Consistent, FileidsDiffer
<1> QED BY <1>1, IInvHolds, PTL

LEMMA StepsSafe == IInv /\ [Next]_vars => [RefusedStep /\ DestroyStep /\ AlterStep /\ StaleStep]_vars
<1>1. IInv /\ Next => RefusedStep /\ DestroyStep /\ AlterStep /\ StaleStep
  BY NextSafe DEF Safe
<1> QED BY <1>1

(* A refused request, CREATE and SETATTR apart, leaves the tree alone.     *)
THEOREM RefusalsLeaveTree == Spec => RefusedLeavesTree
<1>1. IInv /\ [Next]_vars => [RefusedStep]_vars
  BY StepsSafe
<1> QED BY <1>1, IInvHolds, PTL DEF Spec, RefusedLeavesTree

(* A request takes at most one object away, and never one with children.   *)
THEOREM RequestsDestroyOne == Spec => DestroysOneAtMost
<1>1. IInv /\ [Next]_vars => [DestroyStep]_vars
  BY StepsSafe
<1> QED BY <1>1, IInvHolds, PTL DEF Spec, DestroysOneAtMost

(* Only SETATTR and WRITE alter an object that was there before.           *)
THEOREM WritersAlter == Spec => OnlyWritersAlter
<1>1. IInv /\ [Next]_vars => [AlterStep]_vars
  BY StepsSafe
<1> QED BY <1>1, IInvHolds, PTL DEF Spec, OnlyWritersAlter

(* A directory handle that does not resolve is refused by LOOKUP, MKDIR,   *)
(* REMOVE, RMDIR and RENAME, which then do nothing.                        *)
THEOREM StaleHandlesRefused == Spec => StaleDirectoryRefused
<1>1. IInv /\ [Next]_vars => [StaleStep]_vars
  BY StepsSafe
<1> QED BY <1>1, IInvHolds, PTL DEF Spec, StaleDirectoryRefused
=============================================================================
