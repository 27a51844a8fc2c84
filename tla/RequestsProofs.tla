--------------------------- MODULE RequestsProofs ---------------------------
(***************************************************************************)
(* The safety properties of Requests, for every set of names and modes,    *)
(* every tree, every set of requests and every value of the bounds.        *)
(***************************************************************************)
EXTENDS Requests, GoExportsProofs

(* What a request names in the table as it is.                             *)
ObjOf(req) == Named(fddb, req.h, req.name).obj
ToOf(req)  == Named(fddb, req.h2, req.name2).obj
CheckedNow(req) == Checked(req, fddb)
Current == sent[Len(sent)]

(* The network and the process.                                            *)
Bookkeeping ==
    /\ Consistent(fddb)
    /\ losses \in Nat /\ ends \in Nat
    /\ ~waiting => replies = {}
    /\ ~up => ends > 0 /\ last = None
    /\ Busy /\ undisturbed => exec.xid = Len(sent)

(* The record of an execution.                                             *)
Executing ==
    \/ exec = Idle
    \/ /\ exec = [xid |-> exec.xid, obj |-> exec.obj, to |-> exec.to,
                  before |-> exec.before, checked |-> exec.checked,
                  status |-> exec.status, todo |-> exec.todo]
       /\ exec.xid \in 1 .. Len(sent)
       /\ TreeType(exec.before)

(* It works on the paths its names stand for, unless cat_name refused them.*)
NamesHold ==
    Busy =>
        /\ Req.proc \in {"SETATTR", "CREATE"} => exec.obj \in Path
        /\ Req.proc # "SETATTR" /\ exec.checked = "OK" =>
              /\ Resolves(Req) /\ CheckedNow(Req) = "OK"
              /\ exec.obj = ObjOf(Req)
              /\ Req.proc = "RENAME" => exec.to = ToOf(Req)
        /\ undisturbed /\ ends = 0 => exec.checked = CheckedNow(Req)

-----------------------------------------------------------------------------
(* How far an execution is, by the calls that are left.                    *)

(* MKDIR, REMOVE, RMDIR and RENAME: one call, or none.                     *)
OneCall ==
    CASE Req.proc = "MKDIR"  -> [call |-> "mkdir", path |-> exec.obj]
      [] Req.proc = "RENAME" -> [call |-> "move", path |-> exec.obj, to |-> exec.to]
      [] OTHER               -> [call |-> "remove", path |-> exec.obj]

OneCallProgress ==
    \/ /\ exec.todo = <<>>
       /\ exec.status # "OK" => fs = exec.before
       /\ exec.checked # "OK" => exec.status \in {"STALE", "ACCES", "NAMETOOLONG"}
    \/ /\ exec.todo = <<OneCall>> /\ exec.status = "OK" /\ exec.checked = "OK"
       /\ fs = exec.before
       /\ Req.proc # "MKDIR" => Exists(fs, exec.obj)
       /\ Req.proc = "REMOVE" => ~IsDir(fs, exec.obj)
       /\ Req.proc = "RMDIR"  => IsDir(fs, exec.obj)

(* CREATE: f is the tree once the way is clear for the new file.           *)
Over == Req.how = "UNCHECKED" /\ Exists(exec.before, exec.obj)
ClearTree(f) ==
    IF Over THEN ~IsDir(exec.before, exec.obj) /\ Done(f) \in Remove(exec.before, exec.obj)
            ELSE f = exec.before

CreateProgress ==
    LET obj == exec.obj
        rm  == [call |-> "remove", path |-> obj]
        mk  == [call |-> "create", path |-> obj]
        ch  == [call |-> "set", path |-> obj, attr |-> "mode", v |-> create_mode(Req.mode)]
    IN \/ exec.todo = <<>>
       \/ /\ exec.status = "OK"
          /\ \/ /\ exec.todo = <<rm, mk, ch>> /\ fs = exec.before
                /\ Over /\ ~IsDir(exec.before, obj)
             \/ exec.todo = <<mk, ch>> /\ ClearTree(fs)
             \/ /\ exec.todo = <<ch>>
                /\ \E f \in {exec.before, Without(exec.before, obj)} :
                      ClearTree(f) /\ Done(fs) \in CreateFile(f, obj)

(* SETATTR: what is not left to do has been done, or failed.               *)
Given(attr, opt) ==
    exec.status = "OK" /\ opt # <<>> =>
        Exists(fs, exec.obj) /\ fs.node[exec.obj][attr] = opt[1]

SetattrProgress ==
    LET size  == SetCall("size", exec.obj, Req.size)
        mode  == SetCall("mode", exec.obj, Req.mode)
        mtime == SetCall("mtime", exec.obj, Req.mtime)
    IN \/ exec.todo = size \o mode \o mtime
       \/ exec.todo = mode \o mtime /\ Given("size", Req.size)
       \/ exec.todo = mtime /\ Given("size", Req.size) /\ Given("mode", Req.mode)
       \/ /\ exec.todo = <<>>
          /\ Given("size", Req.size) /\ Given("mode", Req.mode) /\ Given("mtime", Req.mtime)

Progress ==
    Busy => /\ Req.proc = "SETATTR" => SetattrProgress
            /\ Req.proc = "CREATE" => CreateProgress
            /\ Req.proc \notin {"SETATTR", "CREATE"} => OneCallProgress

(* What an execution of cat_name's names has achieved when it is over.     *)
MakesNew(req) == req.proc = "MKDIR" \/ (req.proc = "CREATE" /\ req.how # "UNCHECKED")
Removes(req)  == req.proc \in {"REMOVE", "RMDIR"}

(* The paths of a rename that has moved something.                         *)
Apart(old, new) == old # Root /\ ~Under(new, old) /\ ~Under(old, new)

Achieved ==
    Executed /\ exec.checked = "OK" =>
        /\ MakesNew(Req) /\ exec.status \in {"OK", "EXIST"} => Exists(fs, exec.obj)
        /\ Removes(Req) /\ exec.status \in {"OK", "NOENT"} => ~Exists(fs, exec.obj)
        /\ Req.proc = "RENAME" /\ exec.status = "OK" =>
              /\ Exists(fs, exec.to)
              /\ \/ exec.obj = exec.to
                 \/ ~Exists(fs, exec.obj) /\ Apart(exec.obj, exec.to)

-----------------------------------------------------------------------------
(* A request that is as good as done: to execute it again moves, makes and *)
(* removes nothing.                                                        *)
Settled(req) ==
    /\ Resolves(req)
    /\ MakesNew(req) => CheckedNow(req) = "OK" /\ Exists(fs, ObjOf(req))
    /\ Removes(req) => ~Exists(fs, ObjOf(req))
    /\ req.proc = "RENAME" =>
          /\ Exists(fs, ToOf(req))
          /\ Exists(fs, ObjOf(req)) => ObjOf(req) = ToOf(req)

Settles(req) == MakesNew(req) \/ Removes(req) \/ req.proc = "RENAME"

SameObjects(f, f2) ==
    /\ DOMAIN f.node = DOMAIN f2.node
    /\ \A p \in DOMAIN f.node : f.node[p].id = f2.node[p].id

(* The last request that was answered OK, while no other was executed.     *)
Remembered ==
    last.xid # 0 =>
        LET req == sent[last.xid]
        IN /\ last.xid \in 1 .. Len(sent)
           /\ Busy => /\ exec.xid = last.xid
                      /\ MakesNew(req) => exec.checked = "OK"
           /\ Settles(req) => Settled(req)
           /\ Settles(req) \/ req.proc = "SETATTR" => SameObjects(fs, last.fs)

(* The answers the client may take for true.                               *)
Claims(req, r) ==
    \/ /\ MakesNew(req) /\ r \in {"OK", "EXIST"}
       /\ req.proc = "CREATE" => CheckedNow(req) = "OK"
    \/ Removes(req) /\ r \in {"OK", "NOENT"}
    \/ req.proc = "RENAME" /\ r = "OK"
Heard == IF waiting THEN replies ELSE {answer}

Believable ==
    undisturbed /\ ends = 0 /\ sent # <<>> =>
        /\ Resolves(Current)
        /\ \A r \in Heard : Claims(Current, r) => Settled(Current)

(* The inductive invariant.                                                *)
IInv ==
    /\ TypeOK /\ Bookkeeping /\ Executing /\ NamesHold
    /\ Progress /\ Achieved /\ CutIsClean
    /\ Remembered /\ Believable

-----------------------------------------------------------------------------
(* Lists of calls.                                                         *)
LEMMA ListsOfCalls ==
    ASSUME NEW a, NEW b, NEW c
    PROVE  <<a>> \o <<b>> = <<a, b>> /\ <<a>> \o <<b, c>> = <<a, b, c>>
<1> DEFINE S == {a, b, c}
<1>1. <<a>> \in Seq(S) /\ <<b>> \in Seq(S) /\ <<b, c>> \in Seq(S)
      /\ <<a, b>> \in Seq(S) /\ <<a, b, c>> \in Seq(S)
  OBVIOUS
<1>2. <<a>> \o <<b>> = <<a, b>>
  <2>1. /\ <<a>> \o <<b>> \in Seq(S) /\ Len(<<a>> \o <<b>>) = 2
        /\ \A i \in 1 .. 2 : (<<a>> \o <<b>>)[i] = IF i <= 1 THEN a ELSE <<b>>[i - 1]
    BY <1>1, ConcatProperties
  <2>2. \A i \in 1 .. 2 : (<<a>> \o <<b>>)[i] = <<a, b>>[i]
    BY <2>1
  <2> QED BY <1>1, <2>1, <2>2, SeqEqual
<1>3. <<a>> \o <<b, c>> = <<a, b, c>>
  <2>1. /\ <<a>> \o <<b, c>> \in Seq(S) /\ Len(<<a>> \o <<b, c>>) = 3
        /\ \A i \in 1 .. 3 : (<<a>> \o <<b, c>>)[i] = IF i <= 1 THEN a ELSE <<b, c>>[i - 1]
    BY <1>1, ConcatProperties
  <2>2. \A i \in 1 .. 3 : (<<a>> \o <<b, c>>)[i] = <<a, b, c>>[i]
    BY <2>1
  <2> QED BY <1>1, <2>1, <2>2, SeqEqual
<1> QED BY <1>2, <1>3

LEMMA FirstCall ==
    ASSUME NEW S, NEW c \in S, NEW s \in Seq(S)
    PROVE  /\ <<c>> \o s \in Seq(S) /\ <<c>> \o s # <<>>
           /\ Head(<<c>> \o s) = c /\ Tail(<<c>> \o s) = s
<1> DEFINE t == <<c>> \o s
<1>1. <<c>> \in Seq(S) /\ Len(<<c>>) = 1 /\ <<c>>[1] = c /\ Len(s) \in Nat
  OBVIOUS
<1>2. /\ t \in Seq(S) /\ Len(t) = 1 + Len(s)
      /\ \A i \in 1 .. 1 + Len(s) : t[i] = IF i <= 1 THEN <<c>>[i] ELSE s[i - 1]
  BY <1>1, ConcatProperties
<1> HIDE DEF t
<1>3. t # <<>> /\ t[1] = c
  BY <1>1, <1>2
<1>4. /\ Tail(t) \in Seq(S) /\ Len(Tail(t)) = Len(t) - 1
      /\ \A i \in 1 .. Len(Tail(t)) : Tail(t)[i] = t[i + 1]
  BY <1>2, <1>3, HeadTailProperties
<1>5. Tail(t) = s
  <2>1. \A i \in 1 .. Len(Tail(t)) : Tail(t)[i] = s[i]
    BY <1>1, <1>2, <1>4
  <2> QED BY <1>1, <1>2, <1>4, <2>1, SeqEqual
<1>6. Head(t) = c
  BY <1>2, <1>3
<1> QED BY <1>2, <1>3, <1>5, <1>6 DEF t

-----------------------------------------------------------------------------
(* What each call of the backend does exactly.                             *)

LEMMA MadeExactly ==
    ASSUME NEW f, TreeType(f), NEW p \in Path, NEW kind \in {"REG", "DIR"},
           NEW o \in Make(f, p, kind)
    PROVE  /\ CallOK(f, o)
           /\ o.err = "ErrExist" => Exists(f, p)
           /\ o.err = "nil" =>
                 /\ ~Exists(f, p)
                 /\ DOMAIN o.fs.node = DOMAIN f.node \cup {p}
                 /\ \A q \in DOMAIN f.node : o.fs.node[q] = f.node[q]
                 /\ o.fs.node[p].id = f.born + 1
                 /\ o.fs.node[p].kind = kind /\ o.fs.node[p].size = 0
                 /\ o.fs.born = f.born + 1
<1>1. CASE Exists(f, p)
  <2>1. o = Fail(f, "ErrExist")
    BY <1>1 DEF Make
  <2> QED BY <1>1, <2>1, FailOK DEF GoError, Fail
<1>2. CASE ~Exists(f, p) /\ ~IsDir(f, Parent(p))
  <2>1. o = Fail(f, "ErrNotExist")
    BY <1>2 DEF Make
  <2> QED BY <2>1, FailOK DEF GoError, Fail
<1>3. CASE ~Exists(f, p) /\ IsDir(f, Parent(p))
  <2>1. PICK mt \in Times : o \in MayFail(f, Born(f, p, kind, mt))
    BY <1>3 DEF Make
  <2> DEFINE f2 == Born(f, p, kind, mt)
  <2>2. /\ TreeType(f2)
        /\ f2.born = f.born + 1
        /\ DOMAIN f2.node = DOMAIN f.node \cup {p}
        /\ f2.node[p].id = f.born + 1
        /\ \A q \in DOMAIN f.node : f2.node[q] = f.node[q]
    BY <1>3, BornOK
  <2>3. f2.node[p].kind = kind /\ f2.node[p].size = 0
    BY DEF Born
  <2> HIDE DEF f2
  <2>4. CallOK(f, o) /\ (o.err = "nil" => o.fs = f2)
    BY <2>1, <2>2, MayFailOK DEF f2
  <2>5. o.err # "ErrExist"
    BY <2>1 DEF MayFail, Done, Fail
  <2> QED BY <1>3, <2>2, <2>3, <2>4, <2>5
<1> QED BY <1>1, <1>2, <1>3

LEMMA RemovedExactly ==
    ASSUME NEW f, TreeType(f), NEW p \in Path, NEW o \in Remove(f, p)
    PROVE  /\ CallOK(f, o)
           /\ o.err = "ErrNotExist" => ~Exists(f, p)
           /\ o.err = "nil" =>
                 /\ Exists(f, p) /\ o.fs = Without(f, p)
                 /\ DOMAIN o.fs.node = DOMAIN f.node \ {p}
                 /\ \A q \in DOMAIN f.node \ {p} : o.fs.node[q] = f.node[q]
                 /\ o.fs.born = f.born
<1>1. CASE ~Exists(f, p)
  <2>1. o = Fail(f, "ErrNotExist")
    BY <1>1 DEF Remove
  <2> QED BY <1>1, <2>1, FailOK DEF GoError, Fail
<1>2. CASE Exists(f, p) /\ (p = Root \/ Children(f, p) # {})
  <2>1. \E e \in {"ErrPermission", "not_empty"} : o = Fail(f, e)
    BY <1>2 DEF Remove
  <2> QED BY <2>1, FailOK DEF GoError, Fail
<1>3. CASE Exists(f, p) /\ p # Root /\ Children(f, p) = {}
  <2> DEFINE f2 == Without(f, p)
  <2>1. /\ TreeType(f2)
        /\ f2.born = f.born
        /\ DOMAIN f2.node = DOMAIN f.node \ {p}
        /\ \A q \in DOMAIN f.node \ {p} : f2.node[q] = f.node[q]
    BY <1>3, WithoutOK DEF Exists
  <2> HIDE DEF f2
  <2>2. o \in MayFail(f, f2)
    BY <1>3 DEF Remove, f2
  <2>3. CallOK(f, o) /\ (o.err = "nil" => o.fs = f2)
    BY <2>1, <2>2, MayFailOK
  <2>4. o.err # "ErrNotExist"
    BY <2>2 DEF MayFail, Done, Fail
  <2> QED BY <1>3, <2>1, <2>3, <2>4 DEF f2
<1> QED BY <1>1, <1>2, <1>3

(* SetAttribute sets the attribute, and truncation the time as well.       *)
LEMMA SetExactly ==
    ASSUME NEW f, TreeType(f), NEW p \in Path, NEW attr, NEW v, ValueOf(attr, v),
           NEW o \in SetAttribute(f, p, attr, v), o.err = "nil"
    PROVE  /\ Exists(f, p) /\ Exists(o.fs, p)
           /\ o.fs.node[p][attr] = v
           /\ o.fs.node[p].kind = f.node[p].kind
           /\ attr # "size" => o.fs.node[p].size = f.node[p].size
           /\ attr # "mode" => o.fs.node[p].mode = f.node[p].mode
<1>1. Exists(f, p) /\ ~(attr = "size" /\ IsDir(f, p))
  <2>1. \A e : o = Fail(f, e) => o.err = e
    BY DEF Fail
  <2>2. ~Exists(f, p) => o = Fail(f, "ErrNotExist")
    BY DEF SetAttribute
  <2>3. Exists(f, p) /\ attr = "size" /\ IsDir(f, p) => o = Fail(f, "ErrInvalid")
    BY DEF SetAttribute
  <2> QED BY <2>1, <2>2, <2>3
<1> DEFINE ob == f.node[p]
<1>2. p \in DOMAIN f.node /\ ob \in Object
  BY <1>1, TreeAt DEF Exists
<1> HIDE DEF ob
<1>3. PICK o2 : /\ o.fs = [f EXCEPT !.node[p] = o2]
                /\ o2[attr] = v
                /\ o2.kind = ob.kind
                /\ attr # "size" => o2.size = ob.size
                /\ attr # "mode" => o2.mode = ob.mode
  <2>1. CASE attr = "mode"
    <3>1. o.fs = [f EXCEPT !.node[p] = [ob EXCEPT !["mode"] = v]]
      BY <1>1, <2>1 DEF SetAttribute, MayFail, Done, Fail, ob
    <3>2. /\ [ob EXCEPT !["mode"] = v].mode = v
          /\ [ob EXCEPT !["mode"] = v].kind = ob.kind
          /\ [ob EXCEPT !["mode"] = v].size = ob.size
      BY <1>2 DEF Object
    <3> QED BY <2>1, <3>1, <3>2
  <2>2. CASE attr = "mtime"
    <3>1. o.fs = [f EXCEPT !.node[p] = [ob EXCEPT !["mtime"] = v]]
      BY <1>1, <2>2 DEF SetAttribute, MayFail, Done, Fail, ob
    <3>2. /\ [ob EXCEPT !["mtime"] = v].mtime = v
          /\ [ob EXCEPT !["mtime"] = v].kind = ob.kind
          /\ [ob EXCEPT !["mtime"] = v].size = ob.size
          /\ [ob EXCEPT !["mtime"] = v].mode = ob.mode
      BY <1>2 DEF Object
    <3> QED BY <2>2, <3>1, <3>2
  <2>3. CASE attr = "size"
    <3>1. PICK mt \in Times :
             o \in MayFail(f, [f EXCEPT !.node[p] = [@ EXCEPT !.size = v, !.mtime = mt]])
      BY <1>1, <2>3 DEF SetAttribute
    <3> DEFINE f2 == [f EXCEPT !.node[p] = [@ EXCEPT !.size = v, !.mtime = mt]]
    <3>3. o.fs = f2
      <4> HIDE DEF f2
      <4> QED BY <3>1 DEF MayFail, Done, Fail, f2
    <3>4. f2 = [f EXCEPT !.node[p] = [ob EXCEPT !.size = v, !.mtime = mt]]
      BY DEF ob
    <3>2. /\ [ob EXCEPT !.size = v, !.mtime = mt].size = v
          /\ [ob EXCEPT !.size = v, !.mtime = mt].kind = ob.kind
          /\ [ob EXCEPT !.size = v, !.mtime = mt].mode = ob.mode
      BY <1>2 DEF Object
    <3> QED BY <2>3, <3>2, <3>3, <3>4
  <2> QED BY <2>1, <2>2, <2>3 DEF ValueOf
<1>4. p \in DOMAIN o.fs.node /\ o.fs.node[p] = o2
  <2>1. f = [node |-> f.node, born |-> f.born]
    BY DEF TreeType
  <2> QED BY <1>2, <1>3, <2>1
<1> QED BY <1>1, <1>3, <1>4 DEF Exists, ob

(* A move that is made takes the object at old to new.                     *)
LEMMA MovedExactly ==
    ASSUME NEW f, TreeType(f), NEW old \in Path, NEW new \in Path, NEW o \in Move(f, old, new)
    PROVE  /\ CallOK(f, o)
           /\ old = new => o.fs = f
           /\ o.err = "nil" =>
                 /\ Exists(f, old) /\ Exists(o.fs, new)
                 /\ old # new => ~Exists(o.fs, old) /\ Apart(old, new)
<1>1. /\ CallOK(f, o)
      /\ o.err = "nil" => \/ old = new /\ o.fs = f
                          \/ MoveAllowed(f, old, new) /\ o.fs = Moved(f, old, new)
  BY MoveOK
<1>2. old = new => o.fs = f
  BY <1>1 DEF CallOK, MoveAllowed
<1>3. o.err = "nil" => Exists(f, old)
  BY DEF Move, Fail
<1>4. CASE o.err = "nil" /\ old # new
  <2> DEFINE f2 == Moved(f, old, new)
             W(p) == Whence(f, old, new, p)
  <2>1. MoveAllowed(f, old, new) /\ o.fs = f2
    BY <1>1, <1>4
  <2>2. /\ \A p \in DOMAIN f2.node :
              /\ W(p) = old \/ Under(W(p), old) => p = Rebase(W(p), old, new)
              /\ ~(W(p) = old \/ Under(W(p), old)) => p = W(p) /\ p # new /\ ~Under(p, new)
              /\ W(p) \in DOMAIN f.node
        /\ \A q \in DOMAIN f.node \ {new} :
              LET p == IF q = old \/ Under(q, old) THEN Rebase(q, old, new) ELSE q
              IN p \in DOMAIN f2.node /\ W(p) = q
    BY <2>1, MovedShape
  <2>3. old \in DOMAIN f.node /\ old # new /\ old # Root /\ ~Under(new, old) /\ Children(f, new) = {}
    BY <2>1 DEF MoveAllowed, Exists
  <2> HIDE DEF f2, W
  <2>4. Rebase(old, old, new) = new
    BY RebaseSelf
  <2>5. new \in DOMAIN f2.node
    BY <2>2, <2>3, <2>4
  <2>6. ~Under(old, new)
    BY <2>3, NoOrphans
  <2>7. old \notin DOMAIN f2.node
    <3> SUFFICES ASSUME old \in DOMAIN f2.node PROVE FALSE
      OBVIOUS
    <3>1. W(old) = old \/ Under(W(old), old)
      BY <2>2
    <3>2. old = Rebase(W(old), old, new) /\ W(old) \in Path
      BY <2>2, <3>1 DEF TreeType
    <3>3. W(old) = old => old = new
      BY <2>4, <3>2
    <3>4. Under(W(old), old) => Under(old, new)
      BY <3>2, RebaseUnder
    <3> QED BY <2>3, <2>6, <3>1, <3>3, <3>4
  <2> QED BY <1>1, <1>2, <1>3, <1>4, <2>1, <2>3, <2>5, <2>6, <2>7 DEF Apart, Exists
<1> QED BY <1>1, <1>2, <1>3, <1>4 DEF Exists

-----------------------------------------------------------------------------
(* Where the handles go.                                                   *)

(* A handle that resolves still resolves to the same path when a path gets *)
(* its number.                                                             *)
LEMMA GetFDPaths ==
    ASSUME NEW t, TableType(t), Consistent(t), NEW p \in Path, NEW h, GetPath(t, h) # NULL
    PROVE  GetPath(GetFD(t, p), h) = GetPath(t, h)
<1>1. h >= 100 /\ h \in DOMAIN t.PathMapB /\ GetPath(t, h) = t.PathMapB[h]
  BY DEF GetPath
<1>2. h \in Nat /\ t.FDcounter \in Nat /\ h <= t.FDcounter
  BY <1>1 DEF TableType, Consistent, Number, NoFD
<1>3. CASE p \in Known(t)
  BY <1>3 DEF GetFD
<1>4. CASE p \notin Known(t)
  <2>1. GetFD(t, p).PathMapB = [f \in DOMAIN t.PathMapB \cup {t.FDcounter + 1} |->
                                  IF f = t.FDcounter + 1 THEN p ELSE t.PathMapB[f]]
    BY <1>4 DEF GetFD
  <2>2. h # t.FDcounter + 1
    BY <1>2
  <2>3. h \in DOMAIN GetFD(t, p).PathMapB /\ GetFD(t, p).PathMapB[h] = t.PathMapB[h]
    BY <1>1, <2>1, <2>2
  <2> QED BY <1>1, <2>3 DEF GetPath
<1> QED BY <1>3, <1>4

LEMMA PathsArePaths ==
    ASSUME NEW t, TableType(t), NEW h
    PROVE  GetPath(t, h) \in AnyPath /\ (GetPath(t, h) # NULL => GetPath(t, h) \in Path)
BY DEF GetPath, TableType, AnyPath

(* A rename takes a handle of what was moved to where it is, and leaves    *)
(* the others.                                                             *)
LEMMA ReplacePathPaths ==
    ASSUME NEW t, TableType(t), Consistent(t),
           NEW old \in Path, NEW new \in Path, NEW isdir \in BOOLEAN,
           NEW h, GetPath(t, h) # NULL
    PROVE  LET p == GetPath(t, h)
               q == GetPath(ReplacePath(t, old, new, isdir), h)
           IN q = p \/ (p = old /\ q = new) \/ (Under(p, old) /\ q = Rebase(p, old, new))
<1> DEFINE A     == t.PathMapA
           B     == t.PathMapB
           fd    == IF old \in Known(t) THEN A[old] ELSE NoFD
           moved == Descendants(t, old, isdir)
           u     == ReplacePath(t, old, new, isdir)
<1>1. h >= 100 /\ h \in DOMAIN B /\ GetPath(t, h) = B[h] /\ h \in Nat
  BY DEF GetPath, TableType, Number, NoFD
<1>2. u.PathMapB = [f \in DOMAIN B \cup {fd} |->
                      IF f = fd THEN new
                      ELSE IF \E p \in moved : A[p] = f
                           THEN Rebase(CHOOSE p \in moved : A[p] = f, old, new)
                           ELSE B[f]]
  BY DEF ReplacePath
<1>3. \A p \in Known(t) : A[p] = h => B[h] = p
  BY <1>1 DEF Consistent, NoFD
<1> HIDE DEF u
<1>4. h \in DOMAIN u.PathMapB /\ GetPath(u, h) = u.PathMapB[h]
  BY <1>1, <1>2 DEF GetPath
<1> HIDE DEF A, B, moved
<1>5. CASE h = fd
  <2>1. old \in Known(t) /\ A[old] = h
    BY <1>1, <1>5 DEF NoFD
  <2> QED BY <1>1, <1>2, <1>3, <1>4, <1>5, <2>1 DEF u
<1>6. CASE h # fd /\ \E p \in moved : A[p] = h
  <2> DEFINE m == CHOOSE p \in moved : A[p] = h
  <2>1. m \in moved /\ A[m] = h
    BY <1>6
  <2> HIDE DEF m
  <2>2. m \in Known(t) /\ Under(m, old)
    BY <2>1 DEF moved, Descendants
  <2>3. u.PathMapB[h] = Rebase(m, old, new)
    BY <1>1, <1>2, <1>6 DEF m
  <2> QED BY <1>1, <1>3, <1>4, <2>1, <2>2, <2>3 DEF u
<1>7. CASE h # fd /\ ~\E p \in moved : A[p] = h
  BY <1>1, <1>2, <1>4, <1>7 DEF u
<1> QED BY <1>5, <1>6, <1>7

-----------------------------------------------------------------------------
(* The names of a request.                                                 *)
HandlesKept == \A h : GetPath(fddb, h) # NULL => GetPath(fddb', h) = GetPath(fddb, h)

(* A name that cat_name lets through stands for a path.                    *)
LEMMA NamedIsPath ==
    ASSUME NEW t, TableType(t), NEW h, NEW name \in Name \cup {".", "..", BadName}
    PROVE  /\ Named(t, h, name).status \in {"OK", "STALE", "ACCES", "NAMETOOLONG"}
           /\ Named(t, h, name).status = "OK" => /\ Named(t, h, name).obj \in Path
                                              /\ GetPath(t, h) # NULL
           /\ Named(t, h, name).status # "OK" => Named(t, h, name).obj = NULL
BY PathsArePaths, cat_nameOK DEF Named

LEMMA CheckedNames ==
    ASSUME TableType(fddb), NEW req, RequestType(req), req.proc # "SETATTR"
    PROVE  /\ CheckedNow(req) \in {"OK", "STALE", "ACCES", "NAMETOOLONG"}
           /\ CheckedNow(req) = "OK" =>
                 /\ Resolves(req) /\ ObjOf(req) \in Path
                 /\ req.proc = "RENAME" => ToOf(req) \in Path
<1>1. /\ req.proc \in {"CREATE", "MKDIR", "REMOVE", "RMDIR", "RENAME"}
      /\ req.name \in Name \cup {".", "..", BadName}
      /\ req.proc = "RENAME" => req.name2 \in Name \cup {".", "..", BadName}
  BY DEF RequestType
<1>2. CASE req.proc = "RENAME"
  <2>1. CheckedNow(req) = IF Named(fddb, req.h, req.name).status = "OK"
                       THEN Named(fddb, req.h2, req.name2).status ELSE Named(fddb, req.h, req.name).status
    BY <1>2 DEF CheckedNow, Checked
  <2> QED BY <1>1, <1>2, <2>1, NamedIsPath DEF Resolves, Handles, ObjOf, ToOf
<1>3. CASE req.proc # "RENAME"
  <2>1. CheckedNow(req) = Named(fddb, req.h, req.name).status
    BY <1>3 DEF CheckedNow, Checked
  <2> QED BY <1>1, <1>3, <2>1, NamedIsPath DEF Resolves, Handles, ObjOf
<1> QED BY <1>2, <1>3

(* While its handles are kept, its names stand for what they stood for.    *)
LEMMA NamesKept ==
    ASSUME HandlesKept, NEW req, Resolves(req)
    PROVE  /\ Resolves(req)'
           /\ CheckedNow(req)' = CheckedNow(req)
           /\ ObjOf(req)' = ObjOf(req)
           /\ req.proc = "RENAME" => ToOf(req)' = ToOf(req)
<1>1. GetPath(fddb, req.h) # NULL /\ GetPath(fddb', req.h) = GetPath(fddb, req.h)
  BY DEF HandlesKept, Resolves, Handles
<1>2. CASE req.proc = "RENAME"
  <2>1. GetPath(fddb, req.h2) # NULL /\ GetPath(fddb', req.h2) = GetPath(fddb, req.h2)
    BY <1>2 DEF HandlesKept, Resolves, Handles
  <2> QED BY <1>1, <1>2, <2>1 DEF Resolves, Handles, CheckedNow, Checked, ObjOf, ToOf, Named
<1>3. CASE req.proc # "RENAME"
  BY <1>1, <1>3 DEF Resolves, Handles, CheckedNow, Checked, ObjOf, Named
<1> QED BY <1>2, <1>3

(* So what was settled is, while the objects stay too.                     *)
LEMMA SettledKept ==
    ASSUME HandlesKept, NEW req, Settled(req),
           \A p : Exists(fs', p) <=> Exists(fs, p)
    PROVE  Settled(req)'
<1>1. Resolves(req)
  BY DEF Settled
<1>2. /\ Resolves(req)'
      /\ CheckedNow(req)' = CheckedNow(req)
      /\ ObjOf(req)' = ObjOf(req)
      /\ req.proc = "RENAME" => ToOf(req)' = ToOf(req)
  BY <1>1, NamesKept
<1> QED BY <1>2 DEF Settled, MakesNew, Removes

(* After a rename its new name stands for where the object is, and its old *)
(* name, when it stands for anything, is the old or the new path.          *)
LEMMA NamesMoved ==
    ASSUME TableType(fddb), Consistent(fddb), NEW req, RequestType(req), req.proc = "RENAME",
           CheckedNow(req) = "OK", NEW isdir \in BOOLEAN,
           ObjOf(req) = ToOf(req) \/ Apart(ObjOf(req), ToOf(req)),
           fddb' = ReplacePath(fddb, ObjOf(req), ToOf(req), isdir)
    PROVE  /\ Resolves(req)'
           /\ ToOf(req)' = ToOf(req)
           /\ ObjOf(req)' \in {ObjOf(req), ToOf(req), NULL}
<1> DEFINE old == ObjOf(req)
           new == ToOf(req)
           ph  == GetPath(fddb, req.h)
           ph2 == GetPath(fddb, req.h2)
           qh  == GetPath(fddb', req.h)
           qh2 == GetPath(fddb', req.h2)
           obj(p, name) == IF name = "." THEN p ELSE IF name = ".." THEN Parent(p) ELSE Append(p, name)
<1>1. /\ req.name \in Name \cup {".", "..", BadName}
      /\ req.name2 \in Name \cup {".", "..", BadName}
  BY DEF RequestType
<1>2. /\ Named(fddb, req.h, req.name).status = "OK" /\ Named(fddb, req.h2, req.name2).status = "OK"
  BY DEF CheckedNow, Checked
<1>3. old \in Path /\ new \in Path
  BY CheckedNames
<1>4. /\ ph \in Path /\ ph2 \in Path /\ ph # NULL /\ ph2 # NULL
      /\ req.name \in Name \cup {".", ".."} /\ req.name2 \in Name \cup {".", ".."}
      /\ Len(ph2) + 1 <= MaxDepth
      /\ old = obj(ph, req.name) /\ new = obj(ph2, req.name2)
  <2>1. ph # NULL /\ ph2 # NULL
    BY <1>1, <1>2, NamedIsPath
  <2>2. ph \in Path /\ ph2 \in Path
    BY <2>1, PathsArePaths
  <2>3. \A p \in Path : \A name : cat_name(p, name).status = "OK" =>
           /\ name # BadName /\ ~(Len(p) + 1 > MaxDepth)
           /\ cat_name(p, name).obj = obj(p, name)
    BY PathsAssumption DEF cat_name
  <2>4. Len(ph2) \in Nat
    BY <2>2 DEF Path
  <2> QED BY <1>1, <1>2, <2>1, <2>2, <2>3, <2>4, GoExportsAssumption DEF Named, ObjOf, ToOf
<1> HIDE DEF old, new, ph, ph2, qh, qh2
<1>5. /\ qh = ph \/ (ph = old /\ qh = new) \/ (Under(ph, old) /\ qh = Rebase(ph, old, new))
      /\ qh2 = ph2 \/ (ph2 = old /\ qh2 = new) \/ (Under(ph2, old) /\ qh2 = Rebase(ph2, old, new))
  BY <1>3, <1>4, ReplacePathPaths DEF ph, ph2, qh, qh2, old, new
<1>6. qh \in Path /\ qh2 \in Path
  <2>1. \A p \in Path : Under(p, old) => Rebase(p, old, new) \in Path
    BY <1>3, RebaseShape
  <2> QED BY <1>3, <1>4, <1>5, <2>1
<1>7. Resolves(req)'
  BY <1>6, PathsAssumption DEF Resolves, Handles, qh, qh2
<1>8. CASE old = new
  <2>1. qh = ph /\ qh2 = ph2
    BY <1>3, <1>4, <1>5, <1>8, RebaseSame
  <2> QED BY <1>7, <2>1 DEF ph, ph2, qh, qh2, ObjOf, ToOf, Named
<1>9. CASE old # new
  <2>1. old # Root /\ ~Under(new, old) /\ ~Under(old, new)
    BY <1>9 DEF Apart, old, new
  <2>2. \A p \in Path, n \in Name : /\ Append(p, n) \in Path /\ Append(p, n) # Root
                                    /\ Parent(Append(p, n)) = p
    BY AppendIsPath
  <2>3. \A p \in Path, q \in Path : p # Root => (Under(p, q) <=> Parent(p) = q \/ Under(Parent(p), q))
    BY UnderParent
  <2>4. ph2 # old /\ ~Under(ph2, old)
    <3>1. CASE req.name2 = "."
      BY <1>4, <1>9, <2>1, <3>1
    <3>2. CASE req.name2 = ".."
      <4>1. new = Parent(ph2)
        BY <1>4, <3>2
      <4>2. CASE ph2 = Root
        BY <1>3, <2>1, <4>2, RootIsPath DEF Under, Path
      <4>3. CASE ph2 # Root
        <5>1. Under(ph2, new)
          BY <1>3, <1>4, <2>3, <4>1, <4>3
        <5>2. Under(ph2, old) => new = old \/ Under(new, old)
          <6>1. ph2 \in Path
            BY <1>4
          <6>2. Under(ph2, old) <=> Parent(ph2) = old \/ Under(Parent(ph2), old)
            BY <1>3, <2>3, <4>3, <6>1
          <6> QED BY <4>1, <6>2
        <5> QED BY <1>9, <2>1, <5>1, <5>2
      <4> QED BY <4>2, <4>3
    <3>3. CASE req.name2 \notin {".", ".."}
      <4>1. new = Append(ph2, req.name2) /\ req.name2 \in Name
        BY <1>4, <3>3
      <4>2. new # Root /\ Parent(new) = ph2
        BY <1>4, <2>2, <4>1
      <4>3. ph2 = old \/ Under(ph2, old) => Under(new, old)
        BY <1>3, <2>3, <4>2
      <4> QED BY <2>1, <4>3
    <3> QED BY <3>1, <3>2, <3>3
  <2>6. ToOf(req)' = new
    BY <1>5, <2>4 DEF ToOf, Named, qh2, ph2, new
  <2>7. ObjOf(req)' \in {old, new, NULL}
    <3>1. ObjOf(req)' = NULL \/ ObjOf(req)' = obj(qh, req.name)
      BY <1>6 DEF ObjOf, Named, cat_name, qh
    <3>2. CASE req.name = "."
      <4>1. ph = old
        BY <1>4, <3>2
      <4>2. ~Under(old, old)
        BY DEF Under
      <4>3. qh = old \/ qh = new
        BY <1>5, <4>1, <4>2
      <4> QED BY <3>1, <3>2, <4>3
    <3>3. CASE req.name = ".."
      <4>1. old = Parent(ph) /\ ph # Root
        BY <1>4, <2>1, <3>3, ParentOfRoot
      <4>2. qh = ph \/ qh = Rebase(ph, old, new)
        <5>1. Len(Parent(ph)) = Len(ph) - 1 /\ Len(ph) \in Nat
          BY <1>4, <4>1, ParentShape DEF Path
        <5> QED BY <1>5, <4>1, <5>1
      <4>3. Under(ph, old)
        BY <1>3, <1>4, <2>3, <4>1
      <4>4. Parent(Rebase(ph, old, new)) = new
        <5>1. Parent(Rebase(ph, old, new)) = Rebase(Parent(ph), old, new)
          BY <1>3, <1>4, <4>3, RebaseParent
        <5> QED BY <1>3, <4>1, <5>1, RebaseSelf
      <4> QED BY <3>1, <3>3, <4>1, <4>2, <4>4
    <3>4. CASE req.name \notin {".", ".."}
      <4>1. old = Append(ph, req.name) /\ req.name \in Name
        BY <1>4, <3>4
      <4>2. Len(old) = Len(ph) + 1 /\ Len(ph) \in Nat
        BY <1>4, <4>1 DEF Path
      <4>3. qh = ph
        BY <1>5, <4>2 DEF Under
      <4> QED BY <3>1, <3>4, <4>1, <4>3
    <3> QED BY <3>2, <3>3, <3>4
  <2> QED BY <1>7, <2>6, <2>7 DEF old, new
<1> QED BY <1>8, <1>9

-----------------------------------------------------------------------------
(* Steps that leave the server alone.                                      *)
LEMMA Execution ==
    ASSUME TypeOK, Executing, Busy
    PROVE  /\ exec = [xid |-> exec.xid, obj |-> exec.obj, to |-> exec.to,
                      before |-> exec.before, checked |-> exec.checked,
                      status |-> exec.status, todo |-> exec.todo]
           /\ exec.xid \in 1 .. Len(sent)
           /\ TreeType(exec.before)
           /\ up /\ exec.status \in Status
           /\ Req \in Request /\ RequestType(Req)
<1>1. exec # Idle
  BY DEF Busy, Idle
<1>2. exec.xid \in 1 .. Len(sent) /\ sent \in Seq(Request)
  BY <1>1 DEF Executing, TypeOK
<1>3. Req \in Request
  BY <1>2 DEF Req
<1> QED BY <1>1, <1>2, <1>3, RequestsAssumption DEF Executing, TypeOK

Quiet ==
    /\ UNCHANGED <<fs, fddb, exec, last, ends>>
    /\ Len(sent) \in Nat /\ Len(sent') \in Nat /\ Len(sent) <= Len(sent')
    /\ \A x \in 1 .. Len(sent) : sent'[x] = sent[x]
    /\ Busy /\ undisturbed' => undisturbed

LEMMA QuietKeeps ==
    ASSUME IInv, Quiet
    PROVE  /\ Executing' /\ NamesHold' /\ Progress' /\ Achieved'
           /\ CutIsClean' /\ Remembered'
<1> USE DEF Quiet
<1>1. TypeOK /\ Executing /\ Remembered
  BY DEF IInv
<1>2. (Busy' <=> Busy) /\ (Executed' <=> Executed)
  BY DEF Busy, Executed
<1>3. Busy => Req' = Req
  BY <1>1, Execution DEF Req
<1>4. Executing'
  BY <1>1 DEF Executing, Idle
<1>5. NamesHold'
  <2>1. NamesHold
    BY DEF IInv
  <2>2. /\ Busy => (Resolves(Req)' <=> Resolves(Req))
        /\ Busy => CheckedNow(Req)' = CheckedNow(Req)
        /\ Busy => ObjOf(Req)' = ObjOf(Req)
        /\ Busy => ToOf(Req)' = ToOf(Req)
    BY <1>3 DEF Resolves, Handles, CheckedNow, Checked, ObjOf, ToOf, Named
  <2> QED BY <1>2, <1>3, <2>1, <2>2 DEF NamesHold
<1>6. Progress'
  <2>1. Progress
    BY DEF IInv
  <2>2. Busy => (SetattrProgress' <=> SetattrProgress)
    BY <1>3 DEF SetattrProgress, Given
  <2>3. Busy => (CreateProgress' <=> CreateProgress)
    BY <1>3 DEF CreateProgress, ClearTree, Over
  <2>4. Busy => (OneCallProgress' <=> OneCallProgress)
    BY <1>3 DEF OneCallProgress, OneCall
  <2> QED BY <1>2, <1>3, <2>1, <2>2, <2>3, <2>4 DEF Progress
<1>7. Achieved'
  BY <1>2, <1>3 DEF IInv, Achieved, MakesNew, Removes, Executed
<1>9. CutIsClean'
  BY <1>2, <1>3 DEF IInv, CutIsClean, Same, Executed
<1>10. Remembered'
  <2>1. CASE last.xid = 0
    BY <2>1 DEF Remembered
  <2>2. CASE last.xid # 0
    <3>1. last.xid \in 1 .. Len(sent) /\ sent'[last.xid] = sent[last.xid]
      BY <1>1, <2>2 DEF Remembered
    <3> DEFINE req == sent[last.xid]
    <3>2. Settled(req)' <=> Settled(req)
      BY <3>1 DEF Settled, MakesNew, Removes, Resolves, Handles, CheckedNow, Checked, ObjOf, ToOf, Named
    <3> QED BY <1>1, <1>2, <2>2, <3>1, <3>2 DEF Remembered, MakesNew, Settles, Removes
  <2> QED BY <2>1, <2>2
<1> QED BY <1>4, <1>5, <1>6, <1>7, <1>9, <1>10

(* One copy more or less stays within the bound.                           *)
LEMMA OneCopy ==
    ASSUME NEW n \in [Xid -> 0 .. MaxCopies], NEW x
    PROVE  /\ [n EXCEPT ![x] = 1] \in [Xid -> 0 .. MaxCopies]
           /\ n[x] < MaxCopies => [n EXCEPT ![x] = @ + 1] \in [Xid -> 0 .. MaxCopies]
           /\ n[x] > 0 => [n EXCEPT ![x] = @ - 1] \in [Xid -> 0 .. MaxCopies]
           /\ \A y \in Xid : y # x => /\ [n EXCEPT ![x] = @ + 1][y] = n[y]
                                      /\ [n EXCEPT ![x] = @ - 1][y] = n[y]
           /\ x \in Xid /\ [n EXCEPT ![x] = @ - 1][x] > 0 => n[x] > 0
<1>1. MaxCopies \in Nat /\ MaxCopies # 0
  BY RequestsAssumption
<1>2. CASE x \in Xid
  <2>1. n[x] \in 0 .. MaxCopies
    BY <1>2
  <2> QED BY <1>1, <1>2, <2>1
<1>3. CASE x \notin Xid
  <2>1. [n EXCEPT ![x] = 1] = n /\ [n EXCEPT ![x] = @ + 1] = n /\ [n EXCEPT ![x] = @ - 1] = n
    BY <1>3
  <2> QED BY <1>3, <2>1
<1> QED BY <1>2, <1>3

LEMMA AskKeeps == ASSUME IInv, NEW req \in Request, Ask(req) PROVE IInv'
<1>1. TypeOK /\ Bookkeeping
  BY DEF IInv
<1>2. /\ ~waiting /\ Len(sent) < MaxRequests
      /\ sent' = Append(sent, req) /\ waiting' = TRUE /\ answer' = "none"
      /\ copies' = [copies EXCEPT ![Len(sent) + 1] = 1]
      /\ undisturbed' = (~Busy /\ Resolves(req))
      /\ UNCHANGED <<fs, fddb, up, exec, replies, losses, ends, last>>
  BY DEF Ask, server
<1>3. /\ sent' \in Seq(Request) /\ Len(sent) \in Nat /\ Len(sent') = Len(sent) + 1
      /\ \A x \in 1 .. Len(sent) : sent'[x] = sent[x]
      /\ sent'[Len(sent')] = req
      /\ Len(sent') <= MaxRequests
  BY <1>1, <1>2, RequestsAssumption DEF TypeOK
<1>4. Quiet
  <2>1. undisturbed' => ~Busy
    BY <1>2
  <2> QED BY <1>2, <1>3, <2>1 DEF Quiet
<1>5. TypeOK'
  <2>1. copies' \in [Xid -> 0 .. MaxCopies]
    BY <1>1, <1>2, OneCopy DEF TypeOK
  <2>2. \A x \in Xid : copies'[x] > 0 => x <= Len(sent')
    BY <1>1, <1>2, <1>3 DEF TypeOK, Xid
  <2>3. Busy' => up' /\ exec.xid' <= Len(sent') /\ exec.status' \in Status
    <3>1. CASE Busy
      <4>1. up /\ exec.xid \in 1 .. Len(sent) /\ exec.status \in Status
        BY <3>1, Execution DEF IInv
      <4> QED BY <1>2, <1>3, <4>1
    <3> QED BY <1>2, <3>1 DEF Busy
  <2> QED BY <1>1, <1>2, <1>3, <2>1, <2>2, <2>3 DEF TypeOK
<1>6. Bookkeeping'
  BY <1>1, <1>2 DEF Bookkeeping, Busy
<1>7. Believable'
  <2>1. Current' = req
    BY <1>3 DEF Current
  <2>2. Heard' = {}
    BY <1>1, <1>2 DEF Heard, Bookkeeping
  <2>3. undisturbed' => Resolves(req)'
    BY <1>2 DEF Resolves, Handles
  <2> QED BY <2>1, <2>2, <2>3 DEF Believable
<1> QED BY <1>4, <1>5, <1>6, <1>7, QuietKeeps DEF IInv

(* The client and the network, without a new request.                      *)
LEMMA NetworkKeeps ==
    ASSUME IInv, UNCHANGED <<fs, fddb, up, exec, sent, ends, last, undisturbed>>,
           waiting' \in BOOLEAN, ~waiting' => replies' = {},
           copies' \in [Xid -> 0 .. MaxCopies], \A x \in Xid : copies'[x] > 0 => x <= Len(sent),
           replies' \subseteq Status, answer' \in Status \cup {"none"}, losses' \in Nat,
           Heard' \subseteq Heard
    PROVE  IInv'
<1>1. TypeOK /\ Bookkeeping /\ Believable
  BY DEF IInv
<1>2. Len(sent) \in Nat
  BY <1>1 DEF TypeOK
<1>3. Quiet
  BY <1>2 DEF Quiet
<1>4. TypeOK'
  BY <1>1 DEF TypeOK, Busy
<1>5. Bookkeeping'
  BY <1>1 DEF Bookkeeping, Busy
<1>6. Believable'
  <2>1. \A r \in Heard' : r \in Heard
    OBVIOUS
  <2>2. Current' = Current
    BY DEF Current
  <2>3. Resolves(Current)' <=> Resolves(Current)
    BY <2>2 DEF Resolves, Handles
  <2>4. \A r : Claims(Current, r)' <=> Claims(Current, r)
    BY <2>2 DEF Claims, MakesNew, Removes, CheckedNow, Checked, Named
  <2>5. Settled(Current)' <=> Settled(Current)
    BY <2>2 DEF Settled, MakesNew, Removes, Resolves, Handles, CheckedNow, Checked, ObjOf, ToOf, Named
  <2> HIDE DEF Current, Heard, Claims, Settled
  <2> QED BY <1>1, <2>1, <2>2, <2>3, <2>4, <2>5 DEF Believable
<1> QED BY <1>3, <1>4, <1>5, <1>6, QuietKeeps DEF IInv

LEMMA AskAgainKeeps == ASSUME IInv, AskAgain PROVE IInv'
<1>1. TypeOK /\ Bookkeeping
  BY DEF IInv
<1>2. /\ waiting /\ copies[Len(sent)] < MaxCopies
      /\ copies' = [copies EXCEPT ![Len(sent)] = @ + 1]
      /\ UNCHANGED <<fs, fddb, up, exec, sent, waiting, answer, replies, losses, ends, last, undisturbed>>
  BY DEF AskAgain, server, client
<1>3. /\ copies' \in [Xid -> 0 .. MaxCopies]
      /\ \A x \in Xid : copies'[x] > 0 => x <= Len(sent)
  <2>1. /\ copies \in [Xid -> 0 .. MaxCopies] /\ Len(sent) \in Nat
        /\ \A x \in Xid : copies[x] > 0 => x <= Len(sent)
    BY <1>1 DEF TypeOK
  <2>2. copies' \in [Xid -> 0 .. MaxCopies]
    BY <1>2, <2>1, OneCopy
  <2>3. \A x \in Xid : x # Len(sent) => copies'[x] = copies[x]
    BY <1>2, <2>1, OneCopy
  <2> QED BY <2>1, <2>2, <2>3
<1>4. Heard' = Heard
  BY <1>2 DEF Heard
<1> QED BY <1>1, <1>2, <1>3, <1>4, NetworkKeeps DEF TypeOK, Bookkeeping

LEMMA AnsweredKeeps == ASSUME IInv, Answered PROVE IInv'
<1>1. TypeOK /\ Bookkeeping
  BY DEF IInv
<1>2. /\ waiting /\ waiting' = FALSE /\ answer' \in replies /\ replies' = {}
      /\ UNCHANGED <<fs, fddb, up, exec, sent, copies, losses, ends, last, undisturbed>>
  BY DEF Answered, server
<1>3. Heard' \subseteq Heard
  BY <1>2 DEF Heard
<1> QED BY <1>1, <1>2, <1>3, NetworkKeeps DEF TypeOK, Bookkeeping

LEMMA LoseKeeps == ASSUME IInv, Lose PROVE IInv'
<1>1. TypeOK /\ Bookkeeping
  BY DEF IInv
<1>2. /\ losses' = losses + 1
      /\ UNCHANGED <<fs, fddb, up, exec, sent, waiting, answer, ends, last, undisturbed>>
  BY DEF Lose, server, client
<1>3. losses' \in Nat
  BY <1>1, <1>2 DEF Bookkeeping
<1>4. CASE \E x \in Xid : /\ copies[x] > 0
                          /\ copies' = [copies EXCEPT ![x] = @ - 1]
                          /\ UNCHANGED replies
  <2>1. /\ copies' \in [Xid -> 0 .. MaxCopies]
        /\ \A x \in Xid : copies'[x] > 0 => x <= Len(sent)
    BY <1>1, <1>4, OneCopy DEF TypeOK
  <2>2. Heard' = Heard
    BY <1>2, <1>4 DEF Heard
  <2> QED BY <1>1, <1>2, <1>3, <1>4, <2>1, <2>2, NetworkKeeps DEF TypeOK, Bookkeeping
<1>5. CASE \E r \in replies : replies' = replies \ {r} /\ UNCHANGED copies
  <2>1. Heard' \subseteq Heard
    BY <1>2, <1>5 DEF Heard
  <2> QED BY <1>1, <1>2, <1>3, <1>5, <2>1, NetworkKeeps DEF TypeOK, Bookkeeping
<1> QED BY <1>4, <1>5 DEF Lose

LEMMA StutterKeeps == ASSUME IInv, UNCHANGED vars PROVE IInv'
<1>1. TypeOK /\ Bookkeeping
  BY DEF IInv
<1>2. UNCHANGED <<fs, fddb, up, exec, sent, waiting, answer, copies, replies, losses, ends, last, undisturbed>>
  BY DEF vars, server, client, network
<1>3. Heard' = Heard
  BY <1>2 DEF Heard
<1> QED BY <1>1, <1>2, <1>3, NetworkKeeps DEF TypeOK, Bookkeeping

-----------------------------------------------------------------------------
(* The process ends and starts: nothing is being executed.                 *)
LEMMA IdleHolds ==
    ASSUME exec' = Idle
    PROVE  /\ ~Busy' /\ Executing' /\ NamesHold' /\ Progress' /\ Achieved'
           /\ CutIsClean'
<1>1. ~Busy'
  BY DEF Busy, Idle
<1>2. ~Executed'
  BY <1>1 DEF Executed
<1> QED
  BY <1>1, <1>2 DEF Executing, NamesHold, Progress, Achieved, CutIsClean

LEMMA ExitKeeps == ASSUME IInv, Exit PROVE IInv'
<1>1. TypeOK /\ Bookkeeping
  BY DEF IInv
<1>2. /\ ends' = ends + 1 /\ up' = FALSE /\ exec' = Idle /\ fddb' = EmptyTable /\ last' = None
      /\ UNCHANGED <<fs, sent, waiting, answer, copies, replies, losses, undisturbed>>
  BY DEF Exit, client, network
<1>3. ends' \in Nat /\ ends' # 0 /\ ends' > 0
  BY <1>1, <1>2 DEF Bookkeeping
<1>4. ~Busy' /\ Executing' /\ NamesHold' /\ Progress' /\ Achieved' /\ CutIsClean'
  BY <1>2, IdleHolds
<1>5. TypeOK'
  BY <1>1, <1>2, <1>4, EmptyTableOK DEF TypeOK
<1>6. Bookkeeping'
  BY <1>1, <1>2, <1>3, <1>4, EmptyTableOK DEF Bookkeeping
<1>7. Remembered' /\ Believable'
  BY <1>2, <1>3 DEF Remembered, Believable, None
<1> QED BY <1>4, <1>5, <1>6, <1>7 DEF IInv

LEMMA StartKeeps == ASSUME IInv, Start PROVE IInv'
<1>1. TypeOK /\ Bookkeeping /\ Executing
  BY DEF IInv
<1>2. /\ ~up /\ up' = TRUE
      /\ UNCHANGED <<fs, exec, sent, waiting, answer, copies, replies, losses, ends, last, undisturbed>>
  BY DEF Start, client, network
<1>3. exec' = Idle
  <2>1. ~Busy
    BY <1>1, <1>2, Execution
  <2> QED BY <1>1, <1>2, <2>1 DEF Executing, Busy
<1>4. ~Busy' /\ Executing' /\ NamesHold' /\ Progress' /\ Achieved' /\ CutIsClean'
  BY <1>3, IdleHolds
<1>5. TableType(fddb') /\ Consistent(fddb')
  <2>1. PICK p \in DOMAIN fs.node : fddb' \in {EmptyTable, GetFD(EmptyTable, p)}
    BY DEF Start
  <2>2. p \in Path
    BY <1>1 DEF TypeOK, TreeType
  <2> QED BY <2>1, <2>2, EmptyTableOK, GetFDOK
<1>6. TypeOK'
  BY <1>1, <1>2, <1>4, <1>5 DEF TypeOK
<1>7. last = None /\ ends > 0 /\ ends \in Nat
  BY <1>1, <1>2 DEF Bookkeeping
<1>8. Bookkeeping'
  BY <1>1, <1>2, <1>4, <1>5 DEF Bookkeeping
<1>9. Remembered' /\ Believable'
  BY <1>2, <1>7 DEF Remembered, Believable, None
<1> QED BY <1>4, <1>6, <1>8, <1>9 DEF IInv

-----------------------------------------------------------------------------
(* An execution begins.                                                    *)

(* The table RENAME finds its second handle in, and what is named there.   *)
Looked(req)   == StatHandle(fddb, req.h)
SecondOf(req) == Named(Looked(req), req.h2, req.name2).obj

(* What it finds, the table keeps.                                         *)
SecondKept(req) ==
    req.proc = "RENAME" =>
        /\ GetPath(fddb, req.h2) # NULL => GetPath(Looked(req), req.h2) = GetPath(fddb, req.h2)
        /\ GetPath(Looked(req), req.h2) # NULL =>
              GetPath(fddb', req.h2) = GetPath(Looked(req), req.h2)

Begun(req) ==
    /\ req \in Request /\ RequestType(req)
    /\ Busy' /\ Req' = req
    /\ fs' = fs /\ TreeType(fs) /\ TableType(fddb) /\ Consistent(fddb)
    /\ exec'.before = fs /\ exec'.checked = Checked(req, Looked(req))
    /\ exec'.obj \in Targets(req)
    /\ exec'.to = IF req.proc = "RENAME" THEN SecondOf(req) ELSE NULL
    /\ exec'.status = Plan(req, exec'.checked, exec'.obj, exec'.to).status
    /\ exec'.todo = Plan(req, exec'.checked, exec'.obj, exec'.to).todo

(* An lstat more leaves the handles that resolve where they are.           *)
LEMMA StatHandleOK ==
    ASSUME NEW t, TableType(t), Consistent(t), NEW h
    PROVE  /\ TableType(StatHandle(t, h)) /\ Consistent(StatHandle(t, h))
           /\ \A g : GetPath(t, g) # NULL => GetPath(StatHandle(t, h), g) = GetPath(t, g)
<1>1. Clean(GetPath(t, h)) \in Path
  BY PathsArePaths, CleanOK
<1> QED BY <1>1, GetFDOK, GetFDPaths DEF StatHandle

(* The names a request is executed with.                                   *)
LEMMA BegunNames ==
    ASSUME NEW req, Begun(req), req.proc # "SETATTR"
    PROVE  /\ Checked(req, Looked(req)) \in {"OK", "STALE", "ACCES", "NAMETOOLONG"}
           /\ Checked(req, Looked(req)) = "OK" =>
                 /\ GetPath(fddb, req.h) # NULL /\ ObjOf(req) \in Path
                 /\ Named(fddb, req.h, req.name).status = "OK"
                 /\ req.proc = "RENAME" =>
                       /\ GetPath(Looked(req), req.h2) # NULL /\ SecondOf(req) \in Path
                       /\ Named(Looked(req), req.h2, req.name2).status = "OK"
<1>1. /\ req.proc \in {"CREATE", "MKDIR", "REMOVE", "RMDIR", "RENAME"}
      /\ req.name \in Name \cup {".", "..", BadName}
      /\ req.proc = "RENAME" => req.name2 \in Name \cup {".", "..", BadName}
  BY DEF Begun, RequestType
<1>2. TableType(fddb) /\ TableType(Looked(req))
  BY StatHandleOK DEF Begun, Looked
<1>3. CASE req.proc = "RENAME"
  <2>1. Checked(req, Looked(req)) =
           IF Named(fddb, req.h, req.name).status = "OK"
           THEN Named(Looked(req), req.h2, req.name2).status
           ELSE Named(fddb, req.h, req.name).status
    BY <1>3 DEF Checked
  <2> QED BY <1>1, <1>2, <1>3, <2>1, NamedIsPath DEF ObjOf, SecondOf
<1>4. CASE req.proc # "RENAME"
  <2>1. Checked(req, Looked(req)) = Named(fddb, req.h, req.name).status
    BY <1>4 DEF Checked
  <2> QED BY <1>1, <1>2, <1>4, <2>1, NamedIsPath DEF ObjOf
<1> QED BY <1>3, <1>4

LEMMA BeginShape ==
    ASSUME IInv, NEW x \in Xid, Begin(x)
    PROVE  /\ up /\ ~Busy /\ x \in 1 .. Len(sent)
           /\ Begun(sent[x])
           /\ exec' = [xid |-> x, obj |-> exec'.obj, to |-> exec'.to,
                       before |-> exec'.before, checked |-> exec'.checked,
                       status |-> exec'.status, todo |-> exec'.todo]
           /\ copies' \in [Xid -> 0 .. MaxCopies]
           /\ \A y \in Xid : copies'[y] > 0 => y <= Len(sent)
           /\ TableType(fddb') /\ Consistent(fddb') /\ HandlesKept
           /\ SecondKept(sent[x])
           /\ undisturbed' = (undisturbed /\ x = Len(sent))
           /\ last' = IF last.xid = x THEN last ELSE None
           /\ UNCHANGED <<fs, up, sent, waiting, answer, replies, losses, ends>>
<1> DEFINE req == sent[x]
<1>1. TypeOK /\ Bookkeeping
  BY DEF IInv
<1>2. /\ TreeType(fs) /\ TableType(fddb) /\ Consistent(fddb)
      /\ sent \in Seq(Request) /\ copies \in [Xid -> 0 .. MaxCopies]
      /\ \A y \in Xid : copies[y] > 0 => y <= Len(sent)
  BY <1>1 DEF TypeOK, Bookkeeping
<1>3. /\ up /\ ~Busy /\ copies[x] > 0
      /\ copies' = [copies EXCEPT ![x] = @ - 1]
      /\ fddb' = IF req.proc = "RENAME" THEN StatHandle(Looked(req), req.h2) ELSE Looked(req)
      /\ undisturbed' = (undisturbed /\ x = Len(sent))
      /\ last' = IF last.xid = x THEN last ELSE None
      /\ UNCHANGED <<fs, up, sent, waiting, answer, replies, losses, ends>>
  BY DEF Begin, client, Looked
<1>4. x \in 1 .. Len(sent) /\ req \in Request /\ RequestType(req)
  BY <1>2, <1>3, RequestsAssumption DEF Xid
<1>5. \A y \in Xid : copies'[y] > 0 => y <= Len(sent)
  BY <1>2, <1>3, OneCopy
<1>6. copies' \in [Xid -> 0 .. MaxCopies]
  BY <1>2, <1>3, OneCopy
<1>7. /\ TableType(Looked(req)) /\ Consistent(Looked(req))
      /\ \A g : GetPath(fddb, g) # NULL => GetPath(Looked(req), g) = GetPath(fddb, g)
  BY <1>2, StatHandleOK DEF Looked
<1>8. TableType(fddb') /\ Consistent(fddb') /\ HandlesKept /\ SecondKept(req)
  <2>1. CASE req.proc = "RENAME"
    <3>1. /\ TableType(fddb') /\ Consistent(fddb')
          /\ \A g : GetPath(Looked(req), g) # NULL => GetPath(fddb', g) = GetPath(Looked(req), g)
      BY <1>3, <1>7, <2>1, StatHandleOK
    <3> QED BY <1>7, <2>1, <3>1 DEF HandlesKept, SecondKept
  <2>2. CASE req.proc # "RENAME"
    BY <1>3, <1>7, <2>2 DEF HandlesKept, SecondKept
  <2> QED BY <2>1, <2>2
<1>9. PICK obj \in Targets(req) :
         LET to == IF req.proc = "RENAME" THEN SecondOf(req) ELSE NULL
             plan == Plan(req, Checked(req, Looked(req)), obj, to)
         IN exec' = [xid |-> x, obj |-> obj, to |-> to, before |-> fs,
                     checked |-> Checked(req, Looked(req)), status |-> plan.status, todo |-> plan.todo]
  BY DEF Begin, Looked, SecondOf
<1> HIDE DEF req
<1>10. /\ exec' = [xid |-> x, obj |-> exec'.obj, to |-> exec'.to,
                   before |-> exec'.before, checked |-> exec'.checked,
                   status |-> exec'.status, todo |-> exec'.todo]
       /\ exec'.xid = x /\ exec'.obj = obj /\ exec'.before = fs /\ exec'.checked = Checked(req, Looked(req))
       /\ exec'.to = IF req.proc = "RENAME" THEN SecondOf(req) ELSE NULL
       /\ exec'.status = Plan(req, exec'.checked, exec'.obj, exec'.to).status
       /\ exec'.todo = Plan(req, exec'.checked, exec'.obj, exec'.to).todo
  BY <1>9
<1>11. Busy' /\ Req' = req
  BY <1>3, <1>4, <1>10 DEF Busy, Req, Xid, req
<1>12. Begun(req)
  BY <1>2, <1>3, <1>4, <1>9, <1>10, <1>11 DEF Begun
<1> QED BY <1>3, <1>4, <1>5, <1>6, <1>8, <1>10, <1>12 DEF req

(* What is left to do of MKDIR, REMOVE, RMDIR and RENAME, or why nothing   *)
(* will be done.                                                           *)
LEMMA BeginOneCall ==
    ASSUME NEW req, Begun(req), req.proc \in {"MKDIR", "REMOVE", "RMDIR", "RENAME"}
    PROVE  exec'.status \in Status /\ Progress' /\ Achieved'
<1> DEFINE obj == exec'.obj
           to  == exec'.to
           checked == Checked(req, Looked(req))
<1>1. /\ RequestType(req) /\ Busy' /\ Req' = req /\ fs' = fs /\ exec'.before = fs
      /\ exec'.checked = checked /\ TableType(fddb)
  BY DEF Begun
<1>2. obj = ObjOf(req) /\ (req.proc = "RENAME" => to = SecondOf(req))
  BY DEF Begun, Targets, ObjOf
<1>3. /\ checked \in {"OK", "STALE", "ACCES", "NAMETOOLONG"}
      /\ checked = "OK" => obj \in Path /\ (req.proc = "RENAME" => to \in Path)
  BY <1>1, <1>2, BegunNames DEF checked
<1>4. exec'.status = Plan(req, checked, obj, to).status /\ exec'.todo = Plan(req, checked, obj, to).todo
  BY DEF Begun
<1> HIDE DEF obj, to, checked
<1>5. CASE checked # "OK"
  <2>1. exec'.status = checked /\ exec'.todo = <<>>
    <3>1. Plan(req, checked, obj, to) = Refuse(checked)
      BY <1>5 DEF Plan
    <3> QED BY <1>4, <3>1 DEF Refuse
  <2>2. Progress'
    BY <1>1, <1>3, <1>5, <2>1 DEF Progress, OneCallProgress
  <2> QED BY <1>1, <1>3, <1>5, <2>1, <2>2 DEF Achieved, Status
<1>6. CASE checked = "OK"
  <2>2. IsDir(fs, obj) \in BOOLEAN
    BY DEF IsDir, Exists
  <2>3. CASE /\ exec'.status = "OK"
             /\ exec'.todo = <<IF req.proc = "MKDIR" THEN [call |-> "mkdir", path |-> obj]
                               ELSE IF req.proc = "RENAME" THEN [call |-> "move", path |-> obj, to |-> to]
                               ELSE [call |-> "remove", path |-> obj]>>
             /\ req.proc # "MKDIR" => Exists(fs, obj)
             /\ req.proc = "REMOVE" => ~IsDir(fs, obj)
             /\ req.proc = "RMDIR" => IsDir(fs, obj)
    <3>1. exec'.todo # <<>>
      BY <2>3
    <3>2. OneCallProgress'
      BY <1>1, <1>6, <2>3 DEF OneCallProgress, OneCall, obj, to
    <3> QED BY <1>1, <2>3, <3>1, <3>2 DEF Progress, Achieved, Executed, Status
  <2>4. CASE /\ exec'.todo = <<>> /\ exec'.status \in {"NOENT", "NOTDIR", "ISDIR"}
             /\ exec'.status = "NOENT" => ~Exists(fs, obj)
             /\ req.proc \in {"REMOVE", "RMDIR", "RENAME"}
    <3>1. Progress'
      BY <1>1, <1>6, <2>4 DEF Progress, OneCallProgress
    <3>2. Achieved'
      BY <1>1, <2>4 DEF Achieved, MakesNew, Removes, obj
    <3> QED BY <2>4, <3>1, <3>2 DEF Status
  <2>5. CASE req.proc = "MKDIR"
    <3>1. exec'.status = "OK" /\ exec'.todo = <<[call |-> "mkdir", path |-> obj]>>
      BY <1>4, <1>6, <2>5 DEF Plan, Do, Call
    <3> QED BY <2>3, <2>5, <3>1
  <2>6. CASE req.proc = "REMOVE"
    <3>1. Plan(req, checked, obj, to) = RemoveCalls(req, obj)
      BY <1>6, <2>6 DEF Plan
    <3>3. CASE ~Exists(fs, obj)
      <4>1. exec'.status = "NOENT" /\ exec'.todo = <<>>
        BY <1>4, <2>6, <3>1, <3>3 DEF RemoveCalls, Refuse
      <4> QED BY <2>4, <2>6, <3>3, <4>1
    <3>4. CASE Exists(fs, obj) /\ IsDir(fs, obj)
      <4>1. exec'.status = "ISDIR" /\ exec'.todo = <<>>
        BY <1>4, <2>6, <2>2, <3>1, <3>4 DEF RemoveCalls, Refuse
      <4> QED BY <2>4, <2>6, <4>1
    <3>5. CASE Exists(fs, obj) /\ ~IsDir(fs, obj)
      <4>1. exec'.status = "OK" /\ exec'.todo = <<[call |-> "remove", path |-> obj]>>
        BY <1>4, <2>6, <2>2, <3>1, <3>5 DEF RemoveCalls, Do, Call
      <4> QED BY <2>3, <2>6, <3>5, <4>1
    <3> QED BY <3>3, <3>4, <3>5
  <2>7. CASE req.proc = "RMDIR"
    <3>1. Plan(req, checked, obj, to) = RemoveCalls(req, obj)
      BY <1>6, <2>7 DEF Plan
    <3>3. CASE ~Exists(fs, obj)
      <4>1. exec'.status = "NOENT" /\ exec'.todo = <<>>
        BY <1>4, <2>7, <3>1, <3>3 DEF RemoveCalls, Refuse
      <4> QED BY <2>4, <2>7, <3>3, <4>1
    <3>4. CASE Exists(fs, obj) /\ ~IsDir(fs, obj)
      <4>1. exec'.status = "NOTDIR" /\ exec'.todo = <<>>
        BY <1>4, <2>7, <2>2, <3>1, <3>4 DEF RemoveCalls, Refuse
      <4> QED BY <2>4, <2>7, <4>1
    <3>5. CASE Exists(fs, obj) /\ IsDir(fs, obj)
      <4>1. exec'.status = "OK" /\ exec'.todo = <<[call |-> "remove", path |-> obj]>>
        BY <1>4, <2>7, <2>2, <3>1, <3>5 DEF RemoveCalls, Do, Call
      <4> QED BY <2>3, <2>7, <3>5, <4>1
    <3> QED BY <3>3, <3>4, <3>5
  <2>8. CASE req.proc = "RENAME"
    <3>1. Plan(req, checked, obj, to) = RenameCalls(obj, to)
      BY <1>6, <2>8 DEF Plan
    <3>3. CASE ~Exists(fs, obj)
      <4>1. exec'.status = "NOENT" /\ exec'.todo = <<>>
        BY <1>4, <3>1, <3>3 DEF RenameCalls, Refuse
      <4> QED BY <2>4, <2>8, <3>3, <4>1
    <3>4. CASE Exists(fs, obj)
      <4>1. exec'.status = "OK" /\ exec'.todo = <<[call |-> "move", path |-> obj, to |-> to]>>
        BY <1>4, <3>1, <3>4 DEF RenameCalls, MoveCall, Do
      <4> QED BY <2>3, <2>8, <3>4, <4>1
    <3> QED BY <3>3, <3>4
  <2> QED BY <2>5, <2>6, <2>7, <2>8
<1> QED BY <1>5, <1>6

(* CREATE works on a path, whatever cat_name says.                         *)
LEMMA TargetIsPath ==
    ASSUME TableType(fddb), NEW req, RequestType(req), req.proc \in {"SETATTR", "CREATE"},
           NEW obj \in Targets(req)
    PROVE  obj \in Path
<1>1. CASE req.proc = "SETATTR"
  BY <1>1, PathsArePaths, CleanOK DEF Targets
<1>2. CASE req.proc = "CREATE"
  <2>1. req.name \in Name \cup {".", "..", BadName}
    BY <1>2 DEF RequestType
  <2>2. CASE Named(fddb, req.h, req.name).status # "OK"
    BY <1>2, <2>2, PathsUpToArePaths, GoExportsAssumption DEF Targets
  <2>3. CASE Named(fddb, req.h, req.name).status = "OK"
    BY <1>2, <2>1, <2>3, NamedIsPath DEF Targets
  <2> QED BY <2>2, <2>3
<1> QED BY <1>1, <1>2

LEMMA BeginCreate ==
    ASSUME NEW req, Begun(req), req.proc = "CREATE"
    PROVE  exec'.status \in Status /\ Progress' /\ Achieved'
<1> DEFINE obj == exec'.obj
           rm  == [call |-> "remove", path |-> obj]
           mk  == [call |-> "create", path |-> obj]
           ch  == [call |-> "set", path |-> obj, attr |-> "mode", v |-> create_mode(req.mode)]
<1>1. /\ RequestType(req) /\ Busy' /\ Req' = req /\ fs' = fs /\ exec'.before = fs
      /\ TableType(fddb) /\ obj \in Targets(req)
  BY DEF Begun
<1>2. obj \in Path
  BY <1>1, TargetIsPath
<1>3. /\ exec'.status = CreateCalls(req, obj).status
      /\ exec'.todo = CreateCalls(req, obj).todo
  BY DEF Begun, Plan
<1>4. MakeFile(req, obj) = <<mk, ch>> /\ Call("remove", obj) \o MakeFile(req, obj) = <<rm, mk, ch>>
  <2>1. SetCall("mode", obj, <<create_mode(req.mode)>>) = <<ch>>
    BY DEF SetCall
  <2> HIDE DEF rm, mk, ch
  <2>2. Call("create", obj) = <<mk>> /\ Call("remove", obj) = <<rm>>
    BY DEF Call, mk, rm
  <2>3. <<mk>> \o <<ch>> = <<mk, ch>> /\ <<rm>> \o <<mk, ch>> = <<rm, mk, ch>>
    BY ListsOfCalls
  <2> QED BY <2>1, <2>2, <2>3 DEF MakeFile
<1> HIDE DEF obj, rm, mk, ch
<1>5. CASE req.how = "UNCHECKED" /\ IsDir(fs, obj)
  <2>1. exec'.status = "ISDIR" /\ exec'.todo = <<>>
    BY <1>3, <1>5 DEF CreateCalls, Refuse
  <2>2. Progress'
    BY <1>1, <2>1 DEF Progress, CreateProgress
  <2>3. Achieved'
    BY <1>1, <1>5 DEF Achieved, MakesNew, Removes
  <2> QED BY <2>1, <2>2, <2>3 DEF Status
<1>6. CASE ~(req.how = "UNCHECKED" /\ IsDir(fs, obj))
  <2>1. /\ exec'.status = "OK"
        /\ exec'.todo = IF req.how = "UNCHECKED" /\ Exists(fs, obj)
                        THEN <<rm, mk, ch>> ELSE <<mk, ch>>
    BY <1>3, <1>4, <1>6 DEF CreateCalls, Do
  <2>2. exec'.todo # <<>>
    BY <2>1
  <2>3. CreateProgress'
    <3>1. CASE req.how = "UNCHECKED" /\ Exists(fs, obj)
      <4>1. exec'.todo = <<rm, mk, ch>> /\ Over' /\ ~IsDir(exec'.before, obj)
        BY <1>1, <1>6, <2>1, <3>1 DEF Over, obj
      <4> QED BY <1>1, <2>1, <4>1 DEF CreateProgress, obj, rm, mk, ch
    <3>2. CASE ~(req.how = "UNCHECKED" /\ Exists(fs, obj))
      <4>1. exec'.todo = <<mk, ch>> /\ ClearTree(fs)'
        BY <1>1, <2>1, <3>2 DEF Over, ClearTree, obj
      <4> QED BY <1>1, <2>1, <4>1 DEF CreateProgress, obj, rm, mk, ch
    <3> QED BY <3>1, <3>2
  <2> QED BY <1>1, <2>1, <2>2, <2>3 DEF Progress, Achieved, Executed, Status
<1> QED BY <1>5, <1>6

LEMMA BeginSetattr ==
    ASSUME NEW req, Begun(req), req.proc = "SETATTR"
    PROVE  exec'.status \in Status /\ Progress' /\ Achieved'
<1>1. Busy' /\ Req' = req
  BY DEF Begun
<1>2. exec'.todo = SetattrCalls(req, exec'.obj).todo
  BY DEF Begun, Plan, CheckedNow, Checked
<1>3. SetattrProgress'
  BY <1>1, <1>2 DEF SetattrProgress, SetattrCalls, Do
<1>4. exec'.status = "OK"
  BY DEF Begun, Plan, CheckedNow, Checked, SetattrCalls, Do
<1> QED BY <1>1, <1>3, <1>4 DEF Progress, Achieved, MakesNew, Removes, Status

LEMMA BeginKeeps == ASSUME IInv, NEW x \in Xid, Begin(x) PROVE IInv'
<1>1. TypeOK /\ Bookkeeping /\ Remembered /\ Believable
  BY DEF IInv
<1>2. /\ up /\ ~Busy /\ x \in 1 .. Len(sent)
      /\ Begun(sent[x])
      /\ exec' = [xid |-> x, obj |-> exec'.obj, to |-> exec'.to,
                  before |-> exec'.before, checked |-> exec'.checked,
                  status |-> exec'.status, todo |-> exec'.todo]
      /\ copies' \in [Xid -> 0 .. MaxCopies]
      /\ \A y \in Xid : copies'[y] > 0 => y <= Len(sent)
      /\ TableType(fddb') /\ Consistent(fddb') /\ HandlesKept
      /\ SecondKept(sent[x])
      /\ undisturbed' = (undisturbed /\ x = Len(sent))
      /\ last' = IF last.xid = x THEN last ELSE None
      /\ UNCHANGED <<fs, up, sent, waiting, answer, replies, losses, ends>>
  BY BeginShape
<1>3. /\ exec'.xid = x
      /\ undisturbed' => undisturbed /\ x = Len(sent)
      /\ sent # <<>> /\ sent' = sent /\ ends' = ends
  <2>1. exec'.xid = x
    BY <1>2
  <2>2. undisturbed' => undisturbed /\ x = Len(sent)
    BY <1>1, <1>2 DEF TypeOK
  <2>3. sent # <<>>
    BY <1>2
  <2> QED BY <1>2, <2>1, <2>2, <2>3
<1>4. PICK req : req = sent[x]
  OBVIOUS
<1>5. Begun(req) /\ SecondKept(req)
  BY <1>2, <1>4
<1>6. /\ req \in Request /\ RequestType(req) /\ Busy' /\ Req' = req
      /\ fs' = fs /\ TreeType(fs) /\ TableType(fddb)
      /\ exec'.before = fs /\ exec'.checked = Checked(req, Looked(req)) /\ exec'.obj \in Targets(req)
      /\ exec'.to = IF req.proc = "RENAME" THEN SecondOf(req) ELSE NULL
  BY <1>5 DEF Begun
<1>7. exec'.status \in Status /\ Progress' /\ Achieved'
  <2>1. req.proc \in {"SETATTR", "CREATE", "MKDIR", "REMOVE", "RMDIR", "RENAME"}
    BY <1>6 DEF RequestType
  <2> QED BY <1>5, <2>1, BeginOneCall, BeginCreate, BeginSetattr
<1>8. TypeOK'
  <2>1. exec'.xid <= Len(sent')
    BY <1>2, <1>3
  <2>2. undisturbed' \in BOOLEAN
    BY <1>1, <1>2 DEF TypeOK
  <2> QED BY <1>1, <1>2, <1>7, <2>1, <2>2 DEF TypeOK
<1>9. Bookkeeping'
  <2>1. undisturbed' => exec'.xid = Len(sent')
    BY <1>2, <1>3
  <2> QED BY <1>1, <1>2, <2>1 DEF Bookkeeping
<1>10. Executing'
  BY <1>2, <1>3, <1>6 DEF Executing
<1>11. CutIsClean'
  BY <1>6 DEF CutIsClean, Same
<1>12. NamesHold'
  <2>1. req.proc \in {"SETATTR", "CREATE"} => exec'.obj \in Path
    BY <1>6, TargetIsPath
  <2>2. ASSUME req.proc # "SETATTR", Checked(req, Looked(req)) = "OK"
        PROVE  /\ Resolves(req)' /\ CheckedNow(req)' = "OK"
               /\ exec'.obj = ObjOf(req)'
               /\ req.proc = "RENAME" => exec'.to = ToOf(req)'
    <3>1. /\ GetPath(fddb', req.h) = GetPath(fddb, req.h) /\ GetPath(fddb, req.h) # NULL
          /\ Named(fddb, req.h, req.name).status = "OK"
      BY <1>2, <1>5, <2>2, BegunNames DEF HandlesKept
    <3>2. exec'.obj = ObjOf(req)
      BY <1>6, <2>2, <3>1 DEF Targets, ObjOf
    <3>3. CASE req.proc = "RENAME"
      <4>1. /\ GetPath(fddb', req.h2) = GetPath(Looked(req), req.h2)
            /\ GetPath(Looked(req), req.h2) # NULL
            /\ Named(Looked(req), req.h2, req.name2).status = "OK"
        BY <1>5, <2>2, <3>3, BegunNames DEF SecondKept
      <4>2. exec'.to = SecondOf(req)
        BY <1>6, <3>3
      <4> QED BY <3>1, <3>2, <3>3, <4>1, <4>2
              DEF Resolves, Handles, CheckedNow, Checked, ObjOf, ToOf, SecondOf, Named
    <3>4. CASE req.proc # "RENAME"
      BY <2>2, <3>1, <3>2, <3>4 DEF Resolves, Handles, CheckedNow, Checked, ObjOf, Named
    <3> QED BY <3>3, <3>4
  <2>3. undisturbed' /\ ends' = 0 => Checked(req, Looked(req)) = CheckedNow(req)'
    <3> SUFFICES ASSUME undisturbed', ends' = 0
                 PROVE  Checked(req, Looked(req)) = CheckedNow(req)'
      OBVIOUS
    <3>1. undisturbed /\ ends = 0 /\ x = Len(sent) /\ sent # <<>>
      BY <1>3
    <3>2. Resolves(req)
      BY <1>1, <1>4, <3>1 DEF Believable, Current
    <3>3. CheckedNow(req)' = CheckedNow(req)
      BY <1>2, <3>2, NamesKept
    <3>4. Checked(req, Looked(req)) = CheckedNow(req)
      BY <1>5, <3>2 DEF Resolves, Handles, SecondKept, CheckedNow, Checked, Named
    <3> QED BY <3>3, <3>4
  <2> QED BY <1>6, <2>1, <2>2, <2>3 DEF NamesHold
<1>13. \A p : Exists(fs', p) <=> Exists(fs, p)
  BY <1>6
<1>14. Remembered'
  <2>1. CASE last.xid # x
    BY <1>2, <2>1 DEF Remembered, None
  <2>2. CASE last.xid = x
    <3>1. last' = last /\ last.xid # 0 /\ sent'[last'.xid] = req
      BY <1>2, <1>4, <2>2
    <3>2. /\ Settles(req) => Settled(req)
          /\ Settles(req) \/ req.proc = "SETATTR" => SameObjects(fs, last.fs)
      BY <1>1, <1>4, <2>2, <3>1 DEF Remembered
    <3>3. Settles(req) => Settled(req)'
      BY <1>2, <1>13, <3>2, SettledKept
    <3>4. MakesNew(req) => exec'.checked = "OK"
      <4>1. MakesNew(req) => CheckedNow(req) = "OK" /\ req.proc # "RENAME"
        BY <3>2 DEF Settles, Settled, MakesNew
      <4>2. req.proc # "RENAME" => Checked(req, Looked(req)) = CheckedNow(req)
        BY DEF CheckedNow, Checked
      <4> QED BY <1>6, <4>1, <4>2
    <3>5. SameObjects(fs', last'.fs) <=> SameObjects(fs, last.fs)
      BY <1>6, <3>1
    <3> QED BY <1>2, <1>3, <2>2, <3>1, <3>2, <3>3, <3>4, <3>5 DEF Remembered
  <2> QED BY <2>1, <2>2
<1>15. Believable'
  <2> SUFFICES ASSUME undisturbed', ends' = 0
               PROVE  /\ Resolves(Current)'
                      /\ \A r \in Heard' : Claims(Current, r)' => Settled(Current)'
    BY DEF Believable
  <2>1. undisturbed /\ ends = 0 /\ x = Len(sent) /\ sent # <<>>
    BY <1>3
  <2>2. Current' = req /\ Current = req
    BY <1>3, <1>4, <2>1 DEF Current
  <2>3. Resolves(req) /\ \A r \in Heard : Claims(req, r) => Settled(req)
    BY <1>1, <2>1, <2>2 DEF Believable
  <2>4. Resolves(req)' /\ CheckedNow(req)' = CheckedNow(req)
    BY <1>2, <2>3, NamesKept
  <2>5. Settled(req) => Settled(req)'
    BY <1>2, <1>13, SettledKept
  <2>6. \A r : Claims(req, r)' <=> Claims(req, r)
    BY <2>4 DEF Claims, MakesNew, Removes
  <2>7. Heard' = Heard
    BY <1>2 DEF Heard
  <2> HIDE DEF Current
  <2> QED BY <2>2, <2>3, <2>4, <2>5, <2>6, <2>7
<1> QED BY <1>7, <1>8, <1>9, <1>10, <1>11, <1>12, <1>14, <1>15 DEF IInv

-----------------------------------------------------------------------------
(* An execution ends.                                                      *)

(* A rename that was made, and nothing else, moves handles.                *)
LEMMA FinishTable ==
    ASSUME IInv, Finish, NEW req, req = Req
    PROVE  /\ TableType(fddb') /\ Consistent(fddb')
           /\ \/ HandlesKept
              \/ /\ req.proc = "RENAME" /\ exec.status = "OK" /\ exec.checked = "OK"
                 /\ Settled(req)'
<1>1. TypeOK /\ Bookkeeping /\ Executing /\ NamesHold /\ Progress /\ Achieved
  BY DEF IInv
<1>2. /\ Busy /\ exec.todo = <<>> /\ fs' = fs
      /\ fddb' = IF exec.status = "OK" /\ req.proc = "RENAME"
                 THEN ReplacePath(fddb, exec.obj, exec.to, IsDir(exec.before, exec.obj))
                 ELSE IF exec.status = "OK" /\ req.proc \in {"CREATE", "MKDIR"} /\ Exists(fs, exec.obj)
                 THEN GetFD(fddb, exec.obj)
                 ELSE fddb
  BY DEF Finish, Req
<1>3. /\ TableType(fddb) /\ Consistent(fddb) /\ TreeType(fs)
      /\ RequestType(req)
  BY <1>1, <1>2, Execution DEF TypeOK, Bookkeeping
<1>4. CASE exec.status = "OK" /\ req.proc = "RENAME"
  <2>1. exec.checked = "OK"
    <3>1. OneCallProgress
      BY <1>1, <1>2, <1>4 DEF Progress
    <3> QED BY <1>2, <1>4, <3>1 DEF OneCallProgress
  <2>2. CheckedNow(req) = "OK" /\ exec.obj = ObjOf(req) /\ exec.to = ToOf(req)
    BY <1>1, <1>2, <1>4, <2>1 DEF NamesHold
  <2>3. exec.obj \in Path /\ exec.to \in Path
    BY <1>3, <1>4, <2>2, CheckedNames
  <2>4. /\ Exists(fs, exec.to)
        /\ exec.obj = exec.to \/ (~Exists(fs, exec.obj) /\ Apart(exec.obj, exec.to))
    BY <1>1, <1>2, <1>4, <2>1 DEF Achieved, Executed
  <2>5. IsDir(exec.before, exec.obj) \in BOOLEAN
    BY DEF IsDir, Exists
  <2>6. fddb' = ReplacePath(fddb, ObjOf(req), ToOf(req), IsDir(exec.before, exec.obj))
    BY <1>2, <1>4, <2>2
  <2>7. /\ Resolves(req)' /\ ToOf(req)' = ToOf(req)
        /\ ObjOf(req)' \in {ObjOf(req), ToOf(req), NULL}
    BY <1>3, <1>4, <2>2, <2>4, <2>5, <2>6, NamesMoved
  <2>8. ~Exists(fs, NULL)
    BY <1>3, PathsAssumption DEF TreeType, Exists
  <2>9. Settled(req)'
    BY <1>2, <1>4, <2>2, <2>4, <2>7, <2>8 DEF Settled, MakesNew, Removes
  <2>10. TableType(fddb') /\ Consistent(fddb')
    BY <1>3, <2>2, <2>3, <2>5, <2>6, ReplacePathOK
  <2> QED BY <1>4, <2>1, <2>9, <2>10
<1>5. CASE /\ exec.status = "OK" /\ req.proc \in {"CREATE", "MKDIR"} /\ Exists(fs, exec.obj)
  <2>1. exec.obj \in Path /\ fddb' = GetFD(fddb, exec.obj)
    BY <1>2, <1>3, <1>5 DEF Exists, TreeType
  <2>2. TableType(fddb') /\ Consistent(fddb')
    BY <1>3, <2>1, GetFDOK
  <2>3. HandlesKept
    BY <1>3, <2>1, GetFDPaths DEF HandlesKept
  <2> QED BY <2>2, <2>3
<1>6. CASE fddb' = fddb
  BY <1>3, <1>6 DEF HandlesKept
<1> QED BY <1>2, <1>4, <1>5, <1>6

(* What an execution ends with settles the request.                        *)
LEMMA FinishSettles ==
    ASSUME IInv, Finish, NEW req, req = Req, exec.checked = "OK",
           \/ MakesNew(req) /\ exec.status \in {"OK", "EXIST"}
           \/ Removes(req) /\ exec.status \in {"OK", "NOENT"}
           \/ req.proc = "RENAME" /\ exec.status = "OK"
    PROVE  Settled(req)'
<1>1. NamesHold /\ Achieved
  BY DEF IInv
<1>2. Busy /\ Executed /\ \A p : Exists(fs', p) <=> Exists(fs, p)
  BY DEF Finish, Executed
<1>3. CASE ~HandlesKept
  BY <1>3, FinishTable
<1>4. CASE HandlesKept /\ (MakesNew(req) \/ Removes(req))
  <2>1. req.proc # "SETATTR" /\ req.proc # "RENAME" /\ ~(MakesNew(req) /\ Removes(req))
    BY <1>4 DEF MakesNew, Removes
  <2>2. Resolves(req) /\ CheckedNow(req) = "OK" /\ exec.obj = ObjOf(req)
    BY <1>1, <1>2, <2>1 DEF NamesHold
  <2>3. /\ MakesNew(req) => Exists(fs, ObjOf(req))
        /\ Removes(req) => ~Exists(fs, ObjOf(req))
    BY <1>1, <1>2, <2>1, <2>2 DEF Achieved
  <2>4. Settled(req)
    BY <2>1, <2>2, <2>3 DEF Settled
  <2> QED BY <1>2, <1>4, <2>4, SettledKept
<1>5. CASE HandlesKept /\ req.proc = "RENAME"
  <2>1. Resolves(req) /\ exec.obj = ObjOf(req) /\ exec.to = ToOf(req) /\ exec.status = "OK"
    BY <1>1, <1>2, <1>5 DEF NamesHold, MakesNew, Removes
  <2>2. /\ Exists(fs, exec.to)
        /\ exec.obj = exec.to \/ ~Exists(fs, exec.obj)
    BY <1>1, <1>2, <1>5, <2>1 DEF Achieved
  <2>3. Settled(req)
    BY <1>5, <2>1, <2>2 DEF Settled, MakesNew, Removes
  <2> QED BY <1>2, <1>5, <2>3, SettledKept
<1> QED BY <1>3, <1>4, <1>5

LEMMA FinishKeeps == ASSUME IInv, Finish PROVE IInv'
<1>1. TypeOK /\ Bookkeeping /\ Executing /\ NamesHold /\ Progress /\ Remembered /\ Believable
  BY DEF IInv
<1>2. PICK req : req = Req
  OBVIOUS
<1>3. /\ up /\ Busy /\ exec.todo = <<>>
      /\ replies' = replies \cup Sent(exec.xid, exec.status)
      /\ last' = IF exec.status = "OK" /\ exec.checked = "OK"
                 THEN [xid |-> exec.xid, fs |-> fs] ELSE last
      /\ exec' = Idle
      /\ UNCHANGED <<fs, up, sent, waiting, answer, copies, losses, ends, undisturbed>>
  BY DEF Finish, client
<1>4. /\ exec.xid \in 1 .. Len(sent) /\ exec.status \in Status
      /\ RequestType(req) /\ sent[exec.xid] = req
  BY <1>1, <1>2, <1>3, Execution DEF Req
<1>5. /\ TableType(fddb') /\ Consistent(fddb')
      /\ HandlesKept \/ (req.proc = "RENAME" /\ exec.status = "OK" /\ exec.checked = "OK" /\ Settled(req)')
  BY <1>2, FinishTable
<1>6. ~Busy' /\ Executing' /\ NamesHold' /\ Progress' /\ Achieved' /\ CutIsClean'
  BY <1>3, IdleHolds
<1>7. /\ Sent(exec.xid, exec.status) \subseteq {exec.status}
      /\ ~waiting => Sent(exec.xid, exec.status) = {}
  BY DEF Sent
<1>8. TypeOK'
  BY <1>1, <1>3, <1>4, <1>5, <1>6, <1>7 DEF TypeOK
<1>9. Bookkeeping'
  BY <1>1, <1>3, <1>5, <1>6, <1>7 DEF Bookkeeping
<1>10. \A p : Exists(fs', p) <=> Exists(fs, p)
  BY <1>3
<1>11. Remembered'
  <2>1. CASE exec.status = "OK" /\ exec.checked = "OK"
    <3>1. last'.xid = exec.xid /\ last'.fs = fs' /\ sent'[last'.xid] = req
      BY <1>3, <1>4, <2>1
    <3>2. Settles(req) => Settled(req)'
      BY <1>2, <2>1, FinishSettles DEF Settles
    <3>3. SameObjects(fs', last'.fs)
      BY <3>1 DEF SameObjects
    <3> QED BY <1>3, <1>4, <1>6, <3>1, <3>2, <3>3 DEF Remembered
  <2>2. CASE ~(exec.status = "OK" /\ exec.checked = "OK")
    <3>1. last' = last /\ HandlesKept
      BY <1>3, <1>5, <2>2
    <3>2. CASE last.xid = 0
      BY <3>1, <3>2 DEF Remembered
    <3>3. CASE last.xid # 0
      <4>1. exec.xid = last.xid /\ sent'[last'.xid] = req /\ sent[last.xid] = req
        BY <1>1, <1>3, <1>4, <3>1, <3>3 DEF Remembered
      <4>2. /\ Settles(req) => Settled(req)
            /\ Settles(req) \/ req.proc = "SETATTR" => SameObjects(fs, last.fs)
        BY <1>1, <3>3, <4>1 DEF Remembered
      <4>3. Settles(req) => Settled(req)'
        BY <1>10, <3>1, <4>2, SettledKept
      <4>4. SameObjects(fs', last'.fs) <=> SameObjects(fs, last.fs)
        BY <1>3, <3>1
      <4> QED BY <1>3, <1>4, <1>6, <3>1, <4>1, <4>2, <4>3, <4>4 DEF Remembered
    <3> QED BY <3>2, <3>3
  <2> QED BY <2>1, <2>2
<1>12. Believable'
  <2> SUFFICES ASSUME undisturbed', ends' = 0
               PROVE  /\ Resolves(Current)'
                      /\ \A r \in Heard' : Claims(Current, r)' => Settled(Current)'
    BY DEF Believable
  <2>1. undisturbed /\ ends = 0 /\ sent' = sent /\ exec.xid = Len(sent) /\ sent # <<>>
    <3>1. exec.xid = Len(sent)
      BY <1>1, <1>3 DEF Bookkeeping
    <3> QED BY <1>3, <1>4, <3>1
  <2>2. Current' = req /\ Current = req
    BY <1>4, <2>1 DEF Current
  <2>3. Resolves(req) /\ \A r \in Heard : Claims(req, r) => Settled(req)
    BY <1>1, <2>1, <2>2 DEF Believable
  <2>4. Heard' \subseteq Heard \cup {exec.status}
    BY <1>3, <1>7 DEF Heard
  <2>5. CASE HandlesKept
    <3>1. Resolves(req)' /\ CheckedNow(req)' = CheckedNow(req)
      BY <2>3, <2>5, NamesKept
    <3>2. Settled(req) => Settled(req)'
      BY <1>10, <2>5, SettledKept
    <3>3. \A r : Claims(req, r)' <=> Claims(req, r)
      BY <3>1 DEF Claims, MakesNew, Removes
    <3>4. Claims(req, exec.status) => Settled(req)'
      <4> SUFFICES ASSUME Claims(req, exec.status) PROVE Settled(req)'
        OBVIOUS
      <4>1. \/ MakesNew(req) /\ exec.status \in {"OK", "EXIST"}
            \/ Removes(req) /\ exec.status \in {"OK", "NOENT"}
            \/ req.proc = "RENAME" /\ exec.status = "OK"
        BY DEF Claims
      <4>2. exec.checked = "OK"
        <5>1. CASE req.proc = "CREATE"
          <6>1. CheckedNow(req) = "OK"
            BY <5>1 DEF Claims, Removes
          <6> QED BY <1>1, <1>2, <1>3, <2>1, <6>1 DEF NamesHold
        <5>2. CASE req.proc # "CREATE"
          <6>1. req.proc # "SETATTR"
            BY <4>1 DEF MakesNew, Removes
          <6>2. OneCallProgress
            BY <1>1, <1>2, <1>3, <5>2, <6>1 DEF Progress
          <6>3. exec.status \in {"OK", "EXIST", "NOENT"}
            BY <4>1
          <6> QED BY <1>3, <6>2, <6>3 DEF OneCallProgress
        <5> QED BY <5>1, <5>2
      <4> QED BY <1>2, <4>1, <4>2, FinishSettles
    <3> HIDE DEF Current
    <3> QED BY <2>2, <2>3, <2>4, <3>1, <3>2, <3>3, <3>4
  <2>6. CASE Settled(req)'
    <3>1. Resolves(req)'
      BY <2>6 DEF Settled
    <3> HIDE DEF Current
    <3> QED BY <2>2, <2>6, <3>1
  <2> QED BY <1>5, <2>5, <2>6
<1> QED BY <1>6, <1>8, <1>9, <1>11, <1>12 DEF IInv

-----------------------------------------------------------------------------
(* An execution makes the next call of the backend, with outcome o.        *)
StepBy(req, o) ==
    /\ req \in Request /\ RequestType(req) /\ req = Req
    /\ Busy /\ Busy' /\ Req' = req
    /\ o \in Outcomes(Head(exec.todo)) /\ exec.todo # <<>>
    /\ TreeType(fs) /\ TableType(fddb) /\ fs' = o.fs /\ fddb' = fddb
    /\ TreeType(exec.before)
    /\ exec'.xid = exec.xid /\ exec'.obj = exec.obj /\ exec'.to = exec.to
    /\ exec'.before = exec.before /\ exec'.checked = exec.checked
    /\ exec'.status = IF exec.status = "OK" THEN errTranslator[o.err] ELSE exec.status
    /\ exec'.todo = IF errTranslator[o.err] = "OK" \/ req.proc = "SETATTR"
                    THEN Tail(exec.todo) ELSE <<>>
    /\ exec.status \in Status

LEMMA StepShape ==
    ASSUME IInv, Step
    PROVE  /\ \E req \in Request, o \in Outcomes(Head(exec.todo)) : StepBy(req, o)
           /\ exec' = [xid |-> exec'.xid, obj |-> exec'.obj, to |-> exec'.to,
                       before |-> exec'.before, checked |-> exec'.checked,
                       status |-> exec'.status, todo |-> exec'.todo]
           /\ up /\ exec.xid \in 1 .. Len(sent)
           /\ UNCHANGED <<fddb, up, sent, waiting, answer, copies, replies, losses, ends, last,
                          undisturbed>>
<1>1. TypeOK /\ Executing
  BY DEF IInv
<1>2. /\ up /\ Busy /\ exec.todo # <<>>
      /\ UNCHANGED <<fddb, up, sent, waiting, answer, copies, replies, losses, ends, last, undisturbed>>
  BY DEF Step, client, network
<1>3. /\ exec = [xid |-> exec.xid, obj |-> exec.obj, to |-> exec.to,
                 before |-> exec.before, checked |-> exec.checked,
                 status |-> exec.status, todo |-> exec.todo]
      /\ exec.xid \in 1 .. Len(sent) /\ TreeType(exec.before) /\ exec.status \in Status
      /\ Req \in Request /\ RequestType(Req)
  BY <1>1, <1>2, Execution
<1>4. PICK o \in Outcomes(Head(exec.todo)) :
         /\ fs' = o.fs
         /\ exec' = [exec EXCEPT
                        !.status = IF @ = "OK" THEN errTranslator[o.err] ELSE @,
                        !.todo = IF errTranslator[o.err] = "OK" \/ Req.proc = "SETATTR"
                                 THEN Tail(@) ELSE <<>>]
  BY DEF Step, Req
<1>5. /\ exec' = [xid |-> exec'.xid, obj |-> exec'.obj, to |-> exec'.to,
                  before |-> exec'.before, checked |-> exec'.checked,
                  status |-> exec'.status, todo |-> exec'.todo]
      /\ exec'.xid = exec.xid /\ exec'.obj = exec.obj /\ exec'.to = exec.to
      /\ exec'.before = exec.before /\ exec'.checked = exec.checked
      /\ exec'.status = IF exec.status = "OK" THEN errTranslator[o.err] ELSE exec.status
      /\ exec'.todo = IF errTranslator[o.err] = "OK" \/ Req.proc = "SETATTR"
                      THEN Tail(exec.todo) ELSE <<>>
  <2> DEFINE e == exec
  <2>1. e = [xid |-> e.xid, obj |-> e.obj, to |-> e.to, before |-> e.before,
             checked |-> e.checked, status |-> e.status, todo |-> e.todo]
    BY <1>3
  <2>2. exec' = [e EXCEPT !.status = IF e.status = "OK" THEN errTranslator[o.err] ELSE e.status,
                          !.todo = IF errTranslator[o.err] = "OK" \/ Req.proc = "SETATTR"
                                   THEN Tail(e.todo) ELSE <<>>]
    BY <1>4
  <2> QED BY <2>1, <2>2
<1>6. PICK req \in Request : req = Req
  BY <1>3
<1>7. Busy' /\ Req' = req
  BY <1>2, <1>5, <1>6 DEF Busy, Req
<1>8. TreeType(fs) /\ TableType(fddb)
  BY <1>1 DEF TypeOK
<1>9. StepBy(req, o)
  BY <1>2, <1>3, <1>4, <1>5, <1>6, <1>7, <1>8 DEF StepBy
<1> QED BY <1>2, <1>3, <1>5, <1>9

(* The statuses that say how a name is.                                    *)
LEMMA StatusNames ==
    \A e \in GoError : /\ errTranslator[e] \in Status
                       /\ errTranslator[e] = "OK" <=> e = "nil"
                       /\ errTranslator[e] = "EXIST" <=> e = "ErrExist"
                       /\ errTranslator[e] = "NOENT" <=> e = "ErrNotExist"
BY DEF GoError, errTranslator, Status

(* To execute again what is settled, or a SETATTR, leaves every object     *)
(* where it is.                                                            *)
KeepsObjects(req) ==
    \/ Settles(req) /\ Settled(req) /\ (MakesNew(req) => exec.checked = "OK")
    \/ req.proc = "SETATTR"
    => SameObjects(fs', fs)

LEMMA StepOneCall ==
    ASSUME IInv, NEW req, NEW o, StepBy(req, o), req.proc \in {"MKDIR", "REMOVE", "RMDIR", "RENAME"}
    PROVE  /\ CallOK(fs, o) /\ KeepsObjects(req)
           /\ Progress' /\ Achieved' /\ CutIsClean'
<1> DEFINE obj == exec.obj
           to  == exec.to
           st  == errTranslator[o.err]
<1>1. NamesHold /\ Progress
  BY DEF IInv
<1>2. /\ req = Req /\ RequestType(req) /\ Busy /\ Busy' /\ Req' = req
      /\ TreeType(fs) /\ TableType(fddb) /\ fs' = o.fs
      /\ o \in Outcomes(Head(exec.todo)) /\ exec.todo # <<>>
      /\ exec'.obj = obj /\ exec'.to = to /\ exec'.before = exec.before
      /\ exec'.checked = exec.checked
      /\ exec'.status = IF exec.status = "OK" THEN st ELSE exec.status
      /\ exec'.todo = IF st = "OK" THEN Tail(exec.todo) ELSE <<>>
  BY DEF StepBy
<1>3. /\ exec.todo = <<OneCall>> /\ exec.status = "OK" /\ exec.checked = "OK"
      /\ fs = exec.before
      /\ req.proc # "MKDIR" => Exists(fs, obj)
      /\ req.proc = "REMOVE" => ~IsDir(fs, obj)
      /\ req.proc = "RMDIR"  => IsDir(fs, obj)
  BY <1>1, <1>2 DEF Progress, OneCallProgress
<1>4. Head(exec.todo) = OneCall /\ Tail(exec.todo) = <<>>
  BY <1>3
<1>5. exec'.todo = <<>> /\ exec'.status = st /\ Executed'
  BY <1>2, <1>3, <1>4 DEF Executed
<1>6. /\ obj = ObjOf(req) /\ obj \in Path /\ Clean(obj) = obj
      /\ req.proc = "RENAME" => to = ToOf(req) /\ to \in Path /\ Clean(to) = to
  <2>1. obj = ObjOf(req) /\ CheckedNow(req) = "OK" /\ (req.proc = "RENAME" => to = ToOf(req))
    BY <1>1, <1>2, <1>3 DEF NamesHold
  <2>2. obj \in Path /\ (req.proc = "RENAME" => to \in Path)
    BY <1>2, <2>1, CheckedNames
  <2> QED BY <2>1, <2>2, PathsAssumption DEF Clean
<1> HIDE DEF obj, to, st
(* It is enough to look at the call that is made.                          *)
<1>8. ASSUME CallOK(fs, o), Achieved', Settled(req) => SameObjects(fs', fs)
      PROVE  /\ CallOK(fs, o) /\ KeepsObjects(req)
             /\ Progress' /\ Achieved' /\ CutIsClean'
  <2>1. st = "OK" <=> o.err = "nil"
    BY <1>8, StatusNames DEF CallOK, st
  <2>2. st # "OK" => fs' = exec'.before
    BY <1>2, <1>3, <1>8, <2>1 DEF CallOK
  <2>3. Progress'
    BY <1>2, <1>3, <1>5, <2>2 DEF Progress, OneCallProgress
  <2>5. CutIsClean'
    BY <1>2, <1>5, <2>2 DEF CutIsClean
  <2>6. KeepsObjects(req)
    BY <1>8 DEF KeepsObjects
  <2> QED BY <1>8, <2>3, <2>5, <2>6
<1>9. SameObjects(fs, fs)
  BY DEF SameObjects
<1>10. CASE req.proc = "MKDIR"
  <2>1. o \in CreateDirectory(fs, obj)
    BY <1>2, <1>4, <1>10 DEF Outcomes, OneCall, obj
  <2>2. /\ CallOK(fs, o)
        /\ o.err = "ErrExist" => Exists(fs, obj)
        /\ o.err = "nil" => Exists(o.fs, obj) /\ ~Exists(fs, obj)
    BY <1>2, <1>6, <2>1, MadeExactly DEF CreateDirectory, Exists
  <2>3. (st = "OK" <=> o.err = "nil") /\ (st = "EXIST" <=> o.err = "ErrExist")
    BY <2>2, StatusNames DEF CallOK, st
  <2>4. Achieved'
    BY <1>2, <1>5, <1>10, <2>2, <2>3 DEF Achieved, MakesNew, Removes, CallOK
  <2>6. Settled(req) => SameObjects(fs', fs)
    BY <1>2, <1>6, <1>9, <1>10, <2>2 DEF Settled, MakesNew, CallOK
  <2> QED BY <1>8, <2>2, <2>4, <2>6
<1>11. CASE req.proc \in {"REMOVE", "RMDIR"}
  <2>1. o \in Remove(fs, obj)
    BY <1>2, <1>4, <1>11 DEF Outcomes, OneCall, obj
  <2>2. /\ CallOK(fs, o)
        /\ o.err = "ErrNotExist" => ~Exists(fs, obj)
        /\ o.err = "nil" => ~Exists(o.fs, obj)
    BY <1>2, <1>6, <2>1, RemovedExactly DEF Exists
  <2>3. (st = "OK" <=> o.err = "nil") /\ (st = "NOENT" <=> o.err = "ErrNotExist")
    BY <2>2, StatusNames DEF CallOK, st
  <2>4. Achieved'
    BY <1>2, <1>5, <1>11, <2>2, <2>3 DEF Achieved, MakesNew, Removes, CallOK
  <2>6. Settled(req) => SameObjects(fs', fs)
    BY <1>3, <1>6, <1>11 DEF Settled, Removes
  <2> QED BY <1>8, <2>2, <2>4, <2>6
<1>12. CASE req.proc = "RENAME"
  <2>1. o \in Move(fs, obj, to)
    BY <1>2, <1>4, <1>12 DEF Outcomes, OneCall, obj, to
  <2>2. /\ CallOK(fs, o)
        /\ obj = to => o.fs = fs
        /\ o.err = "nil" => /\ Exists(o.fs, to)
                            /\ obj # to => ~Exists(o.fs, obj) /\ Apart(obj, to)
    BY <1>2, <1>6, <1>12, <2>1, MovedExactly
  <2>3. st = "OK" <=> o.err = "nil"
    BY <2>2, StatusNames DEF CallOK, st
  <2>4. Achieved'
    BY <1>2, <1>5, <1>12, <2>2, <2>3 DEF Achieved, MakesNew, Removes
  <2>6. Settled(req) => SameObjects(fs', fs)
    BY <1>2, <1>3, <1>6, <1>9, <1>12, <2>2 DEF Settled
  <2> QED BY <1>8, <2>2, <2>4, <2>6
<1> QED BY <1>10, <1>11, <1>12

(* CREATE with the way clear, or not to be cleared.                        *)
LEMMA ClearIsClean ==
    ASSUME NEW req, req = Req, RequestType(req), req.proc = "CREATE",
           TreeType(exec.before), exec.obj \in Path, TreeType(fs), ClearTree(fs)
    PROVE  /\ fs = exec.before \/ fs = Without(exec.before, exec.obj)
           /\ fs.born = exec.before.born
           /\ \A p \in (DOMAIN fs.node \cup DOMAIN exec.before.node) \ {exec.obj} : Same(p)
           /\ Over => /\ Done(fs) \in Remove(exec.before, exec.obj)
                      /\ Exists(exec.before, exec.obj) /\ ~IsDir(exec.before, exec.obj)
                      /\ req.how = "UNCHECKED"
           /\ ~Over => /\ fs = exec.before
                       /\ req.how = "UNCHECKED" => ~Exists(exec.before, exec.obj)
<1>1. CASE Over
  <2>1. Done(fs) \in Remove(exec.before, exec.obj) /\ ~IsDir(exec.before, exec.obj)
    BY <1>1 DEF ClearTree
  <2>2. Done(fs).err = "nil" /\ Done(fs).fs = fs
    BY DEF Done
  <2>3. /\ fs = Without(exec.before, exec.obj)
        /\ DOMAIN fs.node = DOMAIN exec.before.node \ {exec.obj}
        /\ \A q \in DOMAIN exec.before.node \ {exec.obj} : fs.node[q] = exec.before.node[q]
        /\ fs.born = exec.before.born
    BY <2>1, <2>2, RemovedExactly
  <2> QED BY <1>1, <2>1, <2>3 DEF Same, Over
<1>2. CASE ~Over
  <2>1. fs = exec.before
    BY <1>2 DEF ClearTree
  <2> QED BY <1>2, <2>1 DEF Same, Over
<1> QED BY <1>1, <1>2

LEMMA StepCreate ==
    ASSUME IInv, NEW req, NEW o, StepBy(req, o), req.proc = "CREATE"
    PROVE  /\ CallOK(fs, o) /\ KeepsObjects(req)
           /\ Progress' /\ Achieved' /\ CutIsClean'
<1> DEFINE obj    == exec.obj
           before == exec.before
           mode   == create_mode(req.mode)
           rm == [call |-> "remove", path |-> obj]
           mk == [call |-> "create", path |-> obj]
           ch == [call |-> "set", path |-> obj, attr |-> "mode", v |-> mode]
           st == errTranslator[o.err]
<1>1. NamesHold /\ Progress /\ CutIsClean
  BY DEF IInv
<1>2. /\ req = Req /\ RequestType(req) /\ Busy /\ Busy' /\ Req' = req
      /\ TreeType(fs) /\ TreeType(before) /\ fs' = o.fs
      /\ o \in Outcomes(Head(exec.todo)) /\ exec.todo # <<>>
      /\ exec'.obj = obj /\ exec'.before = before /\ exec'.checked = exec.checked
      /\ exec'.status = IF exec.status = "OK" THEN st ELSE exec.status
      /\ exec'.todo = IF st = "OK" THEN Tail(exec.todo) ELSE <<>>
  BY DEF StepBy
<1>3. obj \in Path /\ mode \in Modes
  <2>1. obj \in Path
    BY <1>1, <1>2 DEF NamesHold
  <2>2. req.mode \in SetIt(Modes)
    BY <1>2 DEF RequestType
  <2> QED BY <2>1, <2>2, create_modeOK
<1>4. CreateProgress
  BY <1>1, <1>2 DEF Progress
<1>5. /\ exec.status = "OK"
      /\ \/ /\ exec.todo = <<rm, mk, ch>> /\ fs = before
            /\ Over /\ ~IsDir(before, obj)
         \/ exec.todo = <<mk, ch>> /\ ClearTree(fs)
         \/ /\ exec.todo = <<ch>>
            /\ \E f \in {before, Without(before, obj)} :
                  ClearTree(f) /\ Done(fs) \in CreateFile(f, obj)
  BY <1>2, <1>4 DEF CreateProgress
<1>6. exec'.status = st
  BY <1>2, <1>5
<1>8. (Over' <=> Over) /\ \A f : ClearTree(f)' <=> ClearTree(f)
  BY <1>2 DEF Over, ClearTree
<1>9. Settles(req) => req.how # "UNCHECKED"
  BY DEF Settles, MakesNew, Removes
<1>10. ASSUME exec.checked = "OK", Settled(req), Settles(req)
       PROVE  Exists(fs, obj)
  <2>1. obj = ObjOf(req)
    BY <1>1, <1>2, <1>10 DEF NamesHold
  <2> QED BY <1>9, <1>10, <2>1 DEF Settled, Settles, Removes, MakesNew
<1>11. Settles(req) <=> MakesNew(req)
  BY DEF Settles, MakesNew, Removes
<1>12. SameObjects(fs, fs)
  BY DEF SameObjects
(* The way is cleared.                                                     *)
<1>13. CASE exec.todo = <<rm, mk, ch>> /\ fs = before /\ Over /\ ~IsDir(before, obj)
  <2>1. Head(exec.todo) = rm /\ Tail(exec.todo) = <<mk, ch>>
    BY <1>13
  <2>2. o \in Remove(fs, obj)
    BY <1>2, <2>1 DEF Outcomes
  <2>3. /\ CallOK(fs, o)
        /\ o.err = "nil" => /\ DOMAIN o.fs.node = DOMAIN fs.node \ {obj}
                            /\ \A q \in DOMAIN fs.node \ {obj} : o.fs.node[q] = fs.node[q]
    BY <1>2, <1>3, <2>2, RemovedExactly
  <2>4. st = "OK" <=> o.err = "nil"
    BY <2>3, StatusNames DEF CallOK
  <2>5. KeepsObjects(req)
    <3>1. req.how = "UNCHECKED"
      BY <1>2, <1>13 DEF Over
    <3> QED BY <1>2, <1>9, <3>1 DEF KeepsObjects
  <2>6. CutIsClean'
    <3>1. \A p \in (DOMAIN fs'.node \cup DOMAIN before.node) \ {obj} : Same(p)'
      BY <1>2, <1>13, <2>3 DEF Same, CallOK
    <3>2. CASE o.err = "nil"
      <4>1. obj \notin DOMAIN fs'.node
        BY <1>2, <2>3, <3>2
      <4> QED BY <1>2, <3>1, <4>1 DEF CutIsClean
    <3>3. CASE o.err # "nil"
      <4>1. fs' = before
        BY <1>2, <1>13, <2>3, <3>3 DEF CallOK
      <4>2. Same(obj)' \/ obj \notin DOMAIN fs'.node
        BY <1>2, <4>1 DEF Same
      <4> QED BY <1>2, <3>1, <4>2 DEF CutIsClean
    <3> QED BY <3>2, <3>3
  <2>7. CASE st = "OK"
    <3>1. exec'.todo = <<mk, ch>> /\ exec'.todo # <<>>
      BY <1>2, <2>1, <2>7
    <3>2. ClearTree(fs')
      <4>1. Done(fs') = o
        BY <1>2, <2>3, <2>4, <2>7 DEF Done, CallOK
      <4> QED BY <1>13, <2>2, <4>1 DEF ClearTree
    <3>3. CreateProgress'
      BY <1>2, <1>6, <1>8, <2>7, <3>1, <3>2 DEF CreateProgress
    <3> QED BY <1>2, <2>3, <2>5, <2>6, <3>1, <3>3 DEF Progress, Achieved, Executed
  <2>8. CASE st # "OK"
    <3>1. exec'.todo = <<>> /\ req.how = "UNCHECKED" /\ Exists(before, obj)
      BY <1>2, <1>13, <2>8 DEF Over
    <3>2. Progress'
      BY <1>2, <3>1 DEF Progress, CreateProgress
    <3>3. Achieved'
      BY <1>2, <3>1 DEF Achieved, MakesNew, Removes
    <3> QED BY <2>3, <2>5, <2>6, <3>2, <3>3
  <2> QED BY <2>7, <2>8
(* The file is made.                                                       *)
<1>14. CASE exec.todo = <<mk, ch>> /\ ClearTree(fs)
  <2>1. Head(exec.todo) = mk /\ Tail(exec.todo) = <<ch>>
    BY <1>14
  <2>2. o \in CreateFile(fs, obj)
    BY <1>2, <2>1 DEF Outcomes
  <2>3. /\ CallOK(fs, o)
        /\ o.err = "ErrExist" => Exists(fs, obj)
        /\ o.err = "nil" =>
              /\ ~Exists(fs, obj)
              /\ DOMAIN o.fs.node = DOMAIN fs.node \cup {obj}
              /\ \A q \in DOMAIN fs.node : o.fs.node[q] = fs.node[q]
              /\ o.fs.node[obj].id = fs.born + 1
              /\ o.fs.node[obj].kind = "REG" /\ o.fs.node[obj].size = 0
    BY <1>2, <1>3, <2>2, MadeExactly DEF CreateFile
  <2>4. (st = "OK" <=> o.err = "nil") /\ (st = "EXIST" <=> o.err = "ErrExist")
    BY <2>3, StatusNames DEF CallOK
  <2>5. /\ fs = before \/ fs = Without(before, obj)
        /\ fs.born = before.born
        /\ \A p \in (DOMAIN fs.node \cup DOMAIN before.node) \ {obj} : Same(p)
        /\ Over => /\ Done(fs) \in Remove(before, obj)
                   /\ Exists(before, obj) /\ ~IsDir(before, obj)
                   /\ req.how = "UNCHECKED"
        /\ ~Over => /\ fs = before
                    /\ req.how = "UNCHECKED" => ~Exists(before, obj)
    BY <1>2, <1>3, <1>14, ClearIsClean
  <2>6. KeepsObjects(req)
    <3>1. exec.checked = "OK" /\ Settled(req) /\ Settles(req) => o.fs = fs
      BY <1>10, <2>3 DEF CallOK
    <3> QED BY <1>2, <1>11, <1>12, <3>1 DEF KeepsObjects
  <2>7. CutIsClean'
    <3>1. CASE o.err # "nil"
      <4>1. fs' = fs
        BY <1>2, <2>3, <3>1 DEF CallOK
      <4>2. \A p : Same(p)' <=> Same(p)
        BY <1>2, <4>1 DEF Same
      <4> HIDE DEF obj, before
      <4> QED BY <1>1, <1>2, <4>1, <4>2 DEF CutIsClean, obj, before
    <3>2. CASE o.err = "nil"
      <4>1. \A p \in (DOMAIN fs'.node \cup DOMAIN exec'.before.node) \ {exec'.obj} : Same(p)'
        <5> SUFFICES ASSUME NEW p \in (DOMAIN fs'.node \cup DOMAIN before.node) \ {obj} PROVE Same(p)'
          BY <1>2
        <5>1. Same(p)
          BY <1>2, <2>3, <2>5, <3>2
        <5> QED BY <1>2, <2>3, <3>2, <5>1 DEF Same
      <4>2. fs'.node[obj].id > before.born /\ fs'.node[obj].kind = "REG" /\ fs'.node[obj].size = 0
        BY <1>2, <2>3, <2>5, <3>2 DEF TreeType
      <4> QED BY <1>2, <4>1, <4>2 DEF CutIsClean
    <3> QED BY <3>1, <3>2
  <2>8. CASE st = "OK"
    <3>1. exec'.todo = <<ch>> /\ exec'.todo # <<>>
      BY <1>2, <2>1, <2>8
    <3>2. Done(fs') = o
      BY <1>2, <2>3, <2>4, <2>8 DEF Done, CallOK
    <3>3. \E f \in {before, Without(before, obj)} :
             ClearTree(f) /\ Done(fs') \in CreateFile(f, obj)
      BY <1>14, <2>2, <2>5, <3>2
    <3>4. CreateProgress'
      BY <1>2, <1>6, <1>8, <2>8, <3>1, <3>3 DEF CreateProgress
    <3> QED BY <1>2, <2>3, <2>6, <2>7, <3>1, <3>4 DEF Progress, Achieved, Executed
  <2>9. CASE st # "OK"
    <3>1. exec'.todo = <<>> /\ fs' = fs
      BY <1>2, <2>3, <2>4, <2>9 DEF CallOK
    <3>2. Progress'
      BY <1>2, <3>1 DEF Progress, CreateProgress
    <3>3. Achieved'
      BY <1>2, <1>6, <2>3, <2>4, <2>9, <3>1 DEF Achieved, MakesNew, Removes
    <3> QED BY <2>3, <2>6, <2>7, <3>2, <3>3
  <2> QED BY <2>8, <2>9
(* The new file gets its mode.                                             *)
<1>15. CASE /\ exec.todo = <<ch>>
            /\ \E f \in {before, Without(before, obj)} :
                  ClearTree(f) /\ Done(fs) \in CreateFile(f, obj)
  <2>1. Head(exec.todo) = ch /\ Tail(exec.todo) = <<>>
    BY <1>15
  <2>2. o \in SetAttribute(fs, obj, "mode", mode)
    BY <1>2, <2>1 DEF Outcomes
  <2>3. CallOK(fs, o) /\ AltersAt(fs, o.fs, obj)
    BY <1>2, <1>3, <2>2, SetAttributeOK DEF ValueOf
  <2>4. PICK f \in {before, Without(before, obj)} :
           ClearTree(f) /\ Done(fs) \in CreateFile(f, obj)
    BY <1>15
  <2>5. Exists(fs, obj) /\ fs.node[obj].kind = "REG" /\ fs.node[obj].size = 0
        /\ fs.node[obj].id > before.born
        /\ \A p \in (DOMAIN fs.node \cup DOMAIN before.node) \ {obj} : Same(p)
    <3>1. /\ TreeType(f) /\ f.born = before.born
          /\ DOMAIN f.node \cup {obj} = DOMAIN before.node \cup {obj}
      <4>1. CASE f = before
        BY <1>2, <4>1
      <4>2. CASE f # before
        <5>1. f = Without(before, obj) /\ Over
          BY <2>4, <4>2 DEF ClearTree
        <5>2. Done(f) \in Remove(before, obj) /\ Done(f).err = "nil" /\ Done(f).fs = f
          BY <2>4, <5>1 DEF ClearTree, Done
        <5>3. /\ CallOK(before, Done(f))
              /\ DOMAIN f.node = DOMAIN before.node \ {obj}
              /\ f.born = before.born
          BY <1>2, <1>3, <5>2, RemovedExactly
        <5> QED BY <5>2, <5>3 DEF CallOK
      <4> QED BY <4>1, <4>2
    <3>2. Done(fs).err = "nil" /\ Done(fs).fs = fs
      BY DEF Done
    <3>3. /\ DOMAIN fs.node = DOMAIN f.node \cup {obj}
          /\ fs.node[obj].id = f.born + 1
          /\ fs.node[obj].kind = "REG" /\ fs.node[obj].size = 0
      BY <1>3, <2>4, <3>1, <3>2, MadeExactly DEF CreateFile
    <3>4. before.born \in Nat
      BY <1>2 DEF TreeType
    <3>5. \A p \in (DOMAIN fs.node \cup DOMAIN before.node) \ {obj} : Same(p)
      BY <1>1, <1>2 DEF CutIsClean
    <3> QED BY <3>1, <3>3, <3>4, <3>5 DEF Exists
  <2>6. KeepsObjects(req)
    <3>1. SameObjects(fs', fs)
      BY <1>2, <2>3 DEF SameObjects, AltersAt
    <3> QED BY <3>1 DEF KeepsObjects
  <2>7. fs'.node[obj].size = 0 /\ fs'.node[obj].kind = "REG"
    <3>1. CASE o.err = "nil"
      BY <1>2, <1>3, <2>2, <2>5, <3>1, SetExactly DEF ValueOf
    <3>2. CASE o.err # "nil"
      BY <1>2, <2>3, <2>5, <3>2 DEF CallOK
    <3> QED BY <3>1, <3>2
  <2>8. CutIsClean'
    <3>1. \A p \in (DOMAIN fs'.node \cup DOMAIN exec'.before.node) \ {exec'.obj} : Same(p)'
      BY <1>2, <2>3, <2>5 DEF Same, AltersAt
    <3>2. fs'.node[obj].id > before.born
      BY <1>2, <2>3, <2>5 DEF AltersAt, Exists
    <3> QED BY <1>2, <2>7, <3>1, <3>2 DEF CutIsClean
  <2>9. exec'.todo = <<>>
    BY <1>2, <2>1
  <2>10. Progress'
    BY <1>2, <2>9 DEF Progress, CreateProgress
  <2>11. Achieved'
    <3>1. Exists(fs', obj)
      BY <1>2, <2>3, <2>5 DEF AltersAt, Exists
    <3> QED BY <1>2, <3>1 DEF Achieved, Removes
  <2> QED BY <2>3, <2>6, <2>8, <2>10, <2>11
<1> QED BY <1>5, <1>13, <1>14, <1>15

(* What SETATTR does next, and what it has done.                           *)
LEMMA SetattrNext ==
    ASSUME NEW req, req = Req, RequestType(req), req.proc = "SETATTR",
           SetattrProgress, exec.todo # <<>>
    PROVE  LET c(attr, v) == [call |-> "set", path |-> exec.obj, attr |-> attr, v |-> v]
               mode  == SetCall("mode", exec.obj, req.mode)
               mtime == SetCall("mtime", exec.obj, req.mtime)
           IN \/ /\ req.size # <<>> /\ Head(exec.todo) = c("size", req.size[1])
                 /\ Tail(exec.todo) = mode \o mtime
              \/ /\ req.mode # <<>> /\ Head(exec.todo) = c("mode", req.mode[1])
                 /\ Tail(exec.todo) = mtime /\ Given("size", req.size)
              \/ /\ req.mtime # <<>> /\ Head(exec.todo) = c("mtime", req.mtime[1])
                 /\ Tail(exec.todo) = <<>> /\ Given("size", req.size) /\ Given("mode", req.mode)
<1> DEFINE c(attr, v) == [call |-> "set", path |-> exec.obj, attr |-> attr, v |-> v]
           cs == c("size", req.size[1])
           cm == c("mode", req.mode[1])
           ct == c("mtime", req.mtime[1])
           S  == {cs, cm, ct}
           size  == SetCall("size", exec.obj, req.size)
           mode  == SetCall("mode", exec.obj, req.mode)
           mtime == SetCall("mtime", exec.obj, req.mtime)
<1>1. /\ size = IF req.size = <<>> THEN <<>> ELSE <<cs>>
      /\ mode = IF req.mode = <<>> THEN <<>> ELSE <<cm>>
      /\ mtime = IF req.mtime = <<>> THEN <<>> ELSE <<ct>>
  BY DEF SetCall
<1>2. /\ req.size = <<>> => Given("size", req.size)
      /\ req.mode = <<>> => Given("mode", req.mode)
  BY DEF Given
<1>3. \/ exec.todo = size \o mode \o mtime
      \/ exec.todo = mode \o mtime /\ Given("size", req.size)
      \/ exec.todo = mtime /\ Given("size", req.size) /\ Given("mode", req.mode)
  BY DEF SetattrProgress
<1> HIDE DEF cs, cm, ct
<1>4. /\ size \in Seq(S) /\ mode \in Seq(S) /\ mtime \in Seq(S) /\ mode \o mtime \in Seq(S)
      /\ cs \in S /\ cm \in S /\ ct \in S /\ <<cs>> \in Seq(S)
  <2>1. <<>> \in Seq(S) /\ <<cs>> \in Seq(S) /\ <<cm>> \in Seq(S) /\ <<ct>> \in Seq(S)
    OBVIOUS
  <2>2. size \in Seq(S) /\ mode \in Seq(S) /\ mtime \in Seq(S)
    <3> HIDE DEF size, mode, mtime, S
    <3> QED BY <1>1, <2>1
  <2> HIDE DEF size, mode, mtime, S
  <2>3. mode \o mtime \in Seq(S)
    BY <2>2, ConcatProperties
  <2> QED BY <2>1, <2>2, <2>3 DEF S
<1> HIDE DEF size, mode, mtime, S
<1>5. size \o mode \o mtime = size \o (mode \o mtime)
  BY <1>4, ConcatAssociative
<1>6. ASSUME exec.todo = mtime, Given("size", req.size), Given("mode", req.mode)
      PROVE  /\ req.mtime # <<>> /\ Head(exec.todo) = ct
             /\ Tail(exec.todo) = <<>> /\ Given("size", req.size) /\ Given("mode", req.mode)
  <2>1. exec.todo = <<ct>> /\ req.mtime # <<>>
    BY <1>1, <1>6
  <2> QED BY <1>6, <2>1
<1>7. ASSUME exec.todo = mode \o mtime, Given("size", req.size), req.mode # <<>>
      PROVE  /\ req.mode # <<>> /\ Head(exec.todo) = cm
             /\ Tail(exec.todo) = mtime /\ Given("size", req.size)
  <2>1. exec.todo = <<cm>> \o mtime
    BY <1>1, <1>7
  <2> QED BY <1>4, <1>7, <2>1, FirstCall
<1>8. ASSUME exec.todo = mode \o mtime, Given("size", req.size), req.mode = <<>>
      PROVE  exec.todo = mtime /\ Given("mode", req.mode)
  <2>1. exec.todo = <<>> \o mtime
    BY <1>1, <1>8
  <2> QED BY <1>2, <1>4, <1>8, <2>1, ConcatEmptySeq
<1>9. ASSUME exec.todo = size \o (mode \o mtime), req.size # <<>>
      PROVE  /\ req.size # <<>> /\ Head(exec.todo) = cs
             /\ Tail(exec.todo) = mode \o mtime
  <2>1. exec.todo = <<cs>> \o (mode \o mtime)
    BY <1>1, <1>9
  <2> QED BY <1>4, <1>9, <2>1, FirstCall
<1>10. ASSUME exec.todo = size \o (mode \o mtime), req.size = <<>>
       PROVE  exec.todo = mode \o mtime /\ Given("size", req.size)
  <2>1. exec.todo = <<>> \o (mode \o mtime)
    BY <1>1, <1>10
  <2> QED BY <1>2, <1>4, <1>10, <2>1, ConcatEmptySeq
<1>11. \/ /\ req.size # <<>> /\ Head(exec.todo) = cs
          /\ Tail(exec.todo) = mode \o mtime
       \/ /\ req.mode # <<>> /\ Head(exec.todo) = cm
          /\ Tail(exec.todo) = mtime /\ Given("size", req.size)
       \/ /\ req.mtime # <<>> /\ Head(exec.todo) = ct
          /\ Tail(exec.todo) = <<>> /\ Given("size", req.size) /\ Given("mode", req.mode)
  BY <1>3, <1>5, <1>6, <1>7, <1>8, <1>9, <1>10
<1> QED BY <1>11 DEF cs, cm, ct, mode, mtime

LEMMA StepSetattr ==
    ASSUME IInv, NEW req, NEW o, StepBy(req, o), req.proc = "SETATTR"
    PROVE  /\ CallOK(fs, o) /\ KeepsObjects(req)
           /\ Progress' /\ Achieved' /\ CutIsClean'
<1> DEFINE obj   == exec.obj
           st    == errTranslator[o.err]
           c(attr, v) == [call |-> "set", path |-> obj, attr |-> attr, v |-> v]
           mode  == SetCall("mode", obj, req.mode)
           mtime == SetCall("mtime", obj, req.mtime)
<1>1. NamesHold /\ Progress /\ CutIsClean
  BY DEF IInv
<1>2. /\ req = Req /\ RequestType(req) /\ Busy /\ Busy' /\ Req' = req
      /\ TreeType(fs) /\ fs' = o.fs
      /\ o \in Outcomes(Head(exec.todo)) /\ exec.todo # <<>>
      /\ exec'.obj = obj /\ exec'.before = exec.before
      /\ exec'.status = IF exec.status = "OK" THEN st ELSE exec.status
      /\ exec'.todo = Tail(exec.todo)
  BY DEF StepBy
<1>3. /\ obj \in Path
      /\ req.size # <<>> => ValueOf("size", req.size[1])
      /\ req.mode # <<>> => ValueOf("mode", req.mode[1])
      /\ req.mtime # <<>> => ValueOf("mtime", req.mtime[1])
  <2>1. obj \in Path
    BY <1>1, <1>2 DEF NamesHold
  <2>2. /\ req.size # <<>> => req.size[1] \in Nat
        /\ req.mode \in SetIt(Modes) /\ req.mtime \in SetIt(Times)
    BY <1>2 DEF RequestType
  <2>3. /\ req.mode # <<>> => req.mode[1] \in Modes
        /\ req.mtime # <<>> => req.mtime[1] \in Times
    BY <2>2 DEF SetIt
  <2> QED BY <2>1, <2>2, <2>3 DEF ValueOf
<1>4. SetattrProgress
  BY <1>1, <1>2 DEF Progress
<1>5. \/ /\ req.size # <<>> /\ Head(exec.todo) = c("size", req.size[1])
         /\ Tail(exec.todo) = mode \o mtime
      \/ /\ req.mode # <<>> /\ Head(exec.todo) = c("mode", req.mode[1])
         /\ Tail(exec.todo) = mtime /\ Given("size", req.size)
      \/ /\ req.mtime # <<>> /\ Head(exec.todo) = c("mtime", req.mtime[1])
         /\ Tail(exec.todo) = <<>> /\ Given("size", req.size) /\ Given("mode", req.mode)
  BY <1>2, <1>4, SetattrNext
<1> HIDE DEF obj, mode, mtime, st
(* What any of the three calls leaves alone.                               *)
<1>6. ASSUME NEW attr, NEW v, ValueOf(attr, v), Head(exec.todo) = c(attr, v)
      PROVE  /\ CallOK(fs, o) /\ AltersAt(fs, o.fs, obj)
             /\ exec'.status = "OK" =>
                   /\ exec.status = "OK" /\ Exists(fs', obj)
                   /\ fs'.node[obj][attr] = v
                   /\ attr # "size" => fs'.node[obj].size = fs.node[obj].size
                   /\ attr # "mode" => fs'.node[obj].mode = fs.node[obj].mode
  <2>1. o \in SetAttribute(fs, obj, attr, v)
    BY <1>2, <1>6 DEF Outcomes
  <2>2. CallOK(fs, o) /\ AltersAt(fs, o.fs, obj)
    BY <1>2, <1>3, <1>6, <2>1, SetAttributeOK
  <2>3. ASSUME exec'.status = "OK" PROVE exec.status = "OK" /\ o.err = "nil"
    <3>1. exec.status = "OK" /\ st = "OK"
      BY <1>2, <2>3
    <3> QED BY <2>2, <3>1, StatusNames DEF CallOK, st
  <2> QED BY <1>2, <1>3, <1>6, <2>1, <2>2, <2>3, SetExactly
<1>7. CallOK(fs, o) /\ AltersAt(fs, o.fs, obj)
  BY <1>3, <1>5, <1>6
<1>8. KeepsObjects(req)
  <2>1. SameObjects(fs', fs)
    BY <1>2, <1>7 DEF SameObjects, AltersAt
  <2> QED BY <2>1 DEF KeepsObjects
<1>9. CutIsClean'
  <2>1. \A p \in (DOMAIN fs.node \cup DOMAIN exec.before.node) \ {obj} : Same(p)
    BY <1>1, <1>2 DEF CutIsClean, obj
  <2>2. \A p \in (DOMAIN fs'.node \cup DOMAIN exec.before.node) \ {obj} : Same(p)'
    BY <1>2, <1>7, <2>1 DEF Same, AltersAt
  <2> QED BY <1>2, <2>2 DEF CutIsClean
<1>10. SetattrProgress'
  <2>1. CASE /\ req.size # <<>> /\ Head(exec.todo) = c("size", req.size[1])
             /\ Tail(exec.todo) = mode \o mtime
    <3>1. Given("size", req.size)'
      BY <1>2, <1>3, <1>6, <2>1 DEF Given
    <3>2. exec'.todo = mode \o mtime
      BY <1>2, <2>1
    <3> QED BY <1>2, <3>1, <3>2 DEF SetattrProgress, mode, mtime
  <2>2. CASE /\ req.mode # <<>> /\ Head(exec.todo) = c("mode", req.mode[1])
             /\ Tail(exec.todo) = mtime /\ Given("size", req.size)
    <3>1. Given("mode", req.mode)' /\ Given("size", req.size)'
      BY <1>2, <1>3, <1>6, <2>2 DEF Given, obj
    <3>2. exec'.todo = mtime
      BY <1>2, <2>2
    <3> QED BY <1>2, <3>1, <3>2 DEF SetattrProgress, mtime
  <2>3. CASE /\ req.mtime # <<>> /\ Head(exec.todo) = c("mtime", req.mtime[1])
             /\ Tail(exec.todo) = <<>> /\ Given("size", req.size) /\ Given("mode", req.mode)
    <3>1. Given("mtime", req.mtime)' /\ Given("mode", req.mode)' /\ Given("size", req.size)'
      BY <1>2, <1>3, <1>6, <2>3 DEF Given, obj
    <3>2. exec'.todo = <<>>
      BY <1>2, <2>3
    <3> QED BY <1>2, <3>1, <3>2 DEF SetattrProgress
  <2> QED BY <1>5, <2>1, <2>2, <2>3
<1>11. Progress' /\ Achieved'
  BY <1>2, <1>10 DEF Progress, Achieved, MakesNew, Removes
<1> QED BY <1>7, <1>8, <1>9, <1>11

LEMMA SameObjectsTwice ==
    ASSUME NEW f, NEW f2, NEW f3, SameObjects(f, f2), SameObjects(f2, f3)
    PROVE  SameObjects(f, f3)
BY DEF SameObjects

LEMMA StepKeeps == ASSUME IInv, Step PROVE IInv'
<1>1. TypeOK /\ Bookkeeping /\ NamesHold /\ Remembered /\ Believable
  BY DEF IInv
<1>2. /\ \E req \in Request, o \in Outcomes(Head(exec.todo)) : StepBy(req, o)
      /\ exec' = [xid |-> exec'.xid, obj |-> exec'.obj, to |-> exec'.to,
                  before |-> exec'.before, checked |-> exec'.checked,
                  status |-> exec'.status, todo |-> exec'.todo]
      /\ up /\ exec.xid \in 1 .. Len(sent)
      /\ UNCHANGED <<fddb, up, sent, waiting, answer, copies, replies, losses, ends, last, undisturbed>>
  BY StepShape
<1>3. PICK req, o : StepBy(req, o)
  BY <1>2
<1>4. /\ RequestType(req) /\ req = Req /\ Busy /\ Busy' /\ Req' = req
      /\ fs' = o.fs /\ TreeType(exec.before)
      /\ exec'.xid = exec.xid /\ exec'.obj = exec.obj /\ exec'.to = exec.to
      /\ exec'.before = exec.before /\ exec'.checked = exec.checked
      /\ exec'.status = IF exec.status = "OK" THEN errTranslator[o.err] ELSE exec.status
      /\ exec.status \in Status
  BY <1>3 DEF StepBy
<1>5. /\ CallOK(fs, o) /\ KeepsObjects(req)
      /\ Progress' /\ Achieved' /\ CutIsClean'
  <2>1. req.proc \in {"SETATTR", "CREATE", "MKDIR", "REMOVE", "RMDIR", "RENAME"}
    BY <1>4 DEF RequestType
  <2> QED BY <1>3, <2>1, StepOneCall, StepCreate, StepSetattr
<1>6. TypeOK'
  <2>1. TreeType(fs') /\ exec'.status \in Status
    BY <1>4, <1>5, StatusNames DEF CallOK
  <2> QED BY <1>1, <1>2, <1>4, <2>1 DEF TypeOK
<1>7. Bookkeeping'
  BY <1>1, <1>2, <1>4 DEF Bookkeeping
<1>8. Executing'
  BY <1>2, <1>4 DEF Executing
<1>9. HandlesKept
  BY <1>2 DEF HandlesKept
<1>10. NamesHold'
  <2>1. /\ (Resolves(req)' <=> Resolves(req)) /\ CheckedNow(req)' = CheckedNow(req)
        /\ ObjOf(req)' = ObjOf(req) /\ ToOf(req)' = ToOf(req)
    BY <1>2 DEF Resolves, Handles, CheckedNow, Checked, ObjOf, ToOf, Named
  <2> QED BY <1>1, <1>2, <1>4, <2>1 DEF NamesHold
(* Settled requests stay settled: nothing moves.                           *)
<1>11. ASSUME Settled(req), Settles(req), MakesNew(req) => exec.checked = "OK"
       PROVE  Settled(req)'
  <2>1. SameObjects(fs', fs)
    BY <1>5, <1>11 DEF KeepsObjects
  <2>2. \A p : Exists(fs', p) <=> Exists(fs, p)
    BY <2>1 DEF SameObjects, Exists
  <2> QED BY <1>9, <1>11, <2>2, SettledKept
<1>12. Remembered'
  <2>1. CASE last.xid = 0
    BY <1>2, <2>1 DEF Remembered
  <2>2. CASE last.xid # 0
    <3>1. /\ last.xid = exec.xid /\ sent[last.xid] = req /\ sent'[last'.xid] = req
          /\ MakesNew(req) => exec.checked = "OK"
          /\ Settles(req) => Settled(req)
          /\ Settles(req) \/ req.proc = "SETATTR" => SameObjects(fs, last.fs)
      <4>1. last.xid = exec.xid
        BY <1>1, <1>4, <2>2 DEF Remembered
      <4>2. sent[last.xid] = req /\ sent'[last'.xid] = req
        BY <1>2, <1>4, <4>1 DEF Req
      <4> QED BY <1>1, <1>4, <2>2, <4>1, <4>2 DEF Remembered
    <3>2. Settles(req) => Settled(req)'
      BY <1>11, <3>1
    <3>3. Settles(req) \/ req.proc = "SETATTR" => SameObjects(fs', last'.fs)
      <4>1. Settles(req) \/ req.proc = "SETATTR" => SameObjects(fs', fs)
        BY <1>5, <3>1 DEF KeepsObjects
      <4> QED BY <1>2, <3>1, <4>1, SameObjectsTwice
    <3> QED BY <1>2, <1>4, <3>1, <3>2, <3>3 DEF Remembered
  <2> QED BY <2>1, <2>2
<1>13. Believable'
  <2> SUFFICES ASSUME undisturbed', ends' = 0
               PROVE  /\ Resolves(Current)'
                      /\ \A r \in Heard' : Claims(Current, r)' => Settled(Current)'
    BY DEF Believable
  <2>1. undisturbed /\ ends = 0 /\ exec.xid = Len(sent) /\ sent # <<>>
    <3>1. undisturbed /\ ends = 0
      BY <1>2
    <3>2. exec.xid = Len(sent)
      BY <1>1, <1>4, <3>1 DEF Bookkeeping
    <3> QED BY <1>2, <3>1, <3>2
  <2>2. Current' = req /\ Current = req
    BY <1>2, <1>4, <2>1 DEF Current, Req
  <2>3. Resolves(req) /\ \A r \in Heard : Claims(req, r) => Settled(req)
    BY <1>1, <2>1, <2>2 DEF Believable
  <2>4. Resolves(req)' /\ CheckedNow(req)' = CheckedNow(req)
    BY <1>9, <2>3, NamesKept
  <2>5. Heard' = Heard
    BY <1>2 DEF Heard
  <2>6. \A r : Claims(req, r)' <=> Claims(req, r)
    BY <2>4 DEF Claims, MakesNew, Removes
  <2>7. \A r \in Heard : Claims(req, r) => Settled(req)'
    <3> SUFFICES ASSUME NEW r \in Heard, Claims(req, r) PROVE Settled(req)'
      OBVIOUS
    <3>1. Settled(req)
      BY <2>3
    <3>2. Settles(req)
      BY DEF Claims, Settles
    <3>3. MakesNew(req) => exec.checked = "OK"
      <4>1. exec.checked = CheckedNow(req)
        BY <1>1, <1>4, <2>1 DEF NamesHold
      <4> QED BY <3>1, <4>1 DEF Settled
    <3> QED BY <1>11, <3>1, <3>2, <3>3
  <2> HIDE DEF Current
  <2> QED BY <2>2, <2>4, <2>5, <2>6, <2>7
<1> QED BY <1>5, <1>6, <1>7, <1>8, <1>10, <1>12, <1>13 DEF IInv

(* When nothing is left to do, everything was done.                        *)
LEMMA NothingLeft ==
    ASSUME SetattrProgress, exec.todo = <<>>
    PROVE  Given("size", Req.size) /\ Given("mode", Req.mode) /\ Given("mtime", Req.mtime)
<1> DEFINE c(attr, opt) == [call |-> "set", path |-> exec.obj, attr |-> attr, v |-> opt[1]]
           S == {c("size", Req.size), c("mode", Req.mode), c("mtime", Req.mtime)}
           size  == SetCall("size", exec.obj, Req.size)
           mode  == SetCall("mode", exec.obj, Req.mode)
           mtime == SetCall("mtime", exec.obj, Req.mtime)
<1>1. /\ size \in Seq(S) /\ (size = <<>> => Req.size = <<>>)
      /\ mode \in Seq(S) /\ (mode = <<>> => Req.mode = <<>>)
      /\ mtime \in Seq(S) /\ (mtime = <<>> => Req.mtime = <<>>)
  <2>1. ASSUME NEW attr, NEW opt, NEW T, c(attr, opt) \in T
        PROVE  /\ SetCall(attr, exec.obj, opt) \in Seq(T)
               /\ SetCall(attr, exec.obj, opt) = <<>> => opt = <<>>
    <3>1. <<>> \in Seq(T) /\ <<c(attr, opt)>> \in Seq(T) /\ <<c(attr, opt)>> # <<>>
      BY <2>1
    <3>2. SetCall(attr, exec.obj, opt) = IF opt = <<>> THEN <<>> ELSE <<c(attr, opt)>>
      BY DEF SetCall
    <3> HIDE DEF c
    <3> QED BY <3>1, <3>2
  <2> HIDE DEF c
  <2> QED BY <2>1
<1>2. /\ Req.size = <<>> => Given("size", Req.size)
      /\ Req.mode = <<>> => Given("mode", Req.mode)
      /\ Req.mtime = <<>> => Given("mtime", Req.mtime)
  BY DEF Given
<1>3. \/ size \o mode \o mtime = <<>>
      \/ mode \o mtime = <<>> /\ Given("size", Req.size)
      \/ mtime = <<>> /\ Given("size", Req.size) /\ Given("mode", Req.mode)
      \/ Given("size", Req.size) /\ Given("mode", Req.mode) /\ Given("mtime", Req.mtime)
  BY DEF SetattrProgress
<1> HIDE DEF size, mode, mtime, S
<1>4. mode \o mtime = <<>> => mode = <<>> /\ mtime = <<>>
  BY <1>1, ConcatEqualIffEmpty
<1>5. size \o mode \o mtime = <<>> => size = <<>> /\ mode = <<>> /\ mtime = <<>>
  <2>1. size \o mode \in Seq(S)
    BY <1>1, ConcatProperties
  <2> QED BY <1>1, <2>1, ConcatEqualIffEmpty
<1> QED BY <1>1, <1>2, <1>3, <1>4, <1>5

-----------------------------------------------------------------------------
(* The invariant.                                                          *)
LEMMA IInvInit == Init => IInv
<1> SUFFICES ASSUME Init PROVE IInv
  OBVIOUS
<1>1. /\ fs \in Tree /\ up = TRUE /\ exec = Idle
      /\ sent = <<>> /\ waiting = FALSE /\ answer = "none"
      /\ copies = [x \in Xid |-> 0] /\ replies = {}
      /\ losses = 0 /\ ends = 0 /\ last = None /\ undisturbed = TRUE
  BY DEF Init
<1>2. TreeType(fs)
  BY <1>1, RequestsAssumption
<1>3. TableType(fddb) /\ Consistent(fddb)
  <2> DEFINE mounted == GetFD(EmptyTable, Root)
             page == DOMAIN fs.node
  <2>1. PICK num \in Numberings(mounted, page) : fddb = Enter(mounted, num)
    BY DEF Init
  <2>2. page \in SUBSET Path /\ IsFiniteSet(page)
    BY <1>2 DEF TreeType
  <2>3. Root \in Path
    BY <1>2 DEF TreeType, IsDir, Exists
  <2>4. TableType(mounted) /\ Consistent(mounted)
    BY <2>3, EmptyTableOK, GetFDOK
  <2> HIDE DEF mounted, page
  <2> QED BY <2>1, <2>2, <2>4, EnterOK
<1>4. ~Busy /\ ~Executed /\ last.xid = 0
  BY <1>1 DEF Busy, Executed, Idle, None
<1>5. TypeOK
  <2>1. sent \in Seq(Request) /\ Len(sent) = 0
    BY <1>1
  <2>2. MaxRequests \in Nat /\ MaxCopies \in Nat
    BY RequestsAssumption
  <2>3. copies \in [Xid -> 0 .. MaxCopies] /\ \A x \in Xid : copies[x] = 0
    BY <1>1, <2>2
  <2>4. Len(sent) <= MaxRequests /\ \A x \in Xid : ~(copies[x] > 0)
    BY <2>1, <2>2, <2>3
  <2>5. up \in BOOLEAN /\ waiting \in BOOLEAN /\ undisturbed \in BOOLEAN
        /\ replies \subseteq Status /\ answer \in Status \cup {"none"}
    BY <1>1
  <2> QED BY <1>2, <1>3, <1>4, <2>1, <2>3, <2>4, <2>5 DEF TypeOK
<1>6. Bookkeeping
  BY <1>1, <1>3, <1>4 DEF Bookkeeping
<1>7. Executing /\ NamesHold /\ Progress /\ Achieved /\ CutIsClean
  BY <1>1, <1>4 DEF Executing, NamesHold, Progress, Achieved, CutIsClean
<1>8. Remembered /\ Believable
  BY <1>1, <1>4 DEF Remembered, Believable
<1> QED BY <1>5, <1>6, <1>7, <1>8 DEF IInv

LEMMA IInvNext == IInv /\ [Next]_vars => IInv'
<1> SUFFICES ASSUME IInv, [Next]_vars PROVE IInv'
  OBVIOUS
<1>1. CASE \E req \in Request : Ask(req)
  BY <1>1, AskKeeps
<1>2. CASE AskAgain
  BY <1>2, AskAgainKeeps
<1>3. CASE Answered
  BY <1>3, AnsweredKeeps
<1>4. CASE \E x \in Xid : Begin(x)
  BY <1>4, BeginKeeps
<1>5. CASE Step
  BY <1>5, StepKeeps
<1>6. CASE Finish
  BY <1>6, FinishKeeps
<1>7. CASE Lose
  BY <1>7, LoseKeeps
<1>8. CASE Exit
  BY <1>8, ExitKeeps
<1>9. CASE Start
  BY <1>9, StartKeeps
<1>10. CASE UNCHANGED vars
  BY <1>10, StutterKeeps
<1> QED
  BY <1>1, <1>2, <1>3, <1>4, <1>5, <1>6, <1>7, <1>8, <1>9, <1>10 DEF Next

LEMMA IInvHolds == Spec => []IInv
BY IInvInit, IInvNext, PTL DEF Spec

(* The tree hangs together, the table names each path once, the process    *)
(* executes only what was sent and answers only with NFS statuses, in      *)
(* every reachable state.                                                  *)
THEOREM TypeCorrect == Spec => []TypeOK
<1>1. IInv => TypeOK
  BY DEF IInv
<1> QED BY <1>1, IInvHolds, PTL

(* Wherever the process ends, MKDIR, REMOVE, RMDIR and RENAME have done    *)
(* nothing or all, and CREATE and SETATTR have touched one object at most. *)
THEOREM CutsAreClean == Spec => []CutIsClean
<1>1. IInv => CutIsClean
  BY DEF IInv
<1> QED BY <1>1, IInvHolds, PTL

(* A SETATTR answered OK has set every attribute it was asked to set.      *)
THEOREM SetattrSetsAll == Spec => []SetattrOkSetsAll
<1>1. IInv => SetattrOkSetsAll
  <2> SUFFICES ASSUME IInv, Busy, exec.todo = <<>>, Req.proc = "SETATTR", exec.status = "OK"
               PROVE  \/ Req.size = <<>> /\ Req.mode = <<>> /\ Req.mtime = <<>>
                      \/ /\ Exists(fs, exec.obj)
                         /\ Has("size", Req.size) /\ Has("mode", Req.mode)
                         /\ Has("mtime", Req.mtime)
    BY DEF SetattrOkSetsAll, Executed
  <2>1. SetattrProgress
    BY DEF IInv, Progress
  <2>2. Given("size", Req.size) /\ Given("mode", Req.mode) /\ Given("mtime", Req.mtime)
    BY <2>1, NothingLeft
  <2> QED BY <2>2 DEF Given, Has
<1> QED BY <1>1, IInvHolds, PTL

(* To execute a copy of a request again, before any other, makes, moves    *)
(* and takes away nothing, unless it is an UNCHECKED CREATE.               *)
THEOREM RepeatsKeepObjects == Spec => []RepeatKeepsObjects
<1>1. IInv => RepeatKeepsObjects
  <2> SUFFICES ASSUME IInv, Busy, last.xid = exec.xid,
                      ~(Req.proc = "CREATE" /\ Req.how = "UNCHECKED")
               PROVE  SameObjects(fs, last.fs)
    BY DEF RepeatKeepsObjects, Executed, SameObjects
  <2>1. RequestType(Req)
    BY Execution DEF IInv
  <2>2. Settles(Req) \/ Req.proc = "SETATTR"
    BY <2>1 DEF RequestType, Settles, MakesNew, Removes
  <2> QED BY <2>2 DEF IInv, Remembered, Busy, Req
<1> QED BY <1>1, IInvHolds, PTL

(* The client may believe its answer, whichever copies of its request are  *)
(* executed after the one that was answered.                               *)
THEOREM AnswersAreTrue == Spec => []AnswerIsTrue
<1>1. IInv => AnswerIsTrue
  <2> SUFFICES ASSUME IInv, ~waiting, sent # <<>>, undisturbed, ends = 0,
                      NEW req, req = Current
               PROVE  /\ req.proc \in {"REMOVE", "RMDIR"} /\ answer \in {"OK", "NOENT"} =>
                            ~Exists(fs, ObjOf(req))
                      /\ req.proc = "MKDIR" /\ answer \in {"OK", "EXIST"} => Exists(fs, ObjOf(req))
                      /\ req.proc = "CREATE" /\ Named(fddb, req.h, req.name).status = "OK"
                            /\ req.how # "UNCHECKED" /\ answer \in {"OK", "EXIST"} =>
                            Exists(fs, ObjOf(req))
                      /\ req.proc = "RENAME" /\ answer = "OK" =>
                            /\ Exists(fs, ToOf(req))
                            /\ Exists(fs, ObjOf(req)) => ObjOf(req) = ToOf(req)
    BY DEF AnswerIsTrue, Current, ObjOf, ToOf
  <2>1. Claims(req, answer) => Settled(req)
    <3>1. answer \in Heard
      BY DEF Heard
    <3> QED BY <3>1 DEF IInv, Believable
  <2>2. req.proc = "CREATE" => CheckedNow(req) = Named(fddb, req.h, req.name).status
    BY DEF CheckedNow, Checked
  <2> QED BY <2>1, <2>2 DEF Claims, Settled, MakesNew, Removes
<1> QED BY <1>1, IInvHolds, PTL
=============================================================================
