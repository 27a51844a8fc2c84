------------------------------ MODULE Requests ------------------------------
(***************************************************************************)
(* One client's requests over UDP, call by call.  NfsServer takes a        *)
(* request for one step; here each call of the backend that can change the *)
(* tree is a step, so that the process can end between two of them (Ctrl-C *)
(* exits whatever the C thread is doing, unfs2go.go:53), and the client    *)
(* sends again what was not answered in time.  The UDP transport keeps no  *)
(* replies (daemon.c:490), so every copy that arrives is executed.         *)
(*                                                                         *)
(* Stats and the numbers they assign are made with the step they precede   *)
(* or follow: the table does not survive the process, so no cut between    *)
(* them can be seen.                                                       *)
(***************************************************************************)
EXTENDS GoExports

CONSTANTS
    Request,      \* what the client asks for
    Tree,         \* what the exported tree may hold
    MaxRequests,  \* bound: requests the client makes, one after the other
    MaxCopies,    \* bound: copies of a request on their way at once
    MaxObj,       \* bound: objects ever made; to make more fails
    MaxFaults     \* bound: copies and replies lost, and times the process ends

(* What a client can ask: any handle, any name, any attributes.            *)
RequestType(req) ==
    \/ /\ req.proc = "SETATTR"
       /\ req.size = <<>> \/ (req.size = <<req.size[1]>> /\ req.size[1] \in Nat)
       /\ req.mode \in SetIt(Modes) /\ req.mtime \in SetIt(Times)
    \/ /\ req.proc \in {"CREATE", "MKDIR", "REMOVE", "RMDIR", "RENAME"}
       /\ req.name \in Name \cup {".", "..", BadName}
       /\ req.proc = "CREATE" => req.mode \in SetIt(Modes)
       /\ req.proc = "RENAME" => req.name2 \in Name \cup {".", "..", BadName}

ASSUME RequestsAssumption ==
    /\ {MaxRequests, MaxObj, MaxFaults} \subseteq Nat /\ MaxCopies \in Nat \ {0}
    /\ \A f \in Tree : TreeType(f)
    /\ \A req \in Request : RequestType(req)

VARIABLES
    fs, fddb,     \* the backend's tree, the handle table
    up,           \* is the server process running?
    exec,         \* the request being executed, and what is left of it
    sent,         \* the client's requests; a request's xid is its index
    waiting,      \* does the client wait for an answer to the last of them?
    copies,       \* xid -> copies of the request on their way
    replies,      \* answers to the last request on their way
    answer,       \* what the client was last answered
    losses, ends,
    last,         \* history: the last execution that was answered OK, of a
                  \* request whose name cat_name let through
    undisturbed   \* history: the last request was made with handles that the
                  \* process knows, and no other was executed since then

server  == <<fs, fddb, up, exec>>
network == <<copies, replies>>
client  == <<sent, waiting, answer>>
vars    == <<server, client, network, losses, ends, last, undisturbed>>

Xid == 1 .. MaxRequests
Now == [fs |-> fs, fddb |-> fddb]
Idle == [xid |-> 0]
None == [xid |-> 0]
Busy == exec.xid # 0

-----------------------------------------------------------------------------
(* The calls of the backend that change the tree.                          *)
Call(name, path) == <<[call |-> name, path |-> path]>>
SetCall(attr, path, opt) ==
    IF opt = <<>> THEN <<>> ELSE <<[call |-> "set", path |-> path, attr |-> attr, v |-> opt[1]]>>

Outcomes(c) ==
    CASE c.call = "create" -> {o \in CreateFile(fs, c.path) : o.fs.born <= MaxObj}
      [] c.call = "mkdir"  -> {o \in CreateDirectory(fs, c.path) : o.fs.born <= MaxObj}
      [] c.call = "remove" -> Remove(fs, c.path)
      [] c.call = "move"   -> Move(fs, c.path, c.to)
      [] c.call = "set"    -> SetAttribute(fs, c.path, c.attr, c.v)

(* What is left to do, or why nothing will be done.                        *)
Do(calls)   == [status |-> "OK", todo |-> calls]
Refuse(why) == [status |-> why, todo |-> <<>>]

(* SETATTR; as a mutant, the time is set before the size.                  *)
SetattrCalls_TimeFirst(req, path) ==
    Do(SetCall("mtime", path, req.mtime) \o SetCall("size", path, req.size)
          \o SetCall("mode", path, req.mode))

SetattrCalls(req, path) ==
    Do(SetCall("size", path, req.size) \o SetCall("mode", path, req.mode)
          \o SetCall("mtime", path, req.mtime))

(* go_create, go_createover; as a mutant, a GUARDED create takes away the  *)
(* file that is there too.                                                 *)
MakeFile(req, path) ==
    Call("create", path) \o SetCall("mode", path, <<create_mode(req.mode)>>)

CreateCalls_IgnoresHow(req, path) ==
    IF IsDir(fs, path) THEN Refuse("ISDIR")
    ELSE IF Exists(fs, path) THEN Do(Call("remove", path) \o MakeFile(req, path))
    ELSE Do(MakeFile(req, path))

CreateCalls(req, path) ==
    IF req.how # "UNCHECKED" THEN Do(MakeFile(req, path))
    ELSE IF IsDir(fs, path) THEN Refuse("ISDIR")
    ELSE IF Exists(fs, path) THEN Do(Call("remove", path) \o MakeFile(req, path))
    ELSE Do(MakeFile(req, path))

(* go_remove, go_rmdir.                                                    *)
RemoveCalls(req, path) ==
    IF ~Exists(fs, path) THEN Refuse("NOENT")
    ELSE IF req.proc = "REMOVE" /\ IsDir(fs, path) THEN Refuse("ISDIR")
    ELSE IF req.proc = "RMDIR" /\ ~IsDir(fs, path) THEN Refuse("NOTDIR")
    ELSE Do(Call("remove", path))

(* go_rename; as a mutant, what is in the way is taken away first.         *)
MoveCall(old, new) == <<[call |-> "move", path |-> old, to |-> new]>>

RenameCalls_RemovesFirst(old, new) ==
    IF ~Exists(fs, old) THEN Refuse("NOENT")
    ELSE IF Exists(fs, new) /\ old # new THEN Do(Call("remove", new) \o MoveCall(old, new))
    ELSE Do(MoveCall(old, new))

RenameCalls(old, new) ==
    IF ~Exists(fs, old) THEN Refuse("NOENT") ELSE Do(MoveCall(old, new))

-----------------------------------------------------------------------------
(* The status of cat_name, and the paths the request may then act on:      *)
(* CREATE does not look at the status, and goes on with whatever its       *)
(* buffer holds.  Table t is the one RENAME finds its second handle in.    *)
Named(t, h, name) == cat_name(GetPath(t, h), name)

Checked(req, t) ==
    CASE req.proc = "SETATTR" -> "OK"
      [] req.proc = "RENAME" /\ Named(fddb, req.h, req.name).status = "OK" ->
            Named(t, req.h2, req.name2).status
      [] OTHER -> Named(fddb, req.h, req.name).status

Targets(req) ==
    CASE req.proc = "SETATTR" -> {Clean(GetPath(fddb, req.h))}
      [] req.proc = "CREATE" /\ Named(fddb, req.h, req.name).status # "OK" -> PathsUpTo(MaxDepth)
      [] OTHER -> {Named(fddb, req.h, req.name).obj}

Plan(req, checked, path, to) ==
    IF req.proc = "CREATE" THEN CreateCalls(req, path)
    ELSE IF checked # "OK" THEN Refuse(checked)
    ELSE CASE req.proc = "SETATTR" -> SetattrCalls(req, path)
           [] req.proc = "MKDIR"   -> Do(Call("mkdir", path))
           [] req.proc \in {"REMOVE", "RMDIR"} -> RemoveCalls(req, path)
           [] req.proc = "RENAME"  -> RenameCalls(path, to)

(* get_pre of the handle's path, an unresolved one being "/".              *)
StatHandle(t, h) == IF Exists(fs, Clean(GetPath(t, h))) THEN GetFD(t, Clean(GetPath(t, h))) ELSE t

(* A copy arrives and its execution begins; RENAME decodes its second      *)
(* handle after it has looked at the directory of the first.               *)
Begin(x) ==
    LET req     == sent[x]
        looked  == StatHandle(fddb, req.h)
        checked == Checked(req, looked)
    IN /\ up /\ ~Busy
       /\ copies[x] > 0
       /\ copies' = [copies EXCEPT ![x] = @ - 1]
       /\ \E obj \in Targets(req) :
             LET to == IF req.proc = "RENAME" THEN Named(looked, req.h2, req.name2).obj ELSE NULL
                 plan == Plan(req, checked, obj, to)
             IN exec' = [xid |-> x, obj |-> obj, to |-> to, before |-> fs,
                         checked |-> checked, status |-> plan.status, todo |-> plan.todo]
       /\ fddb' = IF req.proc = "RENAME" THEN StatHandle(looked, req.h2) ELSE looked
       /\ undisturbed' = (undisturbed /\ x = Len(sent))
       /\ last' = IF last.xid = x THEN last ELSE None
       /\ UNCHANGED <<fs, up, client, replies, losses, ends>>

(* The next call of the backend.  SETATTR goes on after one that failed,   *)
(* and answers with the first failure; the others end there.               *)
Step ==
    /\ up /\ Busy /\ exec.todo # <<>>
    /\ \E o \in Outcomes(Head(exec.todo)) :
          LET st == errTranslator[o.err]
              goes_on == st = "OK" \/ sent[exec.xid].proc = "SETATTR"
          IN /\ fs' = o.fs
             /\ exec' = [exec EXCEPT
                            !.status = IF @ = "OK" THEN st ELSE @,
                            !.todo = IF goes_on THEN Tail(@) ELSE <<>>]
    /\ UNCHANGED <<fddb, up, client, network, losses, ends, last, undisturbed>>

(* nfs3_program_3: svc_sendreply, and as a mutant one that leaves refusals *)
(* unanswered.  The client drops a reply it does not wait for.             *)
Sent_OnlyOk(x, status) ==
    IF waiting /\ x = Len(sent) /\ status = "OK" THEN {status} ELSE {}
Sent(x, status) == IF waiting /\ x = Len(sent) THEN {status} ELSE {}

(* The handle table follows a rename, the object made is looked at for its *)
(* handle, and the reply is sent.                                          *)
Finish ==
    LET req == sent[exec.xid]
        ok  == exec.status = "OK"
    IN /\ up /\ Busy /\ exec.todo = <<>>
       /\ fddb' = IF ok /\ req.proc = "RENAME"
                  THEN ReplacePath(fddb, exec.obj, exec.to, IsDir(exec.before, exec.obj))
                  ELSE IF ok /\ req.proc \in {"CREATE", "MKDIR"} /\ Exists(fs, exec.obj)
                  THEN GetFD(fddb, exec.obj)
                  ELSE fddb
       /\ replies' = replies \cup Sent(exec.xid, exec.status)
       /\ last' = IF ok /\ exec.checked = "OK" THEN [xid |-> exec.xid, fs |-> fs] ELSE last
       /\ exec' = Idle
       /\ UNCHANGED <<fs, up, client, copies, losses, ends, undisturbed>>

-----------------------------------------------------------------------------
(* The client asks, asks again when no answer came in time, and is answered.*)
Handles(req) == IF req.proc = "RENAME" THEN {req.h, req.h2} ELSE {req.h}
Resolves(req) == \A h \in Handles(req) : GetPath(fddb, h) # NULL

Ask(req) ==
    /\ ~waiting /\ Len(sent) < MaxRequests
    /\ sent' = Append(sent, req)
    /\ waiting' = TRUE /\ answer' = "none"
    /\ copies' = [copies EXCEPT ![Len(sent) + 1] = 1]
    /\ undisturbed' = (~Busy /\ Resolves(req))
    /\ UNCHANGED <<server, replies, losses, ends, last>>

AskAgain ==
    /\ waiting /\ copies[Len(sent)] < MaxCopies
    /\ copies' = [copies EXCEPT ![Len(sent)] = @ + 1]
    /\ UNCHANGED <<server, client, replies, losses, ends, last, undisturbed>>

Answered ==
    /\ waiting /\ waiting' = FALSE
    /\ answer' \in replies
    /\ replies' = {}
    /\ UNCHANGED <<server, sent, copies, losses, ends, last, undisturbed>>

(* The network.                                                            *)
Lose ==
    /\ losses + ends < MaxFaults /\ losses' = losses + 1
    /\ \/ \E x \in Xid : /\ copies[x] > 0
                         /\ copies' = [copies EXCEPT ![x] = @ - 1]
                         /\ UNCHANGED replies
       \/ \E r \in replies : replies' = replies \ {r} /\ UNCHANGED copies
    /\ UNCHANGED <<server, client, ends, last, undisturbed>>

(* The process ends, wherever the C thread is; it is started again, and    *)
(* other clients may be the first to mount.                                *)
Exit ==
    /\ up /\ losses + ends < MaxFaults /\ ends' = ends + 1
    /\ up' = FALSE /\ exec' = Idle /\ fddb' = EmptyTable
    /\ last' = None
    /\ UNCHANGED <<fs, client, network, losses, undisturbed>>

Start ==
    /\ ~up /\ up' = TRUE
    /\ \E p \in DOMAIN fs.node : fddb' \in {EmptyTable, GetFD(EmptyTable, p)}
    /\ UNCHANGED <<fs, exec, client, network, losses, ends, last, undisturbed>>

-----------------------------------------------------------------------------
(* The client has mounted the root and looked up its names.                *)
Init ==
    /\ fs \in Tree
    /\ LET mounted == GetFD(EmptyTable, Root)
       IN \E num \in Numberings(mounted, DOMAIN fs.node) : fddb = Enter(mounted, num)
    /\ up = TRUE /\ exec = Idle
    /\ sent = <<>> /\ waiting = FALSE /\ answer = "none"
    /\ copies = [x \in Xid |-> 0] /\ replies = {}
    /\ losses = 0 /\ ends = 0 /\ last = None /\ undisturbed = TRUE

Next ==
    \/ \E req \in Request : Ask(req)
    \/ AskAgain
    \/ Answered
    \/ \E x \in Xid : Begin(x)
    \/ Step \/ Finish \/ Lose \/ Exit \/ Start

(* The server's thread goes on while the process lives, and the client     *)
(* asks again until it is answered.  Nothing has to be lost or to end, and *)
(* nobody has to start the process again.                                  *)
Fairness ==
    /\ WF_vars(\E x \in Xid : Begin(x)) /\ WF_vars(Step) /\ WF_vars(Finish)
    /\ WF_vars(AskAgain) /\ WF_vars(Answered)

Spec == Init /\ [][Next]_vars /\ Fairness

-----------------------------------------------------------------------------
(* Types; a table that names each path once, and a request that is being   *)
(* executed was sent.                                                      *)
TypeOK ==
    /\ TreeType(fs)
    /\ TableType(fddb)
    /\ up \in BOOLEAN /\ waiting \in BOOLEAN /\ undisturbed \in BOOLEAN
    /\ sent \in Seq(Request) /\ Len(sent) <= MaxRequests
    /\ copies \in [Xid -> 0 .. MaxCopies]
    /\ \A x \in Xid : copies[x] > 0 => x <= Len(sent)
    /\ replies \subseteq Status /\ answer \in Status \cup {"none"}
    /\ Busy => up /\ exec.xid <= Len(sent) /\ exec.status \in Status

Executed == Busy /\ exec.todo = <<>>
Req == sent[exec.xid]

(* Wherever the process ends, MKDIR, REMOVE, RMDIR and RENAME have done    *)
(* nothing or all; CREATE and SETATTR have touched one object at most, and *)
(* a name CREATE works on has its old object, none, or a new, empty file.  *)
Same(p) == /\ p \in DOMAIN fs.node /\ p \in DOMAIN exec.before.node
           /\ fs.node[p] = exec.before.node[p]
CutIsClean ==
    Busy =>
        IF Req.proc \notin {"CREATE", "SETATTR"}
        THEN fs.node = exec.before.node \/ (Executed /\ exec.status = "OK")
        ELSE /\ \A p \in (DOMAIN fs.node \cup DOMAIN exec.before.node) \ {exec.obj} : Same(p)
             /\ Req.proc = "CREATE" =>
                  \/ exec.obj \notin DOMAIN fs.node
                  \/ Same(exec.obj)
                  \/ LET made == fs.node[exec.obj]
                     IN made.id > exec.before.born /\ made.kind = "REG" /\ made.size = 0

(* A SETATTR that is about to be answered OK has given the object every    *)
(* attribute that was asked for: none of its three calls has undone what   *)
(* another did, nor hidden its failure.                                    *)
Has(attr, opt) == opt = <<>> \/ fs.node[exec.obj][attr] = opt[1]
SetattrOkSetsAll ==
    Executed /\ Req.proc = "SETATTR" /\ exec.status = "OK" =>
        \/ Req.size = <<>> /\ Req.mode = <<>> /\ Req.mtime = <<>>
        \/ /\ Exists(fs, exec.obj)
           /\ Has("size", Req.size) /\ Has("mode", Req.mode) /\ Has("mtime", Req.mtime)

(* When a copy of a request is executed again before any other request,    *)
(* every object stays where the first execution left it, even if the copy  *)
(* is refused; but an UNCHECKED CREATE makes its file anew each time.      *)
RepeatKeepsObjects ==
    Executed /\ last.xid = exec.xid /\ ~(Req.proc = "CREATE" /\ Req.how = "UNCHECKED") =>
        /\ DOMAIN fs.node = DOMAIN last.fs.node
        /\ \A p \in DOMAIN fs.node : fs.node[p].id = last.fs.node[p].id

(* A client may take an answer for true, whichever copy of its request it  *)
(* answers and whatever copies are executed later, if its handles were the *)
(* process's when it asked, no copy of an earlier request was executed     *)
(* since then, and the process is still the same (the next one may take    *)
(* them for others): a name that REMOVE or RMDIR says is gone, or was never*)
(* there, is not there; one that MKDIR or a CREATE that is not UNCHECKED,  *)
(* and that cat_name lets through, says is there, is; a RENAME that is OK  *)
(* has happened, and the old name can only be another for the new one.     *)
AnswerIsTrue ==
    ~waiting /\ sent # <<>> /\ undisturbed /\ ends = 0 =>
        LET req == sent[Len(sent)]
            obj(h, name)   == Named(fddb, h, name).obj
            there(h, name) == Exists(fs, obj(h, name))
        IN /\ req.proc \in {"REMOVE", "RMDIR"} /\ answer \in {"OK", "NOENT"} =>
                 ~there(req.h, req.name)
           /\ req.proc = "MKDIR" /\ answer \in {"OK", "EXIST"} => there(req.h, req.name)
           /\ req.proc = "CREATE" /\ Named(fddb, req.h, req.name).status = "OK"
                 /\ req.how # "UNCHECKED" /\ answer \in {"OK", "EXIST"} => there(req.h, req.name)
           /\ req.proc = "RENAME" /\ answer = "OK" =>
                 /\ there(req.h2, req.name2)
                 /\ there(req.h, req.name) =>
                       obj(req.h, req.name) = obj(req.h2, req.name2)

(* A client that keeps asking is answered, be the answer a refusal, unless *)
(* the process has ended.                                                  *)
EveryRequestAnswered == waiting ~> (~waiting \/ ~up)
=============================================================================
