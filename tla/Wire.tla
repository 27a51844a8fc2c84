-------------------------------- MODULE Wire --------------------------------
(***************************************************************************)
(* What goes over the wire: nfs3_program_3 and mountprog_3 decode a call,  *)
(* run the procedure and encode the structure it returns.  Every procedure *)
(* returns the address of a static structure of its own, which keeps what  *)
(* earlier requests left in it; the encoder reads whichever arm of the     *)
(* union the status selects, and follows pointers into further static      *)
(* buffers.  A reply is right only if everything encoded in it was written *)
(* for the request it answers.                                             *)
(*                                                                         *)
(* A value is abstracted to who wrote it (by): a request's number, 0 for   *)
(* memory that is still zeroed, Stack for memory never initialised.        *)
(* Discriminants (the status, attributes_follow, ...) keep their values.   *)
(***************************************************************************)
EXTENDS Xdr

CONSTANTS
    MaxRequests,    \* bound: requests served
    Counts,         \* the counts of READ
    Lefts,          \* bytes from a READ's offset to the end of its file
    Pages           \* READDIR's pages: the lengths of the names on them

VARIABLES
    result,     \* procedure -> its static result: storage -> value
    buffers,    \* the static buffers: fh (fh_comp), data (READ), entries (READDIR)
    served,     \* requests so far; the current one's number
    reply,      \* the last reply
    sent        \* history: what of a file or a directory is in it

WireVars == <<result, buffers, served, reply, sent>>

This == served + 1

NFS_MAXDATA_TCP == 524288
NFS_MAXDATA_UDP == 32768
NFS_MAX_UDP_PACKET == NFS_MAXDATA_UDP + 4096
RpcHeader == 24             \* an accepted reply with an empty verifier
RESOK_SIZE == 104
ENTRY_SIZE == 24
ReplyLimit == 4096          \* "we refuse to return more than 4k from READDIR"

(* What READDIR budgets for a page: the heading, and its entries.          *)
PageSize(names) ==
    RESOK_SIZE + Total([i \in DOMAIN names |-> ENTRY_SIZE + NAME_SIZE(names[i])])

ASSUME WireAssumption ==
    /\ MaxRequests \in Nat
    /\ Counts \subseteq Nat
    /\ Lefts \subseteq Nat
    /\ Pages \subseteq Seq(Nat)

-----------------------------------------------------------------------------
(* Storage.  A member of an arm lies behind the members before it: its     *)
(* cell is the sequence of types up to its own.  Writing a cell spoils     *)
(* those of the other arm that do not line up with it.                     *)
IndexOf(arm, member) == CHOOSE i \in DOMAIN arm : arm[i].member = member
Cell(arm, member) == [i \in 1 .. IndexOf(arm, member) |-> arm[i].type]
LineUp(c, d) == IsPrefix(c, d) \/ IsPrefix(d, c)

ZeroAttributes == [f \in {"type", "mode", "nlink", "uid", "gid", "size", "used", "rdev",
                          "fsid", "fileid", "atime", "mtime", "ctime"} |-> 0]
Zero == [by |-> 0, follows |-> FALSE, attributes |-> ZeroAttributes, names |-> <<>>, len |-> 0]

Store(proc, mem, write) ==
    LET cell == Cell(Struct[proc][write.arm], write.member)
    IN [c \in {d \in DOMAIN mem : LineUp(d, cell)} \cup {cell} |->
           IF c = cell THEN write.value ELSE mem[c]]
Load(proc, mem, arm, member) ==
    LET cell == Cell(Struct[proc][arm], member)
    IN IF cell \in DOMAIN mem THEN mem[cell] ELSE Zero

(* The writes of a procedure, one after the other.                         *)
StoreAll(proc, mem, writes) ==
    LET after[k \in 0 .. Len(writes)] ==
            IF k = 0 THEN mem ELSE Store(proc, after[k - 1], writes[k])
    IN after[Len(writes)]

(* xdr_<PROC>3res: the status, and the members of the arm it selects.      *)
EncodeMember(proc, arm, member, mem, b) ==
    Encode(Struct[proc][arm][IndexOf(Struct[proc][arm], member)].type, member,
           Load(proc, mem, arm, member), b)
EncodeRes(proc, status, mem, b) ==
    LET arm     == IF status = "OK" THEN "resok" ELSE "resfail"
        members == XdrOf[proc][arm]
    IN uint32("status", This)
       ++ InOrder([i \in DOMAIN members |-> EncodeMember(proc, arm, members[i], mem, b)])

-----------------------------------------------------------------------------
(* Values that a request writes.                                           *)
Now == [Zero EXCEPT !.by = This]
Data(n) == [Now EXCEPT !.len = n]
Page(names) == [Now EXCEPT !.names = names]

(* statTranslator fills in seven fields of a buffer on the caller's stack. *)
StatField == {"st_dev", "st_ino", "st_mode", "st_nlink", "st_uid", "st_gid", "st_rdev",
              "st_size", "st_blocks", "st_atime", "st_mtime", "st_ctime"}
unwritten == [f \in StatField |-> Stack]
statTranslator ==
    [f \in StatField |->
        IF f \in {"st_dev", "st_ino", "st_size", "st_atime", "st_mtime", "st_ctime", "st_mode"}
        THEN This ELSE Stack]

get_post_buf(buf) ==
    [Now EXCEPT !.follows = TRUE,
       !.attributes = [type  |-> buf.st_mode,  mode   |-> buf.st_mode,  nlink |-> buf.st_nlink,
                       uid   |-> buf.st_uid,   gid    |-> buf.st_gid,   size  |-> buf.st_size,
                       used  |-> buf.st_blocks, rdev  |-> buf.st_rdev,  fsid  |-> buf.st_dev,
                       fileid |-> buf.st_ino,  atime  |-> buf.st_atime, mtime |-> buf.st_mtime,
                       ctime |-> buf.st_ctime]]

get_pre_buf(buf) ==
    [Now EXCEPT !.follows = TRUE,
       !.attributes = [size |-> buf.st_size, mtime |-> buf.st_mtime, ctime |-> buf.st_ctime]]

(* A copy of the constant error_attr.                                      *)
error_attr == [Now EXCEPT !.attributes = [f \in DOMAIN ZeroAttributes |-> This]]

get_post(found) == IF found THEN get_post_buf(statTranslator) ELSE error_attr
(* Without attributes_follow, the rest of the result is uninitialised.     *)
get_pre(found) == IF found THEN get_pre_buf(statTranslator)
                  ELSE [Now EXCEPT !.attributes = [f \in {"size", "mtime", "ctime"} |-> Stack]]

(* fh_comp_post; the handle itself is in the static buffer.                *)
fh_comp_post == [Now EXCEPT !.follows = TRUE]
(* fh_comp_type, of a path that can be examined or not.                    *)
fh_comp_type(found) == IF found THEN fh_comp_post ELSE Now

-----------------------------------------------------------------------------
(* One request.  nfs3_program_3 clears and decodes the arguments (a call   *)
(* it cannot decode goes no further), the procedure reads some of them,    *)
(* makes the writes in order, leaves the buffers b, and the result is      *)
(* encoded.  The reply of a call over UDP has to fit the transport's buffer.*)
W(arm, member, value) == [arm |-> arm, member |-> member, value |-> value]
WccOf(arm, pre, post) == <<W(arm, "before", get_pre(pre)), W(arm, "after", get_post(post))>>

Reply(kind, proc, status, body, undecoded, udp) ==
    [kind |-> kind, proc |-> proc, status |-> status, body |-> body,
     undecoded |-> undecoded, udp |-> udp]

(* nfs3_program_3 clears the memory of the arguments before it decodes a   *)
(* call into it, so that a member the decoder skips is zero; as a mutant   *)
(* it does not.  What the decoder has nothing to do with (new_attr, which  *)
(* CREATE never sets) is memory of the stack.                              *)
cleared_Never == Stack
cleared == 0
Argument(member) == IF member = "new_attr" THEN Stack ELSE cleared

(* Members that a procedure read although the call's decoding skipped them.*)
Undecoded(proc, a, reads) ==
    {[member |-> m, by |-> Argument(m), time |-> a.time] : m \in reads \ Decoded(proc, a)}

(* What a READ was asked for, found and told, or the page of a READDIR.    *)
NoData == [asked |-> 0, left |-> 0, len |-> 0, eof |-> TRUE, names |-> <<>>]

ServeData(proc, a, reads, status, writes, b, udp, data) ==
    /\ served < MaxRequests
    /\ ~Refused(ArgTypes(proc), a)
    /\ LET mem == StoreAll(proc, result[proc], writes)
       IN /\ result' = [result EXCEPT ![proc] = mem]
          /\ reply' = Reply("accepted", proc, status, EncodeRes(proc, status, mem, b),
                            Undecoded(proc, a, reads), udp)
    /\ buffers' = b
    /\ served' = This
    /\ sent' = data

Serve(proc, a, reads, status, writes, b, udp) ==
    ServeData(proc, a, reads, status, writes, b, udp, NoData)

(* svcerr_decode and svcerr_noproc: no procedure runs.                     *)
Refuse ==
    /\ served < MaxRequests
    /\ \/ \E proc \in Proc, how \in {"other", "GUARDED"}, check \in {"other", "TRUE"} :
             /\ Refused(ArgTypes(proc), [NoUnions EXCEPT !.how = how, !.check = check])
             /\ reply' = Reply("GARBAGE_ARGS", proc, "none", Nothing, {}, TRUE)
       \/ reply' = Reply("PROC_UNAVAIL", "none", "none", Nothing, {}, TRUE)
    /\ served' = This /\ sent' = NoData
    /\ UNCHANGED <<result, buffers>>

-----------------------------------------------------------------------------
(* The procedures, in the order of nfs.c.  found, pre, post...: whether    *)
(* the lstat of each attribute routine finds the object.                   *)
Status == {"OK", "ERR"}
If(c, writes) == IF c THEN writes ELSE <<>>

Getattr ==
    \E found \in BOOLEAN :
        Serve("GETATTR", NoUnions, {"object"}, "OK",
              <<W("resok", "obj_attributes", get_post(found))>>, buffers, TRUE)

(* xdr_time_how takes numbers that are not of the enumeration, too.        *)
time_how == {"DONT_CHANGE", "SET_TO_SERVER_TIME", "SET_TO_CLIENT_TIME"}

(* Mutant: the client's time is taken whenever some time is to be set.     *)
SetattrReads_AnyTime(a) ==
    {"object", "mode.set_it", "size.set_it", "mtime.set_it"} \cup (a.set \cap {"mode", "size"})
    \cup (IF a.time # "DONT_CHANGE" THEN {"mtime"} ELSE {})
SetattrReads(a) ==
    {"object", "mode.set_it", "size.set_it", "mtime.set_it"} \cup (a.set \cap {"mode", "size"})
    \cup (IF a.time \notin {"DONT_CHANGE", "SET_TO_SERVER_TIME"} THEN {"mtime"} ELSE {})

Setattr ==
    \E set \in SUBSET {"mode", "size"}, check \in {"TRUE", "FALSE"}, status \in Status,
       time \in time_how \cup {"other"},
       pre, post \in BOOLEAN :
        LET a == [NoUnions EXCEPT !.set = set, !.time = time, !.check = check]
        IN Serve("SETATTR", a, SetattrReads(a), status, WccOf("resok", pre, post), buffers, TRUE)

Lookup ==
    \E status \in Status, obj, dir \in BOOLEAN :
        Serve("LOOKUP", NoUnions, {"dir", "name"}, status,
              If(status = "OK", <<W("resok", "object", Now),
                                  W("resok", "obj_attributes", get_post_buf(statTranslator))>>)
              \o <<W("resok", "dir_attributes", get_post(dir))>>,
              IF status = "OK" THEN [buffers EXCEPT !.fh = This] ELSE buffers, TRUE)

Access ==
    \E found \in BOOLEAN :
        Serve("ACCESS", NoUnions, {"object"}, IF found THEN "OK" ELSE "ERR",
              <<W("resok", "access", Now), W("resok", "obj_attributes", get_post(found))>>,
              buffers, TRUE)

Readlink ==
    Serve("READLINK", NoUnions, {}, "ERR",
          <<W("resfail", "symlink_attributes", Now)>>, buffers, TRUE)

(* The count is cut to what the transport carries.                         *)
(* Mutant: the limit of TCP is used for both.                              *)
maxdata_TcpOnly(udp) == NFS_MAXDATA_TCP
maxdata(udp) == IF udp THEN NFS_MAXDATA_UDP ELSE NFS_MAXDATA_TCP

(* One byte more is asked of the backend than the client wants, to see     *)
(* whether there is one, and given back.  go_pread fills the buffer up to  *)
(* the end of the file, left bytes away.                                   *)
go_pread(left, count) == IF left < count THEN left ELSE count
(* Mutant: the byte is not given back.                                     *)
Readjusted_Keeps(res, count) == res
Readjusted(res, count) == IF res <= count THEN res ELSE res - 1

Read ==
    \E status \in Status, udp, post \in BOOLEAN, asked \in Counts, left \in Lefts :
        LET count == IF asked > maxdata(udp) THEN maxdata(udp) ELSE asked
            res   == go_pread(left, count + 1)
            len   == Readjusted(res, count)
            done  == status = "OK"
        IN ServeData("READ", NoUnions, {"file", "offset", "count"}, status,
               If(done, <<W("resok", "eof", Now), W("resok", "count", Now),
                          W("resok", "data", Data(len))>>)
               \o <<W("resok", "file_attributes", get_post(post))>>,
               IF done THEN [buffers EXCEPT !.data = This] ELSE buffers, udp,
               IF done THEN [NoData EXCEPT !.asked = asked, !.left = left, !.len = len,
                                           !.eof = res <= count] ELSE NoData)

Write ==
    \E status \in Status, pre, post \in BOOLEAN :
        Serve("WRITE", NoUnions, {"file", "offset", "data"}, status,
              If(status = "OK", <<W("resok", "count", Now), W("resok", "committed", Now),
                                  W("resok", "verf", Now)>>)
              \o WccOf("resok", pre, post), buffers, TRUE)

(* create_mode reads the mode of a sattr3 that EXCLUSIVE leaves unset; the *)
(* lstat of an object that was made may fail, and then nothing is valid.   *)
create_mode(a) == {"mode.set_it"} \cup (a.set \cap {"mode"})

Create ==
    \E status \in Status, how \in {"UNCHECKED", "GUARDED", "EXCLUSIVE"}, set \in SUBSET {"mode"},
       made, pre, post \in BOOLEAN :
        LET a == [NoUnions EXCEPT !.how = how, !.set = set]
        IN Serve("CREATE", a, {"dir", "name", "how.mode"}
                     \cup IF how = "EXCLUSIVE" THEN {"new_attr"} ELSE create_mode(a), status,
                 If(status = "OK" \/ made,
                    <<W("resok", "obj", fh_comp_post),
                      W("resok", "obj_attributes",
                        get_post_buf(IF status = "OK" THEN statTranslator ELSE unwritten))>>)
                 \o WccOf("resok", pre, post),
                 IF status = "OK" \/ made THEN [buffers EXCEPT !.fh = This] ELSE buffers, TRUE)

Mkdir ==
    \E status \in Status, set \in SUBSET {"mode"}, dir, found, pre, post \in BOOLEAN :
        LET a == [NoUnions EXCEPT !.set = set]
        IN Serve("MKDIR", a, {"dir", "name"} \cup create_mode(a), status,
                 If(status = "OK", <<W("resok", "obj", fh_comp_type(dir)),
                                     W("resok", "obj_attributes", get_post(found))>>)
                 \o WccOf("resok", pre, post),
                 IF status = "OK" /\ dir THEN [buffers EXCEPT !.fh = This] ELSE buffers, TRUE)

Symlink ==
    Serve("SYMLINK", NoUnions, {}, "ERR",
          <<W("resfail", "before", Now), W("resfail", "after", Now)>>, buffers, TRUE)

Mknod ==
    \E ftype \in {"NF3CHR", "NF3FIFO", "NF3DIR"} :
        Serve("MKNOD", [NoUnions EXCEPT !.ftype = ftype], {}, "ERR",
              <<W("resfail", "before", Now), W("resfail", "after", Now)>>, buffers, TRUE)

Remove3 ==
    \E status \in Status, pre, post \in BOOLEAN :
        Serve("REMOVE", NoUnions, {"dir", "name"}, status, WccOf("resok", pre, post),
              buffers, TRUE)

Rmdir ==
    \E status \in Status, pre, post \in BOOLEAN :
        Serve("RMDIR", NoUnions, {"dir", "name"}, status, WccOf("resok", pre, post),
              buffers, TRUE)

Rename ==
    \E status \in Status, pre1, post1, pre2, post2 \in BOOLEAN :
        Serve("RENAME", NoUnions, {"dir", "name"}, status,
              <<W("resok", "from_before", get_pre(pre1)), W("resok", "from_after", get_post(post1)),
                W("resok", "to_before", get_pre(pre2)), W("resok", "to_after", get_post(post2))>>,
              buffers, TRUE)

Link ==
    Serve("LINK", NoUnions, {}, "ERR",
          <<W("resfail", "file_attributes", Now), W("resfail", "before", Now),
            W("resfail", "after", Now)>>, buffers, TRUE)

(* The whole of a local resok is copied: after an error its eof is junk.   *)
Readdir ==
    \E status \in Status, post \in BOOLEAN, names \in Pages :
        ServeData("READDIR", NoUnions, {"dir", "cookie", "count"}, status,
              <<W("resok", "dir_attributes", [Zero EXCEPT !.by = Stack]),
                W("resok", "eof", IF status = "OK" THEN Now ELSE [Zero EXCEPT !.by = Stack]),
                W("resok", "entries", Page(names)), W("resok", "cookieverf", Now),
                W("resok", "dir_attributes", get_post(post))>>,
              [buffers EXCEPT !.entries = This], TRUE, [NoData EXCEPT !.names = names])

Readdirplus ==
    Serve("READDIRPLUS", NoUnions, {}, "ERR",
          <<W("resfail", "dir_attributes", Now)>>, buffers, TRUE)

(* FSSTAT, FSINFO and PATHCONF always answer OK with fixed numbers.        *)
Fixed(members) == [i \in DOMAIN members |-> W("resok", members[i], Now)]

Fsstat ==
    \E post \in BOOLEAN :
        Serve("FSSTAT", NoUnions, {"fsroot"}, "OK",
              <<W("resok", "obj_attributes", get_post(post))>>
              \o Fixed(<<"tbytes", "fbytes", "abytes", "tfiles", "ffiles", "afiles", "invarsec">>),
              buffers, TRUE)

Fsinfo ==
    \E post \in BOOLEAN :
        Serve("FSINFO", NoUnions, {"fsroot"}, "OK",
              <<W("resok", "obj_attributes", get_post(post))>>
              \o Fixed(<<"rtmax", "rtpref", "rtmult", "wtmax", "wtpref", "wtmult", "dtpref",
                         "maxfilesize", "time_delta", "properties">>),
              buffers, TRUE)

Pathconf ==
    \E post \in BOOLEAN :
        Serve("PATHCONF", NoUnions, {"object"}, "OK",
              <<W("resok", "obj_attributes", get_post(post))>>
              \o Fixed(<<"linkmax", "name_max", "no_trunc", "chown_restricted",
                         "case_insensitive", "case_preserving">>),
              buffers, TRUE)

(* The wcc_data goes into resfail, whichever way it ends.                  *)
Commit ==
    \E found \in BOOLEAN :
        Serve("COMMIT", NoUnions, {"file"}, IF found THEN "OK" ELSE "ERR",
              If(found, <<W("resok", "verf", Now)>>) \o WccOf("resfail", found, found),
              buffers, TRUE)

(* mount.c: the refusals only set the status.                              *)
Mnt ==
    \E status \in Status :
        Serve("MNT", NoUnions, {"path"}, status,
              If(status = "OK", <<W("resok", "fhandle", Now), W("resok", "auth_flavors", Now)>>),
              IF status = "OK" THEN [buffers EXCEPT !.fh = This] ELSE buffers, TRUE)

-----------------------------------------------------------------------------
WireInit ==
    /\ result = [p \in Proc |-> <<>>]
    /\ buffers = [fh |-> 0, data |-> 0, entries |-> 0]
    /\ served = 0
    /\ reply = Reply("none", "none", "none", Nothing, {}, TRUE)
    /\ sent = NoData

WireNext ==
    \/ Getattr \/ Setattr \/ Lookup \/ Access \/ Readlink \/ Read \/ Write
    \/ Create \/ Mkdir \/ Symlink \/ Mknod \/ Remove3 \/ Rmdir \/ Rename
    \/ Link \/ Readdir \/ Readdirplus \/ Fsstat \/ Fsinfo \/ Pathconf
    \/ Commit \/ Mnt \/ Refuse

WireSpec == WireInit /\ [][WireNext]_WireVars

-----------------------------------------------------------------------------
(* What statTranslator leaves unset in the buffers of its callers, and the *)
(* byte that fh_length counts too many.                                    *)
NeverWritten == {"nlink", "uid", "gid", "used", "rdev", "handle_past"}

(* Everything in a reply was written for the request it answers: nothing   *)
(* of an earlier request's result, of the other arm of the union, of a     *)
(* shared buffer or of the stack gets out, except for NeverWritten.        *)
ReplyIsThisRequests ==
    \A x \in reply.body.from :
        x.by = served \/ (x.by = Stack /\ x.leaf \in NeverWritten)

(* A procedure acts on what its call carries: it reads no argument that    *)
(* the decoder skipped for the call's own discriminants.  There are two    *)
(* exceptions.  The time of a SETATTR whose time_how is none of the three  *)
(* is skipped (xdr.c:534) and read all the same (nfs.c:84 takes it for the *)
(* client's), but is then zero, and nothing of another call or of the      *)
(* stack; the mode of a CREATE EXCLUSIVE comes from a local never set.     *)
ReadsDecoded ==
    \A x \in reply.undecoded :
        \/ x.member = "mtime" /\ x.time \notin time_how /\ x.by = 0
        \/ x.member = "new_attr"

(* A reply over UDP fits the buffer the transport was made with, a READ of *)
(* any length included (nfs.h: NFS_MAX_UDP_PACKET).  A page of READDIR has *)
(* to keep to the 4k of nfs.c:444, which it does for a count that leaves   *)
(* room for the heading (PageFits); a smaller count wraps, and a page of   *)
(* 170 long names is more than the transport takes.                        *)
ReplyFits ==
    reply.udp /\ PageSize(sent.names) <= ReplyLimit =>
        RpcHeader + reply.body.size <= NFS_MAX_UDP_PACKET

(* The attributes of a directory or a file are in the reply.               *)
HasAttributes == \E x \in reply.body.from : x.leaf = "type"

(* The sizes READDIR budgets with are those the XDR routines produce: a    *)
(* page with attributes takes RESOK_SIZE, and ENTRY_SIZE and the padded    *)
(* name for each entry, behind the status word.                            *)
ReaddirSizes ==
    reply.proc = "READDIR" /\ reply.status = "OK" /\ HasAttributes =>
        reply.body.size = 4 + PageSize(sent.names)

(* A client that reads a file from READ to READ gets all of it and stops   *)
(* at its end: a reply has at most what was asked, says eof exactly when   *)
(* nothing is left behind its data, and has some data unless it says eof   *)
(* or none was asked.  The byte read ahead (nfs.c:190) must neither be     *)
(* sent nor be lost, at any limit of the transport.                        *)
ReadStopsAtEof ==
    /\ sent.len <= sent.asked
    /\ sent.eof <=> sent.len = sent.left
    /\ sent.len = 0 => sent.eof \/ sent.asked = 0
=============================================================================
