-------------------------------- MODULE Xdr --------------------------------
(***************************************************************************)
(* The XDR routines of xdr.c.  An encoding is [size, from]: how many bytes *)
(* it has on the wire, and the fields they come from, each as [leaf, by]:  *)
(* which field, and who wrote the memory it was taken from.  Decoding a    *)
(* call gives the set of fields that are filled in.                        *)
(*                                                                         *)
(* xdr_<PROC>3 below are, for one procedure, its args, resok, resfail and  *)
(* res routines: the members each one visits, in its order.  Members are   *)
(* found in the structures of Layout, whose order may differ.  Abstracted: *)
(* the contents of a field; booleans, enums and 32-bit numbers are all     *)
(* "uint32".                                                               *)
(***************************************************************************)
EXTENDS Layout, SequencesExt, Integers

Nothing == [size |-> 0, from |-> {}]
Item(leaf, size, by) == [size |-> size, from |-> {[leaf |-> leaf, by |-> by]}]
uint32(leaf, by) == Item(leaf, 4, by)
uint64(leaf, by) == Item(leaf, 8, by)

(* One encoding behind the other, and a sequence of them.                  *)
x ++ y == [size |-> x.size + y.size, from |-> x.from \cup y.from]

Total(s) ==
    LET upto[k \in 0 .. Len(s)] == IF k = 0 THEN 0 ELSE upto[k - 1] + s[k]
    IN upto[Len(s)]

InOrder(parts) == [size |-> Total([i \in DOMAIN parts |-> parts[i].size]),
                   from |-> UNION {parts[i].from : i \in DOMAIN parts}]

(* NAME_SIZE: XDR pads strings and opaque data to four bytes.              *)
NAME_SIZE(n) == ((n + 3) \div 4) * 4
(* xdr_bytes and xdr_string: the length, and data written by someone else. *)
bytes(leaf, n, by, databy) == uint32(leaf, by) ++ Item(leaf, NAME_SIZE(n), databy)

-----------------------------------------------------------------------------
(* The types.  The data of a handle is the static buffer of fh_comp, nine  *)
(* bytes that b.fh wrote; fh_length makes it len + 1 + 8 = 10, so that the *)
(* encoder goes on to the byte behind them, which is nobody's.             *)
Stack == -1                 \* by: memory that was never written for this
unfs3_fh_t_size == 9
fh_length == 1 + 1 + 8
xdr_nfs_fh3(v, b) ==
    uint32("data_len", v.by) ++ Item("handle", unfs3_fh_t_size, b.fh)
    ++ Item("handle_past", fh_length - unfs3_fh_t_size, Stack)
    ++ Item("padding", NAME_SIZE(fh_length) - fh_length, v.by)

xdr_nfstime3(leaf, by) == uint32(leaf, by) ++ uint32(leaf, by)

xdr_fattr3(a) ==
    uint32("type", a.type) ++ uint32("mode", a.mode) ++ uint32("nlink", a.nlink)
    ++ uint32("uid", a.uid) ++ uint32("gid", a.gid) ++ uint64("size", a.size)
    ++ uint64("used", a.used) ++ uint32("rdev", a.rdev) ++ uint32("rdev", a.rdev)
    ++ uint64("fsid", a.fsid) ++ uint64("fileid", a.fileid)
    ++ xdr_nfstime3("atime", a.atime) ++ xdr_nfstime3("mtime", a.mtime)
    ++ xdr_nfstime3("ctime", a.ctime)

xdr_post_op_attr(v) ==
    uint32("attributes_follow", v.by) ++ IF v.follows THEN xdr_fattr3(v.attributes) ELSE Nothing

xdr_wcc_attr(a) ==
    uint64("size", a.size) ++ xdr_nfstime3("mtime", a.mtime) ++ xdr_nfstime3("ctime", a.ctime)

xdr_pre_op_attr(v) ==
    uint32("attributes_follow", v.by) ++ IF v.follows THEN xdr_wcc_attr(v.attributes) ELSE Nothing

xdr_post_op_fh3(v, b) ==
    uint32("handle_follows", v.by) ++ IF v.follows THEN xdr_nfs_fh3(v, b) ELSE Nothing

(* Mutant: the fileid is encoded as a 32-bit number.                       *)
xdr_entry3_ShortId(n, by) ==
    uint32("more", by) ++ uint32("fileid", by) ++ bytes("name", n, by, by) ++ uint64("cookie", by)

(* A list is its entries, each after a "more" word, and a word that ends it.*)
xdr_entry3(n, by) ==
    uint32("more", by) ++ uint64("fileid", by) ++ bytes("name", n, by, by) ++ uint64("cookie", by)
xdr_entries(v, b) ==
    InOrder([i \in 1 .. Len(v.names) |-> xdr_entry3(v.names[i], b.entries)])
    ++ uint32("more", v.by)

(* The member of the given type that holds v; b are the static buffers its *)
(* pointers lead to.                                                       *)
Encode(type, member, v, b) ==
    CASE type = "fattr3"       -> xdr_fattr3(v.attributes)
      [] type = "post_op_attr" -> xdr_post_op_attr(v)
      [] type = "pre_op_attr"  -> xdr_pre_op_attr(v)
      [] type = "nfs_fh3"      -> xdr_nfs_fh3(v, b)
      [] type = "post_op_fh3"  -> xdr_post_op_fh3(v, b)
      [] type = "bytes"        -> bytes(member, v.len, v.by, b.data)
      [] type = "entry3"       -> xdr_entries(v, b)
      [] type = "uint32"       -> uint32(member, v.by)
      [] type \in {"uint64", "verf3"} -> uint64(member, v.by)
      [] type = "nfstime3"     -> xdr_nfstime3(member, v.by)
      [] type = "int_array"    -> uint32(member, v.by) ++ uint32(member, v.by)

-----------------------------------------------------------------------------
(* Arguments.  A call a holds the discriminants of its unions:             *)
(* set: which of mode, uid, gid, size have set_it; time: the time_how of   *)
(* atime and mtime; how: the createmode3; ftype: the ftype3; check.        *)
NoUnions == [set |-> {}, time |-> "DONT_CHANGE", how |-> "UNCHECKED",
             ftype |-> "NF3DIR", check |-> "FALSE"]

xdr_sattr3(a) ==
    {"mode.set_it", "uid.set_it", "gid.set_it", "size.set_it", "atime.set_it", "mtime.set_it"}
    \cup a.set
    \cup (IF a.time = "SET_TO_CLIENT_TIME" THEN {"atime", "mtime"} ELSE {})

xdr_sattrguard3(a) == {"check"} \cup IF a.check = "TRUE" THEN {"obj_ctime"} ELSE {}

xdr_createhow3(a) ==
    {"how.mode"} \cup IF a.how \in {"UNCHECKED", "GUARDED"} THEN xdr_sattr3(a)
                      ELSE IF a.how = "EXCLUSIVE" THEN {"verf"} ELSE {}

xdr_mknoddata3(a) ==
    {"what.type"} \cup IF a.ftype \in {"NF3CHR", "NF3BLK"} THEN xdr_sattr3(a) \cup {"spec"}
                       ELSE IF a.ftype \in {"NF3SOCK", "NF3FIFO"} THEN xdr_sattr3(a) ELSE {}

Decode(type, member, a) ==
    CASE type = "sattr3"      -> xdr_sattr3(a)
      [] type = "sattrguard3" -> xdr_sattrguard3(a)
      [] type = "createhow3"  -> xdr_createhow3(a)
      [] type = "mknoddata3"  -> xdr_mknoddata3(a)
      [] type = "diropargs3"  -> {"dir", "name"}
      [] OTHER                -> {member}

(* The unions with a default that refuses: a discriminant no arm has.      *)
Refused(types, a) ==
    \/ "sattrguard3" \in types /\ a.check \notin {"TRUE", "FALSE"}
    \/ "createhow3" \in types /\ a.how \notin {"UNCHECKED", "GUARDED", "EXCLUSIVE"}

-----------------------------------------------------------------------------
(* The procedures.                                                         *)
Order(args, resok, resfail) == [args |-> args, resok |-> resok, resfail |-> resfail]
wcc_data == <<"before", "after">>
(* What CREATE, MKDIR, SYMLINK and MKNOD answer.                           *)
made_data == <<"obj", "obj_attributes", "before", "after">>

xdr_GETATTR3 == Order(<<"object">>, <<"obj_attributes">>, <<>>)
xdr_SETATTR3 == Order(<<"object", "new_attributes", "guard">>, wcc_data, wcc_data)
xdr_LOOKUP3 ==
    Order(<<"what">>, <<"object", "obj_attributes", "dir_attributes">>, <<"dir_attributes">>)
xdr_ACCESS3 ==
    Order(<<"object", "access">>, <<"obj_attributes", "access">>, <<"obj_attributes">>)
xdr_READLINK3 ==
    Order(<<"symlink">>, <<"symlink_attributes", "data">>, <<"symlink_attributes">>)
xdr_READ3 ==
    Order(<<"file", "offset", "count">>,
          <<"file_attributes", "count", "eof", "data">>, <<"file_attributes">>)
xdr_WRITE3 ==
    Order(<<"file", "offset", "count", "stable", "data">>,
          <<"before", "after", "count", "committed", "verf">>, wcc_data)
xdr_CREATE3 ==
    Order(<<"where", "how">>, made_data, wcc_data)
xdr_MKDIR3 ==
    Order(<<"where", "attributes">>, made_data, wcc_data)
xdr_SYMLINK3 ==
    Order(<<"where", "symlink_attributes", "symlink_data">>,
          made_data, wcc_data)
xdr_MKNOD3 ==
    Order(<<"where", "what">>, made_data, wcc_data)
xdr_REMOVE3 == Order(<<"object">>, wcc_data, wcc_data)
xdr_RMDIR3  == Order(<<"object">>, wcc_data, wcc_data)
xdr_RENAME3 ==
    LET both == <<"from_before", "from_after", "to_before", "to_after">>
    IN Order(<<"from", "to">>, both, both)
xdr_LINK3 ==
    LET both == <<"file_attributes", "before", "after">>
    IN Order(<<"file", "link">>, both, both)
xdr_READDIR3 ==
    Order(<<"dir", "cookie", "cookieverf", "count">>,
          <<"dir_attributes", "cookieverf", "entries", "eof">>, <<"dir_attributes">>)
xdr_READDIRPLUS3 ==
    Order(<<"dir", "cookie", "cookieverf", "dircount", "maxcount">>,
          <<"dir_attributes", "cookieverf", "entries", "eof">>, <<"dir_attributes">>)
xdr_FSSTAT3 ==
    Order(<<"fsroot">>,
          <<"obj_attributes", "tbytes", "fbytes", "abytes", "tfiles", "ffiles", "afiles",
            "invarsec">>, <<"obj_attributes">>)
xdr_FSINFO3 ==
    Order(<<"fsroot">>,
          <<"obj_attributes", "rtmax", "rtpref", "rtmult", "wtmax", "wtpref", "wtmult",
            "dtpref", "maxfilesize", "time_delta", "properties">>, <<"obj_attributes">>)
xdr_PATHCONF3 ==
    Order(<<"object">>,
          <<"obj_attributes", "linkmax", "name_max", "no_trunc", "chown_restricted",
            "case_insensitive", "case_preserving">>, <<"obj_attributes">>)
xdr_COMMIT3 ==
    Order(<<"file", "offset", "count">>, <<"before", "after", "verf">>, wcc_data)
(* Its arguments are a bare path; only MNT3_OK has an arm.                 *)
xdr_mountres3 == Order(<<"path">>, <<"fhandle", "auth_flavors">>, <<>>)

XdrOf ==
    [GETATTR |-> xdr_GETATTR3, SETATTR |-> xdr_SETATTR3, LOOKUP |-> xdr_LOOKUP3,
     ACCESS |-> xdr_ACCESS3, READLINK |-> xdr_READLINK3, READ |-> xdr_READ3,
     WRITE |-> xdr_WRITE3, CREATE |-> xdr_CREATE3, MKDIR |-> xdr_MKDIR3,
     SYMLINK |-> xdr_SYMLINK3, MKNOD |-> xdr_MKNOD3, REMOVE |-> xdr_REMOVE3,
     RMDIR |-> xdr_RMDIR3, RENAME |-> xdr_RENAME3, LINK |-> xdr_LINK3,
     READDIR |-> xdr_READDIR3, READDIRPLUS |-> xdr_READDIRPLUS3, FSSTAT |-> xdr_FSSTAT3,
     FSINFO |-> xdr_FSINFO3, PATHCONF |-> xdr_PATHCONF3, COMMIT |-> xdr_COMMIT3,
     MNT |-> xdr_mountres3]

(* svc_getargs: the fields of a's arguments, or none if it refuses them.   *)
ArgTypes(proc) == {Struct[proc].args[i].type : i \in DOMAIN Struct[proc].args}
Decoded(proc, a) ==
    UNION {LET x == Struct[proc].args[i] IN Decode(x.type, x.member, a) :
              i \in {j \in DOMAIN Struct[proc].args :
                        \E k \in DOMAIN XdrOf[proc].args :
                            XdrOf[proc].args[k] = Struct[proc].args[j].member}}
=============================================================================
