------------------------------- MODULE Layout -------------------------------
(***************************************************************************)
(* The structures of nfs.h and mount.h: for every procedure the members of *)
(* its arguments and of the two arms, resok and resfail, of the union in   *)
(* its result, in the order in which the structure declares them.  A       *)
(* wcc_data is written out as its two members.                             *)
(*                                                                         *)
(* The order matters because the procedures fill in one arm of the union   *)
(* and let the encoder read the other ("overlaps with resfail" in nfs.c).  *)
(* C promises that this works only for a common initial sequence: two      *)
(* members share storage when the types up to and including them agree.    *)
(***************************************************************************)
EXTENDS Sequences

F(member, type) == [member |-> member, type |-> type]
Pre(member)  == F(member, "pre_op_attr")
Post(member) == F(member, "post_op_attr")
Fh(member)   == F(member, "nfs_fh3")
Wcc == <<Pre("before"), Post("after")>>

GETATTR3 ==
    [args |-> <<Fh("object")>>, resok |-> <<F("obj_attributes", "fattr3")>>, resfail |-> <<>>]

SETATTR3 ==
    [args    |-> <<Fh("object"), F("new_attributes", "sattr3"), F("guard", "sattrguard3")>>,
     resok   |-> Wcc,
     resfail |-> Wcc]

(* Mutant: the order in which the protocol, and the encoder, has them.     *)
LOOKUP3_WireOrder ==
    [args    |-> <<F("what", "diropargs3")>>,
     resok   |-> <<Fh("object"), Post("obj_attributes"), Post("dir_attributes")>>,
     resfail |-> <<Post("dir_attributes")>>]

LOOKUP3 ==
    [args    |-> <<F("what", "diropargs3")>>,
     resok   |-> <<Post("dir_attributes"), Fh("object"), Post("obj_attributes")>>,
     resfail |-> <<Post("dir_attributes")>>]

ACCESS3 ==
    [args    |-> <<Fh("object"), F("access", "uint32")>>,
     resok   |-> <<Post("obj_attributes"), F("access", "uint32")>>,
     resfail |-> <<Post("obj_attributes")>>]

READLINK3 ==
    [args    |-> <<Fh("symlink")>>,
     resok   |-> <<Post("symlink_attributes"), F("data", "nfspath3")>>,
     resfail |-> <<Post("symlink_attributes")>>]

READ3 ==
    [args    |-> <<Fh("file"), F("offset", "uint64"), F("count", "uint32")>>,
     resok   |-> <<Post("file_attributes"), F("count", "uint32"), F("eof", "uint32"),
                   F("data", "bytes")>>,
     resfail |-> <<Post("file_attributes")>>]

WRITE3 ==
    [args    |-> <<Fh("file"), F("offset", "uint64"), F("count", "uint32"),
                   F("stable", "uint32"), F("data", "bytes")>>,
     resok   |-> <<Pre("before"), Post("after"), F("count", "uint32"),
                   F("committed", "uint32"), F("verf", "verf3")>>,
     resfail |-> Wcc]

(* What CREATE, MKDIR, SYMLINK and MKNOD answer.                           *)
MadeOk == <<Pre("before"), Post("after"), F("obj", "post_op_fh3"), Post("obj_attributes")>>

CREATE3 ==
    [args |-> <<F("where", "diropargs3"), F("how", "createhow3")>>,
     resok |-> MadeOk, resfail |-> Wcc]

MKDIR3 ==
    [args |-> <<F("where", "diropargs3"), F("attributes", "sattr3")>>,
     resok |-> MadeOk, resfail |-> Wcc]

SYMLINK3 ==
    [args |-> <<F("where", "diropargs3"), F("symlink_attributes", "sattr3"),
                F("symlink_data", "nfspath3")>>,
     resok |-> MadeOk, resfail |-> Wcc]

MKNOD3 ==
    [args |-> <<F("where", "diropargs3"), F("what", "mknoddata3")>>,
     resok |-> MadeOk, resfail |-> Wcc]

REMOVE3 == [args |-> <<F("object", "diropargs3")>>, resok |-> Wcc, resfail |-> Wcc]
RMDIR3  == [args |-> <<F("object", "diropargs3")>>, resok |-> Wcc, resfail |-> Wcc]

TwoWcc == <<Pre("from_before"), Post("from_after"), Pre("to_before"), Post("to_after")>>

RENAME3 ==
    [args |-> <<F("from", "diropargs3"), F("to", "diropargs3")>>,
     resok |-> TwoWcc, resfail |-> TwoWcc]

LINK3 ==
    [args    |-> <<Fh("file"), F("link", "diropargs3")>>,
     resok   |-> <<Post("file_attributes"), Pre("before"), Post("after")>>,
     resfail |-> <<Post("file_attributes"), Pre("before"), Post("after")>>]

ListOk(list) ==
    <<Post("dir_attributes"), F("cookieverf", "verf3"), F("entries", list), F("eof", "uint32")>>

READDIR3 ==
    [args    |-> <<Fh("dir"), F("cookie", "uint64"), F("cookieverf", "verf3"),
                   F("count", "uint32")>>,
     resok   |-> ListOk("entry3"),
     resfail |-> <<Post("dir_attributes")>>]

READDIRPLUS3 ==
    [args    |-> <<Fh("dir"), F("cookie", "uint64"), F("cookieverf", "verf3"),
                   F("dircount", "uint32"), F("maxcount", "uint32")>>,
     resok   |-> ListOk("entryplus3"),
     resfail |-> <<Post("dir_attributes")>>]

FSSTAT3 ==
    [args    |-> <<Fh("fsroot")>>,
     resok   |-> <<Post("obj_attributes"), F("tbytes", "uint64"), F("fbytes", "uint64"),
                   F("abytes", "uint64"), F("tfiles", "uint64"), F("ffiles", "uint64"),
                   F("afiles", "uint64"), F("invarsec", "uint32")>>,
     resfail |-> <<Post("obj_attributes")>>]

FSINFO3 ==
    [args    |-> <<Fh("fsroot")>>,
     resok   |-> <<Post("obj_attributes"), F("rtmax", "uint32"), F("rtpref", "uint32"),
                   F("rtmult", "uint32"), F("wtmax", "uint32"), F("wtpref", "uint32"),
                   F("wtmult", "uint32"), F("dtpref", "uint32"), F("maxfilesize", "uint64"),
                   F("time_delta", "nfstime3"), F("properties", "uint32")>>,
     resfail |-> <<Post("obj_attributes")>>]

PATHCONF3 ==
    [args    |-> <<Fh("object")>>,
     resok   |-> <<Post("obj_attributes"), F("linkmax", "uint32"), F("name_max", "uint32"),
                   F("no_trunc", "uint32"), F("chown_restricted", "uint32"),
                   F("case_insensitive", "uint32"), F("case_preserving", "uint32")>>,
     resfail |-> <<Post("obj_attributes")>>]

COMMIT3 ==
    [args    |-> <<Fh("file"), F("offset", "uint64"), F("count", "uint32")>>,
     resok   |-> <<Pre("before"), Post("after"), F("verf", "verf3")>>,
     resfail |-> Wcc]

(* mount.h: only MNT answers a structure with arms; there is no resfail.   *)
mountres3 ==
    [args    |-> <<F("path", "dirpath")>>,
     resok   |-> <<Fh("fhandle"), F("auth_flavors", "int_array")>>,
     resfail |-> <<>>]

Struct ==
    [GETATTR |-> GETATTR3, SETATTR |-> SETATTR3, LOOKUP |-> LOOKUP3, ACCESS |-> ACCESS3,
     READLINK |-> READLINK3, READ |-> READ3, WRITE |-> WRITE3, CREATE |-> CREATE3,
     MKDIR |-> MKDIR3, SYMLINK |-> SYMLINK3, MKNOD |-> MKNOD3, REMOVE |-> REMOVE3,
     RMDIR |-> RMDIR3, RENAME |-> RENAME3, LINK |-> LINK3, READDIR |-> READDIR3,
     READDIRPLUS |-> READDIRPLUS3, FSSTAT |-> FSSTAT3, FSINFO |-> FSINFO3,
     PATHCONF |-> PATHCONF3, COMMIT |-> COMMIT3, MNT |-> mountres3]

Proc == DOMAIN Struct
=============================================================================
