------------------------------- MODULE Mountd -------------------------------
(***************************************************************************)
(* The mount protocol of unfs3/mount.c: the list of mounts that DUMP shows *)
(* and the counter beside it, with the handle table MNT takes the root     *)
(* handle's number from.  The NFS procedures change the tree between two   *)
(* calls, so the path of an MNT may be a directory, a file or nothing each *)
(* time it is looked at.                                                   *)
(*                                                                         *)
(* A dirpath is <<path, spelling>>: the list compares and keeps the string *)
(* the client sent, the Go side sees only the cleaned path.                *)
(***************************************************************************)
EXTENDS FdTable

CONSTANTS
    Host,        \* the addresses requests come from
    LocalHost,   \* 127.0.0.1
    Dirpath,     \* the strings clients send, as <<path, spelling>>
    MaxPathLen,  \* stands for NFS_MAXPATHLEN
    MaxMounts,   \* bound: the entries of the list
    MaxFD        \* bound: numbers the table hands out

ASSUME MountdAssumption ==
    /\ LocalHost \in Host
    /\ NULL \notin Dirpath
    /\ \A d \in Dirpath : d[1] \in Path

VARIABLES
    mount_list,  \* sequence of [ml_hostname, ml_directory]
    mount_cnt,
    fddb,
    last         \* history: the last request and its answer

vars == <<mount_list, mount_cnt, fddb, last>>

Clean(dpath) == dpath[1]

(* unfs2go_exports.go: go_accept_mount.                                    *)
go_accept_mount(host) == IF host = LocalHost THEN "OK" ELSE "ACCES"

-----------------------------------------------------------------------------
(* Mutant: the counter goes up whether or not there is an entry.           *)
add_mount_CountsFailure(host, dpath) ==
    /\ mount_cnt' = mount_cnt + 1
    /\ mount_list' \in {mount_list,
                        Append(mount_list, [ml_hostname |-> host, ml_directory |-> dpath])}

(* add_mount: an entry at the end, or nothing when a malloc fails: it      *)
(* returns void, and MNT answers OK all the same.                          *)
add_mount(host, dpath) ==
    \/ /\ mount_list' = Append(mount_list, [ml_hostname |-> host, ml_directory |-> dpath])
       /\ mount_cnt' = mount_cnt + 1
    \/ UNCHANGED <<mount_list, mount_cnt>>

(* remove_mount walks the chain of entries once: one step per entry, which *)
(* unlinks the entry, from the head or from the last one kept (prev), or   *)
(* keeps it.  Nodes are the positions of mount_list, 0 is NULL.            *)
(* As a mutant, prev moves on to the entry that is taken out.              *)
Unlink_AdvancesPrev(s) ==
    [s EXCEPT !.head = IF s.prev = 0 THEN s.next[s.iter] ELSE @,
              !.next = IF s.prev = 0 THEN @ ELSE [@ EXCEPT ![s.prev] = s.next[s.iter]],
              !.prev = s.iter,
              !.iter = s.next[s.iter],
              !.cnt  = IF @ > 0 THEN @ - 1 ELSE 0]

Unlink(s) ==
    [s EXCEPT !.head = IF s.prev = 0 THEN s.next[s.iter] ELSE @,
              !.next = IF s.prev = 0 THEN @ ELSE [@ EXCEPT ![s.prev] = s.next[s.iter]],
              !.iter = s.next[s.iter],
              !.cnt  = IF @ > 0 THEN @ - 1 ELSE 0]

Skip(s) == [s EXCEPT !.prev = s.iter, !.iter = s.next[s.iter]]

(* The entries of host for the string path, all of them for NULL.          *)
Matches(entry, host, path) ==
    entry.ml_hostname = host /\ (path = NULL \/ entry.ml_directory = path)

Walk(host, path) ==
    LET n == Len(mount_list)
        first == IF n = 0 THEN 0 ELSE 1
        s[k \in 0..n] ==
            IF k = 0
            THEN [head |-> first, prev |-> 0, iter |-> first, cnt |-> mount_cnt,
                  next |-> [i \in 1..n |-> IF i = n THEN 0 ELSE i + 1]]
            ELSE IF Matches(mount_list[s[k-1].iter], host, path)
                 THEN Unlink(s[k-1]) ELSE Skip(s[k-1])
    IN s[n]

(* The entries from node i on.                                             *)
Chain(s) ==
    LET from[i \in 0..Len(mount_list)] ==
            IF i = 0 THEN << >> ELSE <<mount_list[i]>> \o from[s.next[i]]
    IN from[s.head]

remove_mount(host, path) ==
    /\ mount_list' = Chain(Walk(host, path))
    /\ mount_cnt' = Walk(host, path).cnt

Answered(op, host, dpath, st, fh) ==
    last' = [op |-> op, host |-> host, dpath |-> dpath, status |-> st, fh |-> fh]

(* The number MNT answers with comes from the lstat at its start, made     *)
(* before it is known whether the host is accepted.                        *)
Mnt(host, vers, dpath, kind) ==
    LET path  == Clean(dpath)
        found == vers = 3 /\ kind # "none"
        status == IF vers # 3 THEN "INVAL"
                  ELSE IF kind = "none" THEN "NOENT"
                  ELSE IF Len(path) + 1 > MaxPathLen THEN "NAMETOOLONG"
                  ELSE IF go_accept_mount(host) # "OK" THEN "ACCES"
                  ELSE IF kind # "DIR" THEN "NOTDIR" ELSE "OK"
    IN /\ path = Root => kind = "DIR"
       /\ Len(mount_list) < MaxMounts
       /\ fddb' = IF found THEN GetFD(fddb, path) ELSE fddb
       /\ fddb'.FDcounter <= MaxFD
       /\ IF status = "OK" THEN add_mount(host, dpath)
                           ELSE UNCHANGED <<mount_list, mount_cnt>>
       /\ Answered("MNT", host, dpath, status,
                   IF status = "OK" THEN FDOf(fddb, path) ELSE NoFD)

Umnt(host, dpath) ==
    /\ remove_mount(host, dpath)
    /\ Answered("UMNT", host, dpath, "OK", NoFD)
    /\ UNCHANGED fddb

Umntall(host) ==
    /\ remove_mount(host, NULL)
    /\ Answered("UMNTALL", host, <<Root, 0>>, "OK", NoFD)
    /\ UNCHANGED fddb

(* NULL, DUMP and EXPORT only look.                                        *)
Look == UNCHANGED vars

(* The NFS procedures give numbers to paths, and rename them.              *)
NfsNumbers(path) ==
    /\ fddb' = GetFD(fddb, path)
    /\ fddb'.FDcounter <= MaxFD
    /\ UNCHANGED <<mount_list, mount_cnt, last>>

NfsRenames(old, new) ==
    /\ Movable(old, new)
    /\ old # Root
    /\ fddb' = ReplacePath(fddb, old, new, TRUE)
    /\ UNCHANGED <<mount_list, mount_cnt, last>>

-----------------------------------------------------------------------------
Init == /\ mount_list = << >>
        /\ mount_cnt = 0
        /\ fddb = EmptyTable
        /\ last = [op |-> "none", host |-> LocalHost, dpath |-> <<Root, 0>>,
                   status |-> "OK", fh |-> NoFD]

MountPath == {d[1] : d \in Dirpath}

Next ==
    \/ \E host \in Host, dpath \in Dirpath :
          \/ \E vers \in {1, 3}, kind \in {"DIR", "REG", "none"} : Mnt(host, vers, dpath, kind)
          \/ Umnt(host, dpath)
    \/ \E host \in Host : Umntall(host)
    \/ Look
    \/ \E path \in MountPath : NfsNumbers(path)
    \/ \E old, new \in MountPath : NfsRenames(old, new)

Spec == Init /\ [][Next]_vars

-----------------------------------------------------------------------------
Entry == [ml_hostname : Host, ml_directory : Dirpath]

(* Type: a list of entries, a count, a table.                              *)
TypeOK == /\ mount_list \in Seq(Entry)
          /\ mount_cnt \in Nat
          /\ TableType(fddb)
          /\ last.host \in Host

(* The counter is the length of the list DUMP shows, whatever mounts were  *)
(* repeated, lost to a failed malloc or taken out several at a time.       *)
CountMatchesList == mount_cnt = Len(mount_list)

(* t holds the entries of s at the positions in keep, in their order.      *)
Selected(s, keep, t) ==
    \E at \in [1..Len(t) -> keep] :
        /\ \A i, j \in 1..Len(t) : i < j => at[i] < at[j]
        /\ \A k \in keep : \E i \in 1..Len(t) : at[i] = k
        /\ \A i \in 1..Len(t) : t[i] = s[at[i]]

(* UMNT takes out every entry of this host for this string, UMNTALL every  *)
(* entry of this host, and both leave all the others, in their order.      *)
UnmountStep ==
    LET gone(e) == /\ e.ml_hostname = last'.host
                   /\ last'.op = "UMNTALL" \/ e.ml_directory = last'.dpath
    IN last'.op \in {"UMNT", "UMNTALL"} /\ last' # last
          => Selected(mount_list, {i \in 1..Len(mount_list) : ~gone(mount_list[i])}, mount_list')
UnmountsExactly == [][UnmountStep]_vars

(* An MNT that is answered OK carries a handle that resolves to the        *)
(* directory it names, number 0 apart; the root never has number 0.        *)
MntStep ==
    last'.op = "MNT" /\ last'.status = "OK" /\ last' # last =>
        \/ GetPath(fddb', last'.fh) = Clean(last'.dpath)
        \/ last'.fh = NoFD /\ Clean(last'.dpath) # Root
MntHandleResolves == [][MntStep]_vars
=============================================================================
