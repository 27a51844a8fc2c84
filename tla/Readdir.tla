------------------------------ MODULE Readdir ------------------------------
(***************************************************************************)
(* A client lists a directory page by page while other requests, or other  *)
(* programs, change it: nfsproc3_readdir_3_svc (nfs.c) and the loop of     *)
(* go_readdir_full (unfs2go_exports.go).  The server keeps no state between *)
(* pages.  A cookie is an index into the listing the backend makes anew for *)
(* every page, so entries made or removed meanwhile shift what it means.   *)
(* On the wire it is any unsigned number; the loop takes it for an int.    *)
(*                                                                         *)
(* Abstracted: the backend lists the entries that stay in the same order   *)
(* every time; numbers of entries are in NfsServer; the two copies of a    *)
(* reply over UDP are the same page.  The client begins with cookie 0 or   *)
(* with one no page gave it, asks until it sees eof, and gives up when it  *)
(* gets an error or nothing.                                               *)
(***************************************************************************)
EXTENDS Integers, Sequences, Functions

CONSTANTS
    Name,           \* names of entries
    NameLen,        \* their lengths in bytes
    PTRBYTES,       \* 4 or 8, after the machine
    MAX_ENTRIES,    \* entries of the two static arrays (170)
    CountMod,       \* a count3 is a number modulo CountMod (2^32)
    CookieMod,      \* a cookie3 is a number modulo CookieMod (2^64)
    Asked,          \* the counts clients ask for
    Cookies,        \* the cookies, other than 0, a walk can begin with
    Dirs,           \* what the directory can hold when the walk begins
    MaxChanges      \* bound: changes of the directory

(* Go's int, as wide as a pointer: its largest value, and what it makes of *)
(* an unsigned number modulo mod.                                          *)
MaxInt == (IF PTRBYTES = 4 THEN CountMod ELSE CookieMod) \div 2 - 1
AsInt(n, mod) == IF n >= mod \div 2 THEN n - mod ELSE n

ASSUME ReaddirAssumption ==
    /\ NameLen \in [Name -> Nat \ {0}]
    /\ PTRBYTES \in {4, 8}
    /\ MAX_ENTRIES \in Nat
    /\ MaxChanges \in Nat
    /\ CountMod \in Nat /\ CountMod > 8192
    /\ CookieMod \in Nat /\ CookieMod >= CountMod
    /\ Dirs \subseteq {d \in Seq(Name) : IsInjective(d) /\ Len(d) <= MaxInt}
    /\ Cookies \subseteq 0 .. CookieMod - 1
    /\ Asked \subseteq 0 .. CountMod - 1

VARIABLES
    dir,        \* the directory: its names, in the order they are listed
    pc,         \* where the walk is
    asked,      \* the client's count
    cookie,     \* the client's cookie
    start,      \* history: the cookie the walk began with
    arr,        \* the listing the call works on
    i,          \* the loop's index
    budget,     \* maxByteCount
    page,       \* the entries array: <<name, cookie>>
    res,        \* what the call returns
    bytes,      \* history: bytes of the READDIR3resok so far
    seen,       \* history: the names this walk was given
    twice,      \* history: those it was given more than once
    added, removed,  \* history: was an entry made, or removed, during the walk?
    stayed,     \* history: names there, past its first cookie, since it began
    changes

client  == <<asked, cookie, start, seen, twice>>
server  == <<arr, i, budget, page, res, bytes>>
history == <<added, removed, stayed>>
vars == <<dir, pc, client, server, history, changes>>

RESOK_SIZE == 104       \* nfs.h: heading of the reply
ENTRY_SIZE == 24        \* nfs.h: an entry without its name
ReplyLimit == 4096      \* "we refuse to return more than 4k from READDIR"
NAME_SIZE(n) == ((n + 3) \div 4) * 4

-----------------------------------------------------------------------------
(* nfs.c: the count handed on, an unsigned number.                         *)
Clip(count) == IF count > ReplyLimit THEN ReplyLimit ELSE count
CountLeft(count) == (Clip(count) - RESOK_SIZE) % CountMod
(* int(count) and int(cookie): where int has four bytes, a count can turn  *)
(* negative and a cookie loses its upper half; where it has eight, a count *)
(* fits, and a cookie from half of its range on is negative.               *)
ToInt(count) == IF PTRBYTES = 4 THEN AsInt(count, CountMod) ELSE count
StartIndex(k) ==
    IF PTRBYTES = 4 THEN AsInt(k % CountMod, CountMod) ELSE AsInt(k, CookieMod)

(* Mutant: the pointers in the entry are forgotten.                        *)
EntryCost_NoPointers(name) == NameLen[name] + 1 + 16
EntryCost(name) == NameLen[name] + 1 + 16 + 2 * PTRBYTES
(* What the XDR routines make of the entry.                                *)
EntryBytes(name) == ENTRY_SIZE + NAME_SIZE(NameLen[name])

(* Mutant: one entry too many fits.                                        *)
ArraysFull_OffByOne == i - StartIndex(cookie) > MAX_ENTRIES
ArraysFull == i - StartIndex(cookie) >= MAX_ENTRIES

(* The loop's test.  Mutant: it lets the length of the listing through.    *)
InLoop_OffByOne == i <= Len(arr)
InLoop == i < Len(arr)

(* Mutants: the cookie of an entry is its own index, or skips one.         *)
EntryCookie_Own(k) == k
EntryCookie_Skips(k) == k + 2
EntryCookie(k) == k + 1

-----------------------------------------------------------------------------
(* The client opens the directory, or seeks in it.                         *)
Past(k) == {dir[p] : p \in {q \in 1 .. Len(dir) : q > k}}

StartWalk ==
    /\ pc = "idle"
    /\ asked' \in Asked
    /\ cookie' \in {0} \cup Cookies /\ start' = cookie'
    /\ seen' = {} /\ twice' = {}
    /\ added' = FALSE /\ removed' = FALSE /\ stayed' = Past(StartIndex(cookie'))
    /\ pc' = "call"
    /\ UNCHANGED <<dir, server, changes>>

(* The call: the arrays are cleared, the count cut, the directory read.    *)
Begin_NoCheck ==
    /\ pc = "call"
    /\ page' = <<>> /\ bytes' = RESOK_SIZE
    /\ budget' = ToInt(CountLeft(asked))
    /\ i' = StartIndex(cookie)
    /\ arr' = dir
    /\ pc' = "scan" /\ res' = "none"
    /\ UNCHANGED <<dir, client, history, changes>>

Begin ==
    /\ pc = "call"
    /\ page' = <<>> /\ bytes' = RESOK_SIZE
    /\ budget' = ToInt(CountLeft(asked))
    /\ i' = StartIndex(cookie)
    /\ \/ /\ arr' = dir
          /\ IF StartIndex(cookie) > Len(dir) THEN pc' = "reply" /\ res' = "BAD_COOKIE"
             ELSE pc' = "scan" /\ res' = "none"
       \/ arr' = <<>> /\ pc' = "reply" /\ res' = "ERR"      \* ReadDirectory fails
    /\ UNCHANGED <<dir, client, history, changes>>

(* One round of the loop; i counts from 0, arr from 1.                     *)
Entry ==
    LET name == arr[i + 1]
        left == budget - EntryCost(name)
    IN /\ pc = "scan" /\ InLoop /\ i + 1 \in DOMAIN arr
       /\ budget' = left
       /\ IF left < 0 \/ ArraysFull
          THEN /\ res' = "MORE" /\ pc' = "reply"
               /\ UNCHANGED <<i, page, bytes>>
          ELSE /\ page' = Append(page, <<name, EntryCookie(i)>>)
               /\ bytes' = bytes + EntryBytes(name)
               /\ i' = i + 1
               /\ UNCHANGED <<pc, res>>
       /\ UNCHANGED <<dir, client, arr, history, changes>>

(* An index outside the listing: Go panics at arr[i], which nothing        *)
(* recovers, and the process is gone.                                      *)
Panic ==
    /\ pc = "scan" /\ InLoop /\ i + 1 \notin DOMAIN arr
    /\ pc' = "crashed"
    /\ UNCHANGED <<dir, client, server, history, changes>>

(* The loop ends: the end of the listing is reached, and eof answered.     *)
Eof ==
    /\ pc = "scan" /\ ~InLoop
    /\ res' = "OK" /\ pc' = "reply"
    /\ UNCHANGED <<dir, client, arr, i, budget, page, bytes, history, changes>>

(* The client goes on from the last cookie of the page.                    *)
Given == {page[k][1] : k \in 1 .. Len(page)}

Receive ==
    /\ pc = "reply"
    /\ seen' = IF res \in {"OK", "MORE"} THEN seen \cup Given ELSE seen
    /\ twice' = IF res \in {"OK", "MORE"} THEN twice \cup (seen \cap Given) ELSE twice
    /\ IF res = "MORE" /\ page # <<>>
       THEN pc' = "call" /\ cookie' = page[Len(page)][2]
       ELSE pc' = (IF res = "OK" THEN "done" ELSE "failed") /\ UNCHANGED cookie
    /\ UNCHANGED <<dir, asked, start, server, history, changes>>

(* Other requests and programs; a listing is no longer than an int counts. *)
InsertAt(s, k, x) ==
    [j \in 1 .. Len(s) + 1 |-> IF j < k THEN s[j] ELSE IF j = k THEN x ELSE s[j - 1]]
DeleteAt(s, k) == [j \in 1 .. Len(s) - 1 |-> IF j < k THEN s[j] ELSE s[j + 1]]

MakeEntry ==
    /\ changes < MaxChanges /\ changes' = changes + 1
    /\ Len(dir) < MaxInt
    /\ \E x \in Name \ Range(dir), k \in 1 .. Len(dir) + 1 : dir' = InsertAt(dir, k, x)
    /\ added' = TRUE
    /\ UNCHANGED <<pc, client, server, removed, stayed>>

RemoveEntry ==
    /\ changes < MaxChanges /\ changes' = changes + 1
    /\ \E k \in 1 .. Len(dir) :
          /\ dir' = DeleteAt(dir, k)
          /\ stayed' = stayed \ {dir[k]}
    /\ removed' = TRUE
    /\ UNCHANGED <<pc, client, server, added>>

-----------------------------------------------------------------------------
Init ==
    /\ dir \in Dirs
    /\ pc = "idle" /\ asked = 0 /\ cookie = 0 /\ start = 0
    /\ seen = {} /\ twice = {}
    /\ arr = <<>> /\ i = 0 /\ budget = 0 /\ page = <<>> /\ res = "none" /\ bytes = 0
    /\ added = FALSE /\ removed = FALSE /\ stayed = {} /\ changes = 0

Next ==
    \/ StartWalk \/ Begin \/ Entry \/ Panic \/ Eof \/ Receive
    \/ MakeEntry \/ RemoveEntry

(* The server thread and the client that waits for it keep going.          *)
Spec == Init /\ [][Next]_vars
             /\ WF_vars(Begin) /\ WF_vars(Entry) /\ WF_vars(Panic) /\ WF_vars(Eof)
             /\ WF_vars(Receive)

-----------------------------------------------------------------------------
(* Types; and the loop's index lies between where the loop began, which a  *)
(* cookie can put before the listing, and the listing's end.               *)
TypeOK ==
    /\ dir \in Seq(Name) /\ IsInjective(dir) /\ Len(dir) <= MaxInt
    /\ pc \in {"idle", "call", "scan", "reply", "done", "failed", "crashed"}
    /\ asked \in 0 .. CountMod - 1
    /\ cookie \in 0 .. CookieMod - 1 /\ start \in 0 .. CookieMod - 1
    /\ arr \in Seq(Name) /\ Len(arr) <= MaxInt /\ i \in Int /\ budget \in Int
    /\ page \in Seq(Name \X Nat) /\ bytes \in Nat
    /\ res \in {"none", "OK", "MORE", "BAD_COOKIE", "ERR"}
    /\ seen \subseteq Name /\ twice \subseteq Name /\ stayed \subseteq Name
    /\ added \in BOOLEAN /\ removed \in BOOLEAN /\ changes \in 0 .. MaxChanges
    /\ pc = "scan" => i \in StartIndex(cookie) .. Len(arr)

(* A walk ends the server only if it began with a cookie that int(cookie)  *)
(* (exports.go:65) makes negative, which the comparison with the length at *)
(* line 93 lets through.  A cookie the server gave never does, however the *)
(* directory changed before the client came back with it.                  *)
WalkNeverPanics == pc = "crashed" => StartIndex(start) < 0

(* Where a pointer has eight bytes and the client leaves room for the      *)
(* heading, a page never takes more of the reply than the client asked for *)
(* and never more than 4k: the loop (exports.go:104) pays for an entry in  *)
(* bytes of memory, which are more than the bytes it takes on the wire.    *)
PageFits ==
    (PTRBYTES = 8 /\ asked >= RESOK_SIZE /\ pc # "idle") => bytes <= Clip(asked)

(* The loop never writes past the two static arrays of nfs.c:440, which it *)
(* was told the size of.                                                   *)
PageInArrays == Len(page) <= MAX_ENTRIES

(* A walk that reached eof was given every name that was past its first    *)
(* cookie and stayed in the directory throughout, if nothing was removed   *)
(* meanwhile: entries made only shift names to cookies still to come.      *)
NothingMissed == (pc = "done" /\ ~removed) => stayed \subseteq seen

(* A walk is given no name twice if no entry was made meanwhile: entries   *)
(* removed only shift names to cookies already past.                       *)
NothingTwice == ~added => twice = {}

(* A walk comes to an end; and to eof, unless the backend failed, its      *)
(* first cookie was not 0, an entry was removed meanwhile (its cookie may  *)
(* lie past the end), or the client has no room for one entry, which it is *)
(* told by an empty page without eof instead of the error TOOSMALL.        *)
RoomForOne ==
    /\ MAX_ENTRIES > 0
    /\ \A name \in Name : ToInt(CountLeft(asked)) >= EntryCost(name)
WalkEnds ==
    pc = "call" ~> (\/ pc = "done"
                    \/ /\ pc = "failed"
                       /\ \/ res = "ERR" \/ removed \/ ~RoomForOne
                          \/ res = "BAD_COOKIE" /\ StartIndex(start) > 0
                    \/ pc = "crashed" /\ StartIndex(start) < 0)
=============================================================================
