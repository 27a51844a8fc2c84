# UNFS2GO in TLA+

UNFS2GO is a user-mode NFSv3 server: the RPC side is C (a cut-down UNFS3,
`unfs3/*.c`), the file side is Go (`unfs2go.go`, `unfs2go_exports.go`) on top of
any implementation of the `minfs.MinFS` interface. These modules model the
server's own logic, TLC checks it on small instances, and TLAPS proves for all
instances every safety property that the passing runs check: of the handle table and
its refinement, of the procedures, of requests that are repeated or cut off, of the
mount list, of start and end, of READDIR's pages, and of what goes over the wire.

## 1. The system

| component | code | state it keeps | operations |
|---|---|---|---|
| file handle table | `unfs2go_exports.go:491-550` (`fdCache`) | `PathMapA` path -> number, `PathMapB` number -> path, `FDcounter` | `GetFD`, `GetPath`, `ReplacePath` |
| exported functions | `unfs2go_exports.go:24-489` (`go_*`) | none beside the table and the backend | lstat, create, createover, remove, rmdir, mkdir, rename, truncate, chmod, modtime, pread, pwrite, sync, readdir |
| NFS procedures | `unfs3/nfs.c` | a static result for each, static buffers behind them | the 22 procedures of NFSv3 |
| handles, attributes | `unfs3/fh.c`, `unfs3/attr.c` | none | `fh_decomp`, `fh_comp`, `get_pre`, `get_post` |
| mount daemon | `unfs3/mount.c` | `mount_list`, `mount_cnt` | MNT, DUMP, UMNT, UMNTALL, EXPORT |
| daemon | `unfs3/daemon.c`, `unfs2go.go` | registrations with the portmapper, the open backend | start, register, serve, `daemon_exit`, Ctrl-C |
| backend | not in the repository (`minfs`) | the file tree | stat, create, remove, move, ... |
| XDR | `unfs3/xdr.c` and headers | none | decoding of arguments, encoding of results |

How they interact. `unfs3_svc_run` is a single thread: it decodes one request,
calls one procedure, sends the reply, and only then takes the next. A procedure
turns the handle into a path (`fh_decomp` -> `go_fgetpath` -> `GetPath`), perhaps
appends a name (`cat_name`), calls one or two `go_` functions on the path, and
stats the object before and after for the reply (`get_pre`, `get_post`). **Each
of those stats calls `GetFD` and so may hand out a number**; the number is at once
the body of the file handle and the fileid of the object. Only `go_rename` tells
the table that the tree has changed. The second thread is the goroutine in `main`
that waits for Ctrl-C and closes the backend under the C thread's feet. The
portmapper outlives the process and remembers what earlier ones registered.

What is hard here, and what makes each part correct:

* the table's two maps are updated separately and never shrink; a handle must go
  on naming the object it was issued for, whatever is renamed (also a directory
  above it, also over an existing file), and must never come to name another one
  that exists at the same time;
* the procedures combine several calls that fail separately, and work on paths
  that may be NULL, stale, or end in `.` and `..`; a refusal should leave the tree
  alone and a success should destroy and alter only what was asked for;
* a client over UDP sends its request again when no answer comes; there is no cache of
  replies, so each copy is executed, perhaps by the next process, perhaps on what the
  one before left half done;
* a directory is listed in pages whose cookies are indices into a listing that
  changes, taken as signed numbers from a client that may send any, within a byte
  budget kept in unsigned numbers and two static arrays;
* results are static unions filled in one arm and encoded from the other, and the
  pointers in them lead to static buffers;
* the mount list relinks itself while it is walked, and is shadowed by a counter;
* the process can end in seven ways, from two threads, half way through
  registering or unregistering with the portmapper.

`PROJECT.json` lists these hazards one by one with the line where each bites.

## 2. Modules

```
Paths ── FdTable ─┬─ FdCache ── MCFdCache          (FdCache instantiates HandleTable)
                  ├─ GoExports (with MinFS) ─┬─ NfsServer ── MCNfsServer
                  │                          └─ Requests ── MCRequests
                  └─ Mountd ── MCMountd
Readdir ── MCReaddir
Layout ── Xdr ── Wire ── MCWire
Lifecycle

proofs:
FdTableProofs ─┬─ FdCacheProofs
               ├─ GoExportsProofs ─┬─ NfsServerProofs
               │                   └─ RequestsProofs
               └─ MountdProofs
ReaddirProofs, DaemonProofs
```

Each `XProofs` extends the module `X` that it is about; `DaemonProofs` is about the two
modules of `daemon.c` that share no state, Lifecycle and Wire, whose names differ for
that reason (`WireInit`, `WireNext`, `WireSpec`).

**Paths.** A path is a sequence of names: what `pathpkg.Clean("/" + p)` leaves.
`Under` is the `HasPrefix(path, oldpath + "/")` test of `ReplacePath`, `Rebase` its
`strings.Replace`. The two differ from the code in one corner: for the root the
prefix is `"//"`, which no clean path has. `Movable` keeps the root out, as the
backend's refusal to move a directory into itself does.

**FdTable** is the table as a value with its methods as operators, so that a
handler that makes three lookups can thread one table through all of them.
`ReplacePath` is written as one map; the Go loop visits the map in an arbitrary
order while changing it, and the two agree because a re-rooted path never lies
below the old one (so it is not visited twice to any effect). The one trace of the
order is `PathMapB[0]`, which `GetPath` never reads.

**FdCache** is the table as a state machine: any lookup, any rename the backend
would let through, a restart. **HandleTable** is what the table promises, without
the two maps: live handles follow their object, a handle whose path is taken over
by another object is dead and stays where it is, and an object renamed before it
had a handle is lost. `FollowsObjects == H!Spec` says that FdCache implements it,
under the mapping `live`, `dead`, `lost` in FdCache. Both keep one history variable,
`asdir`: whether the last rename was of a directory. Without it a rename that forgets
the children of a directory would pass for the rename of a file.

**MinFS** is the backend, from what the exported functions rely on: a call that
changes the tree takes effect at once or fails, and may always fail with an error
`errTranslator` does not know (which becomes `NFS3ERR_IO`). An object has an
identity that survives renames; the code has none, it is there to state properties.

**GoExports** holds the exported functions, `cat_name` and `create_mode`: operators that
map a server state `s = [fs, fddb]` to the set of `[status, s]` that the call can return
and leave.

**NfsServer** has one action per procedure, which threads a server state through the
calls of the C function in their order; RENAME decodes its second handle in the table
that the stat of its first directory leaves.
`Answer` records the reply, `GiveHandle` the handle in it (`issued` holds number and
object, `held` what clients kept across a restart). Undefined behaviour is a choice:
after `cat_name` has refused, `CREATE` uses an `obj` buffer that nobody filled, so the
model takes any path; `EXCLUSIVE` takes any mode.

**Requests** takes the procedures apart that make several calls of the backend. `Begin`
is the arrival of a copy of a request (its checks and the stats before the first call),
`Step` one call that changes the tree, `Finish` what comes after the last one and the
reply. Between any two of them the process may end (`Exit`) and a new one start with an
empty table. The client makes one request after the other, asks again at any time
(`AskAgain`: a timeout may be premature), and takes any answer that comes; `Lose` drops
a copy or a reply. What a request's calls are is decided at `Begin` (`CreateCalls`,
`SetattrCalls`, ...). The stats before and after go with the step they are next to: the
table they change does not outlive the process. Requests of other clients are left out.
Two history variables serve the properties: `last` is the last execution that was
answered OK while no other request was executed, and `undisturbed` says that the last
request was made with handles this process resolves and that no copy of an earlier one
was executed since.

**Readdir** is `nfsproc3_readdir_3_svc`, the loop of `go_readdir_full` round by round, the
client that walks through the pages, and what changes the directory meanwhile. Names
are a length; the backend lists entries that stay in the same order each time. A
client's count and the budget made from it are numbers modulo `CountMod`, which stands
for 2^32, a cookie one modulo `CookieMod`, for 2^64. `ToInt` and `StartIndex` are Go's
`int(count)` and `int(cookie)` on a machine with 4 or 8 byte pointers. A walk begins with
cookie 0 or with one that no page gave it (`Cookies`). A cookie that `int` makes negative
passes the comparison with the length of the listing, and `Panic` is the index out of
range that follows and ends the process.

**Layout**, **Xdr** and **Wire** are about memory and bytes. Layout has the structures
of `nfs.h` and `mount.h`, member by member in the order of declaration; Xdr the routines
of `xdr.c`, in the order in which they encode, with the size of each item and the unions
of the arguments. In Wire every procedure reads some of the decoded arguments and writes
some members of its static result, and the reply is encoded from the arm that the status
selects. A value is who wrote it: a request's number, zeroed memory, or memory that
nobody wrote. The same holds of the arguments: `cleared` is what a member that the
decoder skipped reads as. A time_how is any number on the wire, and one outside the
enumeration is decoded as no time and served as the client's. Two members of different
arms share a cell when the types up to and including them agree, which is what C
promises of a union's common initial sequence; a write to any other member spoils the
cells that do not line up with it. An encoding is how many bytes it has and from which
fields they come, written by whom. A READ's count, how much of the file lies behind its
offset, and the names on READDIR's page are CONSTANTS. `sent` records what was asked,
what the file still had and what was sent, or the page.

**Mountd** is `mount.c`. `remove_mount` is its pointer walk, entry by entry, with
`prev`, `iter` and the links, since that is where it could go wrong. A dirpath is a
clean path and a spelling, because the list compares strings (`/a` and `/a/` are two
entries) and the Go side only sees the clean path. Only 127.0.0.1 is accepted, so
entries of other hosts never arise; `Umnt` from another host must take out nothing.

**Lifecycle** interleaves the C thread and the goroutine step by step, and lets
processes follow one another over one portmapper. `callouts` are the services the RPC
library has entered for the process: `svc_register` enters one before it asks the
portmapper, and `svc_unregister` does nothing for a service without one, unlike
`pmap_unset`, which frees whatever is there.

## 3. What the runs check

| run | module, cfg | properties | instance |
|---|---|---|---|
| fdcache | MCFdCache, FdCache.cfg | TypeOK, TableConsistent, SupersededFrozen, FollowsObjects | 2 names, paths of up to 2 components, 2 numbers, at most 4 known paths |
| namespace | MCNfsServer, Namespace.cfg | TypeOK, FileidsDiffer, HandleFollowsObject, DestroysOneAtMost | 2 names, `.` and `..`, 2 levels, 3 objects, 3 numbers |
| attributes | MCNfsServer, Attributes.cfg | HandleFollowsObject, RefusedLeavesTree, OnlyWritersAlter, StaleDirectoryRefused | 1 file, 2 modes, sizes 0 and 1, a refused name, one restart |
| mountd | MCMountd, Mountd.cfg | TypeOK, CountMatchesList, UnmountsExactly, MntHandleResolves | 2 hosts, 4 mounts, 2 numbers, one path in two spellings |
| lifecycle | Lifecycle, Lifecycle.cfg | TypeOK, ServingIsRegistered, RegistrationFindsFreeSlot, ErrorExitUnregisters, BackendClosedBeforeExit, ShutdownCompletes | 2 processes |
| requests | MCRequests, Requests.cfg | TypeOK, CutIsClean, SetattrOkSetsAll, RepeatKeepsObjects, AnswerIsTrue, EveryRequestAnswered | 2 requests out of 8, one copy of each on its way at a time, one loss or one end of the process, 2 names, 2 times, 1 new object |
| readdir | MCReaddir, Readdir.cfg | TypeOK, WalkNeverPanics, PageFits, PageInArrays, NothingMissed, NothingTwice, WalkEnds | up to 5 entries of 1 to 255 bytes, arrays of 2, counts 0, 110, 400 and 8192, first cookies 0, 1, 9 and the largest, 2 changes |
| wire | MCWire, Wire.cfg | ReplyIsThisRequests, ReadsDecoded, ReplyFits, ReaddirSizes, ReadStopsAtEof | any 2 requests, every outcome of their stats and unions, the real sizes, 5 counts, 10 files, 5 pages |

`FollowsObjects` is the refinement; `SupersededFrozen`, `DestroysOneAtMost`,
`StaleDirectoryRefused`, `RefusedLeavesTree`, `OnlyWritersAlter`, `UnmountsExactly` and
`MntHandleResolves` are action properties; `ShutdownCompletes`, `EveryRequestAnswered`
and `WalkEnds` are liveness properties. For each property of a passing run
`PROJECT.json` names a change of one mapped definition, of the kind a bug in that code
would be, under which TLC finds the property violated.

Why the bounds are enough. The table's interesting cases need one rename over a
known path, one directory rename with a known child, and one rename of an unknown
path: two names, two levels and two numbers give all of them, in every order. In
NfsServer the same holds with a third object, so that a target can be replaced while
something else lives; `InitialTrees` starts from a bare root and from a directory with
a file in it. `MaxDepth` stands for `NFS_MAXPATHLEN`: names one level too deep are
refused with NAMETOOLONG. The bounds on numbers and objects cut off runs that
need more; they are guards of `Answer` and hide no outcome of a call that fits. Four
mounts make two consecutive removals at the head, in the middle and at the end.
Two processes are one that leaves something behind and one that finds it.

In Requests an earlier request is one whose late copy disturbs the next, so two are
enough; one copy at a time still gives two executions of one request, since a copy may
be sent while the first is executed. Making more than `MaxObj` objects fails, as the
backend always may: one new object is enough for a request to find what it made itself.
The request set has each procedure with names that are and that are not there. In
Readdir the counts are one below the heading (it wraps), one with no room for an entry,
one that admits some names and not the longest with others, and one above the limit of
4k; the first cookies are the start, one within some listings, one past all, and one
that is negative as an int; an array of two is full before the listing ends, and a
change can come before, between and after the pages. In Wire what a reply may carry over
comes from the request before, and any procedure may come first. It reads 0, 1, the two
limits of the transports and twice the larger, from files that end before, at and after
the count and the byte behind it. Its pages are empty, of names whose padding differs,
the longest that keeps to 4k, and one of 170 long names, which a wrapped count lets
through.

Fairness. Lifecycle: weak fairness of the goroutine once it is closing and of the C
thread's steps after `daemon_exit` began. Both are plain code of a runnable thread;
nothing is assumed of requests, of signals, or of launches. `ns.Close` is assumed to
return, and the backend to answer. Requests: weak fairness of the C thread's steps
while the process is up, of a waiting client that asks again, and of its taking an
answer that has arrived; losses are finitely many, nobody has to start the process
again, and `EveryRequestAnswered` claims nothing once it has ended. Readdir: weak
fairness of the server's rounds and of the client that is waiting for them. The other
modules check safety only: a server need never be asked anything. The lifecycle,
requests, readdir and wire runs turn deadlock checking off because the system stops
after the last process, the client's last request, the end of the walk, and the last
request; all others check deadlock.

What the runs show beyond their names:

* A cut inside MKDIR, REMOVE, RMDIR or RENAME is invisible: they make one call. A cut
  inside an UNCHECKED CREATE can leave its name without a file, or with a new one whose
  mode is not yet set; a cut inside SETATTR leaves some of the attributes.
* A repeated request moves and destroys nothing, even though its answer may now be
  NOENT or EXIST; only an UNCHECKED CREATE makes its file anew each time. A client may
  read such an answer as "it is so", with the two exceptions that `AnswerIsTrue` names:
  not if a late copy of its previous request came in between, and not from a process
  that may take its handle for another.
* `daemon_exit` takes back what its process registered, not what an earlier one that was
  killed left behind: that stays until the next process's `pmap_unset`, which
  `RegistrationFindsFreeSlot` shows to come in time.
* No cookie of the server's ends it, however the directory changed before it came back;
  one that a client made up, from 2^63 on, does (`WalkNeverPanics` excepts only walks
  that begin with such a one).
* A SETATTR whose time_how is none of the three sets the time to zero: the procedure reads
  a member that the decoder skipped, which `nfs3_program_3` has cleared (`ReadsDecoded`).
* READDIR's cookies lose entries only if something was removed during the walk and
  repeat entries only if something was made; the cost of an entry in memory covers
  its cost on the wire because two pointers of eight bytes outweigh the padding.
* Results do not leak: the arms of every union agree as far as the procedures rely on
  it, but for five attributes that `statTranslator` never sets (nlink, uid, gid, used,
  rdev), and the byte behind each handle.

## 4. Where code and comments disagree

Each of these is a run of its own, with one property that restates a comment of the
source and a counterexample of the code's behaviour.

* **lost_handle** (`EveryHandleResolves`). `ReplacePath` reads `PathMapA[oldpath]` without
  testing for the key. RENAME of a file nobody has looked up enters the new name under
  number 0; every later LOOKUP gives out handle 0, which `GetPath` refuses. The file
  is there and cannot be used until the server restarts. HandleTable has `lost`, and
  several properties except number 0, for this reason.
* **stray_handle** (`StrayHandleChangesNothing`). Two causes, one property. The NULL
  path of an unresolved handle is cleaned to `/`, so SETATTR works on the root; CREATE
  overwrites the status of `cat_name` and makes its object wherever the buffer points.
  READ, WRITE, ACCESS and GETATTR have the first cause too; the directory operations
  are safe through `cat_name` (`StaleDirectoryRefused`), CREATE excepted.
* **empty_getattr** (`GetattrOkHasAttributes`). GETATTR never looks at whether the
  stat succeeded.
* **interrupt_exit** (`InterruptUnregisters`). Ctrl-C does not go through `daemon_exit`.
  The next process is not hindered: `RegistrationFindsFreeSlot`.

Seen while modelling and not a run: READDIR wraps a count below 104, so the 4k of
`nfs.c:444` do not bound its answer, which with 170 long names is 47 kB and more than the
36 kB that the UDP transport sends (`PageFits` and `ReplyFits` say which pages they are
about); `fh_length` is one more than the handle's size;
FSINFO announces links and symbolic links, which are not supported; arguments that do
not decode are not freed (`daemon.c:294`).

## 5. What is proved

Each theorem below is proved for every value of the constants under the assumptions
named in the modules: `PathsAssumption` (NULL is not a path), `MinFSAssumption` (the
default mode is a mode), `FdCacheAssumption`, `GoExportsAssumption` and
`LifecycleAssumption` (bounds are naturals), `NfsServerAssumption` and
`RequestsAssumption` (bounds and sizes are naturals, the initial trees hang together,
requests have the members of their procedure), `MountdAssumption` (the local host is a
host, the dirpaths have clean paths), `ReaddirAssumption` (lengths and limits are
naturals, counts and cookies are in range, a listing is no longer than an int counts),
`WireAssumption` (counts, what is left of a file, and the lengths of names are
naturals). Names, trees, requests and handles are otherwise arbitrary, and none of the
proofs depends on how large a bound is.

### The handle table

`FdTableProofs` holds the lemmas about paths and the table's operators, `FdCacheProofs`
the theorems about the state machine: `TypeCorrect`, `AlwaysConsistent`,
`SupersededStayFrozen`, and `TableFollowsObjects`, that FdCache implements HandleTable.

The inductive invariant `IInv` is `TypeOK /\ TableConsistent`. Neither half is inductive
alone: that `GetFD`'s new number is fresh needs every number in `PathMapB` to be at
most the counter, and that a re-rooted entry keeps its number to itself needs the
number of a path to resolve to that path. That last clause is what makes numbers of
different paths differ, except for number 0, and it survives `ReplacePath` because

* `RebaseInverse`: re-rooting from old to new is undone by re-rooting back, so two
  paths below old never land on one;
* `RebaseUnder`: what is re-rooted ends below new, hence never on new itself, and, the
  rename being `Movable`, never below old;

from which `DescendantsOK` says which paths move and with which numbers,
and `ReplacePathOK` and `GetFDOK` conclude. `GetFDFreezes` and `ReplacePathFreezes` give the
action property from the same invariant: a handle is superseded when its path
belongs to another number, and a step that moves entries moves them by the number of
a known path, which a superseded handle never is.

The refinement is a simulation, one lemma per action (`AcquireRefines`,
`RenameRefines`, `RestartRefines`), each from `IInv`. It rests on a description of the
table by its numbers: the known paths are the lost ones and the places of the numbers
in use (`KnownIsOccupied`, `OccupiedIsKnown`), a number in use is at one place
(`InUseIs`), and after a rename a number is where its old place went, unless that
place was landed on by another (`RenamedNumbers`, `ReplacePathMoves`).

### The procedures

`NfsServerProofs` proves all the properties of NfsServer that the runs check:
`TypeCorrect`, `HandlesFollowObjects`, `FileidsAreUnique`, `RefusalsLeaveTree`,
`RequestsDestroyOne`, `WritersAlter`, `StaleHandlesRefused`.

`HandleFollowsObject` is not inductive: it speaks of what a handle resolves to, and a
rename moves a number by the path it is entered under. `IInv` is `TypeOK`, the
consistency of the two maps, and for every pair of number and object ever given out
`Follows`: wherever in the tree that object is, the table has its path and enters it
under that number. From this `GetPath` is found by consistency.

The work is in `GoExportsProofs`, for all trees and tables:

* of the tree: in one that hangs together (`TreeType`) whatever lies below a path
  hangs on a chain of directories (`NoOrphans`, by the shortest path that lies below),
  so that what is removed or landed on, having no children, has nothing below it at
  any depth; `BornOK`, `WithoutOK`, `AlteredOK` and `MovedOK` say that each change of
  the tree leaves one that hangs together, and which objects it moves and spares;
* of the table: `ReplacePathNumbers` says under which number each path is entered
  after a rename, and `EnterOK` that a page of READDIR may be numbered in any order;
* of both: a call keeps the server's state well typed and `Follows` of every handle
  (`Keeps`). For a call that only looks or makes this is immediate; for a rename,
  `MovedKeeps` compares where the tree's objects come from (`MovedShape`) with where
  the table's numbers come from.

Each procedure then has a lemma (`LookupSafe`, ..., `RenameSafe`) which follows the state
from call to call and concludes `Safe`: the invariant, and the four promises
that a request makes about the tree before and after it.

### Requests that are repeated and cut off

`RequestsProofs` proves the five invariants of Requests: `TypeCorrect`, `CutsAreClean`,
`SetattrSetsAll`, `RepeatsKeepObjects`, `AnswersAreTrue`. Its invariant describes an
execution from inside:

* `Executing`, `NamesHold`: what `exec` holds; that its paths are still those that the
  request's names stand for, although the table may have grown since `Begin`;
* `Progress`: for each list of calls that may be left, what the ones before it have done
  to the tree: nothing yet (MKDIR, REMOVE, RMDIR, RENAME); the old file gone, the new one
  made (CREATE); the attributes given so far, if none failed (SETATTR);
* `Achieved`: what is so when no call is left and the status is one that claims it;
* `Remembered`, `Believable`: the request that was answered OK, and any request
  whose reply the client has or may still receive, is `Settled` if that reply claims
  something: its names stand for objects that are there, or gone, as the reply says.

`Settled` is what makes a repetition harmless. A settled request's calls all fail or
change nothing (`KeepsObjects`: MKDIR and a GUARDED CREATE find the object there, REMOVE
and RMDIR find nothing, RENAME has no old name any more or moves a path onto itself),
so it stays settled; and only a rename moves handles, after which its own names still
stand for what they claim, also when the directory they name was itself moved
(`NamesMoved`, from the same lemmas about `ReplacePath` as above).

### The mount list

`MountdProofs` proves `TypeCorrect`, `CountIsExact`, `UnmountsAreExact` and
`RootHandlesResolve`. `remove_mount` is a recursive function over the state of the walk, so
that what it does to a list of any length is a matter of a loop invariant and an
induction. `WalkInv` is the invariant: after k nodes the kept ones among them are
chained in their order, `prev` is the last of them, the head is right, the rest of the
chain is untouched, and the counter counts both. `UnlinkWalks` and `SkipWalks` are the two
branches of the loop, `WalkEnds` the induction (`SetInduction` in `FdTableProofs`, a
least-element argument on a set of naturals), and `ChainOfKept` reads the list off the
links. `IInv` adds that the table is consistent and that the root, once known, has a
number other than 0: a rename of a path that nobody looked up can leave any other
directory with 0, but the root is never renamed and nothing is renamed onto it
(`GetFDRoot`, `ReplacePathRoot`).

### Start and end

`DaemonProofs` proves the safety properties of Lifecycle for any number of processes:
`TypeCorrect`, `ServesWhatIsRegistered`, `NoSlotIsTaken`, `ErrorExitLeavesNothing` and
`NeverExitsWithBackendOpen`. Its `IInv` adds four things to them. `Portmapped`: while
the process registers, a slot whose service has been unset is the process's if its
registration has been made and empty otherwise; nothing is said of the other slots,
which earlier processes own. `RegistrationOrder`, a fact about the nine calls of
`register_nfs_service` and `register_mount_service`, turns that into a free slot at each
call and into all slots at the end. `CalledOut`: a slot of this process's has a callout,
so that `svc_unregister` does act on it. `Unregistered`: the services `daemon_exit` has
dealt with have no slot of this process's left. `Control`: the number of closes is that
of the threads past their close.

### Pages of a directory

`ReaddirProofs` proves the safety of READDIR's pages for every set of names and lengths,
every limit of the arrays, count, cookie, listing and number of changes: `TypeCorrect`,
`WalksNeverPanic`, `PagesInArrays`, `PagesFit`, `WalkMissesNothing` and
`WalkRepeatsNothing`. The budget and the bytes on the wire are related by an invariant
of the loop, with the padding of a name bounded by three bytes. That a cookie of a page
stands for the index it was made from (`StartIndexExact`) needs a listing to be no
longer than an int counts, and makes the index of every page after the first
non-negative. For the last two, the place of a name in the listing is what matters:
while nothing is removed, a name that stays is either given already or not before the
cookie; while nothing is made, a name given stays before it. The listing a call works on
is one that the directory was a moment ago, so each claim is made of both.

### The wire

`DaemonProofs` proves the five invariants of Wire, for any number of requests, any counts
and files of READ and any pages of READDIR: `RepliesAreTheRequests`,
`ArgumentsAreDecoded`, `RepliesFit`, `PagesTakeTheirSize` and `ReadsReachTheEnd`. The
invariant `WireInv` is these five and the types of what is carried along; it says nothing
of the static results, because the point is that no reply depends on what is in them:
each step is proved from `WireTyped` alone, whatever the memory holds.

* Of the unions: every resfail is how its resok begins (`Layouts`, the 22 structures one
  by one), and every member that a routine visits is in its arm (`Visited`). So a member
  has the same cell in either arm, and all cells line up (`CellOf`, `Cells`); hence
  `LoadWritten`: a member that this request wrote, in whichever arm, is loaded with the
  value of one of its writes, because no other write spoils the cell. `StoreAllIsLast`
  unfolds the writes made in order (`UpTo`, an induction by a least element).
* Of the encodings: a value that is `Fresh` for its type and whose pointers lead to
  `Buffered` data encodes to fields that are this request's own (`Own`) and to no more
  than 88 bytes, data and pages apart (`EncodedMember`); `AnswerIs` adds up the at most
  eleven members of a reply (`TotalBound`), of which one at most is data or a page.
* Of the procedures: `Sound` writes are to members that exist and `OkValue`, `Covers`
  says that none that is encoded was left out, and `ServedWell` concludes four of the five
  invariants from them. One table lemma (`GetattrTable`, ...) per procedure holds what
  its structure and routines are, one step lemma (`StepGetattr`, ...) walks through its
  writes. READDIR is the exception that writes a member twice, first from the stack and
  then well (`SettledLast`); its reply is added up exactly (`ReaddirReply`).

## 6. Only model-checked

* The liveness properties `ShutdownCompletes`, `EveryRequestAnswered` and `WalkEnds`:
  liveness under fairness is not something the prover does.
* The four properties of section 4, which the code violates.

What the prover can see has shaped a few definitions. `SelectSeq` cannot be
expanded there, so `UnmountsExactly` says by positions (`Selected`) what list an unmount
leaves; records and the kinds of objects are given by their members, so that the shape
of a value follows from its type; conditions of a CASE exclude each other.

## 7. Not modelled

* The XDR routines of lists that are never or trivially encoded: READDIRPLUS's entries
  (it always refuses), and those of DUMP and EXPORT; the prototypes in the headers.
* The contents of fields and of files. A file is its length; WRITE's data and count are
  handed on as they are.
* A backend that reads or writes less than it was asked for without an error: READ would
  announce the end of the file, WRITE answers the shorter count.
* What WRITE has made durable when it answers FILE_SYNC: that is the backend's.
* Requests of several clients at once in Requests; NfsServer has any number of them,
  one request at a time.
* The RWMutex of the table: the RPC thread is its only user.
* Backend internals, argument parsing, logging, the portmapper's own failures beyond
  refusing a registration.

## 8. Plan

Done: all components modelled, and every safety property of the passing runs proved for
all values of the constants.

Next, in this order:

1. What a late copy may do to an object that its handle has come to name in the next
   process: nothing in the source says, and no property covers it.
2. XDR's list routines, if a property about them turns up.
