--------------------------- MODULE ReaddirProofs ---------------------------
(***************************************************************************)
(* What a walk through a changing directory keeps, for every directory,    *)
(* every length of a name, every size of the arrays and every count that   *)
(* is asked for.  That the walk ends is left to TLC.                       *)
(***************************************************************************)
EXTENDS Readdir, TLAPS

(* While the loop runs and until its page is received.                     *)
Reading == pc = "scan" \/ (pc = "reply" /\ res \in {"OK", "MORE"})
Walking == pc \in {"call", "scan", "reply"}

(* Where the loop of the call at hand begins.                              *)
From == StartIndex(cookie)

(* A cookie below zero, to an int, is the one the walk began with, and the *)
(* loop stops at its first index.                                          *)
StartInv ==
    /\ From < 0 => cookie = start
    /\ (Reading /\ From < 0) => pc = "scan" /\ i = From
    /\ pc = "crashed" => StartIndex(start) < 0

(* The page is the part of the listing from the cookie to the index.       *)
PageInv ==
    /\ Len(page) <= MAX_ENTRIES
    /\ Reading => /\ IsInjective(arr)
                  /\ i \in From .. Len(arr)
                  /\ Len(page) = i - From
                  /\ \A k \in 1 .. Len(page) : page[k] = <<arr[From + k], From + k>>
    /\ (pc = "reply" /\ res = "OK") => i = Len(arr)
    /\ pc = "scan" => res = "none"
    /\ pc = "reply" => res # "none"

(* What is left of the count pays for what the reply can still take.       *)
BytesInv ==
    /\ pc = "idle" => bytes = 0
    /\ (PTRBYTES = 8 /\ asked >= RESOK_SIZE /\ pc # "idle") =>
           /\ bytes <= Clip(asked)
           /\ pc = "scan" => bytes + budget <= Clip(asked)

(* Without new entries, names only move to lower places, so what lies past *)
(* the cookie is new to the walk.                                          *)
OnceInv ==
    ~added =>
        /\ twice = {}
        /\ Walking => \A p \in 1 .. Len(dir) : p > From => dir[p] \notin seen
        /\ Reading => /\ \A q \in 1 .. Len(arr) : q > From => arr[q] \notin seen
                      /\ \A p \in 1 .. Len(dir) :
                            \E q \in 1 .. Len(arr) : q >= p /\ arr[q] = dir[p]

(* Without removals, names only move to higher places, so what the walk    *)
(* has not seen lies past the cookie.                                      *)
MissedInv ==
    ~removed =>
        /\ pc = "done" => stayed \subseteq seen
        /\ pc = "call" => \A x \in stayed \ seen :
                            \E p \in 1 .. Len(dir) : p > From /\ dir[p] = x
        /\ Reading => /\ \A x \in stayed \ seen :
                            \E q \in 1 .. Len(arr) : q > From /\ arr[q] = x
                      /\ \A q \in 1 .. Len(arr) :
                            \E p \in 1 .. Len(dir) : p >= q /\ dir[p] = arr[q]

IInv == TypeOK /\ StartInv /\ PageInv /\ BytesInv /\ OnceInv /\ MissedInv

-----------------------------------------------------------------------------
(* An entry is paid for in full.                                           *)
LEMMA EntryPaid ==
    ASSUME NEW name \in Name, PTRBYTES = 8
    PROVE  /\ EntryBytes(name) \in Nat
           /\ EntryBytes(name) <= EntryCost(name)
BY ReaddirAssumption DEF EntryBytes, EntryCost, NAME_SIZE, ENTRY_SIZE

LEMMA EntryTypes ==
    ASSUME NEW name \in Name
    PROVE  EntryBytes(name) \in Nat /\ EntryCost(name) \in Nat
BY ReaddirAssumption DEF EntryBytes, EntryCost, NAME_SIZE, ENTRY_SIZE

LEMMA CountLeftType ==
    ASSUME NEW n \in Nat
    PROVE  ToInt(CountLeft(n)) \in Int
BY ReaddirAssumption DEF CountLeft, Clip, ToInt, AsInt, ReplyLimit, RESOK_SIZE

LEMMA MaxIntType == MaxInt \in Nat /\ MaxInt < CookieMod
BY ReaddirAssumption DEF MaxInt

LEMMA StartIndexType ==
    ASSUME NEW k \in 0 .. CookieMod - 1
    PROVE  StartIndex(k) \in Int
<1>1. k \in Nat /\ CountMod \in Nat \ {0} /\ CookieMod \in Nat BY ReaddirAssumption
<1>2. k % CountMod \in Int BY <1>1
<1> QED BY <1>1, <1>2 DEF StartIndex, AsInt

(* A cookie within an int is the index it was made from.                   *)
LEMMA StartIndexExact ==
    ASSUME NEW k \in 0 .. MaxInt
    PROVE  StartIndex(k) = k /\ k \in 0 .. CookieMod - 1
<1>1. k \in Nat /\ CountMod \in Nat /\ CookieMod \in Nat /\ MaxInt \in Nat /\ MaxInt < CookieMod
  BY ReaddirAssumption, MaxIntType
<1>2. CASE PTRBYTES = 4
  <2>1. k < CountMod \div 2 /\ k < CountMod BY <1>1, <1>2, ReaddirAssumption DEF MaxInt
  <2>2. \A x \in Nat, m \in Nat : x < m => x % m = x OBVIOUS
  <2>3. k % CountMod = k BY <1>1, <2>1, <2>2
  <2>4. AsInt(k, CountMod) = k BY <1>1, <2>1 DEF AsInt
  <2>5. StartIndex(k) = AsInt(k, CountMod) BY <1>2, <2>3 DEF StartIndex
  <2> QED BY <1>1, <2>4, <2>5
<1>3. CASE PTRBYTES = 8
  BY <1>1, <1>3, ReaddirAssumption DEF StartIndex, AsInt, MaxInt
<1> QED BY <1>2, <1>3, ReaddirAssumption

(* With room for the heading, nothing wraps.                               *)
LEMMA CountLeftExact ==
    ASSUME NEW n \in Nat, n >= RESOK_SIZE, PTRBYTES = 8
    PROVE  ToInt(CountLeft(n)) = Clip(n) - RESOK_SIZE
<1>1. Clip(n) - RESOK_SIZE \in 0 .. CountMod - 1
  BY ReaddirAssumption DEF Clip, ReplyLimit, RESOK_SIZE
<1>2. \A x \in Nat, m \in Nat : x < m => x % m = x
  OBVIOUS
<1> QED BY <1>1, <1>2, ReaddirAssumption DEF CountLeft, ToInt

(* A new entry moves names to higher places, and leaves them distinct.     *)
LEMMA InsertAtOK ==
    ASSUME NEW s \in Seq(Name), IsInjective(s), NEW k \in 1 .. Len(s) + 1,
           NEW x \in Name \ Range(s)
    PROVE  /\ InsertAt(s, k, x) \in Seq(Name)
           /\ IsInjective(InsertAt(s, k, x))
           /\ Len(InsertAt(s, k, x)) = Len(s) + 1
           /\ \A p \in 1 .. Len(s) :
                 \E q \in 1 .. Len(s) + 1 : q >= p /\ InsertAt(s, k, x)[q] = s[p]
<1> DEFINE t == InsertAt(s, k, x)
<1>1. t \in Seq(Name) /\ Len(t) = Len(s) + 1
  BY DEF InsertAt
<1>2. \A j \in 1 .. Len(s) : s[j] # x
  BY DEF Range
<1>3. IsInjective(t)
  BY <1>1, <1>2 DEF InsertAt, IsInjective
<1>4. ASSUME NEW p \in 1 .. Len(s)
      PROVE  \E q \in 1 .. Len(s) + 1 : q >= p /\ t[q] = s[p]
  <2>1. CASE p < k
    <3>1. t[p] = s[p] /\ p \in 1 .. Len(s) + 1
      BY <2>1 DEF InsertAt
    <3> QED BY <3>1
  <2>2. CASE p >= k
    <3>1. t[p + 1] = s[p] /\ p + 1 \in 1 .. Len(s) + 1 /\ p + 1 >= p
      BY <2>2 DEF InsertAt
    <3> QED BY <3>1
  <2> QED BY <2>1, <2>2
<1> QED BY <1>1, <1>3, <1>4

(* A removal moves names to lower places, and leaves them distinct.        *)
LEMMA DeleteAtOK ==
    ASSUME NEW s \in Seq(Name), IsInjective(s), NEW k \in 1 .. Len(s)
    PROVE  /\ DeleteAt(s, k) \in Seq(Name)
           /\ IsInjective(DeleteAt(s, k))
           /\ Len(DeleteAt(s, k)) = Len(s) - 1
           /\ \A p \in 1 .. Len(s) - 1 :
                 \E q \in 1 .. Len(s) : q >= p /\ s[q] = DeleteAt(s, k)[p]
<1> DEFINE t == DeleteAt(s, k)
<1>1. t \in Seq(Name) /\ Len(t) = Len(s) - 1
  BY DEF DeleteAt
<1>2. IsInjective(t)
  BY <1>1 DEF DeleteAt, IsInjective
<1>3. ASSUME NEW p \in 1 .. Len(s) - 1
      PROVE  \E q \in 1 .. Len(s) : q >= p /\ s[q] = t[p]
  BY DEF DeleteAt
<1> QED BY <1>1, <1>2, <1>3

-----------------------------------------------------------------------------
LEMMA IInvInit == Init => IInv
<1> SUFFICES ASSUME Init PROVE IInv
  OBVIOUS
<1>1. TypeOK
  <2>1. dir \in Seq(Name) /\ IsInjective(dir)
    BY ReaddirAssumption DEF Init
  <2>2. <<>> \in Seq(Name) /\ <<>> \in Seq(Name \X Nat) /\ Len(<<>>) = 0
    OBVIOUS
  <2>3. /\ 0 \in 0 .. CountMod - 1 /\ 0 \in 0 .. MaxChanges /\ 0 \in 0 .. CookieMod - 1
        /\ 0 <= MaxInt /\ Len(dir) <= MaxInt
    BY ReaddirAssumption, MaxIntType DEF Init
  <2>4. /\ pc = "idle" /\ asked \in 0 .. CountMod - 1
        /\ cookie \in 0 .. CookieMod - 1 /\ start \in 0 .. CookieMod - 1
        /\ arr \in Seq(Name) /\ Len(arr) <= MaxInt /\ i \in Int /\ budget \in Int
        /\ page \in Seq(Name \X Nat) /\ bytes \in Nat /\ changes \in 0 .. MaxChanges
    BY <2>2, <2>3 DEF Init
  <2>5. /\ res = "none" /\ seen = {} /\ twice = {} /\ stayed = {}
        /\ added = FALSE /\ removed = FALSE
    BY DEF Init
  <2> QED BY <2>1, <2>3, <2>4, <2>5 DEF TypeOK
<1>6. StartInv BY DEF Init, StartInv, Reading
<1>2. PageInv BY ReaddirAssumption DEF Init, PageInv, Reading
<1>3. BytesInv BY DEF Init, BytesInv
<1>4. OnceInv BY DEF Init, OnceInv, Reading, Walking
<1>5. MissedInv BY DEF Init, MissedInv, Reading
<1> QED BY <1>1, <1>2, <1>3, <1>4, <1>5, <1>6 DEF IInv

LEMMA StartWalkKeeps == IInv /\ StartWalk => IInv'
<1> SUFFICES ASSUME IInv, StartWalk PROVE IInv'
  OBVIOUS
<1>0. /\ pc' = "call" /\ asked' \in Asked
      /\ cookie' \in {0} \cup Cookies /\ start' = cookie'
      /\ seen' = {} /\ twice' = {} /\ added' = FALSE /\ removed' = FALSE
      /\ stayed' = Past(From')
      /\ UNCHANGED <<dir, arr, i, budget, page, res, bytes, changes>>
  BY DEF StartWalk, server, From
<1>1. TypeOK'
  <2>1. Past(From') \subseteq Name BY DEF IInv, TypeOK, Past
  <2>2. asked' \in 0 .. CountMod - 1 /\ cookie' \in 0 .. CookieMod - 1
    BY <1>0, ReaddirAssumption
  <2> QED BY <1>0, <2>1, <2>2 DEF IInv, TypeOK
<1>6. StartInv' BY <1>0 DEF StartInv, Reading
<1>2. PageInv' BY <1>0 DEF IInv, PageInv, Reading
<1>3. BytesInv'
  <2>1. bytes = 0 BY DEF StartWalk, IInv, BytesInv
  <2>2. asked' \in Nat BY <1>0, ReaddirAssumption
  <2> QED BY <1>0, <2>1, <2>2 DEF BytesInv, Clip, ReplyLimit
<1>4. OnceInv' BY <1>0 DEF OnceInv, Reading, Walking
<1>5. MissedInv'
  <2>1. \A x \in Past(From') : \E p \in 1 .. Len(dir) : p > From' /\ dir[p] = x
    BY DEF Past
  <2> QED BY <1>0, <2>1 DEF MissedInv, Reading
<1> QED BY <1>1, <1>2, <1>3, <1>4, <1>5, <1>6 DEF IInv

LEMMA BeginKeeps == IInv /\ Begin => IInv'
<1> SUFFICES ASSUME IInv, Begin PROVE IInv'
  OBVIOUS
<1>1. /\ pc = "call" /\ page' = <<>> /\ bytes' = RESOK_SIZE
      /\ budget' = ToInt(CountLeft(asked)) /\ i' = From
      /\ UNCHANGED <<dir, asked, cookie, start, seen, twice, added, removed, stayed, changes>>
  BY DEF Begin, client, history, From
<1>2. \/ arr' = dir /\ From <= Len(dir) /\ pc' = "scan" /\ res' = "none"
      \/ arr' \in {dir, <<>>} /\ pc' = "reply" /\ res' \in {"BAD_COOKIE", "ERR"}
  BY StartIndexType DEF Begin, IInv, TypeOK, From
<1>3. /\ asked \in Nat /\ From \in Int /\ From' = From /\ dir \in Seq(Name) /\ IsInjective(dir)
  BY <1>1, ReaddirAssumption, StartIndexType DEF IInv, TypeOK, From
<1>4. TypeOK'
  <2>1. budget' \in Int BY <1>1, <1>3, CountLeftType
  <2>2. <<>> \in Seq(Name) /\ <<>> \in Seq(Name \X Nat)
    OBVIOUS
  <2>3. page' \in Seq(Name \X Nat) /\ bytes' \in Nat /\ arr' \in Seq(Name)
    BY <1>1, <1>2, <1>3, <2>2 DEF RESOK_SIZE
  <2>4. Len(dir) <= MaxInt /\ Len(<<>>) <= MaxInt
    BY MaxIntType DEF IInv, TypeOK
  <2>5. Len(arr') <= MaxInt BY <1>2, <2>4
  <2> QED BY <1>1, <1>2, <1>3, <2>1, <2>3, <2>5 DEF IInv, TypeOK, From
<1>9. StartInv' BY <1>1, <1>2, <1>3 DEF IInv, StartInv, Reading
<1>5. PageInv' BY <1>1, <1>2, <1>3, ReaddirAssumption DEF PageInv, Reading
<1>6. BytesInv'
  BY <1>1, <1>2, <1>3, CountLeftExact DEF BytesInv, Clip, ReplyLimit, RESOK_SIZE
<1>7. OnceInv'
  <2>1. Reading' => arr' = dir BY <1>2 DEF Reading
  <2> QED BY <1>1, <1>2, <1>3, <2>1 DEF IInv, OnceInv, Walking
<1>8. MissedInv'
  <2>1. Reading' => arr' = dir BY <1>2 DEF Reading
  <2> QED BY <1>1, <1>2, <1>3, <2>1 DEF IInv, MissedInv
<1> QED BY <1>4, <1>5, <1>6, <1>7, <1>8, <1>9 DEF IInv

LEMMA EntryKeeps == IInv /\ Entry => IInv'
<1> SUFFICES ASSUME IInv, Entry PROVE IInv'
  OBVIOUS
<1> DEFINE name == arr[i + 1]
           left == budget - EntryCost(name)
<1>1. /\ pc = "scan" /\ i < Len(arr) /\ i + 1 \in DOMAIN arr /\ budget' = left
      /\ UNCHANGED <<dir, asked, cookie, start, seen, twice, arr, added, removed, stayed, changes>>
  BY DEF Entry, InLoop, client, history
<1>2. /\ name \in Name /\ i \in Nat /\ From \in Int /\ From' = From /\ arr \in Seq(Name)
      /\ bytes \in Nat /\ budget \in Int /\ page \in Seq(Name \X Nat) /\ asked \in Nat
      /\ i \in From .. Len(arr)
  BY <1>1, ReaddirAssumption, StartIndexType DEF IInv, TypeOK, From
<1>3. EntryBytes(name) \in Nat /\ EntryCost(name) \in Nat
  BY <1>2, EntryTypes
<1>4. Reading BY <1>1 DEF Reading
<1>8. From >= 0 BY <1>1, <1>2, <1>4 DEF IInv, StartInv
<1>5. left \in Int BY <1>2, <1>3
<1>6. CASE left < 0 \/ ArraysFull
  <2>1. res' = "MORE" /\ pc' = "reply" /\ UNCHANGED <<i, page, bytes>>
    BY <1>6 DEF Entry
  <2>2. Reading' BY <2>1 DEF Reading
  <2> HIDE DEF left
  <2>3. TypeOK' BY <1>1, <1>5, <2>1 DEF IInv, TypeOK
  <2>8. StartInv' BY <1>1, <1>2, <1>8, <2>1 DEF IInv, StartInv
  <2>4. PageInv' BY <1>1, <1>2, <1>4, <2>1 DEF IInv, PageInv
  <2>5. BytesInv' BY <1>1, <2>1 DEF IInv, BytesInv
  <2>6. OnceInv' BY <1>1, <1>2, <1>4, <2>1 DEF IInv, OnceInv, Walking
  <2>7. MissedInv' BY <1>1, <1>2, <1>4, <2>1 DEF IInv, MissedInv
  <2> QED BY <2>3, <2>4, <2>5, <2>6, <2>7, <2>8 DEF IInv
<1>7. CASE ~(left < 0 \/ ArraysFull)
  <2>1. /\ page' = Append(page, <<name, i + 1>>) /\ i' = i + 1
        /\ bytes' = bytes + EntryBytes(name) /\ UNCHANGED <<pc, res>>
    BY <1>7 DEF Entry, EntryCookie
  <2>2. Reading' BY <1>1, <2>1 DEF Reading
  <2>3. BytesInv'
    <3>1. PTRBYTES = 8 => EntryBytes(name) <= EntryCost(name) BY <1>2, EntryPaid
    <3>2. left >= 0 /\ left = budget - EntryCost(name)
      BY <1>5, <1>7
    <3> HIDE DEF name, left
    <3>3. Clip(asked) \in Nat BY <1>2 DEF Clip, ReplyLimit
    <3> SUFFICES ASSUME PTRBYTES = 8, asked >= RESOK_SIZE
                 PROVE  bytes' <= Clip(asked) /\ bytes' + budget' <= Clip(asked)
      BY <1>1, <2>1 DEF BytesInv
    <3>4. bytes + budget <= Clip(asked) BY <1>1 DEF IInv, BytesInv
    <3>5. bytes' \in Int /\ bytes' = bytes + EntryBytes(name) /\ budget' = left
      BY <1>1, <1>2, <1>3, <2>1
    <3> QED BY <1>2, <1>3, <1>5, <3>1, <3>2, <3>3, <3>4, <3>5
  <2>4. PageInv'
    <3>1. /\ Len(page) = i - From /\ IsInjective(arr)
          /\ \A k \in 1 .. Len(page) : page[k] = <<arr[From + k], From + k>>
      BY <1>4 DEF IInv, PageInv
    <3>2. i - From < MAX_ENTRIES BY <1>2, <1>7, ReaddirAssumption DEF ArraysFull, From
    <3>3. Len(page') = (i + 1) - From
      BY <1>2, <2>1, <3>1
    <3>4. \A k \in 1 .. Len(page') : page'[k] = <<arr[From + k], From + k>>
      <4> SUFFICES ASSUME NEW k \in 1 .. Len(page')
                   PROVE  page'[k] = <<arr[From + k], From + k>>
        OBVIOUS
      <4>1. CASE k \in 1 .. Len(page)
        BY <1>2, <2>1, <3>1, <4>1
      <4>2. CASE k = Len(page) + 1
        <5>1. From + k = i + 1 BY <1>2, <3>1, <4>2
        <5> QED BY <1>2, <2>1, <4>2, <5>1
      <4> QED BY <1>2, <3>1, <3>3, <4>1, <4>2
    <3> HIDE DEF name, left
    <3>5. Len(page') <= MAX_ENTRIES /\ i' \in From' .. Len(arr')
      BY <1>1, <1>2, <2>1, <3>2, <3>3, ReaddirAssumption
    <3> QED BY <1>1, <1>2, <2>1, <3>1, <3>3, <3>4, <3>5 DEF IInv, PageInv
  <2> HIDE DEF left
  <2>5. TypeOK'
    <3>1. page' \in Seq(Name \X Nat) /\ bytes' \in Nat /\ i' \in From .. Len(arr)
      BY <1>1, <1>2, <1>3, <2>1
    <3> HIDE DEF name
    <3> QED BY <1>1, <1>5, <2>1, <3>1 DEF IInv, TypeOK, From
  <2> HIDE DEF name
  <2>6. OnceInv' BY <1>1, <1>2, <1>4, <2>1 DEF IInv, OnceInv, Walking
  <2>7. MissedInv' BY <1>1, <1>2, <1>4, <2>1 DEF IInv, MissedInv
  <2>8. StartInv' BY <1>1, <1>2, <1>8, <2>1 DEF IInv, StartInv
  <2> QED BY <2>3, <2>4, <2>5, <2>6, <2>7, <2>8 DEF IInv
<1> QED BY <1>6, <1>7

LEMMA PanicKeeps == IInv /\ Panic => IInv'
<1> SUFFICES ASSUME IInv, Panic PROVE IInv'
  OBVIOUS
<1>1. /\ pc = "scan" /\ i < Len(arr) /\ i + 1 \notin DOMAIN arr /\ pc' = "crashed"
      /\ UNCHANGED <<dir, asked, cookie, start, seen, twice, arr, i, budget, page, res, bytes,
                     added, removed, stayed, changes>>
  BY DEF Panic, InLoop, client, server, history
<1>2. ~Reading' /\ ~Walking' BY <1>1 DEF Reading, Walking
<1>3. TypeOK' BY <1>1 DEF IInv, TypeOK
<1>4. StartInv'
  <2>1. From \in Int /\ i \in Int /\ i >= From /\ arr \in Seq(Name)
    BY <1>1, StartIndexType DEF IInv, TypeOK, From
  <2>2. i < 0 BY <1>1, <2>1
  <2> QED BY <1>1, <1>2, <2>1, <2>2 DEF IInv, StartInv, From
<1>5. PageInv' BY <1>1, <1>2 DEF IInv, PageInv
<1>6. BytesInv' BY <1>1 DEF IInv, BytesInv
<1>7. OnceInv' BY <1>1, <1>2 DEF IInv, OnceInv
<1>8. MissedInv' BY <1>1, <1>2 DEF IInv, MissedInv
<1> QED BY <1>3, <1>4, <1>5, <1>6, <1>7, <1>8 DEF IInv

LEMMA EofKeeps == IInv /\ Eof => IInv'
<1> SUFFICES ASSUME IInv, Eof PROVE IInv'
  OBVIOUS
<1>1. /\ pc = "scan" /\ ~(i < Len(arr)) /\ res' = "OK" /\ pc' = "reply"
      /\ UNCHANGED <<dir, asked, cookie, start, seen, twice, arr, i, budget, page, bytes,
                     added, removed, stayed, changes>>
  BY DEF Eof, InLoop, client, history
<1>2. Reading /\ Reading' BY <1>1 DEF Reading
<1>8. /\ From \in Int /\ From' = From /\ i \in From .. Len(arr) /\ arr \in Seq(Name)
      /\ i \in Int
  BY <1>1, StartIndexType DEF IInv, TypeOK, From
<1>9. StartInv' BY <1>1, <1>2, <1>8 DEF IInv, StartInv
<1>3. TypeOK' BY <1>1 DEF IInv, TypeOK
<1>4. PageInv'
  <2>1. i = Len(arr) BY <1>1, <1>8
  <2> QED BY <1>1, <1>2, <1>8, <2>1 DEF IInv, PageInv
<1>5. BytesInv' BY <1>1 DEF IInv, BytesInv
<1>6. OnceInv' BY <1>1, <1>2, <1>8 DEF IInv, OnceInv, Walking
<1>7. MissedInv' BY <1>1, <1>2, <1>8 DEF IInv, MissedInv
<1> QED BY <1>3, <1>4, <1>5, <1>6, <1>7, <1>9 DEF IInv

(* What a page gives is the listing between its two Froms.               *)
LEMMA GivenIsListed ==
    ASSUME IInv, Reading
    PROVE  \A x : x \in Given <=> \E q \in 1 .. Len(arr) : From < q /\ q <= i /\ x = arr[q]
<1>1. /\ Len(page) = i - From /\ i \in From .. Len(arr) /\ From \in Int /\ i \in Int
      /\ Len(arr) \in Nat
  BY StartIndexType DEF IInv, TypeOK, PageInv, From
<1>2. \A k \in 1 .. Len(page) : page[k][1] = arr[From + k]
  BY DEF IInv, PageInv
<1>3. ASSUME NEW x \in Given
      PROVE  \E q \in 1 .. Len(arr) : From < q /\ q <= i /\ x = arr[q]
  <2>1. PICK k \in 1 .. Len(page) : x = page[k][1] BY DEF Given
  <2>0. From >= 0 BY <1>1, <2>1 DEF IInv, StartInv
  <2>2. From + k \in 1 .. Len(arr) /\ From < From + k /\ From + k <= i
    BY <1>1, <2>0
  <2> QED BY <1>2, <2>1, <2>2
<1>4. ASSUME NEW q \in 1 .. Len(arr), From < q, q <= i
      PROVE  arr[q] \in Given
  <2>1. q - From \in 1 .. Len(page) /\ From + (q - From) = q BY <1>1, <1>4
  <2> QED BY <1>2, <2>1 DEF Given
<1> QED BY <1>3, <1>4

LEMMA ReceiveKeeps == IInv /\ Receive => IInv'
<1> SUFFICES ASSUME IInv, Receive PROVE IInv'
  OBVIOUS
<1>0. /\ pc = "reply"
      /\ UNCHANGED <<dir, asked, start, arr, i, budget, page, res, bytes, added, removed, stayed,
                     changes>>
  BY DEF Receive, server, history
<1>1. CASE res \in {"OK", "MORE"}
  <2>1. Reading BY <1>0, <1>1 DEF Reading
  <2>2. \A x : x \in Given <=> \E q \in 1 .. Len(arr) : From < q /\ q <= i /\ x = arr[q]
    BY <2>1, GivenIsListed, Zenon
  <2>3. /\ arr \in Seq(Name) /\ i \in From .. Len(arr) /\ From \in Nat /\ i \in Nat
        /\ Len(arr) <= MaxInt
    BY <1>0, <2>1, StartIndexType DEF IInv, TypeOK, StartInv, PageInv, From
  <2>4. Given \subseteq Name
    <3> SUFFICES ASSUME NEW x \in Given PROVE x \in Name
      OBVIOUS
    <3>1. PICK q \in 1 .. Len(arr) : x = arr[q] BY <2>2, Zenon
    <3> QED BY <2>3, <3>1
  <2>5. seen' = seen \cup Given /\ twice' = twice \cup (seen \cap Given)
    BY <1>1 DEF Receive
  <2>6. ~added => seen \cap Given = {} /\ twice' = {}
    <3> SUFFICES ASSUME ~added PROVE seen \cap Given = {} /\ twice' = {}
      OBVIOUS
    <3>1. twice = {} /\ \A q \in 1 .. Len(arr) : q > From => arr[q] \notin seen
      BY <2>1 DEF IInv, OnceInv
    <3>2. ASSUME NEW x \in Given PROVE x \notin seen
      <4>1. PICK q \in 1 .. Len(arr) : From < q /\ x = arr[q] BY <2>2, Zenon
      <4>2. q > From BY <2>3, <4>1
      <4> QED BY <3>1, <4>1, <4>2
    <3> QED BY <2>5, <3>1, <3>2
  <2>7. CASE res = "MORE" /\ page # <<>>
    <3>1. pc' = "call" /\ cookie' = i /\ ~Reading'
      <4>1. /\ page \in Seq(Name \X Nat) /\ Len(page) = i - From
            /\ \A k \in 1 .. Len(page) : page[k] = <<arr[From + k], From + k>>
        BY <2>1 DEF IInv, TypeOK, PageInv
      <4>2. Len(page) \in 1 .. Len(page) BY <2>7, <4>1
      <4>3. page[Len(page)][2] = From + Len(page) BY <4>1, <4>2
      <4>4. From + Len(page) = i BY <2>3, <4>1
      <4> QED BY <2>7, <4>3, <4>4 DEF Receive, Reading
    <3>7. From' = i /\ i \in 0 .. CookieMod - 1
      BY <2>3, <3>1, MaxIntType, StartIndexExact DEF From
    <3>8. StartInv' BY <1>0, <2>3, <3>1, <3>7 DEF StartInv
    <3>2. TypeOK' BY <1>0, <2>3, <2>4, <2>5, <3>1, <3>7 DEF IInv, TypeOK
    <3>3. PageInv' BY <1>0, <3>1 DEF IInv, PageInv
    <3>4. BytesInv' BY <1>0, <3>1 DEF IInv, BytesInv
    <3>5. OnceInv'
      <4> SUFFICES ASSUME ~added, NEW p \in 1 .. Len(dir), p > i
                   PROVE  dir[p] \notin seen \cup Given
        BY <1>0, <2>5, <2>6, <3>1, <3>7 DEF OnceInv
      <4>1. PICK q \in 1 .. Len(arr) : q >= p /\ arr[q] = dir[p]
        BY <2>1 DEF IInv, OnceInv
      <4>2. q > i /\ q > From BY <2>3, <4>1
      <4>3. arr[q] \notin seen BY <2>1, <4>2 DEF IInv, OnceInv
      <4>4. \A r \in 1 .. Len(arr) : arr[r] = arr[q] => r = q
        BY <2>1, <2>3 DEF IInv, PageInv, IsInjective
      <4>5. \A r \in 1 .. Len(arr) : r <= i => arr[r] # arr[q]
        BY <2>3, <4>2, <4>4
      <4>6. arr[q] \notin Given BY <2>2, <4>5, Zenon
      <4> QED BY <4>1, <4>3, <4>6
    <3>6. MissedInv'
      <4> SUFFICES ASSUME ~removed, NEW x \in stayed \ (seen \cup Given)
                   PROVE  \E p \in 1 .. Len(dir) : p > i /\ dir[p] = x
        BY <1>0, <2>5, <3>1, <3>7 DEF MissedInv
      <4>1. PICK q \in 1 .. Len(arr) : q > From /\ arr[q] = x
        BY <2>1 DEF IInv, MissedInv
      <4>2. q > i
        <5>1. ~(From < q /\ q <= i) BY <2>2, <4>1, Zenon
        <5> QED BY <2>3, <4>1, <5>1
      <4>3. PICK p \in 1 .. Len(dir) : p >= q /\ dir[p] = arr[q]
        BY <2>1 DEF IInv, MissedInv
      <4>4. p > i BY <2>3, <4>2, <4>3
      <4> QED BY <4>1, <4>3, <4>4
    <3> QED BY <3>2, <3>3, <3>4, <3>5, <3>6, <3>8 DEF IInv
  <2>8. CASE ~(res = "MORE" /\ page # <<>>)
    <3>1. /\ pc' \in {"done", "failed"} /\ cookie' = cookie /\ ~Reading' /\ ~Walking'
          /\ pc' = "done" => res = "OK"
      BY <2>8 DEF Receive, Reading, Walking
    <3>2. TypeOK' BY <1>0, <2>4, <2>5, <3>1 DEF IInv, TypeOK
    <3>3. PageInv' BY <1>0, <3>1 DEF IInv, PageInv
    <3>4. BytesInv' BY <1>0, <3>1 DEF IInv, BytesInv
    <3>5. OnceInv' BY <1>0, <2>6, <3>1 DEF OnceInv
    <3>6. MissedInv'
      <4> SUFFICES ASSUME ~removed, res = "OK", NEW x \in stayed \ seen
                   PROVE  x \in Given
        BY <1>0, <2>5, <3>1 DEF MissedInv
      <4>1. PICK q \in 1 .. Len(arr) : q > From /\ arr[q] = x
        BY <2>1 DEF IInv, MissedInv
      <4>2. i = Len(arr) BY <1>0 DEF IInv, PageInv
      <4>3. From < q /\ q <= i BY <2>3, <4>1, <4>2
      <4> QED BY <2>2, <4>1, <4>3, Zenon
    <3>7. StartInv' BY <1>0, <3>1 DEF IInv, StartInv, From
    <3> QED BY <3>2, <3>3, <3>4, <3>5, <3>6, <3>7 DEF IInv
  <2> QED BY <2>7, <2>8
<1>2. CASE res \notin {"OK", "MORE"}
  <2>1. /\ pc' = "failed" /\ ~Reading' /\ ~Walking' /\ UNCHANGED <<seen, twice, cookie>>
    BY <1>2 DEF Receive, Reading, Walking
  <2>2. TypeOK' BY <1>0, <2>1 DEF IInv, TypeOK
  <2>3. PageInv' BY <1>0, <2>1 DEF IInv, PageInv
  <2>4. BytesInv' BY <1>0, <2>1 DEF IInv, BytesInv
  <2>5. OnceInv' BY <1>0, <2>1 DEF IInv, OnceInv
  <2>6. MissedInv' BY <1>0, <2>1 DEF IInv, MissedInv
  <2>7. StartInv' BY <1>0, <2>1 DEF IInv, StartInv, From
  <2> QED BY <2>2, <2>3, <2>4, <2>5, <2>6, <2>7 DEF IInv
<1> QED BY <1>1, <1>2

LEMMA MakeEntryKeeps == IInv /\ MakeEntry => IInv'
<1> SUFFICES ASSUME IInv, MakeEntry PROVE IInv'
  OBVIOUS
<1>0. /\ changes < MaxChanges /\ changes' = changes + 1 /\ added' = TRUE /\ Len(dir) < MaxInt
      /\ UNCHANGED <<pc, asked, cookie, start, seen, twice, arr, i, budget, page, res, bytes,
                     removed, stayed>>
  BY DEF MakeEntry, client, server
<1>1. PICK x \in Name \ Range(dir), k \in 1 .. Len(dir) + 1 : dir' = InsertAt(dir, k, x)
  BY DEF MakeEntry
<1>2. dir \in Seq(Name) /\ IsInjective(dir) /\ From \in Int /\ From' = From /\ Len(dir) \in Nat
  BY <1>0, StartIndexType DEF IInv, TypeOK, From
<1>3. /\ dir' \in Seq(Name) /\ IsInjective(dir') /\ Len(dir') = Len(dir) + 1
      /\ \A p \in 1 .. Len(dir) : \E q \in 1 .. Len(dir') : q >= p /\ dir'[q] = dir[p]
  BY <1>1, <1>2, InsertAtOK
<1>4. TypeOK'
  <2>1. changes' \in 0 .. MaxChanges BY <1>0, ReaddirAssumption DEF IInv, TypeOK
  <2>3. Len(dir') <= MaxInt BY <1>0, <1>2, <1>3, MaxIntType DEF IInv, TypeOK
  <2> QED BY <1>0, <1>3, <2>1, <2>3 DEF IInv, TypeOK
<1>5. Reading' <=> Reading BY <1>0 DEF Reading
<1>6. PageInv' BY <1>0, <1>2, <1>5 DEF IInv, PageInv
<1>10. StartInv' BY <1>0, <1>2, <1>5 DEF IInv, StartInv
<1>7. BytesInv' BY <1>0 DEF IInv, BytesInv
<1>8. OnceInv' BY <1>0 DEF OnceInv
<1>9. MissedInv'
  <2> SUFFICES ASSUME ~removed PROVE MissedInv'
    BY <1>0 DEF MissedInv
  <2>1. ASSUME pc = "call", NEW y \in stayed \ seen
        PROVE  \E q \in 1 .. Len(dir') : q > From /\ dir'[q] = y
    <3>1. PICK p \in 1 .. Len(dir) : p > From /\ dir[p] = y
      BY <2>1 DEF IInv, MissedInv
    <3>2. PICK q \in 1 .. Len(dir') : q >= p /\ dir'[q] = dir[p]
      BY <1>3
    <3>3. q > From BY <1>2, <3>1, <3>2
    <3> QED BY <3>1, <3>2, <3>3
  <2>2. ASSUME Reading, NEW r \in 1 .. Len(arr)
        PROVE  \E q \in 1 .. Len(dir') : q >= r /\ dir'[q] = arr[r]
    <3>1. PICK p \in 1 .. Len(dir) : p >= r /\ dir[p] = arr[r]
      BY <2>2 DEF IInv, MissedInv
    <3>2. PICK q \in 1 .. Len(dir') : q >= p /\ dir'[q] = dir[p]
      BY <1>3
    <3>3. q >= r BY <3>1, <3>2
    <3> QED BY <3>1, <3>2, <3>3
  <2> QED BY <1>0, <1>2, <1>5, <2>1, <2>2 DEF IInv, MissedInv
<1> QED BY <1>4, <1>6, <1>7, <1>8, <1>9, <1>10 DEF IInv

LEMMA RemoveEntryKeeps == IInv /\ RemoveEntry => IInv'
<1> SUFFICES ASSUME IInv, RemoveEntry PROVE IInv'
  OBVIOUS
<1>0. /\ changes < MaxChanges /\ changes' = changes + 1 /\ removed' = TRUE
      /\ UNCHANGED <<pc, asked, cookie, start, seen, twice, arr, i, budget, page, res, bytes, added>>
  BY DEF RemoveEntry, client, server
<1>1. PICK k \in 1 .. Len(dir) : dir' = DeleteAt(dir, k) /\ stayed' = stayed \ {dir[k]}
  BY DEF RemoveEntry
<1>2. dir \in Seq(Name) /\ IsInjective(dir) /\ From \in Int /\ From' = From /\ Len(dir) \in Nat
  BY <1>0, StartIndexType DEF IInv, TypeOK, From
<1>3. /\ dir' \in Seq(Name) /\ IsInjective(dir') /\ Len(dir') = Len(dir) - 1
      /\ \A p \in 1 .. Len(dir') : \E q \in 1 .. Len(dir) : q >= p /\ dir[q] = dir'[p]
  BY <1>1, <1>2, DeleteAtOK
<1>4. TypeOK'
  <2>1. changes' \in 0 .. MaxChanges BY <1>0, ReaddirAssumption DEF IInv, TypeOK
  <2>2. stayed' \subseteq Name BY <1>1 DEF IInv, TypeOK
  <2>3. Len(dir') <= MaxInt BY <1>2, <1>3, MaxIntType DEF IInv, TypeOK
  <2> QED BY <1>0, <1>3, <2>1, <2>2, <2>3 DEF IInv, TypeOK
<1>5. (Reading' <=> Reading) /\ (Walking' <=> Walking) BY <1>0 DEF Reading, Walking
<1>6. PageInv' BY <1>0, <1>2, <1>5 DEF IInv, PageInv
<1>10. StartInv' BY <1>0, <1>2, <1>5 DEF IInv, StartInv
<1>7. BytesInv' BY <1>0 DEF IInv, BytesInv
<1>8. OnceInv'
  <2> SUFFICES ASSUME ~added PROVE OnceInv'
    BY <1>0 DEF OnceInv
  <2>1. ASSUME Walking, NEW p \in 1 .. Len(dir'), p > From
        PROVE  dir'[p] \notin seen
    <3>1. PICK q \in 1 .. Len(dir) : q >= p /\ dir[q] = dir'[p]
      BY <1>3
    <3>2. q > From BY <1>2, <2>1, <3>1
    <3> QED BY <2>1, <3>1, <3>2 DEF IInv, OnceInv
  <2>2. ASSUME Reading, NEW p \in 1 .. Len(dir')
        PROVE  \E r \in 1 .. Len(arr) : r >= p /\ arr[r] = dir'[p]
    <3>1. PICK q \in 1 .. Len(dir) : q >= p /\ dir[q] = dir'[p]
      BY <1>3
    <3>2. PICK r \in 1 .. Len(arr) : r >= q /\ arr[r] = dir[q]
      BY <2>2 DEF IInv, OnceInv
    <3>3. r >= p BY <3>1, <3>2
    <3> QED BY <3>1, <3>2, <3>3
  <2> QED BY <1>0, <1>2, <1>5, <2>1, <2>2 DEF IInv, OnceInv
<1>9. MissedInv' BY <1>0 DEF MissedInv
<1> QED BY <1>4, <1>6, <1>7, <1>8, <1>9, <1>10 DEF IInv

LEMMA IInvNext == IInv /\ [Next]_vars => IInv'
<1> SUFFICES ASSUME IInv, [Next]_vars PROVE IInv'
  OBVIOUS
<1>1. CASE StartWalk BY <1>1, StartWalkKeeps
<1>2. CASE Begin BY <1>2, BeginKeeps
<1>3. CASE Entry BY <1>3, EntryKeeps
<1>9. CASE Panic BY <1>9, PanicKeeps
<1>4. CASE Eof BY <1>4, EofKeeps
<1>5. CASE Receive BY <1>5, ReceiveKeeps
<1>6. CASE MakeEntry BY <1>6, MakeEntryKeeps
<1>7. CASE RemoveEntry BY <1>7, RemoveEntryKeeps
<1>8. CASE UNCHANGED vars
  BY <1>8 DEF vars, client, server, history, IInv, TypeOK, StartInv, From, PageInv, BytesInv, OnceInv,
              MissedInv, Reading, Walking, Given
<1> QED BY <1>1, <1>2, <1>3, <1>4, <1>5, <1>6, <1>7, <1>8, <1>9 DEF Next

LEMMA AlwaysIInv == Spec => []IInv
BY IInvInit, IInvNext, PTL DEF Spec

-----------------------------------------------------------------------------
(* The loop's index lies between where it began and the end of the listing *)
(* it runs through, whatever the cookie.                                   *)
THEOREM TypeCorrect == Spec => []TypeOK
<1>1. IInv => TypeOK BY DEF IInv
<1> QED BY <1>1, AlwaysIInv, PTL

(* A walk ends the server only if it began with a cookie that turns        *)
(* negative: one the server gave never does.                               *)
THEOREM WalksNeverPanic == Spec => []WalkNeverPanics
<1>1. IInv => WalkNeverPanics BY DEF IInv, StartInv, WalkNeverPanics
<1> QED BY <1>1, AlwaysIInv, PTL

(* The loop of go_readdir_full never writes past the arrays it was given.  *)
THEOREM PagesInArrays == Spec => []PageInArrays
<1>1. IInv => PageInArrays BY DEF IInv, PageInv, PageInArrays
<1> QED BY <1>1, AlwaysIInv, PTL

(* A page never takes more than 4k of the reply, nor more than was asked   *)
(* for, when the pointers are as wide as amd64's and the count covers the  *)
(* heading.                                                                *)
THEOREM PagesFit == Spec => []PageFits
<1>1. IInv => PageFits BY DEF IInv, BytesInv, PageFits
<1> QED BY <1>1, AlwaysIInv, PTL

(* A walk during which nothing was removed misses nothing.                 *)
THEOREM WalkMissesNothing == Spec => []NothingMissed
<1>1. IInv => NothingMissed BY DEF IInv, MissedInv, NothingMissed
<1> QED BY <1>1, AlwaysIInv, PTL

(* A walk during which no entry was made is given no name twice.           *)
THEOREM WalkRepeatsNothing == Spec => []NothingTwice
<1>1. IInv => NothingTwice BY DEF IInv, OnceInv, NothingTwice
<1> QED BY <1>1, AlwaysIInv, PTL
=============================================================================
