---------------------------- MODULE MountdProofs ----------------------------
(***************************************************************************)
(* The safety properties of Mountd, for every set of hosts and dirpaths:   *)
(* remove_mount's walk over the chain of entries takes out the right ones. *)
(***************************************************************************)
EXTENDS Mountd, FdTableProofs

(* The node after i in a chain of n nodes that nothing was taken out of.   *)
After(n, i) == IF i = n THEN 0 ELSE i + 1

(* After k steps of a walk over n nodes the m nodes of keep that were      *)
(* passed, at[1] to at[m], are chained to each other and to what is ahead, *)
(* prev is the last of them and the counter has missed no removal.         *)
WalkInv(n, keep, s, k, m, at) ==
    /\ s = [head |-> s.head, prev |-> s.prev, iter |-> s.iter, cnt |-> s.cnt, next |-> s.next]
    /\ s.next \in [1..n -> 0..n]
    /\ \A i \in 1..n : s.next[i] = 0 \/ s.next[i] > i
    /\ \A i \in 1..n : i > k => s.next[i] = After(n, i)
    /\ s.iter = After(n, k)
    /\ m \in Nat /\ m <= k
    /\ s.cnt = (n - k) + m
    /\ at \in [1..m -> 1..k]
    /\ \A i \in 1..m : at[i] \in keep
    /\ \A i, j \in 1..m : i < j => at[i] < at[j]
    /\ \A i \in 1..k : i \in keep => \E j \in 1..m : at[j] = i
    /\ s.prev = IF m = 0 THEN 0 ELSE at[m]
    /\ s.head = IF m = 0 THEN s.iter ELSE at[1]
    /\ \A j \in 1..m : s.next[at[j]] = IF j = m THEN s.iter ELSE at[j + 1]

LEMMA UnlinkWalks ==
    ASSUME NEW n \in Nat, NEW keep, NEW s, NEW k \in Nat, k < n, NEW m, NEW at,
           WalkInv(n, keep, s, k, m, at), k + 1 \notin keep
    PROVE  WalkInv(n, keep, Unlink(s), k + 1, m, at)
<1> DEFINE next == IF s.prev = 0 THEN s.next ELSE [s.next EXCEPT ![s.prev] = s.next[s.iter]]
           head == IF s.prev = 0 THEN s.next[s.iter] ELSE s.head
           cnt  == IF s.cnt > 0 THEN s.cnt - 1 ELSE 0
           u == [head |-> head, prev |-> s.prev, iter |-> s.next[s.iter], cnt |-> cnt,
                 next |-> next]
<1>1. Unlink(s) = u
  <2>1. s = [head |-> s.head, prev |-> s.prev, iter |-> s.iter, cnt |-> s.cnt, next |-> s.next]
    BY DEF WalkInv
  <2>2. Unlink(s) = [s EXCEPT !.head = head, !.next = next, !.iter = s.next[s.iter], !.cnt = cnt]
    BY DEF Unlink
  <2> HIDE DEF head, next, cnt
  <2> QED BY <2>1, <2>2
<1>2. /\ s.iter = k + 1 /\ k + 1 \in 1..n /\ s.next[k + 1] = After(n, k + 1)
      /\ After(n, k + 1) \in 0..n
      /\ After(n, k + 1) = 0 \/ After(n, k + 1) > k + 1
  BY DEF WalkInv, After
<1>3. m \in Nat /\ m <= k /\ s.cnt = (n - k) + m /\ at \in [1..m -> 1..k]
  BY DEF WalkInv
<1>4. cnt = (n - (k + 1)) + m
  BY <1>3
<1>5. /\ s.next \in [1..n -> 0..n]
      /\ \A i \in 1..n : s.next[i] = 0 \/ s.next[i] > i
      /\ \A i \in 1..n : i > k => s.next[i] = After(n, i)
      /\ \A j \in 1..m : s.next[at[j]] = IF j = m THEN s.iter ELSE at[j + 1]
  BY DEF WalkInv
<1>6. /\ \A i \in 1..m : at[i] \in keep
      /\ \A i, j \in 1..m : i < j => at[i] < at[j]
      /\ \A i \in 1..k : i \in keep => \E j \in 1..m : at[j] = i
      /\ s.prev = IF m = 0 THEN 0 ELSE at[m]
      /\ s.head = IF m = 0 THEN s.iter ELSE at[1]
  BY DEF WalkInv
<1>7. at \in [1..m -> 1..k + 1]
  BY <1>3
<1>8. \A i \in 1..k + 1 : i \in keep => \E j \in 1..m : at[j] = i
  <2>1. \A i \in 1..k + 1 : i \in keep => i \in 1..k
    OBVIOUS
  <2> QED BY <1>6, <2>1
<1>9. CASE m = 0
  <2>1. next = s.next /\ head = After(n, k + 1)
    BY <1>2, <1>6, <1>9
  <2>2. \A i \in 1..n : i > k + 1 => s.next[i] = After(n, i)
    BY <1>5
  <2> HIDE DEF next, head, cnt
  <2>3. WalkInv(n, keep, u, k + 1, m, at)
    BY <1>2, <1>3, <1>4, <1>5, <1>6, <1>7, <1>8, <1>9, <2>1, <2>2 DEF WalkInv
  <2> QED BY <1>1, <2>3
<1>10. CASE m # 0
  <2>1. m \in 1..m /\ s.prev = at[m] /\ at[m] \in 1..k /\ at[m] \in 1..n /\ s.prev # 0
    BY <1>3, <1>6, <1>10
  <2>2. next = [s.next EXCEPT ![at[m]] = After(n, k + 1)] /\ head = s.head
    BY <1>2, <2>1
  <2>3. /\ next \in [1..n -> 0..n]
        /\ next[at[m]] = After(n, k + 1)
        /\ \A i \in 1..n : i # at[m] => next[i] = s.next[i]
    BY <1>2, <1>5, <2>1, <2>2
  <2>4. ASSUME NEW j \in 1..m, j # m
        PROVE  at[j] # at[m] /\ at[j] \in 1..n /\ at[j] \in 1..k
    <3>1. j < m /\ at[j] \in 1..k
      BY <1>3, <2>4
    <3>2. at[j] < at[m]
      BY <1>6, <2>1, <3>1
    <3> QED BY <2>1, <3>1, <3>2
  <2> HIDE DEF next, head, cnt
  <2>5. \A i \in 1..n : next[i] = 0 \/ next[i] > i
    <3>1. next[at[m]] = 0 \/ next[at[m]] > at[m]
      <4> DEFINE b == at[m]
                 c == After(n, k + 1)
      <4>1. b \in 1..k /\ c \in 0..n /\ (c = 0 \/ c > k + 1)
        BY <1>2, <2>1
      <4> HIDE DEF b, c
      <4>2. c = 0 \/ c > b
        BY <4>1
      <4> QED BY <2>3, <4>2 DEF b, c
    <3>2. \A i \in 1..n : i # at[m] => next[i] = 0 \/ next[i] > i
      BY <1>5, <2>3
    <3> QED BY <3>1, <3>2
  <2>6. ASSUME NEW i \in 1..n, i > k + 1 PROVE next[i] = After(n, i)
    <3>1. i > k /\ i # at[m]
      BY <2>1, <2>6
    <3> QED BY <1>5, <2>3, <3>1
  <2>7. \A j \in 1..m : next[at[j]] = IF j = m THEN After(n, k + 1) ELSE at[j + 1]
    BY <1>5, <2>1, <2>3, <2>4
  <2>8. WalkInv(n, keep, u, k + 1, m, at)
    BY <1>2, <1>3, <1>4, <1>6, <1>7, <1>8, <1>10, <2>1, <2>2, <2>3, <2>5, <2>6, <2>7
       DEF WalkInv
  <2> QED BY <1>1, <2>8
<1> QED BY <1>9, <1>10

LEMMA SkipWalks ==
    ASSUME NEW n \in Nat, NEW keep, NEW s, NEW k \in Nat, k < n, NEW m, NEW at,
           WalkInv(n, keep, s, k, m, at), k + 1 \in keep
    PROVE  WalkInv(n, keep, Skip(s), k + 1, m + 1,
                   [j \in 1..m + 1 |-> IF j = m + 1 THEN k + 1 ELSE at[j]])
<1> DEFINE m1 == m + 1
           a1 == [j \in 1..m1 |-> IF j = m1 THEN k + 1 ELSE at[j]]
           u  == [head |-> s.head, prev |-> s.iter, iter |-> s.next[s.iter], cnt |-> s.cnt,
                  next |-> s.next]
<1>1. Skip(s) = u
  <2>1. s = [head |-> s.head, prev |-> s.prev, iter |-> s.iter, cnt |-> s.cnt, next |-> s.next]
    BY DEF WalkInv
  <2> DEFINE ahead == s.next[s.iter]
  <2>2. Skip(s) = [s EXCEPT !.prev = s.iter, !.iter = ahead]
    BY DEF Skip
  <2> HIDE DEF ahead
  <2>3. Skip(s) = [head |-> s.head, prev |-> s.iter, iter |-> ahead, cnt |-> s.cnt, next |-> s.next]
    BY <2>1, <2>2
  <2> QED BY <2>3 DEF ahead
<1>2. /\ s.iter = k + 1 /\ k + 1 \in 1..n /\ s.next[k + 1] = After(n, k + 1)
  BY DEF WalkInv, After
<1>3. m \in Nat /\ m <= k /\ s.cnt = (n - k) + m /\ at \in [1..m -> 1..k]
  BY DEF WalkInv
<1>4. /\ s.next \in [1..n -> 0..n]
      /\ \A i \in 1..n : s.next[i] = 0 \/ s.next[i] > i
      /\ \A i \in 1..n : i > k => s.next[i] = After(n, i)
      /\ \A j \in 1..m : s.next[at[j]] = IF j = m THEN s.iter ELSE at[j + 1]
  BY DEF WalkInv
<1>5. /\ \A i \in 1..m : at[i] \in keep
      /\ \A i, j \in 1..m : i < j => at[i] < at[j]
      /\ \A i \in 1..k : i \in keep => \E j \in 1..m : at[j] = i
      /\ s.head = IF m = 0 THEN s.iter ELSE at[1]
  BY DEF WalkInv
<1>6. m1 \in Nat /\ m1 <= k + 1 /\ m1 # 0 /\ s.cnt = (n - (k + 1)) + m1
  BY <1>3
<1>7. a1[m1] = k + 1 /\ \A j \in 1..m : j # m1 /\ j \in 1..m1 /\ a1[j] = at[j]
  BY <1>3
<1>8. \A j \in 1..m1 : j = m1 \/ j \in 1..m
  BY <1>3
<1>9. a1 \in [1..m1 -> 1..k + 1]
  BY <1>3
<1> HIDE DEF a1
<1>10. \A i \in 1..m1 : a1[i] \in keep
  BY <1>5, <1>7, <1>8
<1>11. ASSUME NEW i \in 1..m1, NEW j \in 1..m1, i < j PROVE a1[i] < a1[j]
  <2>1. i \in 1..m
    BY <1>3, <1>11
  <2>2. a1[i] = at[i] /\ at[i] \in 1..k
    BY <1>3, <1>7, <2>1
  <2>3. CASE j = m1
    BY <1>7, <2>2, <2>3
  <2>4. CASE j \in 1..m
    BY <1>5, <1>7, <1>11, <2>1, <2>4
  <2> QED BY <1>8, <2>3, <2>4
<1>12. \A i \in 1..k + 1 : i \in keep => \E j \in 1..m1 : a1[j] = i
  <2>1. \A i \in 1..k + 1 : i = k + 1 \/ i \in 1..k
    OBVIOUS
  <2>2. m1 \in 1..m1
    BY <1>6
  <2> QED BY <1>5, <1>7, <2>1, <2>2
<1>13. s.head = a1[1]
  <2>1. CASE m = 0
    BY <1>2, <1>5, <1>7, <2>1
  <2>2. CASE m # 0
    BY <1>3, <1>5, <1>7, <2>2
  <2> QED BY <2>1, <2>2
<1>14. ASSUME NEW j \in 1..m1
       PROVE  s.next[a1[j]] = IF j = m1 THEN s.next[s.iter] ELSE a1[j + 1]
  <2>1. CASE j = m1
    BY <1>2, <1>7, <2>1
  <2>2. CASE j \in 1..m
    <3>1. s.next[a1[j]] = IF j = m THEN k + 1 ELSE at[j + 1]
      BY <1>2, <1>4, <1>7, <2>2
    <3>2. CASE j = m
      BY <1>7, <2>2, <3>1, <3>2
    <3>3. CASE j # m
      <4>1. j + 1 \in 1..m
        BY <1>3, <2>2, <3>3
      <4> QED BY <1>7, <2>2, <3>1, <3>3, <4>1
    <3> QED BY <3>2, <3>3
  <2> QED BY <1>8, <2>1, <2>2
<1>15. \A i \in 1..n : i > k + 1 => s.next[i] = After(n, i)
  BY <1>4
<1>16. WalkInv(n, keep, u, k + 1, m1, a1)
  <2> HIDE DEF m1
  <2>1. s.next[s.iter] = After(n, k + 1) /\ a1[m1] = s.iter
    BY <1>2, <1>7
  <2> QED BY <1>4, <1>6, <1>9, <1>10, <1>11, <1>12, <1>13, <1>14, <1>15, <2>1 DEF WalkInv
<1> QED BY <1>1, <1>16 DEF a1

(* The walk of remove_mount, when the counter is right, leaves a chain of  *)
(* the nodes that do not match.                                            *)
LEMMA WalkEnds ==
    ASSUME NEW n \in Nat, n = Len(mount_list), mount_cnt = n, NEW host, NEW path, NEW keep,
           \A i \in 1..n : i \in keep <=> ~Matches(mount_list[i], host, path)
    PROVE  \E m, at : WalkInv(n, keep, Walk(host, path), n, m, at)
<1> DEFINE first == IF n = 0 THEN 0 ELSE 1
           s0 == [head |-> first, prev |-> 0, iter |-> first, cnt |-> mount_cnt,
                  next |-> [i \in 1..n |-> IF i = n THEN 0 ELSE i + 1]]
           step(r) == IF Matches(mount_list[r.iter], host, path) THEN Unlink(r) ELSE Skip(r)
           Runs(f, k) == f = [i \in 0..k |-> IF i = 0 THEN s0 ELSE step(f[i-1])]
           w == CHOOSE w : Runs(w, n)
(* The loop has a run of every length.                                     *)
<1>1. \E f : Runs(f, n)
  <2> DEFINE S == {k \in Nat : \E f : Runs(f, k)}
  <2> HIDE DEF s0, step
  <2>1. 0 \in S
    <3> DEFINE f == [i \in 0..0 |-> IF i = 0 THEN s0 ELSE step(s0)]
    <3>1. f = [i \in 0..0 |-> IF i = 0 THEN s0 ELSE step(f[i-1])]
      OBVIOUS
    <3> HIDE DEF f
    <3> QED BY <3>1
  <2>2. ASSUME NEW k \in Nat, k \in S PROVE k + 1 \in S
    <3>1. PICK f : f = [i \in 0..k |-> IF i = 0 THEN s0 ELSE step(f[i-1])]
      BY <2>2
    <3> DEFINE g == [i \in 0..k+1 |-> IF i = k + 1 THEN step(f[k]) ELSE f[i]]
    <3>2. \A i \in 0..k : f[i] = IF i = 0 THEN s0 ELSE step(f[i-1])
      BY <3>1
    <3>3. ASSUME NEW i \in 0..k+1 PROVE g[i] = IF i = 0 THEN s0 ELSE step(g[i-1])
      <4>1. CASE i = k + 1
        BY <4>1
      <4>2. CASE i # k + 1
        <5>1. i \in 0..k /\ (i # 0 => i - 1 \in 0..k+1 /\ i - 1 # k + 1)
          BY <4>2
        <5> QED BY <3>2, <4>2, <5>1
      <4> QED BY <4>1, <4>2
    <3>4. g = [i \in 0..k+1 |-> g[i]]
      OBVIOUS
    <3> HIDE DEF g
    <3>5. g = [i \in 0..k+1 |-> IF i = 0 THEN s0 ELSE step(g[i-1])]
      BY <3>3, <3>4
    <3> QED BY <3>5
  <2> HIDE DEF S, Runs
  <2>3. n \in S
    BY <2>1, <2>2, SetInduction
  <2> QED BY <2>3 DEF S
<1>2. Runs(w, n)
  BY <1>1
<1>3. Walk(host, path) = w[n]
  BY DEF Walk
<1> HIDE DEF w
<1>4. \A k \in 0..n : w[k] = IF k = 0 THEN s0 ELSE step(w[k-1])
  <2> HIDE DEF s0, step
  <2> QED BY <1>2
<1> HIDE DEF Runs
<1>5. \E m, at : WalkInv(n, keep, w[n], n, m, at)
  <2> DEFINE S == {k \in Nat : \E m, at : WalkInv(n, keep, w[k], k, m, at)}
  <2>1. 0 \in S
    <3> DEFINE at == [i \in 1..0 |-> 0]
    <3>1. WalkInv(n, keep, s0, 0, 0, at)
      BY DEF WalkInv, After
    <3>2. w[0] = s0
      BY <1>4
    <3> HIDE DEF s0, at
    <3> QED BY <3>1, <3>2
  <2> HIDE DEF s0
  <2>2. ASSUME NEW k \in Nat, k < n, k \in S PROVE k + 1 \in S
    <3>1. PICK m, at : WalkInv(n, keep, w[k], k, m, at)
      BY <2>2
    <3>2. k + 1 \in 0..n /\ k + 1 # 0 /\ k + 1 - 1 = k /\ k + 1 \in 1..n
      BY <2>2
    <3>3. w[k+1] = step(w[k])
      <4> HIDE DEF step
      <4> QED BY <1>4, <3>2
    <3>4. w[k].iter = k + 1
      BY <2>2, <3>1 DEF WalkInv, After
    <3>5. CASE k + 1 \notin keep
      <4>1. w[k+1] = Unlink(w[k])
        BY <3>2, <3>3, <3>4, <3>5
      <4>2. WalkInv(n, keep, w[k+1], k + 1, m, at)
        BY <2>2, <3>1, <3>5, <4>1, UnlinkWalks
      <4> QED BY <4>2
    <3>6. CASE k + 1 \in keep
      <4>1. w[k+1] = Skip(w[k])
        BY <3>2, <3>3, <3>4, <3>6
      <4> DEFINE a1 == [j \in 1..m + 1 |-> IF j = m + 1 THEN k + 1 ELSE at[j]]
      <4>2. WalkInv(n, keep, w[k+1], k + 1, m + 1, a1)
        BY <2>2, <3>1, <3>6, <4>1, SkipWalks
      <4> HIDE DEF a1
      <4> QED BY <4>2
    <3> QED BY <3>5, <3>6
  <2> HIDE DEF S, step
  <2>3. n \in S
    BY <2>1, <2>2, SetInduction
  <2> QED BY <2>3 DEF S
<1> QED BY <1>3, <1>5

LEMMA ConsSeq ==
    ASSUME NEW S, NEW e \in S, NEW q \in Seq(S)
    PROVE  /\ <<e>> \o q \in Seq(S)
           /\ Len(<<e>> \o q) = Len(q) + 1
           /\ (<<e>> \o q)[1] = e
           /\ \A i \in 1..Len(q) : (<<e>> \o q)[i + 1] = q[i]
OBVIOUS

(* The list that is left when the walk is over: the kept nodes, in order.  *)
LEMMA ChainOfKept ==
    ASSUME NEW n \in Nat, mount_list \in Seq(Entry), n = Len(mount_list),
           NEW keep, NEW s, NEW m, NEW at, WalkInv(n, keep, s, n, m, at)
    PROVE  /\ Chain(s) \in Seq(Entry)
           /\ Len(Chain(s)) = m
           /\ \A i \in 1..m : Chain(s)[i] = mount_list[at[i]]
<1> DEFINE D(d) == {i \in 0..n : i = 0 \/ i > n - d}
           cons(i, f) == <<mount_list[i]>> \o f[s.next[i]]
           Runs(f, d) == f = [i \in D(d) |-> IF i = 0 THEN << >> ELSE cons(i, f)]
           from == CHOOSE f : f = [i \in 0..n |-> IF i = 0 THEN << >> ELSE cons(i, f)]
<1>1. /\ s.next \in [1..n -> 0..n]
      /\ \A i \in 1..n : s.next[i] = 0 \/ s.next[i] > i
      /\ m \in Nat /\ at \in [1..m -> 1..n]
      /\ s.head = IF m = 0 THEN 0 ELSE at[1]
      /\ \A j \in 1..m : s.next[at[j]] = IF j = m THEN 0 ELSE at[j + 1]
  BY DEF WalkInv, After
<1>2. \E f : Runs(f, n)
  <2> DEFINE S == {d \in Nat : \E f : Runs(f, d)}
  <2>1. 0 \in S
    <3>1. D(0) = {0}
      OBVIOUS
    <3> DEFINE f == [i \in {0} |-> << >>]
    <3>2. f = [i \in {0} |-> IF i = 0 THEN << >> ELSE cons(i, f)]
      OBVIOUS
    <3> HIDE DEF f
    <3> QED BY <3>1, <3>2
  <2>2. ASSUME NEW d \in Nat, d < n, d \in S PROVE d + 1 \in S
    <3>1. PICK f : f = [i \in D(d) |-> IF i = 0 THEN << >> ELSE cons(i, f)]
      BY <2>2
    <3> DEFINE x == n - d
               g == [i \in D(d + 1) |-> IF i = x THEN cons(x, f) ELSE f[i]]
    <3>2. x \in 1..n /\ x \notin D(d) /\ D(d + 1) = D(d) \cup {x}
      BY <2>2
    <3>3. \A i \in D(d + 1) : i # 0 => s.next[i] \in D(d)
      <4> SUFFICES ASSUME NEW i \in D(d + 1), i # 0 PROVE s.next[i] \in D(d)
        OBVIOUS
      <4>1. i \in 1..n /\ i >= n - d /\ s.next[i] \in 0..n
        BY <1>1, <2>2
      <4>2. s.next[i] = 0 \/ s.next[i] > i
        BY <1>1, <4>1
      <4> QED BY <4>1, <4>2
    <3>4. \A i \in D(d) : f[i] = IF i = 0 THEN << >> ELSE cons(i, f)
      <4> HIDE DEF cons, D
      <4> QED BY <3>1
    <3>5. \A i \in D(d) : g[i] = f[i]
      <4> HIDE DEF cons, D, x
      <4> QED BY <3>2
    <3>6. g[x] = cons(x, f) /\ x # 0
      BY <3>2
    <3>7. \A i \in D(d + 1) : i # 0 => cons(i, g) = cons(i, f)
      <4> HIDE DEF g, D
      <4> QED BY <3>3, <3>5
    <3>8. \A i \in D(d + 1) : g[i] = IF i = 0 THEN << >> ELSE cons(i, g)
      <4> HIDE DEF g, D, cons, x
      <4> QED BY <3>2, <3>4, <3>5, <3>6, <3>7
    <3>9. g = [i \in D(d + 1) |-> g[i]]
      OBVIOUS
    <3> HIDE DEF g, D, cons, x
    <3>10. g = [i \in D(d + 1) |-> IF i = 0 THEN << >> ELSE cons(i, g)]
      BY <3>8, <3>9
    <3> QED BY <3>10
  <2> HIDE DEF S, Runs
  <2>3. n \in S
    BY <2>1, <2>2, SetInduction
  <2> QED BY <2>3 DEF S
<1>3. D(n) = 0..n
  OBVIOUS
<1>4. from = [i \in 0..n |-> IF i = 0 THEN << >> ELSE cons(i, from)]
  <2> HIDE DEF cons, D
  <2> QED BY <1>2, <1>3
<1>5. Chain(s) = from[s.head]
  BY DEF Chain
<1> HIDE DEF from
<1>6. from[0] = << >> /\ \A i \in 1..n : from[i] = cons(i, from)
  <2> HIDE DEF cons
  <2> QED BY <1>4
<1> DEFINE Good(d) == LET q == from[at[m - d]]
                      IN /\ q \in Seq(Entry)
                         /\ Len(q) = d + 1
                         /\ \A i \in 1..d + 1 : q[i] = mount_list[at[m - d + i - 1]]
           T == {d \in Nat : Good(d)}
<1>7. \A j \in 1..m : /\ at[j] \in 1..n /\ mount_list[at[j]] \in Entry
                      /\ from[at[j]] = <<mount_list[at[j]]>> \o from[s.next[at[j]]]
  <2>1. \A i \in 1..n : mount_list[i] \in Entry
    <3> HIDE DEF Entry
    <3> QED OBVIOUS
  <2>2. \A j \in 1..m : at[j] \in 1..n
    BY <1>1
  <2> HIDE DEF Entry
  <2> QED BY <1>6, <2>1, <2>2
<1>8. m # 0 => 0 \in T
  <2> SUFFICES ASSUME m # 0 PROVE Good(0)
    OBVIOUS
  <2>1. m \in 1..m /\ m - 0 = m
    BY <1>1
  <2>2. from[at[m]] = <<mount_list[at[m]]>> \o << >> /\ mount_list[at[m]] \in Entry
    BY <1>1, <1>6, <1>7, <2>1
  <2>3. << >> \in Seq(Entry) /\ Len(<< >>) = 0
    OBVIOUS
  <2>4. /\ from[at[m]] \in Seq(Entry) /\ Len(from[at[m]]) = 1
        /\ from[at[m]][1] = mount_list[at[m]]
    BY <2>2, <2>3, ConsSeq
  <2>5. \A i \in 1..0 + 1 : i = 1 /\ m - 0 + i - 1 = m
    BY <1>1
  <2> QED BY <2>1, <2>4, <2>5
<1>9. ASSUME NEW d \in Nat, d < m - 1, d \in T PROVE d + 1 \in T
  <2> DEFINE j == m - (d + 1)
             q == from[at[j + 1]]
  <2>1. j \in 1..m /\ j # m /\ j + 1 \in 1..m /\ j + 1 = m - d
    BY <1>1, <1>9
  <2>2. /\ q \in Seq(Entry) /\ Len(q) = d + 1
        /\ \A i \in 1..d + 1 : q[i] = mount_list[at[m - d + i - 1]]
    BY <1>9, <2>1
  <2>3. from[at[j]] = <<mount_list[at[j]]>> \o q /\ mount_list[at[j]] \in Entry
    BY <1>1, <1>7, <2>1
  <2> HIDE DEF q
  <2>4. /\ from[at[j]] \in Seq(Entry)
        /\ Len(from[at[j]]) = d + 1 + 1
        /\ from[at[j]][1] = mount_list[at[j]]
        /\ \A i \in 1..d + 1 : from[at[j]][i + 1] = q[i]
    BY <2>2, <2>3, ConsSeq
  <2>5. ASSUME NEW i \in 1..d + 1 + 1 PROVE from[at[j]][i] = mount_list[at[j + i - 1]]
    <3>1. CASE i = 1
      BY <2>1, <2>4, <3>1
    <3>2. CASE i # 1
      <4>1. i - 1 \in 1..d + 1 /\ i - 1 + 1 = i /\ m - d + (i - 1) - 1 = j + i - 1
        BY <1>1, <3>2
      <4>2. from[at[j]][i] = q[i - 1]
        BY <2>4, <4>1
      <4>3. q[i - 1] = mount_list[at[m - d + (i - 1) - 1]]
        BY <2>2, <4>1
      <4> QED BY <4>1, <4>2, <4>3
    <3> QED BY <3>1, <3>2
  <2> HIDE DEF j
  <2>6. Good(d + 1)
    BY <2>4, <2>5 DEF j
  <2> QED BY <2>6
<1>10. CASE m = 0
  <2>1. Chain(s) = << >>
    BY <1>1, <1>5, <1>6, <1>10
  <2>2. 1..m = {}
    BY <1>10
  <2> QED BY <1>10, <2>1, <2>2
<1>11. CASE m # 0
  <2> HIDE DEF Good
  <2>1. m - 1 \in Nat /\ m - 1 \in 0..m - 1
    BY <1>1, <1>11
  <2>2. m - 1 \in T
    <3> HIDE DEF T
    <3> QED BY <1>8, <1>9, <1>11, <2>1, SetInduction
  <2>3. Good(m - 1)
    BY <2>2
  <2>4. m - (m - 1) = 1 /\ m - 1 + 1 = m /\ \A i \in 1..m : 1 + i - 1 = i
    BY <1>1
  <2>5. Chain(s) = from[at[1]]
    BY <1>1, <1>5, <1>11
  <2> QED BY <2>3, <2>4, <2>5 DEF Good
<1> QED BY <1>10, <1>11

(* remove_mount takes out the entries that match, and counts them.         *)
LEMMA remove_mountOK ==
    ASSUME mount_list \in Seq(Entry), mount_cnt = Len(mount_list), NEW host, NEW path,
           remove_mount(host, path)
    PROVE  LET keep == {i \in 1..Len(mount_list) : ~Matches(mount_list[i], host, path)}
           IN /\ mount_list' \in Seq(Entry)
              /\ mount_cnt' = Len(mount_list')
              /\ Selected(mount_list, keep, mount_list')
<1> DEFINE n == Len(mount_list)
           keep == {i \in 1..n : ~Matches(mount_list[i], host, path)}
           s == Walk(host, path)
<1>1. n \in Nat
  OBVIOUS
<1>2. \A i \in 1..n : i \in keep <=> ~Matches(mount_list[i], host, path)
  OBVIOUS
<1>3. keep \subseteq 1..n
  OBVIOUS
<1>4. mount_list' = Chain(s) /\ mount_cnt' = s.cnt
  BY DEF remove_mount
<1> HIDE DEF keep, s
<1>5. PICK m, at : WalkInv(n, keep, s, n, m, at)
  BY <1>1, <1>2, WalkEnds DEF s
<1>6. /\ Chain(s) \in Seq(Entry)
      /\ Len(Chain(s)) = m
      /\ \A i \in 1..m : Chain(s)[i] = mount_list[at[i]]
  BY <1>1, <1>5, ChainOfKept
<1>7. /\ m \in Nat /\ s.cnt = (n - n) + m
      /\ at \in [1..m -> 1..n]
      /\ \A i \in 1..m : at[i] \in keep
      /\ \A i, j \in 1..m : i < j => at[i] < at[j]
      /\ \A i \in 1..n : i \in keep => \E j \in 1..m : at[j] = i
  BY <1>5 DEF WalkInv
<1>8. mount_cnt' = m
  BY <1>1, <1>4, <1>7
<1>9. at \in [1..m -> keep]
  BY <1>7
<1>10. \A k \in keep : \E i \in 1..m : at[i] = k
  BY <1>3, <1>7
<1>11. Selected(mount_list, keep, Chain(s))
  BY <1>6, <1>7, <1>9, <1>10 DEF Selected
<1> QED BY <1>4, <1>6, <1>8, <1>11 DEF keep

-----------------------------------------------------------------------------
(* "/" never gets number 0, which a rename gives to what had no number.    *)
RootNumbered(t) == Root \in Known(t) => t.PathMapA[Root] # NoFD

LEMMA GetFDRoot ==
    ASSUME NEW t, TableType(t), RootNumbered(t), NEW p \in Path
    PROVE  RootNumbered(GetFD(t, p))
<1>1. CASE p \in Known(t)
  BY <1>1 DEF GetFD
<1>2. CASE p \notin Known(t)
  BY <1>2 DEF GetFD, Known, RootNumbered, TableType, FirstFD, NoFD
<1> QED BY <1>1, <1>2

LEMMA ReplacePathRoot ==
    ASSUME NEW t, TableType(t), RootNumbered(t), NEW old \in Path, NEW new \in Path,
           Movable(old, new), old # Root
    PROVE  RootNumbered(ReplacePath(t, old, new, TRUE))
<1> DEFINE u     == ReplacePath(t, old, new, TRUE)
           moved == Descendants(t, old, TRUE)
           dest  == {Rebase(p, old, new) : p \in moved}
           rest  == Known(t) \ (moved \cup {old})
<1>1. Under(old, Root)
  <2>1. Len(old) \in Nat /\ Len(old) > 0 /\ Root \in Path /\ Len(Root) = 0
    BY RootIsPath DEF Path
  <2> QED BY <2>1, UnderPointwise
<1>2. new # Root
  BY <1>1 DEF Movable
<1>3. Root \notin dest
  <2>1. ASSUME NEW p \in moved PROVE Rebase(p, old, new) # Root
    <3>1. p \in Path /\ Under(p, old)
      BY DEF Descendants, TableType
    <3>2. Under(Rebase(p, old, new), new)
      BY <3>1, RebaseUnder
    <3> QED BY <3>2, RootIsPath DEF Under, Path
  <2> QED BY <2>1
<1>4. /\ Known(u) = rest \cup dest \cup {new}
      /\ \A q \in rest : q # new /\ q \notin dest => u.PathMapA[q] = t.PathMapA[q]
  <2> HIDE DEF moved, dest
  <2> QED BY DEF ReplacePath, Known, moved, dest
<1> HIDE DEF u, dest, moved
<1> QED BY <1>2, <1>3, <1>4 DEF RootNumbered, u

(* The inductive invariant.                                                *)
IInv ==
    /\ TypeOK
    /\ CountMatchesList
    /\ Consistent(fddb)
    /\ RootNumbered(fddb)

Safe == IInv' /\ UnmountStep /\ MntStep

LEMMA IInvInit == Init => IInv
<1> SUFFICES ASSUME Init PROVE IInv
  OBVIOUS
<1>1. TableType(fddb) /\ Consistent(fddb) /\ RootNumbered(fddb)
  BY EmptyTableOK DEF Init, RootNumbered, EmptyTable, Known
<1> QED BY <1>1, MountdAssumption DEF Init, IInv, TypeOK, CountMatchesList

(* What an unmounting request leaves.                                      *)
LEMMA UnmountSafe ==
    ASSUME IInv, NEW host \in Host, NEW path, NEW op \in {"UMNT", "UMNTALL"}, NEW dpath,
           op = "UMNT" => path = dpath /\ path # NULL,
           op = "UMNTALL" => path = NULL,
           remove_mount(host, path), Answered(op, host, dpath, "OK", NoFD), UNCHANGED fddb
    PROVE  Safe
<1> DEFINE keep == {i \in 1..Len(mount_list) : ~Matches(mount_list[i], host, path)}
<1>1. /\ mount_list' \in Seq(Entry)
      /\ mount_cnt' = Len(mount_list')
      /\ Selected(mount_list, keep, mount_list')
  BY remove_mountOK DEF IInv, TypeOK, CountMatchesList
<1>2. last'.op = op /\ last'.host = host /\ last'.dpath = dpath
  BY DEF Answered
<1>3. IInv'
  <2>1. mount_cnt' \in Nat
    BY <1>1
  <2> HIDE DEF keep
  <2> QED BY <1>1, <1>2, <2>1 DEF IInv, TypeOK, CountMatchesList
<1>4. MntStep
  BY <1>2 DEF MntStep
<1>5. UnmountStep
  <2> DEFINE gone(e) == /\ e.ml_hostname = last'.host
                        /\ last'.op = "UMNTALL" \/ e.ml_directory = last'.dpath
  <2>1. \A i : Matches(mount_list[i], host, path) <=> gone(mount_list[i])
    BY <1>2 DEF Matches
  <2>2. keep = {i \in 1..Len(mount_list) : ~gone(mount_list[i])}
    BY <2>1
  <2> HIDE DEF keep
  <2> QED BY <1>1, <2>2 DEF UnmountStep
<1> QED BY <1>3, <1>4, <1>5 DEF Safe

(* The handle that MNT answers with, from the lstat at its start.          *)
LEMMA FDOfResolves ==
    ASSUME NEW t, TableType(t), Consistent(t), RootNumbered(t), NEW p \in Path
    PROVE  GetPath(GetFD(t, p), FDOf(t, p)) = p \/ (FDOf(t, p) = NoFD /\ p # Root)
<1>1. CASE p \in Known(t)
  <2>1. FDOf(t, p) = t.PathMapA[p] /\ GetFD(t, p) = t /\ t.PathMapA[p] \in Number
    BY <1>1 DEF FDOf, GetFD, TableType
  <2>2. CASE t.PathMapA[p] = NoFD
    BY <1>1, <2>1, <2>2 DEF RootNumbered
  <2>3. CASE t.PathMapA[p] # NoFD
    BY <1>1, <2>1, <2>3 DEF Consistent, GetPath, Number, FirstFD
  <2> QED BY <2>2, <2>3
<1>2. CASE p \notin Known(t)
  <2> DEFINE fd == t.FDcounter + 1
  <2>1. FDOf(t, p) = fd /\ fd >= 100
    BY <1>2 DEF FDOf, TableType, FirstFD
  <2>2. fd \in DOMAIN GetFD(t, p).PathMapB /\ GetFD(t, p).PathMapB[fd] = p
    BY <1>2 DEF GetFD
  <2> QED BY <2>1, <2>2 DEF GetPath
<1> QED BY <1>1, <1>2

LEMMA MntSafe ==
    ASSUME IInv, NEW host \in Host, NEW vers, NEW dpath \in Dirpath, NEW kind,
           Mnt(host, vers, dpath, kind)
    PROVE  Safe
<1> DEFINE path == Clean(dpath)
<1>1. path \in Path
  BY MountdAssumption DEF Clean
<1>2. /\ TableType(fddb) /\ Consistent(fddb) /\ RootNumbered(fddb)
      /\ mount_list \in Seq(Entry) /\ mount_cnt = Len(mount_list) /\ mount_cnt \in Nat
  BY DEF IInv, TypeOK, CountMatchesList
<1>3. PICK status :
         /\ status = "OK" => fddb' = GetFD(fddb, path)
         /\ fddb' \in {fddb, GetFD(fddb, path)}
         /\ IF status = "OK" THEN add_mount(host, dpath) ELSE UNCHANGED <<mount_list, mount_cnt>>
         /\ Answered("MNT", host, dpath, status, IF status = "OK" THEN FDOf(fddb, path) ELSE NoFD)
  BY DEF Mnt
<1> HIDE DEF path
<1>4. TableType(fddb') /\ Consistent(fddb') /\ RootNumbered(fddb')
  BY <1>1, <1>2, <1>3, GetFDOK, GetFDRoot
<1>5. mount_list' \in Seq(Entry) /\ mount_cnt' = Len(mount_list') /\ mount_cnt' \in Nat
  <2>1. [ml_hostname |-> host, ml_directory |-> dpath] \in Entry
    BY DEF Entry
  <2> HIDE DEF Entry
  <2> QED BY <1>2, <1>3, <2>1 DEF add_mount
<1>6. /\ last'.op = "MNT" /\ last'.host = host /\ last'.dpath = dpath /\ last'.status = status
      /\ status = "OK" => last'.fh = FDOf(fddb, path)
  BY <1>3 DEF Answered
<1>7. IInv'
  BY <1>4, <1>5, <1>6 DEF IInv, TypeOK, CountMatchesList
<1>8. MntStep
  BY <1>1, <1>2, <1>3, <1>6, FDOfResolves DEF MntStep, path
<1>9. UnmountStep
  BY <1>6 DEF UnmountStep
<1> QED BY <1>7, <1>8, <1>9 DEF Safe

(* The NFS procedures leave the list alone.                                *)
LEMMA NfsSafe ==
    ASSUME IInv, UNCHANGED <<mount_list, mount_cnt, last>>,
           TableType(fddb'), Consistent(fddb'), RootNumbered(fddb')
    PROVE  Safe
<1>1. IInv'
  BY DEF IInv, TypeOK, CountMatchesList
<1>2. UnmountStep /\ MntStep
  BY DEF UnmountStep, MntStep
<1> QED BY <1>1, <1>2 DEF Safe

LEMMA NextSafe == IInv /\ Next => Safe
<1> SUFFICES ASSUME IInv, Next PROVE Safe
  OBVIOUS
<1>1. TableType(fddb) /\ Consistent(fddb) /\ RootNumbered(fddb)
  BY DEF IInv, TypeOK
<1>2. MountPath \subseteq Path
  BY MountdAssumption DEF MountPath
<1>3. ASSUME NEW host \in Host, NEW dpath \in Dirpath, NEW vers, NEW kind,
             Mnt(host, vers, dpath, kind)
      PROVE  Safe
  BY <1>3, MntSafe
<1>4. ASSUME NEW host \in Host, NEW dpath \in Dirpath, Umnt(host, dpath) PROVE Safe
  <2>1. dpath # NULL
    BY MountdAssumption
  <2> QED BY <1>4, <2>1, UnmountSafe DEF Umnt
<1>5. ASSUME NEW host \in Host, Umntall(host) PROVE Safe
  BY <1>5, UnmountSafe DEF Umntall
<1>6. CASE Look
  BY <1>1, <1>6, NfsSafe DEF Look, vars
<1>7. ASSUME NEW path \in MountPath, NfsNumbers(path) PROVE Safe
  BY <1>1, <1>2, <1>7, GetFDOK, GetFDRoot, NfsSafe DEF NfsNumbers
<1>8. ASSUME NEW old \in MountPath, NEW new \in MountPath, NfsRenames(old, new) PROVE Safe
  BY <1>1, <1>2, <1>8, ReplacePathOK, ReplacePathRoot, NfsSafe DEF NfsRenames
<1> QED BY <1>3, <1>4, <1>5, <1>6, <1>7, <1>8 DEF Next

LEMMA IInvHolds == Spec => []IInv
<1>1. IInv /\ [Next]_vars => IInv'
  <2>1. IInv /\ Next => IInv'
    BY NextSafe DEF Safe
  <2>2. IInv /\ UNCHANGED vars => IInv'
    BY DEF IInv, TypeOK, CountMatchesList, vars
  <2> QED BY <2>1, <2>2
<1> QED BY <1>1, IInvInit, PTL DEF Spec

(* The list, the counter and the table are well typed.                     *)
THEOREM TypeCorrect == Spec => []TypeOK
<1>1. IInv => TypeOK
  BY DEF IInv
<1> QED BY <1>1, IInvHolds, PTL

(* The counter that EXPORT and DUMP rely on is the length of the list.     *)
THEOREM CountIsExact == Spec => []CountMatchesList
<1>1. IInv => CountMatchesList
  BY DEF IInv
<1> QED BY <1>1, IInvHolds, PTL

(* UMNT and UMNTALL take out the entries they name and no other.           *)
THEOREM UnmountsAreExact == Spec => UnmountsExactly
<1>1. IInv /\ [Next]_vars => [UnmountStep]_vars
  BY NextSafe DEF Safe
<1> QED BY <1>1, IInvHolds, PTL DEF Spec, UnmountsExactly

(* The root handle MNT gives out resolves to the mounted directory.        *)
THEOREM RootHandlesResolve == Spec => MntHandleResolves
<1>1. IInv /\ [Next]_vars => [MntStep]_vars
  BY NextSafe DEF Safe
<1> QED BY <1>1, IInvHolds, PTL DEF Spec, MntHandleResolves
=============================================================================
