----------------------- MODULE CheckpointStore_proofs -----------------------
(***************************************************************************)
(* rocksdb_storage implements DurableStore, under the checkpoint manager   *)
(* and under any other client, for any uuids, keys and values and any      *)
(* number of calls and crashes; and load_snapshot cleans up.  On that      *)
(* storage, what the manager keeps of its checkpoints and their proof      *)
(* survives a restart, for any peers, messages and crashes.                *)
(***************************************************************************)
EXTENDS CheckpointStore, FiniteSetTheorems, TLAPS

USE ZenonT(60)

Areas == {"pairs", "ns", "ks"}
WriteOps == {"create", "update", "remove", "remove_range", "remove_uuid"}
Ops == WriteOps \cup {"create_snapshot", "load_snapshot"}
LoadPhases == {"saved", "moved", "loaded", "dropped", "unlinked", "failed", "wiped", "restored"}

IsMap(f) == f = [x \in DOMAIN f |-> f[x]] /\ IsFiniteSet(DOMAIN f)
DiskGood(d) == DOMAIN d = Areas /\ IsMap(d.pairs) /\ IsFiniteSet(DOMAIN d.ks)
DisksGood ==
    /\ DiskGood(disk) /\ \A d \in backup : DiskGood(d)
    /\ \A f \in snap \cup tmp : DiskGood(f.disk)

(* A write, on the pairs *)
Effect(f, w) == IF w.put THEN Put(f, CHOOSE x \in w.at : TRUE, w.value) ELSE Without(f, w.at)

WritesGood(q) ==
    /\ \E S : q \in Seq(S)
    /\ \A i \in 1..Len(q) : q[i].area \in Areas /\ q[i].put \in BOOLEAN

(* The writes q are what is left of call c, on pairs f *)
OneLeft(q, f, c) ==
    /\ \A i \in 2..Len(q) : q[i].area # "pairs"
    /\ q # <<>> /\ q[1].area = "pairs" => Effect(f, q[1]) \in Store!Effects(f, c)
    /\ q = <<>> \/ q[1].area # "pairs" => Store!Effects(f, c) = {f}
EachLeft(q, f, c) ==
    /\ \A i \in 1..Len(q) : q[i].area = "pairs" =>
          ~q[i].put /\ \E y : q[i].at = {y} /\ y[1] = c.uuid
    /\ \A y \in DOMAIN f : y[1] = c.uuid =>
          \E i \in 1..Len(q) : q[i].area = "pairs" /\ y \in q[i].at
Left(q, f, c) == IF c.op = "remove_uuid" THEN EachLeft(q, f, c) ELSE OneLeft(q, f, c)

CallGood ==
    /\ call = NoCall => todo = <<>> /\ phase = "idle"
    /\ call # NoCall => call.op \in Ops
    /\ phase # "idle" \/ call.op \notin WriteOps => todo = <<>>
    /\ phase \in LoadPhases \cup {"idle", "dumping"}
    /\ phase = "dumping" => call.op = "create_snapshot"
    /\ phase \in LoadPhases => call.op = "load_snapshot"
    /\ call.op = "load_snapshot" =>
          DiskGood(call.data.disk) /\ call.value = call.data.disk.pairs

LoadGood ==
    /\ phase \in {"moved", "failed", "wiped"} => backup # {}
    /\ phase = "failed" => \E X \in SUBSET DOMAIN call.value : disk.pairs = Without(call.value, X)
    /\ phase = "wiped" => disk = EmptyDisk

CleanedUp ==
    ~torn => /\ phase \in {"idle", "dumping", "saved", "dropped", "unlinked", "restored"} => backup = {}
             /\ phase \in {"idle", "dumping"} => tmp = {}

StorageInv ==
    /\ DisksGood /\ WritesGood(todo) /\ CallGood /\ LoadGood /\ CleanedUp
    /\ call.op \in WriteOps => Left(todo, disk.pairs, call)

-----------------------------------------------------------------------------
(* The set of values of a function on a finite set is finite.              *)
LEMMA ImageFinite ==
    ASSUME NEW f, IsFiniteSet(DOMAIN f)
    PROVE  IsFiniteSet({f[x] : x \in DOMAIN f})
<1> DEFINE T == {f[x] : x \in DOMAIN f}
           g == [x \in DOMAIN f |-> f[x]]
<1>1. g \in Surjection(DOMAIN f, T) BY DEF Surjection
<1> QED BY <1>1, FS_Surjection

(* Listing lists the elements of a finite set.                            *)
LEMMA Listed ==
    ASSUME NEW S, IsFiniteSet(S)
    PROVE  /\ Listing(S) \in Seq(S)
           /\ \A x \in S : \E i \in 1..Len(Listing(S)) : Listing(S)[i] = x
           /\ \A i, j \in 1..Len(Listing(S)) : Listing(S)[i] = Listing(S)[j] => i = j
<1> DEFINE n == Cardinality(S)
           q == Listing(S)
<1>1. n \in Nat /\ \E f \in Injection(1..n, S) : TRUE
  BY FS_CardinalityType DEF ExistsBijection, Bijection
<1>2. q \in Injection(1..n, S)
  BY <1>1 DEF Listing
<1>3. q \in [1..n -> S] /\ IsInjective(q) BY <1>2 DEF Injection
<1>4. IsFiniteSet(1..n) /\ Cardinality(1..n) = n BY SMTT(60), <1>1, FS_Interval
<1>5. q \in Surjection(1..n, S) BY <1>2, <1>4, FS_Injection
<1>6. q \in Seq(S) /\ Len(q) = n
  <2> HIDE DEF q
  <2> QED BY SMTT(60), <1>1, <1>3
<1>7. \A i, j \in 1..n : q[i] = q[j] => i = j BY <1>3 DEF IsInjective
<1> QED BY <1>5, <1>6, <1>7 DEF Surjection

(* Put and Without, on maps.                                               *)
LEMMA MapFacts ==
    ASSUME NEW f, IsMap(f), NEW x, NEW v, NEW X
    PROVE  /\ IsMap(Put(f, x, v)) /\ x \in DOMAIN Put(f, x, v)
           /\ Put(Put(f, x, v), x, v) = Put(f, x, v)
           /\ IsMap(Without(f, X)) /\ Without(Without(f, X), X) = Without(f, X)
           /\ X \cap DOMAIN f = {} => Without(f, X) = f
<1>1. IsFiniteSet(DOMAIN f \cup {x}) /\ IsFiniteSet(DOMAIN f \ X)
  BY FS_AddElement, FS_Subset DEF IsMap
<1>2. IsMap(Put(f, x, v)) /\ x \in DOMAIN Put(f, x, v)
  BY <1>1 DEF IsMap, Put, Store!Put
<1>3. Put(Put(f, x, v), x, v) = Put(f, x, v)
  BY DEF IsMap, Put, Store!Put
<1>4. IsMap(Without(f, X)) /\ Without(Without(f, X), X) = Without(f, X)
  BY <1>1 DEF IsMap, Without, Store!Without
<1>5. X \cap DOMAIN f = {} => Without(f, X) = f
  <2> SUFFICES ASSUME X \cap DOMAIN f = {} PROVE Without(f, X) = f OBVIOUS
  <2>1. DOMAIN f \ X = DOMAIN f OBVIOUS
  <2> QED BY <2>1 DEF IsMap, Without, Store!Without
<1> QED BY <1>2, <1>3, <1>4, <1>5

(* Sequences of up to three writes.                                        *)
LEMMA FewWrites ==
    /\ WritesGood(<<>>)
    /\ \A a : a.area \in Areas /\ a.put \in BOOLEAN => WritesGood(<<a>>)
    /\ \A a, b, d : /\ a.area \in Areas /\ b.area \in Areas /\ d.area \in Areas
                    /\ a.put \in BOOLEAN /\ b.put \in BOOLEAN /\ d.put \in BOOLEAN
                   => WritesGood(<<a, b, d>>)
<1>1. WritesGood(<<>>)
  <2>1. <<>> \in Seq({}) /\ Len(<<>>) = 0 BY SMTT(60)
  <2> QED BY SMTT(60), <2>1 DEF WritesGood
<1>2. ASSUME NEW a, a.area \in Areas, a.put \in BOOLEAN PROVE WritesGood(<<a>>)
  <2> DEFINE q == <<a>>
  <2>1. q \in Seq({a}) /\ Len(q) = 1 /\ q[1] = a BY SMTT(60)
  <2> HIDE DEF q
  <2>2. \A i \in 1..Len(q) : q[i] = a BY SMTT(60), <2>1
  <2>3. WritesGood(q) BY <1>2, <2>1, <2>2 DEF WritesGood
  <2> QED BY <2>3 DEF q
<1>3. ASSUME NEW a, NEW b, NEW d, a.area \in Areas, b.area \in Areas, d.area \in Areas,
             a.put \in BOOLEAN, b.put \in BOOLEAN, d.put \in BOOLEAN
      PROVE  WritesGood(<<a, b, d>>)
  <2> DEFINE q == <<a, b, d>>
  <2>1. q \in Seq({a, b, d}) /\ Len(q) = 3 /\ q[1] = a /\ q[2] = b /\ q[3] = d BY SMTT(60)
  <2> HIDE DEF q
  <2>2. \A i \in 1..Len(q) : q[i] \in {a, b, d} BY SMTT(60), <2>1
  <2>3. WritesGood(q) BY <1>3, <2>1, <2>2 DEF WritesGood
  <2> QED BY <2>3 DEF q
<1> QED BY <1>1, <1>2, <1>3

(* What a concatenation has is what its parts have.                        *)
Joined(q, a, b) ==
    /\ \A i \in 1..Len(q) : (\E j \in 1..Len(a) : q[i] = a[j]) \/ (\E j \in 1..Len(b) : q[i] = b[j])
    /\ \A j \in 1..Len(a) : \E i \in 1..Len(q) : q[i] = a[j]
    /\ \A j \in 1..Len(b) : \E i \in 1..Len(q) : q[i] = b[j]
LEMMA JoinFacts ==
    ASSUME NEW a, NEW b, NEW q, q = a \o b, \E S : a \in Seq(S), \E S : b \in Seq(S)
    PROVE  (\E S : q \in Seq(S)) /\ Joined(q, a, b)
<1>1. PICK S : a \in Seq(S) OBVIOUS
<1>2. PICK T : b \in Seq(T) OBVIOUS
<1> DEFINE U == S \cup T
<1>3. a \in Seq(U) /\ b \in Seq(U) BY SMTT(60), <1>1, <1>2
<1> HIDE DEF U
<1>4. /\ q \in Seq(U) /\ Len(q) = Len(a) + Len(b)
      /\ \A i \in 1..(Len(a) + Len(b)) : q[i] = IF i <= Len(a) THEN a[i] ELSE b[i - Len(a)]
  BY SMTT(60), <1>3
<1> DEFINE m == Len(a)
           n == Len(b)
<1>5. m \in Nat /\ n \in Nat BY SMTT(60), <1>3
<1> HIDE DEF m, n
<1>6. ASSUME NEW i \in 1..(m + n)
      PROVE  (i <= m /\ i \in 1..m) \/ (~(i <= m) /\ i - m \in 1..n) BY SMTT(60), <1>5
<1>7. ASSUME NEW j \in 1..m PROVE j \in 1..(m + n) /\ j <= m BY SMTT(60), <1>5
<1>8. ASSUME NEW j \in 1..n PROVE j + m \in 1..(m + n) /\ ~(j + m <= m) /\ (j + m) - m = j BY SMTT(60), <1>5
<1>9. Len(q) = m + n /\ \A i \in 1..(m + n) : q[i] = IF i <= m THEN a[i] ELSE b[i - m]
  BY <1>4 DEF m, n
<1>10. \A i \in 1..Len(q) : (\E j \in 1..m : q[i] = a[j]) \/ (\E j \in 1..n : q[i] = b[j])
  BY <1>6, <1>9
<1>11. \A j \in 1..m : \E i \in 1..Len(q) : q[i] = a[j] BY <1>7, <1>9
<1>12. \A j \in 1..n : \E i \in 1..Len(q) : q[i] = b[j] BY <1>8, <1>9
<1> QED BY <1>4, <1>10, <1>11, <1>12 DEF Joined, m, n

LEMMA JoinGood ==
    ASSUME NEW a, NEW b, WritesGood(a), WritesGood(b), NEW q, q = a \o b
    PROVE  WritesGood(q) /\ Joined(q, a, b)
<1>1. (\E S : q \in Seq(S)) /\ Joined(q, a, b) BY JoinFacts DEF WritesGood
<1> QED BY <1>1 DEF WritesGood, Joined

(* One delete for each element of a finite set.                            *)
EachDelete(area, X) == [i \in DOMAIN Listing(X) |-> DeleteIn(area, {Listing(X)[i]})]
DeletesEach(q, area, X) ==
    /\ \A i \in 1..Len(q) : ~q[i].put /\ q[i].area = area /\ \E y \in X : q[i].at = {y}
    /\ \A y \in X : \E i \in 1..Len(q) : y \in q[i].at
LEMMA Deletes ==
    ASSUME NEW area \in Areas, NEW X, IsFiniteSet(X), NEW q, q = EachDelete(area, X)
    PROVE  WritesGood(q) /\ DeletesEach(q, area, X)
<1> DEFINE s == Listing(X)
           n == Len(s)
           D == {DeleteIn(area, {y}) : y \in X}
<1>1. s \in Seq(X) /\ \A y \in X : \E i \in 1..Len(s) : s[i] = y BY Listed
<1> HIDE DEF s
<1>2. n \in Nat /\ DOMAIN s = 1..n /\ \A i \in 1..n : s[i] \in X BY SMTT(60), <1>1
<1> USE <1>2
<1>3. q = [i \in 1..n |-> DeleteIn(area, {s[i]})] BY DEF s, EachDelete
<1> HIDE DEF n
<1>4. q \in [1..n -> D] BY <1>3
<1> HIDE DEF D
<1>5. q \in Seq(D) /\ Len(q) = n
  BY SMTT(60), <1>4
<1>6. ASSUME NEW i \in 1..n
      PROVE  /\ q[i].area = area /\ q[i].put = FALSE /\ q[i].at = {s[i]}
  BY SMTT(60), <1>3 DEF DeleteIn
<1>7. WritesGood(q) BY <1>5, <1>6 DEF WritesGood
<1>8. \A y \in X : \E i \in 1..n : y \in q[i].at
  <2> TAKE y \in X
  <2>1. PICK i \in 1..n : s[i] = y BY <1>1 DEF n
  <2> QED BY <2>1, <1>6
<1>9. \A i \in 1..n : ~q[i].put /\ q[i].area = area /\ \E y \in X : q[i].at = {y}
  BY <1>6
<1> QED BY <1>5, <1>7, <1>8, <1>9 DEF DeletesEach

(* The writes of removing a whole uuid.                                    *)
DeletesUuid(r, u, X, Y) ==
    /\ \A i \in 1..Len(r) :
          /\ ~r[i].put
          /\ \/ r[i].area = "pairs" /\ \E y \in X : r[i].at = {y}
             \/ r[i].area = "ns" /\ r[i].at = {u}
             \/ r[i].area = "ks" /\ \E y \in Y : r[i].at = {y}
    /\ \A y \in X : \E i \in 1..Len(r) : r[i].area = "pairs" /\ y \in r[i].at
    /\ \A y \in Y : \E i \in 1..Len(r) : r[i].area = "ks" /\ y \in r[i].at
    /\ \E i \in 1..Len(r) : r[i].area = "ns" /\ u \in r[i].at
LEMMA UuidWrites ==
    ASSUME DiskGood(disk), NEW c, NEW r, r = remove_uuid(c),
           NEW X, X = {x \in DOMAIN disk.pairs : x[1] = c.uuid},
           NEW Y, Y = {x \in DOMAIN disk.ks : x[1] = c.uuid}
    PROVE  WritesGood(r) /\ DeletesUuid(r, c.uuid, X, Y)
<1> DEFINE A == EachDelete("pairs", X)
           B == EachDelete("ks", Y)
           w == DeleteIn("ns", {c.uuid})
           M == <<w>>
<1>1. IsFiniteSet(X) /\ IsFiniteSet(Y) BY FS_Subset DEF DiskGood, IsMap
<1>2. r = (A \o M) \o B BY DEF remove_uuid, EachDelete
<1>3. WritesGood(A) /\ DeletesEach(A, "pairs", X)
  <2>1. "pairs" \in Areas BY DEF Areas
  <2> QED BY <1>1, <2>1, Deletes
<1>4. WritesGood(B) /\ DeletesEach(B, "ks", Y)
  <2>1. "ks" \in Areas BY DEF Areas
  <2> QED BY <1>1, <2>1, Deletes
<1>5. w.area = "ns" /\ w.put = FALSE /\ w.at = {c.uuid} BY DEF DeleteIn
<1>6. Len(M) = 1 /\ M[1] = w OBVIOUS
<1> HIDE DEF A, B, w
<1>7. WritesGood(M) BY <1>5, FewWrites DEF Areas
<1> HIDE DEF M
<1>8. (\A i \in 1..Len(M) : M[i] = w) /\ \E i \in 1..Len(M) : M[i] = w BY SMTT(60), <1>6
<1> DEFINE AM == A \o M
<1>9. r = AM \o B /\ AM = A \o M BY <1>2
<1> HIDE DEF AM
<1>10. WritesGood(AM) /\ Joined(AM, A, M) BY <1>3, <1>7, <1>9, JoinGood
<1>11. WritesGood(r) /\ Joined(r, AM, B) BY <1>4, <1>9, <1>10, JoinGood
<1>12. /\ \A i \in 1..Len(AM) : (\E j \in 1..Len(A) : AM[i] = A[j]) \/ (\E j \in 1..Len(M) : AM[i] = M[j])
       /\ \A j \in 1..Len(A) : \E i \in 1..Len(AM) : AM[i] = A[j]
       /\ \A j \in 1..Len(M) : \E i \in 1..Len(AM) : AM[i] = M[j]
  BY <1>10 DEF Joined
<1>13. /\ \A i \in 1..Len(r) : (\E j \in 1..Len(AM) : r[i] = AM[j]) \/ (\E j \in 1..Len(B) : r[i] = B[j])
       /\ \A j \in 1..Len(AM) : \E i \in 1..Len(r) : r[i] = AM[j]
       /\ \A j \in 1..Len(B) : \E i \in 1..Len(r) : r[i] = B[j]
  BY <1>11 DEF Joined
<1>14. ASSUME NEW i \in 1..Len(r)
       PROVE  /\ ~r[i].put
              /\ \/ r[i].area = "pairs" /\ \E y \in X : r[i].at = {y}
                 \/ r[i].area = "ns" /\ r[i].at = {c.uuid}
                 \/ r[i].area = "ks" /\ \E y \in Y : r[i].at = {y}
  <2>1. CASE \E j \in 1..Len(B) : r[i] = B[j]
    <3>1. PICK j \in 1..Len(B) : r[i] = B[j] BY <2>1
    <3>2. ~B[j].put /\ B[j].area = "ks" /\ \E y \in Y : B[j].at = {y} BY <1>4 DEF DeletesEach
    <3> QED BY <3>1, <3>2
  <2>2. CASE \E k \in 1..Len(AM) : r[i] = AM[k]
    <3>1. PICK k \in 1..Len(AM) : r[i] = AM[k] BY <2>2
    <3>2. CASE \E j \in 1..Len(M) : AM[k] = M[j] BY <1>5, <1>8, <3>1, <3>2
    <3>3. CASE \E j \in 1..Len(A) : AM[k] = A[j]
      <4>1. PICK j \in 1..Len(A) : AM[k] = A[j] BY <3>3
      <4>2. ~A[j].put /\ A[j].area = "pairs" /\ \E y \in X : A[j].at = {y} BY <1>3 DEF DeletesEach
      <4> QED BY <3>1, <4>1, <4>2
    <3> QED BY <1>12, <3>2, <3>3
  <2> QED BY <1>13, <2>1, <2>2
<1>15. ASSUME NEW y \in X PROVE \E i \in 1..Len(r) : r[i].area = "pairs" /\ y \in r[i].at
  <2>1. PICK k \in 1..Len(A) : y \in A[k].at /\ A[k].area = "pairs" BY <1>3 DEF DeletesEach
  <2>2. PICK j \in 1..Len(AM) : AM[j] = A[k] BY <1>12
  <2>3. PICK i \in 1..Len(r) : r[i] = AM[j] BY <1>13
  <2> QED BY <2>1, <2>2, <2>3
<1>16. ASSUME NEW y \in Y PROVE \E i \in 1..Len(r) : r[i].area = "ks" /\ y \in r[i].at
  <2>1. PICK k \in 1..Len(B) : y \in B[k].at /\ B[k].area = "ks" BY <1>4 DEF DeletesEach
  <2>2. PICK i \in 1..Len(r) : r[i] = B[k] BY <1>13
  <2> QED BY <2>1, <2>2
<1>17. \E i \in 1..Len(r) : r[i].area = "ns" /\ c.uuid \in r[i].at
  <2>1. PICK k \in 1..Len(M) : M[k] = w BY <1>8
  <2>2. PICK j \in 1..Len(AM) : AM[j] = M[k] BY <1>12
  <2>3. PICK i \in 1..Len(r) : r[i] = AM[j] BY <1>13
  <2>4. r[i] = w BY <2>1, <2>2, <2>3
  <2> QED BY <1>5, <2>4
<1> QED BY <1>11, <1>14, <1>15, <1>16, <1>17 DEF DeletesUuid

-----------------------------------------------------------------------------
(* A write, on a whole database.                                           *)
LEMMA ApplyFacts ==
    ASSUME NEW d, DiskGood(d), NEW w, w.area \in Areas
    PROVE  /\ DiskGood(Apply(d, w))
           /\ Apply(d, w).pairs = IF w.area = "pairs" THEN Effect(d.pairs, w) ELSE d.pairs
<1>1. DOMAIN Apply(d, w) = Areas BY DEF Apply, DiskGood
<1>2. Apply(d, w).pairs = IF w.area = "pairs" THEN Effect(d.pairs, w) ELSE d.pairs
  BY SMTT(60) DEF Apply, Effect, DiskGood, Areas
<1>3. Apply(d, w).ks = IF w.area = "ks" THEN Effect(d.ks, w) ELSE d.ks
  BY SMTT(60) DEF Apply, Effect, DiskGood, Areas
<1>4. IsMap(Effect(d.pairs, w)) BY MapFacts DEF Effect, DiskGood
<1>5. IsFiniteSet(DOMAIN Effect(d.ks, w))
  <2> DEFINE f == d.ks
             x == CHOOSE x \in w.at : TRUE
  <2>1. IsFiniteSet(DOMAIN f) BY DEF DiskGood
  <2> HIDE DEF f, x
  <2>2. IsFiniteSet(DOMAIN f \cup {x}) /\ IsFiniteSet(DOMAIN f \ w.at)
    BY <2>1, FS_AddElement, FS_Subset
  <2>3. DOMAIN Put(f, x, w.value) = DOMAIN f \cup {x} BY DEF Put, Store!Put
  <2>4. DOMAIN Without(f, w.at) = DOMAIN f \ w.at BY DEF Without, Store!Without
  <2> QED BY <2>2, <2>3, <2>4 DEF Effect, f, x
<1>6. IsMap(Apply(d, w).pairs) BY <1>2, <1>4 DEF DiskGood
<1>7. IsFiniteSet(DOMAIN Apply(d, w).ks) BY <1>3, <1>5 DEF DiskGood
<1> QED BY <1>1, <1>2, <1>6, <1>7 DEF DiskGood

(* The writes after the first.                                             *)
LEMMA TailGood ==
    ASSUME NEW q, WritesGood(q), q # <<>>
    PROVE  /\ WritesGood(Tail(q)) /\ Len(q) >= 1 /\ Head(q) = q[1]
           /\ q[1].area \in Areas
           /\ Len(Tail(q)) = Len(q) - 1
           /\ \A i \in 1..Len(Tail(q)) : i + 1 \in 2..Len(q) /\ Tail(q)[i] = q[i + 1]
           /\ \A i \in 2..Len(q) : i - 1 \in 1..Len(Tail(q)) /\ Tail(q)[i - 1] = q[i]
<1>1. PICK S : q \in Seq(S) BY DEF WritesGood
<1> DEFINE s == Tail(q)
           n == Len(q)
<1>2. n \in Nat /\ n >= 1 /\ Head(q) = q[1] /\ s \in Seq(S) /\ Len(s) = n - 1
  BY SMTT(60), <1>1
<1> USE <1>2
<1>3. \A i \in 1..Len(s) : s[i] = q[i + 1] BY SMTT(60), <1>1
<1> HIDE DEF s, n
<1>4. \A i \in 1..(n - 1) : i + 1 \in 2..n /\ i + 1 \in 1..n BY SMTT(60)
<1>5. \A i \in 2..n : i - 1 \in 1..(n - 1) /\ (i - 1) + 1 = i BY SMTT(60)
<1>6. \A i \in 1..Len(s) : i + 1 \in 2..n /\ s[i] = q[i + 1] BY <1>3, <1>4
<1>7. \A i \in 2..n : i - 1 \in 1..Len(s) /\ s[i - 1] = q[i] BY <1>3, <1>5
<1>8. \A i \in 1..n : q[i].area \in Areas /\ q[i].put \in BOOLEAN BY DEF WritesGood, n
<1>9. \A i \in 1..Len(s) : s[i].area \in Areas /\ s[i].put \in BOOLEAN
  BY <1>4, <1>6, <1>8
<1>10. WritesGood(s) BY <1>9 DEF WritesGood
<1>11. 1 \in 1..n BY SMTT(60)
<1>12. q[1].area \in Areas BY <1>8, <1>11
<1> QED BY <1>6, <1>7, <1>10, <1>12 DEF s, n

-----------------------------------------------------------------------------
(* A step of storage, on what DurableStore sees *)
StoreStep == [Store!Next]_<<Content, call, acked>>

LEMMA EmptyDiskGood == DiskGood(EmptyDisk) /\ \A f : IsMap(f) => EmptyDisk.pairs = Without(f, DOMAIN f)
<1>1. IsFiniteSet({}) BY FS_EmptySet
<1>2. EmptyDisk.pairs = NoEntries /\ EmptyDisk.ks = NoEntries /\ DOMAIN EmptyDisk = Areas
  BY DEF EmptyDisk, Areas
<1>3. IsMap(NoEntries) BY <1>1 DEF NoEntries, IsMap
<1>4. \A f : NoEntries = Without(f, DOMAIN f) BY DEF NoEntries, Without, Store!Without
<1> QED BY <1>2, <1>3, <1>4 DEF DiskGood, IsMap

(* A write of a call, its return, and create_snapshot.                     *)
LEMMA WriteStep ==
    StorageInv /\ Write => StorageInv' /\ StoreStep /\ disk'.pairs \in Store!Effects(disk.pairs, call)
(* Doing once more what a call has done changes nothing.                   *)
<1>Idempotent. ASSUME NEW f, IsMap(f), NEW c, c.op \in WriteOps \ {"remove_uuid"}, NEW g \in Store!Effects(f, c)
               PROVE  Store!Effects(g, c) = {g} /\ IsMap(g)
  <2> USE <1>Idempotent
  <2> DEFINE x == <<c.uuid, c.key>>
             X == {c.uuid} \X c.keys
  <2>1. CASE c.op = "create"
    <3>1. g = IF x \in DOMAIN f THEN f ELSE Put(f, x, c.value)
      BY <2>1 DEF Store!Effects, Put
    <3>2. x \in DOMAIN g /\ IsMap(g) BY <3>1, MapFacts
    <3> QED BY <2>1, <3>2 DEF Store!Effects
  <2>2. CASE c.op = "update"
    <3>1. g = IF x \in DOMAIN f THEN Put(f, x, c.value) ELSE f
      BY <2>2 DEF Store!Effects, Put
    <3>2. IsMap(g) BY <3>1, MapFacts
    <3>3. (IF x \in DOMAIN g THEN Put(g, x, c.value) ELSE g) = g BY <3>1, MapFacts
    <3> QED BY <2>2, <3>2, <3>3 DEF Store!Effects, Put
  <2>3. CASE c.op = "remove"
    <3>1. g = Without(f, {x}) BY <2>3 DEF Store!Effects, Without
    <3>2. IsMap(g) /\ Without(g, {x}) = g BY <3>1, MapFacts
    <3> QED BY <2>3, <3>2 DEF Store!Effects, Without
  <2>4. CASE c.op = "remove_range"
    <3>1. g = Without(f, X) BY <2>4 DEF Store!Effects, Without
    <3>2. IsMap(g) /\ Without(g, X) = g BY <3>1, MapFacts
    <3> QED BY <2>4, <3>2 DEF Store!Effects, Without
  <2> QED BY <2>1, <2>2, <2>3, <2>4 DEF WriteOps
(* A write leaves what the call has still to do, and is a part of the      *)
(* call's effect.                                                          *)
<1>WriteOne. ASSUME NEW d, DiskGood(d), NEW q, WritesGood(q), q # <<>>,
                    NEW c, c.op \in WriteOps \ {"remove_uuid"}, OneLeft(q, d.pairs, c),
                    NEW e, e = Apply(d, Head(q))
             PROVE  OneLeft(Tail(q), e.pairs, c) /\ e.pairs \in Store!Effects(d.pairs, c)
  <2> USE <1>WriteOne
  <2> DEFINE f == d.pairs
             g == e.pairs
             w == q[1]
             s == Tail(q)
  <2>1. g = IF w.area = "pairs" THEN Effect(f, w) ELSE f BY SMTT(60), ApplyFacts, TailGood
  <2>2. IsMap(f) BY DEF DiskGood
  <2>3. g \in Store!Effects(f, c)
    <3>1. CASE w.area = "pairs" BY <2>1, <3>1 DEF OneLeft
    <3>2. CASE w.area # "pairs" BY <2>1, <3>2 DEF OneLeft
    <3> QED BY <3>1, <3>2
  <2>4. Store!Effects(g, c) = {g} BY SMTT(60), <2>2, <2>3, <1>Idempotent
  <2>5. \A i \in 1..Len(s) : s[i].area # "pairs" BY SMTT(60), TailGood DEF OneLeft
  <2>6. WritesGood(s) BY TailGood
  <2> HIDE DEF s, f, g
  <2>7. PICK S : s \in Seq(S) BY <2>6 DEF WritesGood
  <2>8. s # <<>> => 1 \in 1..Len(s) BY SMTT(60), <2>7
  <2>9. \A i \in 2..Len(s) : i \in 1..Len(s) BY SMTT(60), <2>7
  <2>10. OneLeft(s, g, c) BY <2>4, <2>5, <2>8, <2>9 DEF OneLeft
  <2> QED BY <2>3, <2>10 DEF s, f, g
<1>WriteEach. ASSUME NEW d, DiskGood(d), NEW q, WritesGood(q), q # <<>>,
                     NEW c, c.op = "remove_uuid", EachLeft(q, d.pairs, c),
                     NEW e, e = Apply(d, Head(q))
              PROVE  EachLeft(Tail(q), e.pairs, c) /\ e.pairs \in Store!Effects(d.pairs, c)
  <2> USE <1>WriteEach
  <2> DEFINE f == d.pairs
             g == e.pairs
             w == q[1]
             s == Tail(q)
             X == {y \in DOMAIN f : y \in w.at /\ w.area = "pairs"}
  <2>1. g = IF w.area = "pairs" THEN Effect(f, w) ELSE f BY SMTT(60), ApplyFacts, TailGood
  <2>2. IsMap(f) BY DEF DiskGood
  <2>3. 1 \in 1..Len(q) BY SMTT(60), TailGood
  <2>4. w.area = "pairs" => ~w.put /\ \E y : w.at = {y} /\ y[1] = c.uuid
    BY <2>3 DEF EachLeft
  <2>5. g = Without(f, X)
    <3>1. CASE w.area = "pairs"
      <4>1. g = Without(f, w.at) BY <2>1, <2>4, <3>1 DEF Effect
      <4>2. DOMAIN f \ w.at = DOMAIN f \ X BY <3>1
      <4> QED BY <4>1, <4>2 DEF Without, Store!Without
    <3>2. CASE w.area # "pairs"
      <4>1. X \cap DOMAIN f = {} BY <3>2
      <4>2. g = f BY <2>1, <3>2
      <4> HIDE DEF X
      <4> QED BY <2>2, <4>1, <4>2, MapFacts
    <3> QED BY <3>1, <3>2
  <2>6. X \subseteq {y \in DOMAIN f : y[1] = c.uuid} BY <2>4
  <2>7. g \in Store!Effects(f, c)
    <3>1. Store!Effects(f, c) = {Without(f, Z) : Z \in SUBSET {y \in DOMAIN f : y[1] = c.uuid}}
      BY DEF Store!Effects, Without
    <3> HIDE DEF X
    <3> QED BY <2>5, <2>6, <3>1
  <2>8. \A i \in 1..Len(s) : s[i].area = "pairs" =>
            ~s[i].put /\ \E y : s[i].at = {y} /\ y[1] = c.uuid
    <3>1. \A i \in 2..Len(q) : i \in 1..Len(q) BY SMTT(60), TailGood
    <3>2. \A i \in 1..Len(s) : i + 1 \in 1..Len(q) /\ s[i] = q[i + 1] BY <3>1, TailGood
    <3> HIDE DEF s
    <3> QED BY <3>2 DEF EachLeft
  <2>9. ASSUME NEW y \in DOMAIN g, y[1] = c.uuid
        PROVE  \E i \in 1..Len(s) : s[i].area = "pairs" /\ y \in s[i].at
    <3>1. y \in DOMAIN f /\ y \notin X BY <2>5, <2>9 DEF Without, Store!Without
    <3>2. PICK i \in 1..Len(q) : q[i].area = "pairs" /\ y \in q[i].at
      BY <2>9, <3>1 DEF EachLeft
    <3>3. i # 1 BY <3>1, <3>2
    <3>4. PICK S : q \in Seq(S) BY DEF WritesGood
    <3>5. i \in 2..Len(q) BY SMTT(60), <3>3, <3>4
    <3> QED BY SMTT(60), <3>2, <3>5, TailGood
  <2>10. EachLeft(s, g, c) BY <2>8, <2>9 DEF EachLeft
  <2> QED BY <2>7, <2>10
<1> SUFFICES ASSUME StorageInv, Write
             PROVE  StorageInv' /\ StoreStep /\ disk'.pairs \in Store!Effects(disk.pairs, call)
  OBVIOUS
<1>1. /\ todo # <<>> /\ disk' = Apply(disk, Head(todo)) /\ todo' = Tail(todo)
      /\ UNCHANGED <<backup, snap, tmp, call, phase, acked, torn>>
  BY DEF Write
<1> USE <1>1
<1>2. phase = "idle" /\ call.op \in WriteOps /\ call # NoCall
  BY DEF StorageInv, CallGood
<1> USE <1>2
<1>3. DiskGood(disk) /\ WritesGood(todo) /\ Left(todo, disk.pairs, call)
  BY DEF StorageInv, DisksGood
<1> USE <1>3
<1>4. WritesGood(todo') BY TailGood
<1>5. DiskGood(disk')
  <2>1. Head(todo).area \in Areas BY TailGood
  <2> QED BY <2>1, ApplyFacts
<1>6. Left(todo', disk'.pairs, call) /\ disk'.pairs \in Store!Effects(disk.pairs, call)
  <2>1. CASE call.op = "remove_uuid"
    <3>1. EachLeft(todo, disk.pairs, call) BY <2>1 DEF Left
    <3>2. EachLeft(todo', disk'.pairs, call) /\ disk'.pairs \in Store!Effects(disk.pairs, call)
      BY <2>1, <3>1, <1>WriteEach
    <3> QED BY <2>1, <3>2 DEF Left
  <2>2. CASE call.op # "remove_uuid"
    <3>1. OneLeft(todo, disk.pairs, call) BY <2>2 DEF Left
    <3>2. OneLeft(todo', disk'.pairs, call) /\ disk'.pairs \in Store!Effects(disk.pairs, call)
      BY SMTT(60), <2>2, <3>1, <1>WriteOne
    <3> QED BY <2>2, <3>2 DEF Left
  <2> QED BY <2>1, <2>2
<1>7. StoreStep
  <2>1. Content = disk.pairs /\ Content' = disk'.pairs BY DEF Content
  <2>2. Store!Take BY <1>6, <2>1 DEF Store!Take
  <2> QED BY <2>2 DEF StoreStep, Store!Next
<1>8. DisksGood' BY <1>5 DEF DisksGood, StorageInv
<1>9. CallGood' BY DEF CallGood, StorageInv, LoadPhases
<1>10. LoadGood' BY DEF LoadGood
<1>11. CleanedUp' BY DEF CleanedUp, StorageInv
<1>12. Left(todo', disk'.pairs, call') BY <1>6
<1>13. StorageInv' BY SMTT(60), <1>4, <1>8, <1>9, <1>10, <1>11, <1>12 DEF StorageInv
<1> QED BY <1>6, <1>7, <1>13

LEMMA ReturnStep ==
    ASSUME StorageInv, Return
    PROVE  StorageInv' /\ StoreStep /\ Store!Effects(disk.pairs, call) = {disk.pairs}
<1>1. /\ call # NoCall /\ todo = <<>> /\ call' = NoCall /\ acked' = call
      /\ call.op \notin {"create_snapshot", "load_snapshot"}
      /\ UNCHANGED <<disk, backup, snap, tmp, phase, todo, torn>>
  BY DEF Return, Returns
<1> USE <1>1
<1>2. call.op \in WriteOps /\ phase = "idle"
  BY DEF StorageInv, CallGood, Ops, WriteOps, LoadPhases
<1> USE <1>2
<1>3. IsMap(disk.pairs) /\ Left(<<>>, disk.pairs, call)
  BY DEF StorageInv, DisksGood, DiskGood
<1>4. Store!Effects(disk.pairs, call) = {disk.pairs}
  <2> DEFINE f == disk.pairs
  <2>1. CASE call.op = "remove_uuid"
    <3>1. EachLeft(<<>>, f, call) BY <1>3, <2>1 DEF Left
    <3>2. Len(<<>>) = 0 OBVIOUS
    <3>3. 1..0 = {} BY SMTT(60)
    <3>4. {y \in DOMAIN f : y[1] = call.uuid} = {} BY <3>1, <3>2, <3>3 DEF EachLeft
    <3>5. Store!Effects(f, call) = {Without(f, Z) : Z \in SUBSET {y \in DOMAIN f : y[1] = call.uuid}}
      BY <2>1 DEF Store!Effects, Without
    <3>6. Without(f, {}) = f BY <1>3, MapFacts
    <3> HIDE DEF f
    <3>7. Store!Effects(f, call) = {Without(f, Z) : Z \in {{}}} BY <3>4, <3>5
    <3> QED BY <3>6, <3>7 DEF f
  <2>2. CASE call.op # "remove_uuid"
    BY <1>3, <2>2 DEF Left, OneLeft
  <2> QED BY <2>1, <2>2
<1>5. StoreStep
  <2>1. Content = disk.pairs /\ Content' = Content BY DEF Content
  <2> QED BY <1>4, <2>1 DEF StoreStep, Store!Next, Store!Return, Store!Done
<1>6. DisksGood' BY DEF DisksGood, StorageInv
<1>7. WritesGood(todo') BY DEF StorageInv
<1>8. CallGood' BY DEF CallGood, NoCall, LoadPhases, WriteOps
<1>9. LoadGood' BY DEF LoadGood
<1>10. CleanedUp' BY DEF CleanedUp, StorageInv
<1>11. call'.op \notin WriteOps BY DEF NoCall, WriteOps
<1>12. StorageInv' BY SMTT(60), <1>6, <1>7, <1>8, <1>9, <1>10, <1>11 DEF StorageInv
<1> QED BY <1>4, <1>5, <1>12

-----------------------------------------------------------------------------
(* What the manager has in memory is finite and comes from messages, and   *)
(* it only creates, updates and removes pairs whose sizes fit.             *)
Senders == {m[1] : m \in Messages}
Evidence == {<<m[2], m[1]>> : m \in Messages}

MemGood ==
    /\ DOMAIN mem = {"stable", "local", "proof", "partial"}
    /\ IsFiniteSet(DOMAIN mem.proof) /\ IsFiniteSet(mem.partial) /\ mem.partial \subseteq Evidence
GoodCall(c) ==
    /\ c.op \in {"create", "update", "remove"}
    /\ c.op # "remove" => Fits(SizeOf(c.key, c.value))
CallsGood(q) == (\E S : q \in Seq(S)) /\ \A i \in 1..Len(q) : GoodCall(q[i])
Inv == StorageInv /\ MemGood /\ CallsGood(queue)

LEMMA FewCalls ==
    /\ CallsGood(<<>>)
    /\ \A c : GoodCall(c) => CallsGood(<<c>>)
<1>1. CallsGood(<<>>)
  <2>1. <<>> \in Seq({}) /\ Len(<<>>) = 0 BY SMTT(60)
  <2> QED BY SMTT(60), <2>1 DEF CallsGood
<1>2. ASSUME NEW c, GoodCall(c) PROVE CallsGood(<<c>>)
  <2> DEFINE q == <<c>>
  <2>1. q \in Seq({c}) /\ Len(q) = 1 /\ q[1] = c BY SMTT(60)
  <2> HIDE DEF q
  <2>2. \A i \in 1..Len(q) : q[i] = c BY SMTT(60), <2>1
  <2>3. CallsGood(q) BY <1>2, <2>1, <2>2 DEF CallsGood
  <2> QED BY <2>3 DEF q
<1> QED BY <1>1, <1>2

LEMMA HeadCall ==
    ASSUME NEW q, CallsGood(q), q # <<>>
    PROVE  CallsGood(Tail(q)) /\ GoodCall(Head(q))
<1> DEFINE s == Tail(q)
<1>1. PICK S : q \in Seq(S) BY DEF CallsGood
<1>2. /\ Len(q) \in Nat /\ Len(q) >= 1 /\ Head(q) = q[1] /\ s \in Seq(S) /\ Len(s) = Len(q) - 1
      /\ \A i \in 1..Len(s) : s[i] = q[i + 1]
  BY SMTT(60), <1>1
<1> HIDE DEF s
<1>3. 1 \in 1..Len(q) /\ \A i \in 1..Len(s) : i + 1 \in 1..Len(q) BY SMTT(60), <1>2
<1>4. CallsGood(s) BY <1>2, <1>3 DEF CallsGood
<1>5. GoodCall(q[1]) BY <1>3 DEF CallsGood
<1> QED BY <1>2, <1>4, <1>5 DEF s

(* Sets made from finite ones.                                             *)
LEMMA FiniteParts ==
    ASSUME NEW P, IsFiniteSet(P), NEW cp
    PROVE  /\ IsFiniteSet({p[2] : p \in {p \in P : p[1] = cp}})
           /\ IsFiniteSet({Partial(p[1], p[2]) : p \in {p \in P : p[1] <= cp}})
           /\ IsFiniteSet({Proof(s) : s \in P})
<1> DEFINE Q == {p \in P : p[1] = cp}
           R == {p \in P : p[1] <= cp}
           f == [p \in Q |-> p[2]]
           g == [p \in R |-> Partial(p[1], p[2])]
           h == [s \in P |-> Proof(s)]
<1>1. IsFiniteSet(Q) /\ IsFiniteSet(R) BY FS_Subset
<1> HIDE DEF Q, R
<1>2. IsFiniteSet({f[p] : p \in DOMAIN f}) BY <1>1, ImageFinite
<1>3. IsFiniteSet({g[p] : p \in DOMAIN g}) BY <1>1, ImageFinite
<1>4. IsFiniteSet({h[p] : p \in DOMAIN h}) BY ImageFinite
<1>5. {f[p] : p \in DOMAIN f} = {p[2] : p \in Q} OBVIOUS
<1>6. {g[p] : p \in DOMAIN g} = {Partial(p[1], p[2]) : p \in R} OBVIOUS
<1>7. {h[p] : p \in DOMAIN h} = {Proof(s) : s \in P} OBVIOUS
<1> QED BY <1>2, <1>3, <1>4, <1>5, <1>6, <1>7 DEF Q, R

LEMMA InitInv == Init => Inv
<1> SUFFICES ASSUME Init PROVE Inv OBVIOUS
<1>1. DiskGood(FirstDisk)
  <2> DEFINE a == <<State, Stable>>
             b == <<State, Local>>
             both == {a, b}
  <2>1. IsFiniteSet(both)
    <3> HIDE DEF a, b
    <3>1. IsFiniteSet({a}) BY FS_Singleton
    <3>2. IsFiniteSet({a} \cup {b}) BY <3>1, FS_AddElement
    <3>3. both = {a} \cup {b} OBVIOUS
    <3> QED BY <3>2, <3>3
  <2>2. /\ DOMAIN FirstDisk = Areas /\ FirstDisk.pairs = [x \in both |-> 0]
        /\ DOMAIN FirstDisk.ks = both
    BY DEF FirstDisk, Areas
  <2> HIDE DEF both
  <2> QED BY <2>1, <2>2 DEF DiskGood, IsMap
<1>2. DiskGood(disk) BY <1>1, EmptyDiskGood DEF Init, RocksInit
<1>3. DisksGood BY <1>2 DEF DisksGood, Init, RocksInit
<1>4. WritesGood(todo) BY FewWrites DEF Init, RocksInit
<1>5. CallGood BY DEF CallGood, Init, RocksInit, NoCall, LoadPhases
<1>6. LoadGood /\ CleanedUp BY DEF LoadGood, CleanedUp, Init, RocksInit
<1>7. call.op \notin WriteOps BY DEF Init, RocksInit, NoCall, WriteOps
<1>8. IsFiniteSet({}) BY FS_EmptySet
<1>9. MemGood BY <1>8 DEF MemGood, Init, NoEntries
<1>10. CallsGood(queue) BY FewCalls DEF Init
<1> QED BY SMTT(60), <1>3, <1>4, <1>5, <1>6, <1>7, <1>9, <1>10 DEF Inv, StorageInv

LEMMA StepInv == Inv /\ [Next]_vars => Inv' /\ StoreStep
(* A single write to the pairs, with or without two of metadata after it.  *)
<1>SingleEffect. ASSUME NEW f, NEW c, NEW a, a.area = "pairs", Effect(f, a) \in Store!Effects(f, c)
                 PROVE  /\ OneLeft(<<a>>, f, c)
                        /\ \A b, d : b.area # "pairs" /\ d.area # "pairs" => OneLeft(<<a, b, d>>, f, c)
  <2> USE <1>SingleEffect
  <2>1. OneLeft(<<a>>, f, c)
    <3>1. Len(<<a>>) = 1 /\ <<a>> # <<>> /\ <<a>>[1] = a OBVIOUS
    <3> QED BY SMTT(60), <3>1 DEF OneLeft
  <2>2. ASSUME NEW b, NEW d, b.area # "pairs", d.area # "pairs" PROVE OneLeft(<<a, b, d>>, f, c)
    <3> DEFINE q == <<a, b, d>>
    <3>1. Len(q) = 3 /\ q # <<>> /\ q[1] = a /\ q[2] = b /\ q[3] = d OBVIOUS
    <3> HIDE DEF q
    <3>2. \A i \in 2..Len(q) : i = 2 \/ i = 3 BY SMTT(60), <3>1
    <3>3. OneLeft(q, f, c) BY <2>2, <3>1, <3>2 DEF OneLeft
    <3> QED BY <3>3 DEF q
  <2> QED BY <2>1, <2>2
(* The writes that Begin plans for a call, before any of them is done.     *)
<1>PlannedSimple. ASSUME DiskGood(disk), NEW c, c.op \in {"create", "update", "remove", "remove_range"},
                         NEW q, q = CASE c.op = "create" -> create(c)
                                      [] c.op = "update" -> update(c)
                                      [] c.op = "remove" -> remove(c)
                                      [] c.op = "remove_range" -> remove_range(c)
                  PROVE  WritesGood(q) /\ OneLeft(q, disk.pairs, c)
  <2> USE <1>PlannedSimple
  <2> DEFINE f == disk.pairs
             x == <<c.uuid, c.key>>
  <2>0. IsMap(f) BY DEF DiskGood
  <2>1. ASSUME NEW u, NEW v
        PROVE  /\ PutIn("pairs", u, v).area = "pairs" /\ PutIn("pairs", u, v).put = TRUE
               /\ PutIn("ns", u, v).area = "ns" /\ PutIn("ns", u, v).put = TRUE
               /\ PutIn("ks", u, v).area = "ks" /\ PutIn("ks", u, v).put = TRUE
               /\ Effect(f, PutIn("pairs", u, v)) = Put(f, u, v)
    <3>1. (CHOOSE y \in {u} : TRUE) = u OBVIOUS
    <3> QED BY <3>1 DEF PutIn, Effect
  <2> USE <2>1
  <2>2. ASSUME NEW X
        PROVE  /\ DeleteIn("pairs", X).area = "pairs" /\ DeleteIn("pairs", X).put = FALSE
               /\ DeleteIn("ks", X).area = "ks" /\ DeleteIn("ks", X).put = FALSE
               /\ Effect(f, DeleteIn("pairs", X)) = Without(f, X)
    BY DEF DeleteIn, Effect
  <2> USE <2>2
  <2>3. ASSUME Store!Effects(f, c) = {f} PROVE WritesGood(<<>>) /\ OneLeft(<<>>, f, c)
    <3>1. Len(<<>>) = 0 BY SMTT(60)
    <3> QED BY SMTT(60), <2>3, <3>1, FewWrites DEF OneLeft
  <2>4. CASE c.op = "create"
    <3>1. Store!Effects(f, c) = {IF x \in DOMAIN f THEN f ELSE Put(f, x, c.value)}
      BY <2>4 DEF Store!Effects, Put
    <3>2. CASE x \in DOMAIN f
      <4>1. q = <<>> BY <2>4, <3>2 DEF create, has_priv
      <4> QED BY <2>3, <3>1, <3>2, <4>1
    <3>3. CASE x \notin DOMAIN f
      <4>1. PICK v, w : q = <<PutIn("pairs", x, c.value), PutIn("ns", c.uuid, v), PutIn("ks", x, w)>>
        BY <2>4, <3>3 DEF create, has_priv
      <4> DEFINE a == PutIn("pairs", x, c.value)
                 b == PutIn("ns", c.uuid, v)
                 d == PutIn("ks", x, w)
      <4> HIDE DEF x, f
      <4> DEFINE val == c.value
      <4> HIDE DEF val
      <4>21. Effect(f, PutIn("pairs", x, val)) = Put(f, x, val) OBVIOUS
      <4>2. Effect(f, a) = Put(f, x, c.value) BY <4>21 DEF val
      <4>3. Effect(f, a) \in Store!Effects(f, c) BY <3>1, <3>3, <4>2
      <4>4. a.area = "pairs" /\ a.put = TRUE BY DEF PutIn
      <4>5. b.area = "ns" /\ b.put = TRUE OBVIOUS
      <4>6. d.area = "ks" /\ d.put = TRUE OBVIOUS
      <4>7. q = <<a, b, d>> BY <4>1
      <4> HIDE DEF a, b, d
      <4>8. WritesGood(<<a, b, d>>) BY <4>4, <4>5, <4>6, FewWrites DEF Areas
      <4>9. OneLeft(<<a, b, d>>, f, c) BY <4>3, <4>4, <4>5, <4>6, <1>SingleEffect
      <4> QED BY <4>7, <4>8, <4>9 DEF f
    <3> QED BY <3>2, <3>3
  <2>5. CASE c.op = "update"
    <3>1. Store!Effects(f, c) = {IF x \in DOMAIN f THEN Put(f, x, c.value) ELSE f}
      BY <2>5 DEF Store!Effects, Put
    <3>2. CASE x \notin DOMAIN f
      <4>1. q = <<>> BY <2>5, <3>2 DEF update, has_priv
      <4> QED BY <2>3, <3>1, <3>2, <4>1
    <3>3. CASE x \in DOMAIN f
      <4>1. PICK v, w : q = <<PutIn("pairs", x, c.value), PutIn("ns", c.uuid, v), PutIn("ks", x, w)>>
        BY <2>5, <3>3 DEF update, has_priv
      <4> DEFINE a == PutIn("pairs", x, c.value)
                 b == PutIn("ns", c.uuid, v)
                 d == PutIn("ks", x, w)
      <4> HIDE DEF x, f
      <4> DEFINE val == c.value
      <4> HIDE DEF val
      <4>21. Effect(f, PutIn("pairs", x, val)) = Put(f, x, val) OBVIOUS
      <4>2. Effect(f, a) = Put(f, x, c.value) BY <4>21 DEF val
      <4>3. Effect(f, a) \in Store!Effects(f, c) BY <3>1, <3>3, <4>2
      <4>4. a.area = "pairs" /\ a.put = TRUE BY DEF PutIn
      <4>5. b.area = "ns" /\ b.put = TRUE OBVIOUS
      <4>6. d.area = "ks" /\ d.put = TRUE OBVIOUS
      <4>7. q = <<a, b, d>> BY <4>1
      <4> HIDE DEF a, b, d
      <4>8. WritesGood(<<a, b, d>>) BY <4>4, <4>5, <4>6, FewWrites DEF Areas
      <4>9. OneLeft(<<a, b, d>>, f, c) BY <4>3, <4>4, <4>5, <4>6, <1>SingleEffect
      <4> QED BY <4>7, <4>8, <4>9 DEF f
    <3> QED BY <3>2, <3>3
  <2>6. CASE c.op = "remove"
    <3>1. Store!Effects(f, c) = {Without(f, {x})}
      BY <2>6 DEF Store!Effects, Without
    <3>2. CASE x \notin DOMAIN f
      <4>1. q = <<>> BY <2>6, <3>2 DEF remove, has_priv
      <4>2. {x} \cap DOMAIN f = {} BY <3>2
      <4>3. Without(f, {x}) = f BY <2>0, <4>2, MapFacts
      <4> QED BY <2>3, <3>1, <4>1, <4>3
    <3>3. CASE x \in DOMAIN f
      <4>1. PICK v : q = <<DeleteIn("pairs", {x}), PutIn("ns", c.uuid, v), DeleteIn("ks", {x})>>
        BY <2>6, <3>3 DEF remove, has_priv
      <4>2. Effect(f, DeleteIn("pairs", {x})) \in Store!Effects(f, c) BY <3>1, <3>3
      <4> HIDE DEF x, f
      <4> QED BY <4>1, <4>2, FewWrites, <1>SingleEffect DEF Areas, f
    <3> QED BY <3>2, <3>3
  <2>7. CASE c.op = "remove_range"
    <3>1. Store!Effects(f, c) = {Without(f, {c.uuid} \X c.keys)}
      BY <2>7 DEF Store!Effects, Without
    <3>2. q = <<DeleteIn("pairs", {c.uuid} \X c.keys)>> BY <2>7 DEF remove_range
    <3>3. Effect(f, DeleteIn("pairs", {c.uuid} \X c.keys)) \in Store!Effects(f, c) BY <3>1
    <3> QED BY <3>2, <3>3, FewWrites, <1>SingleEffect DEF Areas
  <2> QED BY <2>4, <2>5, <2>6, <2>7
<1>PlannedUuid. ASSUME DiskGood(disk), NEW c, NEW r, r = remove_uuid(c)
                PROVE  WritesGood(r) /\ EachLeft(r, disk.pairs, c)
  <2> USE <1>PlannedUuid
  <2>1. PICK X : X = {x \in DOMAIN disk.pairs : x[1] = c.uuid} OBVIOUS
  <2>2. PICK Y : Y = {x \in DOMAIN disk.ks : x[1] = c.uuid} OBVIOUS
  <2>3. WritesGood(r) /\ DeletesUuid(r, c.uuid, X, Y) BY <2>1, <2>2, UuidWrites
  <2>4. \A i \in 1..Len(r) : r[i].area = "pairs" => ~r[i].put /\ \E y \in X : r[i].at = {y}
    BY <2>3 DEF DeletesUuid
  <2>5. \A y \in X : \E i \in 1..Len(r) : r[i].area = "pairs" /\ y \in r[i].at BY <2>3 DEF DeletesUuid
  <2>6. EachLeft(r, disk.pairs, c) BY <2>1, <2>4, <2>5 DEF EachLeft
  <2> QED BY <2>3, <2>6
(* A call begins.                                                          *)
<1>BeginStep. ASSUME StorageInv, NEW c, c.op \in Ops,
                     c.op = "load_snapshot" => DiskGood(c.data.disk) /\ c.value = c.data.disk.pairs,
                     Begin(c)
              PROVE  StorageInv' /\ StoreStep
  <2> USE <1>BeginStep
  <2>1. call = NoCall /\ call' = c /\ phase = "idle" /\ phase' = "idle" /\ UNCHANGED <<disk, backup, snap, tmp, acked, torn>>
    BY DEF Begin, StorageInv, CallGood
  <2> USE <2>1
  <2>2. c # NoCall BY SMTT(60) DEF Ops, WriteOps, NoCall
  <2>3. StoreStep
    BY <2>2 DEF StoreStep, Store!Next, Store!Begin, Content
  <2>4. DisksGood' BY DEF DisksGood, StorageInv
  <2>5. WritesGood(todo') /\ (c.op \in WriteOps => Left(todo', disk.pairs, c))
        /\ (c.op \notin WriteOps => todo' = <<>>)
    <3>0. DiskGood(disk) BY DEF StorageInv, DisksGood
    <3>1. CASE c.op \in {"create", "update", "remove", "remove_range"}
      <4>1. todo' = CASE c.op = "create" -> create(c)
                      [] c.op = "update" -> update(c)
                      [] c.op = "remove" -> remove(c)
                      [] c.op = "remove_range" -> remove_range(c)
        BY <3>1 DEF Begin
      <4>2. WritesGood(todo') /\ OneLeft(todo', disk.pairs, c) BY SMTT(60), <3>0, <3>1, <4>1, <1>PlannedSimple
      <4> QED BY <3>1, <4>2 DEF Left, WriteOps
    <3>2. CASE c.op = "remove_uuid"
      <4>1. todo' = remove_uuid(c) BY <3>2 DEF Begin
      <4> QED BY <3>0, <3>2, <4>1, <1>PlannedUuid DEF Left, WriteOps
    <3>3. CASE c.op \in {"create_snapshot", "load_snapshot"}
      <4>1. todo' = <<>> BY <3>3 DEF Begin
      <4> QED BY <3>3, <4>1, FewWrites DEF WriteOps
    <3> QED BY <3>1, <3>2, <3>3 DEF Ops, WriteOps
  <2>6. CallGood' BY <2>2, <2>5 DEF CallGood, LoadPhases, NoCall, DiskGood
  <2>7. LoadGood' BY DEF LoadGood
  <2>8. CleanedUp' BY DEF CleanedUp, StorageInv
  <2>9. call'.op \in WriteOps => Left(todo', disk'.pairs, call') BY <2>5
  <2> QED BY SMTT(60), <2>3, <2>4, <2>5, <2>6, <2>7, <2>8, <2>9 DEF StorageInv
<1>SnapshotStep. ASSUME StorageInv, create_snapshot
                 PROVE  StorageInv' /\ StoreStep
  <2> USE <1>SnapshotStep
  <2>1. call # NoCall /\ call.op = "create_snapshot" /\ UNCHANGED <<disk, backup, tmp, todo, torn>>
    BY DEF create_snapshot, Returns
  <2> USE <2>1
  <2>2. todo = <<>> BY DEF StorageInv, CallGood, WriteOps
  <2>3. WritesGood(todo') BY DEF StorageInv
  <2>4. File(EmptyDisk, FALSE).disk = EmptyDisk /\ File(disk, TRUE).disk = disk BY DEF File
  <2>5. CASE /\ phase = "idle" /\ phase' = "dumping" /\ snap' = {File(EmptyDisk, FALSE)}
             /\ UNCHANGED <<call, acked>>
    <3>1. StoreStep BY <2>5 DEF StoreStep, Content
    <3>2. DisksGood' BY <2>4, <2>5, EmptyDiskGood DEF DisksGood, StorageInv
    <3>3. CallGood' BY <2>2, <2>5 DEF CallGood, StorageInv, LoadPhases
    <3>4. LoadGood' BY <2>5 DEF LoadGood
    <3>5. CleanedUp' BY <2>5 DEF CleanedUp, StorageInv
    <3>6. call'.op \notin WriteOps BY SMTT(60), <2>5 DEF WriteOps
    <3> QED BY SMTT(60), <2>3, <3>1, <3>2, <3>3, <3>4, <3>5, <3>6 DEF StorageInv
  <2>6. CASE /\ phase = "dumping" /\ phase' = "idle" /\ snap' = {File(disk, TRUE)}
             /\ call' = NoCall /\ acked' = call
    <3>1. StoreStep
      <4>1. Content' = Content BY <2>6 DEF Content
      <4>2. Store!Effects(Content, call) = {Content} BY DEF Store!Effects
      <4> QED BY <2>6, <4>1, <4>2 DEF StoreStep, Store!Next, Store!Return, Store!Done
    <3>2. DisksGood' BY <2>4, <2>6 DEF DisksGood, StorageInv
    <3>3. CallGood' BY <2>2, <2>6 DEF CallGood, NoCall, LoadPhases, WriteOps
    <3>4. LoadGood' BY <2>6 DEF LoadGood
    <3>5. CleanedUp' BY <2>6 DEF CleanedUp, StorageInv
    <3>6. call'.op \notin WriteOps BY <2>6 DEF NoCall, WriteOps
    <3> QED BY <2>3, <3>1, <3>2, <3>3, <3>4, <3>5, <3>6 DEF StorageInv
  <2> QED BY <2>5, <2>6 DEF create_snapshot, Returns
(* What undump writes is a part of what is loaded.                         *)
<1>PartsFacts. ASSUME NEW d, DiskGood(d), NEW e \in Parts(d)
               PROVE  DiskGood(e) /\ \E X \in SUBSET DOMAIN d.pairs : e.pairs = Without(d.pairs, X)
  <2> USE <1>PartsFacts
  <2>1. IsMap(d.pairs) BY DEF DiskGood
  <2>2. CASE e = EmptyDisk BY <2>1, <2>2, EmptyDiskGood
  <2>3. ASSUME NEW X \in SUBSET DOMAIN d.pairs, e = [d EXCEPT !.pairs = Without(@, X)]
        PROVE  DiskGood(e) /\ e.pairs = Without(d.pairs, X)
    <3>1. /\ DOMAIN e = Areas /\ e.ks = d.ks /\ e.pairs = Without(d.pairs, X)
      BY <2>3 DEF DiskGood, Areas
    <3>2. IsMap(Without(d.pairs, X)) BY <2>1, MapFacts
    <3> QED BY <3>1, <3>2 DEF DiskGood
  <2> QED BY <2>2, <2>3 DEF Parts
(* The steps of load_snapshot.                                             *)
<1>LoadStep. ASSUME StorageInv, load_snapshot
             PROVE  StorageInv' /\ StoreStep
  <2> USE <1>LoadStep
  <2> DEFINE d0 == CHOOSE d \in backup : TRUE
  <2>1. /\ call # NoCall /\ call.op = "load_snapshot" /\ todo = <<>> /\ UNCHANGED <<todo, torn>>
        /\ DiskGood(call.data.disk) /\ call.value = call.data.disk.pairs
    BY DEF load_snapshot, SaveData, MoveAside, MoveFails, Undump, UndumpFails, DropBackup, DropSnapshot,
           KeepSnapshot, Wipe, PutBack, DropData, Goto, Returns, StorageInv, CallGood, WriteOps
  <2> USE <2>1
  <2>2. WritesGood(todo') BY DEF StorageInv
  <2> USE <2>2
  <2>3. backup # {} => d0 \in backup OBVIOUS
  <2>4. Store!Effects(Content, call) = {Content, call.value} BY DEF Store!Effects
  <2> HIDE DEF d0
  <2>5. Content = IF phase \in {"moved", "failed", "wiped"} THEN d0.pairs ELSE disk.pairs BY DEF Content, d0
  <2>6. ASSUME call' = call, acked' = acked, Content' \in {Content, call.value} PROVE StoreStep
    BY <2>4, <2>6 DEF StoreStep, Store!Next, Store!Take
  <2> USE <2>6
  <2>7. ASSUME call' = NoCall, acked' = call, Content' = Content PROVE StoreStep
    BY <2>7 DEF StoreStep, Store!Next, Store!Return, Store!Done
  <2>8. ASSUME call' = call, phase' \in LoadPhases PROVE CallGood' /\ call'.op \notin WriteOps
    BY <2>8 DEF CallGood, LoadPhases, WriteOps, Ops
  <2> USE <2>8
  <2>9. ASSUME call' = NoCall, phase' = "idle" PROVE CallGood' /\ LoadGood' /\ call'.op \notin WriteOps
    BY <2>9 DEF CallGood, LoadGood, LoadPhases, NoCall, WriteOps
  <2>10. CASE SaveData
    <3>1. /\ phase = "idle" /\ phase' = "saved" /\ tmp' = {call.data}
          /\ UNCHANGED <<call, acked, disk, backup, snap>>
      BY <2>10 DEF SaveData, Goto
    <3> USE <3>1
    <3>2. StoreStep BY DEF Content
    <3>3. CallGood' /\ call'.op \notin WriteOps BY DEF LoadPhases
    <3>4. DisksGood' BY DEF DisksGood, StorageInv
    <3>5. LoadGood' BY DEF LoadGood
    <3>6. CleanedUp' BY SMTT(60) DEF CleanedUp, StorageInv
    <3> QED BY <3>2, <3>3, <3>4, <3>5, <3>6 DEF StorageInv
  <2>11. CASE MoveAside
    <3>1. /\ phase = "saved" /\ phase' = "moved" /\ backup' = {disk} /\ disk' = EmptyDisk
          /\ UNCHANGED <<call, acked, snap, tmp>>
      BY <2>11 DEF MoveAside, Goto
    <3> USE <3>1
    <3>2. (CHOOSE d \in {disk} : TRUE) = disk OBVIOUS
    <3>3. Content' = Content BY SMTT(60), <3>2 DEF Content
    <3>4. StoreStep BY <3>3
    <3>5. CallGood' /\ call'.op \notin WriteOps BY DEF LoadPhases
    <3>6. DisksGood' BY EmptyDiskGood DEF DisksGood, StorageInv
    <3>7. LoadGood' BY DEF LoadGood
    <3>8. CleanedUp' BY DEF CleanedUp, StorageInv
    <3> QED BY <3>4, <3>5, <3>6, <3>7, <3>8 DEF StorageInv
  <2>12. CASE MoveFails
    <3>1. /\ backup # {} /\ phase = "saved" /\ phase' = "idle" /\ call' = NoCall /\ acked' = call
          /\ UNCHANGED <<disk, backup, snap, tmp>>
      BY <2>12 DEF MoveFails, Returns
    <3> USE <3>1
    <3>2. StoreStep BY <2>7 DEF Content
    <3>3. CallGood' /\ LoadGood' /\ call'.op \notin WriteOps BY <2>9
    <3>4. DisksGood' BY DEF DisksGood, StorageInv
    <3>5. CleanedUp' BY SMTT(60) DEF CleanedUp, StorageInv
    <3> QED BY <3>2, <3>3, <3>4, <3>5 DEF StorageInv
  <2>13. CASE Undump
    <3>1. /\ phase = "moved" /\ phase' = "loaded" /\ disk' = call.data.disk
          /\ UNCHANGED <<call, acked, backup, snap, tmp>>
      BY <2>13 DEF Undump, Goto
    <3> USE <3>1
    <3>2. Content' = call.value BY DEF Content
    <3>3. StoreStep BY <3>2
    <3>4. CallGood' /\ call'.op \notin WriteOps BY DEF LoadPhases
    <3>5. DisksGood' BY DEF DisksGood, StorageInv
    <3>6. LoadGood' BY DEF LoadGood
    <3>7. CleanedUp' BY SMTT(60) DEF CleanedUp, StorageInv
    <3> QED BY <3>3, <3>4, <3>5, <3>6, <3>7 DEF StorageInv
  <2>14. CASE UndumpFails
    <3>1. /\ phase = "moved" /\ phase' = "failed" /\ disk' \in Parts(call.data.disk)
          /\ UNCHANGED <<call, acked, backup, snap, tmp>>
      BY <2>14 DEF UndumpFails, Goto
    <3> USE <3>1
    <3>2. Content' = Content BY SMTT(60) DEF Content
    <3>3. StoreStep BY <3>2
    <3>4. CallGood' /\ call'.op \notin WriteOps BY DEF LoadPhases
    <3>5. DiskGood(disk') /\ \E X \in SUBSET DOMAIN call.value : disk'.pairs = Without(call.value, X)
      BY <1>PartsFacts
    <3>6. DisksGood' BY <3>5 DEF DisksGood, StorageInv
    <3>7. LoadGood' BY <3>5 DEF LoadGood, StorageInv
    <3>8. CleanedUp' BY SMTT(60) DEF CleanedUp, StorageInv
    <3> QED BY <3>3, <3>4, <3>6, <3>7, <3>8 DEF StorageInv
  <2>15. CASE DropBackup
    <3>1. /\ phase = "loaded" /\ phase' = "dropped" /\ backup' = {}
          /\ UNCHANGED <<call, acked, disk, snap, tmp>>
      BY <2>15 DEF DropBackup, Goto
    <3> USE <3>1
    <3>2. StoreStep BY DEF Content
    <3>3. CallGood' /\ call'.op \notin WriteOps BY DEF LoadPhases
    <3>4. DisksGood' BY DEF DisksGood, StorageInv
    <3>5. LoadGood' BY DEF LoadGood
    <3>6. CleanedUp' BY SMTT(60) DEF CleanedUp, StorageInv
    <3> QED BY <3>2, <3>3, <3>4, <3>5, <3>6 DEF StorageInv
  <2>16. CASE DropSnapshot
    <3>1. /\ phase = "dropped" /\ phase' = "unlinked" /\ snap' = {}
          /\ UNCHANGED <<call, acked, disk, backup, tmp>>
      BY <2>16 DEF DropSnapshot, Goto
    <3> USE <3>1
    <3>2. StoreStep BY DEF Content
    <3>3. CallGood' /\ call'.op \notin WriteOps BY DEF LoadPhases
    <3>4. DisksGood' BY DEF DisksGood, StorageInv
    <3>5. LoadGood' BY DEF LoadGood
    <3>6. CleanedUp' BY DEF CleanedUp, StorageInv
    <3> QED BY <3>2, <3>3, <3>4, <3>5, <3>6 DEF StorageInv
  <2>17. CASE KeepSnapshot
    <3>1. /\ phase = "unlinked" /\ phase' = "idle" /\ call' = NoCall /\ acked' = call
          /\ snap' = tmp /\ tmp' = {} /\ UNCHANGED <<disk, backup>>
      BY <2>17 DEF KeepSnapshot, Returns
    <3> USE <3>1
    <3>2. StoreStep BY <2>7 DEF Content
    <3>3. CallGood' /\ LoadGood' /\ call'.op \notin WriteOps BY <2>9
    <3>4. DisksGood' BY DEF DisksGood, StorageInv
    <3>5. CleanedUp' BY SMTT(60) DEF CleanedUp, StorageInv
    <3> QED BY <3>2, <3>3, <3>4, <3>5 DEF StorageInv
  <2>18. CASE Wipe
    <3>1. /\ phase = "failed" /\ phase' = "wiped" /\ disk' = EmptyDisk
          /\ UNCHANGED <<call, acked, backup, snap, tmp>>
      BY <2>18 DEF Wipe, Goto
    <3> USE <3>1
    <3>2. Content' = Content BY SMTT(60) DEF Content
    <3>3. StoreStep BY <3>2
    <3>4. CallGood' /\ call'.op \notin WriteOps BY DEF LoadPhases
    <3>5. DisksGood' BY EmptyDiskGood DEF DisksGood, StorageInv
    <3>6. LoadGood' BY DEF LoadGood, StorageInv
    <3>7. CleanedUp' BY SMTT(60) DEF CleanedUp, StorageInv
    <3> QED BY <3>3, <3>4, <3>5, <3>6, <3>7 DEF StorageInv
  <2>19. CASE PutBack
    <3>1. /\ phase = "wiped" /\ phase' = "restored" /\ disk' = d0 /\ backup' = {}
          /\ UNCHANGED <<call, acked, snap, tmp>>
      BY <2>19 DEF PutBack, Goto, d0
    <3> USE <3>1
    <3>2. d0 \in backup BY <2>3 DEF StorageInv, LoadGood
    <3>3. Content' = Content BY <2>5 DEF Content
    <3>4. StoreStep BY <3>3
    <3>5. CallGood' /\ call'.op \notin WriteOps BY DEF LoadPhases
    <3>6. DisksGood' BY <3>2 DEF DisksGood, StorageInv
    <3>7. LoadGood' BY DEF LoadGood
    <3>8. CleanedUp' BY SMTT(60) DEF CleanedUp, StorageInv
    <3> QED BY <3>4, <3>5, <3>6, <3>7, <3>8 DEF StorageInv
  <2>20. CASE DropData
    <3>1. /\ phase = "restored" /\ phase' = "idle" /\ call' = NoCall /\ acked' = call
          /\ tmp' = {} /\ UNCHANGED <<disk, backup, snap>>
      BY <2>20 DEF DropData, Returns
    <3> USE <3>1
    <3>2. StoreStep BY <2>7 DEF Content
    <3>3. CallGood' /\ LoadGood' /\ call'.op \notin WriteOps BY <2>9
    <3>4. DisksGood' BY DEF DisksGood, StorageInv
    <3>5. CleanedUp' BY DEF CleanedUp, StorageInv
    <3> QED BY <3>2, <3>3, <3>4, <3>5 DEF StorageInv
  <2> QED BY SMTT(60), <2>10, <2>11, <2>12, <2>13, <2>14, <2>15, <2>16, <2>17, <2>18, <2>19, <2>20 DEF load_snapshot
(* A crash, at any step of a call.                                         *)
<1>CrashStep. ASSUME StorageInv, CrashStorage
              PROVE  StorageInv' /\ StoreStep
  <2> USE <1>CrashStep
  <2>1. /\ call' = NoCall /\ todo' = <<>> /\ phase' = "idle"
        /\ disk' \in IF phase = "moved" THEN Parts(call.data.disk) ELSE {disk}
        /\ torn' = (torn \/ (call # NoCall /\ call.op = "load_snapshot"))
        /\ UNCHANGED <<backup, snap, tmp, acked>>
    BY DEF CrashStorage
  <2> USE <2>1
  <2>2. phase \in LoadPhases => /\ call # NoCall /\ call.op = "load_snapshot"
                               /\ DiskGood(call.data.disk) /\ call.value = call.data.disk.pairs
    BY DEF StorageInv, CallGood, LoadPhases
  <2> USE <2>2
  <2>3. DiskGood(disk) BY DEF StorageInv, DisksGood
  <2>4. DiskGood(disk') /\ disk'.pairs \in Store!Torn(Content, call)
    <3>1. CASE phase \in {"moved", "failed", "wiped"}
      <4>1. phase \in LoadPhases BY <3>1 DEF LoadPhases
      <4>2. Store!Torn(Content, call) = {Content} \cup {Without(call.value, X) : X \in SUBSET DOMAIN call.value}
        BY <4>1 DEF Store!Torn, Without
      <4>3. DiskGood(disk') /\ \E X \in SUBSET DOMAIN call.value : disk'.pairs = Without(call.value, X)
        <5>1. CASE phase = "moved" BY <4>1, <5>1, <1>PartsFacts
        <5>2. CASE phase = "failed" BY <2>3, <5>2 DEF StorageInv, LoadGood
        <5>3. CASE phase = "wiped"
          <6>1. disk' = EmptyDisk BY <5>3 DEF StorageInv, LoadGood
          <6>2. IsMap(call.value) BY <4>1 DEF DiskGood
          <6> QED BY <6>1, <6>2, EmptyDiskGood
        <5> QED BY <3>1, <5>1, <5>2, <5>3
      <4> QED BY <4>2, <4>3
    <3>2. CASE phase \notin {"moved", "failed", "wiped"}
      <4>1. disk' = disk /\ Content = disk.pairs BY <3>2 DEF Content
      <4> QED BY <2>3, <4>1 DEF Store!Torn
    <3> QED BY <3>1, <3>2
  <2>5. StoreStep
    <3>1. Content' = disk'.pairs BY DEF Content
    <3> QED BY <2>4, <3>1 DEF StoreStep, Store!Next, Store!Crash
  <2>6. DisksGood' BY <2>4 DEF DisksGood, StorageInv
  <2>7. WritesGood(todo') BY FewWrites
  <2>8. CallGood' BY DEF CallGood, NoCall, LoadPhases, WriteOps
  <2>9. LoadGood' BY DEF LoadGood
  <2>10. CleanedUp' BY DEF CleanedUp, StorageInv, CallGood
  <2>11. call'.op \notin WriteOps BY DEF NoCall, WriteOps
  <2> QED BY <2>5, <2>6, <2>7, <2>8, <2>9, <2>10, <2>11 DEF StorageInv
<1>MessageFits. ASSUME NEW cp, NEW sender, <<cp, sender>> \in Evidence
                PROVE  /\ Fits(SizeOf(Stable, cp)) /\ Fits(SizeOf(Local, cp)) /\ Fits(SizeOf(Partial(cp, sender), cp))
                       /\ sender \in Senders /\ \A s \in Senders : Fits(SizeOf(Proof(s), cp))
  <2> USE <1>MessageFits
  <2>1. PICK m \in Messages : <<cp, sender>> = <<m[2], m[1]>> BY DEF Evidence
  <2>2. cp = m[2] /\ sender = m[1] BY <2>1
  <2> QED BY <2>2, SizesAssumption DEF Senders
<1>JoinCalls. ASSUME NEW a, NEW b, CallsGood(a), CallsGood(b)
              PROVE  CallsGood(a \o b)
  <2> USE <1>JoinCalls
  <2> DEFINE q == a \o b
  <2>1. (\E S : q \in Seq(S)) /\ Joined(q, a, b) BY JoinFacts DEF CallsGood
  <2> HIDE DEF q
  <2>2. CallsGood(q) BY <2>1 DEF CallsGood, Joined
  <2> QED BY <2>2 DEF q
(* What a restart reads back is finite, as the database is.                *)
<1>ReadBack. ASSUME IsFiniteSet(DOMAIN disk.pairs)
             PROVE  /\ DOMAIN init_persists = {"stable", "local", "proof", "partial"}
                    /\ IsFiniteSet(DOMAIN init_persists.proof)
                    /\ IsFiniteSet(init_persists.partial) /\ init_persists.partial \subseteq Evidence
  <2> USE <1>ReadBack
  <2> DEFINE X == {x \in DOMAIN disk.pairs : x[1] = State}
             keys == {x[2] : x \in X}
             A == {k \in keys : k[1] = "proof"}
             e == [x \in X |-> x[2]]
             f == [k \in A |-> k[2]]
  <2>1. IsFiniteSet(X) BY FS_Subset
  <2>2. IsFiniteSet(keys)
    <3> HIDE DEF X
    <3>1. IsFiniteSet({e[x] : x \in DOMAIN e}) BY <2>1, ImageFinite
    <3>2. {e[x] : x \in DOMAIN e} = keys OBVIOUS
    <3> QED BY <3>1, <3>2
  <2>3. StoredKeys("proof") = A BY DEF StoredKeys
  <2> HIDE DEF keys
  <2>4. IsFiniteSet(A) BY <2>2, FS_Subset
  <2> HIDE DEF A
  <2>5. DOMAIN init_persists.proof = {k[2] : k \in A} /\ init_persists.partial = {}
    BY <2>3 DEF init_persists
  <2>6. DOMAIN init_persists = {"stable", "local", "proof", "partial"} BY DEF init_persists
  <2>7. IsFiniteSet({f[k] : k \in DOMAIN f}) BY <2>4, ImageFinite
  <2>8. {f[k] : k \in DOMAIN f} = {k[2] : k \in A} OBVIOUS
  <2> QED BY <2>5, <2>6, <2>7, <2>8, FS_EmptySet
<1>NothingChanges. ASSUME StorageInv, UNCHANGED rocksVars
                   PROVE  StorageInv' /\ StoreStep
  <2> USE <1>NothingChanges
  <2>1. UNCHANGED <<disk, backup, snap, tmp, call, todo, phase, acked, torn>> BY DEF rocksVars
  <2> USE <2>1
  <2>2. StoreStep BY SMTT(60) DEF StoreStep, Content
  <2>3. DisksGood' BY DEF DisksGood, StorageInv
  <2>4. WritesGood(todo') BY DEF StorageInv
  <2>5. CallGood' BY DEF CallGood, StorageInv
  <2>6. LoadGood' BY DEF LoadGood, StorageInv
  <2>7. CleanedUp' BY DEF CleanedUp, StorageInv
  <2>8. call'.op \in WriteOps => Left(todo', disk'.pairs, call') BY DEF StorageInv
  <2> QED BY SMTT(60), <2>2, <2>3, <2>4, <2>5, <2>6, <2>7, <2>8 DEF StorageInv
<1>HandlersGood. ASSUME MemGood, NEW sender, NEW cp, <<cp, sender>> \in Evidence,
                        handle_checkpoint_message(sender, cp) \/ local_checkpoint_reached(cp)
                 PROVE  MemGood' /\ CallsGood(queue') /\ UNCHANGED rocksVars
  <2> USE <1>HandlersGood
  (* The handlers of the manager.                                            *)
  <2>StabilizeGood. ASSUME NEW m, DOMAIN m = {"stable", "local", "proof", "partial"},
                           IsFiniteSet(DOMAIN m.proof), IsFiniteSet(m.partial), m.partial \subseteq Evidence,
                           NEW at, NEW w, <<at, w>> \in Evidence
                    PROVE  LET r == stabilize_checkpoint(m, at)
                           IN  /\ CallsGood(r.calls) /\ DOMAIN r.mem = {"stable", "local", "proof", "partial"}
                               /\ IsFiniteSet(DOMAIN r.mem.proof) /\ IsFiniteSet(r.mem.partial)
                               /\ r.mem.partial \subseteq Evidence
    <3> USE <2>StabilizeGood
    <3>ListedCalls. ASSUME NEW K, IsFiniteSet(K), NEW v
                    PROVE  /\ CallsGood(Destroys(K))
                           /\ (\A k \in K : Fits(SizeOf(k, v))) => CallsGood(Creates(K, v))
      <4> USE <3>ListedCalls
      <4> DEFINE s == Listing(K)
                 n == Len(s)
      <4>1. s \in Seq(K) BY Listed
      <4> HIDE DEF s
      <4>2. n \in Nat /\ DOMAIN s = 1..n BY SMTT(60), <4>1
      <4> DEFINE D == [i \in 1..n |-> Call("remove", s[i], 0)]
                 C == [i \in 1..n |-> Call("create", s[i], v)]
      <4>3. Destroys(K) = D /\ Creates(K, v) = C BY <4>2 DEF Destroys, Creates, s
      <4> HIDE DEF n
      <4>4. ASSUME NEW q, NEW op \in {"remove", "create"}, NEW b, q = [i \in 1..n |-> Call(op, s[i], b)],
                   op = "create" => \A k \in K : Fits(SizeOf(k, b))
            PROVE  CallsGood(q)
        <5> DEFINE T == {q[i] : i \in 1..n}
        <5>1. q \in [1..n -> T] BY <4>4
        <5> HIDE DEF T
        <5>2. q \in Seq(T) /\ Len(q) = n BY SMTT(60), <4>2, <5>1
        <5>3. \A i \in 1..n : q[i].op = op /\ q[i].key = s[i] /\ q[i].value = b BY <4>4 DEF Call
        <5>4. \A i \in 1..n : s[i] \in K BY SMTT(60), <4>1, <4>2
        <5>5. \A i \in 1..n : GoodCall(q[i]) BY <4>4, <5>3, <5>4 DEF GoodCall
        <5> QED BY <5>2, <5>5 DEF CallsGood
      <4>5. CallsGood(D) BY <4>4
      <4>6. (\A k \in K : Fits(SizeOf(k, v))) => CallsGood(C) BY <4>4
      <4> QED BY <4>3, <4>5, <4>6
    <3> DEFINE senders == {p[2] : p \in {p \in m.partial : p[1] = at}}
               old == {p \in m.partial : p[1] <= at}
               gone == {Partial(p[1], p[2]) : p \in old}
               r == stabilize_checkpoint(m, at)
               u == Call("update", Stable, at)
               A == <<u>>
               B == Destroys({Proof(s) : s \in DOMAIN m.proof})
               C == Creates({Proof(s) : s \in senders}, at)
               D == Destroys(gone)
    <3>1. IsFiniteSet(senders) /\ IsFiniteSet(gone) BY FiniteParts
    <3>2. /\ DOMAIN r.mem = {"stable", "local", "proof", "partial"} /\ DOMAIN r.mem.proof = senders
          /\ r.mem.partial = m.partial \ old /\ r.calls = ((A \o B) \o C) \o D
      BY DEF stabilize_checkpoint
    <3>3. IsFiniteSet(m.partial \ old) BY FS_Subset
    <3>4. GoodCall(u) BY <1>MessageFits DEF Call, GoodCall
    <3>14. \A s \in senders : Fits(SizeOf(Proof(s), at))
      <4>1. ASSUME NEW p \in Evidence PROVE p[2] \in Senders BY SMTT(60) DEF Evidence, Senders
      <4>2. senders \subseteq Senders BY <4>1
      <4> QED BY <4>2, <1>MessageFits
    <3> HIDE DEF senders, old, gone, u
    <3>5. IsFiniteSet({Proof(s) : s \in DOMAIN m.proof}) /\ IsFiniteSet({Proof(s) : s \in senders})
      BY <3>1, FiniteParts
    <3>6. CallsGood(A) BY SMTT(60), <3>4, FewCalls
    <3>7. CallsGood(B) BY <3>5, <3>ListedCalls
    <3>8. CallsGood(C) BY <3>5, <3>14, <3>ListedCalls
    <3>9. CallsGood(D) BY <3>1, <3>ListedCalls
    <3> HIDE DEF A, B, C, D
    <3>10. CallsGood(A \o B) BY <3>6, <3>7, <1>JoinCalls
    <3> DEFINE AB == A \o B
    <3>11. CallsGood(AB \o C)
      <4>1. CallsGood(AB) BY <3>10
      <4> HIDE DEF AB
      <4> QED BY <3>8, <4>1, <1>JoinCalls
    <3> DEFINE ABC == AB \o C
    <3>12. CallsGood(ABC \o D)
      <4>1. CallsGood(ABC) BY <3>11
      <4> HIDE DEF ABC
      <4> QED BY <3>9, <4>1, <1>JoinCalls
    <3>13. r.calls = ABC \o D BY <3>2
    <3> HIDE DEF ABC, r
    <3> QED BY SMTT(60), <3>1, <3>2, <3>3, <3>12, <3>13 DEF r
  <2>1. CASE local_checkpoint_reached(cp)
    <3>1. mem' = [mem EXCEPT !.local = cp] /\ queue' = <<Call("update", Local, cp)>> /\ UNCHANGED rocksVars
      BY <2>1 DEF local_checkpoint_reached, Handled
    <3>2. GoodCall(Call("update", Local, cp)) BY <1>MessageFits DEF Call, GoodCall
    <3>3. CallsGood(queue') BY SMTT(60), <3>1, <3>2, FewCalls
    <3>4. MemGood' BY <3>1 DEF MemGood
    <3> QED BY <3>1, <3>3, <3>4
  <2>2. CASE handle_checkpoint_message(sender, cp)
    <3> DEFINE evidence == [mem EXCEPT !.partial = @ \cup {<<cp, sender>>}]
               made0 == Call("create", Partial(cp, sender), cp)
               store == IF <<cp, sender>> \in mem.partial THEN <<>> ELSE <<made0>>
               stabilized == stabilize_checkpoint(evidence, cp)
               given == Call("create", Proof(sender), cp)
               kept == Kept(sender, cp, {})
               t == <<cp, sender>>
    <3>1. \/ Handled([mem EXCEPT !.proof = Put(@, sender, kept)], <<given>>)
          \/ Handled(stabilized.mem, store \o stabilized.calls)
          \/ Handled(evidence, store)
      BY <2>2 DEF handle_checkpoint_message
    <3>2. /\ DOMAIN evidence = {"stable", "local", "proof", "partial"}
          /\ evidence.proof = mem.proof /\ evidence.partial = mem.partial \cup {t}
          /\ evidence.partial \subseteq Evidence
      BY DEF MemGood
    <3>3. IsFiniteSet(mem.partial \cup {t})
      <4> HIDE DEF t
      <4> QED BY FS_AddElement DEF MemGood
    <3>4. IsFiniteSet(DOMAIN evidence.proof) /\ IsFiniteSet(evidence.partial) BY <3>2, <3>3 DEF MemGood
    <3>5. GoodCall(given) /\ GoodCall(made0) BY <1>MessageFits DEF Call, GoodCall
    <3> HIDE DEF evidence, given, made0, kept
    <3>6. CallsGood(store) BY SMTT(60), <3>5, FewCalls
    <3>7. /\ CallsGood(stabilized.calls) /\ DOMAIN stabilized.mem = {"stable", "local", "proof", "partial"}
          /\ IsFiniteSet(DOMAIN stabilized.mem.proof) /\ IsFiniteSet(stabilized.mem.partial)
          /\ stabilized.mem.partial \subseteq Evidence
      BY <3>2, <3>4, <2>StabilizeGood
    <3> HIDE DEF store, stabilized
    <3>8. CASE Handled([mem EXCEPT !.proof = Put(@, sender, kept)], <<given>>)
      <4>1. mem' = [mem EXCEPT !.proof = Put(@, sender, kept)] /\ queue' = <<given>> /\ UNCHANGED rocksVars
        BY <3>8 DEF Handled
      <4>2. CallsGood(queue') BY SMTT(60), <3>5, <4>1, FewCalls
      <4>3. DOMAIN Put(mem.proof, sender, kept) = DOMAIN mem.proof \cup {sender} BY DEF Put, Store!Put
      <4>4. IsFiniteSet(DOMAIN mem.proof \cup {sender}) BY FS_AddElement DEF MemGood
      <4>5. MemGood' BY <4>1, <4>3, <4>4 DEF MemGood
      <4> QED BY <4>1, <4>2, <4>5
    <3>9. CASE Handled(stabilized.mem, store \o stabilized.calls)
      <4> DEFINE calls == stabilized.calls
      <4>1. mem' = stabilized.mem /\ queue' = store \o calls /\ UNCHANGED rocksVars
        BY <3>9 DEF Handled
      <4>2. CallsGood(calls) BY <3>7
      <4> HIDE DEF calls
      <4>3. CallsGood(queue') BY <3>6, <4>1, <4>2, <1>JoinCalls
      <4>4. MemGood' BY <3>7, <4>1 DEF MemGood
      <4> QED BY <4>1, <4>3, <4>4
    <3>10. CASE Handled(evidence, store)
      <4>1. mem' = evidence /\ queue' = store /\ UNCHANGED rocksVars BY <3>10 DEF Handled
      <4>2. MemGood' BY <3>2, <3>4, <4>1 DEF MemGood
      <4> QED BY <3>6, <4>1, <4>2
    <3> QED BY <3>1, <3>8, <3>9, <3>10
  <2> QED BY <2>1, <2>2
<1> SUFFICES ASSUME Inv, [Next]_vars PROVE Inv' /\ StoreStep OBVIOUS
<1>0. StorageInv /\ MemGood /\ CallsGood(queue) BY DEF Inv
<1> USE <1>0
<1>1. ASSUME NEW m \in Messages,
             handle_checkpoint_message(m[1], m[2]) \/ local_checkpoint_reached(m[2])
      PROVE  Inv' /\ StoreStep
  <2> DEFINE sender == m[1]
             cp == m[2]
  <2>1. handle_checkpoint_message(sender, cp) \/ local_checkpoint_reached(cp) BY <1>1
  <2>3. <<cp, sender>> \in Evidence BY DEF Evidence
  <2> HIDE DEF sender, cp
  <2>2. MemGood' /\ CallsGood(queue') /\ UNCHANGED rocksVars BY <2>1, <2>3, <1>HandlersGood
  <2> QED BY <2>2, <1>NothingChanges DEF Inv
<1>2. CASE NextCall
  <2>1. /\ queue # <<>> /\ Begin(Head(queue)) /\ queue' = Tail(queue) /\ UNCHANGED mem
    BY <1>2 DEF NextCall
  <2> USE <2>1
  <2> DEFINE c == Head(queue)
  <2>2. CallsGood(Tail(queue)) /\ GoodCall(c) BY HeadCall
  <2> HIDE DEF c
  <2>3. c.op \in Ops /\ c.op # "load_snapshot" BY <2>2 DEF GoodCall, Ops, WriteOps
  <2>4. Begin(c) BY DEF c
  <2>5. StorageInv' /\ StoreStep BY <2>3, <2>4, <1>BeginStep
  <2>6. MemGood' BY DEF MemGood
  <2> QED BY <2>2, <2>5, <2>6 DEF Inv
<1>3. CASE OtherCall
  <2>1. UNCHANGED <<mem, queue>> BY <1>3 DEF OtherCall
  <2>2. MemGood' /\ CallsGood(queue') BY <2>1 DEF MemGood
  <2>3. ASSUME NEW c \in Calls, Begin(c) PROVE StorageInv' /\ StoreStep
    <3>1. c.op \in Ops /\ c.op # "load_snapshot" BY CallsAssumption DEF Ops, WriteOps
    <3> QED BY SMTT(60), <2>3, <3>1, <1>BeginStep
  <2>4. ASSUME NEW d \in snap \cup {File(EmptyDisk, TRUE)},
               Begin([op |-> "load_snapshot", value |-> d.disk.pairs, data |-> d])
        PROVE  StorageInv' /\ StoreStep
    <3> DEFINE c == [op |-> "load_snapshot", value |-> d.disk.pairs, data |-> d]
    <3>1. DiskGood(d.disk) BY SMTT(60), EmptyDiskGood DEF StorageInv, DisksGood, File
    <3>2. c.op = "load_snapshot" /\ c.data = d /\ c.value = d.disk.pairs OBVIOUS
    <3>3. Begin(c) BY <2>4
    <3> HIDE DEF c
    <3>4. c.op \in Ops BY <3>2 DEF Ops
    <3> QED BY SMTT(60), <3>1, <3>2, <3>3, <3>4, <1>BeginStep
  <2>5. StorageInv' /\ StoreStep BY <1>3, <2>3, <2>4 DEF OtherCall
  <2> QED BY <2>2, <2>5 DEF Inv
<1>4. CASE StorageWorks
  <2>1. UNCHANGED <<mem, queue>> BY <1>4 DEF StorageWorks
  <2>2. MemGood' /\ CallsGood(queue') BY <2>1 DEF MemGood
  <2>3. Write \/ Return \/ create_snapshot \/ load_snapshot BY <1>4 DEF StorageWorks, StorageStep
  <2>4. StorageInv' /\ StoreStep BY SMTT(60), <2>3, WriteStep, ReturnStep, <1>SnapshotStep, <1>LoadStep
  <2> QED BY <2>2, <2>4 DEF Inv
<1>5. CASE Crash
  <2>1. CrashStorage /\ queue' = <<>> /\ mem' = IF pbft /\ up' THEN init_persists' ELSE mem BY <1>5 DEF Crash
  <2> USE <2>1
  <2>2. StorageInv' /\ StoreStep BY <1>CrashStep
  <2>3. CallsGood(queue') BY FewCalls
  <2>4. MemGood'
    <3>1. CASE pbft /\ up'
      <4>1. IsFiniteSet(DOMAIN disk'.pairs) BY <2>2 DEF StorageInv, DisksGood, DiskGood, IsMap
      <4>2. (IsFiniteSet(DOMAIN disk.pairs) =>
              /\ DOMAIN init_persists = {"stable", "local", "proof", "partial"}
              /\ IsFiniteSet(DOMAIN init_persists.proof)
              /\ IsFiniteSet(init_persists.partial) /\ init_persists.partial \subseteq Evidence)'
        BY <1>ReadBack, PTL
      <4> QED BY <3>1, <4>1, <4>2 DEF MemGood
    <3>2. CASE ~(pbft /\ up') BY <3>2 DEF MemGood
    <3> QED BY <3>1, <3>2
  <2> QED BY <2>2, <2>3, <2>4 DEF Inv
<1>6. CASE UNCHANGED vars
  <2>1. UNCHANGED rocksVars /\ UNCHANGED <<mem, queue>> BY <1>6 DEF vars
  <2>2. MemGood' /\ CallsGood(queue') BY <2>1 DEF MemGood
  <2> QED BY <2>1, <2>2, <1>NothingChanges DEF Inv
<1> QED BY SMTT(60), <1>1, <1>2, <1>3, <1>4, <1>5, <1>6 DEF Next

-----------------------------------------------------------------------------
(* The checkpoint manager.  Storage holds what memory holds, except for    *)
(* the calls of the handler that are still to be made.  They come in a     *)
(* fixed order: the new evidence, the stable checkpoint, the old proof,    *)
(* the new proof, the old evidence.  So the calls that are left can be     *)
(* looked at as a set.                                                     *)
UpdateLocal(m) == Call("update", Local, m.local)
AddEvidence(p) == Call("create", Partial(p[1], p[2]), p[1])
UpdateStable(m) == Call("update", Stable, m.stable)
DropProof(s) == Call("remove", Proof(s), 0)
AddProof(s, m) == Call("create", Proof(s), m.stable)
DropEvidence(p) == Call("remove", Partial(p[1], p[2]), 0)

ManagerCalls(m) ==
    {UpdateLocal(m), UpdateStable(m)}
      \cup {AddEvidence(p) : p \in Evidence} \cup {DropEvidence(p) : p \in Evidence}
      \cup {DropProof(s) : s \in Senders} \cup {AddProof(s, m) : s \in Senders}

Order(c) ==
    CASE c.key[1] = "local" -> 0
      [] c.key[1] = "partial" /\ c.op = "create" -> 1
      [] c.key[1] = "stable" -> 2
      [] c.key[1] = "proof" /\ c.op = "remove" -> 3
      [] c.key[1] = "proof" /\ c.op = "create" -> 4
      [] c.key[1] = "partial" /\ c.op = "remove" -> 5

Members(q) == {q[i] : i \in 1..Len(q)}
Sorted(q) ==
    /\ \E S : q \in Seq(S)
    /\ \A i, j \in 1..Len(q) : i < j => Order(q[i]) <= Order(q[j]) /\ q[i] # q[j]

(* The pairs f, as the manager sees them *)
Has(f, k) == <<State, k>> \in DOMAIN f
At(f, k) == f[<<State, k>>]
HasEvidence(f) == \E p \in Evidence : Has(f, Partial(p[1], p[2]))

PairsKnown(f) ==
    /\ Has(f, Stable) /\ Has(f, Local)
    /\ \A x \in DOMAIN f :
          \/ x \in {<<State, Stable>>, <<State, Local>>}
          \/ \E s \in Senders : x = <<State, Proof(s)>>
          \/ \E p \in Evidence : x = <<State, Partial(p[1], p[2])>>

(* A manager, and a database, whose proof is of its stable checkpoint *)
Enough(S) == Cardinality(S) >= honest_member_size(Cardinality(Peers))
Proven(m) ==
    /\ m.proof = [s \in DOMAIN m.proof |-> m.stable] /\ DOMAIN m.proof \subseteq Senders
    /\ m.stable # 0 => Enough(DOMAIN m.proof)
StoredProof(f) == {s \in Senders : Has(f, Proof(s))}
ProvenPairs(f) ==
    /\ \A s \in StoredProof(f) : At(f, Proof(s)) = At(f, Stable)
    /\ At(f, Stable) # 0 => Enough(StoredProof(f))

(* With the calls C still to make on the pairs f, they will be as in m *)
Ends(f, C, m) ==
    /\ UpdateLocal(m) \notin C => At(f, Local) = m.local
    /\ UpdateStable(m) \notin C => At(f, Stable) = m.stable
    /\ \A s \in Senders :
          /\ AddProof(s, m) \in C =>
                /\ s \in DOMAIN m.proof
                /\ Has(f, Proof(s)) => At(f, Proof(s)) = m.stable \/ DropProof(s) \in C
          /\ AddProof(s, m) \notin C /\ DropProof(s) \in C => s \notin DOMAIN m.proof
          /\ AddProof(s, m) \notin C /\ DropProof(s) \notin C =>
                /\ Has(f, Proof(s)) <=> s \in DOMAIN m.proof
                /\ Has(f, Proof(s)) => At(f, Proof(s)) = m.stable
    /\ \A p \in Evidence :
          /\ DropEvidence(p) \in C => p \notin m.partial
          /\ DropEvidence(p) \notin C /\ AddEvidence(p) \in C => p \in m.partial
          /\ DropEvidence(p) \notin C /\ AddEvidence(p) \notin C =>
                (Has(f, Partial(p[1], p[2])) <=> p \in m.partial)

(* While the checkpoint and its proof change, there is evidence in         *)
(* storage, or nothing has been written yet; or one sender more is added   *)
Guarded(f, C) ==
    \A c \in C : Order(c) \in {2, 3, 4} =>
        \/ \E p \in Evidence :
              /\ DropEvidence(p) \in C
              /\ Has(f, Partial(p[1], p[2])) \/ AddEvidence(p) \in C
        \/ C = {c} /\ Order(c) = 4 /\ c.value = At(f, Stable)

Matches(f, C, m) ==
    /\ PairsKnown(f) /\ C \subseteq ManagerCalls(m) /\ Proven(m) /\ m.partial \subseteq Evidence
    /\ Ends(f, C, m) /\ Guarded(f, C)
    /\ HasEvidence(f) \/ ProvenPairs(f)

Pending == IF call = NoCall THEN queue ELSE <<call>> \o queue
ManagerInv ==
    /\ mem.partial \subseteq Evidence
    /\ pbft => /\ phase = "idle"
               /\ up => Sorted(Pending) /\ Matches(disk.pairs, Members(Pending), mem)
               /\ ~up => Pending = <<>> /\ HasEvidence(disk.pairs)

LEMMA KeyFacts ==
    /\ Stable[1] = "stable" /\ Local[1] = "local"
    /\ \A s : Proof(s)[1] = "proof" /\ Proof(s)[2] = s
    /\ \A c, s : Partial(c, s)[1] = "partial" /\ Partial(c, s)[2] = c /\ Partial(c, s)[3] = s
<1>1. \A a : <<a>>[1] = a BY SMTT(60)
<1>2. \A a, b : <<a, b>>[1] = a /\ <<a, b>>[2] = b BY SMTT(60)
<1>3. \A a, b, c : <<a, b, c>>[1] = a /\ <<a, b, c>>[2] = b /\ <<a, b, c>>[3] = c BY SMTT(60)
<1> QED BY <1>1, <1>2, <1>3 DEF Stable, Local, Proof, Partial

(* What a call does to the pairs.                                          *)
SameAt(f, g, k) == /\ Has(g, k) <=> Has(f, k)
                   /\ Has(f, k) => At(g, k) = At(f, k)
OnlyAt(f, g, k) ==
    /\ DOMAIN g \subseteq DOMAIN f \cup {<<State, k>>}
    /\ \A j : j # k => SameAt(f, g, j)

-----------------------------------------------------------------------------
(* Lists of calls.                                                         *)
LEMMA FewSorted ==
    /\ Sorted(<<>>) /\ Members(<<>>) = {}
    /\ \A c : Sorted(<<c>>) /\ Members(<<c>>) = {c}
<1>1. Sorted(<<>>) /\ Members(<<>>) = {}
  <2>1. <<>> \in Seq({}) /\ Len(<<>>) = 0 BY SMTT(60)
  <2>2. 1..0 = {} BY SMTT(60)
  <2> QED BY <2>1, <2>2 DEF Sorted, Members
<1>2. ASSUME NEW c PROVE Sorted(<<c>>) /\ Members(<<c>>) = {c}
  <2> DEFINE q == <<c>>
  <2>1. q \in Seq({c}) /\ Len(q) = 1 /\ q[1] = c BY SMTT(60)
  <2> HIDE DEF q
  <2>2. 1..Len(q) = {1} /\ ~(1 < 1) BY SMTT(60), <2>1
  <2>3. Sorted(q) /\ Members(q) = {c} BY <2>1, <2>2 DEF Sorted, Members
  <2> QED BY <2>3 DEF q
<1> QED BY <1>1, <1>2

-----------------------------------------------------------------------------
(* Before a handler nothing is left to do.                                 *)
LEMMA BeforeHandler ==
    ASSUME ManagerInv, pbft, up, Idle
    PROVE  phase = "idle" /\ Matches(disk.pairs, {}, mem)
<1>1. Pending = <<>> BY DEF Pending, Idle
<1> QED BY <1>1, FewSorted DEF ManagerInv

(* A checkpoint becomes stable.                                            *)
StabilizeCalls(n, P, senders, gone) ==
    <<UpdateStable(n)>> \o Destroys({Proof(s) : s \in P})
      \o Creates({Proof(s) : s \in senders}, n.stable)
      \o Destroys({Partial(p[1], p[2]) : p \in gone})
StabilizeSet(n, P, senders, gone) ==
    {UpdateStable(n)} \cup {DropProof(s) : s \in P}
      \cup {AddProof(s, n) : s \in senders} \cup {DropEvidence(p) : p \in gone}

-----------------------------------------------------------------------------
(* A restart.                                                              *)
LEMMA KeysStored ==
    ASSUME NEW k, NEW kind
    PROVE  k \in StoredKeys(kind) <=> k[1] = kind /\ \E x \in DOMAIN disk.pairs : x[1] = State /\ x[2] = k
BY DEF StoredKeys

LEMMA PartialKey ==
    ASSUME PairsKnown(disk.pairs), NEW x \in DOMAIN disk.pairs, NEW k, x[2] = k, k[1] = "partial"
    PROVE  \E p \in Evidence : x = <<State, Partial(p[1], p[2])>>
<1>1. \A j : <<State, j>>[2] = j BY SMTT(60)
<1>2. x # <<State, Stable>> /\ x # <<State, Local>> /\ \A s : x # <<State, Proof(s)>>
  <2>1. Stable[1] = "stable" /\ Local[1] = "local" /\ \A s : Proof(s)[1] = "proof" BY KeyFacts
  <2>2. x[2][1] = "partial" OBVIOUS
  <2>3. <<State, Stable>>[2][1] = "stable" /\ <<State, Local>>[2][1] = "local" BY <1>1, <2>1
  <2>4. \A s : <<State, Proof(s)>>[2][1] = "proof" BY <1>1, <2>1
  <2> QED BY <2>2, <2>3, <2>4
<1> QED BY <1>2 DEF PairsKnown

LEMMA EvidenceThrows ==
    /\ HasEvidence(disk.pairs) => init_persists_throws
    /\ PairsKnown(disk.pairs) /\ init_persists_throws => HasEvidence(disk.pairs)
<1>1. ASSUME HasEvidence(disk.pairs) PROVE init_persists_throws
  <2>1. PICK p \in Evidence : Has(disk.pairs, Partial(p[1], p[2])) BY <1>1 DEF HasEvidence
  <2> DEFINE k == Partial(p[1], p[2])
             x == <<State, k>>
  <2>2. k[1] = "partial" BY SMTT(60), KeyFacts
  <2> HIDE DEF k
  <2>3. x[1] = State /\ x[2] = k BY SMTT(60)
  <2>4. x \in DOMAIN disk.pairs BY <2>1 DEF Has, k
  <2> HIDE DEF x
  <2>5. k \in StoredKeys("partial") BY <2>2, <2>3, <2>4, KeysStored
  <2> QED BY <2>5 DEF init_persists_throws
<1>2. ASSUME PairsKnown(disk.pairs), init_persists_throws PROVE HasEvidence(disk.pairs)
  <2>1. PICK k : k \in StoredKeys("partial") BY <1>2 DEF init_persists_throws
  <2>2. k[1] = "partial" /\ \E x \in DOMAIN disk.pairs : x[1] = State /\ x[2] = k BY <2>1, KeysStored
  <2>3. PICK x \in DOMAIN disk.pairs : x[1] = State /\ x[2] = k BY <2>2
  <2>4. PICK p \in Evidence : x = <<State, Partial(p[1], p[2])>> BY <1>2, <2>2, <2>3, PartialKey
  <2> QED BY <2>4 DEF HasEvidence, Has
<1> QED BY <1>1, <1>2

LEMMA ProofKeys ==
    ASSUME PairsKnown(disk.pairs)
    PROVE  {k[2] : k \in StoredKeys("proof")} = StoredProof(disk.pairs)
<1>1. ASSUME NEW k \in StoredKeys("proof") PROVE k[2] \in StoredProof(disk.pairs)
  <2>1. k[1] = "proof" /\ \E x \in DOMAIN disk.pairs : x[1] = State /\ x[2] = k BY KeysStored
  <2>2. PICK x \in DOMAIN disk.pairs : x[1] = State /\ x[2] = k BY <2>1
  <2>3. \A j : <<State, j>>[2] = j BY SMTT(60)
  <2>4. x # <<State, Stable>> /\ x # <<State, Local>> /\ \A p \in Evidence : x # <<State, Partial(p[1], p[2])>>
    <3>1. Stable[1] = "stable" /\ Local[1] = "local" /\ \A c, s : Partial(c, s)[1] = "partial" BY KeyFacts
    <3>2. x[2][1] = "proof" BY <2>1, <2>2
    <3>3. <<State, Stable>>[2][1] = "stable" /\ <<State, Local>>[2][1] = "local" BY <2>3, <3>1
    <3>4. \A p \in Evidence : <<State, Partial(p[1], p[2])>>[2][1] = "partial" BY <2>3, <3>1
    <3> QED BY <3>2, <3>3, <3>4
  <2>5. PICK s \in Senders : x = <<State, Proof(s)>> BY <2>4 DEF PairsKnown
  <2>6. k = Proof(s) BY <2>2, <2>3, <2>5
  <2>7. k[2] = s BY <2>6, KeyFacts
  <2> QED BY <2>5, <2>7 DEF StoredProof, Has
<1>2. ASSUME NEW s \in StoredProof(disk.pairs) PROVE \E k \in StoredKeys("proof") : k[2] = s
  <2> DEFINE k == Proof(s)
             x == <<State, k>>
  <2>1. k[1] = "proof" /\ k[2] = s BY KeyFacts
  <2> HIDE DEF k
  <2>2. x[1] = State /\ x[2] = k BY SMTT(60)
  <2>3. x \in DOMAIN disk.pairs BY <1>2 DEF StoredProof, Has, k
  <2> HIDE DEF x
  <2>4. k \in StoredKeys("proof") BY <2>1, <2>2, <2>3, KeysStored
  <2> QED BY <2>1, <2>4
<1> QED BY <1>1, <1>2

LEMMA RereadMatches ==
    ASSUME PairsKnown(disk.pairs), ProvenPairs(disk.pairs), ~HasEvidence(disk.pairs)
    PROVE  Matches(disk.pairs, {}, init_persists)
<1> DEFINE f == disk.pairs
           m == init_persists
<1>1. /\ m.stable = At(f, Stable) /\ m.local = At(f, Local) /\ m.partial = {}
      /\ m.proof = [s \in StoredProof(f) |-> At(f, Proof(s))]
  BY ProofKeys DEF init_persists, Stored, At
<1> USE <1>1
<1> HIDE DEF m, f
<1>2. DOMAIN m.proof = StoredProof(f) /\ \A s \in StoredProof(f) : At(f, Proof(s)) = m.stable
  BY DEF ProvenPairs, f
<1> USE <1>2
<1>3. Proven(m)
  <2>1. m.proof = [s \in DOMAIN m.proof |-> m.stable] OBVIOUS
  <2>2. m.stable # 0 => Enough(DOMAIN m.proof) BY DEF ProvenPairs, f
  <2> QED BY <2>1, <2>2 DEF Proven, StoredProof
<1>4. \A s \in Senders : Has(f, Proof(s)) <=> s \in DOMAIN m.proof BY DEF StoredProof
<1>5. Ends(f, {}, m)
  <2>1. \A p \in Evidence : ~Has(f, Partial(p[1], p[2])) BY DEF HasEvidence, f
  <2> QED BY <1>4, <2>1 DEF Ends
<1>6. Guarded(f, {}) BY DEF Guarded
<1> QED BY <1>3, <1>5, <1>6 DEF Matches, m, f

LEMMA ManagerAlways == Spec => [](Inv /\ ManagerInv)
(* Evidence is told apart by its checkpoint and sender.                    *)
<1>EvidenceKeys. /\ \A m \in Messages : <<m[2], m[1]>> \in Evidence
                 /\ \A p \in Evidence : p = <<p[1], p[2]>> /\ p[1] \in Nat /\ p[2] \in Senders
                 /\ \A p, q \in Evidence : Partial(p[1], p[2]) = Partial(q[1], q[2]) => p = q
  <2>1. \A a, b : <<a, b>>[1] = a /\ <<a, b>>[2] = b BY SMTT(60)
  <2>2. ASSUME NEW p \in Evidence PROVE p = <<p[1], p[2]>> /\ p[1] \in Nat /\ p[2] \in Senders
    <3>1. PICK m \in Messages : p = <<m[2], m[1]>> BY DEF Evidence
    <3>2. p[1] = m[2] /\ p[2] = m[1] BY <2>1, <3>1
    <3> QED BY <3>1, <3>2, ManagerAssumption DEF Senders
  <2>3. ASSUME NEW p \in Evidence, NEW q \in Evidence, Partial(p[1], p[2]) = Partial(q[1], q[2]) PROVE p = q
    <3> DEFINE k == Partial(p[1], p[2])
               l == Partial(q[1], q[2])
    <3>0. k[2] = p[1] /\ k[3] = p[2] /\ l[2] = q[1] /\ l[3] = q[2] BY SMTT(60) DEF Partial
    <3>1. p[1] = q[1] /\ p[2] = q[2] BY <2>3, <3>0
    <3> QED BY <2>2, <3>1
  <2> QED BY <2>2, <2>3 DEF Evidence
(* What the calls are.                                                     *)
<1>CallFields. ASSUME NEW m
               PROVE  /\ \A c \in ManagerCalls(m) : c.uuid = State
                      /\ UpdateLocal(m).op = "update" /\ UpdateLocal(m).key = Local /\ UpdateLocal(m).value = m.local
                      /\ UpdateStable(m).op = "update" /\ UpdateStable(m).key = Stable /\ UpdateStable(m).value = m.stable
                      /\ \A p : /\ AddEvidence(p).op = "create" /\ AddEvidence(p).key = Partial(p[1], p[2])
                                /\ DropEvidence(p).op = "remove" /\ DropEvidence(p).key = Partial(p[1], p[2])
                      /\ \A s : /\ DropProof(s).op = "remove" /\ DropProof(s).key = Proof(s)
                                /\ AddProof(s, m).op = "create" /\ AddProof(s, m).key = Proof(s)
                                /\ AddProof(s, m).value = m.stable
  <2>2. \A c \in ManagerCalls(m) : c.uuid = State
    <3> SUFFICES ASSUME NEW c \in ManagerCalls(m) PROVE c.uuid = State OBVIOUS
    <3>1. UpdateLocal(m).uuid = State /\ UpdateStable(m).uuid = State BY SMTT(60) DEF UpdateLocal, UpdateStable, Call
    <3>2. \A p : AddEvidence(p).uuid = State /\ DropEvidence(p).uuid = State BY SMTT(60) DEF AddEvidence, DropEvidence, Call
    <3>3. \A s : DropProof(s).uuid = State /\ AddProof(s, m).uuid = State BY SMTT(60) DEF DropProof, AddProof, Call
    <3> QED BY <3>1, <3>2, <3>3 DEF ManagerCalls
  <2>3. /\ UpdateLocal(m).op = "update" /\ UpdateLocal(m).key = Local /\ UpdateLocal(m).value = m.local
        /\ UpdateStable(m).op = "update" /\ UpdateStable(m).key = Stable /\ UpdateStable(m).value = m.stable
    BY SMTT(60) DEF UpdateLocal, UpdateStable, Call
  <2>4. \A p : /\ AddEvidence(p).op = "create" /\ AddEvidence(p).key = Partial(p[1], p[2])
              /\ DropEvidence(p).op = "remove" /\ DropEvidence(p).key = Partial(p[1], p[2])
    BY SMTT(60) DEF AddEvidence, DropEvidence, Call
  <2>5. \A s : /\ DropProof(s).op = "remove" /\ DropProof(s).key = Proof(s)
              /\ AddProof(s, m).op = "create" /\ AddProof(s, m).key = Proof(s) /\ AddProof(s, m).value = m.stable
    BY SMTT(60) DEF DropProof, AddProof, Call
  <2> QED BY <2>2, <2>3, <2>4, <2>5
<1>CallOrder. ASSUME NEW m
              PROVE  /\ Order(UpdateLocal(m)) = 0 /\ Order(UpdateStable(m)) = 2
                     /\ \A p : Order(AddEvidence(p)) = 1 /\ Order(DropEvidence(p)) = 5
                     /\ \A s : Order(DropProof(s)) = 3 /\ Order(AddProof(s, m)) = 4
  <2>1. UpdateLocal(m).key[1] = "local" /\ UpdateStable(m).key[1] = "stable"
    BY SMTT(60) DEF UpdateLocal, UpdateStable, Local, Stable, Call
  <2>2. Order(UpdateLocal(m)) = 0 BY <2>1 DEF Order
  <2>3. Order(UpdateStable(m)) = 2 BY <2>1 DEF Order
  <2>4. \A p : Order(AddEvidence(p)) = 1 /\ Order(DropEvidence(p)) = 5
    <3> SUFFICES ASSUME NEW p PROVE Order(AddEvidence(p)) = 1 /\ Order(DropEvidence(p)) = 5 OBVIOUS
    <3>1. AddEvidence(p).key[1] = "partial" /\ AddEvidence(p).op = "create" BY SMTT(60) DEF AddEvidence, Partial, Call
    <3>2. DropEvidence(p).key[1] = "partial" /\ DropEvidence(p).op = "remove" BY SMTT(60) DEF DropEvidence, Partial, Call
    <3>3. Order(AddEvidence(p)) = 1 BY <3>1 DEF Order
    <3>4. Order(DropEvidence(p)) = 5 BY <3>2 DEF Order
    <3> QED BY <3>3, <3>4
  <2>5. \A s : Order(DropProof(s)) = 3 /\ Order(AddProof(s, m)) = 4
    <3> SUFFICES ASSUME NEW s PROVE Order(DropProof(s)) = 3 /\ Order(AddProof(s, m)) = 4 OBVIOUS
    <3>1. DropProof(s).key[1] = "proof" /\ DropProof(s).op = "remove" BY SMTT(60) DEF DropProof, Proof, Call
    <3>2. AddProof(s, m).key[1] = "proof" /\ AddProof(s, m).op = "create" BY SMTT(60) DEF AddProof, Proof, Call
    <3>3. Order(DropProof(s)) = 3 BY <3>1 DEF Order
    <3>4. Order(AddProof(s, m)) = 4 BY <3>2 DEF Order
    <3> QED BY <3>3, <3>4
  <2> QED BY <2>2, <2>3, <2>4, <2>5
<1>KeysApart. /\ Stable # Local
              /\ \A s : Proof(s) # Stable /\ Proof(s) # Local
              /\ \A s, t : Proof(s) = Proof(t) => s = t
              /\ \A c, s : Partial(c, s) # Stable /\ Partial(c, s) # Local
              /\ \A c, s, t : Partial(c, s) # Proof(t)
  <2>1. Stable # Local BY KeyFacts
  <2>2. ASSUME NEW s PROVE Proof(s) # Stable /\ Proof(s) # Local
    <3>1. Proof(s)[1] = "proof" BY KeyFacts
    <3> QED BY <3>1, KeyFacts
  <2>3. ASSUME NEW s, NEW t, Proof(s) = Proof(t) PROVE s = t
    <3>1. Proof(s)[2] = s /\ Proof(t)[2] = t BY KeyFacts
    <3> QED BY <2>3, <3>1
  <2>4. ASSUME NEW c, NEW s PROVE Partial(c, s) # Stable /\ Partial(c, s) # Local
    <3>1. Partial(c, s)[1] = "partial" BY SMTT(60) DEF Partial
    <3> QED BY <3>1, KeyFacts
  <2>5. ASSUME NEW c, NEW s, NEW t PROVE Partial(c, s) # Proof(t)
    <3>1. Partial(c, s)[1] = "partial" BY SMTT(60) DEF Partial
    <3>2. Proof(t)[1] = "proof" BY KeyFacts
    <3> QED BY <3>1, <3>2
  <2> QED BY <2>1, <2>2, <2>3, <2>4, <2>5
<1>MemberSize. honest_member_size(Cardinality(Peers)) \in Nat /\ honest_member_size(Cardinality(Peers)) >= 1
  <2> DEFINE n == Cardinality(Peers)
  <2>1. n \in Nat /\ n # 0 BY ManagerAssumption, FS_CardinalityType, FS_EmptySet
  <2> HIDE DEF n
  <2>2. honest_member_size(n) \in Nat /\ honest_member_size(n) >= 1
    BY SMTT(60), <2>1 DEF honest_member_size, faulty_nodes_bound
  <2> QED BY <2>2 DEF n
(* One more is still enough.                                               *)
<1>MoreIsEnough. ASSUME NEW S, IsFiniteSet(S), NEW s, Enough(S)
                 PROVE  Enough(S \cup {s})
  <2> USE <1>MoreIsEnough
  <2>1. honest_member_size(Cardinality(Peers)) \in Nat /\ honest_member_size(Cardinality(Peers)) >= 1 BY <1>MemberSize
  <2>2. IsFiniteSet(S \cup {s}) /\ S \subseteq S \cup {s} BY FS_AddElement
  <2>3. Cardinality(S) \in Nat /\ Cardinality(S \cup {s}) \in Nat /\ Cardinality(S) <= Cardinality(S \cup {s})
    BY <2>2, FS_CardinalityType, FS_Subset
  <2> QED BY SMTT(60), <2>1, <2>3 DEF Enough
(* The calls are told apart by what they do and to which key.              *)
<1>CallsApart. ASSUME NEW m
               PROVE  /\ UpdateLocal(m) # UpdateStable(m)
                      /\ \A p : /\ AddEvidence(p) \notin {UpdateLocal(m), UpdateStable(m)}
                                /\ DropEvidence(p) \notin {UpdateLocal(m), UpdateStable(m)}
                      /\ \A s : /\ DropProof(s) \notin {UpdateLocal(m), UpdateStable(m)}
                                /\ AddProof(s, m) \notin {UpdateLocal(m), UpdateStable(m)}
                      /\ \A p, q : AddEvidence(p) # DropEvidence(q)
                      /\ \A s, t : DropProof(s) # AddProof(t, m)
                      /\ \A p, s : /\ AddEvidence(p) # DropProof(s) /\ AddEvidence(p) # AddProof(s, m)
                                   /\ DropEvidence(p) # DropProof(s) /\ DropEvidence(p) # AddProof(s, m)
                      /\ \A p, q \in Evidence : AddEvidence(p) = AddEvidence(q) \/ DropEvidence(p) = DropEvidence(q) => p = q
                      /\ \A s, t : DropProof(s) = DropProof(t) \/ AddProof(s, m) = AddProof(t, m) => s = t
  <2>2. /\ UpdateLocal(m) # UpdateStable(m)
        /\ \A p : /\ AddEvidence(p) \notin {UpdateLocal(m), UpdateStable(m)}
                  /\ DropEvidence(p) \notin {UpdateLocal(m), UpdateStable(m)}
        /\ \A s : /\ DropProof(s) \notin {UpdateLocal(m), UpdateStable(m)}
                  /\ AddProof(s, m) \notin {UpdateLocal(m), UpdateStable(m)}
    BY SMTT(60), <1>CallOrder
  <2>3. /\ \A p, q : AddEvidence(p) # DropEvidence(q)
        /\ \A s, t : DropProof(s) # AddProof(t, m)
    BY SMTT(60), <1>CallOrder
  <2>4. \A p, s : /\ AddEvidence(p) # DropProof(s) /\ AddEvidence(p) # AddProof(s, m)
                  /\ DropEvidence(p) # DropProof(s) /\ DropEvidence(p) # AddProof(s, m)
    BY SMTT(60), <1>CallOrder
  <2>5. ASSUME NEW p \in Evidence, NEW q \in Evidence,
               AddEvidence(p) = AddEvidence(q) \/ DropEvidence(p) = DropEvidence(q)
        PROVE  p = q
    <3>1. /\ AddEvidence(p).key = Partial(p[1], p[2]) /\ AddEvidence(q).key = Partial(q[1], q[2])
          /\ DropEvidence(p).key = Partial(p[1], p[2]) /\ DropEvidence(q).key = Partial(q[1], q[2])
      BY <1>CallFields
    <3>2. Partial(p[1], p[2]) = Partial(q[1], q[2]) BY <2>5, <3>1
    <3> QED BY <3>2, <1>EvidenceKeys
  <2>6. ASSUME NEW s, NEW t, DropProof(s) = DropProof(t) \/ AddProof(s, m) = AddProof(t, m) PROVE s = t
    <3>1. /\ DropProof(s).key = Proof(s) /\ DropProof(t).key = Proof(t)
          /\ AddProof(s, m).key = Proof(s) /\ AddProof(t, m).key = Proof(t)
      BY <1>CallFields
    <3>2. Proof(s) = Proof(t) BY <2>6, <3>1
    <3> QED BY <3>2, <1>KeysApart
  <2> QED BY <2>2, <2>3, <2>4, <2>5, <2>6
<1>HandledKeeps. ASSUME NEW n, NEW q, Handled(n, q), pbft, up, Idle, phase = "idle", Sorted(q), Matches(disk.pairs, Members(q), n)
                 PROVE  ManagerInv'
  <2> USE <1>HandledKeeps
  <2>1. /\ mem' = n /\ queue' = q /\ UNCHANGED <<disk, call, phase>> /\ pbft' = pbft /\ up' = up /\ call = NoCall
    BY DEF Handled, rocksVars, Idle
  <2>2. Pending' = q BY <2>1 DEF Pending
  <2>3. n.partial \subseteq Evidence BY DEF Matches
  <2> QED BY <2>1, <2>2, <2>3 DEF ManagerInv
<1>MessageKeeps. ASSUME ManagerInv, MemGood, NEW got \in Messages, handle_checkpoint_message(got[1], got[2])
                 PROVE  ManagerInv'
  (* One more sender of the stable checkpoint, and evidence for another one. *)
  <2>SenderKeeps. ASSUME ManagerInv, MemGood, NEW msg \in Messages, pbft, up, Idle, msg[2] = mem.stable,
                         Handled([mem EXCEPT !.proof = Put(@, msg[1], Kept(msg[1], msg[2], {}))],
                                 <<Call("create", Proof(msg[1]), msg[2])>>)
                  PROVE  ManagerInv'
    <3> USE <2>SenderKeeps
    <3>AfterSender. ASSUME NEW f, NEW m, Matches(f, {}, m), IsFiniteSet(DOMAIN m.proof), NEW s \in Senders,
                           NEW n, n.local = m.local, n.stable = m.stable, n.partial = m.partial,
                           n.proof = [t \in DOMAIN m.proof \cup {s} |-> m.stable]
                    PROVE  Matches(f, {AddProof(s, n)}, n)
      <4> USE <3>AfterSender
      <4> DEFINE c == AddProof(s, n)
                 C == {c}
      <4>1. /\ UpdateLocal(n) \notin C /\ UpdateStable(n) \notin C
            /\ \A t : DropProof(t) \notin C /\ (AddProof(t, n) \in C => t = s)
            /\ \A q : DropEvidence(q) \notin C /\ AddEvidence(q) \notin C
        BY <1>CallsApart
      <4>2. C \subseteq ManagerCalls(n) /\ AddProof(s, n) \in C BY DEF ManagerCalls
      <4>3. At(f, Stable) = m.stable BY DEF Matches, Ends
      <4>4. Guarded(f, C)
        <5>1. Order(c) = 4 BY <1>CallOrder
        <5>2. c.value = n.stable BY <1>CallFields
        <5> QED BY <4>3, <5>1, <5>2 DEF Guarded
      <4>5. DOMAIN n.proof = DOMAIN m.proof \cup {s} OBVIOUS
      <4> USE <4>5
      <4> HIDE DEF c, C
      <4>6. Ends(f, C, n)
        <5>1. /\ At(f, Local) = n.local
              /\ \A t \in Senders : (Has(f, Proof(t)) <=> t \in DOMAIN m.proof)
                                    /\ (Has(f, Proof(t)) => At(f, Proof(t)) = n.stable)
              /\ \A p \in Evidence : Has(f, Partial(p[1], p[2])) <=> p \in n.partial
          BY DEF Ends, Matches
        <5> QED BY <4>1, <4>2, <4>3, <5>1 DEF Ends
      <4>7. Proven(n)
        <5>1. n.proof = [t \in DOMAIN n.proof |-> n.stable] OBVIOUS
        <5>2. DOMAIN n.proof \subseteq Senders BY DEF Matches, Proven
        <5>3. n.stable # 0 => Enough(DOMAIN n.proof) BY <1>MoreIsEnough DEF Matches, Proven
        <5> QED BY <5>1, <5>2, <5>3 DEF Proven
      <4>8. Matches(f, C, n) BY <4>2, <4>4, <4>6, <4>7 DEF Matches
      <4> QED BY <4>8 DEF C, c
    <3> DEFINE s == msg[1]
               cp == msg[2]
               v == Kept(s, cp, {})
               n == [mem EXCEPT !.proof = Put(@, s, v)]
               q == <<Call("create", Proof(s), cp)>>
    <3>1. Handled(n, q) /\ cp = mem.stable /\ s \in Senders BY DEF Senders
    <3> USE <3>1
    <3>2. phase = "idle" /\ Matches(disk.pairs, {}, mem) BY BeforeHandler
    <3> USE <3>2
    <3> HIDE DEF s, cp
    <3>3. v = mem.stable
      <4>1. has_priv(State, Proof(s)) => Stored(Proof(s)) = mem.stable
        BY DEF has_priv, Stored, Matches, Ends, Has, At
      <4> QED BY <4>1 DEF Kept
    <3> HIDE DEF v
    <3>4. n.local = mem.local /\ n.stable = mem.stable /\ n.partial = mem.partial /\ n.proof = Put(mem.proof, s, v)
      BY DEF MemGood
    <3>5. n.proof = [t \in DOMAIN mem.proof \cup {s} |-> mem.stable]
      <4>1. \A t \in DOMAIN mem.proof : mem.proof[t] = mem.stable BY DEF Matches, Proven
      <4>2. Put(mem.proof, s, v) = [t \in DOMAIN mem.proof \cup {s} |-> IF t = s THEN v ELSE mem.proof[t]]
        BY DEF Put, Store!Put
      <4> QED BY <3>3, <3>4, <4>1, <4>2
    <3>6. Call("create", Proof(s), cp) = AddProof(s, n) BY <3>4 DEF AddProof
    <3>7. Sorted(q) /\ Members(q) = {AddProof(s, n)} BY <3>6, FewSorted
    <3> HIDE DEF n, q
    <3>8. IsFiniteSet(DOMAIN mem.proof) BY DEF MemGood
    <3>9. Matches(disk.pairs, {AddProof(s, n)}, n) BY <3>4, <3>5, <3>8, <3>AfterSender
    <3>10. Matches(disk.pairs, Members(q), n) BY <3>7, <3>9
    <3> QED BY <3>7, <3>10, <1>HandledKeeps
  <2>EvidenceKeeps. ASSUME ManagerInv, MemGood, NEW msg \in Messages, NEW p, p = <<msg[2], msg[1]>>, pbft, up, Idle,
                           Handled([mem EXCEPT !.partial = @ \cup {p}],
                                   IF p \in mem.partial THEN <<>> ELSE <<Call("create", Partial(msg[2], msg[1]), msg[2])>>)
                    PROVE  ManagerInv'
    <3> USE <2>EvidenceKeeps
    (* What the handlers leave to do.                                          *)
    <3>AfterNothing. ASSUME NEW f, NEW m, Matches(f, {}, m),
                            NEW n, n.local = m.local, n.stable = m.stable, n.proof = m.proof, n.partial = m.partial
                     PROVE  Matches(f, {}, n)
      <4> USE <3>AfterNothing
      <4>1. Ends(f, {}, n) BY DEF Ends, Matches
      <4>2. Proven(n) BY DEF Proven, Matches
      <4> QED BY <4>1, <4>2 DEF Matches
    <3>AfterEvidence. ASSUME NEW f, NEW m, Matches(f, {}, m), NEW w \in Evidence, w \notin m.partial,
                             NEW n, n.local = m.local, n.stable = m.stable, n.proof = m.proof, n.partial = m.partial \cup {w}
                      PROVE  Matches(f, {AddEvidence(w)}, n)
      <4> USE <3>AfterEvidence
      <4> DEFINE C == {AddEvidence(w)}
      <4>1. /\ UpdateLocal(n) \notin C /\ UpdateStable(n) \notin C
            /\ \A s : AddProof(s, n) \notin C /\ DropProof(s) \notin C
            /\ \A q \in Evidence : DropEvidence(q) \notin C /\ (AddEvidence(q) \in C => q = w)
        BY <1>CallsApart
      <4>2. C \subseteq ManagerCalls(n) /\ AddEvidence(w) \in C BY DEF ManagerCalls
      <4>3. Guarded(f, C)
        <5>1. \A c \in C : Order(c) \notin {2, 3, 4} BY SMTT(60), <1>CallOrder
        <5> QED BY <5>1 DEF Guarded
      <4> HIDE DEF C
      <4>4. Ends(f, C, n) BY <4>1, <4>2 DEF Ends, Matches
      <4>5. Proven(n) BY DEF Proven, Matches
      <4>6. n.partial \subseteq Evidence BY DEF Matches
      <4>7. Matches(f, C, n) BY <4>2, <4>3, <4>4, <4>5, <4>6 DEF Matches
      <4> QED BY <4>7 DEF C
    <3> DEFINE n == [mem EXCEPT !.partial = @ \cup {p}]
               c == Call("create", Partial(msg[2], msg[1]), msg[2])
               q == IF p \in mem.partial THEN <<>> ELSE <<c>>
    <3>1. phase = "idle" /\ Matches(disk.pairs, {}, mem) BY BeforeHandler
    <3>2. p \in Evidence /\ p[1] = msg[2] /\ p[2] = msg[1]
      <4>1. p[1] = msg[2] /\ p[2] = msg[1] BY SMTT(60)
      <4> QED BY <4>1, <1>EvidenceKeys
    <3>3. c = AddEvidence(p) BY <3>2 DEF AddEvidence
    <3>4. Handled(n, q) OBVIOUS
    <3>5. /\ n.local = mem.local /\ n.stable = mem.stable /\ n.proof = mem.proof /\ n.partial = mem.partial \cup {p}
      BY DEF MemGood
    <3>6. CASE p \in mem.partial
      <4>1. Sorted(q) /\ Members(q) = {} BY <3>6, FewSorted
      <4>2. mem.partial \cup {p} = mem.partial BY <3>6
      <4> HIDE DEF n, q
      <4>3. Matches(disk.pairs, {}, n) BY <3>1, <3>5, <4>2, <3>AfterNothing
      <4>4. Matches(disk.pairs, Members(q), n) BY <4>1, <4>3
      <4> QED BY <3>1, <3>4, <4>1, <4>4, <1>HandledKeeps
    <3>7. CASE p \notin mem.partial
      <4>1. Sorted(q) /\ Members(q) = {AddEvidence(p)} BY <3>3, <3>7, FewSorted
      <4> HIDE DEF n, q
      <4>2. Matches(disk.pairs, {AddEvidence(p)}, n) BY <3>1, <3>2, <3>5, <3>7, <3>AfterEvidence
      <4>3. Matches(disk.pairs, Members(q), n) BY <4>1, <4>2
      <4> QED BY <3>1, <3>4, <4>1, <4>3, <1>HandledKeeps
    <3> QED BY <3>6, <3>7
  <2>JoinSorted. ASSUME NEW a, NEW b, Sorted(a), Sorted(b),
                        \A c \in Members(a), d \in Members(b) : Order(c) <= Order(d) /\ c # d
                 PROVE  Sorted(a \o b) /\ Members(a \o b) = Members(a) \cup Members(b)
    <3> USE <2>JoinSorted
    <3> DEFINE q == a \o b
               m == Len(a)
               n == Len(b)
    <3>1. PICK S : a \in Seq(S) BY DEF Sorted
    <3>2. PICK T : b \in Seq(T) BY DEF Sorted
    <3> DEFINE U == S \cup T
    <3>3. a \in Seq(U) /\ b \in Seq(U) BY SMTT(60), <3>1, <3>2
    <3> HIDE DEF U
    <3>4. /\ q \in Seq(U) /\ Len(q) = m + n
          /\ \A i \in 1..(m + n) : q[i] = IF i <= m THEN a[i] ELSE b[i - m]
      BY SMTT(60), <3>3
    <3>5. m \in Nat /\ n \in Nat BY SMTT(60), <3>3
    <3>6. /\ \A i, j \in 1..m : i < j => Order(a[i]) <= Order(a[j]) /\ a[i] # a[j]
          /\ \A i, j \in 1..n : i < j => Order(b[i]) <= Order(b[j]) /\ b[i] # b[j]
          /\ Members(a) = {a[i] : i \in 1..m} /\ Members(b) = {b[i] : i \in 1..n}
      BY DEF Sorted, Members
    <3> HIDE DEF q, m, n
    <3>7. \A i \in 1..m : i \in 1..(m + n) /\ q[i] = a[i]
      <4> SUFFICES ASSUME NEW i \in 1..m PROVE i \in 1..(m + n) /\ q[i] = a[i] OBVIOUS
      <4>1. i \in 1..(m + n) /\ i <= m BY SMTT(60), <3>5
      <4> QED BY <3>4, <4>1
    <3>8. \A i \in 1..n : i + m \in 1..(m + n) /\ q[i + m] = b[i]
      <4> SUFFICES ASSUME NEW i \in 1..n PROVE i + m \in 1..(m + n) /\ q[i + m] = b[i] OBVIOUS
      <4>1. i + m \in 1..(m + n) /\ ~(i + m <= m) /\ (i + m) - m = i BY SMTT(60), <3>5
      <4> QED BY <3>4, <4>1
    <3>9. \A i \in 1..(m + n) : i \in 1..m \/ \E k \in 1..n : i = k + m
      <4> SUFFICES ASSUME NEW i \in 1..(m + n), i \notin 1..m PROVE \E k \in 1..n : i = k + m OBVIOUS
      <4>1. i - m \in 1..n /\ i = (i - m) + m BY SMTT(60), <3>5
      <4> QED BY <4>1
    <3>10. Members(q) = Members(a) \cup Members(b)
      <4>1. Members(q) = {q[i] : i \in 1..(m + n)} BY <3>4 DEF Members
      <4>2. ASSUME NEW x \in Members(q) PROVE x \in Members(a) \cup Members(b)
        <5>1. PICK i \in 1..(m + n) : x = q[i] BY <4>1
        <5>2. CASE i \in 1..m BY <3>6, <3>7, <5>1, <5>2
        <5>3. ASSUME NEW k \in 1..n, i = k + m PROVE x \in Members(b)
          <6>1. x = b[k] BY <3>8, <5>1, <5>3
          <6> QED BY <3>6, <6>1
        <5> QED BY <3>9, <5>2, <5>3
      <4>3. Members(a) \subseteq Members(q) BY <3>6, <3>7, <4>1
      <4>4. Members(b) \subseteq Members(q) BY <3>6, <3>8, <4>1
      <4> QED BY <4>2, <4>3, <4>4
    <3>11. ASSUME NEW i \in 1..(m + n), NEW j \in 1..(m + n), i < j PROVE Order(q[i]) <= Order(q[j]) /\ q[i] # q[j]
      <4>1. CASE i \in 1..m /\ j \in 1..m BY <3>6, <3>7, <3>11, <4>1
      <4>2. ASSUME i \in 1..m, NEW k \in 1..n, j = k + m PROVE Order(q[i]) <= Order(q[j]) /\ q[i] # q[j]
        <5>1. q[i] \in Members(a) /\ q[j] \in Members(b) BY <3>6, <3>7, <3>8, <4>2
        <5> QED BY <5>1
      <4>3. ASSUME NEW k \in 1..n, NEW l \in 1..n, i = k + m, j = l + m PROVE Order(q[i]) <= Order(q[j]) /\ q[i] # q[j]
        <5>1. k < l BY SMTT(60), <3>5, <3>11, <4>3
        <5>2. q[i] = b[k] /\ q[j] = b[l] BY <3>8, <4>3
        <5> QED BY <3>6, <5>1, <5>2
      <4>4. ASSUME NEW k \in 1..n, i = k + m, j \in 1..m PROVE FALSE BY SMTT(60), <3>5, <3>11, <4>4
      <4> QED BY <3>9, <4>1, <4>2, <4>3, <4>4
    <3>12. Sorted(q) BY <3>4, <3>11 DEF Sorted
    <3> QED BY <3>10, <3>12 DEF q
  (* One call for each key of a finite set.                                  *)
  <2>ListedSorted. ASSUME NEW K, IsFiniteSet(K), NEW op, NEW v, NEW n \in Nat, \A k \in K : Order(Call(op, k, v)) = n,
                          NEW q, q = [i \in DOMAIN Listing(K) |-> Call(op, Listing(K)[i], v)]
                   PROVE  Sorted(q) /\ Members(q) = {Call(op, k, v) : k \in K}
    <3> USE <2>ListedSorted
    <3> DEFINE s == Listing(K)
               l == Len(s)
    <3>1. /\ s \in Seq(K) /\ \A k \in K : \E i \in 1..l : s[i] = k
          /\ \A i, j \in 1..l : s[i] = s[j] => i = j
      BY Listed
    <3>2. q = [i \in DOMAIN s |-> Call(op, s[i], v)] OBVIOUS
    <3> HIDE DEF s
    <3>3. l \in Nat /\ DOMAIN s = 1..l /\ \A i \in 1..l : s[i] \in K BY SMTT(60), <3>1
    <3> USE <3>3
    <3> DEFINE T == {Call(op, k, v) : k \in K}
    <3>4. q \in [1..l -> T] /\ \A i \in 1..l : q[i] = Call(op, s[i], v) BY <3>2
    <3> USE <3>4
    <3> HIDE DEF T, l
    <3>5. q \in Seq(T) /\ Len(q) = l BY SMTT(60)
    <3>6. Members(q) = T
      <4>1. Members(q) = {q[i] : i \in 1..l} BY <3>5 DEF Members
      <4>2. ASSUME NEW x \in Members(q) PROVE x \in T
        <5>1. PICK i \in 1..l : x = q[i] BY <4>1
        <5> QED BY <5>1
      <4>3. ASSUME NEW k \in K PROVE \E i \in 1..l : q[i] = Call(op, k, v)
        <5>1. PICK i \in 1..l : s[i] = k BY <3>1
        <5>2. q[i] = Call(op, s[i], v) OBVIOUS
        <5> QED BY <5>1, <5>2
      <4>4. ASSUME NEW x \in T PROVE x \in Members(q)
        <5>1. PICK k \in K : x = Call(op, k, v) BY <4>4 DEF T
        <5>2. PICK i \in 1..l : q[i] = Call(op, k, v) BY <4>3
        <5> QED BY <4>1, <5>1, <5>2
      <4> QED BY <4>2, <4>4
    <3>7. ASSUME NEW i \in 1..l, NEW j \in 1..l, i < j PROVE Order(q[i]) <= Order(q[j]) /\ q[i] # q[j]
      <4>1. i # j BY SMTT(60), <3>7
      <4>2. s[i] # s[j] BY <3>1, <4>1
      <4>3. q[i].key = s[i] /\ q[j].key = s[j] BY DEF Call
      <4>4. Order(q[i]) = n /\ Order(q[j]) = n OBVIOUS
      <4>5. n <= n BY SMTT(60)
      <4> QED BY <4>2, <4>3, <4>4, <4>5
    <3>8. Sorted(q) BY <3>5, <3>7 DEF Sorted
    <3> QED BY <3>6, <3>8 DEF T
  <2>DestroysSorted. ASSUME NEW K, IsFiniteSet(K), NEW n \in Nat, \A k \in K : Order(Call("remove", k, 0)) = n
                     PROVE  Sorted(Destroys(K)) /\ Members(Destroys(K)) = {Call("remove", k, 0) : k \in K}
    <3> USE <2>DestroysSorted
    <3> DEFINE q == Destroys(K)
               op == "remove"
               v == 0
    <3>1. q = [i \in DOMAIN Listing(K) |-> Call(op, Listing(K)[i], v)] BY DEF Destroys
    <3>2. \A k \in K : Order(Call(op, k, v)) = n OBVIOUS
    <3> HIDE DEF q, op, v
    <3>3. Sorted(q) /\ Members(q) = {Call(op, k, v) : k \in K} BY SMTT(60), <3>1, <3>2, <2>ListedSorted
    <3> QED BY <3>3 DEF q, op, v
  <2>StabilizedKeeps. ASSUME ManagerInv, MemGood, NEW msg \in Messages, NEW p, p = <<msg[2], msg[1]>>, pbft, up, Idle,
                             NEW e, e = [mem EXCEPT !.partial = @ \cup {p}],
                             Cardinality({x[2] : x \in {x \in e.partial : x[1] = msg[2]}} \cap Peers)
                                >= honest_member_size(Cardinality(Peers)),
                             Handled(stabilize_checkpoint(e, msg[2]).mem,
                                     (IF p \in mem.partial THEN <<>> ELSE <<Call("create", Partial(msg[2], msg[1]), msg[2])>>)
                                       \o stabilize_checkpoint(e, msg[2]).calls)
                      PROVE  ManagerInv'
    <3> USE <2>StabilizedKeeps
    <3>AfterStabilized. ASSUME NEW f, NEW m, Matches(f, {}, m), NEW w \in Evidence, NEW senders \in SUBSET Senders, Enough(senders),
                               NEW old \in SUBSET (m.partial \cup {w}), w \in old,
                               NEW n, n.local = m.local, n.proof = [s \in senders |-> n.stable], n.partial = (m.partial \cup {w}) \ old
                        PROVE  Matches(f, (IF w \in m.partial THEN {} ELSE {AddEvidence(w)})
                                             \cup {UpdateStable(n)} \cup {DropProof(s) : s \in DOMAIN m.proof}
                                             \cup {AddProof(s, n) : s \in senders} \cup {DropEvidence(q) : q \in old}, n)
      <4> USE <3>AfterStabilized
      <4> DEFINE C == (IF w \in m.partial THEN {} ELSE {AddEvidence(w)})
                         \cup {UpdateStable(n)} \cup {DropProof(s) : s \in DOMAIN m.proof}
                         \cup {AddProof(s, n) : s \in senders} \cup {DropEvidence(q) : q \in old}
      <4>0. m.partial \subseteq Evidence /\ old \subseteq Evidence /\ DOMAIN m.proof \subseteq Senders
        BY DEF Matches, Proven
      <4>1. C \subseteq ManagerCalls(n)
        <5>1. {DropProof(s) : s \in DOMAIN m.proof} \subseteq ManagerCalls(n) BY <4>0 DEF ManagerCalls
        <5>2. {AddProof(s, n) : s \in senders} \subseteq ManagerCalls(n) BY DEF ManagerCalls
        <5>3. {DropEvidence(q) : q \in old} \subseteq ManagerCalls(n) BY <4>0 DEF ManagerCalls
        <5>4. {UpdateStable(n), AddEvidence(w)} \subseteq ManagerCalls(n) BY DEF ManagerCalls
        <5> QED BY <5>1, <5>2, <5>3, <5>4
      <4>2. /\ UpdateStable(n) \in C /\ \A s \in DOMAIN m.proof : DropProof(s) \in C
            /\ \A s \in senders : AddProof(s, n) \in C
            /\ \A q \in old : DropEvidence(q) \in C
            /\ w \notin m.partial => AddEvidence(w) \in C
        OBVIOUS
      <4>3. ASSUME NEW c \in C
            PROVE  \/ c = UpdateStable(n) \/ c = AddEvidence(w) \/ (\E s \in DOMAIN m.proof : c = DropProof(s))
                   \/ (\E s \in senders : c = AddProof(s, n)) \/ (\E q \in old : c = DropEvidence(q))
        OBVIOUS
      <4> HIDE DEF C
      <4>4. UpdateLocal(n) \notin C BY <4>3, <1>CallsApart
      <4>5. ASSUME NEW s, AddProof(s, n) \in C PROVE s \in senders
        <5>1. /\ AddProof(s, n) \notin {UpdateStable(n), AddEvidence(w)}
              /\ \A t : AddProof(s, n) # DropProof(t) /\ \A q : AddProof(s, n) # DropEvidence(q)
          BY <1>CallsApart
        <5>2. PICK t \in senders : AddProof(s, n) = AddProof(t, n) BY <4>3, <4>5, <5>1
        <5> QED BY <5>2, <1>CallsApart
      <4>6. ASSUME NEW s, DropProof(s) \in C PROVE s \in DOMAIN m.proof
        <5>1. /\ DropProof(s) \notin {UpdateStable(n), AddEvidence(w)}
              /\ \A t : DropProof(s) # AddProof(t, n) /\ \A q : DropProof(s) # DropEvidence(q)
          BY <1>CallsApart
        <5>2. PICK t \in DOMAIN m.proof : DropProof(s) = DropProof(t) BY <4>3, <4>6, <5>1
        <5> QED BY <5>2, <1>CallsApart
      <4>7. ASSUME NEW q \in Evidence PROVE (DropEvidence(q) \in C => q \in old) /\ (AddEvidence(q) \in C => q = w)
        <5>1. /\ UpdateStable(n) \notin {AddEvidence(q), DropEvidence(q)}
              /\ \A t : DropProof(t) \notin {AddEvidence(q), DropEvidence(q)}
              /\ \A t : AddProof(t, n) \notin {AddEvidence(q), DropEvidence(q)}
              /\ AddEvidence(w) # DropEvidence(q) /\ \A r : AddEvidence(q) # DropEvidence(r)
          BY <1>CallsApart
        <5>2. ASSUME DropEvidence(q) \in C PROVE q \in old
          <6>1. PICK r \in old : DropEvidence(q) = DropEvidence(r) BY <4>3, <5>1, <5>2
          <6> QED BY <4>0, <6>1, <1>CallsApart
        <5>3. ASSUME AddEvidence(q) \in C PROVE q = w
          <6>1. AddEvidence(q) = AddEvidence(w) BY <4>3, <5>1, <5>3
          <6> QED BY <6>1, <1>CallsApart
        <5> QED BY <5>2, <5>3
      <4>8. /\ At(f, Local) = n.local
            /\ \A s \in Senders : Has(f, Proof(s)) <=> s \in DOMAIN m.proof
            /\ \A q \in Evidence : Has(f, Partial(q[1], q[2])) <=> q \in m.partial
        BY DEF Ends, Matches
      <4>9. DOMAIN n.proof = senders OBVIOUS
      <4>10. Ends(f, C, n)
        <5>1. ASSUME NEW s \in Senders
              PROVE  /\ AddProof(s, n) \in C =>
                           /\ s \in DOMAIN n.proof
                           /\ Has(f, Proof(s)) => At(f, Proof(s)) = n.stable \/ DropProof(s) \in C
                     /\ AddProof(s, n) \notin C /\ DropProof(s) \in C => s \notin DOMAIN n.proof
                     /\ AddProof(s, n) \notin C /\ DropProof(s) \notin C =>
                           /\ Has(f, Proof(s)) <=> s \in DOMAIN n.proof
                           /\ Has(f, Proof(s)) => At(f, Proof(s)) = n.stable
          BY <4>2, <4>5, <4>6, <4>8, <4>9
        <5>2. ASSUME NEW q \in Evidence
              PROVE  /\ DropEvidence(q) \in C => q \notin n.partial
                     /\ DropEvidence(q) \notin C /\ AddEvidence(q) \in C => q \in n.partial
                     /\ DropEvidence(q) \notin C /\ AddEvidence(q) \notin C =>
                           (Has(f, Partial(q[1], q[2])) <=> q \in n.partial)
          BY <4>2, <4>7, <4>8
        <5> QED BY <4>2, <4>4, <4>8, <5>1, <5>2 DEF Ends
      <4>11. Guarded(f, C) BY <4>2, <4>8 DEF Guarded
      <4>12. Proven(n) BY <4>9 DEF Proven
      <4>13. n.partial \subseteq Evidence BY <4>0
      <4>14. Matches(f, C, n) BY <4>1, <4>10, <4>11, <4>12, <4>13 DEF Matches
      <4> QED BY <4>14 DEF C
    <3>StabilizedCalls. ASSUME NEW n, NEW P, IsFiniteSet(P), NEW senders, IsFiniteSet(senders), NEW gone, IsFiniteSet(gone)
                        PROVE  /\ Sorted(StabilizeCalls(n, P, senders, gone))
                               /\ Members(StabilizeCalls(n, P, senders, gone)) = StabilizeSet(n, P, senders, gone)
      <4> USE <3>StabilizedCalls
      <4>CreatesSorted. ASSUME NEW K, IsFiniteSet(K), NEW v, NEW o \in Nat, \A k \in K : Order(Call("create", k, v)) = o
                        PROVE  Sorted(Creates(K, v)) /\ Members(Creates(K, v)) = {Call("create", k, v) : k \in K}
        <5> USE <4>CreatesSorted
        <5> DEFINE q == Creates(K, v)
                   op == "create"
        <5>1. q = [i \in DOMAIN Listing(K) |-> Call(op, Listing(K)[i], v)] BY DEF Creates
        <5>2. \A k \in K : Order(Call(op, k, v)) = o OBVIOUS
        <5> HIDE DEF q, op
        <5>3. IsFiniteSet(K) /\ o \in Nat OBVIOUS
        <5>4. Sorted(q) BY ONLY <5>1, <5>2, <5>3, <2>ListedSorted
        <5>5. Members(q) = {Call(op, k, v) : k \in K} BY ONLY <5>1, <5>2, <5>3, <2>ListedSorted
        <5> QED BY <5>4, <5>5 DEF q, op
      <4>JoinLater. ASSUME NEW a, NEW b, Sorted(a), Sorted(b), NEW o \in Nat,
                           \A c \in Members(a) : Order(c) \in Nat /\ Order(c) < o, \A d \in Members(b) : Order(d) = o
                    PROVE  Sorted(a \o b) /\ Members(a \o b) = Members(a) \cup Members(b)
        <5> USE <4>JoinLater
        <5>1. ASSUME NEW c \in Members(a), NEW d \in Members(b) PROVE Order(c) <= Order(d) /\ c # d BY SMTT(60)
        <5> QED BY <5>1, <2>JoinSorted
      <4> DEFINE q == StabilizeCalls(n, P, senders, gone)
                 K == {Proof(s) : s \in P}
                 L == {Proof(s) : s \in senders}
                 M == {Partial(w[1], w[2]) : w \in gone}
                 A == <<UpdateStable(n)>>
                 B == Destroys(K)
                 C == Creates(L, n.stable)
                 D == Destroys(M)
      <4>1. IsFiniteSet(K) /\ IsFiniteSet(L) /\ IsFiniteSet(M)
        <5> DEFINE h == [w \in gone |-> Partial(w[1], w[2])]
        <5>1. IsFiniteSet({h[w] : w \in DOMAIN h}) BY ImageFinite
        <5>2. {h[w] : w \in DOMAIN h} = M OBVIOUS
        <5>3. IsFiniteSet(K) /\ IsFiniteSet(L) BY FiniteParts
        <5> QED BY <5>1, <5>2, <5>3
      <4>2. Sorted(A) /\ Members(A) = {UpdateStable(n)} /\ Order(UpdateStable(n)) = 2 BY FewSorted, <1>CallOrder
      <4>3. Sorted(B) /\ Members(B) = {DropProof(s) : s \in P} /\ \A c \in Members(B) : Order(c) = 3
        <5>1. \A k \in K : Order(Call("remove", k, 0)) = 3 BY <1>CallOrder DEF DropProof
        <5> HIDE DEF K
        <5>2. 3 \in Nat BY SMTT(60)
        <5>3. Sorted(B) /\ Members(B) = {Call("remove", k, 0) : k \in K} BY <4>1, <5>1, <5>2, <2>DestroysSorted
        <5>4. {Call("remove", k, 0) : k \in K} = {DropProof(s) : s \in P} BY DEF K, DropProof
        <5> QED BY <5>1, <5>3, <5>4
      <4>4. Sorted(C) /\ Members(C) = {AddProof(s, n) : s \in senders} /\ \A c \in Members(C) : Order(c) = 4
        <5> DEFINE v == n.stable
        <5>1. \A k \in L : Order(Call("create", k, v)) = 4 BY <1>CallOrder DEF AddProof
        <5>2. {Call("create", k, v) : k \in L} = {AddProof(s, n) : s \in senders} BY DEF AddProof
        <5> HIDE DEF L, v
        <5>3. 4 \in Nat BY SMTT(60)
        <5>4. Sorted(C) /\ Members(C) = {Call("create", k, v) : k \in L} BY <4>1, <5>1, <5>3, <4>CreatesSorted DEF v
        <5> QED BY <5>1, <5>2, <5>4
      <4>5. Sorted(D) /\ Members(D) = {DropEvidence(w) : w \in gone} /\ \A c \in Members(D) : Order(c) = 5
        <5>1. \A k \in M : Order(Call("remove", k, 0)) = 5 BY <1>CallOrder DEF DropEvidence
        <5>2. {Call("remove", k, 0) : k \in M} = {DropEvidence(w) : w \in gone} BY DEF DropEvidence
        <5> HIDE DEF M
        <5>3. 5 \in Nat BY SMTT(60)
        <5>4. Sorted(D) /\ Members(D) = {Call("remove", k, 0) : k \in M} BY <4>1, <5>1, <5>3, <2>DestroysSorted
        <5> QED BY <5>1, <5>2, <5>4
      <4>6. q = ((A \o B) \o C) \o D BY DEF StabilizeCalls
      <4> HIDE DEF q
      <4> HIDE DEF A, B, C, D
      <4> DEFINE AB == A \o B
      <4>7. Sorted(AB) /\ Members(AB) = Members(A) \cup Members(B)
        <5>1. \A c \in Members(A) : Order(c) \in Nat /\ Order(c) < 3 BY SMTT(60), <4>2
        <5> QED BY <4>2, <4>3, <5>1, <4>JoinLater
      <4>8. \A c \in Members(AB) : Order(c) \in Nat /\ Order(c) < 4 BY SMTT(60), <4>2, <4>3, <4>7
      <4> HIDE DEF AB
      <4> DEFINE ABC == AB \o C
      <4>9. Sorted(ABC) /\ Members(ABC) = Members(AB) \cup Members(C) BY <4>4, <4>7, <4>8, <4>JoinLater
      <4>10. \A c \in Members(ABC) : Order(c) \in Nat /\ Order(c) < 5
        <5>4. \A c \in Members(C) : Order(c) = 4 BY <4>4
        <5>1. \A c \in Members(C) : Order(c) \in Nat /\ Order(c) < 5 BY SMTT(60), <5>4
        <5>2. \A c \in Members(AB) : Order(c) \in Nat /\ Order(c) < 5 BY SMTT(60), <4>8
        <5>3. Members(ABC) = Members(AB) \cup Members(C) BY <4>9
        <5> HIDE DEF ABC
        <5> QED BY <5>1, <5>2, <5>3
      <4> HIDE DEF ABC
      <4>11. Sorted(ABC \o D) /\ Members(ABC \o D) = Members(ABC) \cup Members(D) BY <4>5, <4>9, <4>10, <4>JoinLater
      <4>12. q = ABC \o D BY <4>6 DEF AB, ABC
      <4> QED BY <4>2, <4>3, <4>4, <4>5, <4>7, <4>9, <4>11, <4>12 DEF q, StabilizeSet
    <3> DEFINE cp == msg[2]
               P == mem.partial \cup {p}
               senders == {x[2] : x \in {x \in P : x[1] = cp}}
               old == {x \in P : x[1] <= cp}
               n == stabilize_checkpoint(e, cp).mem
               calls == stabilize_checkpoint(e, cp).calls
               c == Call("create", Partial(msg[2], msg[1]), msg[2])
               store == IF p \in mem.partial THEN <<>> ELSE <<c>>
    <3>1. phase = "idle" /\ Matches(disk.pairs, {}, mem) BY BeforeHandler
    <3>2. p \in Evidence /\ p[1] = cp /\ p[2] = msg[1] /\ cp \in Nat
      <4>1. p[1] = msg[2] /\ p[2] = msg[1] BY SMTT(60)
      <4> QED BY <4>1, <1>EvidenceKeys
    <3>3. c = AddEvidence(p) BY <3>2 DEF AddEvidence
    <3>4. DOMAIN e = {"stable", "local", "proof", "partial"} /\ e.local = mem.local /\ e.proof = mem.proof /\ e.partial = P
      BY DEF MemGood
    <3>5. P \subseteq Evidence /\ \A x \in P : x[2] \in Senders
      BY <3>1, <3>2, <1>EvidenceKeys DEF Matches
    <3>6. senders \subseteq Senders BY <3>5
    <3>7. IsFiniteSet(P) BY FS_AddElement DEF MemGood
    <3>8. IsFiniteSet(senders) /\ IsFiniteSet(old) /\ IsFiniteSet(DOMAIN mem.proof)
      <4> HIDE DEF P
      <4>1. IsFiniteSet(senders) BY <3>7, FiniteParts
      <4>2. IsFiniteSet(old) BY <3>7, FS_Subset
      <4> QED BY <4>1, <4>2 DEF MemGood
    <3>9. p \in old
      <4>1. cp <= cp BY SMTT(60), <3>2
      <4> QED BY <3>2, <4>1
    <3>10. \A s \in senders : Kept(s, cp, DOMAIN mem.proof) = cp
      <4>1. \A s \in Senders : has_priv(State, Proof(s)) <=> s \in DOMAIN mem.proof
        BY <3>1 DEF Matches, Ends, Has, has_priv
      <4> QED BY <3>6, <4>1 DEF Kept
    <3>11. Enough(senders)
      <4> DEFINE A == senders \cap Peers
      <4>1. Cardinality(A) >= honest_member_size(Cardinality(Peers)) BY <3>4
      <4> HIDE DEF senders
      <4>2. IsFiniteSet(A) /\ Cardinality(A) <= Cardinality(senders) BY <3>8, FS_Subset
      <4>3. Cardinality(A) \in Nat /\ Cardinality(senders) \in Nat BY <3>8, <4>2, FS_CardinalityType
      <4> HIDE DEF A
      <4> QED BY SMTT(60), <4>1, <4>2, <4>3, <1>MemberSize DEF Enough
    <3>12. /\ n.local = mem.local /\ n.stable = cp /\ n.proof = [s \in senders |-> Kept(s, cp, DOMAIN mem.proof)]
           /\ n.partial = P \ old
           /\ calls = <<Call("update", Stable, cp)>> \o Destroys({Proof(s) : s \in DOMAIN mem.proof})
                         \o Creates({Proof(s) : s \in senders}, cp)
                         \o Destroys({Partial(x[1], x[2]) : x \in old})
      BY <3>4 DEF stabilize_checkpoint
    <3>13. n.proof = [s \in senders |-> n.stable] BY <3>10, <3>12
    <3>14. Handled(n, store \o calls) OBVIOUS
    <3>15. old \subseteq P OBVIOUS
    <3> HIDE DEF n, calls, store, senders, old, cp, c
    <3>16. UpdateStable(n) = Call("update", Stable, cp) BY <3>12 DEF UpdateStable
    <3> DEFINE M == StabilizeSet(n, DOMAIN mem.proof, senders, old)
    <3>17. Sorted(calls) /\ Members(calls) = M
      <4>1. calls = StabilizeCalls(n, DOMAIN mem.proof, senders, old) BY <3>12, <3>16 DEF StabilizeCalls
      <4> QED BY <3>8, <4>1, <3>StabilizedCalls
    <3> DEFINE S == IF p \in mem.partial THEN {} ELSE {AddEvidence(p)}
    <3>18. Sorted(store) /\ Members(store) = S BY <3>3, FewSorted DEF store
    <3>19. Sorted(store \o calls) /\ Members(store \o calls) = S \cup M
      <4>1. \A a \in S : Order(a) = 1 /\ a = AddEvidence(p) BY <3>2, <1>CallOrder
      <4>2. \A d \in M : Order(d) \in {2, 3, 4, 5}
        <5>1. \A x \in old : Order(DropEvidence(x)) = 5 BY <1>CallOrder
        <5>2. \A s : Order(DropProof(s)) = 3 /\ Order(AddProof(s, n)) = 4 BY <1>CallOrder
        <5>3. Order(UpdateStable(n)) = 2 BY <1>CallOrder
        <5> QED BY <5>1, <5>2, <5>3 DEF StabilizeSet
      <4> HIDE DEF S, M
      <4>3. \A a \in S : \A d \in M : Order(a) <= Order(d) /\ a # d
        <5> SUFFICES ASSUME NEW a \in S, NEW d \in M PROVE Order(a) <= Order(d) /\ a # d OBVIOUS
        <5>1. Order(a) = 1 /\ Order(d) \in {2, 3, 4, 5} BY <4>1, <4>2
        <5>2. Order(a) <= Order(d) /\ Order(a) # Order(d) BY SMTT(60), <5>1
        <5> QED BY <5>2
      <4>4. \A a \in Members(store) : \A d \in Members(calls) : Order(a) <= Order(d) /\ a # d BY <3>17, <3>18, <4>3
      <4>5. Sorted(store \o calls) /\ Members(store \o calls) = Members(store) \cup Members(calls)
        BY <3>17, <3>18, <4>4, <2>JoinSorted
      <4> QED BY <3>17, <3>18, <4>5
    <3>20. Matches(disk.pairs, S \cup M, n)
      <4>1. Matches(disk.pairs, S \cup {UpdateStable(n)} \cup {DropProof(s) : s \in DOMAIN mem.proof}
                       \cup {AddProof(s, n) : s \in senders} \cup {DropEvidence(x) : x \in old}, n)
        BY <3>1, <3>2, <3>6, <3>9, <3>11, <3>12, <3>13, <3>15, <3>AfterStabilized
      <4>2. S \cup {UpdateStable(n)} \cup {DropProof(s) : s \in DOMAIN mem.proof}
               \cup {AddProof(s, n) : s \in senders} \cup {DropEvidence(x) : x \in old} = S \cup M
        <5> HIDE DEF S
        <5> QED BY DEF StabilizeSet
      <4> QED BY <4>1, <4>2
    <3> DEFINE q == store \o calls
    <3>21. Handled(n, q) /\ Sorted(q) /\ Matches(disk.pairs, Members(q), n) BY <3>14, <3>19, <3>20
    <3> HIDE DEF q
    <3> QED BY <3>1, <3>21, <1>HandledKeeps
  <2> USE <1>MessageKeeps
  <2> DEFINE p == <<got[2], got[1]>>
             e == [mem EXCEPT !.partial = @ \cup {p}]
             store == IF p \in mem.partial THEN <<>> ELSE <<Call("create", Partial(got[2], got[1]), got[2])>>
             attestants == {x[2] : x \in {x \in e.partial : x[1] = got[2]}} \cap Peers
             stabilized == stabilize_checkpoint(e, got[2])
  <2>1. pbft /\ up /\ Idle BY DEF handle_checkpoint_message
  <2>2. \/ /\ got[2] = mem.stable
           /\ Handled([mem EXCEPT !.proof = Put(@, got[1], Kept(got[1], got[2], {}))],
                      <<Call("create", Proof(got[1]), got[2])>>)
        \/ /\ Cardinality(attestants) >= honest_member_size(Cardinality(Peers))
           /\ Handled(stabilized.mem, store \o stabilized.calls)
        \/ Handled(e, store)
    BY DEF handle_checkpoint_message
  <2>3. CASE /\ got[2] = mem.stable
             /\ Handled([mem EXCEPT !.proof = Put(@, got[1], Kept(got[1], got[2], {}))],
                        <<Call("create", Proof(got[1]), got[2])>>)
    BY <2>1, <2>3, <2>SenderKeeps
  <2>4. CASE /\ Cardinality(attestants) >= honest_member_size(Cardinality(Peers))
             /\ Handled(stabilized.mem, store \o stabilized.calls)
    <3> HIDE DEF p
    <3>1. p = <<got[2], got[1]>> BY DEF p
    <3> HIDE DEF e
    <3>2. e = [mem EXCEPT !.partial = @ \cup {p}] BY DEF e
    <3> QED BY <2>1, <2>4, <3>1, <3>2, <2>StabilizedKeeps
  <2>5. CASE Handled(e, store)
    <3> HIDE DEF p
    <3>1. p = <<got[2], got[1]>> BY DEF p
    <3> QED BY <2>1, <2>5, <3>1, <2>EvidenceKeeps
  <2> QED BY <2>2, <2>3, <2>4, <2>5
<1>LocalKeeps. ASSUME ManagerInv, MemGood, NEW cp, local_checkpoint_reached(cp)
               PROVE  ManagerInv'
  <2> USE <1>LocalKeeps
  <2>AfterLocal. ASSUME NEW f, NEW m, Matches(f, {}, m), NEW n, n.stable = m.stable, n.proof = m.proof, n.partial = m.partial
                 PROVE  Matches(f, {UpdateLocal(n)}, n)
    <3> USE <2>AfterLocal
    <3> DEFINE C == {UpdateLocal(n)}
    <3>1. /\ UpdateLocal(n) \in C /\ UpdateStable(n) \notin C
          /\ \A s : AddProof(s, n) \notin C /\ DropProof(s) \notin C
          /\ \A p : AddEvidence(p) \notin C /\ DropEvidence(p) \notin C
      BY <1>CallsApart
    <3>2. C \subseteq ManagerCalls(n) BY DEF ManagerCalls
    <3>3. Guarded(f, C)
      <4>1. \A c \in C : Order(c) \notin {2, 3, 4} BY SMTT(60), <1>CallOrder
      <4> QED BY <4>1 DEF Guarded
    <3> HIDE DEF C
    <3>4. Ends(f, C, n) BY <3>1 DEF Ends, Matches
    <3>5. Proven(n) BY DEF Proven, Matches
    <3>6. Matches(f, C, n) BY <3>2, <3>3, <3>4, <3>5 DEF Matches
    <3> QED BY <3>6 DEF C
  <2> DEFINE n == [mem EXCEPT !.local = cp]
             q == <<Call("update", Local, cp)>>
  <2>1. pbft /\ up /\ Idle /\ Handled(n, q) BY DEF local_checkpoint_reached
  <2>2. n.local = cp /\ n.stable = mem.stable /\ n.proof = mem.proof /\ n.partial = mem.partial BY DEF MemGood
  <2>3. Call("update", Local, cp) = UpdateLocal(n) BY <2>2 DEF UpdateLocal
  <2>4. Sorted(q) /\ Members(q) = {UpdateLocal(n)} BY <2>3, FewSorted
  <2>5. phase = "idle" /\ Matches(disk.pairs, {}, mem) BY <2>1, BeforeHandler
  <2> HIDE DEF n, q
  <2>6. Matches(disk.pairs, Members(q), n) BY <2>2, <2>4, <2>5, <2>AfterLocal
  <2> QED BY <2>1, <2>4, <2>5, <2>6, <1>HandledKeeps
<1>CallEffects. ASSUME NEW f, NEW c, c.uuid = State, NEW g \in Store!Effects(f, c)
                PROVE  /\ c.op = "create" => /\ OnlyAt(f, g, c.key) /\ Has(g, c.key)
                                             /\ At(g, c.key) = IF Has(f, c.key) THEN At(f, c.key) ELSE c.value
                       /\ c.op = "update" /\ Has(f, c.key) =>
                             OnlyAt(f, g, c.key) /\ Has(g, c.key) /\ At(g, c.key) = c.value
                       /\ c.op = "remove" => OnlyAt(f, g, c.key) /\ ~Has(g, c.key)
  <2> USE <1>CallEffects
  <2> DEFINE x == <<State, c.key>>
  <2>0. \A j : j # c.key => <<State, j>> # x BY SMTT(60)
  <2>1. ASSUME c.op = "create" PROVE OnlyAt(f, g, c.key) /\ Has(g, c.key)
                                   /\ At(g, c.key) = IF Has(f, c.key) THEN At(f, c.key) ELSE c.value
    <3>1. g = IF x \in DOMAIN f THEN f ELSE Store!Put(f, x, c.value) BY <2>1 DEF Store!Effects
    <3>2. CASE x \in DOMAIN f BY <3>1, <3>2 DEF OnlyAt, SameAt, Has, At
    <3>3. CASE x \notin DOMAIN f
      <4>1. g = [y \in DOMAIN f \cup {x} |-> IF y = x THEN c.value ELSE f[y]] BY <3>1, <3>3 DEF Store!Put
      <4>2. DOMAIN g = DOMAIN f \cup {x} /\ g[x] = c.value /\ \A y \in DOMAIN f : y # x => g[y] = f[y] BY <4>1
      <4> HIDE DEF x
      <4> QED BY <2>0, <3>3, <4>2 DEF OnlyAt, SameAt, Has, At, x
    <3> QED BY <3>2, <3>3
  <2>2. ASSUME c.op = "update", Has(f, c.key) PROVE OnlyAt(f, g, c.key) /\ Has(g, c.key) /\ At(g, c.key) = c.value
    <3>1. g = Store!Put(f, x, c.value) BY <2>2 DEF Store!Effects, Has
    <3>2. g = [y \in DOMAIN f \cup {x} |-> IF y = x THEN c.value ELSE f[y]] BY <3>1 DEF Store!Put
    <3>3. DOMAIN g = DOMAIN f \cup {x} /\ g[x] = c.value /\ \A y \in DOMAIN f : y # x => g[y] = f[y] BY <3>2
    <3> HIDE DEF x
    <3> QED BY <2>0, <3>3 DEF OnlyAt, SameAt, Has, At, x
  <2>3. ASSUME c.op = "remove" PROVE OnlyAt(f, g, c.key) /\ ~Has(g, c.key)
    <3>1. g = Store!Without(f, {x}) BY <2>3 DEF Store!Effects
    <3>2. g = [y \in DOMAIN f \ {x} |-> f[y]] BY <3>1 DEF Store!Without
    <3>3. DOMAIN g = DOMAIN f \ {x} /\ \A y \in DOMAIN f \ {x} : g[y] = f[y] BY <3>2
    <3> HIDE DEF x
    <3> QED BY <2>0, <3>3 DEF OnlyAt, SameAt, Has, At, x
  <2> QED BY <2>1, <2>2, <2>3
<1>TailSorted. ASSUME NEW q, Sorted(q), q # <<>>, \A c \in Members(q) : Order(c) \in Nat
               PROVE  /\ Head(q) \in Members(q) /\ \A c \in Members(q) : Order(Head(q)) <= Order(c)
                      /\ Sorted(Tail(q)) /\ Members(Tail(q)) = Members(q) \ {Head(q)}
                      /\ <<Head(q)>> \o Tail(q) = q
  <2> USE <1>TailSorted
  <2> DEFINE s == Tail(q)
             n == Len(q)
             h == Head(q)
  <2>1. PICK S : q \in Seq(S) BY DEF Sorted
  <2>2. /\ n \in Nat /\ n >= 1 /\ h = q[1] /\ s \in Seq(S) /\ Len(s) = n - 1
        /\ \A i \in 1..Len(s) : s[i] = q[i + 1]
    BY SMTT(60), <2>1
  <2>3. <<h>> \o s = q BY SMTT(60), <2>1
  <2>4. /\ \A i, j \in 1..n : i < j => Order(q[i]) <= Order(q[j]) /\ q[i] # q[j]
        /\ Members(q) = {q[i] : i \in 1..n} /\ Members(s) = {s[i] : i \in 1..Len(s)}
    BY DEF Sorted, Members
  <2> HIDE DEF s, n, h
  <2>5. 1 \in 1..n /\ \A i \in 1..n : i = 1 \/ (1 < i /\ \E j \in 1..Len(s) : i = j + 1)
    <3>1. 1 \in 1..n BY SMTT(60), <2>2
    <3>2. ASSUME NEW i \in 1..n, i # 1 PROVE 1 < i /\ i - 1 \in 1..Len(s) /\ i = (i - 1) + 1 BY SMTT(60), <2>2, <3>2
    <3> QED BY <3>1, <3>2
  <2>6. \A i \in 1..Len(s) : i + 1 \in 1..n /\ 1 < i + 1 BY SMTT(60), <2>2
  <2>7. h \in Members(q) BY <2>2, <2>4, <2>5
  <2>8. \A c \in Members(q) : Order(h) <= Order(c)
    <3> SUFFICES ASSUME NEW i \in 1..n PROVE Order(h) <= Order(q[i]) BY <2>4
    <3>1. CASE i = 1
      <4>1. Order(h) \in Nat BY <2>7
      <4>2. Order(h) <= Order(h) BY SMTT(60), <4>1
      <4> QED BY <2>2, <3>1, <4>2
    <3>2. CASE i # 1 BY <2>2, <2>4, <2>5, <3>2
    <3> QED BY <3>1, <3>2
  <2>9. Members(s) = Members(q) \ {h}
    <3>1. \A i \in 1..Len(s) : s[i] = q[i + 1] /\ q[i + 1] # h BY <2>2, <2>4, <2>5, <2>6
    <3>2. \A i \in 1..n : q[i] = h \/ \E j \in 1..Len(s) : q[i] = s[j] BY <2>2, <2>5
    <3>3. ASSUME NEW x \in Members(s) PROVE x \in Members(q) /\ x # h
      <4>1. PICK i \in 1..Len(s) : x = s[i] BY <2>4
      <4>2. x = q[i + 1] /\ i + 1 \in 1..n /\ x # h BY <2>6, <3>1, <4>1
      <4> QED BY <2>4, <4>2
    <3>4. ASSUME NEW x \in Members(q), x # h PROVE x \in Members(s) BY <2>4, <3>2, <3>4
    <3> QED BY <3>3, <3>4
  <2>10. Sorted(s)
    <3>1. ASSUME NEW i \in 1..Len(s), NEW j \in 1..Len(s), i < j PROVE Order(s[i]) <= Order(s[j]) /\ s[i] # s[j]
      <4>1. i + 1 < j + 1 BY SMTT(60), <2>2, <3>1
      <4>2. i + 1 \in 1..n /\ j + 1 \in 1..n /\ s[i] = q[i + 1] /\ s[j] = q[j + 1] BY <2>2, <2>6
      <4> QED BY <2>4, <4>1, <4>2
    <3> QED BY <2>2, <3>1 DEF Sorted
  <2> QED BY <2>3, <2>7, <2>8, <2>9, <2>10 DEF s, h
(* The steps of storage under the manager.                                 *)
<1>PendingCalls. ASSUME ManagerInv, pbft, up
                 PROVE  /\ \A c \in Members(Pending) : Order(c) \in Nat /\ c.op \in {"create", "update", "remove"}
                        /\ Sorted(Pending)
  <2> USE <1>PendingCalls
  <2>1. Members(Pending) \subseteq ManagerCalls(mem) /\ Sorted(Pending) BY DEF ManagerInv, Matches
  <2>2. ASSUME NEW c \in ManagerCalls(mem)
        PROVE  Order(c) \in {0, 1, 2, 3, 4, 5} /\ c.op \in {"create", "update", "remove"}
    <3>1. \/ c = UpdateLocal(mem) \/ c = UpdateStable(mem)
          \/ (\E p \in Evidence : c = AddEvidence(p) \/ c = DropEvidence(p))
          \/ (\E s \in Senders : c = DropProof(s) \/ c = AddProof(s, mem))
      BY <2>2 DEF ManagerCalls
    <3>2. Order(c) \in {0, 1, 2, 3, 4, 5} BY <3>1, <1>CallOrder
    <3>3. c.op \in {"create", "update", "remove"} BY <3>1, <1>CallFields
    <3> QED BY <3>2, <3>3
  <2>3. \A c \in ManagerCalls(mem) : Order(c) \in Nat BY SMTT(60), <2>2
  <2> QED BY <2>1, <2>2, <2>3
(* Other clients of storage leave the manager alone.                       *)
<1>OthersKeep. ASSUME ManagerInv, ~pbft, pbft' = pbft, mem' = mem
               PROVE  ManagerInv'
  <2> USE <1>OthersKeep
  <2>1. mem'.partial \subseteq Evidence BY DEF ManagerInv
  <2>2. ~pbft' OBVIOUS
  <2> QED BY <2>1, <2>2 DEF ManagerInv
(* The call being executed is the first of the pending ones.               *)
<1>PendingHead. ASSUME CallsGood(queue), call # NoCall
                PROVE  Pending # <<>> /\ Head(Pending) = call /\ Tail(Pending) = queue
  <2> USE <1>PendingHead
  <2> DEFINE q == queue
             c == call
             p == <<c>> \o q
  <2>1. PICK S : q \in Seq(S) BY DEF CallsGood
  <2>2. Pending = p BY DEF Pending
  <2> HIDE DEF q, c
  <2>3. p # <<>> /\ Head(p) = c /\ Tail(p) = q BY SMTT(60), <2>1
  <2> QED BY <2>2, <2>3 DEF q, c
<1>WriteManager. ASSUME Inv, ManagerInv, Write, UNCHANGED <<pbft, mem, queue, up, made>>
                 PROVE  ManagerInv'
  (* What is the same when the pairs are, but for one key.                   *)
  <2>SameProof. ASSUME NEW f, NEW g, Has(f, Stable), SameAt(f, g, Stable), \A s \in Senders : SameAt(f, g, Proof(s))
                PROVE  ProvenPairs(f) => ProvenPairs(g)
    <3> USE <2>SameProof
    <3>1. StoredProof(g) = StoredProof(f) /\ At(g, Stable) = At(f, Stable) BY DEF StoredProof, SameAt
    <3>2. \A s \in StoredProof(f) : At(g, Proof(s)) = At(f, Proof(s)) BY DEF StoredProof, SameAt
    <3> QED BY <3>1, <3>2 DEF ProvenPairs
  <2>SameEvidence. ASSUME NEW f, NEW g, \A p \in Evidence : Has(f, Partial(p[1], p[2])) => Has(g, Partial(p[1], p[2]))
                   PROVE  /\ HasEvidence(f) => HasEvidence(g)
                          /\ \A C : Guarded(f, C) /\ At(g, Stable) = At(f, Stable) => Guarded(g, C)
    <3> USE <2>SameEvidence
    <3>1. HasEvidence(f) => HasEvidence(g) BY DEF HasEvidence
    <3>2. ASSUME NEW C, Guarded(f, C), At(g, Stable) = At(f, Stable) PROVE Guarded(g, C)
      BY <3>2 DEF Guarded
    <3> QED BY <3>1, <3>2
  (* A proof that is stored is finite.                                       *)
  <2>StoredProofFinite. ASSUME NEW f, IsFiniteSet(DOMAIN f)
                        PROVE  IsFiniteSet(StoredProof(f))
    <3> USE <2>StoredProofFinite
    <3> DEFINE S == StoredProof(f)
               g == [s \in S |-> <<State, Proof(s)>>]
    <3>1. \A s \in S : <<State, Proof(s)>> \in DOMAIN f BY DEF StoredProof, Has
    <3>2. \A s, t \in S : <<State, Proof(s)>> = <<State, Proof(t)>> => s = t
      <4>1. \A a, b, c, d : <<a, b>> = <<c, d>> => b = d BY SMTT(60)
      <4> QED BY <4>1, <1>KeysApart
    <3> HIDE DEF S
    <3>3. g \in [S -> DOMAIN f] BY <3>1
    <3>4. \A s, t \in S : g[s] = g[t] => s = t BY <3>2
    <3> HIDE DEF g
    <3>5. g \in Injection(S, DOMAIN f) BY <3>3, <3>4 DEF Injection, IsInjective
    <3> QED BY <3>5, FS_Injection DEF S
  <2>KnownPairs. ASSUME NEW f, NEW g, PairsKnown(f), NEW k, OnlyAt(f, g, k), Has(g, Stable), Has(g, Local),
                        \/ k \in {Stable, Local} \/ (\E s \in Senders : k = Proof(s))
                        \/ (\E p \in Evidence : k = Partial(p[1], p[2]))
                 PROVE  PairsKnown(g)
    BY <2>KnownPairs DEF PairsKnown, OnlyAt
  (* The first call that is left is written.                                 *)
  <2>WriteKeeps. ASSUME NEW f, NEW C, NEW m, Matches(f, C, m), IsFiniteSet(DOMAIN f), NEW c \in C,
                        \A d \in C : Order(c) <= Order(d), NEW g \in Store!Effects(f, c)
                 PROVE  Matches(g, C, m)
    <3> USE <2>WriteKeeps
    <3>1. PairsKnown(f) /\ Ends(f, C, m) /\ Guarded(f, C) /\ Has(f, Local) /\ Has(f, Stable) /\ c \in ManagerCalls(m)
      BY DEF Matches, PairsKnown
    <3>2. c.uuid = State BY <3>1, <1>CallFields
    <3>3. /\ c.op = "create" => /\ OnlyAt(f, g, c.key) /\ Has(g, c.key)
                                /\ At(g, c.key) = IF Has(f, c.key) THEN At(f, c.key) ELSE c.value
          /\ c.op = "update" /\ Has(f, c.key) => OnlyAt(f, g, c.key) /\ Has(g, c.key) /\ At(g, c.key) = c.value
          /\ c.op = "remove" => OnlyAt(f, g, c.key) /\ ~Has(g, c.key)
      BY <3>2, <1>CallEffects
    (* Unless it adds to the proof, a call that changes the stable checkpoint  *)
    (* or its proof is made while there is evidence.                           *)
    <3>4. ASSUME Order(c) \in {2, 3, 4}
          PROVE  HasEvidence(f) \/ (Order(c) = 4 /\ c.value = At(f, Stable))
      <4>1. ASSUME NEW p \in Evidence, AddEvidence(p) \in C PROVE FALSE
        <5>1. Order(AddEvidence(p)) = 1 /\ Order(c) <= Order(AddEvidence(p)) BY <4>1, <1>CallOrder
        <5> QED BY SMTT(60), <3>4, <5>1
      <4> QED BY <3>1, <3>4, <4>1 DEF Guarded, HasEvidence
    <3>5. CASE c = UpdateLocal(m)
      <4>1. OnlyAt(f, g, Local) /\ Has(g, Local) /\ At(g, Local) = m.local
        <5>1. c.op = "update" /\ c.key = Local /\ c.value = m.local BY <3>5, <1>CallFields
        <5> QED BY <3>1, <3>3, <5>1
      <4>2. /\ SameAt(f, g, Stable) /\ \A s \in Senders : SameAt(f, g, Proof(s))
            /\ \A p \in Evidence : SameAt(f, g, Partial(p[1], p[2]))
        BY <4>1, <1>KeysApart DEF OnlyAt
      <4>3. Has(g, Stable) /\ At(g, Stable) = At(f, Stable) BY <3>1, <4>2 DEF SameAt
      <4>4. PairsKnown(g) BY <3>1, <4>1, <4>3, <2>KnownPairs
      <4>5. Ends(g, C, m) BY <3>1, <4>1, <4>2, <4>3 DEF Ends, SameAt
      <4>6. Guarded(g, C) /\ (HasEvidence(f) => HasEvidence(g)) BY <3>1, <4>2, <4>3, <2>SameEvidence DEF SameAt
      <4>7. HasEvidence(g) \/ ProvenPairs(g) BY <3>1, <4>2, <4>6, <2>SameProof DEF Matches
      <4> QED BY <4>4, <4>5, <4>6, <4>7 DEF Matches
    <3>6. CASE c = UpdateStable(m)
      <4>1. OnlyAt(f, g, Stable) /\ Has(g, Stable)
        <5>1. c.op = "update" /\ c.key = Stable BY <3>6, <1>CallFields
        <5> QED BY <3>1, <3>3, <5>1
      <4>2. /\ SameAt(f, g, Local) /\ \A s \in Senders : SameAt(f, g, Proof(s))
            /\ \A p \in Evidence : SameAt(f, g, Partial(p[1], p[2]))
        BY <4>1, <1>KeysApart DEF OnlyAt
      <4>3. Has(g, Local) /\ At(g, Local) = At(f, Local) BY <3>1, <4>2 DEF SameAt
      <4>4. PairsKnown(g) BY <3>1, <4>1, <4>3, <2>KnownPairs
      <4>5. Ends(g, C, m) BY <3>1, <3>6, <4>2, <4>3 DEF Ends, SameAt
      <4>6. Order(c) = 2 BY <3>6, <1>CallOrder
      <4>7. Guarded(g, C)
        <5>1. \A d \in C : C = {d} => Order(d) # 4 BY SMTT(60), <4>6
        <5> QED BY <3>1, <4>2, <5>1 DEF Guarded, SameAt
      <4>8. HasEvidence(f) BY SMTT(60), <3>4, <4>6
      <4>9. HasEvidence(g) BY <4>2, <4>8, <2>SameEvidence DEF SameAt
      <4> QED BY <4>4, <4>5, <4>7, <4>9 DEF Matches
    <3>7. ASSUME NEW p \in Evidence, c = AddEvidence(p) PROVE Matches(g, C, m)
      <4>1. OnlyAt(f, g, Partial(p[1], p[2])) /\ Has(g, Partial(p[1], p[2]))
        <5>1. c.op = "create" /\ c.key = Partial(p[1], p[2]) BY <3>7, <1>CallFields
        <5> QED BY <3>3, <5>1
      <4>2. /\ SameAt(f, g, Stable) /\ SameAt(f, g, Local) /\ \A s \in Senders : SameAt(f, g, Proof(s))
            /\ \A q \in Evidence : q # p => SameAt(f, g, Partial(q[1], q[2]))
        BY <4>1, <1>KeysApart, <1>EvidenceKeys DEF OnlyAt
      <4>3. Has(g, Stable) /\ At(g, Stable) = At(f, Stable) /\ Has(g, Local) /\ At(g, Local) = At(f, Local)
        BY <3>1, <4>2 DEF SameAt
      <4>4. PairsKnown(g) BY <3>1, <4>1, <4>3, <2>KnownPairs
      <4>5. Ends(g, C, m) BY <3>1, <3>7, <4>2, <4>3 DEF Ends, SameAt
      <4>6. Guarded(g, C) BY <3>1, <4>1, <4>2, <4>3, <2>SameEvidence DEF SameAt
      <4>7. HasEvidence(g) BY <4>1 DEF HasEvidence
      <4> QED BY <4>4, <4>5, <4>6, <4>7 DEF Matches
    <3>8. ASSUME NEW p \in Evidence, c = DropEvidence(p) PROVE Matches(g, C, m)
      <4>1. OnlyAt(f, g, Partial(p[1], p[2])) /\ ~Has(g, Partial(p[1], p[2]))
        <5>1. c.op = "remove" /\ c.key = Partial(p[1], p[2]) BY <3>8, <1>CallFields
        <5> QED BY <3>3, <5>1
      <4>2. /\ SameAt(f, g, Stable) /\ SameAt(f, g, Local) /\ \A s \in Senders : SameAt(f, g, Proof(s))
            /\ \A q \in Evidence : q # p => SameAt(f, g, Partial(q[1], q[2]))
        BY <4>1, <1>KeysApart, <1>EvidenceKeys DEF OnlyAt
      <4>3. Has(g, Stable) /\ At(g, Stable) = At(f, Stable) /\ Has(g, Local) /\ At(g, Local) = At(f, Local)
        BY <3>1, <4>2 DEF SameAt
      <4>4. PairsKnown(g) BY <3>1, <4>1, <4>3, <2>KnownPairs
      <4>5. Ends(g, C, m) BY <3>1, <3>8, <4>2, <4>3 DEF Ends, SameAt
      <4>6. \A d \in C : Order(d) \notin {2, 3, 4}
        <5>1. Order(c) = 5 BY <3>8, <1>CallOrder
        <5> QED BY SMTT(60), <5>1
      <4>7. ProvenPairs(f)
        <5>1. UpdateStable(m) \notin C /\ \A s \in Senders : DropProof(s) \notin C /\ AddProof(s, m) \notin C
          BY <4>6, <1>CallOrder
        <5>2. /\ At(f, Stable) = m.stable
              /\ \A s \in Senders : /\ Has(f, Proof(s)) <=> s \in DOMAIN m.proof
                                    /\ Has(f, Proof(s)) => At(f, Proof(s)) = m.stable
          BY <3>1, <5>1 DEF Ends
        <5>3. StoredProof(f) = DOMAIN m.proof BY <5>2 DEF StoredProof, Matches, Proven
        <5>4. \A s \in StoredProof(f) : At(f, Proof(s)) = At(f, Stable) BY <5>2 DEF StoredProof
        <5> QED BY <5>2, <5>3, <5>4 DEF ProvenPairs, Matches, Proven
      <4>8. Guarded(g, C) BY <4>6 DEF Guarded
      <4>9. ProvenPairs(g) BY <3>1, <4>2, <4>7, <2>SameProof
      <4> QED BY <4>4, <4>5, <4>8, <4>9 DEF Matches
    <3>9. ASSUME NEW s \in Senders, c = DropProof(s) \/ c = AddProof(s, m) PROVE Matches(g, C, m)
      <4>1. c.key = Proof(s) /\ (c = DropProof(s) => c.op = "remove")
            /\ (c = AddProof(s, m) => c.op = "create" /\ c.value = m.stable)
        BY <3>9, <1>CallFields
      <4>2. OnlyAt(f, g, Proof(s)) BY <3>3, <3>9, <4>1
      <4>3. /\ SameAt(f, g, Local) /\ SameAt(f, g, Stable) /\ \A t \in Senders : t # s => SameAt(f, g, Proof(t))
            /\ \A p \in Evidence : SameAt(f, g, Partial(p[1], p[2]))
        BY <4>2, <1>KeysApart DEF OnlyAt
      <4>4. Has(g, Local) /\ At(g, Local) = At(f, Local) /\ Has(g, Stable) /\ At(g, Stable) = At(f, Stable)
        BY <3>1, <4>3 DEF SameAt
      <4>5. PairsKnown(g) BY <3>1, <3>9, <4>2, <4>4, <2>KnownPairs
      <4>6. Guarded(g, C) /\ (HasEvidence(f) => HasEvidence(g)) BY <3>1, <4>3, <4>4, <2>SameEvidence DEF SameAt
      <4>7. CASE c = DropProof(s)
        <5>1. ~Has(g, Proof(s)) BY <3>3, <4>1, <4>7
        <5>2. Ends(g, C, m) BY <3>1, <4>3, <4>4, <4>7, <5>1 DEF Ends, SameAt
        <5>3. Order(c) = 3 BY <4>7, <1>CallOrder
        <5>4. HasEvidence(f) BY SMTT(60), <3>4, <5>3
        <5>5. HasEvidence(g) /\ Guarded(g, C) BY <4>6, <5>4
        <5> QED BY <4>5, <5>2, <5>5 DEF Matches
      <4>8. CASE c = AddProof(s, m)
        <5>1. Order(c) = 4 /\ Order(DropProof(s)) = 3 BY <4>8, <1>CallOrder
        <5>2. DropProof(s) \notin C BY SMTT(60), <5>1
        <5>3. Has(f, Proof(s)) => At(f, Proof(s)) = m.stable BY <3>1, <4>8, <5>2 DEF Ends
        <5>4. Has(g, Proof(s)) /\ At(g, Proof(s)) = m.stable BY <3>3, <4>1, <4>8, <5>3
        <5>5. Ends(g, C, m) BY <3>1, <4>3, <4>4, <4>8, <5>4 DEF Ends, SameAt
        <5>6. ASSUME ~HasEvidence(f) PROVE ProvenPairs(g)
          <6>1. c.value = At(f, Stable) BY <3>4, <5>1, <5>6
          <6>2. m.stable = At(g, Stable) BY <4>1, <4>4, <4>8, <6>1
          <6>3. ProvenPairs(f) BY <5>6 DEF Matches
          <6>4. StoredProof(g) = StoredProof(f) \cup {s} BY <4>3, <5>4 DEF StoredProof, SameAt
          <6>5. ASSUME NEW t \in StoredProof(g), t # s PROVE At(g, Proof(t)) = At(g, Stable)
            <7>1. t \in StoredProof(f) /\ t \in Senders BY <6>4, <6>5 DEF StoredProof
            <7>2. At(g, Proof(t)) = At(f, Proof(t)) BY <4>3, <6>5, <7>1 DEF SameAt, StoredProof
            <7> QED BY <4>4, <6>3, <7>1, <7>2 DEF ProvenPairs
          <6>6. IsFiniteSet(StoredProof(f)) BY <2>StoredProofFinite
          <6>7. Enough(StoredProof(f)) => Enough(StoredProof(g)) BY <6>4, <6>6, <1>MoreIsEnough
          <6> QED BY <4>4, <5>4, <6>2, <6>3, <6>5, <6>7 DEF ProvenPairs
        <5> QED BY <4>5, <4>6, <5>5, <5>6 DEF Matches
      <4> QED BY <3>9, <4>7, <4>8
    <3> QED BY <3>1, <3>5, <3>6, <3>7, <3>8, <3>9 DEF ManagerCalls
  <2> USE <1>WriteManager
  <2>1. UNCHANGED <<pbft, mem, up, call, queue, phase>> /\ todo # <<>> BY DEF Write
  <2> USE <2>1
  <2>2. CASE pbft
    <3>1. call # NoCall /\ CallsGood(queue) /\ IsFiniteSet(DOMAIN disk.pairs)
      BY DEF Inv, StorageInv, CallGood, DisksGood, DiskGood, IsMap
    <3>2. Pending # <<>> /\ Head(Pending) = call BY <3>1, <1>PendingHead
    <3>3. up BY <2>2, <3>2 DEF ManagerInv
    <3>4. call \in Members(Pending) /\ \A c \in Members(Pending) : Order(call) <= Order(c)
      BY <2>2, <3>2, <3>3, <1>PendingCalls, <1>TailSorted
    <3>5. disk'.pairs \in Store!Effects(disk.pairs, call) BY WriteStep DEF Inv
    <3>6. Matches(disk.pairs, Members(Pending), mem) BY <2>2, <3>3 DEF ManagerInv
    <3>7. Matches(disk'.pairs, Members(Pending), mem) BY <3>1, <3>4, <3>5, <3>6, <2>WriteKeeps
    <3>8. Pending' = Pending BY DEF Pending
    <3> QED BY <2>2, <3>3, <3>7, <3>8 DEF ManagerInv
  <2>3. CASE ~pbft BY <2>3, <1>OthersKeep
  <2> QED BY <2>2, <2>3
<1>ReturnManager. ASSUME Inv, ManagerInv, Return, UNCHANGED <<pbft, mem, queue, up, made>>
                  PROVE  ManagerInv'
  (* A call that has been made can be forgotten.                             *)
  <2>ReturnKeeps. ASSUME NEW f, NEW C, NEW m, Matches(f, C, m), NEW c \in C, \A d \in C : Order(c) <= Order(d),
                         Store!Effects(f, c) = {f}
                  PROVE  Matches(f, C \ {c}, m)
    <3> USE <2>ReturnKeeps
    <3> DEFINE D == C \ {c}
    <3>1. /\ c \in ManagerCalls(m) /\ f \in Store!Effects(f, c) /\ Has(f, Local) /\ Has(f, Stable)
          /\ Ends(f, C, m) /\ Guarded(f, C)
      BY DEF Matches, PairsKnown
    <3> USE <3>1
    <3>2. c.uuid = State BY <1>CallFields
    <3>3. /\ c.op = "create" => Has(f, c.key)
          /\ c.op = "update" /\ Has(f, c.key) => At(f, c.key) = c.value
          /\ c.op = "remove" => ~Has(f, c.key)
      BY <3>2, <1>CallEffects
    <3> USE <3>3
    <3>4. D \subseteq C /\ c \notin D /\ (\A d \in C : d # c => d \in D) /\ \A d \in D : C # {d} OBVIOUS
    <3> USE <3>4
    <3> HIDE DEF D
    <3>5. ASSUME Ends(f, D, m), Guarded(f, D) PROVE Matches(f, C \ {c}, m) BY <3>5 DEF Matches, D
    <3> USE <3>5
    <3>6. CASE c = UpdateLocal(m) \/ c = UpdateStable(m)
      <4>1. /\ c = UpdateLocal(m) => c.op = "update" /\ c.key = Local /\ c.value = m.local
            /\ c = UpdateStable(m) => c.op = "update" /\ c.key = Stable /\ c.value = m.stable
        BY <1>CallFields
      <4>2. /\ UpdateLocal(m) \notin D => At(f, Local) = m.local
            /\ UpdateStable(m) \notin D => At(f, Stable) = m.stable
        BY <3>6, <4>1 DEF Ends
      <4>3. /\ \A p \in Evidence : /\ AddEvidence(p) \in D <=> AddEvidence(p) \in C
                                   /\ DropEvidence(p) \in D <=> DropEvidence(p) \in C
            /\ \A s \in Senders : /\ AddProof(s, m) \in D <=> AddProof(s, m) \in C
                                  /\ DropProof(s) \in D <=> DropProof(s) \in C
        BY <3>6, <1>CallsApart
      <4>4. Ends(f, D, m) BY <4>2, <4>3 DEF Ends
      <4>5. Guarded(f, D) BY <4>3 DEF Guarded
      <4> QED BY <4>4, <4>5
    <3>7. ASSUME NEW p \in Evidence, c = AddEvidence(p) \/ c = DropEvidence(p) PROVE Matches(f, C \ {c}, m)
      <4>1. /\ c.key = Partial(p[1], p[2]) /\ (c = AddEvidence(p) => c.op = "create")
            /\ c = DropEvidence(p) => c.op = "remove"
        BY <3>7, <1>CallFields
      <4>2. /\ UpdateLocal(m) \in D <=> UpdateLocal(m) \in C
            /\ UpdateStable(m) \in D <=> UpdateStable(m) \in C
            /\ \A q \in Evidence : q # p => /\ AddEvidence(q) \in D <=> AddEvidence(q) \in C
                                            /\ DropEvidence(q) \in D <=> DropEvidence(q) \in C
            /\ \A s \in Senders : /\ AddProof(s, m) \in D <=> AddProof(s, m) \in C
                                  /\ DropProof(s) \in D <=> DropProof(s) \in C
        BY <3>7, <1>CallsApart
      <4>3. CASE c = AddEvidence(p)
        <5>1. Has(f, Partial(p[1], p[2])) BY <4>1, <4>3
        <5>2. AddEvidence(p) \notin D /\ (DropEvidence(p) \in D <=> DropEvidence(p) \in C) BY <4>3, <1>CallsApart
        <5>3. /\ DropEvidence(p) \in C => p \notin m.partial
              /\ DropEvidence(p) \notin C => p \in m.partial
          BY <4>3 DEF Ends
        <5>4. Ends(f, D, m) BY <4>2, <5>1, <5>2, <5>3 DEF Ends
        <5>5. Guarded(f, D) BY <4>2, <5>1, <5>2 DEF Guarded
        <5> QED BY <5>4, <5>5
      <4>4. CASE c = DropEvidence(p)
        <5>1. ~Has(f, Partial(p[1], p[2])) BY <4>1, <4>4
        <5>2. \A d \in C : Order(d) \notin {1, 2, 3, 4}
          <6>1. Order(c) = 5 BY <4>4, <1>CallOrder
          <6> QED BY SMTT(60), <6>1
        <5>3. AddEvidence(p) \notin C /\ AddEvidence(p) \notin D /\ DropEvidence(p) \notin D
          BY <4>4, <5>2, <1>CallOrder
        <5>4. p \notin m.partial BY <4>4 DEF Ends
        <5>5. Ends(f, D, m) BY <4>2, <5>1, <5>3, <5>4 DEF Ends
        <5>6. Guarded(f, D) BY <5>2 DEF Guarded
        <5> QED BY <5>5, <5>6
      <4> QED BY <3>7, <4>3, <4>4
    <3>8. ASSUME NEW s \in Senders, c = DropProof(s) \/ c = AddProof(s, m) PROVE Matches(f, C \ {c}, m)
      <4>1. /\ c.key = Proof(s) /\ (c = AddProof(s, m) => c.op = "create")
            /\ c = DropProof(s) => c.op = "remove"
        <5>1. AddProof(s, m).key = Proof(s) /\ AddProof(s, m).op = "create" BY <1>CallFields
        <5>2. DropProof(s).key = Proof(s) /\ DropProof(s).op = "remove" BY <1>CallFields
        <5> QED BY <3>8, <5>1, <5>2
      <4>2. /\ UpdateLocal(m) \in D <=> UpdateLocal(m) \in C
            /\ UpdateStable(m) \in D <=> UpdateStable(m) \in C
            /\ \A q \in Evidence : /\ AddEvidence(q) \in D <=> AddEvidence(q) \in C
                                   /\ DropEvidence(q) \in D <=> DropEvidence(q) \in C
            /\ \A t \in Senders : t # s => /\ AddProof(t, m) \in D <=> AddProof(t, m) \in C
                                           /\ DropProof(t) \in D <=> DropProof(t) \in C
        BY <3>8, <1>CallsApart
      <4>3. Guarded(f, D) BY <4>2 DEF Guarded
      <4>4. CASE c = DropProof(s)
        <5>1. ~Has(f, Proof(s)) BY <4>1, <4>4
        <5>2. DropProof(s) \notin D /\ (AddProof(s, m) \in D <=> AddProof(s, m) \in C) BY <4>4, <1>CallsApart
        <5>3. AddProof(s, m) \in C <=> s \in DOMAIN m.proof BY <4>4 DEF Ends
        <5>4. Ends(f, D, m) BY <4>2, <5>1, <5>2, <5>3 DEF Ends
        <5> QED BY <4>3, <5>4
      <4>5. CASE c = AddProof(s, m)
        <5>1. Has(f, Proof(s)) BY <4>1, <4>5
        <5>2. Order(DropProof(s)) = 3 /\ Order(c) = 4 BY <4>5, <1>CallOrder
        <5>3. DropProof(s) \notin C BY SMTT(60), <5>2
        <5>4. AddProof(s, m) \notin D /\ DropProof(s) \notin D BY <4>5, <5>3
        <5>5. s \in DOMAIN m.proof /\ At(f, Proof(s)) = m.stable BY <4>5, <5>1, <5>3 DEF Ends
        <5>6. Ends(f, D, m) BY <4>2, <5>1, <5>4, <5>5 DEF Ends
        <5> QED BY <4>3, <5>6
      <4> QED BY <3>8, <4>4, <4>5
    <3> QED BY <3>6, <3>7, <3>8 DEF ManagerCalls
  <2> USE <1>ReturnManager
  <2>1. UNCHANGED <<pbft, mem, up, disk, queue, phase>> /\ call # NoCall /\ call' = NoCall BY DEF Return, Returns
  <2> USE <2>1
  <2>2. CASE pbft
    <3>1. CallsGood(queue) BY DEF Inv
    <3>2. Pending # <<>> /\ Head(Pending) = call /\ Tail(Pending) = queue BY <3>1, <1>PendingHead
    <3>3. up BY <2>2, <3>2 DEF ManagerInv
    <3>4. /\ call \in Members(Pending) /\ \A c \in Members(Pending) : Order(call) <= Order(c)
          /\ Sorted(queue) /\ Members(queue) = Members(Pending) \ {call}
      BY <2>2, <3>2, <3>3, <1>PendingCalls, <1>TailSorted
    <3>5. Store!Effects(disk.pairs, call) = {disk.pairs} BY ReturnStep DEF Inv
    <3>6. Matches(disk.pairs, Members(Pending), mem) BY <2>2, <3>3 DEF ManagerInv
    <3>7. Matches(disk.pairs, Members(Pending) \ {call}, mem) BY <3>4, <3>5, <3>6, <2>ReturnKeeps
    <3>8. Pending' = queue BY DEF Pending
    <3> QED BY <2>2, <3>3, <3>4, <3>7, <3>8 DEF ManagerInv
  <2>3. CASE ~pbft BY <2>3, <1>OthersKeep
  <2> QED BY <2>2, <2>3
(* The manager makes no snapshots.                                         *)
<1>SnapshotsKeep. ASSUME Inv, ManagerInv, create_snapshot \/ load_snapshot, UNCHANGED <<pbft, mem, queue, up, made>>
                  PROVE  ManagerInv'
  <2> USE <1>SnapshotsKeep
  <2>1. UNCHANGED <<pbft, mem>> /\ call # NoCall /\ call.op \in {"create_snapshot", "load_snapshot"}
    BY DEF create_snapshot, load_snapshot
  <2>2. CASE pbft
    <3>1. Pending # <<>> /\ Head(Pending) = call BY <2>1, <1>PendingHead DEF Inv
    <3>2. up BY <2>2, <3>1 DEF ManagerInv
    <3>3. call \in Members(Pending) BY <2>2, <3>1, <3>2, <1>PendingCalls, <1>TailSorted
    <3>4. call.op \in {"create", "update", "remove"} BY <2>2, <3>2, <3>3, <1>PendingCalls
    <3> QED BY <2>1, <3>4
  <2>3. CASE ~pbft BY <2>1, <2>3, <1>OthersKeep
  <2> QED BY <2>2, <2>3
<1>NextCallKeeps. ASSUME Inv, ManagerInv, NextCall
                  PROVE  ManagerInv'
  <2> USE <1>NextCallKeeps
  <2>1. /\ queue # <<>> /\ call = NoCall /\ call' = Head(queue) /\ queue' = Tail(queue)
        /\ UNCHANGED <<pbft, mem, up, disk, phase>>
    BY DEF NextCall, Begin
  <2> USE <2>1
  <2>2. Pending = queue BY DEF Pending
  <2>3. CASE pbft
    <3>1. up BY <2>2, <2>3 DEF ManagerInv
    <3>2. Sorted(queue) /\ \A c \in Members(queue) : Order(c) \in Nat /\ c.op \in {"create", "update", "remove"}
      BY <2>2, <2>3, <3>1, <1>PendingCalls
    <3>3. Head(queue) \in Members(queue) /\ <<Head(queue)>> \o Tail(queue) = queue
      BY <3>2, <1>TailSorted
    <3>4. call' # NoCall
      <4>1. call'.op \in {"create", "update", "remove"} BY <3>2, <3>3
      <4>2. NoCall.op = "none" BY DEF NoCall
      <4> QED BY <4>1, <4>2
    <3>5. Pending' = Pending BY <2>2, <3>3, <3>4 DEF Pending
    <3> QED BY <3>1, <3>5 DEF ManagerInv
  <2>4. CASE ~pbft BY <2>4, <1>OthersKeep
  <2> QED BY <2>3, <2>4
<1>CrashKeeps. ASSUME ManagerInv, Crash
               PROVE  ManagerInv'
  <2> USE <1>CrashKeeps
  <2>1. /\ CrashStorage /\ queue' = <<>> /\ up' = (pbft => ~init_persists_throws')
        /\ mem' = IF pbft /\ up' THEN init_persists' ELSE mem
        /\ pbft' = pbft
    BY DEF Crash
  <2> USE <2>1
  <2>2. CASE pbft
    <3>1. phase = "idle" BY <2>2 DEF ManagerInv
    <3>2. disk' = disk /\ phase' = "idle" /\ call' = NoCall BY <3>1 DEF CrashStorage
    <3> USE <3>2
    <3>3. Pending' = <<>> BY DEF Pending
    <3>4. HasEvidence(disk.pairs) \/ (up /\ PairsKnown(disk.pairs) /\ ProvenPairs(disk.pairs))
      BY <2>2 DEF ManagerInv, Matches
    <3>5. (HasEvidence(disk.pairs) => init_persists_throws)' BY EvidenceThrows, PTL
    <3>6. (PairsKnown(disk.pairs) /\ init_persists_throws => HasEvidence(disk.pairs))' BY EvidenceThrows, PTL
    <3>7. (PairsKnown(disk.pairs) /\ ProvenPairs(disk.pairs) /\ ~HasEvidence(disk.pairs)
              => Matches(disk.pairs, {}, init_persists))'
      BY RereadMatches, PTL
    <3>8. CASE HasEvidence(disk.pairs)
      <4>1. HasEvidence(disk'.pairs) BY <3>8
      <4>2. ~up' BY <2>2, <3>5, <4>1
      <4>3. mem' = mem BY <4>2
      <4> QED BY <3>3, <4>1, <4>2, <4>3 DEF ManagerInv
    <3>9. CASE ~HasEvidence(disk.pairs)
      <4>1. PairsKnown(disk'.pairs) /\ ProvenPairs(disk'.pairs) /\ ~HasEvidence(disk'.pairs) BY <3>4, <3>9
      <4>2. up' BY <3>6, <4>1
      <4>3. mem' = init_persists' BY <2>2, <4>2
      <4>4. Matches(disk'.pairs, {}, mem') BY <3>7, <4>1, <4>3
      <4>5. Sorted(Pending') /\ Members(Pending') = {} BY <3>3, FewSorted
      <4>6. mem'.partial \subseteq Evidence BY <4>4 DEF Matches
      <4> QED BY <4>2, <4>4, <4>5, <4>6 DEF ManagerInv
    <3> QED BY <3>8, <3>9
  <2>3. CASE ~pbft BY <2>3, <1>OthersKeep
  <2> QED BY <2>2, <2>3
<1>InitManager. Init => ManagerInv
  <2> SUFFICES ASSUME Init PROVE ManagerInv OBVIOUS
  <2>1. /\ call = NoCall /\ queue = <<>> /\ phase = "idle" /\ up
        /\ mem = [stable |-> 0, local |-> 0, proof |-> NoEntries, partial |-> {}]
        /\ pbft => disk = FirstDisk
    BY DEF Init, RocksInit
  <2> USE <2>1
  <2>2. mem.stable = 0 /\ mem.local = 0 /\ mem.partial = {} /\ mem.proof = NoEntries OBVIOUS
  <2> USE <2>2
  <2>3. Pending = <<>> BY DEF Pending
  <2>4. ASSUME pbft PROVE Matches(disk.pairs, {}, mem)
    <3> DEFINE f == disk.pairs
               a == <<State, Stable>>
               b == <<State, Local>>
    <3>1. f = [x \in {a, b} |-> 0]
      <4>1. FirstDisk.pairs = [x \in {a, b} |-> 0] BY DEF FirstDisk
      <4> QED BY <2>4, <4>1
    <3>2. Has(f, Stable) /\ Has(f, Local) /\ At(f, Stable) = 0 /\ At(f, Local) = 0 BY <3>1 DEF Has, At
    <3>3. \A k : Has(f, k) => k = Stable \/ k = Local
      <4> SUFFICES ASSUME NEW k, Has(f, k) PROVE k = Stable \/ k = Local OBVIOUS
      <4>1. <<State, k>> \in {a, b} BY <3>1 DEF Has
      <4> QED BY SMTT(60), <4>1
    <3>4. PairsKnown(f) BY <3>1, <3>2 DEF PairsKnown
    <3> HIDE DEF f
    <3>5. \A s : ~Has(f, Proof(s)) BY <3>3, <1>KeysApart
    <3>6. \A c, s : ~Has(f, Partial(c, s)) BY <3>3, <1>KeysApart
    <3>7. DOMAIN mem.proof = {} /\ mem.proof = [s \in DOMAIN mem.proof |-> mem.stable] BY DEF NoEntries
    <3>8. Proven(mem) BY <3>7 DEF Proven
    <3>9. Ends(f, {}, mem) BY <3>2, <3>5, <3>6, <3>7 DEF Ends
    <3>10. Guarded(f, {}) BY DEF Guarded
    <3>11. ProvenPairs(f) BY <3>2, <3>5 DEF ProvenPairs, StoredProof
    <3>12. Matches(f, {}, mem) BY <3>4, <3>8, <3>9, <3>10, <3>11 DEF Matches
    <3> QED BY <3>12 DEF f
  <2> QED BY <2>3, <2>4, FewSorted DEF ManagerInv
<1>StepManager. Inv /\ ManagerInv /\ [Next]_vars => ManagerInv'
  <2> SUFFICES ASSUME Inv, ManagerInv, [Next]_vars PROVE ManagerInv' OBVIOUS
  <2>0. MemGood BY DEF Inv
  <2>1. ASSUME NEW m \in Messages, handle_checkpoint_message(m[1], m[2]) PROVE ManagerInv'
    BY <2>0, <2>1, <1>MessageKeeps
  <2>2. ASSUME NEW m \in Messages, local_checkpoint_reached(m[2]) PROVE ManagerInv'
    BY <2>0, <2>2, <1>LocalKeeps
  <2>3. CASE NextCall BY <2>3, <1>NextCallKeeps
  <2>4. CASE OtherCall
    <3>1. ~pbft /\ pbft' = pbft /\ mem' = mem BY <2>4 DEF OtherCall
    <3> QED BY <3>1, <1>OthersKeep
  <2>5. CASE StorageWorks
    <3>1. UNCHANGED <<pbft, mem, queue, up, made>> /\ (Write \/ Return \/ create_snapshot \/ load_snapshot)
      BY <2>5 DEF StorageWorks, StorageStep
    <3> QED BY <3>1, <1>WriteManager, <1>ReturnManager, <1>SnapshotsKeep
  <2>6. CASE Crash BY <2>6, <1>CrashKeeps
  <2>7. CASE UNCHANGED vars
    <3>1. UNCHANGED <<disk, call, phase, pbft, mem, queue, up>> BY <2>7 DEF vars, rocksVars
    <3>2. Pending' = Pending BY <3>1 DEF Pending
    <3> QED BY <3>1, <3>2 DEF ManagerInv
  <2> QED BY <2>1, <2>2, <2>3, <2>4, <2>5, <2>6, <2>7 DEF Next
<1>1. Init => Inv /\ ManagerInv BY InitInv, <1>InitManager
<1>2. (Inv /\ ManagerInv) /\ [Next]_vars => (Inv /\ ManagerInv)' BY StepInv, <1>StepManager
<1> QED BY <1>1, <1>2, PTL DEF Spec

-----------------------------------------------------------------------------
(* However load_snapshot ends, it leaves neither the old database nor the  *)
(* temporary file behind, as long as no crash came during one.             *)
THEOREM LoadCleansUpTheorem == Spec => []LoadCleansUp
<1>1. Inv => LoadCleansUp BY DEF Inv, StorageInv, CleanedUp, LoadCleansUp
<1> QED BY <1>1, InitInv, StepInv, PTL DEF Spec

(* rocksdb_storage implements DurableStore: whatever its clients call and  *)
(* wherever the process dies, the pairs are as before the call or as after *)
(* it, and what has returned stays.                                        *)
THEOREM ImplementsStoreTheorem == Spec => ImplementsStore
<1>1. Init => Store!Init BY DEF Init, RocksInit, Store!Init
<1>2. Inv /\ [Next]_vars => [Store!Next]_<<Content, call, acked>> BY StepInv DEF StoreStep
<1> QED BY <1>1, <1>2, InitInv, StepInv, PTL DEF Spec, ImplementsStore, Store!Spec

(* What the manager has in memory is a record throughout.                  *)
MemRecord == mem = [x \in DOMAIN mem |-> mem[x]]

LEMMA MemRecordAlways == Spec => []MemRecord
<1>1. Init => MemRecord
  <2> DEFINE n == [stable |-> 0, local |-> 0, proof |-> NoEntries, partial |-> {}]
  <2>1. n = [x \in DOMAIN n |-> n[x]] OBVIOUS
  <2> HIDE DEF n
  <2>2. Init => mem = n BY DEF Init, n
  <2> QED BY <2>1, <2>2 DEF MemRecord
<1>2. MemRecord /\ [Next]_vars => MemRecord'
  <2> SUFFICES ASSUME MemRecord, [Next]_vars PROVE MemRecord' OBVIOUS
  <2>1. CASE UNCHANGED mem BY <2>1 DEF MemRecord
  <2>2. CASE \E cp : mem' = [mem EXCEPT !.local = cp] BY <2>2 DEF MemRecord
  <2>3. CASE \E p : mem' = [mem EXCEPT !.proof = p] BY <2>3 DEF MemRecord
  <2>4. CASE \E p : mem' = [mem EXCEPT !.partial = p] BY <2>4 DEF MemRecord
  <2>5. ASSUME NEW m, NEW cp, mem' = stabilize_checkpoint(m, cp).mem PROVE MemRecord'
    <3>1. \E p, e : mem' = [m EXCEPT !.stable = cp, !.proof = p, !.partial = e]
      BY <2>5 DEF stabilize_checkpoint
    <3> QED BY <3>1 DEF MemRecord
  <2>6. CASE mem' = init_persists'
    <3>1. (init_persists = [x \in DOMAIN init_persists |-> init_persists[x]])' BY DEF init_persists
    <3> QED BY <2>6, <3>1 DEF MemRecord
  <2>7. ASSUME NEW s, NEW cp, handle_checkpoint_message(s, cp)
        PROVE  \/ \E p : mem' = [mem EXCEPT !.proof = p]
               \/ \E p : mem' = [mem EXCEPT !.partial = p]
               \/ \E m : mem' = stabilize_checkpoint(m, cp).mem
    BY <2>7 DEF handle_checkpoint_message, Handled
  <2>8. ASSUME NEW cp, local_checkpoint_reached(cp) PROVE \E c : mem' = [mem EXCEPT !.local = c]
    BY <2>8 DEF local_checkpoint_reached, Handled
  <2>9. CASE NextCall \/ OtherCall \/ StorageWorks \/ UNCHANGED vars
    BY <2>1, <2>9 DEF NextCall, OtherCall, StorageWorks, vars
  <2>10. CASE Crash BY <2>1, <2>6, <2>10 DEF Crash
  <2> QED BY <2>2, <2>3, <2>4, <2>5, <2>7, <2>8, <2>9, <2>10 DEF Next
<1> QED BY <1>1, <1>2, PTL DEF Spec

(* After every handler of the manager, also after crashes inside earlier   *)
(* ones, init_persists would throw if the manager holds evidence, and      *)
(* otherwise read back exactly what is in memory, for any peers, messages  *)
(* and crashes: storage has no evidence but the manager's.                 *)
THEOREM RestartFindsMemoryTheorem == Spec => []RestartFindsMemory
<1>1. Inv /\ ManagerInv /\ MemRecord => RestartFindsMemory
  <2> SUFFICES ASSUME Inv, ManagerInv, MemRecord, pbft, up, Idle
               PROVE  IF mem.partial = {}
                      THEN ~init_persists_throws /\ init_persists = mem
                      ELSE init_persists_throws
    BY DEF RestartFindsMemory
  <2>1. Matches(disk.pairs, {}, mem) BY BeforeHandler
  <2>2. PairsKnown(disk.pairs) /\ Proven(mem) /\ Ends(disk.pairs, {}, mem) /\ mem.partial \subseteq Evidence
    BY <2>1 DEF Matches
  <2> USE <2>2
  <2>3. DOMAIN mem = {"stable", "local", "proof", "partial"} BY DEF Inv, MemGood
  <2>4. init_persists = [mem EXCEPT !.partial = {}]
    <3> DEFINE i == init_persists
               n == [mem EXCEPT !.partial = {}]
    <3>1. \A s \in Senders : Has(disk.pairs, Proof(s)) <=> s \in DOMAIN mem.proof BY DEF Ends
    <3>2. StoredProof(disk.pairs) = DOMAIN mem.proof BY <3>1 DEF StoredProof, Proven
    <3>3. i.stable = mem.stable /\ i.local = mem.local /\ i.partial = {}
      BY DEF init_persists, Ends, Stored, At
    <3>4. i.proof = mem.proof
      <4>1. i.proof = [s \in DOMAIN mem.proof |-> At(disk.pairs, Proof(s))]
        BY <3>2, ProofKeys DEF init_persists, Stored, At
      <4>2. \A s \in DOMAIN mem.proof : At(disk.pairs, Proof(s)) = mem.stable
        BY <3>1 DEF Ends, Proven
      <4>3. mem.proof = [s \in DOMAIN mem.proof |-> mem.stable] BY DEF Proven
      <4> QED BY <4>1, <4>2, <4>3
    <3>5. n.stable = mem.stable /\ n.local = mem.local /\ n.proof = mem.proof /\ n.partial = {} BY <2>3
    <3>6. DOMAIN i = {"stable", "local", "proof", "partial"} /\ DOMAIN n = DOMAIN i BY <2>3 DEF init_persists
    <3>7. i = [x \in DOMAIN i |-> i[x]] BY DEF init_persists
    <3>8. n = [x \in DOMAIN n |-> n[x]] OBVIOUS
    <3> HIDE DEF i, n
    <3>9. \A x \in DOMAIN i : i[x] = n[x] BY <3>3, <3>4, <3>5, <3>6
    <3>10. i = n BY <3>6, <3>7, <3>8, <3>9
    <3> QED BY <3>10 DEF i, n
  <2>5. StoredKeys("partial") = {Partial(p[1], p[2]) : p \in mem.partial}
    <3>1. \A p \in Evidence : Has(disk.pairs, Partial(p[1], p[2])) <=> p \in mem.partial BY DEF Ends
    <3>2. ASSUME NEW k \in StoredKeys("partial") PROVE \E p \in mem.partial : k = Partial(p[1], p[2])
      <4>1. k[1] = "partial" /\ \E x \in DOMAIN disk.pairs : x[1] = State /\ x[2] = k BY KeysStored
      <4>2. PICK x \in DOMAIN disk.pairs : x[1] = State /\ x[2] = k BY <4>1
      <4>3. PICK p \in Evidence : x = <<State, Partial(p[1], p[2])>> BY <4>1, <4>2, PartialKey
      <4>4. <<State, Partial(p[1], p[2])>>[2] = Partial(p[1], p[2]) BY SMTT(60)
      <4>5. k = Partial(p[1], p[2]) /\ p \in mem.partial BY <3>1, <4>2, <4>3, <4>4 DEF Has
      <4> QED BY <4>5
    <3>3. ASSUME NEW p \in mem.partial PROVE Partial(p[1], p[2]) \in StoredKeys("partial")
      <4> DEFINE k == Partial(p[1], p[2])
                 x == <<State, k>>
      <4>1. k[1] = "partial" BY SMTT(60), KeyFacts
      <4>2. x \in DOMAIN disk.pairs BY <3>1 DEF Has
      <4> HIDE DEF k
      <4>3. x[1] = State /\ x[2] = k BY SMTT(60)
      <4> HIDE DEF x
      <4>4. k \in StoredKeys("partial") BY <4>1, <4>2, <4>3, KeysStored
      <4> QED BY <4>4 DEF k
    <3> QED BY <3>2, <3>3
  <2>6. init_persists_throws <=> mem.partial # {} BY <2>5 DEF init_persists_throws
  <2>7. mem.partial = {} => [mem EXCEPT !.partial = {}] = mem
    BY <2>3 DEF MemRecord
  <2> QED BY <2>4, <2>6, <2>7
<1> QED BY <1>1, ManagerAlways, MemRecordAlways, PTL

(* The proof that the manager has is of its stable checkpoint and from     *)
(* honest_member_size senders, also after a crash between the writes that  *)
(* stabilize_checkpoint makes, for any peers, messages and crashes.        *)
THEOREM ProofMatchesStableTheorem == Spec => []ProofMatchesStable
<1>1. Inv /\ ManagerInv => ProofMatchesStable
  <2> SUFFICES ASSUME ManagerInv, pbft, up, Idle, mem.stable # 0
               PROVE  /\ \A s \in DOMAIN mem.proof : mem.proof[s] = mem.stable
                      /\ Cardinality(DOMAIN mem.proof) >= honest_member_size(Cardinality(Peers))
    BY DEF ProofMatchesStable
  <2>1. Matches(disk.pairs, {}, mem) BY BeforeHandler
  <2>2. Proven(mem) BY <2>1 DEF Matches
  <2> QED BY <2>2 DEF Proven, Enough
<1> QED BY <1>1, ManagerAlways, PTL

=============================================================================
