------------------------ MODULE StorageSizes_proofs ------------------------
(***************************************************************************)
(* The sizes that rocksdb_storage keeps by difference: they fit, and they  *)
(* are those of the pairs, for any uuids, keys, values and sizes, any      *)
(* number of calls and crashes, and any snapshot loaded; and with them the *)
(* types of rocksdb_storage and of the checkpoint manager.                 *)
(***************************************************************************)
EXTENDS CheckpointStore_proofs, SumTheorems

USE ZenonT(60)

(* The sizes.  Own has the pairs of a uuid, Sized their sizes, Total the   *)
(* sum that the metadata of the uuid should have.                          *)
Own(d, u) == {x \in DOMAIN d.pairs : x[1] = u}
Sized(d, u) == [x \in Own(d, u) |-> SizeOf(x[2], d.pairs[x])]
Total(d, u) == SumFunctionOnSet(Sized(d, u), Own(d, u))
Rest(d, u, x) == SumFunctionOnSet(Sized(d, u), Own(d, u) \ {x})
KeySizes(d, u) == {x \in DOMAIN d.ks : x[1] = u}
Counted(d, u) ==
    /\ get_metadata_size(d.ns, u) = Total(d, u) % Word
    /\ KeySizes(d, u) = Own(d, u)
    /\ \A x \in Own(d, u) : d.ks[x] = SizeOf(x[2], d.pairs[x])
CountedBut(d, R) == \A u : u \notin R => Counted(d, u)

SizesFit(d) == (\A u \in DOMAIN d.ns : Fits(d.ns[u])) /\ \A x \in DOMAIN d.ks : Fits(d.ks[x])

LEMMA FitsInt == /\ \A n : Fits(n) => n \in Int /\ n \in Nat
                 /\ Fits(0) /\ \A n \in Int : Fits(n % Word)
                 /\ 0 % Word = 0
<1>1. Word \in Nat \ {0} BY WordAssumption
<1> USE <1>1
<1>2. ASSUME NEW n, Fits(n) PROVE n \in Int /\ n \in Nat BY SMTT(60), <1>2 DEF Fits
<1>3. Fits(0) BY SMTT(60) DEF Fits
<1>4. ASSUME NEW n \in Int PROVE Fits(n % Word) BY SMTT(60) DEF Fits
<1>5. 0 % Word = 0 BY SMTT(60)
<1> QED BY <1>2, <1>3, <1>4, <1>5

LEMMA SizedFacts ==
    ASSUME NEW d, NEW u
    PROVE  /\ DOMAIN Sized(d, u) = Own(d, u)
           /\ \A x \in Own(d, u) : Sized(d, u)[x] = SizeOf(x[2], d.pairs[x])
           /\ DiskGood(d) => IsFiniteSet(Own(d, u))
<1>1. DiskGood(d) => IsFiniteSet(Own(d, u)) BY FS_Subset DEF DiskGood, IsMap, Own
<1> QED BY <1>1 DEF Sized

(* A uuid none of whose pairs and sizes changes.                           *)
LEMMA CountedElse ==
    ASSUME NEW d, NEW e, NEW u, DiskGood(d), Counted(d, u),
           Own(e, u) = Own(d, u), \A x \in Own(d, u) : e.pairs[x] = d.pairs[x],
           get_metadata_size(e.ns, u) = get_metadata_size(d.ns, u),
           KeySizes(e, u) = KeySizes(d, u), \A x \in Own(d, u) : e.ks[x] = d.ks[x]
    PROVE  Counted(e, u)
<1>1. SameOn(Sized(e, u), Sized(d, u), Own(d, u))
  <2>1. ASSUME NEW y \in Own(d, u) PROVE Sized(e, u)[y] = Sized(d, u)[y]
    <3>1. y \in Own(e, u) /\ e.pairs[y] = d.pairs[y] OBVIOUS
    <3>2. Sized(e, u)[y] = SizeOf(y[2], e.pairs[y]) BY <3>1, SizedFacts
    <3>3. Sized(d, u)[y] = SizeOf(y[2], d.pairs[y]) BY SizedFacts
    <3> QED BY <3>1, <3>2, <3>3
  <2> QED BY <2>1 DEF SameOn
<1>2. Total(e, u) = Total(d, u)
  <2> DEFINE f == Sized(e, u)
             g == Sized(d, u)
             S == Own(d, u)
  <2>1. IsFiniteSet(S) BY SizedFacts
  <2>2. SameOn(f, g, S) BY <1>1
  <2> HIDE DEF f, g, S
  <2>3. SumFunctionOnSet(f, S) = SumFunctionOnSet(g, S) BY <2>1, <2>2, SumSame
  <2> QED BY <2>3 DEF f, g, S, Total
<1> QED BY <1>2 DEF Counted

SameBut(d, e, u, x) ==
    /\ Own(e, u) \ {x} = Own(d, u) \ {x}
    /\ \A y \in Own(d, u) \ {x} : e.pairs[y] = d.pairs[y]
(* A uuid of which nothing is left.                                        *)
LEMMA CountedEmpty ==
    ASSUME NEW d, NEW u, Own(d, u) = {}, KeySizes(d, u) = {}, u \notin DOMAIN d.ns
    PROVE  Counted(d, u)
<1>1. Total(d, u) = 0
  <2> DEFINE f == Sized(d, u)
  <2>1. Total(d, u) = SumFunctionOnSet(f, {}) BY DEF Total
  <2> HIDE DEF f
  <2> QED BY <2>1, SumEmpty
<1>2. get_metadata_size(d.ns, u) = 0 BY DEF get_metadata_size
<1> QED BY <1>1, <1>2, FitsInt DEF Counted

-----------------------------------------------------------------------------
(* A call that has still to do the writes q on the database d leaves the   *)
(* sizes counted: those of up to three writes together, ...                *)
OneSized(d, q, R) ==
    /\ \/ q = <<>> /\ CountedBut(d, R)
       \/ Len(q) = 1 /\ CountedBut(Apply(d, q[1]), R)
       \/ Len(q) = 2 /\ CountedBut(Apply(Apply(d, q[1]), q[2]), R)
       \/ Len(q) = 3 /\ CountedBut(Apply(Apply(Apply(d, q[1]), q[2]), q[3]), R)
    /\ q # <<>> /\ q[1].area = "pairs" => CountedBut(d, R)

(* ... and deletes of everything that a uuid u has.                        *)
Covers(q, area, Y) == \A y \in Y : \E i \in 1..Len(q) : q[i].area = area /\ y \in q[i].at
DeletesOf(q, u) ==
    \A i \in 1..Len(q) :
        ~q[i].put /\ \A y \in q[i].at : IF q[i].area = "ns" THEN y = u ELSE y[1] = u
EachSized(d, q, u, R) ==
    /\ \A v : v \notin R /\ v # u => Counted(d, v)
    /\ DeletesOf(q, u)
    /\ Covers(q, "pairs", Own(d, u)) /\ Covers(q, "ks", KeySizes(d, u))
    /\ Covers(q, "ns", DOMAIN d.ns \cap {u})
SizesLeft(d, q, c, R) ==
    IF c.op = "remove_uuid" THEN EachSized(d, q, c.uuid, R) ELSE OneSized(d, q, R)

(* The values that are written as sizes fit                                *)
WritesFit(q) == \A i \in 1..Len(q) : q[i].put /\ q[i].area # "pairs" => Fits(q[i].value)
CallFits(c, R) ==
    /\ c.op \in {"create", "update"} => Fits(SizeOf(c.key, c.value))
    /\ c.op = "remove_range" => c.uuid \in R

(* A write, on each area.                                                  *)
LEMMA ApplyPairs ==
    ASSUME NEW d, DiskGood(d), NEW w, w.area = "pairs", NEW e, e = Apply(d, w)
    PROVE  DiskGood(e) /\ e.pairs = Effect(d.pairs, w) /\ e.ns = d.ns /\ e.ks = d.ks
<1>1. w.area \in Areas BY DEF Areas
<1>2. DiskGood(e) BY <1>1, ApplyFacts
<1> QED BY SMTT(60), <1>2 DEF Apply, Effect, DiskGood, Areas

LEMMA ApplyNs ==
    ASSUME NEW d, DiskGood(d), NEW w, w.area = "ns", NEW e, e = Apply(d, w)
    PROVE  DiskGood(e) /\ e.pairs = d.pairs /\ e.ns = Effect(d.ns, w) /\ e.ks = d.ks
<1>1. w.area \in Areas BY DEF Areas
<1>2. DiskGood(e) BY <1>1, ApplyFacts
<1> QED BY SMTT(60), <1>2 DEF Apply, Effect, DiskGood, Areas

LEMMA ApplyKs ==
    ASSUME NEW d, DiskGood(d), NEW w, w.area = "ks", NEW e, e = Apply(d, w)
    PROVE  DiskGood(e) /\ e.pairs = d.pairs /\ e.ns = d.ns /\ e.ks = Effect(d.ks, w)
<1>1. w.area \in Areas BY DEF Areas
<1>2. DiskGood(e) BY <1>1, ApplyFacts
<1> QED BY SMTT(60), <1>2 DEF Apply, Effect, DiskGood, Areas

(* Another uuid, when only entries of u are written.                       *)
Alike(f, g, z) ==
    /\ \A y : y[1] = z => (y \in DOMAIN g <=> y \in DOMAIN f)
    /\ \A y \in DOMAIN f : y[1] = z => g[y] = f[y]

LEMMA AlikeElse ==
    ASSUME NEW d, NEW e, NEW z, DiskGood(d), Counted(d, z),
           Alike(d.pairs, e.pairs, z), Alike(d.ks, e.ks, z),
           get_metadata_size(e.ns, z) = get_metadata_size(d.ns, z)
    PROVE  Counted(e, z)
<1>1. Own(e, z) = Own(d, z) /\ \A y \in Own(d, z) : e.pairs[y] = d.pairs[y]
  BY DEF Own, Alike
<1>2. KeySizes(e, z) = KeySizes(d, z) /\ \A y \in KeySizes(d, z) : e.ks[y] = d.ks[y]
  BY DEF KeySizes, Alike
<1>3. \A y \in Own(d, z) : e.ks[y] = d.ks[y] BY <1>2 DEF Counted
<1> QED BY <1>1, <1>2, <1>3, CountedElse

(* The writes that Begin plans.                                            *)
LEMMA NoWrites == ASSUME NEW d, NEW R PROVE WritesFit(<<>>) /\ (CountedBut(d, R) => OneSized(d, <<>>, R))
<1>1. Len(<<>>) = 0 /\ 1..0 = {} BY SMTT(60)
<1> QED BY <1>1 DEF WritesFit, OneSized

LEMMA EachDone ==
    ASSUME NEW d, NEW u, NEW R, EachSized(d, <<>>, u, R)
    PROVE  CountedBut(d, R)
<1>1. \A i : i \notin 1..Len(<<>>) BY SMTT(60)
<1>2. Own(d, u) = {} /\ KeySizes(d, u) = {} /\ u \notin DOMAIN d.ns
  BY <1>1 DEF EachSized, Covers
<1>3. Counted(d, u) BY <1>2, CountedEmpty
<1> QED BY <1>3 DEF EachSized, CountedBut

-----------------------------------------------------------------------------
(* The sizes in the database and in its copies fit, and unless a crash     *)
(* came between the writes of a call they are counted, or will be when the *)
(* writes of the call are done.                                            *)
Copied(d) ==
    \/ d \in backup
    \/ \E f \in snap \cup tmp : d = f.disk
    \/ call.op = "load_snapshot" /\ d = call.data.disk
Right(d) == SizesFit(d) /\ (clean => CountedBut(d, Ranged))
AtMostOne(S) == S = {} \/ \E x : S = {x}
DiskSized ==
    IF call.op \in WriteOps THEN SizesLeft(disk, todo, call, Ranged)
    ELSE phase # "failed" => CountedBut(disk, Ranged)
SizeInv ==
    /\ SizesFit(disk) /\ WritesFit(todo) /\ (clean => DiskSized)
    /\ \A d : Copied(d) => Right(d)
    /\ \A f \in snap \cup tmp : f.whole \in BOOLEAN
    /\ call.op = "load_snapshot" => call.data.whole \in BOOLEAN
    /\ AtMostOne(backup) /\ AtMostOne(snap) /\ AtMostOne(tmp)

LEMMA EmptyCounted == SizesFit(EmptyDisk) /\ CountedBut(EmptyDisk, Ranged)
<1>1. \A u : Counted(EmptyDisk, u)
  <2>1. ASSUME NEW u PROVE Own(EmptyDisk, u) = {} /\ KeySizes(EmptyDisk, u) = {} /\ u \notin DOMAIN EmptyDisk.ns
    BY DEF EmptyDisk, NoEntries, Own, KeySizes
  <2> QED BY <2>1, CountedEmpty
<1>2. SizesFit(EmptyDisk) BY DEF SizesFit, EmptyDisk, NoEntries
<1> QED BY <1>1, <1>2 DEF CountedBut

LEMMA EmptyRight == Right(EmptyDisk)
<1> QED BY EmptyCounted DEF Right

LEMMA PartsFit ==
    ASSUME NEW d, DiskGood(d), SizesFit(d), NEW e \in Parts(d)
    PROVE  SizesFit(e)
<1>1. CASE e = EmptyDisk BY <1>1, EmptyRight DEF Right
<1>2. CASE e # EmptyDisk
  <2>1. PICK X : e = [d EXCEPT !.pairs = Without(@, X)] BY <1>2 DEF Parts
  <2>2. e.ns = d.ns /\ e.ks = d.ks BY SMTT(60), <2>1 DEF DiskGood, Areas
  <2> QED BY <2>2 DEF SizesFit
<1> QED BY <1>1, <1>2

(* A call begins.                                                          *)
LEMMA BeginSizes ==
    \A c : /\ StorageInv /\ SizeInv /\ c.op \in Ops /\ CallFits(c, Ranged) /\ Begin(c)
           /\ c.op = "load_snapshot" => Right(c.data.disk) /\ c.data.whole \in BOOLEAN
        => SizeInv'
(* The sum with and without a pair.                                        *)
<1>TotalIs. ASSUME NEW d, NEW u, NEW x, DiskGood(d), \A y \in Own(d, u) : Fits(Sized(d, u)[y])
            PROVE  /\ Total(d, u) \in Int /\ Rest(d, u, x) \in Int
                   /\ x \in Own(d, u) => Total(d, u) = Sized(d, u)[x] + Rest(d, u, x)
                   /\ x \notin Own(d, u) => Total(d, u) = Rest(d, u, x)
  <2> USE <1>TotalIs
  <2> DEFINE f == Sized(d, u)
             S == Own(d, u)
             T == S \ {x}
  <2>1. IsFiniteSet(S) /\ IsFiniteSet(T) BY SizedFacts, FS_Subset
  <2>2. IntOn(f, S) /\ IntOn(f, T) BY FitsInt DEF IntOn
  <2>3. Total(d, u) = SumFunctionOnSet(f, S) /\ Rest(d, u, x) = SumFunctionOnSet(f, T)
    BY DEF Total, Rest
  <2>4. x \notin S => T = S OBVIOUS
  <2> HIDE DEF f, T, S
  <2>5. SumFunctionOnSet(f, S) \in Int /\ SumFunctionOnSet(f, T) \in Int BY <2>1, <2>2, SumType
  <2>6. ASSUME x \in S PROVE SumFunctionOnSet(f, S) = f[x] + SumFunctionOnSet(f, T)
    <3>1. SumFunctionOnSet(f, S) = f[x] + SumFunctionOnSet(f, S \ {x}) BY SMTT(60), <2>1, <2>2, <2>6, SumRemove
    <3> QED BY <3>1 DEF T
  <2> QED BY <2>3, <2>4, <2>5, <2>6 DEF f, S
<1>RestSame. ASSUME NEW d, NEW e, NEW u, NEW x, DiskGood(d), SameBut(d, e, u, x)
             PROVE  Rest(e, u, x) = Rest(d, u, x)
  <2> USE <1>RestSame
  <2> DEFINE f == Sized(e, u)
             g == Sized(d, u)
             T == Own(d, u) \ {x}
  <2>1. IsFiniteSet(T) BY SizedFacts, FS_Subset
  <2>2. SameOn(f, g, T)
    <3>1. ASSUME NEW y \in T PROVE f[y] = g[y]
      <4>1. y \in Own(e, u) /\ y \in Own(d, u) /\ e.pairs[y] = d.pairs[y] BY DEF SameBut
      <4>2. f[y] = SizeOf(y[2], e.pairs[y]) BY <4>1, SizedFacts
      <4>3. g[y] = SizeOf(y[2], d.pairs[y]) BY <4>1, SizedFacts
      <4> QED BY <4>1, <4>2, <4>3
    <3> QED BY <3>1 DEF SameOn
  <2>3. Rest(e, u, x) = SumFunctionOnSet(f, T) /\ Rest(d, u, x) = SumFunctionOnSet(g, T) BY DEF Rest, SameBut
  <2> HIDE DEF f, g, T
  <2>4. SumFunctionOnSet(f, T) = SumFunctionOnSet(g, T) BY <2>1, <2>2, SumSame
  <2> QED BY <2>3, <2>4
(* The sizes after a pair has been put, and after one has been deleted.    *)
<1>CountedPut. ASSUME NEW d, NEW e, NEW u, NEW x, x[1] = u, NEW v, NEW n, DiskGood(d), SizesFit(d), Counted(d, u),
                      Fits(SizeOf(x[2], v)),
                      n = (get_metadata_size(d.ns, u) - get_metadata_size(d.ks, x) + SizeOf(x[2], v)) % Word,
                      e.pairs = Put(d.pairs, x, v), e.ns = Put(d.ns, u, n), e.ks = Put(d.ks, x, SizeOf(x[2], v)),
                      DiskGood(e)
               PROVE  Counted(e, u)
  <2> USE <1>CountedPut
  <2> DEFINE size == SizeOf(x[2], v)
             old == get_metadata_size(d.ks, x)
  <2>1. Own(e, u) = Own(d, u) \cup {x} BY DEF Own, Put, Store!Put
  <2>2. /\ e.pairs[x] = v /\ e.ks[x] = size
        /\ \A y \in Own(d, u) : y # x => e.pairs[y] = d.pairs[y]
    BY DEF Own, Put, Store!Put
  <2>3. KeySizes(e, u) = KeySizes(d, u) \cup {x} BY DEF KeySizes, Put, Store!Put
  <2>4. KeySizes(e, u) = Own(e, u) BY <2>1, <2>3 DEF Counted
  <2>5. \A y \in Own(d, u) : y # x => e.ks[y] = d.ks[y]
    <3>1. \A y \in Own(d, u) : y \in DOMAIN d.ks BY DEF Counted, KeySizes
    <3> QED BY <3>1 DEF Put, Store!Put
  <2>6. \A y \in Own(e, u) : e.ks[y] = SizeOf(y[2], e.pairs[y])
    BY <2>1, <2>2, <2>5 DEF Counted
  <2>7. get_metadata_size(e.ns, u) = n BY DEF get_metadata_size, Put, Store!Put
  <2>8. \A y \in Own(d, u) : y \in DOMAIN d.ks /\ Sized(d, u)[y] = d.ks[y] /\ Fits(Sized(d, u)[y])
    <3> TAKE y \in Own(d, u)
    <3>1. y \in DOMAIN d.ks BY DEF Counted, KeySizes
    <3>2. Sized(d, u)[y] = SizeOf(y[2], d.pairs[y]) BY SizedFacts
    <3>3. d.ks[y] = SizeOf(y[2], d.pairs[y]) BY DEF Counted
    <3>4. Fits(d.ks[y]) BY <3>1 DEF SizesFit
    <3> QED BY <3>1, <3>2, <3>3, <3>4
  <2>9. ASSUME NEW y \in Own(e, u) PROVE Fits(Sized(e, u)[y])
    <3>1. Sized(e, u)[y] = e.ks[y] BY <2>6, SizedFacts
    <3>2. CASE y = x BY <2>2, <3>1, <3>2
    <3>3. CASE y # x BY <2>1, <2>5, <2>8, <3>1, <3>3
    <3> QED BY <3>2, <3>3
  <2>10. Sized(e, u)[x] = size
    <3>1. x \in Own(e, u) BY <2>1
    <3>2. Sized(e, u)[x] = SizeOf(x[2], e.pairs[x]) BY <3>1, SizedFacts
    <3> QED BY <2>2, <3>2
  <2>11. Rest(e, u, x) = Rest(d, u, x)
    <3>1. Own(e, u) \ {x} = Own(d, u) \ {x} BY <2>1
    <3>2. SameBut(d, e, u, x) BY <2>2, <3>1 DEF SameBut
    <3> QED BY SMTT(60), <3>2, <1>RestSame
  <2>12. Total(e, u) = size + Rest(d, u, x)
    <3>1. x \in Own(e, u) BY <2>1
    <3>2. Total(e, u) = Sized(e, u)[x] + Rest(e, u, x) BY <2>9, <3>1, <1>TotalIs
    <3> QED BY <2>10, <2>11, <3>2
  <2>13. Total(d, u) = old + Rest(d, u, x) /\ Fits(old)
    <3>1. CASE x \in Own(d, u)
      <4>1. old = Sized(d, u)[x] BY <2>8, <3>1 DEF get_metadata_size
      <4> QED BY <2>8, <3>1, <4>1, <1>TotalIs
    <3>2. CASE x \notin Own(d, u)
      <4>1. x \notin DOMAIN d.ks BY <3>2 DEF Counted, KeySizes
      <4>2. old = 0 BY <4>1 DEF get_metadata_size
      <4>3. Total(d, u) = Rest(d, u, x) /\ Total(d, u) \in Int BY <2>8, <3>2, <1>TotalIs
      <4>4. Total(d, u) = 0 + Rest(d, u, x) BY SMTT(60), <4>3
      <4> QED BY <4>2, <4>4, FitsInt
    <3> QED BY <3>1, <3>2
  <2>14. get_metadata_size(d.ns, u) = Total(d, u) % Word BY DEF Counted
  <2>15. Rest(d, u, x) \in Int /\ Total(d, u) \in Int BY <2>8, <1>TotalIs
  <2> DEFINE g == get_metadata_size(d.ns, u)
             t == Total(d, u)
             r == Rest(d, u, x)
  <2>16. n = (g - old + size) % Word /\ size \in Int /\ old \in Int /\ t = old + r /\ g = t % Word
         /\ r \in Int /\ t \in Int
    BY <2>13, <2>14, <2>15, FitsInt
  <2> HIDE DEF size, old, g, t, r
  <2>17. n = (size + r) % Word
    <3>1. Word \in Nat \ {0} BY WordAssumption
    <3>2. PICK m \in Int : m = size - old BY SMTT(60), <2>16
    <3>3. (g + m) % Word = (t + m) % Word
      <4>1. g = t % Word /\ t \in Int BY <2>16
      <4> QED BY <3>1, <4>1, RemainderAdd
    <3>4. g \in Int BY SMTT(60), <2>16, <3>1
    <3>5. g - old + size = g + m /\ t + m = size + r BY SMTT(60), <2>16, <3>2, <3>4
    <3> QED BY <2>16, <3>3, <3>5
  <2>18. n = Total(e, u) % Word BY <2>12, <2>17 DEF r
  <2> QED BY <2>4, <2>6, <2>7, <2>18 DEF Counted
<1>CountedDelete. ASSUME NEW d, NEW e, NEW u, NEW x, x \in Own(d, u), NEW n, DiskGood(d), SizesFit(d), Counted(d, u),
                         n = (get_metadata_size(d.ns, u) - get_metadata_size(d.ks, x)) % Word,
                         e.pairs = Without(d.pairs, {x}), e.ns = Put(d.ns, u, n), e.ks = Without(d.ks, {x}),
                         DiskGood(e)
                  PROVE  Counted(e, u)
  <2> USE <1>CountedDelete
  <2> DEFINE old == get_metadata_size(d.ks, x)
  <2>1. Own(e, u) = Own(d, u) \ {x} /\ \A y \in Own(e, u) : e.pairs[y] = d.pairs[y]
    BY DEF Own, Without, Store!Without
  <2>2. KeySizes(e, u) = KeySizes(d, u) \ {x} /\ \A y \in KeySizes(e, u) : e.ks[y] = d.ks[y]
    BY DEF KeySizes, Without, Store!Without
  <2>3. KeySizes(e, u) = Own(e, u) BY <2>1, <2>2 DEF Counted
  <2>4. \A y \in Own(e, u) : e.ks[y] = SizeOf(y[2], e.pairs[y])
    BY <2>1, <2>2, <2>3 DEF Counted
  <2>5. get_metadata_size(e.ns, u) = n BY DEF get_metadata_size, Put, Store!Put
  <2>6. \A y \in Own(d, u) : y \in DOMAIN d.ks /\ Sized(d, u)[y] = d.ks[y] /\ Fits(Sized(d, u)[y])
    <3> TAKE y \in Own(d, u)
    <3>1. y \in DOMAIN d.ks BY DEF Counted, KeySizes
    <3>2. Sized(d, u)[y] = SizeOf(y[2], d.pairs[y]) BY SizedFacts
    <3>3. d.ks[y] = SizeOf(y[2], d.pairs[y]) BY DEF Counted
    <3>4. Fits(d.ks[y]) BY <3>1 DEF SizesFit
    <3> QED BY <3>1, <3>2, <3>3, <3>4
  <2>7. ASSUME NEW y \in Own(e, u) PROVE Fits(Sized(e, u)[y])
    <3>1. Sized(e, u)[y] = e.ks[y] BY <2>4, SizedFacts
    <3> QED BY <2>1, <2>2, <2>3, <2>6, <3>1
  <2>8. Rest(e, u, x) = Rest(d, u, x)
    <3>1. Own(e, u) \ {x} = Own(d, u) \ {x} BY <2>1
    <3>2. SameBut(d, e, u, x) BY <2>1, <3>1 DEF SameBut
    <3> QED BY SMTT(60), <3>2, <1>RestSame
  <2>9. x \notin Own(e, u) BY <2>1
  <2>10. Total(e, u) = Rest(d, u, x) BY <2>7, <2>8, <2>9, <1>TotalIs
  <2>11. old = Sized(d, u)[x] BY <2>6 DEF get_metadata_size
  <2>12. Total(d, u) = old + Rest(d, u, x) /\ Fits(old) BY <2>6, <2>11, <1>TotalIs
  <2>13. Rest(d, u, x) \in Int /\ Total(d, u) \in Int BY <2>6, <1>TotalIs
  <2> DEFINE g == get_metadata_size(d.ns, u)
             t == Total(d, u)
             r == Rest(d, u, x)
  <2>14. n = (g - old) % Word /\ old \in Int /\ t = old + r /\ g = t % Word /\ r \in Int /\ t \in Int
    BY <2>12, <2>13, FitsInt DEF Counted
  <2> HIDE DEF old, g, t, r
  <2>15. n = r % Word
    <3>1. Word \in Nat \ {0} BY WordAssumption
    <3>2. PICK m \in Int : m = -old BY SMTT(60), <2>14
    <3>3. (g + m) % Word = (t + m) % Word
      <4>1. g = t % Word /\ t \in Int BY <2>14
      <4> QED BY <3>1, <4>1, RemainderAdd
    <3>4. g \in Int BY SMTT(60), <2>14, <3>1
    <3>5. g - old = g + m /\ t + m = r BY SMTT(60), <2>14, <3>2, <3>4
    <3> QED BY <2>14, <3>3, <3>5
  <2>16. n = Total(e, u) % Word BY <2>10, <2>15 DEF r
  <2> QED BY <2>3, <2>4, <2>5, <2>16 DEF Counted
<1>ThreeWrites. ASSUME NEW d, DiskGood(d), NEW a, NEW b, NEW c, a.area = "pairs", b.area = "ns", c.area = "ks",
                       NEW e, e = Apply(Apply(Apply(d, a), b), c)
                PROVE  /\ DiskGood(e) /\ e.pairs = Effect(d.pairs, a)
                       /\ e.ns = Effect(d.ns, b) /\ e.ks = Effect(d.ks, c)
  <2> USE <1>ThreeWrites
  <2> DEFINE d1 == Apply(d, a)
             d2 == Apply(d1, b)
  <2>1. DiskGood(d1) /\ d1.pairs = Effect(d.pairs, a) /\ d1.ns = d.ns /\ d1.ks = d.ks
    BY ApplyPairs
  <2>2. e = Apply(d2, c) OBVIOUS
  <2> HIDE DEF d1
  <2>3. DiskGood(d2) /\ d2.pairs = d1.pairs /\ d2.ns = Effect(d1.ns, b) /\ d2.ks = d1.ks
    <3>1. DiskGood(d1) BY <2>1
    <3> QED BY <3>1, ApplyNs
  <2> HIDE DEF d2
  <2>4. DiskGood(e) /\ e.pairs = d2.pairs /\ e.ns = d2.ns /\ e.ks = Effect(d2.ks, c)
    <3>1. DiskGood(d2) BY <2>3
    <3> QED BY <2>2, <3>1, ApplyKs
  <2> QED BY <2>1, <2>3, <2>4
(* The effect of a put and of a delete.                                    *)
<1>EffectIs. /\ \A f, area, x, v : Effect(f, PutIn(area, x, v)) = Put(f, x, v)
             /\ \A f, area, X : Effect(f, DeleteIn(area, X)) = Without(f, X)
  <2>1. ASSUME NEW f, NEW area, NEW x, NEW v PROVE Effect(f, PutIn(area, x, v)) = Put(f, x, v)
    <3>1. (CHOOSE y \in {x} : TRUE) = x OBVIOUS
    <3> QED BY <3>1 DEF PutIn, Effect
  <2>2. ASSUME NEW f, NEW area, NEW X PROVE Effect(f, DeleteIn(area, X)) = Without(f, X)
    BY DEF DeleteIn, Effect
  <2> QED BY <2>1, <2>2
<1>AlikePut. ASSUME NEW f, NEW x, NEW v, NEW z, x[1] # z
             PROVE  Alike(f, Put(f, x, v), z) /\ Alike(f, Without(f, {x}), z)
  BY <1>AlikePut DEF Alike, Put, Store!Put, Without, Store!Without
(* The three writes of create and update, and those of remove.             *)
<1>PutCounted. ASSUME NEW d, DiskGood(d), SizesFit(d), NEW R, CountedBut(d, R),
                      NEW u, NEW x, x[1] = u, NEW v, NEW n, NEW size, size = SizeOf(x[2], v), Fits(size),
                      u \notin R => n = (get_metadata_size(d.ns, u) - get_metadata_size(d.ks, x) + size) % Word,
                      NEW e, e = Apply(Apply(Apply(d, PutIn("pairs", x, v)), PutIn("ns", u, n)), PutIn("ks", x, size))
               PROVE  CountedBut(e, R)
  <2> USE <1>PutCounted
  <2> DEFINE a == PutIn("pairs", x, v)
             b == PutIn("ns", u, n)
             c == PutIn("ks", x, size)
  <2>1. a.area = "pairs" /\ b.area = "ns" /\ c.area = "ks" BY DEF PutIn
  <2>2. Effect(d.pairs, a) = Put(d.pairs, x, v) /\ Effect(d.ns, b) = Put(d.ns, u, n)
        /\ Effect(d.ks, c) = Put(d.ks, x, size)
    BY <1>EffectIs
  <2>3. e = Apply(Apply(Apply(d, a), b), c) OBVIOUS
  <2> HIDE DEF a, b, c
  <2>4. /\ DiskGood(e) /\ e.pairs = Put(d.pairs, x, v)
        /\ e.ns = Put(d.ns, u, n) /\ e.ks = Put(d.ks, x, size)
    <3>1. DiskGood(e) /\ e.pairs = Effect(d.pairs, a) /\ e.ns = Effect(d.ns, b) /\ e.ks = Effect(d.ks, c)
      BY SMTT(60), <2>1, <2>3, <1>ThreeWrites
    <3> QED BY <2>2, <3>1
  <2>5. ASSUME NEW z, z \notin R PROVE Counted(e, z)
    <3>1. Counted(d, z) BY <2>5 DEF CountedBut
    <3>2. CASE z = u
      <4>1. n = (get_metadata_size(d.ns, u) - get_metadata_size(d.ks, x) + size) % Word BY <2>5, <3>2
      <4>2. Counted(e, u) BY <2>4, <3>1, <3>2, <4>1, <1>CountedPut
      <4> QED BY <3>2, <4>2
    <3>3. CASE z # u
      <4>1. Alike(d.pairs, e.pairs, z) /\ Alike(d.ks, e.ks, z) BY <2>4, <3>3, <1>AlikePut
      <4>2. get_metadata_size(e.ns, z) = get_metadata_size(d.ns, z)
        <5>1. DOMAIN e.ns = DOMAIN d.ns \cup {u} /\ (z \in DOMAIN d.ns => e.ns[z] = d.ns[z])
          BY <2>4, <3>3 DEF Put, Store!Put
        <5> QED BY <3>3, <5>1 DEF get_metadata_size
      <4> QED BY <3>1, <4>1, <4>2, AlikeElse
    <3> QED BY <3>2, <3>3
  <2> QED BY <2>5 DEF CountedBut
<1>DeleteCounted. ASSUME NEW d, DiskGood(d), SizesFit(d), NEW R, CountedBut(d, R),
                         NEW u, NEW x, x \in Own(d, u), NEW n,
                         n = (get_metadata_size(d.ns, u) - get_metadata_size(d.ks, x)) % Word,
                         NEW e, e = Apply(Apply(Apply(d, DeleteIn("pairs", {x})), PutIn("ns", u, n)), DeleteIn("ks", {x}))
                  PROVE  CountedBut(e, R)
  <2> USE <1>DeleteCounted
  <2> DEFINE a == DeleteIn("pairs", {x})
             b == PutIn("ns", u, n)
             c == DeleteIn("ks", {x})
  <2>1. a.area = "pairs" /\ b.area = "ns" /\ c.area = "ks" BY DEF PutIn, DeleteIn
  <2>2. Effect(d.pairs, a) = Without(d.pairs, {x}) /\ Effect(d.ns, b) = Put(d.ns, u, n)
        /\ Effect(d.ks, c) = Without(d.ks, {x})
    BY <1>EffectIs
  <2>3. e = Apply(Apply(Apply(d, a), b), c) OBVIOUS
  <2> HIDE DEF a, b, c
  <2>4. /\ DiskGood(e) /\ e.pairs = Without(d.pairs, {x})
        /\ e.ns = Put(d.ns, u, n) /\ e.ks = Without(d.ks, {x})
    <3>1. DiskGood(e) /\ e.pairs = Effect(d.pairs, a) /\ e.ns = Effect(d.ns, b) /\ e.ks = Effect(d.ks, c)
      BY SMTT(60), <2>1, <2>3, <1>ThreeWrites
    <3> QED BY <2>2, <3>1
  <2>5. ASSUME NEW z, z \notin R PROVE Counted(e, z)
    <3>1. Counted(d, z) BY <2>5 DEF CountedBut
    <3>2. CASE z = u
      <4>1. Counted(e, u) BY <2>4, <3>1, <3>2, <1>CountedDelete
      <4> QED BY <3>2, <4>1
    <3>3. CASE z # u
      <4>1. x[1] # z BY <3>3 DEF Own
      <4>2. Alike(d.pairs, e.pairs, z) /\ Alike(d.ks, e.ks, z) BY <2>4, <4>1, <1>AlikePut
      <4>3. get_metadata_size(e.ns, z) = get_metadata_size(d.ns, z)
        <5>1. DOMAIN e.ns = DOMAIN d.ns \cup {u} /\ (z \in DOMAIN d.ns => e.ns[z] = d.ns[z])
          BY <2>4, <3>3 DEF Put, Store!Put
        <5> QED BY <3>3, <5>1 DEF get_metadata_size
      <4> QED BY <3>1, <4>2, <4>3, AlikeElse
    <3> QED BY <3>2, <3>3
  <2> QED BY <2>5 DEF CountedBut
<1>RangeCounted. ASSUME NEW d, DiskGood(d), NEW R, CountedBut(d, R), NEW u \in R, NEW K,
                        NEW e, e = Apply(d, DeleteIn("pairs", {u} \X K))
                 PROVE  CountedBut(e, R)
  <2> USE <1>RangeCounted
  <2> DEFINE X == {u} \X K
             a == DeleteIn("pairs", X)
  <2>1. a.area = "pairs" /\ e = Apply(d, a) BY DEF DeleteIn
  <2>2. Effect(d.pairs, a) = Without(d.pairs, X) BY <1>EffectIs
  <2>3. \A y \in X : y[1] = u OBVIOUS
  <2> HIDE DEF a, X
  <2>4. e.pairs = Without(d.pairs, X) /\ e.ns = d.ns /\ e.ks = d.ks
    <3>1. e.pairs = Effect(d.pairs, a) /\ e.ns = d.ns /\ e.ks = d.ks BY SMTT(60), <2>1, ApplyPairs
    <3> QED BY <2>2, <3>1
  <2>5. ASSUME NEW z, z \notin R PROVE Counted(e, z)
    <3>1. Counted(d, z) BY <2>5 DEF CountedBut
    <3>2. z # u BY <2>5
    <3>3. Alike(d.pairs, e.pairs, z)
      <4> DEFINE f == d.pairs
                 g == e.pairs
      <4>1. g = Without(f, X) BY <2>4
      <4> HIDE DEF f, g
      <4>2. Alike(f, g, z) BY <2>3, <3>2, <4>1 DEF Alike, Without, Store!Without
      <4> QED BY <4>2 DEF f, g
    <3>4. Alike(d.ks, e.ks, z) BY <2>4 DEF Alike
    <3> QED BY <2>4, <3>1, <3>3, <3>4, AlikeElse
  <2> QED BY <2>5 DEF CountedBut
<1>PlannedThree. ASSUME NEW d, NEW R, NEW a, NEW b, NEW c, a.area = "pairs",
                        b.put => Fits(b.value), c.put => Fits(c.value), NEW e, e = Apply(Apply(Apply(d, a), b), c),
                        CountedBut(d, R) => CountedBut(e, R)
                 PROVE  WritesFit(<<a, b, c>>) /\ (CountedBut(d, R) => OneSized(d, <<a, b, c>>, R))
  <2> USE <1>PlannedThree
  <2> DEFINE q == <<a, b, c>>
  <2>1. Len(q) = 3 /\ q # <<>> /\ q[1] = a /\ q[2] = b /\ q[3] = c OBVIOUS
  <2> HIDE DEF q
  <2>2. \A i \in 1..Len(q) : i = 1 \/ i = 2 \/ i = 3 BY SMTT(60), <2>1
  <2>3. WritesFit(q) BY <2>1, <2>2 DEF WritesFit
  <2>4. CountedBut(d, R) => OneSized(d, q, R) BY <2>1 DEF OneSized
  <2> QED BY <2>3, <2>4 DEF q
<1>PlannedSizes. ASSUME DiskGood(disk), SizesFit(disk), NEW R, NEW c, CallFits(c, R),
                        c.op \in {"create", "update", "remove", "remove_range"},
                        NEW q, q = CASE c.op = "create" -> create(c)
                                     [] c.op = "update" -> update(c)
                                     [] c.op = "remove" -> remove(c)
                                     [] c.op = "remove_range" -> remove_range(c)
                 PROVE  WritesFit(q) /\ (CountedBut(disk, R) => OneSized(disk, q, R))
  <2> USE <1>PlannedSizes
  <2> DEFINE u == c.uuid
             x == <<u, c.key>>
             v == c.value
             size == SizeOf(c.key, v)
             g == get_metadata_size(disk.ns, u)
             old == get_metadata_size(disk.ks, x)
  <2>1. x[1] = u /\ x[2] = c.key OBVIOUS
  <2> USE <2>1
  <2>2. g \in Int /\ old \in Int
    BY FitsInt DEF SizesFit, get_metadata_size
  <2> USE <2>2
  <2>3. ASSUME NEW n \in Int, Fits(size),
               CountedBut(disk, R) => (u \notin R => n % Word = (g - old + size) % Word),
               q = <<PutIn("pairs", x, v), PutIn("ns", u, n % Word), PutIn("ks", x, size)>>
        PROVE  WritesFit(q) /\ (CountedBut(disk, R) => OneSized(disk, q, R))
    <3> DEFINE k == n % Word
               a == PutIn("pairs", x, v)
               b == PutIn("ns", u, k)
               d == PutIn("ks", x, size)
               e == Apply(Apply(Apply(disk, a), b), d)
    <3>1. Fits(k) BY FitsInt
    <3>2. a.area = "pairs" /\ b.value = k /\ d.value = size BY DEF PutIn
    <3>3. CountedBut(disk, R) => CountedBut(e, R)
      <4> SUFFICES ASSUME CountedBut(disk, R) PROVE CountedBut(e, R) OBVIOUS
      <4>1. u \notin R => k = (g - old + size) % Word BY <2>3
      <4>2. size = SizeOf(x[2], v) OBVIOUS
      <4> HIDE DEF u, x, v, size, k
      <4> QED BY <2>3, <4>1, <4>2, <1>PutCounted
    <3>4. q = <<a, b, d>> BY <2>3
    <3>5. Fits(b.value) /\ Fits(d.value) BY <2>3, <3>1, <3>2
    <3> HIDE DEF a, b, d
    <3> QED BY <3>2, <3>3, <3>4, <3>5, <1>PlannedThree
  <2>4. CASE c.op = "create"
    <3>1. Fits(size) BY <2>4 DEF CallFits
    <3>2. CASE x \in DOMAIN disk.pairs
      <4>1. q = <<>> BY <2>4, <3>2 DEF create, has_priv
      <4> QED BY <4>1, NoWrites
    <3>3. CASE x \notin DOMAIN disk.pairs
      <4>1. q = <<PutIn("pairs", x, v), PutIn("ns", u, (g + size) % Word), PutIn("ks", x, size)>>
        BY <2>4, <3>3 DEF create, has_priv
      <4>2. ASSUME CountedBut(disk, R), u \notin R PROVE old = 0
        <5>1. Counted(disk, u) BY <4>2 DEF CountedBut
        <5>2. x \notin DOMAIN disk.ks BY <3>3, <5>1 DEF Counted, Own, KeySizes
        <5> QED BY <5>2 DEF get_metadata_size
      <4>3. PICK n : n = g + size OBVIOUS
      <4> HIDE DEF u, x, v, size, g, old
      <4>4. size \in Int BY <3>1, FitsInt
      <4>5. n \in Int BY SMTT(60), <4>3, <4>4
      <4>6. old = 0 => g - old + size = n BY SMTT(60), <4>3, <4>4
      <4>7. CountedBut(disk, R) => (u \notin R => n % Word = (g - old + size) % Word) BY <4>2, <4>6
      <4>8. q = <<PutIn("pairs", x, v), PutIn("ns", u, n % Word), PutIn("ks", x, size)>> BY <4>1, <4>3
      <4> QED BY <2>3, <3>1, <4>5, <4>7, <4>8
    <3> QED BY <3>2, <3>3
  <2>5. CASE c.op = "update"
    <3>1. Fits(size) BY <2>5 DEF CallFits
    <3>2. CASE x \notin DOMAIN disk.pairs
      <4>1. q = <<>> BY <2>5, <3>2 DEF update, has_priv
      <4> QED BY <4>1, NoWrites
    <3>3. CASE x \in DOMAIN disk.pairs
      <4>1. q = <<PutIn("pairs", x, v), PutIn("ns", u, (g - old + size) % Word), PutIn("ks", x, size)>>
        BY <2>5, <3>3 DEF update, has_priv
      <4>2. PICK n : n = g - old + size OBVIOUS
      <4> HIDE DEF u, x, v, size, g, old
      <4>3. size \in Int BY <3>1, FitsInt
      <4>4. n \in Int BY SMTT(60), <4>2, <4>3
      <4>5. q = <<PutIn("pairs", x, v), PutIn("ns", u, n % Word), PutIn("ks", x, size)>> BY <4>1, <4>2
      <4> QED BY <2>3, <3>1, <4>2, <4>4, <4>5
    <3> QED BY <3>2, <3>3
  <2>6. CASE c.op = "remove"
    <3>1. CASE x \notin DOMAIN disk.pairs
      <4>1. q = <<>> BY <2>6, <3>1 DEF remove, has_priv
      <4> QED BY <4>1, NoWrites
    <3>2. CASE x \in DOMAIN disk.pairs
      <4> DEFINE n == (g - old) % Word
                 a == DeleteIn("pairs", {x})
                 b == PutIn("ns", u, n)
                 d == DeleteIn("ks", {x})
                 e == Apply(Apply(Apply(disk, a), b), d)
      <4>1. q = <<a, b, d>> BY <2>6, <3>2 DEF remove, has_priv
      <4>2. x \in Own(disk, u) BY <3>2 DEF Own
      <4>3. Fits(n)
        <5>1. g - old \in Int BY SMTT(60)
        <5> QED BY <5>1, FitsInt
      <4>4. a.area = "pairs" /\ b.value = n /\ d.put = FALSE BY DEF PutIn, DeleteIn
      <4>5. CountedBut(disk, R) => CountedBut(e, R)
        <5>1. n = (get_metadata_size(disk.ns, u) - get_metadata_size(disk.ks, x)) % Word OBVIOUS
        <5> HIDE DEF u, x, n
        <5> QED BY <4>2, <5>1, <1>DeleteCounted
      <4>6. Fits(b.value) BY <4>3, <4>4
      <4> HIDE DEF a, b, d
      <4> QED BY <4>1, <4>4, <4>5, <4>6, <1>PlannedThree
    <3> QED BY <3>1, <3>2
  <2>7. CASE c.op = "remove_range"
    <3> DEFINE a == DeleteIn("pairs", {u} \X c.keys)
               e == Apply(disk, a)
               s == <<a>>
    <3>1. q = s BY <2>7 DEF remove_range
    <3>2. u \in R BY <2>7 DEF CallFits
    <3>3. CountedBut(disk, R) => CountedBut(e, R) BY <3>2, <1>RangeCounted
    <3>4. a.put = FALSE BY DEF DeleteIn
    <3> HIDE DEF a
    <3>5. Len(s) = 1 /\ s[1] = a OBVIOUS
    <3> HIDE DEF s
    <3>6. \A i \in 1..Len(s) : i = 1 BY SMTT(60), <3>5
    <3>7. WritesFit(s) BY <3>4, <3>5, <3>6 DEF WritesFit
    <3>8. CountedBut(disk, R) => OneSized(disk, s, R) BY <3>3, <3>5 DEF OneSized
    <3> QED BY <3>1, <3>7, <3>8
  <2> QED BY <2>4, <2>5, <2>6, <2>7
<1>PlannedUuidSizes. ASSUME DiskGood(disk), NEW c, NEW R, NEW r, r = remove_uuid(c)
                     PROVE  WritesFit(r) /\ (CountedBut(disk, R) => EachSized(disk, r, c.uuid, R))
  <2> USE <1>PlannedUuidSizes
  <2> DEFINE u == c.uuid
             X == Own(disk, u)
             Y == KeySizes(disk, u)
  <2>1. X = {x \in DOMAIN disk.pairs : x[1] = u} /\ Y = {x \in DOMAIN disk.ks : x[1] = u}
    BY DEF Own, KeySizes
  <2>2. \A y \in X \cup Y : y[1] = u BY <2>1
  <2> HIDE DEF X, Y
  <2>3. DeletesUuid(r, u, X, Y) BY <2>1, UuidWrites
  <2>4. \A i \in 1..Len(r) :
            /\ ~r[i].put
            /\ \/ r[i].area = "pairs" /\ \E y \in X : r[i].at = {y}
               \/ r[i].area = "ns" /\ r[i].at = {u}
               \/ r[i].area = "ks" /\ \E y \in Y : r[i].at = {y}
    BY <2>3 DEF DeletesUuid
  <2>5. WritesFit(r) BY <2>4 DEF WritesFit
  <2>6. ASSUME NEW i \in 1..Len(r), NEW y \in r[i].at
        PROVE  IF r[i].area = "ns" THEN y = u ELSE y[1] = u
    <3>1. CASE r[i].area = "pairs" /\ \E z \in X : r[i].at = {z} BY <2>2, <3>1
    <3>2. CASE r[i].area = "ns" /\ r[i].at = {u} BY <3>2
    <3>3. CASE r[i].area = "ks" /\ \E z \in Y : r[i].at = {z} BY <2>2, <3>3
    <3> QED BY <2>4, <3>1, <3>2, <3>3
  <2>7. DeletesOf(r, u) BY <2>4, <2>6 DEF DeletesOf
  <2>8. Covers(r, "pairs", X) /\ Covers(r, "ks", Y) /\ Covers(r, "ns", DOMAIN disk.ns \cap {u})
    BY <2>3 DEF Covers, DeletesUuid
  <2>9. CountedBut(disk, R) => EachSized(disk, r, u, R)
    BY <2>7, <2>8 DEF EachSized, CountedBut, X, Y
  <2> QED BY <2>5, <2>9
<1> SUFFICES ASSUME StorageInv, SizeInv, NEW c, c.op \in Ops, CallFits(c, Ranged), Begin(c),
                    c.op = "load_snapshot" => Right(c.data.disk) /\ c.data.whole \in BOOLEAN
             PROVE  SizeInv'
  OBVIOUS
<1>1. call = NoCall /\ call' = c /\ phase = "idle" /\ UNCHANGED <<disk, backup, snap, tmp, phase, clean>>
  BY DEF Begin, StorageInv, CallGood
<1> USE <1>1
<1>2. DiskGood(disk) /\ SizesFit(disk) BY DEF StorageInv, DisksGood, SizeInv
<1>3. call.op \notin WriteOps /\ call.op # "load_snapshot" BY DEF NoCall, WriteOps
<1>4. clean => CountedBut(disk, Ranged) BY <1>3 DEF SizeInv, DiskSized
<1>5. WritesFit(todo') /\ (clean => DiskSized')
  <2>1. CASE c.op \in {"create", "update", "remove", "remove_range"}
    <3>1. todo' = CASE c.op = "create" -> create(c)
                    [] c.op = "update" -> update(c)
                    [] c.op = "remove" -> remove(c)
                    [] c.op = "remove_range" -> remove_range(c)
      BY <2>1 DEF Begin
    <3>2. WritesFit(todo') /\ (CountedBut(disk, Ranged) => OneSized(disk, todo', Ranged))
      BY SMTT(60), <1>2, <2>1, <3>1, <1>PlannedSizes
    <3> QED BY <1>4, <2>1, <3>2 DEF DiskSized, SizesLeft, WriteOps
  <2>2. CASE c.op = "remove_uuid"
    <3>1. todo' = remove_uuid(c) BY <2>2 DEF Begin
    <3>2. WritesFit(todo') /\ (CountedBut(disk, Ranged) => EachSized(disk, todo', c.uuid, Ranged))
      BY <1>2, <3>1, <1>PlannedUuidSizes
    <3> QED BY <1>4, <2>2, <3>2 DEF DiskSized, SizesLeft, WriteOps
  <2>3. CASE c.op \in {"create_snapshot", "load_snapshot"}
    <3>1. todo' = <<>> BY <2>3 DEF Begin
    <3> QED BY <1>4, <2>3, <3>1, NoWrites DEF DiskSized, WriteOps
  <2> QED BY <2>1, <2>2, <2>3 DEF Ops, WriteOps
<1>6. ASSUME NEW d, Copied(d)' PROVE Right(d)'
  <2>1. Copied(d) \/ (c.op = "load_snapshot" /\ d = c.data.disk) BY <1>6 DEF Copied
  <2>2. Right(d) BY <2>1 DEF SizeInv
  <2> QED BY <2>2 DEF Right
<1> QED BY <1>5, <1>6 DEF SizeInv

(* A write, and the return of a call.                                      *)
LEMMA WriteSizes == StorageInv /\ SizeInv /\ Write => SizeInv'
(* A write leaves sizes that fit, and the writes after it as they were.    *)
<1>EffectFits. ASSUME NEW f, \A y \in DOMAIN f : Fits(f[y]), NEW w, w.put => Fits(w.value)
               PROVE  \A y \in DOMAIN Effect(f, w) : Fits(Effect(f, w)[y])
  <2> USE <1>EffectFits
  <2>1. CASE w.put
    <3> DEFINE x == CHOOSE x \in w.at : TRUE
               v == w.value
    <3>1. Effect(f, w) = Put(f, x, v) BY <2>1 DEF Effect
    <3>2. Fits(v) BY <2>1
    <3> HIDE DEF x, v
    <3>3. \A y \in DOMAIN Put(f, x, v) : Fits(Put(f, x, v)[y]) BY <3>2 DEF Put, Store!Put
    <3> QED BY <3>1, <3>3
  <2>2. CASE ~w.put
    <3> DEFINE X == w.at
    <3>1. Effect(f, w) = Without(f, X) BY <2>2 DEF Effect
    <3> HIDE DEF X
    <3>2. \A y \in DOMAIN Without(f, X) : Fits(Without(f, X)[y]) BY DEF Without, Store!Without
    <3> QED BY <3>1, <3>2
  <2> QED BY <2>1, <2>2
<1>WriteFits. ASSUME NEW d, DiskGood(d), SizesFit(d), NEW q, WritesGood(q), q # <<>>, WritesFit(q),
                     NEW e, e = Apply(d, Head(q))
              PROVE  SizesFit(e) /\ WritesFit(Tail(q))
  <2> USE <1>WriteFits
  <2> DEFINE w == q[1]
             s == Tail(q)
  <2>1. w.area \in Areas /\ e = Apply(d, w) BY TailGood
  <2> USE <2>1
  <2>2. 1 \in 1..Len(q) /\ \A i \in 1..Len(s) : i + 1 \in 1..Len(q) /\ s[i] = q[i + 1]
    BY SMTT(60), TailGood
  <2>3. w.put /\ w.area # "pairs" => Fits(w.value) BY <2>2 DEF WritesFit
  <2> HIDE DEF w, s
  <2>4. WritesFit(s) BY <2>2 DEF WritesFit
  <2>5. SizesFit(e)
    <3>1. CASE w.area = "pairs"
      <4>1. e.ns = d.ns /\ e.ks = d.ks BY SMTT(60), <3>1, ApplyPairs
      <4> QED BY <4>1 DEF SizesFit
    <3>2. CASE w.area = "ns"
      <4>1. e.ns = Effect(d.ns, w) /\ e.ks = d.ks BY SMTT(60), <3>2, ApplyNs
      <4>2. w.put => Fits(w.value) BY <2>3, <3>2
      <4>3. \A y \in DOMAIN Effect(d.ns, w) : Fits(Effect(d.ns, w)[y]) BY <4>2, <1>EffectFits DEF SizesFit
      <4> QED BY <4>1, <4>3 DEF SizesFit
    <3>3. CASE w.area = "ks"
      <4>1. e.ns = d.ns /\ e.ks = Effect(d.ks, w) BY SMTT(60), <3>3, ApplyKs
      <4>2. w.put => Fits(w.value) BY <2>3, <3>3
      <4>3. \A y \in DOMAIN Effect(d.ks, w) : Fits(Effect(d.ks, w)[y]) BY <4>2, <1>EffectFits DEF SizesFit
      <4> QED BY <4>1, <4>3 DEF SizesFit
    <3> QED BY <3>1, <3>2, <3>3 DEF Areas
  <2> QED BY <2>4, <2>5 DEF s
<1>WriteOneSized. ASSUME NEW d, NEW q, WritesGood(q), q # <<>>, NEW R, OneSized(d, q, R),
                         \A i \in 2..Len(q) : q[i].area # "pairs", NEW e, e = Apply(d, Head(q))
                  PROVE  OneSized(e, Tail(q), R)
  <2> USE <1>WriteOneSized
  <2> DEFINE s == Tail(q)
             n == Len(q)
  <2>1. /\ n \in Nat /\ n >= 1 /\ Len(s) = n - 1 /\ Head(q) = q[1] /\ WritesGood(s)
        /\ \A i \in 1..Len(s) : i + 1 \in 2..n /\ s[i] = q[i + 1]
    <3>1. n \in Nat
      <4>1. PICK S : q \in Seq(S) BY DEF WritesGood
      <4> QED BY SMTT(60), <4>1
    <3> QED BY <3>1, TailGood
  <2> USE <2>1
  <2>2. n = 1 \/ n = 2 \/ n = 3 BY DEF OneSized
  <2>3. PICK S : s \in Seq(S) BY DEF WritesGood
  <2> HIDE DEF s, n
  <2>4. e = Apply(d, q[1]) OBVIOUS
  <2>5. ASSUME s # <<>> PROVE s[1].area # "pairs"
    <3>1. 1 \in 1..Len(s) BY SMTT(60), <2>3, <2>5
    <3>2. 1 + 1 \in 2..n /\ s[1] = q[1 + 1] BY <3>1
    <3> QED BY <3>2 DEF n
  <2>6. CASE n = 1
    <3>1. Len(s) = 0 BY SMTT(60), <2>6
    <3>2. s = <<>> BY SMTT(60), <2>3, <3>1
    <3>3. CountedBut(e, R) BY SMTT(60), <2>4, <2>6 DEF OneSized, n
    <3> QED BY <3>2, <3>3 DEF OneSized, s
  <2>7. CASE n = 2
    <3>1. Len(s) = 1 /\ s[1] = q[2] BY SMTT(60), <2>7
    <3>2. CountedBut(Apply(e, q[2]), R) BY SMTT(60), <2>4, <2>7 DEF OneSized, n
    <3>3. OneSized(e, s, R) BY <2>5, <3>1, <3>2 DEF OneSized
    <3> QED BY <3>3 DEF s
  <2>8. CASE n = 3
    <3>1. Len(s) = 2 /\ s[1] = q[2] /\ s[2] = q[3] BY SMTT(60), <2>8
    <3>2. CountedBut(Apply(Apply(e, q[2]), q[3]), R) BY SMTT(60), <2>4, <2>8 DEF OneSized, n
    <3>3. OneSized(e, s, R) BY <2>5, <3>1, <3>2 DEF OneSized
    <3> QED BY <3>3 DEF s
  <2> QED BY <2>2, <2>6, <2>7, <2>8
(* Removing a whole uuid.                                                  *)
<1>CoveredTail. ASSUME NEW q, WritesGood(q), q # <<>>, NEW area, NEW Y, Covers(q, area, Y), NEW Z, Z \subseteq Y,
                       q[1].area = area => Z \cap q[1].at = {}
                PROVE  Covers(Tail(q), area, Z)
  <2> USE <1>CoveredTail
  <2> DEFINE s == Tail(q)
  <2>1. \A i \in 2..Len(q) : i - 1 \in 1..Len(s) /\ s[i - 1] = q[i] BY TailGood
  <2>2. \A i \in 1..Len(q) : i # 1 => i \in 2..Len(q) BY SMTT(60)
  <2> HIDE DEF s
  <2>3. ASSUME NEW y \in Z PROVE \E i \in 1..Len(s) : s[i].area = area /\ y \in s[i].at
    <3>1. PICK i \in 1..Len(q) : q[i].area = area /\ y \in q[i].at BY DEF Covers
    <3>2. i # 1 BY <3>1
    <3>3. i - 1 \in 1..Len(s) /\ s[i - 1] = q[i] BY <2>1, <2>2, <3>2
    <3>4. PICK j \in 1..Len(s) : s[j] = q[i] BY <3>3
    <3> QED BY <3>1, <3>4
  <2>4. Covers(s, area, Z) BY <2>3 DEF Covers
  <2> QED BY <2>4 DEF s
<1>AlikeWithout. ASSUME NEW f, NEW X, NEW u, \A y \in X : y[1] = u, NEW z, z # u
                 PROVE  Alike(f, Without(f, X), z)
  BY <1>AlikeWithout DEF Alike, Without, Store!Without
<1>WriteEachSized. ASSUME NEW d, DiskGood(d), NEW q, WritesGood(q), q # <<>>, NEW u, NEW R, EachSized(d, q, u, R),
                          NEW e, e = Apply(d, Head(q))
                   PROVE  EachSized(e, Tail(q), u, R)
  <2> USE <1>WriteEachSized
  <2> DEFINE w == q[1]
             s == Tail(q)
             X == w.at
  <2>1. w.area \in Areas /\ e = Apply(d, w) BY TailGood
  <2> USE <2>1
  <2>2. 1 \in 1..Len(q) /\ \A i \in 1..Len(s) : i + 1 \in 1..Len(q) /\ s[i] = q[i + 1]
    BY SMTT(60), TailGood
  <2>3. ~w.put /\ \A y \in X : IF w.area = "ns" THEN y = u ELSE y[1] = u
    BY <2>2 DEF EachSized, DeletesOf
  <2> USE <2>3
  <2>4. DeletesOf(s, u)
    <3>1. DeletesOf(q, u) BY DEF EachSized
    <3> HIDE DEF s
    <3>2. ASSUME NEW i \in 1..Len(s)
          PROVE  ~s[i].put /\ \A y \in s[i].at : IF s[i].area = "ns" THEN y = u ELSE y[1] = u
      <4>1. PICK j \in 1..Len(q) : s[i] = q[j] BY <2>2
      <4>2. ~q[j].put /\ \A y \in q[j].at : IF q[j].area = "ns" THEN y = u ELSE y[1] = u
        BY <3>1 DEF DeletesOf
      <4> QED BY <4>1, <4>2
    <3> QED BY <3>2 DEF DeletesOf
  <2>5. \A f : Effect(f, w) = Without(f, X) BY DEF Effect
  <2>6. /\ Covers(q, "pairs", Own(d, u)) /\ Covers(q, "ks", KeySizes(d, u))
        /\ Covers(q, "ns", DOMAIN d.ns \cap {u})
        /\ \A v : v \notin R /\ v # u => Counted(d, v)
    BY DEF EachSized
  <2> USE <2>6
  <2> SUFFICES /\ \A v : v \notin R /\ v # u => Counted(e, v)
               /\ Covers(s, "pairs", Own(e, u)) /\ Covers(s, "ks", KeySizes(e, u))
               /\ Covers(s, "ns", DOMAIN e.ns \cap {u})
    BY <2>4 DEF EachSized
  <2>7. \A f : DOMAIN Without(f, X) = DOMAIN f \ X BY DEF Without, Store!Without
  <2> HIDE DEF w, X, s
  <2>9. CASE w.area = "pairs"
    <3>1. e.pairs = Without(d.pairs, X) /\ e.ns = d.ns /\ e.ks = d.ks
      <4>1. e.pairs = Effect(d.pairs, w) /\ e.ns = d.ns /\ e.ks = d.ks BY SMTT(60), <2>9, ApplyPairs
      <4> QED BY <2>5, <4>1
    <3>2. ASSUME NEW v, v \notin R, v # u PROVE Counted(e, v)
      <4>1. Counted(d, v) BY <3>2
      <4>2. \A y \in X : y[1] = u BY <2>9
      <4>3. Alike(d.pairs, Without(d.pairs, X), v) BY <3>2, <4>2, <1>AlikeWithout
      <4>4. Alike(d.ks, d.ks, v) BY DEF Alike
      <4> QED BY <3>1, <4>1, <4>3, <4>4, AlikeElse
    <3>3. Own(e, u) \subseteq Own(d, u) /\ Own(e, u) \cap X = {} /\ KeySizes(e, u) = KeySizes(d, u)
      BY <2>7, <3>1 DEF Own, KeySizes
    <3>4. Covers(s, "pairs", Own(e, u)) BY <3>3, <1>CoveredTail DEF s, X, w
    <3>5. Covers(s, "ks", KeySizes(d, u)) BY <2>9, <1>CoveredTail DEF s, X, w
    <3>6. Covers(s, "ns", DOMAIN d.ns \cap {u}) BY <2>9, <1>CoveredTail DEF s, X, w
    <3> QED BY <3>1, <3>2, <3>3, <3>4, <3>5, <3>6
  <2>10. CASE w.area = "ns"
    <3>1. e.pairs = d.pairs /\ e.ns = Without(d.ns, X) /\ e.ks = d.ks
      <4>1. e.pairs = d.pairs /\ e.ns = Effect(d.ns, w) /\ e.ks = d.ks BY SMTT(60), <2>10, ApplyNs
      <4> QED BY <2>5, <4>1
    <3>2. ASSUME NEW v, v \notin R, v # u PROVE Counted(e, v)
      <4>1. Counted(d, v) BY <3>2
      <4>2. v \notin X BY <2>10, <3>2
      <4>3. get_metadata_size(Without(d.ns, X), v) = get_metadata_size(d.ns, v)
        BY <4>2 DEF get_metadata_size, Without, Store!Without
      <4>4. Alike(d.ks, d.ks, v) /\ Alike(d.pairs, d.pairs, v) BY DEF Alike
      <4> QED BY <3>1, <4>1, <4>3, <4>4, AlikeElse
    <3>3. Own(e, u) = Own(d, u) /\ KeySizes(e, u) = KeySizes(d, u) BY <3>1 DEF Own, KeySizes
    <3>4. Covers(s, "pairs", Own(d, u)) BY <2>10, <1>CoveredTail DEF s, X, w
    <3>5. Covers(s, "ks", KeySizes(d, u)) BY <2>10, <1>CoveredTail DEF s, X, w
    <3>6. Covers(s, "ns", DOMAIN e.ns \cap {u})
      <4>1. DOMAIN e.ns \cap {u} \subseteq DOMAIN d.ns \cap {u} /\ (DOMAIN e.ns \cap {u}) \cap X = {}
        BY <2>7, <3>1
      <4> QED BY <4>1, <1>CoveredTail DEF s, X, w
    <3> QED BY <3>2, <3>3, <3>4, <3>5, <3>6
  <2>11. CASE w.area = "ks"
    <3>1. e.pairs = d.pairs /\ e.ns = d.ns /\ e.ks = Without(d.ks, X)
      <4>1. e.pairs = d.pairs /\ e.ns = d.ns /\ e.ks = Effect(d.ks, w) BY SMTT(60), <2>11, ApplyKs
      <4> QED BY <2>5, <4>1
    <3>2. ASSUME NEW v, v \notin R, v # u PROVE Counted(e, v)
      <4>1. Counted(d, v) BY <3>2
      <4>2. \A y \in X : y[1] = u BY <2>11
      <4>3. Alike(d.ks, Without(d.ks, X), v) BY <3>2, <4>2, <1>AlikeWithout
      <4>4. Alike(d.pairs, d.pairs, v) BY DEF Alike
      <4> QED BY <3>1, <4>1, <4>3, <4>4, AlikeElse
    <3>3. KeySizes(e, u) \subseteq KeySizes(d, u) /\ KeySizes(e, u) \cap X = {} /\ Own(e, u) = Own(d, u)
      BY <2>7, <3>1 DEF Own, KeySizes
    <3>4. Covers(s, "ks", KeySizes(e, u)) BY <3>3, <1>CoveredTail DEF s, X, w
    <3>5. Covers(s, "pairs", Own(d, u)) BY <2>11, <1>CoveredTail DEF s, X, w
    <3>6. Covers(s, "ns", DOMAIN d.ns \cap {u}) BY <2>11, <1>CoveredTail DEF s, X, w
    <3> QED BY <3>1, <3>2, <3>3, <3>4, <3>5, <3>6
  <2> QED BY <2>9, <2>10, <2>11 DEF Areas
<1> SUFFICES ASSUME StorageInv, SizeInv, Write PROVE SizeInv' OBVIOUS
<1>1. /\ todo # <<>> /\ disk' = Apply(disk, Head(todo)) /\ todo' = Tail(todo)
      /\ UNCHANGED <<backup, snap, tmp, call, phase, clean>>
  BY DEF Write
<1> USE <1>1
<1>2. call.op \in WriteOps /\ WritesGood(todo) /\ Left(todo, disk.pairs, call) /\ DiskGood(disk)
  BY DEF StorageInv, CallGood, DisksGood
<1> USE <1>2
<1>3. SizesFit(disk') /\ WritesFit(todo')
  BY <1>WriteFits DEF SizeInv
<1>4. ASSUME clean PROVE SizesLeft(disk', todo', call, Ranged)
  <2>1. SizesLeft(disk, todo, call, Ranged) BY <1>4 DEF SizeInv, DiskSized
  <2>2. CASE call.op = "remove_uuid"
    <3>1. EachSized(disk, todo, call.uuid, Ranged) BY <2>1, <2>2 DEF SizesLeft
    <3>2. EachSized(disk', todo', call.uuid, Ranged) BY <3>1, <1>WriteEachSized
    <3> QED BY <2>2, <3>2 DEF SizesLeft
  <2>3. CASE call.op # "remove_uuid"
    <3>1. OneSized(disk, todo, Ranged) BY <2>1, <2>3 DEF SizesLeft
    <3>2. \A i \in 2..Len(todo) : todo[i].area # "pairs" BY <2>3 DEF Left, OneLeft
    <3>3. OneSized(disk', todo', Ranged) BY SMTT(60), <3>1, <3>2, <1>WriteOneSized
    <3> QED BY <2>3, <3>3 DEF SizesLeft
  <2> QED BY <2>2, <2>3
<1>5. clean' => DiskSized' BY <1>4 DEF DiskSized
<1>6. \A d : (Copied(d)' => Copied(d)) /\ (Right(d) => Right(d)') BY DEF Copied, Right
<1> QED BY <1>3, <1>5, <1>6 DEF SizeInv

(* Steps of create_snapshot and load_snapshot: what each puts where.  The  *)
(* database is replaced by an empty one or by a copy, but for the parts    *)
(* that a failing undump leaves; copies are made of a database that is     *)
(* counted.                                                                *)
LEMMA FileSizes ==
    ASSUME StorageInv, SizeInv, call.op \in {"create_snapshot", "load_snapshot"},
           call' \in {call, NoCall}, UNCHANGED <<todo, clean>>, SizesFit(disk'),
           phase' # "failed" =>
              disk' = EmptyDisk \/ Copied(disk') \/ (disk' = disk /\ phase # "failed"),
           \A d \in backup' : d \in backup \/ (d = disk /\ phase # "failed"),
           \A f \in snap' \cup tmp' :
              \/ f \in snap \cup tmp \/ f = File(EmptyDisk, FALSE)
              \/ f = File(disk, TRUE) /\ phase # "failed"
              \/ call.op = "load_snapshot" /\ f = call.data,
           AtMostOne(backup'), AtMostOne(snap'), AtMostOne(tmp')
    PROVE  SizeInv'
<1>1. call.op \notin WriteOps /\ call'.op \notin WriteOps BY SMTT(60) DEF WriteOps, NoCall
<1>2. todo' = <<>> BY <1>1 DEF StorageInv, CallGood
<1>3. WritesFit(todo') BY <1>2, NoWrites
<1>4. phase # "failed" => Right(disk) BY <1>1 DEF SizeInv, DiskSized, Right
<1>5. phase' # "failed" => Right(disk') BY <1>4, EmptyRight DEF SizeInv
<1>6. clean' => DiskSized' BY <1>1, <1>5 DEF DiskSized, Right
<1> DEFINE none == File(EmptyDisk, FALSE)
           dump == File(disk, TRUE)
<1>7. none.disk = EmptyDisk /\ none.whole = FALSE /\ dump.disk = disk /\ dump.whole = TRUE BY DEF File
<1>14. \A f \in snap' \cup tmp' :
          f \in snap \cup tmp \/ f = none \/ (f = dump /\ phase # "failed") \/ (call.op = "load_snapshot" /\ f = call.data)
  OBVIOUS
<1> HIDE DEF none, dump
<1>8. call'.op = "load_snapshot" => call.op = "load_snapshot" /\ call' = call BY SMTT(60) DEF NoCall
<1>9. ASSUME NEW d, Copied(d)' PROVE Copied(d) \/ d = EmptyDisk \/ (d = disk /\ phase # "failed")
  <2>1. CASE d \in backup' BY <2>1 DEF Copied
  <2>2. CASE \E f \in snap' \cup tmp' : d = f.disk
    <3>1. PICK f \in snap' \cup tmp' : d = f.disk BY <2>2
    <3>2. CASE f \in snap \cup tmp BY <3>1, <3>2 DEF Copied
    <3>3. CASE f = none \/ (f = dump /\ phase # "failed") BY <1>7, <3>1, <3>3
    <3>4. CASE call.op = "load_snapshot" /\ f = call.data BY <3>1, <3>4 DEF Copied
    <3> QED BY <1>14, <3>2, <3>3, <3>4
  <2>3. CASE call'.op = "load_snapshot" /\ d = call'.data.disk BY <1>8, <2>3 DEF Copied
  <2> QED BY <1>9, <2>1, <2>2, <2>3 DEF Copied
<1>10. \A d : Right(d) => Right(d)' BY DEF Right
<1>11. \A d : Copied(d)' => Right(d)' BY <1>4, <1>9, <1>10, EmptyRight DEF SizeInv
<1>12. ASSUME NEW f \in snap' \cup tmp' PROVE f.whole \in BOOLEAN
  <2>1. CASE f \in snap \cup tmp BY <2>1 DEF SizeInv
  <2>2. CASE f = none \/ f = dump BY <1>7, <2>2
  <2>3. CASE call.op = "load_snapshot" /\ f = call.data BY <2>3 DEF SizeInv
  <2> QED BY <1>14, <2>1, <2>2, <2>3
<1>13. call'.op = "load_snapshot" => call'.data.whole \in BOOLEAN BY <1>8 DEF SizeInv
<1> QED BY <1>3, <1>6, <1>11, <1>12, <1>13 DEF SizeInv

LEMMA SnapshotSizes ==
    ASSUME StorageInv, SizeInv, create_snapshot
    PROVE  SizeInv'
<1>1. /\ call.op = "create_snapshot" /\ call' \in {call, NoCall} /\ phase # "failed" /\ disk' = disk
      /\ UNCHANGED <<todo, clean, backup, tmp>>
      /\ snap' \in {{File(EmptyDisk, FALSE)}, {File(disk, TRUE)}}
  BY DEF create_snapshot, Returns
<1>2. SizesFit(disk') /\ AtMostOne(backup') /\ AtMostOne(snap') /\ AtMostOne(tmp')
  BY <1>1 DEF SizeInv, AtMostOne
<1> QED BY <1>1, <1>2, FileSizes

LEMMA LoadSizes ==
    ASSUME StorageInv, SizeInv, load_snapshot
    PROVE  SizeInv'
<1> USE DEF Goto, Returns
<1>1. call.op = "load_snapshot" BY DEF load_snapshot
<1> USE <1>1
<1>2. AtMostOne(backup) /\ AtMostOne(snap) /\ AtMostOne(tmp) /\ \A x : AtMostOne({}) /\ AtMostOne({x})
  BY DEF SizeInv, AtMostOne
<1> USE <1>2
<1>3. SizesFit(disk) /\ SizesFit(EmptyDisk) /\ \A d : Copied(d) => SizesFit(d)
  BY EmptyRight DEF SizeInv, Right
<1> USE <1>3
<1>4. Copied(call.data.disk) BY DEF Copied
<1>5. CASE SaveData \/ MoveAside \/ MoveFails
  <2>1. call' \in {call, NoCall} /\ UNCHANGED <<todo, clean, snap>> /\ phase # "failed" /\ disk' \in {disk, EmptyDisk}
    BY <1>5 DEF SaveData, MoveAside, MoveFails
  <2>2. backup' \in {backup, {disk}} /\ tmp' \in {tmp, {call.data}}
    BY <1>5 DEF SaveData, MoveAside, MoveFails
  <2> QED BY <2>1, <2>2, FileSizes
<1>6. CASE Undump \/ UndumpFails
  <2>1. call' = call /\ UNCHANGED <<todo, clean, backup, snap, tmp>>
    BY <1>6 DEF Undump, UndumpFails
  <2>2. SizesFit(disk')
    <3>1. DiskGood(call.data.disk) /\ SizesFit(call.data.disk) BY <1>4 DEF StorageInv, CallGood
    <3>2. disk' = call.data.disk \/ disk' \in Parts(call.data.disk) BY <1>6 DEF Undump, UndumpFails
    <3> QED BY <3>1, <3>2, PartsFit
  <2>3. phase' # "failed" => Copied(disk') BY <1>4, <1>6 DEF Undump, UndumpFails
  <2> QED BY <2>1, <2>2, <2>3, FileSizes
<1>7. CASE DropBackup \/ DropSnapshot \/ KeepSnapshot \/ DropData
  <2>1. call' \in {call, NoCall} /\ UNCHANGED <<todo, clean, disk>> /\ phase # "failed"
    BY <1>7 DEF DropBackup, DropSnapshot, KeepSnapshot, DropData
  <2>2. backup' \in {backup, {}} /\ snap' \in {snap, {}, tmp} /\ tmp' \in {tmp, {}}
    BY <1>7 DEF DropBackup, DropSnapshot, KeepSnapshot, DropData
  <2> QED BY <2>1, <2>2, FileSizes
<1>8. CASE Wipe \/ PutBack
  <2>1. call' = call /\ UNCHANGED <<todo, clean, snap, tmp>> /\ backup' \in {backup, {}}
    BY <1>8 DEF Wipe, PutBack
  <2>2. disk' = EmptyDisk \/ Copied(disk')
    <3>1. CASE Wipe BY <3>1 DEF Wipe
    <3>2. CASE PutBack
      <4>1. backup # {} BY <3>2 DEF StorageInv, LoadGood, PutBack
      <4>2. disk' \in backup BY <3>2, <4>1 DEF PutBack
      <4> QED BY <4>2 DEF Copied
    <3> QED BY <1>8, <3>1, <3>2
  <2> QED BY <2>1, <2>2, FileSizes
<1> QED BY <1>5, <1>6, <1>7, <1>8 DEF load_snapshot

(* A call returns when its writes are done, ...                            *)
LEMMA NothingLeft ==
    ASSUME NEW d, NEW c, NEW R, SizesLeft(d, <<>>, c, R)
    PROVE  CountedBut(d, R)
<1>1. CASE c.op = "remove_uuid" BY <1>1, EachDone DEF SizesLeft
<1>2. CASE c.op # "remove_uuid"
  <2>1. OneSized(d, <<>>, R) BY <1>2 DEF SizesLeft
  <2>2. Len(<<>>) = 0 BY SMTT(60)
  <2> QED BY SMTT(60), <2>1, <2>2 DEF OneSized
<1> QED BY <1>1, <1>2

LEMMA ReturnSizes ==
    ASSUME StorageInv, SizeInv, Return
    PROVE  SizeInv'
<1>1. /\ call' = NoCall /\ todo = <<>> /\ todo' = todo /\ UNCHANGED <<disk, backup, snap, tmp, phase, clean>>
      /\ call # NoCall /\ call.op \notin {"create_snapshot", "load_snapshot"}
  BY DEF Return, Returns
<1> USE <1>1
<1>2. call.op \in WriteOps BY DEF StorageInv, CallGood, Ops
<1>3. call'.op \notin WriteOps /\ call'.op # "load_snapshot" BY DEF NoCall, WriteOps
<1>4. clean => CountedBut(disk, Ranged) BY <1>2, NothingLeft DEF SizeInv, DiskSized
<1>5. clean' => DiskSized' BY <1>3, <1>4 DEF DiskSized
<1>6. \A d : (Copied(d)' => Copied(d)) /\ (Right(d) => Right(d)') BY <1>3 DEF Copied, Right
<1> QED BY <1>3, <1>5, <1>6 DEF SizeInv

(* ... and a crash that clean allows comes before the first of them, or    *)
(* after the last.                                                         *)
LEMMA CrashSizes ==
    ASSUME StorageInv, SizeInv, CrashStorage
    PROVE  SizeInv'
<1>1. /\ call' = NoCall /\ todo' = <<>> /\ phase' = "idle" /\ UNCHANGED <<backup, snap, tmp>>
      /\ disk' \in IF phase = "moved" THEN Parts(call.data.disk) ELSE {disk}
      /\ clean' => /\ clean /\ phase \notin {"moved", "failed"}
                   /\ todo = <<>> \/ (Head(todo).area = "pairs" /\ call.op # "remove_uuid")
  BY DEF CrashStorage
<1> USE <1>1
<1>2. call'.op \notin WriteOps /\ call'.op # "load_snapshot" BY DEF NoCall, WriteOps
<1>3. WritesFit(todo') BY NoWrites
<1>4. SizesFit(disk')
  <2>1. CASE phase = "moved"
    <3>1. call.op = "load_snapshot" BY <2>1 DEF StorageInv, CallGood, LoadPhases
    <3>2. DiskGood(call.data.disk) BY <3>1 DEF StorageInv, CallGood
    <3>3. SizesFit(call.data.disk) BY <3>1 DEF SizeInv, Copied, Right
    <3> QED BY <2>1, <3>2, <3>3, PartsFit
  <2>2. CASE phase # "moved" BY <2>2 DEF SizeInv
  <2> QED BY <2>1, <2>2
<1>5. ASSUME clean' PROVE CountedBut(disk', Ranged)
  <2>1. clean /\ phase # "failed" /\ disk' = disk /\ DiskSized BY <1>5 DEF SizeInv
  <2> USE <2>1
  <2>2. CASE call.op \in WriteOps
    <3>1. SizesLeft(disk, todo, call, Ranged) BY <2>2 DEF DiskSized
    <3>2. CASE todo = <<>> BY <3>1, <3>2, NothingLeft
    <3>3. CASE todo # <<>>
      <4>1. Head(todo).area = "pairs" /\ call.op # "remove_uuid" BY <1>5, <3>3
      <4>2. Head(todo) = todo[1] BY <3>3, TailGood DEF StorageInv
      <4> QED BY <3>1, <3>3, <4>1, <4>2 DEF SizesLeft, OneSized
    <3> QED BY <3>2, <3>3
  <2>3. CASE call.op \notin WriteOps BY <2>3 DEF DiskSized
  <2> QED BY <2>2, <2>3
<1>6. clean' => DiskSized' BY <1>2, <1>5 DEF DiskSized
<1>7. \A d : (Copied(d)' => Copied(d)) /\ (Right(d) => Right(d)') BY <1>2 DEF Copied, Right
<1> QED BY <1>2, <1>3, <1>4, <1>6, <1>7 DEF SizeInv

(* The database after the first start is counted: two pairs of one uuid.   *)
LEMMA FirstCounted == DiskGood(FirstDisk) => SizesFit(FirstDisk) /\ CountedBut(FirstDisk, Ranged)
<1> DEFINE a == <<State, Stable>>
           b == <<State, Local>>
           d == FirstDisk
           i == SizeOf(Stable, 0)
           j == SizeOf(Local, 0)
<1>1. a[1] = State /\ a[2] = Stable /\ b[1] = State /\ b[2] = Local BY SMTT(60)
<1>2. a # b BY SMTT(60) DEF Stable, Local
<1>3. Fits(i) /\ Fits(j) BY SizesAssumption
<1>4. /\ d.pairs = [x \in {a, b} |-> 0] /\ d.ns = [u \in {State} |-> (i + j) % Word]
      /\ d.ks = [x \in {a, b} |-> SizeOf(x[2], 0)]
  BY DEF FirstDisk
<1> HIDE DEF a, b, d, i, j
<1>5. i \in Int /\ j \in Int /\ i + j \in Int
  <2>1. i \in Int /\ j \in Int BY <1>3, FitsInt
  <2> QED BY SMTT(60), <2>1
<1>6. d.ks[a] = i /\ d.ks[b] = j /\ DOMAIN d.ks = {a, b} BY <1>1, <1>4 DEF i, j
<1>7. SizesFit(d) BY <1>3, <1>4, <1>5, <1>6, FitsInt DEF SizesFit
<1>8. ASSUME NEW u, u # State PROVE Counted(d, u)
  <2>1. Own(d, u) = {} /\ KeySizes(d, u) = {} /\ u \notin DOMAIN d.ns
    BY <1>1, <1>4, <1>6, <1>8 DEF Own, KeySizes
  <2> QED BY <2>1, CountedEmpty
<1>9. ASSUME DiskGood(d) PROVE Counted(d, State)
  <2>1. Own(d, State) = {a, b} /\ KeySizes(d, State) = {a, b} BY <1>1, <1>4, <1>6 DEF Own, KeySizes
  <2> DEFINE f == Sized(d, State)
  <2>2. f[a] = i /\ f[b] = j
    <3>1. d.pairs[a] = 0 /\ d.pairs[b] = 0 BY <1>4
    <3>2. f[a] = SizeOf(a[2], d.pairs[a]) /\ f[b] = SizeOf(b[2], d.pairs[b]) BY <2>1, SizedFacts
    <3> QED BY <1>1, <3>1, <3>2 DEF i, j
  <2>3. IsFiniteSet({a, b}) /\ IsFiniteSet({b}) BY <1>9, <2>1, SizedFacts, FS_Singleton
  <2>4. Total(d, State) = SumFunctionOnSet(f, {a, b}) BY <2>1 DEF Total
  <2> HIDE DEF f
  <2>5. IntOn(f, {a, b}) /\ IntOn(f, {b}) BY <1>5, <2>2 DEF IntOn
  <2>6. {a, b} \ {a} = {b} /\ {b} \ {b} = {} /\ a \in {a, b} /\ b \in {b} BY SMTT(60), <1>2
  <2>7. SumFunctionOnSet(f, {a, b}) = i + SumFunctionOnSet(f, {b}) BY SMTT(60), <2>2, <2>3, <2>5, <2>6, SumRemove
  <2>8. SumFunctionOnSet(f, {b}) = j + 0 BY SMTT(60), <2>2, <2>3, <2>5, <2>6, SumRemove, SumEmpty
  <2>9. Total(d, State) = i + j BY SMTT(60), <1>5, <2>4, <2>7, <2>8
  <2>10. get_metadata_size(d.ns, State) = (i + j) % Word BY <1>4 DEF get_metadata_size
  <2>11. \A x \in {a, b} : d.ks[x] = SizeOf(x[2], d.pairs[x]) BY <1>4
  <2> QED BY <2>1, <2>9, <2>10, <2>11 DEF Counted
<1> QED BY <1>7, <1>8, <1>9 DEF d, CountedBut

LEMMA InitSizes == Init => SizeInv
<1> SUFFICES ASSUME Init PROVE SizeInv OBVIOUS
<1>1. /\ disk = IF pbft THEN FirstDisk ELSE EmptyDisk
      /\ backup = {} /\ snap = {} /\ tmp = {} /\ call = NoCall /\ todo = <<>> /\ phase = "idle"
  BY DEF Init, RocksInit
<1> USE <1>1
<1>2. call.op \notin WriteOps /\ call.op # "load_snapshot" BY DEF NoCall, WriteOps
<1>3. DiskGood(disk) BY InitInv DEF Inv, StorageInv, DisksGood
<1>4. SizesFit(disk) /\ CountedBut(disk, Ranged)
  <2>1. CASE pbft
    <3>1. disk = FirstDisk BY <2>1
    <3> QED BY <1>3, <3>1, FirstCounted
  <2>2. CASE ~pbft
    <3>1. disk = EmptyDisk BY <2>2
    <3> QED BY <3>1, EmptyCounted
  <2> QED BY <2>1, <2>2
<1>5. WritesFit(todo) BY NoWrites
<1> QED BY <1>2, <1>4, <1>5 DEF SizeInv, DiskSized, Copied, AtMostOne

LEMMA StepSizes == Inv /\ SizeInv /\ [Next]_vars => SizeInv'
<1> SUFFICES ASSUME Inv, SizeInv, [Next]_vars PROVE SizeInv' OBVIOUS
<1>0. StorageInv /\ CallsGood(queue) BY DEF Inv
<1> USE <1>0
<1>1. ASSUME UNCHANGED rocksVars PROVE SizeInv'
  <2>1. UNCHANGED <<disk, backup, snap, tmp, call, todo, phase, clean>> BY <1>1 DEF rocksVars
  <2>2. \A d : (Copied(d)' => Copied(d)) /\ (Right(d) => Right(d)') BY <2>1 DEF Copied, Right
  <2>3. clean' => DiskSized' BY <2>1 DEF SizeInv, DiskSized
  <2> QED BY <2>1, <2>2, <2>3 DEF SizeInv
<1>2. ASSUME NEW m \in Messages, handle_checkpoint_message(m[1], m[2]) \/ local_checkpoint_reached(m[2])
      PROVE  SizeInv'
  <2>1. UNCHANGED rocksVars BY <1>2 DEF handle_checkpoint_message, local_checkpoint_reached, Handled
  <2> QED BY <1>1, <2>1
<1>3. CASE NextCall
  <2> DEFINE c == Head(queue)
  <2>1. GoodCall(c) /\ Begin(c) BY <1>3, HeadCall DEF NextCall
  <2> HIDE DEF c
  <2>2. c.op \in Ops /\ c.op # "load_snapshot" /\ CallFits(c, Ranged)
    BY <2>1 DEF GoodCall, CallFits, Ops, WriteOps
  <2> QED BY <2>1, <2>2, BeginSizes
<1>4. CASE OtherCall
  <2>1. ASSUME NEW c \in Calls, Begin(c) PROVE SizeInv'
    <3>1. c.op \in Ops /\ c.op # "load_snapshot" BY CallsAssumption DEF Ops, WriteOps
    <3>2. CallFits(c, Ranged) BY CallsAssumption, SizesAssumption DEF CallFits
    <3> QED BY <2>1, <3>1, <3>2, BeginSizes
  <2>2. ASSUME NEW d \in snap \cup {File(EmptyDisk, TRUE)},
               Begin([op |-> "load_snapshot", value |-> d.disk.pairs, data |-> d])
        PROVE  SizeInv'
    <3> DEFINE c == [op |-> "load_snapshot", value |-> d.disk.pairs, data |-> d]
    <3>1. Right(d.disk) /\ d.whole \in BOOLEAN
      <4>1. CASE d \in snap
        <5>1. Copied(d.disk) BY <4>1 DEF Copied
        <5> QED BY <4>1, <5>1 DEF SizeInv
      <4>2. CASE d = File(EmptyDisk, TRUE)
        <5>1. d.disk = EmptyDisk /\ d.whole = TRUE BY <4>2 DEF File
        <5> QED BY <5>1, EmptyRight
      <4> QED BY <4>1, <4>2
    <3>2. c.op = "load_snapshot" /\ c.data = d OBVIOUS
    <3>3. Begin(c) BY <2>2
    <3> HIDE DEF c
    <3>4. c.op \in Ops /\ CallFits(c, Ranged) BY <3>2 DEF Ops, CallFits
    <3> QED BY <3>1, <3>2, <3>3, <3>4, BeginSizes
  <2> QED BY <1>4, <2>1, <2>2 DEF OtherCall
<1>5. CASE StorageWorks
  <2>1. Write \/ Return \/ create_snapshot \/ load_snapshot BY <1>5 DEF StorageWorks, StorageStep
  <2> QED BY <2>1, WriteSizes, ReturnSizes, SnapshotSizes, LoadSizes
<1>6. CASE Crash BY <1>6, CrashSizes DEF Crash
<1>7. CASE UNCHANGED vars BY <1>1, <1>7 DEF vars
<1> QED BY <1>2, <1>3, <1>4, <1>5, <1>6, <1>7 DEF Next

LEMMA UpBoolean == Init => up \in BOOLEAN
<1> QED BY DEF Init

LEMMA UpStays == up \in BOOLEAN /\ [Next]_vars => up' \in BOOLEAN
<1> SUFFICES ASSUME up \in BOOLEAN, [Next]_vars PROVE up' \in BOOLEAN OBVIOUS
<1>1. CASE Crash BY <1>1 DEF Crash
<1>2. CASE ~Crash
  <2>1. up' = up BY <1>2 DEF Next, handle_checkpoint_message, local_checkpoint_reached, Handled, NextCall,
                          OtherCall, StorageWorks, vars
  <2> QED BY <2>1
<1> QED BY <1>1, <1>2

LEMMA SizesAlways == Spec => [](Inv /\ SizeInv /\ up \in BOOLEAN)
<1>1. Init => Inv /\ SizeInv /\ up \in BOOLEAN BY InitInv, InitSizes, UpBoolean
<1>2. (Inv /\ SizeInv /\ up \in BOOLEAN) /\ [Next]_vars => (Inv /\ SizeInv /\ up \in BOOLEAN)'
  BY StepInv, StepSizes, UpStays
<1> QED BY <1>1, <1>2, PTL DEF Spec

-----------------------------------------------------------------------------
(* The types of rocksdb_storage and of the checkpoint manager: every size  *)
(* in the database and in its copies fits in a uint32_t, there is at most  *)
(* one copy of each kind, and a call is in progress whenever load_snapshot *)
(* or create_snapshot is under way.                                        *)
THEOREM TypeOKTheorem == Spec => []TypeOK
<1>1. ASSUME Inv, SizeInv, up \in BOOLEAN PROVE TypeOK
  <2> USE <1>1
  <2>1. StorageInv /\ MemGood BY DEF Inv
  <2> USE <2>1
  <2>2. ASSUME NEW d, DiskGood(d), SizesFit(d) PROVE DiskOK(d)
    BY <2>2 DEF DiskOK, DiskGood, SizesFit, Areas
  <2>3. DiskOK(disk) BY <2>2 DEF StorageInv, DisksGood, SizeInv
  <2>4. \A d : Copied(d) => SizesFit(d) BY DEF SizeInv, Right
  <2>5. \A d \in backup : DiskOK(d)
    <3> SUFFICES ASSUME NEW d \in backup PROVE DiskOK(d) OBVIOUS
    <3>1. DiskGood(d) /\ Copied(d) BY DEF StorageInv, DisksGood, Copied
    <3> QED BY <2>2, <2>4, <3>1
  <2>6. \A f \in snap \cup tmp : DiskOK(f.disk) /\ f.whole \in BOOLEAN
    <3> SUFFICES ASSUME NEW f \in snap \cup tmp PROVE DiskOK(f.disk) /\ f.whole \in BOOLEAN OBVIOUS
    <3>1. DiskGood(f.disk) /\ Copied(f.disk) BY DEF StorageInv, DisksGood, Copied
    <3>2. f.whole \in BOOLEAN BY DEF SizeInv
    <3> QED BY <2>2, <2>4, <3>1, <3>2
  <2>7. ASSUME NEW S, AtMostOne(S) PROVE Cardinality(S) <= 1
    <3>1. CASE S = {}
      <4>1. Cardinality(S) = 0 BY <3>1, FS_EmptySet
      <4> QED BY SMTT(60), <4>1
    <3>2. CASE S # {}
      <4>1. PICK x : S = {x} BY <2>7, <3>2 DEF AtMostOne
      <4>2. Cardinality(S) = 1 BY <4>1, FS_Singleton
      <4> QED BY SMTT(60), <4>2
    <3> QED BY <3>1, <3>2
  <2>8. Cardinality(backup) <= 1 /\ Cardinality(snap) <= 1 /\ Cardinality(tmp) <= 1 BY <2>7 DEF SizeInv
  <2>9. phase \in {"idle", "dumping", "saved", "moved", "loaded", "dropped", "unlinked",
                   "failed", "wiped", "restored"}
    BY DEF StorageInv, CallGood, LoadPhases
  <2>10. phase # "idle" => call # NoCall /\ todo = <<>> BY DEF StorageInv, CallGood
  <2>11. mem.partial \subseteq {<<m[2], m[1]>> : m \in Messages} BY DEF MemGood, Evidence
  <2> QED BY <2>3, <2>5, <2>6, <2>8, <2>9, <2>10, <2>11 DEF TypeOK
<1> QED BY <1>1, SizesAlways, PTL

(* The sizes that create, update, remove and remove_uuid keep are exactly  *)
(* those of the pairs, of each uuid that remove_range is not used on and   *)
(* of each pair, for any sizes and any calls, as long as no crash came     *)
(* between the writes of a call.                                           *)
THEOREM SizesExactTheorem == Spec => []SizesExact
<1>1. ASSUME Inv, SizeInv PROVE SizesExact
  <2>1. SUFFICES ASSUME clean, call = NoCall, NEW u, u \notin Ranged
                 PROVE  LET own == {x \in DOMAIN disk.pairs : x[1] = u}
                        IN  /\ get_metadata_size(disk.ns, u)
                                  = SumFunction([x \in own |-> SizeOf(x[2], disk.pairs[x])]) % Word
                            /\ {x \in DOMAIN disk.ks : x[1] = u} = own
                            /\ \A x \in own : disk.ks[x] = SizeOf(x[2], disk.pairs[x])
    BY DEF SizesExact
  <2>2. call.op \notin WriteOps /\ phase = "idle"
    BY <1>1, <2>1 DEF NoCall, WriteOps, Inv, StorageInv, CallGood
  <2>3. Counted(disk, u) BY <1>1, <2>1, <2>2 DEF SizeInv, DiskSized, CountedBut
  <2>4. Total(disk, u) = SumFunction(Sized(disk, u)) BY SizedFacts DEF Total, SumFunction
  <2>5. get_metadata_size(disk.ns, u) = SumFunction(Sized(disk, u)) % Word BY <2>3, <2>4 DEF Counted
  <2> QED BY <2>3, <2>5 DEF Counted, Own, Sized, KeySizes
<1> QED BY <1>1, SizesAlways, PTL

=============================================================================
