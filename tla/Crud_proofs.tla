---------------------------- MODULE Crud_proofs ----------------------------
(***************************************************************************)
(* What holds of crud for any databases, keys, callers, limits and         *)
(* workloads: a deleted database leaves nothing behind, a subscriber       *)
(* misses no notification, the byte counters are those of the pairs, no    *)
(* database outgrows its limit, and the swarm promises no more storage     *)
(* than it has.                                                            *)
(***************************************************************************)
EXTENDS Crud, SumTheorems

USE ZenonT(60)

(* Storage, and every snapshot of it, has a table for each database *)
Clean(p, dt, tl) == DOMAIN dt = Dbs /\ NothingLeft(p, dt, tl)
CleanInv ==
    /\ Clean(perms, data, ttl)
    /\ \A s \in snapshots : Clean(s.perms, s.data, s.ttl)

(* Whoever has been notified is subscribed, and there is a path to each    *)
(* subscription: a key that is taken to be new, and starts at zero, has    *)
(* nobody who has been notified.                                           *)
SubsOK(m) ==
    /\ DOMAIN m = {"subs", "entries", "seq", "sent"}
    /\ DOMAIN m.sent \subseteq m.subs
    /\ \A x \in m.subs : Path(x) \in m.entries /\ Topic(x) \in DOMAIN m.seq
    /\ DOMAIN m.seq = Dbs \X Keys
Current(m, live) == \A x \in DOMAIN m.sent : x[3] \in live => m.sent[x] = m.seq[Topic(x)]
SubsInv == SubsOK(subs) /\ Current(subs, alive)

Inv == workload \in Workloads /\ CleanInv /\ SubsInv

-----------------------------------------------------------------------------
(* What mem_storage's operations do to the bytes of a database.  There are *)
(* finitely many pairs, because each was created.                          *)
NatOn(f, S) == \A x \in S : f[x] \in Nat
GoodPairs(f) == IsFiniteSet(DOMAIN f) /\ NatOn(f, DOMAIN f)
GoodDb(s) == GoodPairs(s.pairs) /\ DOMAIN s.pairs \subseteq Keys /\ s.bytes = PairBytes(s)

LEMMA PairsFacts ==
    ASSUME NEW f, GoodPairs(f), NEW K \in SUBSET DOMAIN f
    PROVE  /\ IsFiniteSet(K) /\ Cardinality(K) \in Nat /\ KeySize * Cardinality(K) \in Nat
           /\ IntOn(f, K) /\ SumFunctionOnSet(f, K) \in Nat
<1>1. IsFiniteSet(K) /\ IntOn(f, K) /\ \A x \in K : f[x] \in Nat
  BY SMTT(60), FS_Subset DEF GoodPairs, NatOn, IntOn
<1>2. Cardinality(K) \in Nat BY <1>1, FS_CardinalityType
<1>3. SumFunctionOnSet(f, K) \in Nat BY <1>1, SumNat
<1>4. KeySize * Cardinality(K) \in Nat BY SMTT(60), <1>2, SizesAssumption
<1> QED BY <1>1, <1>2, <1>3, <1>4

(* A pair is added, its value replaced, or pairs are removed.              *)
LEMMA PutNewSum ==
    ASSUME NEW f, GoodPairs(f), NEW k, k \notin DOMAIN f, NEW v \in Nat
    PROVE  /\ GoodPairs(Put(f, k, v)) /\ SumFunction(Put(f, k, v)) = SumFunction(f) + v
           /\ Cardinality(DOMAIN Put(f, k, v)) = Cardinality(DOMAIN f) + 1
<1> DEFINE g == Put(f, k, v)
           D == DOMAIN f
           E == D \cup {k}
<1>1. DOMAIN g = E /\ g[k] = v /\ (\A x \in D : g[x] = f[x]) /\ E \ {k} = D BY DEF Put
<1>2. IsFiniteSet(E) /\ Cardinality(E) = Cardinality(D) + 1
  BY FS_AddElement DEF GoodPairs
<1>3. GoodPairs(g) BY <1>1, <1>2 DEF GoodPairs, NatOn
<1> HIDE DEF g
<1>4. SumFunctionOnSet(g, E) = g[k] + SumFunctionOnSet(g, E \ {k})
  <2>1. IntOn(g, E) BY SMTT(60), <1>1, <1>3 DEF GoodPairs, NatOn, IntOn
  <2> QED BY SMTT(60), <1>2, <2>1, SumRemove
<1>5. SumFunctionOnSet(g, D) = SumFunctionOnSet(f, D)
  <2>1. SameOn(g, f, D) BY <1>1 DEF SameOn
  <2> QED BY <2>1, SumSame DEF GoodPairs
<1>6. SumFunctionOnSet(f, D) \in Nat BY PairsFacts
<1>7. SumFunction(g) = SumFunction(f) + v BY SMTT(60), <1>1, <1>4, <1>5, <1>6 DEF SumFunction
<1> QED BY <1>1, <1>2, <1>3, <1>7 DEF g

LEMMA PutOldSum ==
    ASSUME NEW f, GoodPairs(f), NEW k \in DOMAIN f, NEW v \in Nat
    PROVE  /\ GoodPairs(Put(f, k, v)) /\ DOMAIN Put(f, k, v) = DOMAIN f
           /\ SumFunction(Put(f, k, v)) = SumFunction(f) - f[k] + v
<1> DEFINE g == Put(f, k, v)
           D == DOMAIN f
           R == D \ {k}
<1>1. DOMAIN g = D /\ g[k] = v /\ (\A x \in R : g[x] = f[x]) BY DEF Put
<1>2. GoodPairs(g) BY <1>1 DEF GoodPairs, NatOn
<1> HIDE DEF g
<1>3. IsFiniteSet(D) /\ IntOn(f, D) /\ IntOn(g, D) /\ IsFiniteSet(R)
  BY SMTT(60), <1>1, <1>2, FS_Subset DEF GoodPairs, NatOn, IntOn
<1>4. SumFunctionOnSet(g, D) = g[k] + SumFunctionOnSet(g, R) BY SMTT(60), <1>3, SumRemove
<1>5. SumFunctionOnSet(f, D) = f[k] + SumFunctionOnSet(f, R) BY SMTT(60), <1>3, SumRemove
<1>6. SumFunctionOnSet(g, R) = SumFunctionOnSet(f, R)
  <2>1. SameOn(g, f, R) BY <1>1 DEF SameOn
  <2> QED BY <1>3, <2>1, SumSame
<1>7. SumFunctionOnSet(f, R) \in Nat /\ f[k] \in Nat BY PairsFacts DEF GoodPairs, NatOn
<1>8. SumFunction(g) = SumFunction(f) - f[k] + v
  BY SMTT(60), <1>1, <1>4, <1>5, <1>6, <1>7 DEF SumFunction
<1> QED BY <1>1, <1>2, <1>8 DEF g

LEMMA WithoutSum ==
    ASSUME NEW f, GoodPairs(f), NEW K \in SUBSET DOMAIN f
    PROVE  /\ GoodPairs(Without(f, K)) /\ DOMAIN Without(f, K) = DOMAIN f \ K
           /\ SumFunction(Without(f, K)) = SumFunction(f) - SumFunctionOnSet(f, K)
           /\ Cardinality(DOMAIN f \ K) = Cardinality(DOMAIN f) - Cardinality(K)
<1> DEFINE g == Without(f, K)
           D == DOMAIN f
           R == D \ K
<1>1. DOMAIN g = R /\ \A x \in R : g[x] = f[x] BY DEF Without
<1>2. IsFiniteSet(D) /\ IntOn(f, D) /\ IsFiniteSet(R) BY SMTT(60), FS_Subset DEF GoodPairs, NatOn, IntOn
<1>3. GoodPairs(g) BY <1>1, <1>2 DEF GoodPairs, NatOn
<1> HIDE DEF g
<1>4. SumFunctionOnSet(f, D) = SumFunctionOnSet(f, K) + SumFunctionOnSet(f, R)
  BY SMTT(60), <1>2, SumDifference
<1>5. SumFunctionOnSet(g, R) = SumFunctionOnSet(f, R)
  <2>1. SameOn(g, f, R) BY <1>1 DEF SameOn
  <2> QED BY <1>2, <2>1, SumSame
<1>6. SumFunctionOnSet(f, R) \in Nat /\ SumFunctionOnSet(f, K) \in Nat BY PairsFacts
<1>7. SumFunction(g) = SumFunction(f) - SumFunctionOnSet(f, K)
  BY SMTT(60), <1>1, <1>4, <1>5, <1>6 DEF SumFunction
<1>8. Cardinality(R) = Cardinality(D) - Cardinality(K)
  <2>1. Cardinality(R) = Cardinality(D) - Cardinality(D \cap K) BY <1>2, FS_Difference
  <2>2. D \cap K = K OBVIOUS
  <2> QED BY <2>1, <2>2
<1> QED BY <1>1, <1>3, <1>7, <1>8 DEF g

(* create, update and remove keep the byte counter exact.                  *)
LEMMA DbFacts == ASSUME NEW s, GoodDb(s) PROVE s.bytes \in Nat
<1>1. SumFunctionOnSet(s.pairs, DOMAIN s.pairs) \in Nat /\ KeySize * Cardinality(DOMAIN s.pairs) \in Nat
  BY PairsFacts DEF GoodDb
<1> QED BY SMTT(60), <1>1 DEF GoodDb, PairBytes, SumFunction

LEMMA CreateGood ==
    ASSUME NEW s, GoodDb(s), NEW k \in Keys, k \notin DOMAIN s.pairs, NEW v \in Nat
    PROVE  GoodDb(create(s, k, v)) /\ create(s, k, v).bytes = s.bytes + v + KeySize
<1> DEFINE f == s.pairs
           g == Put(f, k, v)
           t == create(s, k, v)
           n == Cardinality(DOMAIN f)
<1>1. GoodPairs(f) /\ DOMAIN f \subseteq Keys /\ s.bytes = SumFunction(f) + KeySize * n
  BY DEF GoodDb, PairBytes
<1>2. t.pairs = g /\ t.bytes = s.bytes + v + KeySize BY DEF create
<1>3. /\ GoodPairs(g) /\ DOMAIN g = DOMAIN f \cup {k}
      /\ SumFunction(g) = SumFunction(f) + v /\ Cardinality(DOMAIN g) = n + 1
  <2>1. DOMAIN g = DOMAIN f \cup {k} BY DEF Put
  <2>2. GoodPairs(g) /\ SumFunction(g) = SumFunction(f) + v /\ Cardinality(DOMAIN g) = n + 1
    BY <1>1, PutNewSum
  <2> QED BY <2>1, <2>2
<1>4. n \in Nat /\ KeySize * n \in Nat /\ SumFunction(f) \in Nat BY <1>1, PairsFacts DEF SumFunction
<1> HIDE DEF f, g, t, n
<1>5. KeySize * (n + 1) = KeySize * n + KeySize BY SMTT(60), <1>4, SizesAssumption
<1>6. t.bytes = SumFunction(g) + KeySize * (n + 1) BY SMTT(60), <1>1, <1>2, <1>3, <1>4, <1>5, SizesAssumption
<1>7. GoodDb(t) BY <1>1, <1>2, <1>3, <1>6 DEF GoodDb, PairBytes
<1> QED BY <1>2, <1>7 DEF t

LEMMA UpdateGood ==
    ASSUME NEW s, GoodDb(s), NEW k \in DOMAIN s.pairs, NEW v \in Nat
    PROVE  /\ GoodDb(update(s, k, v)) /\ s.pairs[k] \in Nat
           /\ update(s, k, v).bytes = s.bytes - s.pairs[k] + v
<1> DEFINE f == s.pairs
           g == Put(f, k, v)
           t == update(s, k, v)
           n == Cardinality(DOMAIN f)
<1>1. GoodPairs(f) /\ DOMAIN f \subseteq Keys /\ s.bytes = SumFunction(f) + KeySize * n
  BY DEF GoodDb, PairBytes
<1>2. t.pairs = g /\ t.bytes = s.bytes - f[k] + v BY DEF update
<1>3. /\ GoodPairs(g) /\ DOMAIN g = DOMAIN f /\ SumFunction(g) = SumFunction(f) - f[k] + v
      /\ Cardinality(DOMAIN g) = n
  BY <1>1, PutOldSum
<1>4. KeySize * n \in Nat /\ SumFunction(f) \in Nat /\ f[k] \in Nat
  BY <1>1, PairsFacts DEF SumFunction, GoodPairs, NatOn
<1> HIDE DEF g, t, n
<1>5. t.bytes = SumFunction(g) + KeySize * n BY SMTT(60), <1>1, <1>2, <1>3, <1>4
<1>6. GoodDb(t) BY <1>1, <1>2, <1>3, <1>5 DEF GoodDb, PairBytes
<1> QED BY <1>2, <1>4, <1>6 DEF t

LEMMA RemoveGood ==
    ASSUME NEW s, GoodDb(s), NEW K \in SUBSET DOMAIN s.pairs
    PROVE  /\ GoodDb(remove_all(s, K)) /\ remove_all(s, K).pairs = Without(s.pairs, K)
           /\ remove_all(s, K).bytes = s.bytes - SumFunctionOnSet(s.pairs, K) - KeySize * Cardinality(K)
<1> DEFINE f == s.pairs
           g == Without(f, K)
           t == remove_all(s, K)
           n == Cardinality(DOMAIN f)
           m == Cardinality(K)
           d == SumFunctionOnSet(f, K)
<1>1. GoodPairs(f) /\ DOMAIN f \subseteq Keys /\ s.bytes = SumFunction(f) + KeySize * n
  BY DEF GoodDb, PairBytes
<1>2. t.pairs = g /\ t.bytes = s.bytes - d - KeySize * m BY DEF remove_all
<1>3. /\ GoodPairs(g) /\ DOMAIN g \subseteq DOMAIN f
      /\ SumFunction(g) = SumFunction(f) - d /\ Cardinality(DOMAIN g) = n - m
  <2>1. K \in SUBSET DOMAIN f OBVIOUS
  <2>2. /\ GoodPairs(g) /\ DOMAIN g = DOMAIN f \ K /\ SumFunction(g) = SumFunction(f) - d
        /\ Cardinality(DOMAIN f \ K) = n - m
    BY <1>1, <2>1, WithoutSum
  <2> QED BY <2>2
<1>4. /\ n \in Nat /\ m \in Nat /\ KeySize * n \in Nat /\ KeySize * m \in Nat /\ d \in Nat
      /\ SumFunction(f) \in Nat
  BY <1>1, PairsFacts DEF SumFunction
<1> HIDE DEF f, g, t, n, m, d
<1>5. KeySize * (n - m) = KeySize * n - KeySize * m BY SMTT(60), <1>4, SizesAssumption
<1>6. t.bytes = SumFunction(g) + KeySize * (n - m) BY SMTT(60), <1>1, <1>2, <1>3, <1>4, <1>5
<1>7. GoodDb(t) BY <1>1, <1>2, <1>3, <1>6 DEF GoodDb, PairBytes
<1> QED BY <1>2, <1>7 DEF t, f, g, m, d

LEMMA EmptyGood == GoodDb(EmptyDb)
<1> DEFINE f == NoPairs
<1>1. DOMAIN f = {} BY DEF NoPairs
<1>2. GoodPairs(f) /\ Cardinality({}) = 0 BY <1>1, FS_EmptySet DEF GoodPairs, NatOn
<1>3. SumFunction(f) = 0 BY <1>1, SumEmpty DEF SumFunction
<1>4. EmptyDb.pairs = f /\ EmptyDb.bytes = 0 BY DEF EmptyDb
<1> HIDE DEF f
<1> QED BY SMTT(60), <1>1, <1>2, <1>3, <1>4, SizesAssumption DEF GoodDb, PairBytes

(* What the policies' definitions say of a set they return.                *)
LEMMA RandomFacts ==
    ASSUME NEW s, NEW k, NEW v, NEW max, NEW u \in BOOLEAN,
           NEW E \in random_keys_to_evict(s, k, v, max, u)
    PROVE  /\ E \in SUBSET DOMAIN s.pairs /\ (u => k \notin E)
           /\ SumFunctionOnSet([x \in get_keys(s) |-> get_key_size(s, x)], E)
                >= (IF u THEN v ELSE KeySize + v) - (max - s.bytes)
<1> DEFINE keys == get_keys(s) \ (IF u THEN {k} ELSE {})
<1>1. E \in SUBSET keys BY DEF random_keys_to_evict
<1>2. E \in SUBSET DOMAIN s.pairs BY <1>1 DEF get_keys
<1>3. u => k \notin E BY <1>1
<1>4. SumFunctionOnSet([x \in get_keys(s) |-> get_key_size(s, x)], E)
         >= (IF u THEN v ELSE KeySize + v) - (max - s.bytes)
  BY DEF random_keys_to_evict, JustEnough
<1> QED BY <1>2, <1>3, <1>4

LEMMA VolatileFacts ==
    ASSUME NEW s, NEW timed, NEW k, NEW v, NEW max, NEW u \in BOOLEAN,
           NEW E \in volatile_keys_to_evict(s, timed, k, v, max, u)
    PROVE  /\ E \in SUBSET DOMAIN s.pairs /\ (u => k \notin E)
           /\ SumFunctionOnSet(s.pairs, E)
                >= (IF u THEN v ELSE KeySize + v) - ((max - s.bytes) - (IF u THEN v ELSE 0))
<1> DEFINE items == (timed \cap get_keys(s)) \ (IF u THEN {k} ELSE {})
<1>1. E \in SUBSET items BY DEF volatile_keys_to_evict
<1>2. E \in SUBSET DOMAIN s.pairs BY <1>1 DEF get_keys
<1>3. u => k \notin E BY <1>1
<1>4. SumFunctionOnSet(s.pairs, E)
         >= (IF u THEN v ELSE KeySize + v) - ((max - s.bytes) - (IF u THEN v ELSE 0))
  BY DEF volatile_keys_to_evict, JustEnough
<1> QED BY <1>2, <1>3, <1>4

(* What a policy evicts makes room for the pair: it counts a pair for no   *)
(* more than remove gives back, and asks for no less than is needed.       *)
LEMMA EvictionMakesRoom ==
    ASSUME NEW r, NEW isUpdate \in BOOLEAN, NEW E \in keys_to_evict(r, isUpdate),
           GoodDb(data[r.db]), r.size \in Nat, perms[r.db].max \in Nat
    PROVE  /\ E \in SUBSET DOMAIN data[r.db].pairs
           /\ isUpdate => r.key \notin E
           /\ remove_all(data[r.db], E).bytes + r.size + (IF isUpdate THEN 0 ELSE KeySize)
                <= perms[r.db].max
<1> DEFINE s == data[r.db]
           f == s.pairs
           max == perms[r.db].max
           v == r.size
           extra == IF isUpdate THEN 0 ELSE KeySize
           size == [x \in get_keys(s) |-> get_key_size(s, x)]
           freed == SumFunctionOnSet(f, E)
           n == KeySize * Cardinality(E)
           timed == {k \in Keys : <<r.db, k>> \in DOMAIN ttl}
<1>1. GoodDb(s) /\ v \in Nat /\ max \in Nat OBVIOUS
<1> HIDE DEF s, max, v, timed
<1>2. GoodPairs(f) /\ s.bytes \in Nat BY <1>1, DbFacts DEF GoodDb
<1> DEFINE Room == /\ E \in SUBSET DOMAIN f /\ (isUpdate => r.key \notin E)
                   /\ remove_all(s, E).bytes + v + extra <= max
<1>3. ASSUME E \in SUBSET DOMAIN f, isUpdate => r.key \notin E,
             freed + n >= v + extra - (max - s.bytes)
      PROVE  Room
  <2>1. remove_all(s, E).bytes = s.bytes - freed - n BY <1>1, <1>3, RemoveGood
  <2>2. freed \in Nat /\ n \in Nat BY <1>2, <1>3, PairsFacts
  <2>3. extra \in Nat BY SizesAssumption
  <2> HIDE DEF extra, freed, n
  <2>4. remove_all(s, E).bytes + v + extra <= max BY SMTT(60), <1>1, <1>2, <1>3, <2>1, <2>2, <2>3
  <2> QED BY <1>3, <2>4
<1>4. ASSUME E \in random_keys_to_evict(s, r.key, v, max, isUpdate) PROVE Room
  <2>1. SumFunctionOnSet(size, E) >= (IF isUpdate THEN v ELSE KeySize + v) - (max - s.bytes)
    BY SMTT(60), <1>4, RandomFacts
  <2>2. E \in SUBSET DOMAIN f /\ (isUpdate => r.key \notin E) BY <1>4, RandomFacts
  <2>3. SumFunctionOnSet(size, E) = n + freed
    <3>1. IsFiniteSet(E) /\ IntOn(f, E) BY <1>2, <2>2, PairsFacts
    <3>2. \A x \in E : size[x] = KeySize + f[x] BY <2>2 DEF get_key_size, get_keys
    <3>3. KeySize \in Int BY SMTT(60), SizesAssumption
    <3> HIDE DEF size, f
    <3> QED BY SMTT(60), <3>1, <3>2, <3>3, SumShifted
  <2>4. freed \in Nat /\ n \in Nat BY <1>2, <2>2, PairsFacts
  <2> HIDE DEF size, freed, n
  <2>5. freed + n >= v + extra - (max - s.bytes)
    BY SMTT(60), <1>1, <1>2, <2>1, <2>3, <2>4, SizesAssumption
  <2> QED BY <1>3, <2>2, <2>5
<1>5. ASSUME E \in volatile_keys_to_evict(s, timed, r.key, v, max, isUpdate) PROVE Room
  <2>1. freed >= (IF isUpdate THEN v ELSE KeySize + v)
                    - ((max - s.bytes) - (IF isUpdate THEN v ELSE 0))
    BY SMTT(60), <1>5, VolatileFacts
  <2>2. E \in SUBSET DOMAIN f /\ (isUpdate => r.key \notin E) BY <1>5, VolatileFacts
  <2>3. freed \in Nat /\ n \in Nat BY <1>2, <2>2, PairsFacts
  <2> HIDE DEF freed, n
  <2>4. freed + n >= v + extra - (max - s.bytes)
    BY SMTT(60), <1>1, <1>2, <2>1, <2>3, SizesAssumption
  <2> QED BY <1>3, <2>2, <2>4
<1>6. \/ E \in random_keys_to_evict(s, r.key, v, max, isUpdate)
      \/ E \in volatile_keys_to_evict(s, timed, r.key, v, max, isUpdate)
  BY DEF keys_to_evict, s, v, max, timed
<1>7. Room BY <1>4, <1>5, <1>6
<1> QED BY <1>7 DEF s, v, max

-----------------------------------------------------------------------------
LEMMA SubscribeKeeps ==
    ASSUME NEW m, NEW live, SubsOK(m), Current(m, live), NEW x, Topic(x) \in Dbs \X Keys
    PROVE  SubsOK(subscribe(m, x)) /\ Current(subscribe(m, x), live)
<1>1. CASE x \in m.subs BY <1>1 DEF subscribe
<1>2. CASE x \notin m.subs
  <2> DEFINE n == subscribe(m, x)
             t == Topic(x)
             v == IF KnownDb(m, x[1]) /\ ~KnownTopic(m, t) THEN 0 ELSE m.seq[t]
  <2>1. /\ DOMAIN n = {"subs", "entries", "seq", "sent"}
        /\ n.subs = m.subs \cup {x} /\ n.entries = m.entries \cup {Path(x)} /\ n.sent = m.sent
        /\ n.seq = [m.seq EXCEPT ![t] = v]
    BY <1>2 DEF subscribe, SubsOK
  <2>2. \A y : Topic(Path(y)) = Topic(y) BY DEF Topic, Path
  <2>3. ASSUME NEW y \in DOMAIN m.sent, Topic(y) = t, v # m.seq[t] PROVE FALSE
    <3>1. Path(y) \in m.entries BY DEF SubsOK
    <3>2. KnownTopic(m, t) BY <2>2, <2>3, <3>1 DEF KnownTopic
    <3> QED BY <2>3, <3>2
  <2> HIDE DEF n, t, v
  <2>4. SubsOK(n) BY <2>1 DEF SubsOK, t
  <2>5. Current(n, live)
    <3> SUFFICES ASSUME NEW y \in DOMAIN m.sent, y[3] \in live PROVE m.sent[y] = n.seq[Topic(y)]
      BY <2>1 DEF Current
    <3>1. Topic(y) \in DOMAIN m.seq /\ m.sent[y] = m.seq[Topic(y)] BY DEF SubsOK, Current
    <3>2. CASE Topic(y) = t BY <2>1, <2>3, <3>1, <3>2
    <3>3. CASE Topic(y) # t BY <2>1, <3>1, <3>3
    <3> QED BY <3>2, <3>3
  <2> QED BY <2>4, <2>5 DEF n
<1> QED BY <1>1, <1>2

LEMMA UnsubscribeKeeps ==
    ASSUME NEW m, NEW live, SubsOK(m), Current(m, live), NEW x
    PROVE  SubsOK(unsubscribe(m, x)) /\ Current(unsubscribe(m, x), live)
<1> DEFINE n == unsubscribe(m, x)
<1>1. /\ DOMAIN n = {"subs", "entries", "seq", "sent"}
      /\ n.subs = m.subs \ {x} /\ n.entries = m.entries /\ n.seq = m.seq
      /\ n.sent = Restricted(m.sent, m.subs \ {x})
  BY DEF unsubscribe, SubsOK
<1> HIDE DEF n
<1>2. DOMAIN n.sent = DOMAIN m.sent \cap n.subs /\ \A y \in DOMAIN n.sent : n.sent[y] = m.sent[y]
  BY <1>1 DEF Restricted
<1>3. SubsOK(n) BY <1>1, <1>2 DEF SubsOK
<1>4. Current(n, live) BY <1>1, <1>2 DEF Current
<1> QED BY <1>3, <1>4 DEF n

LEMMA NotifyKeeps ==
    ASSUME NEW m, NEW live, SubsOK(m), Current(m, live), NEW t
    PROVE  SubsOK(notify_sessions(m, t, live)) /\ Current(notify_sessions(m, t, live), live)
<1>1. CASE ~KnownTopic(m, t) BY <1>1 DEF notify_sessions
<1>2. CASE KnownTopic(m, t)
  <2> DEFINE n == notify_sessions(m, t, live)
             told == {x \in m.subs : Topic(x) = t /\ x[3] \in live}
  <2>1. /\ DOMAIN n = {"subs", "entries", "seq", "sent"}
        /\ n.subs = m.subs /\ n.entries = m.entries /\ n.seq = [m.seq EXCEPT ![t] = @ + 1]
        /\ n.sent = [x \in DOMAIN m.sent \cup told |-> IF x \in told THEN m.seq[t] + 1 ELSE m.sent[x]]
    BY <1>2 DEF notify_sessions, SubsOK
  <2> HIDE DEF n
  <2>2. SubsOK(n) BY <2>1 DEF SubsOK
  <2>3. Current(n, live)
    <3> SUFFICES ASSUME NEW y \in DOMAIN m.sent \cup told, y[3] \in live
                 PROVE  n.sent[y] = n.seq[Topic(y)]
      BY <2>1 DEF Current
    <3>1. y \in m.subs /\ Topic(y) \in DOMAIN m.seq BY DEF SubsOK
    <3>2. CASE Topic(y) = t BY <2>1, <3>1, <3>2
    <3>3. CASE Topic(y) # t
      <4>1. y \notin told /\ y \in DOMAIN m.sent BY <3>3
      <4>2. n.sent[y] = m.sent[y] BY <2>1, <4>1
      <4>3. n.seq[Topic(y)] = m.seq[Topic(y)] BY <2>1, <3>1, <3>3
      <4> QED BY <4>1, <4>2, <4>3 DEF Current
    <3> QED BY <3>2, <3>3
  <2> QED BY <2>2, <2>3 DEF n
<1> QED BY <1>1, <1>2

LEMMA PurgeKeeps ==
    ASSUME NEW m, NEW live, SubsOK(m), Current(m, live)
    PROVE  SubsOK(purge_closed_sessions(m, live)) /\ Current(purge_closed_sessions(m, live), live)
<1> DEFINE n == purge_closed_sessions(m, live)
           kept == {x \in m.subs : x[3] \in live}
<1>1. /\ DOMAIN n = {"subs", "entries", "seq", "sent"}
      /\ n.subs = kept /\ n.entries = {Path(x) : x \in kept} /\ n.seq = m.seq
      /\ n.sent = Restricted(m.sent, kept)
  BY DEF purge_closed_sessions, SubsOK
<1> HIDE DEF n
<1>2. DOMAIN n.sent = DOMAIN m.sent \cap kept /\ \A y \in DOMAIN n.sent : n.sent[y] = m.sent[y]
  BY <1>1 DEF Restricted
<1>3. SubsOK(n) BY <1>1, <1>2 DEF SubsOK
<1>4. Current(n, live) BY <1>1, <1>2 DEF Current
<1> QED BY <1>3, <1>4 DEF n

-----------------------------------------------------------------------------
Kept == Clean(perms', data', ttl') /\ SubsOK(subs') /\ Current(subs', alive)

LEMMA RefuseKeeps ==
    ASSUME Inv, UNCHANGED <<perms, data, ttl, subs>>
    PROVE  Kept
BY DEF Inv, CleanInv, SubsInv, Kept

(* New pairs and a TTL entry in a database that exists.                    *)
LEMMA TablesKept ==
    ASSUME CleanInv, NEW d \in DOMAIN perms, NEW s, NEW tl, data' = [data EXCEPT ![d] = s],
           \A x \in DOMAIN tl : x \in DOMAIN ttl \/ x[1] = d, ttl' = tl, perms' = perms
    PROVE  Clean(perms', data', ttl')
<1>1. DOMAIN data = Dbs /\ NothingLeft(perms, data, ttl) BY DEF CleanInv, Clean
<1>2. DOMAIN data' = Dbs BY <1>1
<1>3. \A x \in DOMAIN ttl' : x[1] \in DOMAIN perms' BY <1>1 DEF NothingLeft
<1>4. \A e \in Dbs : e \notin DOMAIN perms' => data'[e] = EmptyDb BY <1>1 DEF NothingLeft
<1> QED BY <1>2, <1>3, <1>4 DEF Clean, NothingLeft

LEMMA EntryKept ==
    ASSUME NEW d, NEW k, NEW e
    PROVE  \A x \in DOMAIN update_expiration_entry(d, k, e) : x \in DOMAIN ttl \/ x[1] = d
BY SMTT(60) DEF update_expiration_entry, Put, Without

LEMMA DeniedFacts == \A r : Denied(r) = "ok" => r.db \in DOMAIN perms
BY DEF Denied, Exists

(* handle_create and handle_update, after their tests.                     *)
LEMMA CommitKeeps ==
    ASSUME Inv, NEW r, r.db \in DOMAIN perms, NEW s, NEW result,
           data' = [data EXCEPT ![r.db] = s], Commit(r, result)
    PROVE  Kept
<1> DEFINE x == <<r.db, r.key>>
<1>1. /\ ttl' = IF result = "ok" THEN update_expiration_entry(r.db, r.key, r.expire) ELSE ttl
      /\ subs' = IF result = "ok" THEN notify_sessions(subs, x, alive) ELSE subs
      /\ perms' = perms
  BY DEF Commit
<1>2. \A y \in DOMAIN ttl' : y \in DOMAIN ttl \/ y[1] = r.db BY <1>1, EntryKept
<1>3. Clean(perms', data', ttl')
  <2> DEFINE d == r.db
             tl == ttl'
  <2>1. d \in DOMAIN perms /\ data' = [data EXCEPT ![d] = s] /\ (\A y \in DOMAIN tl : y \in DOMAIN ttl \/ y[1] = d)
    BY <1>2
  <2>2. ttl' = tl OBVIOUS
  <2> HIDE DEF d, tl
  <2> QED BY <1>1, <2>1, <2>2, TablesKept DEF Inv
<1> HIDE DEF x
<1>4. SubsOK(subs') /\ Current(subs', alive) BY <1>1, NotifyKeeps DEF Inv, SubsInv
<1> QED BY <1>3, <1>4 DEF Kept

LEMMA CreateKeeps == ASSUME Inv, NEW r, handle_create(r) PROVE Kept
<1>1. CASE create_refusal(r) # "ok" /\ Refuse(r, create_refusal(r))
  BY <1>1, RefuseKeeps DEF Refuse, storage
<1>2. CASE create_refusal(r) = "ok" /\ \E s, result : data' = [data EXCEPT ![r.db] = s] /\ Commit(r, result)
  <2>1. r.db \in DOMAIN perms BY <1>2, DeniedFacts DEF create_refusal
  <2> QED BY <1>2, <2>1, CommitKeeps
<1> QED BY <1>1, <1>2 DEF handle_create

LEMMA UpdateKeeps == ASSUME Inv, NEW r, handle_update(r) PROVE Kept
<1>1. CASE update_refusal(r) # "ok" /\ Refuse(r, update_refusal(r))
  BY <1>1, RefuseKeeps DEF Refuse, storage
<1>2. CASE update_refusal(r) = "ok" /\ \E s, result : data' = [data EXCEPT ![r.db] = s] /\ Commit(r, result)
  <2>1. r.db \in DOMAIN perms BY <1>2, DeniedFacts DEF update_refusal
  <2> QED BY <1>2, <2>1, CommitKeeps
<1> QED BY <1>1, <1>2 DEF handle_update

LEMMA DeleteKeeps == ASSUME Inv, NEW r, handle_delete(r) PROVE Kept
<1> DEFINE result == IF Denied(r) # "ok" THEN Denied(r) ELSE remove_result(data[r.db], r.key)
           x == <<r.db, r.key>>
           d == r.db
           s == remove_all(data[r.db], {r.key})
           tl == Without(ttl, {x})
<1>1. CASE Refuse(r, result) BY <1>1, RefuseKeeps DEF Refuse, storage
<1>2. CASE /\ result = "ok" /\ data' = [data EXCEPT ![r.db] = remove_all(@, {r.key})]
           /\ subs' = notify_sessions(subs, x, alive) /\ ttl' = tl /\ perms' = perms
  <2>1. d \in DOMAIN perms BY <1>2, DeniedFacts
  <2>2. data' = [data EXCEPT ![d] = s] BY <1>2
  <2>3. \A y \in DOMAIN tl : y \in DOMAIN ttl BY DEF Without
  <2> HIDE DEF result, x, d, s, tl
  <2>4. Clean(perms', data', ttl') BY <1>2, <2>1, <2>2, <2>3, TablesKept DEF Inv
  <2>5. SubsOK(subs') /\ Current(subs', alive) BY <1>2, NotifyKeeps DEF Inv, SubsInv
  <2> QED BY <2>4, <2>5 DEF Kept
<1> QED BY <1>1, <1>2 DEF handle_delete

LEMMA RetimeKeeps ==
    ASSUME Inv, NEW r, NEW timed, NEW refusal, Retime(r, timed, refusal) PROVE Kept
<1>1. CASE UNCHANGED <<perms, data, ttl, subs>> BY <1>1, RefuseKeeps
<1>2. CASE /\ Denied(r) = "ok" /\ ttl' = update_expiration_entry(r.db, r.key, r.expire)
           /\ UNCHANGED <<perms, data, subs>>
  <2>1. r.db \in DOMAIN perms BY <1>2, DeniedFacts
  <2>2. \A y \in DOMAIN ttl' : y \in DOMAIN ttl \/ y[1] = r.db BY <1>2, EntryKept
  <2>3. Clean(perms', data', ttl') BY <1>2, <2>1, <2>2 DEF Inv, CleanInv, Clean, NothingLeft
  <2> QED BY <1>2, <2>3 DEF Kept, Inv, SubsInv
<1> QED BY <1>1, <1>2 DEF Retime, Refuse, storage

(* The handlers of databases and subscriptions.                            *)
LEMMA SetPermsKeeps == ASSUME Inv, NEW r, NEW p, SetPerms(r, p) PROVE Kept
<1>1. perms' = Put(perms, r.db, p) /\ UNCHANGED <<data, ttl, subs>> BY DEF SetPerms
<1>2. DOMAIN perms \subseteq DOMAIN perms' BY <1>1 DEF Put
<1>3. Clean(perms', data', ttl') BY <1>1, <1>2 DEF Inv, CleanInv, Clean, NothingLeft
<1> QED BY <1>1, <1>3 DEF Kept, Inv, SubsInv

LEMMA DeleteDbKeeps == ASSUME Inv, NEW r, handle_delete_db(r) PROVE Kept
<1>1. CASE UNCHANGED <<perms, data, ttl, subs>> BY <1>1, RefuseKeeps
<1>2. CASE /\ perms' = Without(perms, {r.db}) /\ data' = [data EXCEPT ![r.db] = EmptyDb]
           /\ ttl' = flush_expiration_entries(r.db) /\ subs' = subs
  <2>1. DOMAIN data = Dbs /\ NothingLeft(perms, data, ttl) BY DEF Inv, CleanInv, Clean
  <2>2. DOMAIN perms' = DOMAIN perms \ {r.db} BY <1>2 DEF Without
  <2>3. \A x \in DOMAIN ttl' : x \in DOMAIN ttl /\ x[1] # r.db BY <1>2 DEF flush_expiration_entries, Without
  <2>4. DOMAIN data' = Dbs BY <1>2, <2>1
  <2>5. \A x \in DOMAIN ttl' : x[1] \in DOMAIN perms' BY <2>1, <2>2, <2>3 DEF NothingLeft
  <2>6. \A d \in Dbs : d \notin DOMAIN perms' => data'[d] = EmptyDb BY <1>2, <2>1, <2>2 DEF NothingLeft
  <2> QED BY <1>2, <2>4, <2>5, <2>6 DEF Kept, Clean, NothingLeft, Inv, SubsInv
<1> QED BY <1>1, <1>2 DEF handle_delete_db, Refuse, storage

LEMMA SubscriptionKeeps ==
    ASSUME Inv, NEW r, r.db \in Dbs, r.key \in Keys, handle_subscribe(r) \/ handle_unsubscribe(r)
    PROVE  Kept
<1> DEFINE x == Subscription(r)
<1>1. UNCHANGED <<perms, data, ttl>> /\ (subs' = subscribe(subs, x) \/ subs' = unsubscribe(subs, x))
  BY DEF handle_subscribe, handle_unsubscribe, storage
<1>2. Topic(x) = <<r.db, r.key>> BY DEF Topic, Subscription
<1>3. Topic(x) \in Dbs \X Keys BY SMTT(60), <1>2
<1> HIDE DEF x
<1>4. SubsOK(subs) /\ Current(subs, alive) BY DEF Inv, SubsInv
<1>5. SubsOK(subs') /\ Current(subs', alive) BY <1>1, <1>3, <1>4, SubscribeKeeps, UnsubscribeKeeps
<1> QED BY <1>1, <1>5 DEF Kept, Inv, CleanInv

LEMMA HandleKeeps == ASSUME Inv, NEW r, r.db \in Dbs, r.key \in Keys, Handle(r) PROVE Kept
<1>1. CASE \/ handle_read(r) \/ handle_has(r) \/ handle_keys(r) \/ handle_size(r) \/ handle_has_db(r)
           \/ handle_writers(r) \/ handle_ttl(r)
  <2>1. UNCHANGED <<perms, data, ttl, subs>>
    BY <1>1 DEF handle_read, handle_has, handle_keys, handle_size, handle_has_db, handle_writers, handle_ttl,
                Answer, Refuse, storage
  <2> QED BY <2>1, RefuseKeeps
<1>2. CASE handle_persist(r) \/ handle_expire(r)
  BY <1>2, RetimeKeeps DEF handle_persist, handle_expire
<1>3. CASE \/ handle_create_db(r) \/ handle_update_db(r) \/ handle_add_writers(r) \/ handle_remove_writers(r)
  <2>1. UNCHANGED <<perms, data, ttl, subs>> \/ \E p : SetPerms(r, p)
    BY <1>3 DEF handle_create_db, handle_update_db, handle_add_writers, handle_remove_writers, Refuse, storage
  <2> QED BY <2>1, RefuseKeeps, SetPermsKeeps
<1>4. CASE handle_create(r) BY <1>4, CreateKeeps
<1>5. CASE handle_update(r) BY <1>5, UpdateKeeps
<1>6. CASE handle_delete(r) BY <1>6, DeleteKeeps
<1>7. CASE handle_delete_db(r) BY <1>7, DeleteDbKeeps
<1>8. CASE handle_subscribe(r) \/ handle_unsubscribe(r) BY <1>8, SubscriptionKeeps
<1> QED BY <1>1, <1>2, <1>3, <1>4, <1>5, <1>6, <1>7, <1>8 DEF Handle

-----------------------------------------------------------------------------
LEMMA InitInv == Init => Inv
<1> SUFFICES ASSUME Init PROVE Inv OBVIOUS
<1>1. CleanInv
  <2>1. DOMAIN data = Dbs /\ \A d \in Dbs : data[d] = EmptyDb BY DEF Init
  <2>2. DOMAIN ttl = {} /\ snapshots = {} BY DEF Init
  <2> QED BY <2>1, <2>2 DEF CleanInv, Clean, NothingLeft
<1>2. SubsInv
  <2> DEFINE m == NoSubscribers(Dbs \X Keys)
  <2>1. /\ DOMAIN m = {"subs", "entries", "seq", "sent"} /\ m.subs = {} /\ DOMAIN m.sent = {}
        /\ DOMAIN m.seq = Dbs \X Keys
    BY DEF NoSubscribers
  <2>2. subs = m BY DEF Init
  <2> HIDE DEF m
  <2> QED BY <2>1, <2>2 DEF SubsInv, SubsOK, Current
<1> QED BY <1>1, <1>2 DEF Inv, Init

LEMMA StepInv == Inv /\ [Next]_vars => Inv'
<1> SUFFICES ASSUME Inv, [Next]_vars PROVE Inv' OBVIOUS
<1>0. ASSUME Kept, UNCHANGED <<workload, snapshots, alive>> PROVE Inv'
  BY <1>0 DEF Inv, CleanInv, SubsInv, Kept
<1>1. ASSUME NEW r \in workload, handle_request(r) PROVE Inv'
  <2>1. r.db \in Dbs /\ r.key \in Keys BY CrudAssumption DEF Inv
  <2>2. Handle(r) /\ UNCHANGED <<workload, snapshots, alive>> BY <1>1 DEF handle_request
  <2> QED BY <1>0, <2>1, <2>2, HandleKeeps
<1>2. CASE check_key_expiration
  <2>1. /\ \E stale : ttl' = Without(ttl, stale)
        /\ UNCHANGED <<workload, perms, data, snapshots, subs, alive>>
    BY <1>2 DEF check_key_expiration
  <2>2. DOMAIN ttl' \subseteq DOMAIN ttl BY <2>1 DEF Without
  <2>3. Clean(perms', data', ttl') BY <2>1, <2>2 DEF Inv, CleanInv, Clean, NothingLeft
  <2>4. Kept BY <2>1, <2>3 DEF Kept, Inv, SubsInv
  <2> QED BY <1>0, <2>1, <2>4
<1>3. ASSUME NEW x \in pending, ExecuteDelete(x) PROVE Inv'
  <2>1. handle_delete(DeleteRequest(x)) /\ UNCHANGED <<workload, snapshots, alive>> BY <1>3 DEF ExecuteDelete
  <2> QED BY <1>0, <2>1, DeleteKeeps
<1>4. CASE save_state
  <2>1. /\ snapshots' = {[perms |-> perms, data |-> data, ttl |-> ttl]}
        /\ UNCHANGED <<workload, perms, data, ttl, subs, alive>>
    BY <1>4 DEF save_state, storage
  <2> QED BY SMTT(60), <2>1 DEF Inv, CleanInv, SubsInv
<1>5. CASE load_state
  <2>1. /\ \E s \in snapshots : perms' = s.perms /\ data' = s.data /\ ttl' = s.ttl
        /\ UNCHANGED <<workload, snapshots, subs, alive>>
    BY <1>5 DEF load_state
  <2>2. Kept BY <2>1 DEF Kept, Inv, CleanInv, SubsInv
  <2> QED BY <1>0, <2>1, <2>2
<1>6. CASE Tick
  <2>1. UNCHANGED <<workload, perms, data, ttl, snapshots, subs, alive>> BY <1>6 DEF Tick, storage
  <2> QED BY <1>0, <2>1, RefuseKeeps
<1>7. ASSUME NEW s \in alive, SessionGone(s) PROVE Inv'
  <2>1. alive' = alive \ {s} /\ UNCHANGED <<workload, perms, data, ttl, snapshots, subs>>
    BY <1>7 DEF SessionGone, storage
  <2>2. SubsInv' BY <2>1 DEF Inv, SubsInv, Current
  <2> QED BY <2>1, <2>2 DEF Inv, CleanInv
<1>8. CASE PurgeClosedSessions
  <2>1. subs' = purge_closed_sessions(subs, alive) /\ UNCHANGED <<workload, perms, data, ttl, snapshots, alive>>
    BY <1>8 DEF PurgeClosedSessions, storage
  <2>2. SubsOK(subs') /\ Current(subs', alive) BY <2>1, PurgeKeeps DEF Inv, SubsInv
  <2>3. Kept BY <2>1, <2>2 DEF Kept, Inv, CleanInv
  <2> QED BY <1>0, <2>1, <2>3
<1>9. CASE UNCHANGED vars
  <2>1. UNCHANGED <<workload, perms, data, ttl, snapshots, subs, alive>> BY <1>9 DEF vars, storage
  <2> QED BY <1>0, <2>1, RefuseKeeps
<1> QED BY <1>1, <1>2, <1>3, <1>4, <1>5, <1>6, <1>7, <1>8, <1>9 DEF Next

-----------------------------------------------------------------------------
(* What storage and its snapshots hold.  Limits says of a step that it     *)
(* makes no database larger than its limit.                                *)
SwarmBound(W, p) ==
    MaxSwarmStorage # 0 => /\ NoneWraps(W) => SwarmLimits(p) <= MaxSwarmStorage
                           /\ \A d \in DOMAIN p : p[d].max # 0
PermsGood(W, p) ==
    /\ IsFiniteSet(DOMAIN p) /\ DOMAIN p \subseteq Dbs
    /\ \A d \in DOMAIN p : p[d] \in Permissions
    /\ SwarmBound(W, p)
TtlGood(tl) == DOMAIN tl \subseteq Dbs \X Keys /\ \A x \in DOMAIN tl : tl[x] \in Nat
StoreGood(W, p, dt, tl) == PermsGood(W, p) /\ (\A d \in Dbs : GoodDb(dt[d])) /\ TtlGood(tl)
StoreInv ==
    /\ clock \in Nat /\ pending \subseteq Dbs \X Keys
    /\ StoreGood(workload, perms, data, ttl)
    /\ \A s \in snapshots : StoreGood(workload, s.perms, s.data, s.ttl)

Limits ==
    \A d \in DOMAIN perms :
        data'[d].bytes > data[d].bytes => perms[d].max = 0 \/ data'[d].bytes <= perms[d].max
Sound == StoreGood(workload, perms', data', ttl') /\ Limits

GoodRequest(r) ==
    /\ r.db \in Dbs /\ r.key \in Keys /\ r.size \in Nat /\ r.expire \in Nat
    /\ r.caller \in Callers /\ r.max \in 0 .. SizeWord - 1 /\ r.policy \in Policies
    /\ r.writers \subseteq Callers
    /\ NoneWraps(workload) => r.max + MaxSwarmStorage < SizeWord

LEMMA StoreFacts ==
    ASSUME Inv, StoreInv
    PROVE  /\ DOMAIN data = Dbs /\ DOMAIN perms \subseteq Dbs
           /\ \A d \in Dbs : GoodDb(data[d]) /\ data[d].bytes \in Nat
           /\ \A d \in DOMAIN perms : perms[d].max \in Nat /\ perms[d].policy \in Policies
<1>1. DOMAIN data = Dbs BY DEF Inv, CleanInv, Clean
<1>2. \A d \in Dbs : GoodDb(data[d]) BY DEF StoreInv, StoreGood
<1>3. \A d \in Dbs : data[d].bytes \in Nat BY <1>2, DbFacts
<1>4. \A d \in DOMAIN perms : perms[d].max \in Nat /\ perms[d].policy \in Policies
  BY SMTT(60), CrudAssumption DEF StoreInv, StoreGood, PermsGood, Permissions
<1>5. DOMAIN perms \subseteq Dbs BY DEF StoreInv, StoreGood, PermsGood
<1> QED BY <1>1, <1>2, <1>3, <1>4, <1>5

LEMMA UnchangedSound ==
    ASSUME Inv, StoreInv, data' = data, PermsGood(workload, perms'), TtlGood(ttl')
    PROVE  Sound
<1>1. Limits BY SMTT(60), StoreFacts DEF Limits
<1>2. \A d \in Dbs : GoodDb(data'[d]) BY StoreFacts
<1> QED BY <1>1, <1>2 DEF Sound, StoreGood

LEMMA RefuseSound ==
    ASSUME Inv, StoreInv, UNCHANGED <<perms, data, ttl>>
    PROVE  Sound
<1>1. PermsGood(workload, perms') /\ TtlGood(ttl') BY DEF StoreInv, StoreGood
<1> QED BY <1>1, UnchangedSound

(* One database has new pairs.                                             *)
LEMMA WriteSound ==
    ASSUME Inv, StoreInv, NEW d \in DOMAIN perms, NEW s, GoodDb(s),
           data' = [data EXCEPT ![d] = s], perms' = perms, TtlGood(ttl'),
           s.bytes > data[d].bytes => perms[d].max = 0 \/ s.bytes <= perms[d].max
    PROVE  Sound
<1>1. d \in Dbs /\ DOMAIN data = Dbs /\ data'[d] = s /\ \A e \in Dbs : e # d => data'[e] = data[e]
  BY StoreFacts
<1>2. \A e \in Dbs : GoodDb(data'[e]) BY <1>1, StoreFacts
<1>3. ASSUME NEW e \in DOMAIN perms, data'[e].bytes > data[e].bytes
      PROVE  perms[e].max = 0 \/ data'[e].bytes <= perms[e].max
  <2>1. CASE e = d BY <1>1, <1>3, <2>1
  <2>2. CASE e # d
    <3>1. data'[e] = data[e] /\ data[e].bytes \in Nat BY <1>1, <2>2, StoreFacts
    <3> QED BY SMTT(60), <1>3, <3>1
  <2> QED BY <2>1, <2>2
<1>4. PermsGood(workload, perms') BY DEF StoreInv, StoreGood
<1> QED BY <1>2, <1>3, <1>4 DEF Sound, StoreGood, Limits

LEMMA TtlWithout == ASSUME NEW tl, TtlGood(tl), NEW X PROVE TtlGood(Without(tl, X))
BY DEF TtlGood, Without

LEMMA EntryGood ==
    ASSUME StoreInv, NEW d \in Dbs, NEW k \in Keys, NEW e \in Nat
    PROVE  TtlGood(update_expiration_entry(d, k, e))
<1> DEFINE x == <<d, k>>
<1>1. TtlGood(ttl) /\ clock + e \in Nat BY SMTT(60) DEF StoreInv, StoreGood
<1>2. x \in Dbs \X Keys OBVIOUS
<1> HIDE DEF x
<1>3. TtlGood(Put(ttl, x, clock + e)) BY <1>1, <1>2 DEF TtlGood, Put
<1>4. TtlGood(Without(ttl, {x})) BY <1>1, TtlWithout
<1> QED BY <1>3, <1>4 DEF update_expiration_entry, x

(* The database of a create or update after the eviction, if there is one. *)
LEMMA EvictedDb ==
    ASSUME Inv, StoreInv, NEW r, GoodRequest(r), r.db \in DOMAIN perms,
           NEW isUpdate \in BOOLEAN, NEW exceeds \in BOOLEAN,
           NEW E \in IF exceeds THEN keys_to_evict(r, isUpdate) ELSE {{}}
    PROVE  /\ E \in SUBSET DOMAIN data[r.db].pairs
           /\ GoodDb(remove_all(data[r.db], E))
           /\ remove_all(data[r.db], E).pairs = Without(data[r.db].pairs, E)
           /\ remove_all(data[r.db], E).bytes \in Nat
           /\ remove_all(data[r.db], E).bytes <= data[r.db].bytes
           /\ exceeds => remove_all(data[r.db], E).bytes + r.size
                           + (IF isUpdate THEN 0 ELSE KeySize) <= perms[r.db].max
           /\ ~exceeds => E = {} /\ remove_all(data[r.db], E).bytes = data[r.db].bytes
<1> DEFINE s == data[r.db]
           t == remove_all(s, E)
           freed == SumFunctionOnSet(s.pairs, E)
           n == KeySize * Cardinality(E)
<1>1. GoodDb(s) /\ s.bytes \in Nat /\ perms[r.db].max \in Nat /\ r.size \in Nat
  BY StoreFacts DEF GoodRequest
<1>2. ASSUME exceeds
      PROVE  E \in SUBSET DOMAIN s.pairs /\ t.bytes + r.size + (IF isUpdate THEN 0 ELSE KeySize) <= perms[r.db].max
  BY <1>1, <1>2, EvictionMakesRoom
<1>3. ~exceeds => E = {} OBVIOUS
<1>4. E \in SUBSET DOMAIN s.pairs BY <1>2, <1>3
<1>5. GoodDb(t) /\ t.pairs = Without(s.pairs, E) /\ t.bytes = s.bytes - freed - n
  BY <1>1, <1>4, RemoveGood
<1>6. freed \in Nat /\ n \in Nat BY <1>1, <1>4, PairsFacts DEF GoodDb
<1>7. ASSUME E = {} PROVE freed = 0 /\ n = 0
  BY SMTT(60), <1>7, SumEmpty, FS_EmptySet, SizesAssumption
<1>8. t.bytes \in Nat BY <1>5, DbFacts
<1> HIDE DEF t, s, freed, n
<1>9. t.bytes <= s.bytes /\ (~exceeds => t.bytes = s.bytes) BY SMTT(60), <1>1, <1>3, <1>5, <1>6, <1>7
<1> QED BY <1>2, <1>3, <1>4, <1>5, <1>8, <1>9 DEF s, t

(* handle_create and handle_update: the pair fits, with or without an      *)
(* eviction.                                                               *)
LEMMA CommitTtl ==
    ASSUME StoreInv, NEW r, GoodRequest(r), NEW result, Commit(r, result)
    PROVE  TtlGood(ttl') /\ perms' = perms
<1>1. TtlGood(update_expiration_entry(r.db, r.key, r.expire)) BY EntryGood DEF GoodRequest
<1>2. TtlGood(ttl) BY DEF StoreInv, StoreGood
<1> QED BY <1>1, <1>2 DEF Commit

LEMMA CreateSound == ASSUME Inv, StoreInv, NEW r, GoodRequest(r), handle_create(r) PROVE Sound
<1>1. CASE create_refusal(r) # "ok" /\ Refuse(r, create_refusal(r))
  BY <1>1, RefuseSound DEF Refuse, storage
<1>2. ASSUME create_refusal(r) = "ok",
             NEW E \in IF create_exceeds(r) THEN keys_to_evict(r, FALSE) ELSE {{}},
             LET s == remove_all(data[r.db], E)
                 result == create_result(s, r.key, r.size)
             IN  /\ data' = [data EXCEPT ![r.db] =
                                IF result = "ok" THEN create(s, r.key, r.size) ELSE s]
                 /\ Commit(r, result)
      PROVE  Sound
  <2> DEFINE b == data[r.db].bytes
             max == perms[r.db].max
             s == remove_all(data[r.db], E)
             result == create_result(s, r.key, r.size)
             t == IF result = "ok" THEN create(s, r.key, r.size) ELSE s
             d == r.db
             exceeds == create_exceeds(r)
  <2>1. d \in DOMAIN perms BY <1>2, DeniedFacts DEF create_refusal
  <2>2. data' = [data EXCEPT ![d] = t] /\ Commit(r, result) BY <1>2
  <2>3. TtlGood(ttl') /\ perms' = perms BY <2>2, CommitTtl
  <2>4. exceeds \in BOOLEAN BY DEF create_exceeds
  <2>5. /\ GoodDb(s) /\ s.bytes \in Nat /\ s.bytes <= b
        /\ exceeds => s.bytes + r.size + KeySize <= max
        /\ ~exceeds => s.bytes = b
    <3>1. /\ GoodDb(s) /\ s.bytes \in Nat /\ s.bytes <= b
          /\ exceeds => s.bytes + r.size + (IF FALSE THEN 0 ELSE KeySize) <= max
          /\ ~exceeds => s.bytes = b
      BY <1>2, <2>1, <2>4, EvictedDb
    <3> QED BY <3>1
  <2>6. b \in Nat /\ max \in Nat /\ r.size \in Nat /\ KeySize \in Nat /\ r.key \in Keys
    BY <2>1, StoreFacts, SizesAssumption DEF GoodRequest
  <2>7. ~exceeds => max = 0 \/ b + KeySize + r.size <= max BY SMTT(60), <2>6 DEF create_exceeds
  <2>8. result = "ok" => r.key \notin DOMAIN s.pairs BY DEF create_result, has
  <2> HIDE DEF result, s, b, max, exceeds
  <2>9. GoodDb(t) /\ (t.bytes > b => max = 0 \/ t.bytes <= max)
    <3>1. CASE result # "ok" BY SMTT(60), <2>5, <2>6, <3>1
    <3>2. CASE result = "ok"
      <4>1. GoodDb(t) /\ t.bytes = s.bytes + r.size + KeySize BY <2>5, <2>6, <2>8, <3>2, CreateGood
      <4> HIDE DEF t
      <4> QED BY SMTT(60), <2>5, <2>6, <2>7, <4>1
    <3> QED BY <3>1, <3>2
  <2>10. GoodDb(t) /\ (t.bytes > data[d].bytes => perms[d].max = 0 \/ t.bytes <= perms[d].max)
    BY <2>9 DEF b, max
  <2> HIDE DEF t, d
  <2> QED BY <2>1, <2>2, <2>3, <2>10, WriteSound
<1> QED BY <1>1, <1>2 DEF handle_create

LEMMA UpdateSound == ASSUME Inv, StoreInv, NEW r, GoodRequest(r), handle_update(r) PROVE Sound
<1>1. CASE update_refusal(r) # "ok" /\ Refuse(r, update_refusal(r))
  BY <1>1, RefuseSound DEF Refuse, storage
<1>2. ASSUME update_refusal(r) = "ok",
             NEW E \in IF update_exceeds(r) THEN keys_to_evict(r, TRUE) ELSE {{}},
             LET s == remove_all(data[r.db], E)
                 result == update_result(s, r.key, r.size)
             IN  /\ data' = [data EXCEPT ![r.db] =
                                IF result = "ok" THEN update(s, r.key, r.size) ELSE s]
                 /\ Commit(r, result)
      PROVE  Sound
  <2> DEFINE f == data[r.db].pairs
             b == data[r.db].bytes
             max == perms[r.db].max
             s == remove_all(data[r.db], E)
             result == update_result(s, r.key, r.size)
             t == IF result = "ok" THEN update(s, r.key, r.size) ELSE s
             d == r.db
             k == r.key
             exceeds == update_exceeds(r)
  <2>1. d \in DOMAIN perms BY <1>2, DeniedFacts DEF update_refusal
  <2>2. data' = [data EXCEPT ![d] = t] /\ Commit(r, result) BY <1>2
  <2>3. TtlGood(ttl') /\ perms' = perms BY <2>2, CommitTtl
  <2>4. exceeds \in BOOLEAN BY DEF update_exceeds
  <2>5. /\ GoodDb(s) /\ s.bytes \in Nat /\ s.bytes <= b /\ s.pairs = Without(f, E)
        /\ exceeds => s.bytes + r.size + (IF TRUE THEN 0 ELSE KeySize) <= max
        /\ ~exceeds => E = {} /\ s.bytes = b
    BY <1>2, <2>1, <2>4, EvictedDb
  <2>6. b \in Nat /\ max \in Nat /\ r.size \in Nat /\ KeySize \in Nat
    BY <2>1, StoreFacts, SizesAssumption DEF GoodRequest
  <2>7. result = "ok" => k \in DOMAIN s.pairs BY DEF update_result, has
  <2>8. ASSUME k \in DOMAIN s.pairs PROVE k \in DOMAIN f /\ s.pairs[k] = f[k]
    BY <2>5, <2>8 DEF Without
  <2>9. ASSUME k \in DOMAIN f, ~exceeds, max # 0 PROVE b - (KeySize + f[k]) + KeySize + r.size <= max
    <3>1. f[k] \in Nat BY <2>1, <2>9, StoreFacts DEF GoodDb, GoodPairs, NatOn
    <3>2. ~(b - (KeySize + f[k]) + KeySize + r.size > max)
      BY <2>9 DEF update_exceeds, has, get_key_size
    <3> HIDE DEF b, max
    <3> QED BY SMTT(60), <2>6, <3>1, <3>2
  <2> HIDE DEF result, s, b, max, exceeds, k, f
  <2>10. GoodDb(t) /\ (t.bytes > b => max = 0 \/ t.bytes <= max)
    <3>1. CASE result # "ok" BY SMTT(60), <2>5, <2>6, <3>1
    <3>2. CASE result = "ok"
      <4>1. GoodDb(t) /\ f[k] \in Nat /\ t.bytes = s.bytes - f[k] + r.size
        BY SMTT(60), <2>5, <2>6, <2>7, <2>8, <3>2, UpdateGood DEF k
      <4>2. k \in DOMAIN f BY <2>7, <2>8, <3>2
      <4>3. CASE exceeds BY SMTT(60), <2>5, <2>6, <4>1, <4>3
      <4>4. CASE ~exceeds
        <5>1. s.bytes = b BY <2>5, <4>4
        <5> HIDE DEF t
        <5> QED BY SMTT(60), <2>6, <2>9, <4>1, <4>2, <4>4, <5>1
      <4> QED BY <4>3, <4>4
    <3> QED BY <3>1, <3>2
  <2>11. GoodDb(t) /\ (t.bytes > data[d].bytes => perms[d].max = 0 \/ t.bytes <= perms[d].max)
    BY <2>10 DEF b, max
  <2> HIDE DEF t, d
  <2> QED BY <2>1, <2>2, <2>3, <2>11, WriteSound
<1> QED BY <1>1, <1>2 DEF handle_update

LEMMA DeleteSound == ASSUME Inv, StoreInv, NEW r, handle_delete(r) PROVE Sound
<1> DEFINE result == IF Denied(r) # "ok" THEN Denied(r) ELSE remove_result(data[r.db], r.key)
           d == r.db
           K == {r.key}
           t == remove_all(data[d], K)
<1>1. CASE Refuse(r, result) BY <1>1, RefuseSound DEF Refuse, storage
<1>2. CASE /\ result = "ok" /\ data' = [data EXCEPT ![r.db] = remove_all(@, {r.key})]
           /\ ttl' = Without(ttl, {<<r.db, r.key>>}) /\ perms' = perms
  <2>1. d \in DOMAIN perms BY <1>2, DeniedFacts
  <2>2. K \in SUBSET DOMAIN data[d].pairs BY <1>2 DEF remove_result, has
  <2>3. data' = [data EXCEPT ![d] = t] BY <1>2
  <2>4. TtlGood(ttl') BY <1>2, TtlWithout DEF StoreInv, StoreGood
  <2>5. GoodDb(data[d]) /\ data[d].bytes \in Nat BY <2>1, StoreFacts
  <2>6. GoodDb(t) /\ t.bytes = data[d].bytes - SumFunctionOnSet(data[d].pairs, K) - KeySize * Cardinality(K)
    BY <2>2, <2>5, RemoveGood
  <2>7. SumFunctionOnSet(data[d].pairs, K) \in Nat /\ KeySize * Cardinality(K) \in Nat
    BY <2>2, <2>5, PairsFacts DEF GoodDb
  <2> HIDE DEF t, d, K
  <2>8. ~(t.bytes > data[d].bytes) BY SMTT(60), <2>5, <2>6, <2>7
  <2> QED BY <1>2, <2>1, <2>3, <2>4, <2>6, <2>8, WriteSound
<1> QED BY <1>1, <1>2 DEF handle_delete

LEMMA RetimeSound ==
    ASSUME Inv, StoreInv, NEW r, GoodRequest(r), NEW timed, NEW refusal, Retime(r, timed, refusal)
    PROVE  Sound
<1>1. CASE UNCHANGED <<perms, data, ttl>> BY <1>1, RefuseSound
<1>2. CASE ttl' = update_expiration_entry(r.db, r.key, r.expire) /\ UNCHANGED <<perms, data>>
  <2>1. TtlGood(ttl') BY <1>2, EntryGood DEF GoodRequest
  <2>2. PermsGood(workload, perms') BY <1>2 DEF StoreInv, StoreGood
  <2> QED BY <1>2, <2>1, <2>2, UnchangedSound
<1> QED BY <1>1, <1>2 DEF Retime, Refuse, storage

(* The permissions of one database are set or removed.                     *)
Maxes(p) == [d \in DOMAIN p |-> p[d].max]

LEMMA MaxesGood ==
    ASSUME NEW p, PermsGood(workload, p)
    PROVE  GoodPairs(Maxes(p)) /\ DOMAIN Maxes(p) = DOMAIN p /\ SumFunction(Maxes(p)) \in Nat
<1>1. DOMAIN Maxes(p) = DOMAIN p /\ \A d \in DOMAIN p : Maxes(p)[d] = p[d].max BY DEF Maxes
<1>2. \A d \in DOMAIN p : p[d].max \in Nat BY SMTT(60), CrudAssumption DEF PermsGood, Permissions
<1>3. GoodPairs(Maxes(p)) BY <1>1, <1>2 DEF GoodPairs, NatOn, PermsGood
<1> QED BY <1>1, <1>3, PairsFacts DEF SumFunction

(* A number below the width is its own remainder.                          *)
LEMMA SmallRemainder == ASSUME NEW x \in Nat, NEW w \in Nat, x < w PROVE x % w = x
  BY SMTT(60)

LEMMA PutPermsGood ==
    ASSUME NEW p, PermsGood(workload, p), NEW d \in Dbs, NEW q \in Permissions,
           MaxSwarmStorage # 0 =>
               /\ q.max # 0
               /\ NoneWraps(workload) =>
                      SwarmLimits(p) - (IF d \in DOMAIN p THEN p[d].max ELSE 0) + q.max <= MaxSwarmStorage
    PROVE  PermsGood(workload, Put(p, d, q))
<1> DEFINE n == Put(p, d, q)
           f == Maxes(p)
           v == q.max
<1>1. /\ DOMAIN n = DOMAIN p \cup {d} /\ n[d] = q
      /\ \A e \in DOMAIN p : e # d => n[e] = p[e]
  BY DEF Put
<1>2. IsFiniteSet(DOMAIN n) /\ DOMAIN n \subseteq Dbs BY <1>1, FS_AddElement DEF PermsGood
<1>3. \A e \in DOMAIN n : n[e] \in Permissions BY <1>1 DEF PermsGood
<1>4. v \in Nat BY SMTT(60), CrudAssumption DEF Permissions
<1>5. Maxes(n) = Put(f, d, v) BY <1>1 DEF Maxes, Put
<1>6. GoodPairs(f) /\ DOMAIN f = DOMAIN p BY MaxesGood
<1>7. CASE d \in DOMAIN p
  <2>1. f[d] = p[d].max BY <1>7 DEF Maxes
  <2>2. SumFunction(Put(f, d, v)) = SumFunction(f) - f[d] + v BY <1>4, <1>6, <1>7, PutOldSum
  <2>3. SwarmLimits(n) = SwarmLimits(p) - p[d].max + v BY <1>5, <2>1, <2>2 DEF SwarmLimits, Maxes
  <2>4. SwarmBound(workload, n) BY <1>1, <1>7, <2>3 DEF SwarmBound, PermsGood
  <2> QED BY <1>2, <1>3, <2>4 DEF PermsGood
<1>8. CASE d \notin DOMAIN p
  <2>1. SumFunction(Put(f, d, v)) = SumFunction(f) + v BY <1>4, <1>6, <1>8, PutNewSum
  <2>2. SwarmLimits(n) = SwarmLimits(p) + v /\ SwarmLimits(p) \in Nat BY <1>5, <2>1, MaxesGood DEF SwarmLimits, Maxes
  <2>3. SwarmLimits(p) - 0 + v = SwarmLimits(p) + v BY SMTT(60), <1>4, <2>2
  <2>4. SwarmBound(workload, n) BY <1>1, <1>8, <2>2, <2>3 DEF SwarmBound, PermsGood
  <2> QED BY <1>2, <1>3, <2>4 DEF PermsGood
<1> QED BY <1>7, <1>8

LEMMA SetPermsSound ==
    ASSUME Inv, StoreInv, NEW r, NEW p, SetPerms(r, p), PermsGood(workload, Put(perms, r.db, p)) PROVE Sound
<1>1. perms' = Put(perms, r.db, p) /\ UNCHANGED <<data, ttl>> BY DEF SetPerms
<1>2. PermsGood(workload, perms') /\ TtlGood(ttl') BY <1>1 DEF StoreInv, StoreGood
<1> QED BY <1>1, <1>2, UnchangedSound

LEMMA CreateDbSound == ASSUME Inv, StoreInv, NEW r, GoodRequest(r), handle_create_db(r) PROVE Sound
<1> DEFINE p == [owner |-> Trimmed[r.caller], writers |-> {}, max |-> r.max, policy |-> r.policy]
<1>1. CASE UNCHANGED <<perms, data, ttl>> BY <1>1, RefuseSound
<1>2. CASE ~Exists(r.db) /\ ~Unlimited(r) /\ ~create_db_exceeds(r) /\ SetPerms(r, p)
  <2>1. p \in Permissions BY CrudAssumption DEF GoodRequest, Permissions
  <2>2. p.max = r.max /\ r.max \in Nat /\ r.db \in Dbs BY SMTT(60), CrudAssumption DEF GoodRequest
  <2> HIDE DEF p
  <2>3. PermsGood(workload, perms) BY DEF StoreInv, StoreGood
  <2>4. SwarmLimits(perms) \in Nat BY <2>3, MaxesGood DEF SwarmLimits, Maxes
  <2>5. MaxSwarmStorage # 0 =>
           /\ p.max # 0
           /\ NoneWraps(workload) => SwarmLimits(perms) - 0 + p.max <= MaxSwarmStorage
    <3> SUFFICES ASSUME MaxSwarmStorage # 0
                 PROVE  /\ p.max # 0
                        /\ NoneWraps(workload) => SwarmLimits(perms) - 0 + p.max <= MaxSwarmStorage
      OBVIOUS
    <3>1. p.max # 0 BY <1>2, <2>2 DEF Unlimited
    <3>2. ASSUME NoneWraps(workload) PROVE SwarmLimits(perms) - 0 + p.max <= MaxSwarmStorage
      <4> DEFINE u == SwarmLimits(perms)
      <4>1. u \in Nat /\ u <= MaxSwarmStorage /\ r.max + MaxSwarmStorage < SizeWord
        BY <2>3, <2>4, <3>2 DEF PermsGood, SwarmBound, GoodRequest
      <4>2. ~(((u % SizeWord) + r.max) % SizeWord > MaxSwarmStorage)
        BY <1>2 DEF create_db_exceeds, get_swarm_storage_usage
      <4> HIDE DEF u
      <4>3. u < SizeWord /\ u + r.max \in Nat /\ u + r.max < SizeWord /\ SizeWord \in Nat
        BY SMTT(60), <2>2, <4>1, CrudAssumption
      <4>4. u % SizeWord = u /\ (u + r.max) % SizeWord = u + r.max
        BY <4>1, <4>3, SmallRemainder
      <4>5. u + r.max <= MaxSwarmStorage BY SMTT(60), <4>2, <4>3, <4>4, CrudAssumption
      <4> QED BY SMTT(60), <2>2, <4>1, <4>5 DEF u
    <3> QED BY <3>1, <3>2
  <2>6. PermsGood(workload, Put(perms, r.db, p)) BY <1>2, <2>1, <2>2, <2>3, <2>5, PutPermsGood DEF Exists
  <2> QED BY <1>2, <2>6, SetPermsSound
<1> QED BY <1>1, <1>2 DEF handle_create_db, Refuse, storage

(* The limit is raised only if the swarm has the storage; it may be        *)
(* lowered at any time.                                                    *)
LEMMA UpdateDbSound == ASSUME Inv, StoreInv, NEW r, GoodRequest(r), handle_update_db(r) PROVE Sound
<1> DEFINE d == r.db
           old == perms[d].max
           p == [perms[r.db] EXCEPT !.max = r.max, !.policy = r.policy]
<1>1. CASE UNCHANGED <<perms, data, ttl>> BY <1>1, RefuseSound
<1>2. CASE /\ OwnerDenied(r) = "ok" /\ ~Unlimited(r) /\ SetPerms(r, p)
           /\ ~(r.max > perms[r.db].max /\ update_db_exceeds(r))
  <2>1. d \in DOMAIN perms BY <1>2 DEF OwnerDenied, Exists
  <2>2. PermsGood(workload, perms) BY DEF StoreInv, StoreGood
  <2>3. perms[d] \in Permissions BY <2>1, <2>2 DEF PermsGood
  <2>4. p \in Permissions /\ p.max = r.max
    <3> DEFINE q == [perms[d] EXCEPT !.max = r.max]
    <3>1. q \in Permissions /\ q.max = r.max BY <2>3 DEF GoodRequest, Permissions
    <3>2. p = [q EXCEPT !.policy = r.policy] OBVIOUS
    <3> HIDE DEF p, q
    <3> QED BY <3>1, <3>2 DEF GoodRequest, Permissions
  <2>5. old \in Nat /\ r.max \in Nat /\ d \in Dbs
    BY SMTT(60), <2>3, CrudAssumption DEF GoodRequest, Permissions
  <2>6. SwarmLimits(perms) \in Nat BY <2>2, MaxesGood DEF SwarmLimits, Maxes
  <2>7. MaxSwarmStorage # 0 => r.max # 0 BY <1>2 DEF Unlimited
  <2>8. ASSUME MaxSwarmStorage # 0, NoneWraps(workload)
        PROVE  SwarmLimits(perms) - old + r.max <= MaxSwarmStorage
    <3> DEFINE u == SwarmLimits(perms)
    <3>1. u \in Nat /\ u <= MaxSwarmStorage /\ r.max + MaxSwarmStorage < SizeWord
      BY <2>2, <2>6, <2>8 DEF PermsGood, SwarmBound, GoodRequest
    <3>2. ~(r.max > old) \/ ~(((u % SizeWord) - old + r.max) % SizeWord > MaxSwarmStorage)
      BY <1>2, <2>8 DEF update_db_exceeds, get_swarm_storage_usage
    <3> HIDE DEF old, u
    <3>3. u < SizeWord /\ SizeWord \in Nat /\ MaxSwarmStorage \in Nat
      BY SMTT(60), <2>5, <3>1, CrudAssumption
    <3>4. u % SizeWord = u BY <3>1, <3>3, SmallRemainder
    <3>5. CASE r.max <= old BY SMTT(60), <2>5, <3>1, <3>3, <3>5 DEF u
    <3>6. CASE r.max > old
      <4>1. u - old + r.max \in Nat /\ u - old + r.max < SizeWord
        BY SMTT(60), <2>5, <3>1, <3>3, <3>6
      <4>2. (u - old + r.max) % SizeWord = u - old + r.max BY <3>3, <4>1, SmallRemainder
      <4> QED BY SMTT(60), <2>5, <3>1, <3>2, <3>3, <3>4, <3>6, <4>1, <4>2 DEF u
    <3> QED BY SMTT(60), <2>5, <3>5, <3>6
  <2> HIDE DEF p
  <2>9. PermsGood(workload, Put(perms, d, p)) BY <2>1, <2>2, <2>4, <2>5, <2>7, <2>8, PutPermsGood
  <2> QED BY <1>2, <2>9, SetPermsSound
<1> QED BY <1>1, <1>2 DEF handle_update_db, Refuse, storage

LEMMA WritersSound ==
    ASSUME Inv, StoreInv, NEW r, GoodRequest(r), handle_add_writers(r) \/ handle_remove_writers(r)
    PROVE  Sound
<1>1. CASE UNCHANGED <<perms, data, ttl>> BY <1>1, RefuseSound
<1>2. ASSUME NEW W \in SUBSET Callers, r.db \in DOMAIN perms,
             SetPerms(r, [perms[r.db] EXCEPT !.writers = W])
      PROVE  Sound
  <2> DEFINE d == r.db
             p == [perms[d] EXCEPT !.writers = W]
  <2>1. PermsGood(workload, perms) /\ d \in DOMAIN perms /\ d \in Dbs
    BY <1>2 DEF StoreInv, StoreGood, GoodRequest
  <2>2. perms[d] \in Permissions BY <2>1 DEF PermsGood
  <2>3. p \in Permissions /\ p.max = perms[d].max /\ perms[d].max \in Nat
    BY SMTT(60), <2>2, CrudAssumption DEF Permissions
  <2> HIDE DEF p
  <2>4. SwarmLimits(perms) \in Nat BY <2>1, MaxesGood DEF SwarmLimits, Maxes
  <2>5. MaxSwarmStorage # 0 =>
           /\ p.max # 0
           /\ NoneWraps(workload) => SwarmLimits(perms) - perms[d].max + p.max <= MaxSwarmStorage
    BY SMTT(60), <2>1, <2>3, <2>4 DEF PermsGood, SwarmBound
  <2>6. PermsGood(workload, Put(perms, d, p)) BY <2>1, <2>3, <2>5, PutPermsGood
  <2> QED BY <1>2, <2>6, SetPermsSound DEF p
<1>3. ASSUME OwnerDenied(r) = "ok"
      PROVE  /\ r.db \in DOMAIN perms /\ perms[r.db].writers \subseteq Callers
             /\ r.writers \subseteq Callers
  <2>1. r.db \in DOMAIN perms BY <1>3 DEF OwnerDenied, Exists
  <2>2. perms[r.db] \in Permissions BY <2>1 DEF StoreInv, StoreGood, PermsGood
  <2> QED BY <2>1, <2>2 DEF Permissions, GoodRequest
<1>4. CASE handle_add_writers(r)
  <2>1. CASE OwnerDenied(r) # "ok"
    BY <1>1, <1>4, <2>1 DEF handle_add_writers, Refuse, storage
  <2>2. CASE OwnerDenied(r) = "ok"
    <3> DEFINE W == perms[r.db].writers \cup (r.writers \ {perms[r.db].owner})
    <3>1. SetPerms(r, [perms[r.db] EXCEPT !.writers = W]) BY <1>4, <2>2 DEF handle_add_writers
    <3>2. W \in SUBSET Callers BY <1>3, <2>2
    <3> HIDE DEF W
    <3> QED BY <1>2, <1>3, <2>2, <3>1, <3>2
  <2> QED BY <2>1, <2>2
<1>5. CASE handle_remove_writers(r)
  <2>1. CASE OwnerDenied(r) # "ok"
    BY <1>1, <1>5, <2>1 DEF handle_remove_writers, Refuse, storage
  <2>2. CASE OwnerDenied(r) = "ok"
    <3> DEFINE W == perms[r.db].writers \ r.writers
    <3>1. SetPerms(r, [perms[r.db] EXCEPT !.writers = W]) BY <1>5, <2>2 DEF handle_remove_writers
    <3>2. W \in SUBSET Callers BY <1>3, <2>2
    <3> HIDE DEF W
    <3> QED BY <1>2, <1>3, <2>2, <3>1, <3>2
  <2> QED BY <2>1, <2>2
<1> QED BY <1>4, <1>5

LEMMA DeleteDbSound == ASSUME Inv, StoreInv, NEW r, handle_delete_db(r) PROVE Sound
<1> DEFINE d == r.db
           f == Maxes(perms)
<1>1. CASE UNCHANGED <<perms, data, ttl>> BY <1>1, RefuseSound
<1>2. CASE /\ OwnerDenied(r) = "ok"
           /\ perms' = Without(perms, {r.db}) /\ data' = [data EXCEPT ![r.db] = EmptyDb]
           /\ ttl' = flush_expiration_entries(r.db)
  <2>1. d \in DOMAIN perms BY <1>2 DEF OwnerDenied, Exists
  <2>2. PermsGood(workload, perms) BY DEF StoreInv, StoreGood
  <2>3. GoodPairs(f) /\ DOMAIN f = DOMAIN perms /\ SumFunction(f) \in Nat BY <2>2, MaxesGood
  <2>4. DOMAIN perms' = DOMAIN perms \ {d} /\ \A e \in DOMAIN perms' : perms'[e] = perms[e]
    BY <1>2 DEF Without
  <2>5. Maxes(perms') = Without(f, {d}) BY <2>4 DEF Maxes, Without
  <2>6. {d} \in SUBSET DOMAIN f BY <2>1, <2>3
  <2>7. /\ SumFunction(Without(f, {d})) = SumFunction(f) - SumFunctionOnSet(f, {d})
        /\ SumFunctionOnSet(f, {d}) \in Nat
    <3> HIDE DEF f
    <3>1. SumFunction(Without(f, {d})) = SumFunction(f) - SumFunctionOnSet(f, {d})
      BY <2>3, <2>6, WithoutSum
    <3> QED BY <2>3, <2>6, <3>1, PairsFacts
  <2>8. SwarmLimits(perms) \in Nat /\ SwarmLimits(perms') \in Int /\ SwarmLimits(perms') <= SwarmLimits(perms)
    <3>1. SwarmLimits(perms) = SumFunction(f) /\ SwarmLimits(perms') = SumFunction(Without(f, {d}))
      BY <2>5 DEF SwarmLimits, Maxes
    <3> QED BY SMTT(60), <2>3, <2>7, <3>1
  <2>9. SwarmBound(workload, perms')
    BY SMTT(60), <2>2, <2>4, <2>8, CrudAssumption DEF PermsGood, SwarmBound
  <2>10. PermsGood(workload, perms')
    <3>1. IsFiniteSet(DOMAIN perms') BY <2>2, <2>4, FS_RemoveElement DEF PermsGood
    <3> QED BY <2>2, <2>4, <2>9, <3>1 DEF PermsGood
  <2>11. TtlGood(ttl')
    BY <1>2, TtlWithout DEF flush_expiration_entries, StoreInv, StoreGood
  <2>12. /\ d \in Dbs /\ DOMAIN data = Dbs /\ data'[d] = EmptyDb
         /\ \A e \in Dbs : e # d => data'[e] = data[e]
    BY <1>2, <2>1, StoreFacts
  <2>13. \A e \in Dbs : GoodDb(data'[e]) BY <2>12, StoreFacts, EmptyGood
  <2>14. \A e \in Dbs : data'[e].bytes <= data[e].bytes
    <3> TAKE e \in Dbs
    <3>1. data[e].bytes \in Nat BY StoreFacts
    <3>2. EmptyDb.bytes = 0 BY DEF EmptyDb
    <3> QED BY SMTT(60), <2>12, <3>1, <3>2
  <2>15. Limits
    <3> SUFFICES ASSUME NEW e \in DOMAIN perms, data'[e].bytes > data[e].bytes PROVE FALSE
      BY DEF Limits
    <3>1. e \in Dbs BY StoreFacts
    <3>2. data[e].bytes \in Nat /\ data'[e].bytes \in Nat BY <2>13, <3>1, StoreFacts, DbFacts
    <3> QED BY SMTT(60), <2>14, <3>1, <3>2
  <2> QED BY <2>10, <2>11, <2>13, <2>15 DEF Sound, StoreGood
<1> QED BY <1>1, <1>2 DEF handle_delete_db, Refuse, storage

LEMMA HandleSound == ASSUME Inv, StoreInv, NEW r, GoodRequest(r), Handle(r) PROVE Sound
<1>1. CASE \/ handle_read(r) \/ handle_has(r) \/ handle_keys(r) \/ handle_size(r) \/ handle_has_db(r)
           \/ handle_writers(r) \/ handle_ttl(r) \/ handle_subscribe(r) \/ handle_unsubscribe(r)
  <2>1. UNCHANGED <<perms, data, ttl>>
    BY <1>1 DEF handle_read, handle_has, handle_keys, handle_size, handle_has_db, handle_writers, handle_ttl,
                handle_subscribe, handle_unsubscribe, Answer, Refuse, storage
  <2> QED BY <2>1, RefuseSound
<1>2. CASE handle_persist(r) \/ handle_expire(r)
  BY <1>2, RetimeSound DEF handle_persist, handle_expire
<1>3. CASE handle_create_db(r) \/ handle_update_db(r) \/ handle_delete_db(r)
  BY <1>3, CreateDbSound, UpdateDbSound, DeleteDbSound
<1>4. CASE handle_create(r) \/ handle_update(r) \/ handle_delete(r)
  BY <1>4, CreateSound, UpdateSound, DeleteSound
<1>5. CASE handle_add_writers(r) \/ handle_remove_writers(r) BY <1>5, WritersSound
<1> QED BY <1>1, <1>2, <1>3, <1>4, <1>5 DEF Handle

-----------------------------------------------------------------------------
LEMMA InitStore == Init => StoreInv
<1> SUFFICES ASSUME Init PROVE StoreInv OBVIOUS
<1>1. DOMAIN perms = {} /\ DOMAIN ttl = {} /\ snapshots = {} /\ clock = 0 /\ pending = {}
  BY DEF Init
<1>2. \A d \in Dbs : GoodDb(data[d]) BY EmptyGood DEF Init
<1>3. PermsGood(workload, perms)
  <2>1. SwarmLimits(perms) = 0 BY <1>1, SumEmpty DEF SwarmLimits, SumFunction
  <2> QED BY SMTT(60), <1>1, <2>1, FS_EmptySet, CrudAssumption DEF PermsGood, SwarmBound
<1> QED BY <1>1, <1>2, <1>3 DEF StoreInv, StoreGood, TtlGood

(* A step keeps StoreInv, and if it answers a request or a delete of the   *)
(* timer it keeps the databases within their limits.                       *)
LEMMA StepStore ==
    Inv /\ StoreInv /\ [Next]_vars => StoreInv' /\ (reply' # reply => Limits)
<1> SUFFICES ASSUME Inv, StoreInv, [Next]_vars PROVE StoreInv' /\ (reply' # reply => Limits) OBVIOUS
<1>0. ASSUME Sound, UNCHANGED <<workload, snapshots, clock>>, pending' \subseteq Dbs \X Keys
      PROVE  StoreInv' /\ (reply' # reply => Limits)
  BY <1>0 DEF StoreInv, Sound
<1>1. ASSUME NEW r \in workload, handle_request(r) PROVE StoreInv' /\ (reply' # reply => Limits)
  <2>1. GoodRequest(r) BY CrudAssumption DEF Inv, GoodRequest, NoneWraps
  <2>2. Handle(r) /\ UNCHANGED <<workload, snapshots, clock, pending>> BY <1>1 DEF handle_request
  <2>3. Sound BY <2>1, <2>2, HandleSound
  <2> QED BY <1>0, <2>2, <2>3 DEF StoreInv
<1>2. CASE check_key_expiration
  <2>1. /\ pending' = pending \cup {x \in DOMAIN ttl : ttl[x] <= clock}
        /\ \E stale : ttl' = Without(ttl, stale)
        /\ UNCHANGED <<workload, perms, data, snapshots, clock>>
    BY <1>2 DEF check_key_expiration
  <2>2. TtlGood(ttl) /\ PermsGood(workload, perms') BY <2>1 DEF StoreInv, StoreGood
  <2>3. TtlGood(ttl') BY <2>1, <2>2, TtlWithout
  <2>4. pending' \subseteq Dbs \X Keys BY <2>1, <2>2 DEF TtlGood, StoreInv
  <2>5. Sound BY <2>1, <2>2, <2>3, UnchangedSound
  <2> QED BY <1>0, <2>1, <2>4, <2>5
<1>3. ASSUME NEW x \in pending, ExecuteDelete(x) PROVE StoreInv' /\ (reply' # reply => Limits)
  <2>1. handle_delete(DeleteRequest(x)) /\ pending' = pending \ {x} /\ UNCHANGED <<workload, snapshots, clock>>
    BY <1>3 DEF ExecuteDelete
  <2>2. Sound BY <2>1, DeleteSound
  <2> QED BY <1>0, <2>1, <2>2 DEF StoreInv
<1>4. CASE save_state
  <2>1. /\ snapshots' = {[perms |-> perms, data |-> data, ttl |-> ttl]}
        /\ UNCHANGED <<workload, perms, data, ttl, clock, pending, reply>>
    BY <1>4 DEF save_state, storage
  <2> QED BY SMTT(60), <2>1 DEF StoreInv
<1>5. CASE load_state
  <2>1. /\ \E s \in snapshots : perms' = s.perms /\ data' = s.data /\ ttl' = s.ttl
        /\ UNCHANGED <<workload, snapshots, clock, pending, reply>>
    BY <1>5 DEF load_state
  <2> QED BY <2>1 DEF StoreInv
<1>6. CASE Tick
  <2>1. clock' = clock + 1 /\ UNCHANGED <<workload, perms, data, ttl, snapshots, pending, reply>>
    BY <1>6 DEF Tick, storage
  <2> QED BY SMTT(60), <2>1 DEF StoreInv
<1>7. ASSUME \/ \E s \in alive : SessionGone(s)
             \/ PurgeClosedSessions \/ UNCHANGED vars
      PROVE  StoreInv' /\ (reply' # reply => Limits)
  <2>1. UNCHANGED <<workload, perms, data, ttl, snapshots, clock, pending, reply>>
    BY <1>7 DEF SessionGone, PurgeClosedSessions, vars, storage
  <2> QED BY <2>1 DEF StoreInv
<1> QED BY <1>1, <1>2, <1>3, <1>4, <1>5, <1>6, <1>7 DEF Next

LEMMA Invariance == Spec => [](Inv /\ StoreInv)
<1>1. Init => Inv /\ StoreInv BY InitInv, InitStore
<1>2. Inv /\ StoreInv /\ [Next]_vars => (Inv /\ StoreInv)' BY StepInv, StepStore
<1> QED BY <1>1, <1>2, PTL DEF Spec

(* A database that was deleted leaves no pair, byte or TTL entry behind,   *)
(* in storage or in a snapshot, for any requests in any order.             *)
THEOREM NothingLeftBehindTheorem == Spec => []NothingLeftBehind
<1>1. Inv => NothingLeftBehind BY DEF Inv, CleanInv, Clean, NothingLeftBehind
<1> QED BY <1>1, InitInv, StepInv, PTL DEF Spec

(* A subscriber that has been notified, and whose session exists, has been *)
(* sent the latest sequence number of its key.                             *)
THEOREM SubscribersCurrentTheorem == Spec => []SubscribersCurrent
<1>1. Inv => SubscribersCurrent BY DEF Inv, SubsInv, Current, SubscribersCurrent
<1> QED BY <1>1, InitInv, StepInv, PTL DEF Spec

(* Storage and its snapshots hold what crud reads them as.                 *)
THEOREM TypeTheorem == Spec => []TypeOK
<1>1. ASSUME NEW p, NEW dt, NEW tl, Clean(p, dt, tl), StoreGood(workload, p, dt, tl) PROVE StorageOK(p, dt, tl)
  <2>1. \A d \in Dbs : dt[d].bytes \in Nat BY <1>1, DbFacts DEF StoreGood
  <2> QED BY SMTT(60), <1>1, <2>1 DEF Clean, StoreGood, StorageOK, PermsGood, TtlGood, GoodDb, GoodPairs, NatOn
<1>2. Inv /\ StoreInv => TypeOK
  BY <1>1 DEF Inv, CleanInv, StoreInv, TypeOK
<1> QED BY <1>2, Invariance, PTL

(* The byte counter of every database is the bytes of its pairs, after any *)
(* sequence of creates, updates, deletes, evictions and loaded states.     *)
THEOREM SizeExactTheorem == Spec => []SizeExact
<1>1. StoreInv => SizeExact BY DEF StoreInv, StoreGood, GoodDb, SizeExact
<1> QED BY <1>1, Invariance, PTL

(* The limits of the databases never add up to more than the swarm's while *)
(* no sum of sizes wraps, and none is without a limit.                     *)
THEOREM SwarmStorageBoundTheorem == Spec => []SwarmStorageBound
<1>1. StoreInv => SwarmStorageBound
  BY DEF StoreInv, StoreGood, PermsGood, SwarmBound, SwarmStorageBound
<1> QED BY <1>1, Invariance, PTL

(* No create or update leaves a database that it made larger above its     *)
(* limit, whichever pairs either eviction policy chose.                    *)
THEOREM WithinLimitTheorem == Spec => WithinLimit
<1>1. Inv /\ StoreInv /\ [Next]_vars =>
         [\A d \in DOMAIN perms :
             reply' # reply /\ data'[d].bytes > data[d].bytes
                => perms[d].max = 0 \/ data'[d].bytes <= perms[d].max]_vars
  BY StepStore DEF Limits
<1> QED BY <1>1, Invariance, PTL DEF Spec, WithinLimit
=============================================================================
