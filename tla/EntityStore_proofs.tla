-------------------------- MODULE EntityStore_proofs --------------------------
(***************************************************************************)
(* Theorems of EntityStore.                                                *)
(***************************************************************************)
EXTENDS EntityStore, FiniteSetTheorems, SequenceTheorems, TLAPS

-----------------------------------------------------------------------------
(* Numbers                                                                 *)

LEMMA NatMin ==
    ASSUME NEW T \in SUBSET Nat, T # {}
    PROVE  Min(T) \in T /\ \A y \in T : Min(T) <= y
  <1> DEFINE R == {p \in Nat \X Nat : p[1] < p[2]}
  <1>1. IsWellFoundedOn(R, Nat)
    BY NatLessThanWellFounded DEF OpToRel
  <1>2. PICK x \in T : \A y \in T : ~ (<<y, x>> \in R)
    <2> HIDE DEF R
    <2> QED
      BY <1>1, WFMin
  <1>3. ASSUME NEW y \in T, ~ (x <= y) PROVE FALSE
    <2>1. x \in Nat /\ y \in Nat /\ y < x
      BY <1>3
    <2>2. <<y, x>> \in R
      BY <2>1
    <2> QED
      BY <1>2, <2>2
  <1> QED
    BY <1>3 DEF Min

\* Induction up to n, for a set of numbers.
LEMMA SetInduction ==
    ASSUME NEW n \in Nat, NEW S, 0 \in S, \A k \in 0..n : k \in S /\ k < n => k + 1 \in S
    PROVE  \A k \in 0..n : k \in S
  <1> DEFINE T == {k \in 0..n : k \notin S}
  <1>1. SUFFICES ASSUME T # {} PROVE FALSE
    OBVIOUS
  <1>2. T \in SUBSET Nat
    OBVIOUS
  <1>3. Min(T) \in T /\ \A y \in T : Min(T) <= y
    BY <1>1, <1>2, NatMin
  <1> HIDE DEF T
  <1>4. PICK x \in T : \A y \in T : x <= y
    BY <1>3
  <1>5. x \in 1..n /\ x - 1 \in 0..n /\ x - 1 < n
    BY <1>4 DEF T
  <1>6. x - 1 \notin T
    BY <1>4, <1>5
  <1>7. x - 1 \in S
    BY <1>5, <1>6 DEF T
  <1>8. (x - 1) + 1 \in S
    BY <1>5, <1>7
  <1> QED
    BY <1>4, <1>5, <1>8 DEF T

\* A finite set of numbers has a greatest.
LEMMA FiniteMax ==
    ASSUME NEW T, IsFiniteSet(T), T \subseteq Nat, T # {}
    PROVE  Max(T) \in T /\ \A y \in T : y <= Max(T)
  <1> DEFINE Topped(U) == U # {} => \E x \in U : \A y \in U : y <= x
             S == {k \in Nat : \A U \in SUBSET T : Cardinality(U) = k => Topped(U)}
  <1>1. Cardinality(T) \in Nat
    BY FS_CardinalityType
  <1>2. 0 \in S
    BY FS_Subset, FS_EmptySet
  <1>3. ASSUME NEW k \in Nat, k \in S PROVE k + 1 \in S
    <2>1. SUFFICES ASSUME NEW U \in SUBSET T, Cardinality(U) = k + 1, U # {} PROVE Topped(U)
      OBVIOUS
    <2>2. PICK x \in U : TRUE
      BY <2>1
    <2>3. U \ {x} \in SUBSET T /\ IsFiniteSet(U)
      BY FS_Subset
    <2>4. Cardinality(U \ {x}) = k
      <3>1. Cardinality(U \ {x}) = Cardinality(U) - 1
        BY <2>2, <2>3, FS_RemoveElement
      <3> QED
        BY <2>1, <3>1
    <2>5. Topped(U \ {x})
      BY <1>3, <2>3, <2>4
    <2>6. CASE U \ {x} = {}
      BY <2>2, <2>6
    <2>7. CASE U \ {x} # {}
      <3>1. PICK m \in U \ {x} : \A y \in U \ {x} : y <= m
        BY <2>5, <2>7
      <3>2. CASE m <= x
        <4>1. \A y \in U : y <= x
          BY <2>2, <3>1, <3>2
        <4> QED
          BY <2>2, <4>1
      <3>3. CASE ~ (m <= x)
        <4>1. \A y \in U : y <= m
          BY <2>2, <3>1, <3>3
        <4> QED
          BY <3>1, <4>1
      <3> QED
        BY <3>2, <3>3
    <2> QED
      BY <2>6, <2>7
  <1>4. Cardinality(T) \in S
    <2> HIDE DEF S
    <2>1. \A k \in 0..Cardinality(T) : k \in S /\ k < Cardinality(T) => k + 1 \in S
      BY <1>3
    <2>2. \A k \in 0..Cardinality(T) : k \in S
      BY <1>1, <1>2, <2>1, SetInduction
    <2> QED
      BY <1>1, <2>2
  <1>5. \E x \in T : \A y \in T : x >= y
    BY <1>4
  <1> QED
    BY <1>5 DEF Max

-----------------------------------------------------------------------------
(* What a synthesis says of the records it is made from                    *)

\* A value that one of the records has, for media the largest size.
ValueOf(key, recs, D, val) ==
    LET valued == {a \in D : recs[a].val # None} IN
    IF valued = {} THEN val = None
    ELSE /\ \E a \in valued : val = recs[a].val
         /\ key = "media" => \A a \in valued : recs[a].val <= val

\* A platform of theirs, and a pk as soon as one of them has it.
IdentityOf(recs, D, rec) ==
    /\ \E a \in D : rec.plat = recs[a].plat
    /\ rec.pk # None => \E a \in D : rec.pk = recs[a].pk
    /\ rec.pk = None => \A a \in D : recs[a].pk = None

SizesKnown(key, recs) == key = "media" => \A a \in DOMAIN recs : recs[a].val \in Nat \cup {None}

\* What a value is one of, with one record more that has none, or that has the value.
LEMMA OneMore ==
    ASSUME NEW key, NEW recs, SizesKnown(key, recs), NEW D \in SUBSET DOMAIN recs,
           NEW old, ValueOf(key, recs, D, old), NEW a \in DOMAIN recs, NEW val,
           \/ recs[a].val = None /\ val = old
           \/ recs[a].val # None /\ old = None /\ val = recs[a].val
           \/ recs[a].val # None /\ old # None /\ key # "media" /\ val \in {old, recs[a].val}
           \/ recs[a].val # None /\ old # None /\ key = "media"
              /\ val = IF recs[a].val > old THEN recs[a].val ELSE old
    PROVE  ValueOf(key, recs, D \cup {a}, val)
  <1> DEFINE before == {b \in D : recs[b].val # None}
             all == {b \in D \cup {a} : recs[b].val # None}
  <1>1. CASE recs[a].val = None /\ val = old
    <2>1. all = before
      BY <1>1
    <2> QED
      BY <1>1, <2>1 DEF ValueOf
  <1>2. CASE recs[a].val # None /\ old = None /\ val = recs[a].val
    <2>1. before = {}
      BY <1>2 DEF ValueOf
    <2>2. all = {a}
      BY <1>2, <2>1
    <2>3. key = "media" => recs[a].val <= val
      BY <1>2 DEF SizesKnown
    <2> QED
      BY <1>2, <2>2, <2>3 DEF ValueOf
  <1>3. CASE recs[a].val # None /\ old # None
    <2>1. PICK c \in before : old = recs[c].val
      BY <1>3 DEF ValueOf
    <2>2. all = before \cup {a}
      BY <1>3
    <2>3. CASE key # "media"
      <3>1. val \in {old, recs[a].val}
        BY <1>3, <2>3
      <3> QED
        BY <2>1, <2>2, <2>3, <3>1 DEF ValueOf
    <2>4. CASE key = "media"
      <3>1. val = IF recs[a].val > old THEN recs[a].val ELSE old
        BY <1>3, <2>4
      <3>2. recs[a].val \in Nat /\ old \in Nat /\ \A b \in before : recs[b].val \in Nat
        BY <1>3, <2>1, <2>4 DEF SizesKnown
      <3>3. \A b \in before : recs[b].val <= old
        BY <2>1, <2>4 DEF ValueOf
      <3>4. \A b \in all : recs[b].val <= val
        BY <2>2, <3>1, <3>2, <3>3
      <3>5. val \in {old, recs[a].val}
        BY <3>1
      <3> QED
        BY <2>1, <2>2, <3>4, <3>5 DEF ValueOf
    <2> QED
      BY <2>3, <2>4
  <1> QED
    BY <1>1, <1>2, <1>3

\* reconcile_X with one record more, which gives way to what was read so far.
LEMMA RecordGivesWay ==
    ASSUME NEW key, NEW recs, SizesKnown(key, recs), NEW D \in SUBSET DOMAIN recs, NEW rec,
           NEW a \in DOMAIN recs, ValueOf(key, recs, D, rec.val), IdentityOf(recs, D, rec)
    PROVE  LET new == Reconcile(key, recs[a], rec) IN
           ValueOf(key, recs, D \cup {a}, new.val) /\ IdentityOf(recs, D \cup {a}, new)
  <1> DEFINE new == Reconcile(key, recs[a], rec)
  <1>1. new.pk = First(rec.pk, recs[a].pk) /\ new.plat = rec.plat
    BY DEF Reconcile, ReconcileFields, ReconcileMedia
  <1>2. new.val = IF key = "media" /\ Larger(recs[a].val, rec.val) THEN recs[a].val
                  ELSE First(rec.val, recs[a].val)
    BY DEF Reconcile, ReconcileFields, ReconcileMedia
  <1> HIDE DEF new
  <1>3. IdentityOf(recs, D \cup {a}, new)
    BY <1>1 DEF IdentityOf, First
  <1>4. \/ recs[a].val = None /\ new.val = rec.val
        \/ recs[a].val # None /\ rec.val = None /\ new.val = recs[a].val
        \/ recs[a].val # None /\ rec.val # None /\ key # "media" /\ new.val \in {rec.val, recs[a].val}
        \/ recs[a].val # None /\ rec.val # None /\ key = "media"
           /\ new.val = IF recs[a].val > rec.val THEN recs[a].val ELSE rec.val
    BY <1>2 DEF First, Larger
  <1>5. ValueOf(key, recs, D \cup {a}, new.val)
    BY <1>4, OneMore
  <1> QED
    BY <1>3, <1>5 DEF new

\* synthesize_from_archives says of its records what ValueOf and IdentityOf say.
LEMMA SynthesisOfRecords ==
    ASSUME NEW key, NEW recs, SizesKnown(key, recs),
           Len(recs) \in Nat \ {0}, DOMAIN recs = 1..Len(recs)
    PROVE  LET rec == SynthesizeFromArchives(key, recs) IN
           ValueOf(key, recs, DOMAIN recs, rec.val) /\ IdentityOf(recs, DOMAIN recs, rec)
  <1> DEFINE N == Len(recs) - 1
             Body(f, n) == IF n = 0 THEN recs[1] ELSE Reconcile(key, recs[n + 1], f[n - 1])
             IsSum(f, m) == f = [n \in 0..m |-> Body(f, n)]
             sum == CHOOSE f : IsSum(f, N)
             From(n) == 1..(n + 1)
             Sums(n) == ValueOf(key, recs, From(n), sum[n].val) /\ IdentityOf(recs, From(n), sum[n])
  <1>1. N \in Nat /\ DOMAIN recs = 1..(N + 1)
    OBVIOUS
  <1>2. SynthesizeFromArchives(key, recs) = sum[N]
    BY DEF SynthesizeFromArchives
  <1> HIDE DEF N
  <1>3. \E f : IsSum(f, N)
    <2> DEFINE S == {m \in 0..N : \E f : IsSum(f, m)}
    <2>1. 0 \in S
      <3> DEFINE f == [n \in 0..0 |-> recs[1]]
      <3>1. IsSum(f, 0)
        OBVIOUS
      <3>2. \E h : IsSum(h, 0)
        <4> HIDE DEF f, IsSum
        <4> QED
          BY <3>1
      <3> HIDE DEF IsSum
      <3> QED
        BY <3>2, <1>1
    <2>2. ASSUME NEW m \in 0..N, m \in S, m < N PROVE m + 1 \in S
      <3>1. PICK f : IsSum(f, m)
        BY <2>2
      <3> DEFINE g == [n \in 0..(m + 1) |-> IF n = m + 1 THEN Body(f, m + 1) ELSE f[n]]
      <3>2. ASSUME NEW n \in 0..(m + 1) PROVE g[n] = Body(g, n)
        <4>1. CASE n = 0
          <5>1. f[0] = Body(f, 0) /\ 0 # m + 1
            BY <3>1, <1>1
          <5> QED
            BY <4>1, <5>1
        <4>2. CASE n \in 1..m
          <5>1. f[n] = Body(f, n) /\ g[n - 1] = f[n - 1] /\ g[n] = f[n]
            BY <3>1, <4>2, <1>1
          <5> QED
            BY <5>1
        <4>3. CASE n = m + 1
          <5>1. g[n - 1] = f[n - 1] /\ g[n] = Body(f, n)
            BY <4>3, <1>1
          <5> QED
            BY <5>1
        <4> QED
          BY <4>1, <4>2, <4>3, <1>1
      <3>3. IsSum(g, m + 1)
        <4> HIDE DEF Body
        <4> QED
          BY <3>2
      <3>4. \E h : IsSum(h, m + 1)
        <4> HIDE DEF g, IsSum
        <4> QED
          BY <3>3
      <3> HIDE DEF IsSum
      <3> QED
        BY <3>4, <2>2, <1>1
    <2>3. \A k \in 0..N : k \in S /\ k < N => k + 1 \in S
      BY <2>2
    <2> HIDE DEF S
    <2>4. N \in S
      BY <2>1, <2>3, <1>1, SetInduction
    <2> QED
      BY <2>4 DEF S
  <1>4. IsSum(sum, N)
    <2> HIDE DEF IsSum
    <2> QED
      BY <1>3
  <1>5. \A n \in 0..N : sum[n] = Body(sum, n)
    <2> HIDE DEF sum, Body
    <2> QED
      BY <1>4
  <1> HIDE DEF sum
  <1>6. Sums(0)
    <2>1. From(0) = {1}
      OBVIOUS
    <2>2. sum[0] = recs[1]
      BY <1>5, <1>1
    <2>3. IdentityOf(recs, {1}, recs[1])
      BY DEF IdentityOf
    <2>4. ValueOf(key, recs, {1}, recs[1].val)
      BY <1>1 DEF ValueOf, SizesKnown
    <2> QED
      BY <2>1, <2>2, <2>3, <2>4
  <1>7. ASSUME NEW n \in 0..N, Sums(n), n < N PROVE Sums(n + 1)
    <2> DEFINE a == (n + 1) + 1
    <2>1. n + 1 \in 1..N /\ (n + 1) - 1 = n /\ a \in DOMAIN recs
      BY <1>1, <1>7
    <2>2. sum[n + 1] = Reconcile(key, recs[a], sum[n])
      BY <1>5, <2>1
    <2>3. From(n) \in SUBSET DOMAIN recs /\ From(n + 1) = From(n) \cup {a}
      BY <1>1, <1>7
    <2> HIDE DEF From, a
    <2>4. ValueOf(key, recs, From(n) \cup {a}, Reconcile(key, recs[a], sum[n]).val)
          /\ IdentityOf(recs, From(n) \cup {a}, Reconcile(key, recs[a], sum[n]))
      BY <1>7, <2>1, <2>3, RecordGivesWay
    <2> QED
      BY <2>2, <2>3, <2>4
  <1>8. Sums(N)
    <2> DEFINE S == {n \in 0..N : Sums(n)}
    <2> HIDE DEF Sums
    <2>1. 0 \in S
      BY <1>6, <1>1
    <2>2. \A k \in 0..N : k \in S /\ k < N => k + 1 \in S
      BY <1>7, <1>1
    <2>3. \A k \in 0..N : k \in S
      <3> HIDE DEF S
      <3> QED
        BY <2>1, <2>2, <1>1, SetInduction
    <2> QED
      BY <2>3, <1>1
  <1>9. From(N) = DOMAIN recs
    BY <1>1
  <1> QED
    BY <1>2, <1>8, <1>9

\* What is said of the records in some order is said of the records.
LEMMA InAnyOrder ==
    ASSUME NEW key, NEW now, NEW S, NEW order \in Orders(S), Cardinality(S) \in Nat, S # {},
           SizesKnown(key, now), DOMAIN now = S, NEW recs,
           recs = [n \in DOMAIN order |-> now[order[n]]], NEW rec, rec = SynthesizeFromArchives(key, recs)
    PROVE  ValueOf(key, now, S, rec.val) /\ IdentityOf(now, S, rec)
  <1> DEFINE D == DOMAIN order
  <1>1. D = 1..Cardinality(S) /\ (\A n \in D : order[n] \in S) /\ \A a \in S : \E n \in D : order[n] = a
    BY DEF Orders, Range
  <1>2. Cardinality(S) # 0 /\ DOMAIN recs = 1..Cardinality(S)
    BY <1>1
  <1>3. recs \in Seq({now[a] : a \in S}) /\ Len(recs) = Cardinality(S)
    <2>1. recs \in [1..Cardinality(S) -> {now[a] : a \in S}]
      BY <1>1
    <2> QED
      BY <2>1
  <1>4. \A n \in D : recs[n] = now[order[n]]
    OBVIOUS
  <1> HIDE DEF D
  <1>5. SizesKnown(key, recs)
    BY <1>1, <1>2, <1>4 DEF SizesKnown
  <1>6. ValueOf(key, recs, D, rec.val) /\ IdentityOf(recs, D, rec)
    BY <1>1, <1>2, <1>3, <1>5, SynthesisOfRecords
  <1> DEFINE valued == {a \in S : now[a].val # None}
             read == {n \in D : recs[n].val # None}
  <1>7. (\A n \in read : order[n] \in valued) /\ \A a \in valued : \E n \in read : order[n] = a
    BY <1>1, <1>4
  <1>8. \A n \in read : recs[n].val = now[order[n]].val
    BY <1>4
  <1>9. ValueOf(key, now, S, rec.val)
    <2>1. CASE read = {}
      <3>1. valued = {} /\ rec.val = None
        BY <1>6, <1>7, <2>1 DEF ValueOf
      <3> QED
        BY <3>1 DEF ValueOf
    <2>2. CASE read # {}
      <3>1. PICK n \in read : rec.val = recs[n].val
        BY <1>6, <2>2 DEF ValueOf
      <3>2. key = "media" => \A k \in read : recs[k].val <= rec.val
        BY <1>6, <2>2 DEF ValueOf
      <3>3. order[n] \in valued /\ rec.val = now[order[n]].val
        BY <1>7, <1>8, <3>1
      <3>4. ASSUME key = "media", NEW a \in valued PROVE now[a].val <= rec.val
        <4>1. PICK k \in read : order[k] = a
          BY <1>7
        <4>2. now[a].val = recs[k].val
          BY <1>8, <4>1
        <4> QED
          BY <3>2, <3>4, <4>2
      <3> HIDE DEF read
      <3> QED
        BY <3>3, <3>4 DEF ValueOf
    <2> QED
      BY <2>1, <2>2
  <1>10. IdentityOf(now, S, rec)
    <2>1. PICK n \in D : rec.plat = recs[n].plat
      BY <1>6 DEF IdentityOf
    <2>2. \E a \in S : rec.plat = now[a].plat
      <3>1. order[n] \in S /\ rec.plat = now[order[n]].plat
        BY <1>1, <1>4, <2>1
      <3> QED
        BY <3>1
    <2>3. ASSUME rec.pk # None PROVE \E a \in S : rec.pk = now[a].pk
      <3>1. PICK k \in D : rec.pk = recs[k].pk
        BY <1>6, <2>3 DEF IdentityOf
      <3>2. order[k] \in S /\ rec.pk = now[order[k]].pk
        BY <1>1, <1>4, <3>1
      <3> QED
        BY <3>2
    <2>4. ASSUME rec.pk = None, NEW a \in S PROVE now[a].pk = None
      <3>1. PICK k \in D : order[k] = a
        BY <1>1
      <3>2. recs[k].pk = None
        BY <1>6, <2>4 DEF IdentityOf
      <3>3. recs[k] = now[a]
        BY <1>4, <3>1
      <3> QED
        BY <3>2, <3>3
    <2> QED
      BY <2>2, <2>3, <2>4 DEF IdentityOf
  <1> QED
    BY <1>9, <1>10

-----------------------------------------------------------------------------
(* The replay of statements                                                *)

Replays(out, d, f, m) == f = [n \in 0..m |-> IF n = 0 THEN d ELSE Exec(out[n], f[n - 1])]

LEMMA ReplayExists ==
    ASSUME NEW out, NEW d, NEW m \in Nat
    PROVE  \E f : Replays(out, d, f, m)
  <1> DEFINE S == {n \in 0..m : \E f : Replays(out, d, f, n)}
  <1>1. 0 \in S
    <2> DEFINE f == [n \in 0..0 |-> d]
    <2>1. Replays(out, d, f, 0)
      BY DEF Replays
    <2> HIDE DEF f
    <2> QED
      BY <2>1
  <1>2. ASSUME NEW k \in 0..m, k \in S, k < m PROVE k + 1 \in S
    <2>1. PICK f : Replays(out, d, f, k)
      BY <1>2
    <2> DEFINE Next1 == Exec(out[k + 1], f[k])
               g == [n \in 0..(k + 1) |-> IF n = k + 1 THEN Next1 ELSE f[n]]
    <2>2. ASSUME NEW n \in 0..(k + 1)
          PROVE  g[n] = IF n = 0 THEN d ELSE Exec(out[n], g[n - 1])
      <3>1. CASE n = 0
        <4>1. f[0] = d /\ 0 # k + 1 /\ 0 \in 0..k
          BY <2>1 DEF Replays
        <4> HIDE DEF Next1
        <4> QED
          BY <3>1, <4>1
      <3>2. CASE n \in 1..k
        <4>1. f[n] = Exec(out[n], f[n - 1])
          BY <2>1, <3>2 DEF Replays
        <4>2. g[n - 1] = f[n - 1] /\ g[n] = f[n] /\ n # 0
          BY <3>2
        <4> QED
          BY <4>1, <4>2
      <3>3. CASE n = k + 1
        <4>1. g[n - 1] = f[k] /\ n # 0
          BY <3>3
        <4>2. g[n] = Next1
          BY <3>3
        <4> QED
          BY <3>3, <4>1, <4>2
      <3> QED
        BY <3>1, <3>2, <3>3
    <2>3. Replays(out, d, g, k + 1)
      <3> DEFINE h == [n \in 0..(k + 1) |-> IF n = 0 THEN d ELSE Exec(out[n], g[n - 1])]
      <3>1. g = h
        BY <2>2
      <3> QED
        BY <3>1 DEF Replays
    <2>4. \E f1 : Replays(out, d, f1, k + 1)
      <3> HIDE DEF g
      <3> QED
        BY <2>3
    <2> QED
      BY <2>4, <1>2
  <1>3. m \in S
    <2>1. \A k \in 0..m : k \in S /\ k < m => k + 1 \in S
      BY <1>2
    <2> HIDE DEF S
    <2> QED
      BY <1>1, <2>1, SetInduction
  <1> QED
    BY <1>3

LEMMA ReplayIs ==
    ASSUME NEW out, NEW d, Len(out) \in Nat
    PROVE  \E f : Replays(out, d, f, Len(out)) /\ Replay(out, d) = f[Len(out)]
  <1> DEFINE f == CHOOSE g : Replays(out, d, g, Len(out))
  <1>1. Replays(out, d, f, Len(out))
    BY ReplayExists
  <1>2. Replay(out, d) = f[Len(out)]
    BY DEF Replay, Replays
  <1> HIDE DEF f
  <1> QED
    BY <1>1, <1>2

LEMMA ReplayNothing ==
    ASSUME NEW d
    PROVE  Replay(<<>>, d) = d
  BY ReplayIs DEF Replays

\* A statement at the end of the list is executed last.
LEMMA ReplayAppend ==
    ASSUME NEW T, NEW out \in Seq(T), NEW st \in T, NEW d
    PROVE  Replay(Append(out, st), d) = Exec(st, Replay(out, d))
  <1> DEFINE more == Append(out, st)
             N == Len(out)
  <1>1. /\ N \in Nat /\ Len(more) = N + 1 /\ more[N + 1] = st
        /\ \A n \in 1..N : more[n] = out[n]
    BY AppendProperties
  <1>2. PICK f : Replays(out, d, f, N) /\ Replay(out, d) = f[N]
    BY <1>1, ReplayIs
  <1>3. PICK g : Replays(more, d, g, N + 1) /\ Replay(more, d) = g[N + 1]
    <2> HIDE DEF more
    <2>1. Len(more) \in Nat
      BY <1>1
    <2>2. \E g : Replays(more, d, g, Len(more)) /\ Replay(more, d) = g[Len(more)]
      BY <2>1, ReplayIs
    <2> QED
      BY <1>1, <2>2
  <1> HIDE DEF more, N
  <1> DEFINE S == {n \in 0..N : f[n] = g[n]}
  <1>4. 0 \in S
    BY <1>1, <1>2, <1>3 DEF Replays
  <1>5. ASSUME NEW k \in 0..N, k \in S, k < N PROVE k + 1 \in S
    <2>1. k + 1 \in 1..N /\ k + 1 # 0 /\ (k + 1) - 1 = k
      BY <1>1, <1>5
    <2>2. f[k + 1] = Exec(out[k + 1], f[k])
      BY <1>1, <1>2, <2>1 DEF Replays
    <2>3. g[k + 1] = Exec(more[k + 1], g[k])
      BY <1>1, <1>3, <2>1 DEF Replays
    <2> QED
      BY <1>1, <1>5, <2>1, <2>2, <2>3
  <1>6. N \in S
    <2>1. \A k \in 0..N : k \in S /\ k < N => k + 1 \in S
      BY <1>5
    <2>2. N \in Nat
      BY <1>1
    <2> HIDE DEF S
    <2>3. \A k \in 0..N : k \in S
      BY <1>4, <2>1, <2>2, SetInduction
    <2> QED
      BY <2>2, <2>3
  <1>7. g[N + 1] = Exec(more[N + 1], g[N])
    <2>1. N + 1 \in 0..(N + 1) /\ N + 1 # 0 /\ (N + 1) - 1 = N
      BY <1>1
    <2> QED
      BY <1>3, <2>1 DEF Replays
  <1>8. Replay(more, d) = Exec(st, Replay(out, d))
    BY <1>1, <1>2, <1>3, <1>6, <1>7
  <1> QED
    BY <1>8 DEF more

-----------------------------------------------------------------------------
(* Redirects                                                               *)

\* Where every redirect ends at a live row, resolving takes one hop.
Target(d, i) == IF Live(d, i) THEN i ELSE d.rows[i].into

LEMMA ResolveIsTarget ==
    ASSUME NEW d, IsFiniteSet(DOMAIN d.rows), Inert(d), NEW i \in DOMAIN d.rows
    PROVE  Resolve(d, i) = Target(d, i)
  <1> DEFINE N == Cardinality(DOMAIN d.rows)
             Step(x) == IF Live(d, x) THEN x ELSE d.rows[x].into
             Hops(f) == f = [n \in Nat |-> IF n = 0 THEN i
                                           ELSE IF Live(d, f[n - 1]) THEN f[n - 1]
                                           ELSE d.rows[f[n - 1]].into]
             hop == CHOOSE f : Hops(f)
             g == [n \in Nat |-> IF n = 0 THEN i ELSE Target(d, i)]
  <1>1. N \in Nat /\ N # 0
    BY FS_CardinalityType, FS_EmptySet
  <1>2. Live(d, Target(d, i))
    BY DEF Inert, Target
  <1>3. Hops(g)
    <2>1. ASSUME NEW n \in Nat
          PROVE  g[n] = IF n = 0 THEN i ELSE Step(g[n - 1])
      <3>1. CASE n = 0
        BY <3>1
      <3>2. CASE n = 1
        BY <3>2 DEF Target
      <3>3. CASE n # 0 /\ n # 1
        <4>1. n - 1 \in Nat /\ n - 1 # 0
          BY <3>3
        <4>2. g[n - 1] = Target(d, i)
          BY <4>1
        <4> QED
          BY <3>3, <4>2, <1>2
      <3> QED
        BY <3>1, <3>2, <3>3
    <2>2. g = [n \in Nat |-> IF n = 0 THEN i ELSE Step(g[n - 1])]
      <3> DEFINE h == [n \in Nat |-> IF n = 0 THEN i ELSE Step(g[n - 1])]
      <3>1. g = h
        BY <2>1
      <3> QED
        BY <3>1
    <2> QED
      BY <2>2
  <1>4. Hops(hop)
    <2> HIDE DEF Hops, g
    <2> QED
      BY <1>3
  <1>5. \A n \in Nat : hop[n] = IF n = 0 THEN i ELSE Step(hop[n - 1])
    <2> HIDE DEF hop
    <2> QED
      BY <1>4
  <1>6. Resolve(d, i) = hop[N]
    BY DEF Resolve
  <1> HIDE DEF hop
  <1>7. hop[0] = i
    BY <1>5
  <1>8. hop[1] = Target(d, i)
    BY <1>5, <1>7 DEF Target
  <1> DEFINE S == {n \in 0..(N - 1) : hop[n + 1] = Target(d, i)}
  <1>9. 0 \in S
    BY <1>1, <1>8
  <1>10. ASSUME NEW k \in 0..(N - 1), k \in S, k < N - 1 PROVE k + 1 \in S
    <2>1. (k + 1) + 1 \in Nat /\ (k + 1) + 1 # 0 /\ ((k + 1) + 1) - 1 = k + 1 /\ k + 1 \in 0..(N - 1)
      BY <1>1, <1>10
    <2>2. hop[(k + 1) + 1] = Step(hop[k + 1])
      BY <1>5, <2>1
    <2> QED
      BY <1>2, <1>10, <2>1, <2>2
  <1>11. N - 1 \in S
    <2>1. \A k \in 0..(N - 1) : k \in S /\ k < N - 1 => k + 1 \in S
      BY <1>10
    <2>2. N - 1 \in Nat
      BY <1>1
    <2> HIDE DEF S, N
    <2> QED
      BY <1>9, <2>1, <2>2, SetInduction
  <1>12. (N - 1) + 1 = N
    BY <1>1
  <1> QED
    BY <1>6, <1>11, <1>12

-----------------------------------------------------------------------------
(* The registry                                                            *)

LEMMA KindFacts ==
    /\ {"accounts", "posts", "media"} \subseteq DOMAIN Kinds
    /\ DOMAIN Kinds["accounts"].fk = {}
    /\ DOMAIN Kinds["posts"].fk = {"account"}
    /\ Kinds["posts"].fk["account"].missing = "raise"
    /\ Kinds["accounts"].match = "pk" /\ Kinds["posts"].match = "pk"
    /\ \A key \in DOMAIN Kinds : Kinds[key].match \in {"pk", "url", "key"}
    /\ \A key \in DOMAIN Kinds : \A role \in DOMAIN Kinds[key].fk :
          /\ Kinds[key].fk[role].to \in DOMAIN Kinds
          /\ role \in AccountRoles <=> Kinds[key].fk[role].to = "accounts"
    /\ "account" \in AccountRoles
  <1>1. DOMAIN Kinds = {"accounts", "posts", "media", "comments", "likes", "tagged_accounts",
                        "account_relations"}
    BY DEF Kinds
  <1>2. /\ Kinds["accounts"] = AccountKind /\ Kinds["posts"] = PostKind
        /\ Kinds["media"] = MediaKind /\ Kinds["comments"] = CommentKind
        /\ Kinds["likes"] = LikeKind /\ Kinds["tagged_accounts"] = TaggedKind
        /\ Kinds["account_relations"] = RelationKind
    BY DEF Kinds
  <1>3. /\ DOMAIN AccountKind.fk = {} /\ AccountKind.match = "pk"
        /\ DOMAIN PostKind.fk = {"account"} /\ PostKind.match = "pk"
        /\ PostKind.fk["account"] = Key("accounts", "raise")
        /\ DOMAIN MediaKind.fk = {"post"} /\ MediaKind.match = "url"
        /\ MediaKind.fk["post"] = Key("posts", "raise")
    BY DEF AccountKind, PostKind, MediaKind
  <1>4. /\ DOMAIN CommentKind.fk = {"post", "account"} /\ CommentKind.match = "pk"
        /\ CommentKind.fk["post"] = Key("posts", "drop")
        /\ CommentKind.fk["account"] = Key("accounts", "null")
        /\ DOMAIN LikeKind.fk = {"post", "account"} /\ LikeKind.match = "key"
        /\ LikeKind.fk["post"] = Key("posts", "drop")
        /\ LikeKind.fk["account"] = Key("accounts", "null")
    BY DEF CommentKind, LikeKind
  <1>5. /\ DOMAIN TaggedKind.fk = {"tagged", "post", "media"} /\ TaggedKind.match = "key"
        /\ TaggedKind.fk["tagged"] = Key("accounts", "null")
        /\ TaggedKind.fk["post"] = Key("posts", "null")
        /\ TaggedKind.fk["media"] = Key("media", "null")
        /\ DOMAIN RelationKind.fk = {"follower", "followed"} /\ RelationKind.match = "key"
        /\ RelationKind.fk["follower"] = Key("accounts", "raise")
        /\ RelationKind.fk["followed"] = Key("accounts", "raise")
    BY DEF TaggedKind, RelationKind
  <1> DEFINE Sorted(key) == \A role \in DOMAIN Kinds[key].fk :
          /\ Kinds[key].fk[role].to \in DOMAIN Kinds
          /\ role \in AccountRoles <=> Kinds[key].fk[role].to = "accounts"
  <1>6. Sorted("accounts") /\ Sorted("posts") /\ Sorted("media")
    BY <1>1, <1>2, <1>3 DEF Key, AccountRoles
  <1>7. Sorted("comments") /\ Sorted("likes")
    BY <1>1, <1>2, <1>4 DEF Key, AccountRoles
  <1>8. Sorted("tagged_accounts") /\ Sorted("account_relations")
    BY <1>1, <1>2, <1>5 DEF Key, AccountRoles
  <1>9. \A key \in DOMAIN Kinds : Sorted(key)
    <2> HIDE DEF Sorted
    <2> QED
      BY <1>1, <1>6, <1>7, <1>8
  <1>10. \A key \in DOMAIN Kinds : Kinds[key].match \in {"pk", "url", "key"}
    BY <1>1, <1>2, <1>3, <1>4, <1>5
  <1> QED
    BY <1>1, <1>2, <1>3, <1>9, <1>10 DEF Key, AccountRoles

LEMMA OrderFacts == \A n \in DOMAIN Order : Order[n] \in DOMAIN Kinds
  BY DEF Order, Kinds

-----------------------------------------------------------------------------
(* Tables that are in order                                                *)

Untouched(merges, i) == \A km \in merges : i \notin {km[1], km[2]}

\* A post of the account was seen in the session: the post_count is due to be counted.
Due(d, session, i) ==
    \E a \in DOMAIN d.arch : /\ d.arch[a].session = session /\ d.arch[a].kind = "posts"
                             /\ d.rows[d.arch[a].row].fk["account"] = i

SizesOK(d) == \A a \in DOMAIN d.arch : d.arch[a].kind = "media" => d.arch[a].rec.val \in Nat \cup {None}

\* What holds of the committed tables, and of a transaction's as far as it has come: while
\* it takes in a session the counts of the accounts whose posts it has seen are due.
Sound(d, session, merges) ==
    /\ RowsOK(d) /\ ArchOK(d) /\ Inert(d) /\ OneIdentity(d) /\ SizesOK(d)
    /\ \A i \in RowsOf(d, "accounts") : Counted(d, i) \/ Due(d, session, i)
    /\ \A i \in DOMAIN d.rows : Untouched(merges, i) => Synthesis(d, i)

RecsOf(d, i) == [a \in ArchOf(d, i) |-> d.arch[a].rec]

LEMMA SynthesisIsValueOf ==
    ASSUME NEW d, NEW i
    PROVE  Synthesis(d, i) <=> ValueOf(d.rows[i].kind, RecsOf(d, i), ArchOf(d, i), d.rows[i].rec.val)
  <1> DEFINE valued == {a \in ArchOf(d, i) : d.arch[a].rec.val # None}
  <1>1. \A a \in ArchOf(d, i) : RecsOf(d, i)[a] = d.arch[a].rec
    BY DEF RecsOf
  <1>2. {a \in ArchOf(d, i) : RecsOf(d, i)[a].val # None} = valued
    BY <1>1
  <1> QED
    BY <1>1, <1>2 DEF Synthesis, ValueOf

\* A row whose records are the same, and says the same, is as right as before.
LEMMA SynthesisFrame ==
    ASSUME NEW d, NEW e, NEW i, Synthesis(d, i),
           e.rows[i].kind = d.rows[i].kind, e.rows[i].rec = d.rows[i].rec,
           ArchOf(e, i) = ArchOf(d, i), \A a \in ArchOf(d, i) : e.arch[a].rec = d.arch[a].rec
    PROVE  Synthesis(e, i)
  <1>1. {a \in ArchOf(e, i) : e.arch[a].rec.val # None} = {a \in ArchOf(d, i) : d.arch[a].rec.val # None}
    OBVIOUS
  <1> QED
    BY <1>1 DEF Synthesis

\* What a foreign key of a kind may be.
FkOK(d, key, fk) ==
    /\ DOMAIN fk = DOMAIN Kinds[key].fk
    /\ \A role \in DOMAIN fk :
          \/ fk[role] \in RowsOf(d, Kinds[key].fk[role].to) /\ Live(d, fk[role])
          \/ fk[role] = None /\ Kinds[key].fk[role].missing # "raise"

\* In sound tables the foreign keys lead to live rows.
LEMMA KeysLive ==
    ASSUME NEW d, RowsOK(d), Inert(d), NEW i \in DOMAIN d.rows
    PROVE  FkOK(d, d.rows[i].kind, d.rows[i].fk)
  <1> DEFINE key == d.rows[i].kind
             fk == d.rows[i].fk
  <1>1. key \in DOMAIN Kinds /\ DOMAIN fk = DOMAIN Kinds[key].fk
    BY DEF RowsOK
  <1>2. ASSUME NEW role \in DOMAIN fk, fk[role] \in RowsOf(d, Kinds[key].fk[role].to)
        PROVE  Live(d, fk[role])
    <2>1. SUFFICES ASSUME ~Live(d, fk[role]) PROVE FALSE
      OBVIOUS
    <2>2. fk[role] \in DOMAIN d.rows /\ d.rows[fk[role]].kind = Kinds[key].fk[role].to
      BY <1>2 DEF RowsOf
    <2>3. d.rows[fk[role]].kind = "accounts" /\ \A r \in DOMAIN fk \cap AccountRoles : fk[r] # fk[role]
      BY <2>1, <2>2 DEF Inert
    <2>4. role \in AccountRoles
      BY <1>1, <1>2, <2>2, <2>3, KindFacts
    <2> QED
      BY <2>3, <2>4, <1>2
  <1> QED
    BY <1>1, <1>2 DEF RowsOK, FkOK

-----------------------------------------------------------------------------
(* A new row and its record                                                *)

LEMMA InsertKeeps ==
    ASSUME NEW d, NEW s \in Sessions, NEW merges, Sound(d, s, merges),
           NEW key \in DOMAIN Kinds, NEW rec, NEW ids, NEW fk, FkOK(d, key, fk),
           key = "media" => rec.val \in Nat \cup {None},
           NEW id \in Nat, id \notin DOMAIN d.rows, NEW aid \in Nat, aid \notin DOMAIN d.arch,
           NEW e, e.rows = Put(d.rows, id, Row(key, rec, ids, fk, None, 0)),
           e.arch = Put(d.arch, aid, Observed(key, s, id, rec))
    PROVE  Sound(e, s, merges)
  <1>1. /\ DOMAIN e.rows = DOMAIN d.rows \cup {id}
        /\ \A i \in DOMAIN d.rows : e.rows[i] = d.rows[i]
        /\ e.rows[id].kind = key /\ e.rows[id].rec = rec /\ e.rows[id].fk = fk
        /\ e.rows[id].into = None /\ e.rows[id].count = 0
    <2> DEFINE r == Row(key, rec, ids, fk, None, 0)
    <2>1. r.kind = key /\ r.rec = rec /\ r.fk = fk /\ r.into = None /\ r.count = 0
      BY DEF Row
    <2> HIDE DEF r
    <2>2. e.rows = Put(d.rows, id, r)
      BY DEF r
    <2> QED
      BY <2>1, <2>2 DEF Put
  <1>2. /\ DOMAIN e.arch = DOMAIN d.arch \cup {aid}
        /\ \A a \in DOMAIN d.arch : e.arch[a] = d.arch[a]
        /\ e.arch[aid].kind = key /\ e.arch[aid].session = s
        /\ e.arch[aid].row = id /\ e.arch[aid].rec = rec
    <2> DEFINE r == Observed(key, s, id, rec)
    <2>1. r.kind = key /\ r.session = s /\ r.row = id /\ r.rec = rec
      BY DEF Observed
    <2> HIDE DEF r
    <2>2. e.arch = Put(d.arch, aid, r)
      BY DEF r
    <2> QED
      BY <2>1, <2>2 DEF Put
  <1>3. /\ \A k : RowsOf(d, k) \subseteq RowsOf(e, k) /\ RowsOf(e, k) \subseteq RowsOf(d, k) \cup {id}
        /\ \A k : id \in RowsOf(e, k) <=> k = key
    BY <1>1 DEF RowsOf
  <1>4. \A a \in DOMAIN d.arch : d.arch[a].row \in DOMAIN d.rows
    BY DEF Sound, ArchOK, RowsOf
  <1>5. ArchOf(e, id) = {aid} /\ \A i : i # id => ArchOf(e, i) = ArchOf(d, i)
    BY <1>2, <1>4 DEF ArchOf
  <1>6. Live(e, id) /\ \A i \in DOMAIN d.rows : Live(e, i) <=> Live(d, i)
    BY <1>1 DEF Live
  <1>7. RowsOK(e)
    <2>1. IsFiniteSet(DOMAIN e.rows) /\ \A i \in DOMAIN e.rows : i \in Nat
      BY <1>1, FS_AddElement DEF Sound, RowsOK
    <2>2. ASSUME NEW i \in DOMAIN d.rows, NEW role \in DOMAIN e.rows[i].fk
          PROVE  \/ e.rows[i].fk[role] \in RowsOf(e, Kinds[e.rows[i].kind].fk[role].to)
                 \/ e.rows[i].fk[role] = None /\ Kinds[e.rows[i].kind].fk[role].missing # "raise"
      BY <1>1, <1>3, <2>2 DEF Sound, RowsOK
    <2>3. ASSUME NEW role \in DOMAIN fk
          PROVE  \/ fk[role] \in RowsOf(e, Kinds[key].fk[role].to)
                 \/ fk[role] = None /\ Kinds[key].fk[role].missing # "raise"
      BY <1>3 DEF FkOK
    <2>4. \A i \in DOMAIN e.rows :
            e.rows[i].kind \in DOMAIN Kinds /\ DOMAIN e.rows[i].fk = DOMAIN Kinds[e.rows[i].kind].fk
      BY <1>1 DEF Sound, RowsOK, FkOK
    <2> QED
      BY <1>1, <2>1, <2>2, <2>3, <2>4 DEF RowsOK
  <1>8. ArchOK(e)
    <2>1. IsFiniteSet(DOMAIN e.arch) /\ \A a \in DOMAIN e.arch : a \in Nat
      BY <1>2, FS_AddElement DEF Sound, ArchOK
    <2>2. \A a \in DOMAIN e.arch : /\ e.arch[a].kind \in DOMAIN Kinds
                                   /\ e.arch[a].row \in RowsOf(e, e.arch[a].kind)
                                   /\ e.arch[a].session \in Sessions
      BY <1>2, <1>3 DEF Sound, ArchOK
    <2>3. \A i \in DOMAIN e.rows : Live(e, i) => ArchOf(e, i) # {}
      BY <1>1, <1>5, <1>6 DEF Sound, ArchOK
    <2> QED
      BY <2>1, <2>2, <2>3 DEF ArchOK
  <1>9. Inert(e)
    <2> SUFFICES ASSUME NEW i \in DOMAIN e.rows, ~Live(e, i)
                 PROVE  /\ e.rows[i].kind = "accounts"
                        /\ e.rows[i].rec.pk = None /\ e.rows[i].rec.url = None /\ e.rows[i].rec.val = None
                        /\ ArchOf(e, i) = {}
                        /\ e.rows[i].into \in RowsOf(e, "accounts") /\ Live(e, e.rows[i].into)
                        /\ \A j \in DOMAIN e.rows : \A r \in DOMAIN e.rows[j].fk \cap AccountRoles :
                              e.rows[j].fk[r] # i
      BY DEF Inert
    <2>1. i \in DOMAIN d.rows /\ ~Live(d, i) /\ i # id
      BY <1>1, <1>6
    <2>2. /\ d.rows[i].kind = "accounts"
          /\ d.rows[i].rec.pk = None /\ d.rows[i].rec.url = None /\ d.rows[i].rec.val = None
          /\ ArchOf(d, i) = {} /\ d.rows[i].into \in RowsOf(d, "accounts") /\ Live(d, d.rows[i].into)
          /\ \A j \in DOMAIN d.rows : \A r \in DOMAIN d.rows[j].fk \cap AccountRoles :
                d.rows[j].fk[r] # i
      BY <2>1 DEF Sound, Inert
    <2>3. d.rows[i].into \in DOMAIN d.rows
      BY <2>2 DEF RowsOf
    <2>4. \A r \in DOMAIN fk : fk[r] # i
      <3>1. \A r \in DOMAIN fk : fk[r] = i => Live(d, i) \/ i = None
        BY DEF FkOK
      <3>2. i # None
        BY <2>1, ContentsAssumption DEF Sound, RowsOK, ContentsAssumption
      <3> QED
        BY <2>1, <3>1, <3>2
    <2> QED
      BY <1>1, <1>3, <1>5, <1>6, <2>1, <2>2, <2>3, <2>4
  <1>10. OneIdentity(e)
    BY <1>1, <1>2, <1>4 DEF Sound, OneIdentity
  <1>11. SizesOK(e)
    BY <1>2 DEF Sound, SizesOK
  <1>12. \A i \in RowsOf(e, "accounts") : Counted(e, i) \/ Due(e, s, i)
    <2>1. ASSUME NEW i \in RowsOf(e, "accounts"), key = "posts", fk["account"] = i PROVE Due(e, s, i)
      BY <1>1, <1>2, <2>1 DEF Due
    <2>2. ASSUME NEW i \in RowsOf(e, "accounts"), ~(key = "posts" /\ fk["account"] = i)
          PROVE  Counted(e, i) \/ Due(e, s, i)
      <3>1. PostsOf(e, i) = PostsOf(d, i)
        BY <1>1, <2>2 DEF PostsOf, RowsOf
      <3>2. ASSUME i \in DOMAIN d.rows, Counted(d, i) PROVE Counted(e, i)
        BY <1>1, <3>1, <3>2 DEF Counted
      <3>3. ASSUME Due(d, s, i) PROVE Due(e, s, i)
        BY <1>1, <1>2, <1>4, <3>3 DEF Due
      <3>4. ASSUME i \in DOMAIN d.rows PROVE i \in RowsOf(d, "accounts")
        BY <1>1, <3>4 DEF RowsOf
      <3>5. ASSUME i = id PROVE Counted(e, i)
        <4>1. \A p \in RowsOf(d, "posts") : d.rows[p].fk["account"] \in DOMAIN d.rows
          BY KindFacts DEF Sound, RowsOK, RowsOf
        <4>2. PostsOf(d, i) = {}
          BY <3>5, <4>1 DEF PostsOf
        <4> QED
          BY <1>1, <3>1, <3>5, <4>2, FS_EmptySet DEF Counted
      <3>6. i \in DOMAIN d.rows \/ i = id
        BY <1>1 DEF RowsOf
      <3> QED
        BY <3>2, <3>3, <3>4, <3>5, <3>6 DEF Sound
    <2> QED
      BY <2>1, <2>2
  <1>13. \A i \in DOMAIN e.rows : Untouched(merges, i) => Synthesis(e, i)
    <2>1. ASSUME NEW i \in DOMAIN d.rows, Untouched(merges, i) PROVE Synthesis(e, i)
      <3>1. Synthesis(d, i) /\ i # id
        BY <2>1 DEF Sound
      <3>2. ArchOf(e, i) = ArchOf(d, i) /\ \A a \in ArchOf(d, i) : e.arch[a].rec = d.arch[a].rec
        BY <1>2, <1>5, <3>1 DEF ArchOf
      <3> QED
        BY <1>1, <3>1, <3>2, SynthesisFrame
    <2>2. Synthesis(e, id)
      <3> DEFINE valued == {a \in ArchOf(e, id) : e.arch[a].rec.val # None}
      <3>1. valued = IF rec.val = None THEN {} ELSE {aid}
        BY <1>2, <1>5
      <3>2. rec.val # None => IF key = "media" THEN rec.val <= rec.val ELSE aid <= aid
        OBVIOUS
      <3> QED
        BY <1>1, <1>2, <3>1, <3>2 DEF Synthesis
    <2> QED
      BY <1>1, <2>1, <2>2
  <1> QED
    BY <1>7, <1>8, <1>9, <1>10, <1>11, <1>12, <1>13 DEF Sound

-----------------------------------------------------------------------------
(* A row that exists, and the session's record of it                       *)

LEMMA StoreKeeps ==
    ASSUME NEW d, NEW s \in Sessions, NEW merges, Sound(d, s, merges),
           NEW id \in DOMAIN d.rows, Live(d, id), NEW key, key = d.rows[id].kind,
           NEW rec, NEW ids, NEW fk, NEW seen,
           FkOK(d, key, fk),
           key = "posts" => fk["account"] = d.rows[id].fk["account"],
           NEW aid \in Nat, aid \in DOMAIN d.arch => aid \in ArchOf(d, id) /\ d.arch[aid].session = s,
           key = "media" => seen.val \in Nat \cup {None},
           key \in {"accounts", "posts"} =>
               /\ rec.plat = d.rows[id].rec.plat /\ seen.plat = d.rows[id].rec.plat
               /\ d.rows[id].rec.pk # None => rec.pk = d.rows[id].rec.pk
               /\ seen.pk # None => rec.pk = seen.pk,
           NEW e,
           e.rows = Put(d.rows, id, Row(key, rec, ids, fk, d.rows[id].into, d.rows[id].count)),
           e.arch = Put(d.arch, aid, Observed(key, s, id, seen)),
           Untouched(merges, id) => Synthesis(e, id)
    PROVE  Sound(e, s, merges)
  <1>1. /\ DOMAIN e.rows = DOMAIN d.rows
        /\ \A i \in DOMAIN d.rows : i # id => e.rows[i] = d.rows[i]
        /\ e.rows[id].kind = key /\ e.rows[id].rec = rec /\ e.rows[id].fk = fk
        /\ e.rows[id].into = d.rows[id].into /\ e.rows[id].count = d.rows[id].count
    <2> DEFINE r == Row(key, rec, ids, fk, d.rows[id].into, d.rows[id].count)
    <2>1. /\ r.kind = key /\ r.rec = rec /\ r.fk = fk
          /\ r.into = d.rows[id].into /\ r.count = d.rows[id].count
      BY DEF Row
    <2> HIDE DEF r
    <2>2. e.rows = Put(d.rows, id, r)
      BY DEF r
    <2> QED
      BY <2>1, <2>2 DEF Put
  <1>2. /\ DOMAIN e.arch = DOMAIN d.arch \cup {aid}
        /\ \A a \in DOMAIN d.arch : a # aid => e.arch[a] = d.arch[a]
        /\ e.arch[aid].kind = key /\ e.arch[aid].session = s
        /\ e.arch[aid].row = id /\ e.arch[aid].rec = seen
    <2> DEFINE r == Observed(key, s, id, seen)
    <2>1. r.kind = key /\ r.session = s /\ r.row = id /\ r.rec = seen
      BY DEF Observed
    <2> HIDE DEF r
    <2>2. e.arch = Put(d.arch, aid, r)
      BY DEF r
    <2> QED
      BY <2>1, <2>2 DEF Put
  <1>3. \A k : RowsOf(e, k) = RowsOf(d, k)
    BY <1>1 DEF RowsOf
  <1>4. \A a \in DOMAIN d.arch : /\ d.arch[a].row \in DOMAIN d.rows
                                 /\ d.arch[a].kind = d.rows[d.arch[a].row].kind
    BY DEF Sound, ArchOK, RowsOf
  <1>5. /\ aid \in DOMAIN d.arch => d.arch[aid].row = id /\ d.arch[aid].session = s /\ d.arch[aid].kind = key
        /\ \A a \in DOMAIN d.arch : /\ e.arch[a].row = d.arch[a].row /\ e.arch[a].kind = d.arch[a].kind
                                    /\ e.arch[a].session = d.arch[a].session
    BY <1>2, <1>4 DEF ArchOf
  <1>6. /\ \A i : i # id => ArchOf(e, i) = ArchOf(d, i) /\ aid \notin ArchOf(d, i)
        /\ ArchOf(e, id) = ArchOf(d, id) \cup {aid}
    BY <1>2, <1>5 DEF ArchOf
  <1>7. \A i \in DOMAIN d.rows : Live(e, i) <=> Live(d, i)
    BY <1>1 DEF Live
  <1>8. RowsOK(e)
    <2>1. IsFiniteSet(DOMAIN e.rows) /\ \A i \in DOMAIN e.rows : i \in Nat
      BY <1>1 DEF Sound, RowsOK
    <2>2. ASSUME NEW i \in DOMAIN d.rows, i # id, NEW role \in DOMAIN e.rows[i].fk
          PROVE  \/ e.rows[i].fk[role] \in RowsOf(e, Kinds[e.rows[i].kind].fk[role].to)
                 \/ e.rows[i].fk[role] = None /\ Kinds[e.rows[i].kind].fk[role].missing # "raise"
      <3>1. e.rows[i] = d.rows[i]
        BY <1>1, <2>2
      <3>2. \/ d.rows[i].fk[role] \in RowsOf(d, Kinds[d.rows[i].kind].fk[role].to)
            \/ d.rows[i].fk[role] = None /\ Kinds[d.rows[i].kind].fk[role].missing # "raise"
        BY <2>2, <3>1 DEF Sound, RowsOK
      <3> QED
        BY <1>3, <3>1, <3>2
    <2>3. ASSUME NEW role \in DOMAIN fk
          PROVE  \/ fk[role] \in RowsOf(e, Kinds[key].fk[role].to)
                 \/ fk[role] = None /\ Kinds[key].fk[role].missing # "raise"
      BY <1>3 DEF FkOK
    <2>4. \A i \in DOMAIN e.rows : e.rows[i].kind \in DOMAIN Kinds
      BY <1>1 DEF Sound, RowsOK
    <2>5. \A i \in DOMAIN e.rows : DOMAIN e.rows[i].fk = DOMAIN Kinds[e.rows[i].kind].fk
      BY <1>1 DEF Sound, RowsOK, FkOK
    <2>6. ASSUME NEW i \in DOMAIN e.rows, NEW role \in DOMAIN e.rows[i].fk
          PROVE  \/ e.rows[i].fk[role] \in RowsOf(e, Kinds[e.rows[i].kind].fk[role].to)
                 \/ e.rows[i].fk[role] = None /\ Kinds[e.rows[i].kind].fk[role].missing # "raise"
      BY <1>1, <2>2, <2>3, <2>6
    <2> QED
      BY <2>1, <2>4, <2>5, <2>6 DEF RowsOK
  <1>9. ArchOK(e)
    <2>1. IsFiniteSet(DOMAIN e.arch) /\ \A a \in DOMAIN e.arch : a \in Nat
      BY <1>2, FS_AddElement DEF Sound, ArchOK
    <2>2. key \in DOMAIN Kinds /\ id \in RowsOf(d, key)
      BY DEF Sound, RowsOK, RowsOf
    <2>3. \A a \in DOMAIN e.arch : /\ e.arch[a].kind \in DOMAIN Kinds
                                   /\ e.arch[a].row \in RowsOf(e, e.arch[a].kind)
                                   /\ e.arch[a].session \in Sessions
      BY <1>2, <1>3, <1>5, <2>2 DEF Sound, ArchOK
    <2>4. \A i \in DOMAIN e.rows : Live(e, i) => ArchOf(e, i) # {}
      BY <1>1, <1>6, <1>7 DEF Sound, ArchOK
    <2> QED
      BY <2>1, <2>3, <2>4 DEF ArchOK
  <1>10. Inert(e)
    <2> SUFFICES ASSUME NEW i \in DOMAIN e.rows, ~Live(e, i)
                 PROVE  /\ e.rows[i].kind = "accounts"
                        /\ e.rows[i].rec.pk = None /\ e.rows[i].rec.url = None /\ e.rows[i].rec.val = None
                        /\ ArchOf(e, i) = {}
                        /\ e.rows[i].into \in RowsOf(e, "accounts") /\ Live(e, e.rows[i].into)
                        /\ \A j \in DOMAIN e.rows : \A r \in DOMAIN e.rows[j].fk \cap AccountRoles :
                              e.rows[j].fk[r] # i
      BY DEF Inert
    <2>1. i \in DOMAIN d.rows /\ ~Live(d, i) /\ i # id
      BY <1>1, <1>7
    <2>2. /\ d.rows[i].kind = "accounts"
          /\ d.rows[i].rec.pk = None /\ d.rows[i].rec.url = None /\ d.rows[i].rec.val = None
          /\ ArchOf(d, i) = {} /\ d.rows[i].into \in RowsOf(d, "accounts") /\ Live(d, d.rows[i].into)
          /\ \A j \in DOMAIN d.rows : \A r \in DOMAIN d.rows[j].fk \cap AccountRoles :
                d.rows[j].fk[r] # i
      BY <2>1 DEF Sound, Inert
    <2>3. d.rows[i].into \in DOMAIN d.rows
      BY <2>2 DEF RowsOf
    <2>4. \A r \in DOMAIN fk : fk[r] # i
      <3>1. \A r \in DOMAIN fk : fk[r] = i => Live(d, i) \/ i = None
        BY DEF FkOK
      <3>2. i # None
        BY <2>1, ContentsAssumption DEF Sound, RowsOK, ContentsAssumption
      <3> QED
        BY <2>1, <3>1, <3>2
    <2>5. \A j \in DOMAIN e.rows : \A r \in DOMAIN e.rows[j].fk \cap AccountRoles : e.rows[j].fk[r] # i
      BY <1>1, <2>2, <2>4
    <2> QED
      BY <1>1, <1>3, <1>6, <1>7, <2>1, <2>2, <2>3, <2>5
  <1>11. OneIdentity(e)
    <2> SUFFICES ASSUME NEW a \in DOMAIN e.arch, e.arch[a].kind \in {"accounts", "posts"}
                 PROVE  /\ e.rows[e.arch[a].row].rec.plat = e.arch[a].rec.plat
                        /\ e.arch[a].rec.pk # None => e.rows[e.arch[a].row].rec.pk = e.arch[a].rec.pk
      BY DEF OneIdentity
    <2>1. CASE a = aid
      BY <1>1, <1>2, <2>1
    <2>2. CASE a # aid
      <3>1. a \in DOMAIN d.arch /\ e.arch[a] = d.arch[a]
        BY <1>2, <2>2
      <3>2. /\ d.rows[d.arch[a].row].rec.plat = d.arch[a].rec.plat
            /\ d.arch[a].rec.pk # None => d.rows[d.arch[a].row].rec.pk = d.arch[a].rec.pk
        BY <3>1 DEF Sound, OneIdentity
      <3>3. CASE d.arch[a].row # id
        BY <1>1, <1>4, <3>1, <3>2, <3>3
      <3>4. CASE d.arch[a].row = id
        <4>1. key \in {"accounts", "posts"}
          BY <1>4, <3>1, <3>4
        <4> QED
          BY <1>1, <3>1, <3>2, <3>4, <4>1
      <3> QED
        BY <3>3, <3>4
    <2> QED
      BY <2>1, <2>2
  <1>12. SizesOK(e)
    BY <1>2, <1>5 DEF Sound, SizesOK
  <1>13. \A i \in RowsOf(e, "accounts") : Counted(e, i) \/ Due(e, s, i)
    <2> SUFFICES ASSUME NEW i \in RowsOf(e, "accounts") PROVE Counted(e, i) \/ Due(e, s, i)
      OBVIOUS
    <2>1. \A p \in RowsOf(d, "posts") : e.rows[p].fk["account"] = d.rows[p].fk["account"]
      BY <1>1 DEF RowsOf
    <2>2. PostsOf(e, i) = PostsOf(d, i)
      BY <1>3, <2>1 DEF PostsOf
    <2>3. ASSUME Counted(d, i) PROVE Counted(e, i)
      BY <1>1, <1>3, <2>2, <2>3 DEF Counted, RowsOf
    <2>4. ASSUME Due(d, s, i) PROVE Due(e, s, i)
      <3>1. PICK a \in DOMAIN d.arch : /\ d.arch[a].session = s /\ d.arch[a].kind = "posts"
                                       /\ d.rows[d.arch[a].row].fk["account"] = i
        BY <2>4 DEF Due
      <3>2. d.arch[a].row \in RowsOf(d, "posts")
        BY <1>4, <3>1 DEF RowsOf
      <3> QED
        BY <1>2, <1>5, <2>1, <3>1, <3>2 DEF Due
    <2> QED
      BY <1>3, <2>3, <2>4 DEF Sound
  <1>14. \A i \in DOMAIN e.rows : Untouched(merges, i) => Synthesis(e, i)
    <2>1. ASSUME NEW i \in DOMAIN d.rows, Untouched(merges, i), i # id PROVE Synthesis(e, i)
      <3>1. Synthesis(d, i)
        BY <2>1 DEF Sound
      <3>2. ArchOf(e, i) = ArchOf(d, i) /\ \A a \in ArchOf(d, i) : e.arch[a].rec = d.arch[a].rec
        BY <1>2, <1>6, <2>1 DEF ArchOf
      <3> QED
        BY <1>1, <2>1, <3>1, <3>2, SynthesisFrame
    <2> QED
      BY <1>1, <2>1
  <1> QED
    BY <1>8, <1>9, <1>10, <1>11, <1>12, <1>13, <1>14 DEF Sound

-----------------------------------------------------------------------------
(* A merge of two accounts                                                 *)

\* What merge_account_into writes into rows and records, column by column.
LEMMA MergeWrites ==
    ASSUME NEW d, NEW keeper, NEW gone, d.rows[keeper].rec.plat = d.rows[gone].rec.plat,
           NEW st, st = MergeAccountInto(d, keeper, gone)
    PROVE  /\ st.op = "merge" /\ st.keeper = keeper /\ st.gone = gone
           /\ st.tags = {t \in TagNames : <<gone, t>> \in d.tags}
           /\ st.moved \subseteq ArchOf(d, gone)
           /\ \A a \in ArchOf(d, gone) \ st.moved :
                 \E b \in ArchOf(d, keeper) : d.arch[b].session = d.arch[a].session
           /\ st.dropped = ArchOf(d, gone) \ st.moved
           /\ DOMAIN st.filled = {b \in ArchOf(d, keeper) : OfSession(d, gone, d.arch[b].session) # {}}
           /\ \A b \in DOMAIN st.filled :
                 st.filled[b] = ReconcileFields(
                     d.arch[Min(OfSession(d, gone, d.arch[b].session))].rec,
                     d.arch[b].rec)
           /\ st.rec.pk = First(d.rows[keeper].rec.pk, d.rows[gone].rec.pk)
           /\ st.rec.plat = d.rows[keeper].rec.plat
           /\ d.rows[keeper].ids \cup d.rows[gone].ids \subseteq st.ids
  <1> DEFINE ar == MoveArchives(d, keeper, gone)
  <1>1. /\ ar.moved = {a \in ArchOf(d, gone) : OfSession(d, keeper, d.arch[a].session) = {}}
        /\ ar.dropped = ArchOf(d, gone) \ ar.moved
        /\ DOMAIN ar.filled = {b \in ArchOf(d, keeper) : OfSession(d, gone, d.arch[b].session) # {}}
        /\ \A b \in DOMAIN ar.filled :
              ar.filled[b] = ReconcileFields(
                     d.arch[Min(OfSession(d, gone, d.arch[b].session))].rec,
                     d.arch[b].rec)
    BY DEF MoveArchives
  <1> HIDE DEF ar
  <1>2. /\ st.op = "merge" /\ st.keeper = keeper /\ st.gone = gone
        /\ st.tags = {t \in TagNames : <<gone, t>> \in d.tags}
        /\ st.moved = ar.moved /\ st.dropped = ar.dropped /\ st.filled = ar.filled
    BY DEF MergeAccountInto, ar
  <1>3. /\ st.rec.pk = First(d.rows[keeper].rec.pk, d.rows[gone].rec.pk)
        /\ st.rec.plat = First(d.rows[keeper].rec.plat, d.rows[gone].rec.plat)
        /\ d.rows[keeper].ids \cup d.rows[gone].ids \subseteq st.ids
    BY DEF MergeAccountInto
  <1>4. \A a \in ArchOf(d, gone) \ st.moved :
           \E b \in ArchOf(d, keeper) : d.arch[b].session = d.arch[a].session
    BY <1>1, <1>2 DEF OfSession
  <1>5. st.moved \subseteq ArchOf(d, gone)
    BY <1>1, <1>2
  <1> QED
    BY <1>1, <1>2, <1>3, <1>4, <1>5 DEF First

LEMMA MergeKeeps ==
    ASSUME NEW d, NEW s, NEW merges, Sound(d, s, merges),
           NEW keeper \in RowsOf(d, "accounts"), NEW gone \in RowsOf(d, "accounts"),
           d.rows[keeper].rec.plat = d.rows[gone].rec.plat, ~MergeRefused(d, keeper, gone),
           NEW st, st = MergeAccountInto(d, keeper, gone), NEW e,
           e.rows = [i \in DOMAIN d.rows |-> MergedRow(st, d, i)], e.arch = MovedArch(st, d.arch)
    PROVE  Sound(e, s, merges \cup {<<keeper, gone>>})
  <1> DEFINE k == d.rows[keeper]
             m == d.rows[gone]
             Rep(i) == IF i = gone THEN keeper ELSE i
  <1>1. /\ keeper # gone /\ Live(d, keeper) /\ Live(d, gone)
        /\ k.rec.pk = None \/ m.rec.pk = None \/ k.rec.pk = m.rec.pk
    BY DEF MergeRefused, Live
  <1>2. /\ keeper \in DOMAIN d.rows /\ gone \in DOMAIN d.rows /\ keeper \in Nat /\ gone \in Nat
        /\ keeper # None /\ gone # None
        /\ k.kind = "accounts" /\ m.kind = "accounts"
        /\ DOMAIN k.fk = {} /\ DOMAIN m.fk = {}
    BY KindFacts, ContentsAssumption DEF Sound, RowsOK, RowsOf, ContentsAssumption
  <1>3. /\ st.keeper = keeper /\ st.gone = gone
        /\ st.moved \subseteq ArchOf(d, gone) /\ st.dropped = ArchOf(d, gone) \ st.moved
        /\ st.rec.pk = First(k.rec.pk, m.rec.pk) /\ st.rec.plat = k.rec.plat
    BY MergeWrites
  <1>4. \A b \in DOMAIN st.filled :
           /\ b \in ArchOf(d, keeper) /\ st.filled[b].plat = d.arch[b].rec.plat
           /\ \E a \in ArchOf(d, gone) : st.filled[b].pk = First(d.arch[b].rec.pk, d.arch[a].rec.pk)
    <2> SUFFICES ASSUME NEW b \in DOMAIN st.filled
                 PROVE  /\ b \in ArchOf(d, keeper) /\ st.filled[b].plat = d.arch[b].rec.plat
                        /\ \E a \in ArchOf(d, gone) :
                              st.filled[b].pk = First(d.arch[b].rec.pk, d.arch[a].rec.pk)
      OBVIOUS
    <2> DEFINE Same == OfSession(d, gone, d.arch[b].session)
    <2>1. b \in ArchOf(d, keeper) /\ Same # {}
      BY MergeWrites
    <2>2. st.filled[b] = ReconcileFields(d.arch[Min(Same)].rec, d.arch[b].rec)
      <3>1. \A x \in DOMAIN st.filled :
               st.filled[x] = ReconcileFields(
                   d.arch[Min(OfSession(d, gone, d.arch[x].session))].rec,
                   d.arch[x].rec)
        BY MergeWrites
      <3> QED
        BY <3>1, Zenon
    <2>3. Same \subseteq ArchOf(d, gone) /\ Same \in SUBSET Nat
      BY DEF Sound, ArchOK, ArchOf, OfSession
    <2>4. Min(Same) \in Same
      BY <2>1, <2>3, NatMin
    <2> DEFINE a == Min(Same)
    <2>5. a \in ArchOf(d, gone)
      BY <2>3, <2>4
    <2>6. st.filled[b] = ReconcileFields(d.arch[a].rec, d.arch[b].rec)
      BY <2>2
    <2> HIDE DEF a, Same
    <2> QED
      BY <2>1, <2>5, <2>6 DEF ReconcileFields
  <1>5. \A i : Repoint(st, i) = Rep(i)
    BY <1>3 DEF Repoint
  <1>6. DOMAIN e.rows = DOMAIN d.rows /\ \A i \in DOMAIN d.rows : e.rows[i] = MergedRow(st, d, i)
    OBVIOUS
  <1>7. /\ e.rows[gone].kind = m.kind /\ e.rows[gone].rec.pk = None /\ e.rows[gone].rec.url = None
        /\ e.rows[gone].rec.val = None
        /\ e.rows[gone].fk = m.fk /\ e.rows[gone].into = keeper /\ e.rows[gone].count = 0
    <2>1. e.rows[gone] = Tombstone(m, keeper)
      BY <1>2, <1>3, <1>6 DEF MergedRow
    <2> HIDE DEF m
    <2> QED
      BY <2>1 DEF Tombstone, Row
  <1>8. /\ e.rows[keeper].kind = k.kind /\ e.rows[keeper].rec = st.rec /\ e.rows[keeper].fk = k.fk
        /\ e.rows[keeper].into = Rep(k.into)
        /\ e.rows[keeper].count = Cardinality(RepointedPosts(st, d))
    <2>1. e.rows[keeper] = Row(k.kind, st.rec, st.ids, k.fk, Repoint(st, k.into),
                               Cardinality(RepointedPosts(st, d)))
      BY <1>1, <1>2, <1>3, <1>6 DEF MergedRow
    <2> HIDE DEF k
    <2> QED
      BY <2>1, <1>5 DEF Row
  <1>9. ASSUME NEW i \in DOMAIN d.rows, i # keeper, i # gone
        PROVE  /\ e.rows[i].kind = d.rows[i].kind /\ e.rows[i].rec = d.rows[i].rec
               /\ e.rows[i].into = Rep(d.rows[i].into) /\ e.rows[i].count = d.rows[i].count
               /\ DOMAIN e.rows[i].fk = DOMAIN d.rows[i].fk
               /\ \A role \in DOMAIN d.rows[i].fk :
                     e.rows[i].fk[role] = IF role \in AccountRoles THEN Rep(d.rows[i].fk[role])
                                          ELSE d.rows[i].fk[role]
    <2> DEFINE r == d.rows[i]
               fk == [role \in DOMAIN r.fk |-> IF role \in AccountRoles THEN Repoint(st, r.fk[role])
                                               ELSE r.fk[role]]
    <2>1. e.rows[i] = Row(r.kind, r.rec, r.ids, fk, Repoint(st, r.into), r.count)
      BY <1>3, <1>6, <1>9 DEF MergedRow
    <2>2. DOMAIN fk = DOMAIN r.fk
          /\ \A role \in DOMAIN r.fk :
                fk[role] = IF role \in AccountRoles THEN Rep(r.fk[role]) ELSE r.fk[role]
      BY <1>5
    <2> HIDE DEF fk, r
    <2>3. /\ e.rows[i].kind = r.kind /\ e.rows[i].rec = r.rec /\ e.rows[i].fk = fk
          /\ e.rows[i].into = Rep(r.into) /\ e.rows[i].count = r.count
      BY <2>1, <1>5 DEF Row
    <2> QED
      BY <2>2, <2>3 DEF r
  <1> HIDE DEF k, m
  <1>10. /\ \A key : RowsOf(e, key) = RowsOf(d, key)
         /\ \A i \in DOMAIN d.rows : e.rows[i].kind = d.rows[i].kind
    BY <1>6, <1>7, <1>8, <1>9 DEF RowsOf, k, m
  <1>11. \A i \in DOMAIN d.rows :
            /\ DOMAIN e.rows[i].fk = DOMAIN d.rows[i].fk
            /\ \A role \in DOMAIN d.rows[i].fk :
                  e.rows[i].fk[role] = IF role \in AccountRoles THEN Rep(d.rows[i].fk[role])
                                       ELSE d.rows[i].fk[role]
    BY <1>2, <1>7, <1>8, <1>9 DEF k, m
  <1>12. /\ ~Live(e, gone) /\ Live(e, keeper)
         /\ \A i \in DOMAIN d.rows : i # gone => (Live(e, i) <=> Live(d, i))
    BY <1>1, <1>2, <1>7, <1>8, <1>9 DEF Live, k
  <1>13. /\ DOMAIN e.arch = DOMAIN d.arch \ st.dropped
         /\ \A a \in DOMAIN e.arch :
               /\ e.arch[a].kind = d.arch[a].kind /\ e.arch[a].session = d.arch[a].session
               /\ e.arch[a].row = IF a \in st.moved THEN keeper ELSE d.arch[a].row
               /\ e.arch[a].rec = IF a \in DOMAIN st.filled THEN st.filled[a] ELSE d.arch[a].rec
    <2>1. DOMAIN e.arch = DOMAIN d.arch \ st.dropped
      BY DEF MovedArch
    <2>2. ASSUME NEW a \in DOMAIN e.arch
          PROVE  e.arch[a] = Observed(d.arch[a].kind, d.arch[a].session,
                                      IF a \in st.moved THEN keeper ELSE d.arch[a].row,
                                      IF a \in DOMAIN st.filled THEN st.filled[a] ELSE d.arch[a].rec)
      BY <2>1, <1>3 DEF MovedArch
    <2>3. ASSUME NEW a \in DOMAIN e.arch
          PROVE  /\ e.arch[a].kind = d.arch[a].kind /\ e.arch[a].session = d.arch[a].session
                 /\ e.arch[a].row = IF a \in st.moved THEN keeper ELSE d.arch[a].row
                 /\ e.arch[a].rec = IF a \in DOMAIN st.filled THEN st.filled[a] ELSE d.arch[a].rec
      <3> DEFINE row == IF a \in st.moved THEN keeper ELSE d.arch[a].row
                 rec == IF a \in DOMAIN st.filled THEN st.filled[a] ELSE d.arch[a].rec
      <3>1. e.arch[a] = Observed(d.arch[a].kind, d.arch[a].session, row, rec)
        BY <2>2
      <3> HIDE DEF row, rec
      <3>2. /\ e.arch[a].kind = d.arch[a].kind /\ e.arch[a].session = d.arch[a].session
            /\ e.arch[a].row = row /\ e.arch[a].rec = rec
        BY <3>1 DEF Observed
      <3> QED
        BY <3>2 DEF row, rec
    <2> QED
      BY <2>1, <2>3
  <1>14. \A a \in DOMAIN d.arch : /\ d.arch[a].row \in DOMAIN d.rows
                                  /\ d.arch[a].kind = d.rows[d.arch[a].row].kind
    BY DEF Sound, ArchOK, RowsOf
  <1>15. /\ st.moved \subseteq ArchOf(d, gone) /\ st.dropped \subseteq ArchOf(d, gone)
         /\ ArchOf(d, gone) = st.moved \cup st.dropped /\ st.moved \cap st.dropped = {}
    BY <1>3
  <1>16. /\ ArchOf(e, gone) = {} /\ ArchOf(e, keeper) = ArchOf(d, keeper) \cup st.moved
         /\ \A i : i # gone /\ i # keeper => ArchOf(e, i) = ArchOf(d, i)
    BY <1>1, <1>13, <1>15 DEF ArchOf
  <1>17. RowsOK(e)
    <2>1. ASSUME NEW i \in DOMAIN d.rows, NEW role \in DOMAIN d.rows[i].fk
          PROVE  \/ e.rows[i].fk[role] \in RowsOf(e, Kinds[e.rows[i].kind].fk[role].to)
                 \/ e.rows[i].fk[role] = None /\ Kinds[e.rows[i].kind].fk[role].missing # "raise"
      <3>1. /\ e.rows[i].kind = d.rows[i].kind
            /\ e.rows[i].fk[role] = IF role \in AccountRoles THEN Rep(d.rows[i].fk[role])
                                    ELSE d.rows[i].fk[role]
        BY <1>10, <1>11
      <3>2. \/ d.rows[i].fk[role] \in RowsOf(d, Kinds[d.rows[i].kind].fk[role].to)
            \/ d.rows[i].fk[role] = None /\ Kinds[d.rows[i].kind].fk[role].missing # "raise"
        BY DEF Sound, RowsOK
      <3>3. role \in AccountRoles => Kinds[d.rows[i].kind].fk[role].to = "accounts"
        BY KindFacts DEF Sound, RowsOK
      <3> QED
        BY <1>2, <1>10, <3>1, <3>2, <3>3
    <2>2. \A i \in DOMAIN e.rows :
             e.rows[i].kind \in DOMAIN Kinds /\ DOMAIN e.rows[i].fk = DOMAIN Kinds[e.rows[i].kind].fk
      BY <1>6, <1>10, <1>11 DEF Sound, RowsOK
    <2>3. IsFiniteSet(DOMAIN e.rows) /\ \A i \in DOMAIN e.rows : i \in Nat
      BY <1>6 DEF Sound, RowsOK
    <2>4. \A i \in DOMAIN e.rows : \A role \in DOMAIN e.rows[i].fk :
             \/ e.rows[i].fk[role] \in RowsOf(e, Kinds[e.rows[i].kind].fk[role].to)
             \/ e.rows[i].fk[role] = None /\ Kinds[e.rows[i].kind].fk[role].missing # "raise"
      BY <1>6, <1>11, <2>1
    <2> QED
      BY <2>2, <2>3, <2>4 DEF RowsOK
  <1>18. ArchOK(e)
    <2>1. IsFiniteSet(DOMAIN e.arch) /\ \A a \in DOMAIN e.arch : a \in Nat
      <3>1. IsFiniteSet(DOMAIN d.arch) /\ \A a \in DOMAIN d.arch : a \in Nat
        BY DEF Sound, ArchOK
      <3>2. DOMAIN e.arch \subseteq DOMAIN d.arch
        BY <1>13
      <3> QED
        BY <3>1, <3>2, FS_Subset
    <2>2. ASSUME NEW a \in DOMAIN e.arch
          PROVE  /\ e.arch[a].kind \in DOMAIN Kinds /\ e.arch[a].row \in RowsOf(e, e.arch[a].kind)
                 /\ e.arch[a].session \in Sessions
      <3>1. /\ d.arch[a].kind \in DOMAIN Kinds /\ d.arch[a].row \in RowsOf(d, d.arch[a].kind)
            /\ d.arch[a].session \in Sessions
        BY <1>13 DEF Sound, ArchOK
      <3>2. a \in st.moved => d.arch[a].kind = "accounts"
        BY <1>2, <1>14, <1>15 DEF ArchOf, m
      <3> QED
        BY <1>10, <1>13, <3>1, <3>2
    <2>3. \A i \in DOMAIN e.rows : Live(e, i) => ArchOf(e, i) # {}
      <3>1. \A i \in DOMAIN d.rows : Live(d, i) => ArchOf(d, i) # {}
        BY DEF Sound, ArchOK
      <3> QED
        BY <3>1, <1>1, <1>2, <1>6, <1>12, <1>16
    <2> QED
      BY <2>1, <2>2, <2>3 DEF ArchOK
  <1>19. Inert(e)
    <2> SUFFICES ASSUME NEW i \in DOMAIN e.rows, ~Live(e, i)
                 PROVE  /\ e.rows[i].kind = "accounts"
                        /\ e.rows[i].rec.pk = None /\ e.rows[i].rec.url = None /\ e.rows[i].rec.val = None
                        /\ ArchOf(e, i) = {}
                        /\ e.rows[i].into \in RowsOf(e, "accounts") /\ Live(e, e.rows[i].into)
                        /\ \A j \in DOMAIN e.rows : \A r \in DOMAIN e.rows[j].fk \cap AccountRoles :
                              e.rows[j].fk[r] # i
      BY DEF Inert
    <2>1. CASE i = gone
      <3>1. \A j \in DOMAIN e.rows : \A r \in DOMAIN e.rows[j].fk \cap AccountRoles : e.rows[j].fk[r] # i
        BY <1>1, <1>6, <1>11, <2>1
      <3> QED
        BY <1>2, <1>7, <1>10, <1>12, <1>16, <2>1, <3>1 DEF m
    <2>2. CASE i # gone
      <3>1. i \in DOMAIN d.rows /\ ~Live(d, i) /\ i # keeper
        BY <1>6, <1>12, <2>2
      <3>2. /\ d.rows[i].kind = "accounts"
            /\ d.rows[i].rec.pk = None /\ d.rows[i].rec.url = None /\ d.rows[i].rec.val = None
            /\ ArchOf(d, i) = {} /\ d.rows[i].into \in RowsOf(d, "accounts") /\ Live(d, d.rows[i].into)
            /\ \A j \in DOMAIN d.rows : \A r \in DOMAIN d.rows[j].fk \cap AccountRoles :
                  d.rows[j].fk[r] # i
        BY <3>1 DEF Sound, Inert
      <3>3. \A j \in DOMAIN e.rows : \A r \in DOMAIN e.rows[j].fk \cap AccountRoles : e.rows[j].fk[r] # i
        <4> SUFFICES ASSUME NEW j \in DOMAIN d.rows, NEW r \in DOMAIN d.rows[j].fk \cap AccountRoles
                     PROVE  e.rows[j].fk[r] # i
          BY <1>6, <1>11
        <4>1. e.rows[j].fk[r] = Rep(d.rows[j].fk[r]) /\ d.rows[j].fk[r] # i
          BY <1>11, <3>2
        <4> QED
          BY <3>1, <4>1
      <3>4. e.rows[i].into \in RowsOf(e, "accounts") /\ Live(e, e.rows[i].into)
        <4>1. d.rows[i].into \in DOMAIN d.rows
          BY <3>2 DEF RowsOf
        <4> QED
          BY <1>9, <1>10, <1>12, <2>2, <3>1, <3>2, <4>1
      <3> QED
        BY <1>9, <1>16, <2>2, <3>1, <3>2, <3>3, <3>4
    <2> QED
      BY <2>1, <2>2
  <1>20. OneIdentity(e)
    <2> SUFFICES ASSUME NEW a \in DOMAIN e.arch, e.arch[a].kind \in {"accounts", "posts"}
                 PROVE  /\ e.rows[e.arch[a].row].rec.plat = e.arch[a].rec.plat
                        /\ e.arch[a].rec.pk # None => e.rows[e.arch[a].row].rec.pk = e.arch[a].rec.pk
      BY DEF OneIdentity
    <2>1. \A b \in ArchOf(d, keeper) \cup ArchOf(d, gone) :
             /\ k.rec.plat = d.arch[b].rec.plat
             /\ d.arch[b].rec.pk # None => st.rec.pk = d.arch[b].rec.pk
      <3>1. ASSUME NEW b \in ArchOf(d, keeper)
            PROVE  k.rec.plat = d.arch[b].rec.plat /\ (d.arch[b].rec.pk # None => k.rec.pk = d.arch[b].rec.pk)
        BY <1>2, <1>14 DEF Sound, OneIdentity, ArchOf, k
      <3>2. ASSUME NEW b \in ArchOf(d, gone)
            PROVE  m.rec.plat = d.arch[b].rec.plat /\ (d.arch[b].rec.pk # None => m.rec.pk = d.arch[b].rec.pk)
        BY <1>2, <1>14 DEF Sound, OneIdentity, ArchOf, m
      <3>3. k.rec.plat = m.rec.plat
        BY DEF k, m
      <3> QED
        BY <1>1, <1>3, <3>1, <3>2, <3>3 DEF First
    <2>2. CASE e.arch[a].row = keeper
      <3>1. a \in ArchOf(d, keeper) \cup ArchOf(d, gone)
        BY <1>13, <1>15, <2>2 DEF ArchOf
      <3>2. e.rows[keeper].rec = st.rec /\ st.rec.plat = k.rec.plat
        BY <1>3, <1>8
      <3>3. CASE a \in DOMAIN st.filled
        <4>1. PICK b \in ArchOf(d, gone) : st.filled[a].pk = First(d.arch[a].rec.pk, d.arch[b].rec.pk)
          BY <1>4, <3>3
        <4>2. e.arch[a].rec = st.filled[a] /\ st.filled[a].plat = d.arch[a].rec.plat
          BY <1>4, <1>13, <3>3
        <4> QED
          BY <2>1, <2>2, <3>1, <3>2, <4>1, <4>2 DEF First
      <3>4. CASE a \notin DOMAIN st.filled
        BY <1>13, <2>1, <2>2, <3>1, <3>2, <3>4
      <3> QED
        BY <3>3, <3>4
    <2>3. CASE e.arch[a].row # keeper
      <3>1. /\ a \in DOMAIN d.arch /\ a \notin st.moved /\ d.arch[a].row = e.arch[a].row
            /\ d.arch[a].kind = e.arch[a].kind
        BY <1>13, <2>3
      <3>2. d.arch[a].row # gone /\ a \notin DOMAIN st.filled
        BY <1>4, <1>13, <1>15, <2>3, <3>1 DEF ArchOf
      <3>3. e.rows[d.arch[a].row].rec = d.rows[d.arch[a].row].rec /\ e.arch[a].rec = d.arch[a].rec
        BY <1>9, <1>13, <1>14, <2>3, <3>1, <3>2
      <3> QED
        BY <3>1, <3>3 DEF Sound, OneIdentity
    <2> QED
      BY <2>2, <2>3
  <1>21. SizesOK(e)
    <2>1. \A a \in DOMAIN st.filled : d.arch[a].kind = "accounts"
      BY <1>2, <1>4, <1>14 DEF ArchOf, k
    <2> QED
      BY <1>13, <2>1 DEF Sound, SizesOK
  <1>22. \A i \in RowsOf(e, "accounts") : Counted(e, i) \/ Due(e, s, i)
    <2> SUFFICES ASSUME NEW i \in RowsOf(d, "accounts") PROVE Counted(e, i) \/ Due(e, s, i)
      BY <1>10
    <2>1. \A p \in RowsOf(d, "posts") : /\ p \in DOMAIN d.rows /\ "account" \in DOMAIN d.rows[p].fk
                                        /\ e.rows[p].fk["account"] = Rep(d.rows[p].fk["account"])
      <3> SUFFICES ASSUME NEW p \in RowsOf(d, "posts")
                   PROVE  /\ p \in DOMAIN d.rows /\ "account" \in DOMAIN d.rows[p].fk
                          /\ e.rows[p].fk["account"] = Rep(d.rows[p].fk["account"])
        OBVIOUS
      <3>1. p \in DOMAIN d.rows /\ d.rows[p].kind = "posts"
        BY DEF RowsOf
      <3>2. "account" \in DOMAIN d.rows[p].fk /\ "account" \in AccountRoles
        BY <3>1, KindFacts DEF Sound, RowsOK
      <3> QED
        BY <1>11, <3>1, <3>2
    <2>2. CASE i = keeper
      <3>1. PostsOf(e, i) = RepointedPosts(st, d)
        BY <1>3, <1>5, <1>10, <2>1, <2>2 DEF PostsOf, RepointedPosts
      <3> QED
        BY <1>8, <2>2, <3>1 DEF Counted
    <2>3. CASE i = gone
      <3>1. PostsOf(e, i) = {}
        BY <1>1, <1>10, <2>1, <2>3 DEF PostsOf
      <3> QED
        BY <1>7, <2>3, <3>1, FS_EmptySet DEF Counted
    <2>4. CASE i # keeper /\ i # gone
      <3>1. PostsOf(e, i) = PostsOf(d, i)
        BY <1>10, <2>1, <2>4 DEF PostsOf
      <3>2. i \in DOMAIN d.rows
        BY DEF RowsOf
      <3>3. ASSUME Counted(d, i) PROVE Counted(e, i)
        BY <1>9, <2>4, <3>1, <3>2, <3>3 DEF Counted
      <3>4. ASSUME Due(d, s, i) PROVE Due(e, s, i)
        <4>1. PICK a \in DOMAIN d.arch : /\ d.arch[a].session = s /\ d.arch[a].kind = "posts"
                                         /\ d.rows[d.arch[a].row].fk["account"] = i
          BY <3>4 DEF Due
        <4>2. d.arch[a].row \in RowsOf(d, "posts") /\ a \notin ArchOf(d, gone)
          BY <1>2, <1>14, <4>1 DEF RowsOf, ArchOf, m
        <4>3. /\ a \in DOMAIN e.arch /\ e.arch[a].row = d.arch[a].row
              /\ e.arch[a].session = s /\ e.arch[a].kind = "posts"
          BY <1>13, <1>15, <4>1, <4>2
        <4> QED
          BY <2>1, <2>4, <4>1, <4>2, <4>3 DEF Due
      <3> QED
        BY <3>3, <3>4 DEF Sound
    <2> QED
      BY <2>2, <2>3, <2>4
  <1>23. \A i \in DOMAIN e.rows : Untouched(merges \cup {<<keeper, gone>>}, i) => Synthesis(e, i)
    <2> SUFFICES ASSUME NEW i \in DOMAIN d.rows, Untouched(merges \cup {<<keeper, gone>>}, i)
                 PROVE  Synthesis(e, i)
      BY <1>6
    <2>1. i # keeper /\ i # gone /\ Untouched(merges, i)
      <3> DEFINE pair == <<keeper, gone>>
      <3>1. pair[1] = keeper /\ pair[2] = gone
        OBVIOUS
      <3> HIDE DEF pair
      <3>2. Untouched(merges \cup {pair}, i)
        BY DEF pair
      <3> QED
        BY <3>1, <3>2 DEF Untouched
    <2>2. Synthesis(d, i)
      BY <2>1 DEF Sound
    <2>3. ArchOf(e, i) = ArchOf(d, i) /\ \A a \in ArchOf(d, i) : e.arch[a].rec = d.arch[a].rec
      <3>1. ArchOf(e, i) = ArchOf(d, i)
        BY <1>16, <2>1
      <3>2. \A a \in ArchOf(d, i) : a \notin DOMAIN st.filled
        BY <1>4, <2>1 DEF ArchOf
      <3>3. \A a \in ArchOf(d, i) : a \in DOMAIN e.arch
        BY <3>1 DEF ArchOf
      <3> QED
        BY <1>13, <3>1, <3>2, <3>3
    <2> QED
      BY <1>9, <2>1, <2>2, <2>3, SynthesisFrame
  <1> QED
    BY <1>17, <1>18, <1>19, <1>20, <1>21, <1>22, <1>23 DEF Sound

-----------------------------------------------------------------------------
(* post_count is synchronised                                              *)

\* Sound says nothing of the tags, and where nothing is due of no session either.
LEMMA SoundFrame ==
    ASSUME NEW d, NEW e, NEW s, NEW t, NEW merges, Sound(d, s, merges),
           e.rows = d.rows, e.arch = d.arch,
           t = s \/ \A i \in RowsOf(d, "accounts") : Counted(d, i)
    PROVE  Sound(e, t, merges)
  <1>1. /\ \A key : RowsOf(e, key) = RowsOf(d, key)
        /\ \A i : ArchOf(e, i) = ArchOf(d, i) /\ PostsOf(e, i) = PostsOf(d, i) /\ (Live(e, i) <=> Live(d, i))
    BY DEF RowsOf, ArchOf, PostsOf, Live
  <1>2. RowsOK(e)
    BY <1>1 DEF Sound, RowsOK
  <1>3. ArchOK(e)
    BY <1>1 DEF Sound, ArchOK
  <1>4. Inert(e)
    BY <1>1 DEF Sound, Inert
  <1>5. OneIdentity(e) /\ SizesOK(e)
    BY DEF Sound, OneIdentity, SizesOK
  <1>6. \A i \in RowsOf(e, "accounts") : Counted(e, i) \/ Due(e, t, i)
    BY <1>1 DEF Sound, Counted, Due
  <1>7. \A i \in DOMAIN e.rows : Untouched(merges, i) => Synthesis(e, i)
    <2>1. \A i \in DOMAIN d.rows : Synthesis(d, i) => Synthesis(e, i)
      BY <1>1, SynthesisFrame
    <2> QED
      BY <2>1 DEF Sound
  <1> QED
    BY <1>2, <1>3, <1>4, <1>5, <1>6, <1>7 DEF Sound

LEMMA RecountKeeps ==
    ASSUME NEW d, NEW s, NEW merges, Sound(d, s, merges), NEW st, st.session = s,
           NEW e, e.rows = Recounted(st, d), e.arch = d.arch
    PROVE  Sound(e, s, merges) /\ \A i \in RowsOf(e, "accounts") : Counted(e, i)
  <1> DEFINE touched == {d.rows[d.arch[a].row].fk.account :
                    a \in {b \in DOMAIN d.arch : /\ d.arch[b].session = st.session
                                                 /\ d.arch[b].kind = "posts"}}
  <1>1. \A i : Due(d, s, i) => i \in touched
    BY DEF Due
  <1>2. /\ DOMAIN e.rows = DOMAIN d.rows
        /\ \A i \in DOMAIN d.rows :
              e.rows[i] = IF i \in touched
                          THEN Row(d.rows[i].kind, d.rows[i].rec, d.rows[i].ids, d.rows[i].fk,
                                   d.rows[i].into, Cardinality(PostsOf(d, i)))
                          ELSE d.rows[i]
    BY DEF Recounted
  <1> HIDE DEF touched
  <1>3. \A i \in DOMAIN d.rows :
           /\ e.rows[i].kind = d.rows[i].kind /\ e.rows[i].rec = d.rows[i].rec
           /\ e.rows[i].ids = d.rows[i].ids
           /\ e.rows[i].fk = d.rows[i].fk /\ e.rows[i].into = d.rows[i].into
           /\ i \in touched => e.rows[i].count = Cardinality(PostsOf(d, i))
           /\ i \notin touched => e.rows[i].count = d.rows[i].count
    <2> SUFFICES ASSUME NEW i \in DOMAIN d.rows
                 PROVE  /\ e.rows[i].kind = d.rows[i].kind /\ e.rows[i].rec = d.rows[i].rec
                        /\ e.rows[i].ids = d.rows[i].ids
                        /\ e.rows[i].fk = d.rows[i].fk /\ e.rows[i].into = d.rows[i].into
                        /\ i \in touched => e.rows[i].count = Cardinality(PostsOf(d, i))
                        /\ i \notin touched => e.rows[i].count = d.rows[i].count
      OBVIOUS
    <2>1. CASE i \in touched
      <3> DEFINE r == d.rows[i]
                 n == Cardinality(PostsOf(d, i))
      <3>1. e.rows[i] = Row(r.kind, r.rec, r.ids, r.fk, r.into, n)
        BY <1>2, <2>1
      <3> HIDE DEF r, n
      <3>2. /\ e.rows[i].kind = r.kind /\ e.rows[i].rec = r.rec /\ e.rows[i].ids = r.ids
            /\ e.rows[i].fk = r.fk /\ e.rows[i].into = r.into /\ e.rows[i].count = n
        BY <3>1 DEF Row
      <3> QED
        BY <2>1, <3>2 DEF r, n
    <2>2. CASE i \notin touched
      BY <1>2, <2>2
    <2> QED
      BY <2>1, <2>2
  <1>4. /\ \A key : RowsOf(e, key) = RowsOf(d, key)
        /\ \A i : ArchOf(e, i) = ArchOf(d, i)
        /\ \A i \in DOMAIN d.rows : Live(e, i) <=> Live(d, i)
    BY <1>2, <1>3 DEF RowsOf, ArchOf, Live
  <1>5. \A i : PostsOf(e, i) = PostsOf(d, i)
    BY <1>3, <1>4 DEF PostsOf, RowsOf
  <1>6. \A i \in RowsOf(e, "accounts") : Counted(e, i)
    <2> SUFFICES ASSUME NEW i \in RowsOf(d, "accounts") PROVE Counted(e, i)
      BY <1>4
    <2>1. i \in DOMAIN d.rows /\ (Counted(d, i) \/ Due(d, s, i))
      BY DEF Sound, RowsOf
    <2> QED
      BY <1>1, <1>3, <1>5, <2>1 DEF Counted
  <1>7. RowsOK(e)
    BY <1>2, <1>3, <1>4 DEF Sound, RowsOK
  <1>8. ArchOK(e)
    BY <1>2, <1>4 DEF Sound, ArchOK
  <1>9. Inert(e)
    <2> SUFFICES ASSUME NEW i \in DOMAIN e.rows, ~Live(e, i)
                 PROVE  /\ e.rows[i].kind = "accounts"
                        /\ e.rows[i].rec.pk = None /\ e.rows[i].rec.url = None /\ e.rows[i].rec.val = None
                        /\ ArchOf(e, i) = {}
                        /\ e.rows[i].into \in RowsOf(e, "accounts") /\ Live(e, e.rows[i].into)
                        /\ \A j \in DOMAIN e.rows : \A r \in DOMAIN e.rows[j].fk \cap AccountRoles :
                              e.rows[j].fk[r] # i
      BY DEF Inert
    <2>1. i \in DOMAIN d.rows /\ ~Live(d, i)
      BY <1>2, <1>4
    <2>2. /\ d.rows[i].kind = "accounts"
          /\ d.rows[i].rec.pk = None /\ d.rows[i].rec.url = None /\ d.rows[i].rec.val = None
          /\ ArchOf(d, i) = {} /\ d.rows[i].into \in RowsOf(d, "accounts") /\ Live(d, d.rows[i].into)
          /\ \A j \in DOMAIN d.rows : \A r \in DOMAIN d.rows[j].fk \cap AccountRoles :
                d.rows[j].fk[r] # i
      BY <2>1 DEF Sound, Inert
    <2>3. d.rows[i].into \in DOMAIN d.rows
      BY <2>2 DEF RowsOf
    <2> QED
      BY <1>2, <1>3, <1>4, <2>1, <2>2, <2>3
  <1>10. OneIdentity(e) /\ SizesOK(e)
    BY <1>3 DEF Sound, OneIdentity, SizesOK, ArchOK, RowsOf
  <1>11. \A i \in DOMAIN e.rows : Untouched(merges, i) => Synthesis(e, i)
    <2>1. \A i \in DOMAIN d.rows : Synthesis(d, i) => Synthesis(e, i)
      BY <1>3, <1>4, SynthesisFrame
    <2> QED
      BY <1>2, <2>1 DEF Sound
  <1> QED
    BY <1>6, <1>7, <1>8, <1>9, <1>10, <1>11 DEF Sound

-----------------------------------------------------------------------------
(* New numbers                                                             *)

\* One writer: the next number is above all that are there.
LEMMA NextIdIsNew ==
    ASSUME Workers = {1}, NEW ids, IsFiniteSet(ids), ids \subseteq Nat
    PROVE  /\ NextId(ids, 1) \in Nat /\ NextId(ids, 1) \notin ids
           /\ \A i \in ids : i <= NextId(ids, 1) /\ ~(NextId(ids, 1) <= i)
  <1>1. Cardinality(Workers) = 1
    BY FS_Singleton
  <1>2. \A i \in Nat : i % 1 = 0
    OBVIOUS
  <1>3. {i \in ids : i % 1 = 1 % 1} = ids
    BY <1>2
  <1>4. NextId(ids, 1) = IF ids = {} THEN 1 ELSE Max(ids) + 1
    BY <1>1, <1>3 DEF NextId
  <1>5. ids # {} => Max(ids) \in Nat /\ \A i \in ids : i <= Max(ids)
    BY FiniteMax
  <1> QED
    BY <1>4, <1>5

LEMMA LeastIs ==
    ASSUME NEW S \in SUBSET Nat, Least(S) # None
    PROVE  Least(S) \in S
  BY NatMin DEF Least

\* A record of a session is merged into what the others say, and prevails.
LEMMA RecordPrevails ==
    ASSUME NEW key, NEW recs, SizesKnown(key, recs), NEW D \in SUBSET DOMAIN recs, NEW a \in DOMAIN recs,
           NEW old, ValueOf(key, recs, D, old.val)
    PROVE  ValueOf(key, recs, D \cup {a}, Reconcile(key, old, recs[a]).val)
  <1> DEFINE val == Reconcile(key, old, recs[a]).val
  <1>1. val = IF key = "media" /\ Larger(old.val, recs[a].val) THEN old.val
              ELSE First(recs[a].val, old.val)
    BY DEF Reconcile, ReconcileFields, ReconcileMedia
  <1> HIDE DEF val
  <1>2. CASE key = "media" /\ recs[a].val # None /\ old.val # None
    <2>1. recs[a].val \in Nat
      BY <1>2 DEF SizesKnown
    <2>2. old.val \in Nat
      BY <1>2 DEF SizesKnown, ValueOf
    <2>3. val = IF recs[a].val > old.val THEN recs[a].val ELSE old.val
      BY <1>1, <1>2, <2>1, <2>2 DEF First, Larger
    <2> QED
      BY <1>2, <2>3, OneMore DEF val
  <1>3. CASE ~ (key = "media" /\ recs[a].val # None /\ old.val # None)
    <2>1. \/ recs[a].val = None /\ val = old.val
          \/ recs[a].val # None /\ old.val = None /\ val = recs[a].val
          \/ recs[a].val # None /\ old.val # None /\ key # "media" /\ val \in {old.val, recs[a].val}
      BY <1>1, <1>3 DEF First, Larger
    <2> QED
      BY <2>1, OneMore DEF val
  <1> QED
    BY <1>2, <1>3

-----------------------------------------------------------------------------
(* Matching finds live rows                                                *)

LEMMA FoundIsLive ==
    ASSUME NEW d, RowsOK(d), Inert(d), NEW key, NEW plat, NEW x
    PROVE  /\ ByPk(d, key, plat, x) \subseteq {i \in RowsOf(d, key) : Live(d, i)}
           /\ ByUrl(d, key, plat, x) \subseteq {i \in RowsOf(d, key) : Live(d, i)}
           /\ ByPk(d, key, plat, x) \in SUBSET Nat /\ ByUrl(d, key, plat, x) \in SUBSET Nat
           /\ IsFiniteSet(ByPk(d, key, plat, x)) /\ IsFiniteSet(ByUrl(d, key, plat, x))
  <1>1. RowsOf(d, key) \subseteq DOMAIN d.rows /\ RowsOf(d, key) \subseteq Nat
    BY DEF RowsOf, RowsOK
  <1>2. \A i \in DOMAIN d.rows : ~Live(d, i) => d.rows[i].rec.pk = None /\ d.rows[i].rec.url = None
    BY DEF Inert
  <1>3. ByPk(d, key, plat, x) \subseteq RowsOf(d, key) /\ ByUrl(d, key, plat, x) \subseteq RowsOf(d, key)
    BY DEF ByPk, ByUrl
  <1>4. IsFiniteSet(DOMAIN d.rows)
    BY DEF RowsOK
  <1>5. IsFiniteSet(ByPk(d, key, plat, x)) /\ IsFiniteSet(ByUrl(d, key, plat, x))
    BY <1>1, <1>3, <1>4, FS_Subset
  <1>6. \A i \in ByPk(d, key, plat, x) \cup ByUrl(d, key, plat, x) : Live(d, i)
    BY <1>1, <1>2 DEF ByPk, ByUrl
  <1> QED
    BY <1>1, <1>3, <1>5, <1>6

LEMMA ResolveRefIs ==
    ASSUME NEW d, RowsOK(d), Inert(d), NEW key, NEW role, NEW o, NEW batch,
           NEW x, x = ResolveRef(d, key, role, o, batch)
    PROVE  x = None \/ (x \in RowsOf(d, Kinds[key].fk[role].to) /\ Live(d, x))
  <1> DEFINE to == Kinds[key].fk[role].to
             byPk == ByPk(d, to, o.rec.plat, o.refs[role].pk)
             byUrl == ByUrl(d, to, o.rec.plat, o.refs[role].url)
             found == IF byPk # {} THEN byPk ELSE byUrl
  <1>1. x = IF found = {} THEN None ELSE IF batch THEN Max(found) ELSE Min(found)
    BY DEF ResolveRef
  <1>2. /\ byPk \subseteq {i \in RowsOf(d, to) : Live(d, i)} /\ byPk \in SUBSET Nat /\ IsFiniteSet(byPk)
        /\ byUrl \subseteq {i \in RowsOf(d, to) : Live(d, i)} /\ byUrl \in SUBSET Nat /\ IsFiniteSet(byUrl)
    <2> HIDE DEF to
    <2> QED
      BY FoundIsLive
  <1> HIDE DEF byPk, byUrl
  <1>3. found \subseteq {i \in RowsOf(d, to) : Live(d, i)} /\ found \in SUBSET Nat /\ IsFiniteSet(found)
    BY <1>2
  <1> HIDE DEF found
  <1>4. found # {} => Max(found) \in found /\ Min(found) \in found
    BY <1>3, FiniteMax, NatMin
  <1>5. x = None \/ x \in found
    BY <1>1, <1>4
  <1>6. x \in found => x \in RowsOf(d, to) /\ Live(d, x)
    BY <1>3
  <1> QED
    BY <1>5, <1>6

\* An entity that may be stored in the row id: of its platform, and of its pk if both have one.
HitOK(d, key, id, o) ==
    /\ id \in RowsOf(d, key) /\ Live(d, id)
    /\ key = "media" => o.rec.val \in Nat \cup {None}
    /\ key \in {"accounts", "posts"} =>
          /\ o.rec.plat = d.rows[id].rec.plat
          /\ o.rec.pk = None \/ d.rows[id].rec.pk = None \/ o.rec.pk = d.rows[id].rec.pk

LEMMA MatchIs ==
    ASSUME NEW d, RowsOK(d), Inert(d), NEW key \in DOMAIN Kinds, NEW o,
           key = "media" => o.rec.val \in Nat \cup {None},
           NEW id, id = Match(d, key, o.rec), id # None
    PROVE  HitOK(d, key, id, o)
  <1> DEFINE byPk == ByPk(d, key, o.rec.plat, o.rec.pk)
             byUrl == ByUrl(d, key, o.rec.plat, o.rec.url)
             same == {i \in RowsOf(d, key) : d.rows[i].rec.pk = o.rec.pk}
  <1>1. /\ byPk \subseteq {i \in RowsOf(d, key) : Live(d, i)} /\ byPk \in SUBSET Nat
        /\ byUrl \subseteq {i \in RowsOf(d, key) : Live(d, i)} /\ byUrl \in SUBSET Nat
    BY FoundIsLive
  <1>2. /\ Least(byPk) # None => Least(byPk) \in byPk
        /\ Least(byUrl) # None => Least(byUrl) \in byUrl
    BY <1>1, LeastIs
  <1>3. CASE Kinds[key].match = "pk"
    <2>1. id = IF Least(byPk) # None THEN Least(byPk)
               ELSE IF Least(byUrl) # None /\ PkConflict(d, Least(byUrl), o.rec.pk) THEN None
               ELSE Least(byUrl)
      BY <1>3 DEF Match
    <2>2. CASE id \in byPk
      <3>1. d.rows[id].rec.pk = o.rec.pk /\ d.rows[id].rec.plat = o.rec.plat
        BY <2>2 DEF ByPk
      <3> QED
        BY <1>1, <2>2, <3>1 DEF HitOK
    <2>3. CASE id \in byUrl /\ ~PkConflict(d, id, o.rec.pk)
      <3>1. d.rows[id].rec.plat = o.rec.plat
        BY <2>3 DEF ByUrl
      <3> QED
        BY <1>1, <2>3, <3>1 DEF HitOK, PkConflict
    <2> QED
      BY <1>2, <2>1, <2>2, <2>3
  <1>4. CASE Kinds[key].match = "url"
    <2>1. id = First(Least(byUrl), Least(byPk))
      BY <1>4 DEF Match
    <2>2. id \in byUrl \/ id \in byPk
      BY <1>2, <2>1 DEF First
    <2>3. key \notin {"accounts", "posts"}
      BY <1>4, KindFacts
    <2> QED
      BY <1>1, <2>2, <2>3 DEF HitOK
  <1>5. CASE Kinds[key].match = "key"
    <2>1. id = Least(same)
      BY <1>5 DEF Match
    <2>2. same \in SUBSET Nat
      BY DEF RowsOf, RowsOK
    <2>3. id \in same
      BY <2>1, <2>2, LeastIs
    <2>4. key \notin {"accounts", "posts"}
      BY <1>5, KindFacts
    <2>5. id \in RowsOf(d, key) /\ Live(d, id)
      BY <2>3, <2>4 DEF Inert, RowsOf
    <2> QED
      BY <2>4, <2>5 DEF HitOK
  <1> QED
    BY <1>3, <1>4, <1>5, KindFacts

\* Entities that find one row agree on it.
LEMMA CollapseKeeps ==
    ASSUME NEW d, NEW key, NEW id, NEW o, HitOK(d, key, id, o), NEW h, HitOK(d, key, id, h),
           NEW x, x.rec = Reconcile(key, h.rec, o.rec)
    PROVE  HitOK(d, key, id, x)
  <1>1. x.rec.plat = o.rec.plat /\ x.rec.pk = First(o.rec.pk, h.rec.pk)
    BY DEF Reconcile, ReconcileFields, ReconcileMedia
  <1>2. x.rec.val \in {o.rec.val, h.rec.val}
    BY DEF Reconcile, ReconcileFields, ReconcileMedia, First
  <1> QED
    BY <1>1, <1>2 DEF HitOK, First

-----------------------------------------------------------------------------
(* The statements of the intake                                            *)

LEMMA ExecIs ==
    ASSUME NEW st, NEW d
    PROVE  /\ st.op = "insert" =>
                 Exec(st, d) = [rows |-> Put(d.rows, st.id, st.row),
                                arch |-> Put(d.arch, st.aid, st.record), tags |-> d.tags]
           /\ st.op = "store" =>
                 Exec(st, d) = [rows |-> Put(d.rows, st.id, StoredRow(st, d.rows[st.id])),
                                arch |-> Put(d.arch, st.aid, st.record), tags |-> d.tags]
           /\ st.op = "merge" =>
                 Exec(st, d) = [rows |-> [i \in DOMAIN d.rows |-> MergedRow(st, d, i)],
                                arch |-> MovedArch(st, d.arch), tags |-> MovedTags(st, d.tags)]
           /\ st.op = "recount" =>
                 Exec(st, d) = [rows |-> Recounted(st, d), arch |-> d.arch, tags |-> d.tags]
  BY DEF Exec

LEMMA InsertIsSound ==
    ASSUME Workers = {1}, NEW d, NEW s \in Sessions, NEW merges, Sound(d, s, merges),
           NEW key \in DOMAIN Kinds, NEW o, key = "media" => o.rec.val \in Nat \cup {None},
           NEW st, st = StoreNew(d, key, o, s, 1), Resolved(key, st.row.fk)
    PROVE  /\ Sound(Exec(st, d), s, merges) /\ st.op = "insert"
           /\ st.id \notin DOMAIN d.rows /\ st.aid \notin DOMAIN d.arch
  <1> DEFINE ids == Identifiers(key, o.rec)
             fk == [role \in DOMAIN Kinds[key].fk |-> ResolveRef(d, key, role, o, Kinds[key].batch)]
             row == Row(key, o.rec, ids, fk, None, 0)
             record == Observed(key, s, st.id, o.rec)
             e == Exec(st, d)
  <1>1. /\ st.op = "insert" /\ st.id = NextId(DOMAIN d.rows, 1) /\ st.row = row
        /\ st.aid = NextId(DOMAIN d.arch, 1) /\ st.record = record
    BY DEF StoreNew
  <1>2. st.row.fk = fk
    <2> HIDE DEF e, fk, ids
    <2> QED
      BY <1>1 DEF Row
  <1>3. st.id \in Nat /\ st.id \notin DOMAIN d.rows /\ st.aid \in Nat /\ st.aid \notin DOMAIN d.arch
    BY <1>1, NextIdIsNew DEF Sound, RowsOK, ArchOK
  <1>4. FkOK(d, key, fk)
    <2>2. DOMAIN fk = DOMAIN Kinds[key].fk
      OBVIOUS
    <2>3. ASSUME NEW role \in DOMAIN fk
          PROVE  \/ fk[role] \in RowsOf(d, Kinds[key].fk[role].to) /\ Live(d, fk[role])
                 \/ fk[role] = None /\ Kinds[key].fk[role].missing # "raise"
      <3>1. fk[role] = ResolveRef(d, key, role, o, Kinds[key].batch)
        OBVIOUS
      <3>2. fk[role] = None \/ (fk[role] \in RowsOf(d, Kinds[key].fk[role].to) /\ Live(d, fk[role]))
        BY <3>1, ResolveRefIs DEF Sound
      <3>3. Kinds[key].fk[role].missing = "raise" => fk[role] # None
        BY <1>2 DEF Resolved
      <3> QED
        BY <3>2, <3>3
    <2> HIDE DEF fk
    <2> QED
      BY <2>2, <2>3 DEF FkOK
  <1>5. e.rows = Put(d.rows, st.id, row) /\ e.arch = Put(d.arch, st.aid, record)
    <2> HIDE DEF row, record
    <2> QED
      BY <1>1, ExecIs
  <1>6. Sound(e, s, merges)
    <2> HIDE DEF e, fk, ids
    <2> QED
      BY <1>3, <1>4, <1>5, InsertKeeps
  <1> QED
    BY <1>1, <1>3, <1>6

\* A statement that stores what was found for the row id, with its records in some order.
IsStore(st, d, key, id, o, s) ==
    \E order \in Orders(ArchOf(d, id)) : st = StoreExisting(d, key, id, o, s, 1, order)

LEMMA StoreIsSound ==
    ASSUME Workers = {1}, NEW d, NEW s \in Sessions, NEW merges, Sound(d, s, merges),
           NEW key, NEW id, NEW o, HitOK(d, key, id, o),
           NEW st, IsStore(st, d, key, id, o, s)
    PROVE  /\ Sound(Exec(st, d), s, merges)
           /\ st.op = "store" /\ st.id = id /\ st.fk = Exec(st, d).rows[id].fk
           /\ key = "posts" => st.fk["account"] = d.rows[id].fk["account"]
           /\ st.record.row = id /\ st.record.session = s
           /\ st.aid \in DOMAIN d.arch => d.arch[st.aid].row = id /\ d.arch[st.aid].session = s
           /\ key = "accounts" => d.rows[id].ids \subseteq st.ids
  <1>0. PICK order \in Orders(ArchOf(d, id)) : st = StoreExisting(d, key, id, o, s, 1, order)
    BY DEF IsStore
  <1> DEFINE row == d.rows[id]
             prior == OfSession(d, id, s)
             aid == IF prior # {} THEN Min(prior) ELSE NextId(DOMAIN d.arch, 1)
             rec == IF prior # {} THEN Reconcile(key, o.rec, d.arch[aid].rec) ELSE o.rec
             recs == [a \in ArchOf(d, id) |-> IF a = aid THEN rec ELSE d.arch[a].rec]
             ordered == [n \in DOMAIN order |-> IF order[n] = aid THEN rec ELSE d.arch[order[n]].rec]
             derived == IF prior # {} THEN SynthesizeFromArchives(key, ordered)
                        ELSE Reconcile(key, row.rec, rec)
             keep == PreserveIdentifiers(derived, row.rec)
             ids == IF key = "accounts" THEN row.ids \cup Ids(derived) ELSE row.ids
             fk == [role \in DOMAIN Kinds[key].fk |->
                       First(row.fk[role], ResolveRef(d, key, role, o, FALSE))]
             record == Observed(key, s, id, rec)
             e == Exec(st, d)
  <1>1. /\ st.op = "store" /\ st.id = id /\ st.rec = keep /\ st.ids = ids /\ st.fk = fk
        /\ st.aid = aid /\ st.record = record
    BY <1>0 DEF StoreExisting
  <1>2. /\ id \in DOMAIN d.rows /\ Live(d, id) /\ row.kind = key /\ key \in DOMAIN Kinds
    BY DEF HitOK, RowsOf, Sound, RowsOK
  <1>3. \A a \in ArchOf(d, id) : /\ a \in DOMAIN d.arch /\ d.arch[a].row = id /\ d.arch[a].kind = key
                                 /\ a \in Nat
    BY <1>2 DEF ArchOf, Sound, ArchOK, RowsOf
  <1>4. prior # {} => aid \in prior /\ aid \in ArchOf(d, id) /\ d.arch[aid].session = s
    BY <1>3, NatMin DEF OfSession
  <1>5. prior = {} => /\ aid \in Nat /\ aid \notin DOMAIN d.arch
                      /\ \A a \in DOMAIN d.arch : a <= aid /\ ~(aid <= a)
    BY NextIdIsNew DEF Sound, ArchOK
  <1>6. FkOK(d, key, fk) /\ (key = "posts" => fk["account"] = row.fk["account"])
    <2>1. FkOK(d, key, row.fk)
      BY <1>2, KeysLive DEF Sound
    <2>2. DOMAIN fk = DOMAIN Kinds[key].fk
      OBVIOUS
    <2>3. ASSUME NEW role \in DOMAIN fk
          PROVE  \/ fk[role] \in RowsOf(d, Kinds[key].fk[role].to) /\ Live(d, fk[role])
                 \/ fk[role] = None /\ Kinds[key].fk[role].missing # "raise"
      <3> DEFINE found == ResolveRef(d, key, role, o, FALSE)
      <3>1. fk[role] = IF row.fk[role] # None THEN row.fk[role] ELSE found
        BY DEF First
      <3>2. found = None \/ (found \in RowsOf(d, Kinds[key].fk[role].to) /\ Live(d, found))
        BY ResolveRefIs DEF Sound
      <3>3. \/ row.fk[role] \in RowsOf(d, Kinds[key].fk[role].to) /\ Live(d, row.fk[role])
            \/ row.fk[role] = None /\ Kinds[key].fk[role].missing # "raise"
        BY <2>1, <2>2 DEF FkOK
      <3>4. None \notin RowsOf(d, Kinds[key].fk[role].to)
        BY ContentsAssumption DEF Sound, RowsOK, RowsOf, ContentsAssumption
      <3> HIDE DEF fk, row, found
      <3> QED
        BY <3>1, <3>2, <3>3, <3>4
    <2>4. key = "posts" => fk["account"] = row.fk["account"]
      <3> SUFFICES ASSUME key = "posts" PROVE fk["account"] = row.fk["account"]
        OBVIOUS
      <3>1. "account" \in DOMAIN fk /\ Kinds[key].fk["account"].missing = "raise"
        BY <2>2, KindFacts
      <3>2. row.fk["account"] \in DOMAIN d.rows
        BY <2>1, <2>2, <3>1 DEF FkOK, RowsOf
      <3>3. row.fk["account"] # None
        BY <3>2, ContentsAssumption DEF Sound, RowsOK, ContentsAssumption
      <3> QED
        BY <3>1, <3>3 DEF First
    <2> HIDE DEF fk, row
    <2> QED
      BY <2>2, <2>3, <2>4 DEF FkOK
  <1>7. e.rows = Put(d.rows, id, Row(key, keep, ids, fk, row.into, row.count))
        /\ e.arch = Put(d.arch, aid, record)
    <2> HIDE DEF keep, ids, fk, record, aid
    <2>1. e = [rows |-> Put(d.rows, id, StoredRow(st, row)), arch |-> Put(d.arch, aid, record),
               tags |-> d.tags]
      BY <1>1, ExecIs
    <2>2. StoredRow(st, row) = Row(key, keep, ids, fk, row.into, row.count)
      BY <1>1, <1>2 DEF StoredRow
    <2> QED
      BY <2>1, <2>2
  <1> HIDE DEF e, fk, ids
  <1>8. key = "media" => rec.val \in Nat \cup {None}
    <2> SUFFICES ASSUME key = "media" PROVE rec.val \in Nat \cup {None}
      OBVIOUS
    <2>1. o.rec.val \in Nat \cup {None}
      BY DEF HitOK
    <2>2. CASE prior # {}
      <3>1. d.arch[aid].rec.val \in Nat \cup {None}
        BY <1>3, <1>4, <2>2 DEF Sound, SizesOK
      <3>2. rec.val \in {o.rec.val, d.arch[aid].rec.val}
        BY <2>2 DEF Reconcile, ReconcileMedia, First
      <3> QED
        BY <2>1, <3>1, <3>2
    <2>3. CASE prior = {}
      BY <2>1, <2>3
    <2> QED
      BY <2>2, <2>3
  <1>9. /\ DOMAIN recs = ArchOf(d, id) /\ DOMAIN recs \subseteq Nat /\ IsFiniteSet(DOMAIN recs)
        /\ SizesKnown(key, recs)
        /\ \A a \in DOMAIN recs : recs[a] = IF a = aid THEN rec ELSE d.arch[a].rec
    <2>1. ArchOf(d, id) \subseteq Nat /\ IsFiniteSet(ArchOf(d, id))
      <3>1. ArchOf(d, id) \subseteq DOMAIN d.arch /\ IsFiniteSet(DOMAIN d.arch)
        BY DEF ArchOf, Sound, ArchOK
      <3> QED
        BY <1>3, <3>1, FS_Subset
    <2> HIDE DEF rec, aid
    <2>2. SizesKnown(key, recs)
      BY <1>3, <1>8 DEF SizesKnown, Sound, SizesOK
    <2> QED
      BY <2>1, <2>2
  <1>10. prior # {} => /\ ValueOf(key, recs, DOMAIN recs, derived.val)
                       /\ IdentityOf(recs, DOMAIN recs, derived)
    <2> HIDE DEF recs, rec, aid, prior
    <2> SUFFICES ASSUME prior # {}
                 PROVE  ValueOf(key, recs, DOMAIN recs, derived.val) /\ IdentityOf(recs, DOMAIN recs, derived)
      OBVIOUS
    <2>1. derived = SynthesizeFromArchives(key, ordered)
      OBVIOUS
    <2>2. DOMAIN recs # {}
      BY <1>4, <1>9
    <2>3. Cardinality(DOMAIN recs) \in Nat
      BY <1>9, FS_CardinalityType
    <2>4. ordered = [n \in DOMAIN order |-> recs[order[n]]]
      <3>1. \A n \in DOMAIN order : order[n] \in DOMAIN recs
        BY <1>9 DEF Orders
      <3> QED
        BY <1>9, <3>1
    <2> HIDE DEF derived, ordered
    <2> QED
      BY <1>9, <2>1, <2>2, <2>3, <2>4, InAnyOrder
  <1>11. key \in {"accounts", "posts"} =>
            /\ keep.plat = row.rec.plat /\ rec.plat = row.rec.plat
            /\ row.rec.pk # None => keep.pk = row.rec.pk
            /\ rec.pk # None => keep.pk = rec.pk
    <2> SUFFICES ASSUME key \in {"accounts", "posts"}
                 PROVE  /\ keep.plat = row.rec.plat /\ rec.plat = row.rec.plat
                        /\ row.rec.pk # None => keep.pk = row.rec.pk
                        /\ rec.pk # None => keep.pk = rec.pk
      OBVIOUS
    <2>1. /\ o.rec.plat = row.rec.plat
          /\ o.rec.pk = None \/ row.rec.pk = None \/ o.rec.pk = row.rec.pk
      BY DEF HitOK
    <2>2. keep.plat = derived.plat /\ keep.pk = First(row.rec.pk, derived.pk)
      BY DEF PreserveIdentifiers
    <2>3. \A a \in ArchOf(d, id) : /\ d.arch[a].rec.plat = row.rec.plat
                                   /\ d.arch[a].rec.pk # None => d.arch[a].rec.pk = row.rec.pk
      BY <1>3 DEF Sound, OneIdentity
    <2>4. CASE prior # {}
      <3>1. rec.plat = d.arch[aid].rec.plat /\ rec.pk = First(d.arch[aid].rec.pk, o.rec.pk)
        BY <2>4 DEF Reconcile, ReconcileFields, ReconcileMedia
      <3>2. aid \in ArchOf(d, id)
        BY <1>4, <2>4
      <3> HIDE DEF rec, aid, keep
      <3>3. \A a \in DOMAIN recs : /\ recs[a].plat = row.rec.plat
                                   /\ recs[a].pk # None => recs[a].pk = row.rec.pk \/ recs[a].pk = rec.pk
        BY <1>9, <2>1, <2>3, <3>1, <3>2
      <3>4. recs[aid] = rec /\ aid \in DOMAIN recs
        BY <1>9, <3>2
      <3>5. /\ derived.plat = row.rec.plat
            /\ derived.pk = None => rec.pk = None
            /\ row.rec.pk = None /\ derived.pk # None => derived.pk = rec.pk
        <4> HIDE DEF recs, derived
        <4> QED
          BY <1>10, <2>4, <3>3, <3>4 DEF IdentityOf
      <3>6. rec.plat = row.rec.plat /\ (row.rec.pk # None /\ rec.pk # None => rec.pk = row.rec.pk)
        BY <2>1, <2>3, <3>1, <3>2 DEF First
      <3> HIDE DEF derived
      <3> QED
        BY <2>2, <3>5, <3>6 DEF First
    <2>5. CASE prior = {}
      <3>1. rec = o.rec
        BY <2>5
      <3>2. derived.plat = o.rec.plat /\ derived.pk = First(o.rec.pk, row.rec.pk)
        BY <2>5 DEF Reconcile, ReconcileFields, ReconcileMedia
      <3> HIDE DEF derived, keep, rec
      <3> QED
        BY <2>1, <2>2, <3>1, <3>2 DEF First
    <2> QED
      BY <2>4, <2>5
  <1>12. Untouched(merges, id) => Synthesis(e, id)
    <2> SUFFICES ASSUME Untouched(merges, id) PROVE Synthesis(e, id)
      OBVIOUS
    <2>1. e.rows[id].kind = key /\ e.rows[id].rec = keep
      <3> HIDE DEF keep
      <3> QED
        BY <1>7 DEF Put, Row
    <2>2. keep.val = derived.val
      BY DEF PreserveIdentifiers
    <2>3. /\ DOMAIN e.arch = DOMAIN d.arch \cup {aid} /\ e.arch[aid].row = id /\ e.arch[aid].rec = rec
          /\ \A a \in DOMAIN d.arch : a # aid => e.arch[a] = d.arch[a]
      <3> HIDE DEF rec, aid
      <3> QED
        BY <1>7 DEF Put, Observed
    <2> HIDE DEF keep, rec, prior
    <2>4. /\ ArchOf(e, id) = ArchOf(d, id) \cup {aid}
          /\ \A a \in ArchOf(e, id) : RecsOf(e, id)[a] = IF a = aid THEN rec ELSE d.arch[a].rec
      <3> HIDE DEF aid
      <3>1. ArchOf(e, id) = ArchOf(d, id) \cup {aid}
        BY <2>3 DEF ArchOf
      <3>2. \A a \in ArchOf(e, id) : RecsOf(e, id)[a] = e.arch[a].rec
        BY DEF RecsOf
      <3>3. ArchOf(d, id) \subseteq DOMAIN d.arch
        BY DEF ArchOf
      <3> QED
        BY <2>3, <3>1, <3>2, <3>3
    <2>5. DOMAIN RecsOf(e, id) = ArchOf(e, id)
      BY DEF RecsOf
    <2>6. ValueOf(key, RecsOf(e, id), ArchOf(e, id), derived.val)
      <3>1. CASE prior # {}
        <4>1. RecsOf(e, id) = recs
          <5> HIDE DEF aid
          <5>1. ArchOf(e, id) = ArchOf(d, id)
            BY <1>4, <2>4, <3>1
          <5>2. RecsOf(e, id) = [a \in ArchOf(e, id) |-> e.arch[a].rec]
            BY DEF RecsOf
          <5>3. \A a \in ArchOf(e, id) : e.arch[a].rec = IF a = aid THEN rec ELSE d.arch[a].rec
            BY <2>4, <5>2
          <5> QED
            BY <5>1, <5>2, <5>3
        <4> HIDE DEF recs, derived
        <4> QED
          BY <1>10, <2>5, <3>1, <4>1
      <3>2. CASE prior = {}
        <4> HIDE DEF aid
        <4> DEFINE now == RecsOf(e, id)
        <4>1. derived = Reconcile(key, row.rec, now[aid])
          BY <2>4, <3>2
        <4>2. ValueOf(key, RecsOf(d, id), ArchOf(d, id), row.rec.val)
          BY <1>2, SynthesisIsValueOf DEF Sound
        <4>3. \A a \in ArchOf(d, id) : RecsOf(d, id)[a] = d.arch[a].rec /\ a # aid
          BY <1>3, <1>5, <3>2 DEF RecsOf
        <4>4. ValueOf(key, now, ArchOf(d, id), row.rec.val)
          <5>1. \A a \in ArchOf(d, id) : now[a] = RecsOf(d, id)[a]
            BY <2>4, <4>3
          <5>2. {a \in ArchOf(d, id) : now[a].val # None} = {a \in ArchOf(d, id) : RecsOf(d, id)[a].val # None}
            BY <5>1
          <5> HIDE DEF now, row
          <5> QED
            BY <4>2, <5>1, <5>2 DEF ValueOf
        <4>5. SizesKnown(key, now)
          <5> SUFFICES ASSUME key = "media", NEW a \in ArchOf(e, id) PROVE now[a].val \in Nat \cup {None}
            BY <2>5 DEF SizesKnown
          <5> QED
            BY <1>3, <1>8, <2>4 DEF Sound, SizesOK
        <4>6. DOMAIN now = ArchOf(d, id) \cup {aid}
          BY <2>4, <2>5
        <4> HIDE DEF now, row
        <4>7. ValueOf(key, now, ArchOf(d, id) \cup {aid}, Reconcile(key, row.rec, now[aid]).val)
          BY <4>4, <4>5, <4>6, RecordPrevails
        <4> QED
          BY <2>4, <4>1, <4>7 DEF now
      <3> QED
        BY <3>1, <3>2
    <2> HIDE DEF derived
    <2> QED
      BY <2>1, <2>2, <2>6, SynthesisIsValueOf
  <1>13. aid \in Nat /\ (aid \in DOMAIN d.arch => aid \in ArchOf(d, id) /\ d.arch[aid].session = s)
    BY <1>3, <1>4, <1>5
  <1>14. Sound(e, s, merges)
    <2> HIDE DEF keep, rec, aid
    <2> QED
      BY <1>2, <1>6, <1>7, <1>8, <1>11, <1>12, <1>13, StoreKeeps
  <1>15. e.rows[id].fk = fk
    <2> HIDE DEF keep
    <2> QED
      BY <1>7 DEF Put, Row
  <1>16. record.row = id /\ record.session = s
    BY DEF Observed
  <1>17. aid \in DOMAIN d.arch => d.arch[aid].row = id /\ d.arch[aid].session = s
    BY <1>3, <1>13
  <1>18. key = "accounts" => row.ids \subseteq ids
    BY DEF ids
  <1> HIDE DEF keep, rec, aid, record
  <1> QED
    BY <1>1, <1>6, <1>14, <1>15, <1>16, <1>17, <1>18 DEF e

-----------------------------------------------------------------------------
(* What an account number shows                                            *)

\* What an account shows but for its tags.
Face(d, a) ==
    d.rows[a].ids \cup {<<"session", d.arch[y].session>> : y \in ArchOf(d, a)}
        \cup {<<"post", p>> : p \in PostsOf(d, a)}

LEMMA ShownIs ==
    ASSUME NEW d, RowsOK(d), Inert(d), NEW i \in DOMAIN d.rows, NEW y
    PROVE  y \in Shown(d, i) <=>
              \/ y \in Face(d, Target(d, i))
              \/ \E t \in TagNames : y = <<"tag", t>> /\ <<Target(d, i), t>> \in d.tags
  <1> DEFINE a == Target(d, i)
             Tags1 == {<<"tag", t>> : t \in {u \in TagNames : <<a, u>> \in d.tags}}
  <1>1. Resolve(d, i) = a
    BY ResolveIsTarget DEF RowsOK
  <1> HIDE DEF a
  <1>2. Shown(d, i) = Face(d, a) \cup Tags1
    BY <1>1 DEF Shown, Face
  <1>3. y \in Tags1 <=> \E t \in TagNames : y = <<"tag", t>> /\ <<a, t>> \in d.tags
    OBVIOUS
  <1> HIDE DEF Tags1
  <1> QED
    BY <1>2, <1>3 DEF a

LEMMA ShownGrows ==
    ASSUME NEW d, RowsOK(d), Inert(d), NEW e, RowsOK(e), Inert(e),
           NEW i \in DOMAIN d.rows, i \in DOMAIN e.rows,
           NEW a, a = Target(d, i), NEW b, b = Target(e, i),
           d.rows[a].ids \subseteq e.rows[b].ids,
           \A x \in ArchOf(d, a) : \E y \in ArchOf(e, b) : e.arch[y].session = d.arch[x].session,
           PostsOf(d, a) \subseteq PostsOf(e, b),
           \A t \in TagNames : <<a, t>> \in d.tags => <<b, t>> \in e.tags
    PROVE  Shown(d, i) \subseteq Shown(e, i)
  <1>1. Resolve(d, i) = a /\ Resolve(e, i) = b
    BY ResolveIsTarget DEF RowsOK
  <1> DEFINE Sessions1(f, x) == {<<"session", f.arch[y].session>> : y \in ArchOf(f, x)}
             Posts1(f, x) == {<<"post", p>> : p \in PostsOf(f, x)}
             Tags1(f, x) == {<<"tag", t>> : t \in {u \in TagNames : <<x, u>> \in f.tags}}
  <1>2. /\ Shown(d, i) = d.rows[a].ids \cup Sessions1(d, a) \cup Posts1(d, a) \cup Tags1(d, a)
        /\ Shown(e, i) = e.rows[b].ids \cup Sessions1(e, b) \cup Posts1(e, b) \cup Tags1(e, b)
    BY <1>1 DEF Shown
  <1>3. Sessions1(d, a) \subseteq Sessions1(e, b)
    OBVIOUS
  <1>4. Posts1(d, a) \subseteq Posts1(e, b)
    OBVIOUS
  <1>5. Tags1(d, a) \subseteq Tags1(e, b)
    OBVIOUS
  <1> HIDE DEF Sessions1, Posts1, Tags1
  <1> QED
    BY <1>2, <1>3, <1>4, <1>5

\* Every account number is still there, shows what it showed, and leads where it led
\* unless that row is redirected; what was redirected stays so.
Grows(d, e) ==
    /\ RowsOf(d, "accounts") \subseteq RowsOf(e, "accounts")
    /\ \A i \in RowsOf(d, "accounts") :
          /\ Shown(d, i) \subseteq Shown(e, i)
          /\ Live(e, i) => Live(d, i)
          /\ \A a \in RowsOf(d, "accounts") : a = Target(d, i) /\ Live(e, a) => a = Target(e, i)

LEMMA GrowsOn ==
    ASSUME NEW d, NEW e, NEW f, Grows(d, e), Grows(e, f)
    PROVE  Grows(d, f)
  BY DEF Grows

\* A statement that redirects no row and takes nothing away.
LEMMA AdditionGrows ==
    ASSUME NEW d, RowsOK(d), Inert(d), NEW e, RowsOK(e), Inert(e),
           \A i \in DOMAIN d.rows : /\ i \in DOMAIN e.rows
                                    /\ e.rows[i].kind = d.rows[i].kind /\ e.rows[i].into = d.rows[i].into
                                    /\ d.rows[i].kind = "accounts" => d.rows[i].ids \subseteq e.rows[i].ids
                                    /\ d.rows[i].kind = "posts" =>
                                          e.rows[i].fk["account"] = d.rows[i].fk["account"],
           \A x \in DOMAIN d.arch : /\ x \in DOMAIN e.arch
                                    /\ e.arch[x].row = d.arch[x].row /\ e.arch[x].session = d.arch[x].session,
           d.tags \subseteq e.tags
    PROVE  Grows(d, e)
  <1>1. RowsOf(d, "accounts") \subseteq RowsOf(e, "accounts")
    BY DEF RowsOf
  <1>2. ASSUME NEW i \in RowsOf(d, "accounts")
        PROVE  Shown(d, i) \subseteq Shown(e, i)
    <2> DEFINE a == Target(d, i)
    <2>1. i \in DOMAIN d.rows /\ i \in DOMAIN e.rows
      BY DEF RowsOf
    <2>2. a = Target(e, i)
      BY <2>1 DEF Target, Live
    <2>3. a \in DOMAIN d.rows /\ d.rows[a].kind = "accounts"
      BY <2>1 DEF Target, Inert, RowsOf
    <2> HIDE DEF a
    <2>4. d.rows[a].ids \subseteq e.rows[a].ids
      BY <2>3
    <2>5. \A x \in ArchOf(d, a) : \E y \in ArchOf(e, a) : e.arch[y].session = d.arch[x].session
      BY DEF ArchOf
    <2>6. PostsOf(d, a) \subseteq PostsOf(e, a)
      BY DEF PostsOf, RowsOf
    <2>7. \A t \in TagNames : <<a, t>> \in d.tags => <<a, t>> \in e.tags
      OBVIOUS
    <2> QED
      BY <2>1, <2>2, <2>4, <2>5, <2>6, <2>7, ShownGrows DEF a
  <1>3. \A i \in RowsOf(d, "accounts") : (Live(e, i) <=> Live(d, i)) /\ Target(e, i) = Target(d, i)
    BY DEF RowsOf, Live, Target
  <1> QED
    BY <1>1, <1>2, <1>3 DEF Grows

\* A merge redirects one row and moves what it had.
LEMMA MergeGrows ==
    ASSUME NEW d, NEW s, NEW merges, Sound(d, s, merges),
           NEW keeper \in RowsOf(d, "accounts"), NEW gone \in RowsOf(d, "accounts"),
           d.rows[keeper].rec.plat = d.rows[gone].rec.plat, ~MergeRefused(d, keeper, gone),
           NEW st, st = MergeAccountInto(d, keeper, gone), Sound(Exec(st, d), s, merges \cup {<<keeper, gone>>})
    PROVE  Grows(d, Exec(st, d))
  <1> DEFINE e == Exec(st, d)
             Rep(x) == IF x = gone THEN keeper ELSE x
  <1>1. /\ st.op = "merge" /\ st.keeper = keeper /\ st.gone = gone
        /\ st.tags = {t \in TagNames : <<gone, t>> \in d.tags}
        /\ st.moved \subseteq ArchOf(d, gone) /\ st.dropped = ArchOf(d, gone) \ st.moved
        /\ \A x \in ArchOf(d, gone) \ st.moved :
              \E y \in ArchOf(d, keeper) : d.arch[y].session = d.arch[x].session
        /\ d.rows[keeper].ids \cup d.rows[gone].ids \subseteq st.ids
    BY MergeWrites
  <1>2. /\ keeper # gone /\ Live(d, keeper) /\ Live(d, gone)
        /\ keeper \in DOMAIN d.rows /\ gone \in DOMAIN d.rows
        /\ gone # None /\ keeper # None /\ d.rows[gone].kind = "accounts" /\ d.rows[keeper].kind = "accounts"
    BY ContentsAssumption DEF MergeRefused, Live, RowsOf, Sound, RowsOK, ContentsAssumption
  <1>3. e = [rows |-> [i \in DOMAIN d.rows |-> MergedRow(st, d, i)],
             arch |-> MovedArch(st, d.arch), tags |-> MovedTags(st, d.tags)]
    BY <1>1, ExecIs
  <1> HIDE DEF e
  <1>4. DOMAIN e.rows = DOMAIN d.rows /\ \A i \in DOMAIN d.rows : e.rows[i] = MergedRow(st, d, i)
    BY <1>3
  <1>5. e.rows[gone].kind = d.rows[gone].kind /\ e.rows[gone].into = keeper
    <2> DEFINE m == d.rows[gone]
    <2>1. e.rows[gone] = Tombstone(m, keeper)
      BY <1>1, <1>2, <1>4 DEF MergedRow
    <2> HIDE DEF m
    <2>2. e.rows[gone].kind = m.kind /\ e.rows[gone].into = keeper
      BY <2>1 DEF Tombstone, Row
    <2> QED
      BY <2>2 DEF m
  <1>6. /\ e.rows[keeper].kind = d.rows[keeper].kind /\ e.rows[keeper].into = None
        /\ e.rows[keeper].ids = st.ids
    <2>1. e.rows[keeper] = Row(d.rows[keeper].kind, st.rec, st.ids, d.rows[keeper].fk,
                               Repoint(st, d.rows[keeper].into), Cardinality(RepointedPosts(st, d)))
      BY <1>1, <1>2, <1>4 DEF MergedRow
    <2>2. Repoint(st, d.rows[keeper].into) = None
      BY <1>1, <1>2 DEF Repoint, Live
    <2> QED
      BY <2>1, <2>2 DEF Row
  <1>7. ASSUME NEW i \in DOMAIN d.rows, i # keeper, i # gone
        PROVE  /\ e.rows[i].kind = d.rows[i].kind /\ e.rows[i].into = Rep(d.rows[i].into)
               /\ e.rows[i].ids = d.rows[i].ids
               /\ "account" \in DOMAIN d.rows[i].fk =>
                     e.rows[i].fk["account"] = Rep(d.rows[i].fk["account"])
    <2> DEFINE r == d.rows[i]
               fk == [role \in DOMAIN r.fk |-> IF role \in AccountRoles THEN Repoint(st, r.fk[role])
                                               ELSE r.fk[role]]
    <2>1. e.rows[i] = Row(r.kind, r.rec, r.ids, fk, Repoint(st, r.into), r.count)
      BY <1>1, <1>4, <1>7 DEF MergedRow
    <2>2. "account" \in DOMAIN r.fk => fk["account"] = Rep(r.fk["account"])
      BY <1>1, KindFacts DEF Repoint
    <2>3. Repoint(st, r.into) = Rep(r.into)
      BY <1>1 DEF Repoint
    <2> HIDE DEF fk, r
    <2>4. /\ e.rows[i].kind = r.kind /\ e.rows[i].ids = r.ids /\ e.rows[i].fk = fk
          /\ e.rows[i].into = Rep(r.into)
      BY <2>1, <2>3 DEF Row
    <2> QED
      BY <2>2, <2>4 DEF r
  <1>8. \A key : RowsOf(e, key) = RowsOf(d, key)
    BY <1>4, <1>5, <1>6, <1>7 DEF RowsOf
  <1>9. ASSUME NEW i \in RowsOf(d, "accounts")
        PROVE  /\ Shown(d, i) \subseteq Shown(e, i)
               /\ Live(e, i) => Live(d, i)
               /\ \A x \in RowsOf(d, "accounts") : x = Target(d, i) /\ Live(e, x) => x = Target(e, i)
    <2> DEFINE a == Target(d, i)
               b == Rep(a)
    <2>1. i \in DOMAIN d.rows
      BY DEF RowsOf
    <2>2. a \in DOMAIN d.rows /\ d.rows[a].kind = "accounts" /\ Live(d, a)
      BY <2>1 DEF Target, Sound, Inert, RowsOf
    <2>3. b = Target(e, i)
      <3>1. CASE i = gone
        BY <1>2, <1>5, <3>1 DEF Target, Live
      <3>2. CASE i = keeper
        BY <1>2, <1>6, <3>2 DEF Target, Live
      <3>3. CASE i # gone /\ i # keeper
        BY <1>2, <1>7, <2>1, <3>3 DEF Target, Live
      <3> QED
        BY <3>1, <3>2, <3>3
    <2>8. Live(e, i) => Live(d, i)
      <3>1. CASE i = gone \/ i = keeper
        BY <1>2, <3>1
      <3>2. CASE i # gone /\ i # keeper
        BY <1>2, <1>7, <2>1, <3>2 DEF Live
      <3> QED
        BY <3>1, <3>2
    <2>9. Live(e, a) => a = Target(e, i)
      BY <1>2, <1>5, <2>3 DEF Live
    <2>10. \A x \in RowsOf(d, "accounts") : x = Target(d, i) /\ Live(e, x) => x = Target(e, i)
      BY <2>9
    <2> HIDE DEF a
    <2>4. d.rows[a].ids \subseteq e.rows[b].ids
      BY <1>1, <1>6, <1>7, <2>2
    <2>5. \A x \in ArchOf(d, a) : \E y \in ArchOf(e, b) : e.arch[y].session = d.arch[x].session
      <3>1. /\ DOMAIN e.arch = DOMAIN d.arch \ st.dropped
            /\ \A y \in DOMAIN e.arch :
                  /\ e.arch[y].session = d.arch[y].session
                  /\ e.arch[y].row = IF y \in st.moved THEN keeper ELSE d.arch[y].row
        <4>1. DOMAIN e.arch = DOMAIN d.arch \ st.dropped
          BY <1>3 DEF MovedArch
        <4>2. ASSUME NEW y \in DOMAIN e.arch
              PROVE  /\ e.arch[y].session = d.arch[y].session
                     /\ e.arch[y].row = IF y \in st.moved THEN keeper ELSE d.arch[y].row
          <5> DEFINE row == IF y \in st.moved THEN st.keeper ELSE d.arch[y].row
                     rec == IF y \in DOMAIN st.filled THEN st.filled[y] ELSE d.arch[y].rec
          <5>1. e.arch[y] = Observed(d.arch[y].kind, d.arch[y].session, row, rec)
            BY <1>3, <4>1 DEF MovedArch
          <5> HIDE DEF row, rec
          <5>2. e.arch[y].session = d.arch[y].session /\ e.arch[y].row = row
            BY <5>1 DEF Observed
          <5> QED
            BY <1>1, <5>2 DEF row
        <4> QED
          BY <4>1, <4>2
      <3>2. ASSUME NEW y \in ArchOf(d, keeper) PROVE y \in ArchOf(e, keeper) /\ e.arch[y].session = d.arch[y].session
        BY <1>1, <1>2, <3>1 DEF ArchOf
      <3>3. ASSUME NEW x \in ArchOf(d, a)
            PROVE  \E y \in ArchOf(e, b) : e.arch[y].session = d.arch[x].session
        <4>1. CASE a # gone
          <5>1. x \in ArchOf(e, a) /\ e.arch[x].session = d.arch[x].session
            BY <1>1, <3>1, <4>1 DEF ArchOf
          <5> QED
            BY <4>1, <5>1
        <4>2. CASE a = gone /\ x \in st.moved
          <5>1. x \in ArchOf(e, keeper) /\ e.arch[x].session = d.arch[x].session
            BY <1>1, <3>1, <4>2 DEF ArchOf
          <5> QED
            BY <4>2, <5>1
        <4>3. CASE a = gone /\ x \notin st.moved
          <5>1. PICK y \in ArchOf(d, keeper) : d.arch[y].session = d.arch[x].session
            BY <1>1, <4>3
          <5> QED
            BY <3>2, <4>3, <5>1
        <4> QED
          BY <4>1, <4>2, <4>3
      <3> QED
        BY <3>3
    <2>6. PostsOf(d, a) \subseteq PostsOf(e, b)
      <3> SUFFICES ASSUME NEW p \in RowsOf(d, "posts"), d.rows[p].fk["account"] = a
                   PROVE  p \in RowsOf(e, "posts") /\ e.rows[p].fk["account"] = b
        BY DEF PostsOf
      <3>1. p \in DOMAIN d.rows /\ d.rows[p].kind = "posts" /\ "account" \in DOMAIN d.rows[p].fk
        BY KindFacts DEF RowsOf, Sound, RowsOK
      <3> QED
        BY <1>2, <1>7, <1>8, <3>1
    <2>7. ASSUME NEW t \in TagNames, <<a, t>> \in d.tags PROVE <<b, t>> \in e.tags
      <3>1. e.tags = MovedTags(st, d.tags)
        BY <1>3
      <3>2. CASE a = gone
        BY <1>1, <2>7, <3>1, <3>2 DEF MovedTags
      <3>3. CASE a # gone
        BY <1>1, <2>7, <3>1, <3>3 DEF MovedTags
      <3> QED
        BY <3>2, <3>3
    <2> HIDE DEF b
    <2>11. Shown(d, i) \subseteq Shown(e, i)
      BY <1>4, <2>1, <2>3, <2>4, <2>5, <2>6, <2>7, ShownGrows DEF Sound, e, a
    <2> QED
      BY <2>8, <2>10, <2>11
  <1> QED
    BY <1>8, <1>9 DEF Grows, e

LEMMA InsertGrows ==
    ASSUME NEW d, NEW s, NEW merges, Sound(d, s, merges), NEW st, st.op = "insert",
           st.id \notin DOMAIN d.rows, st.aid \notin DOMAIN d.arch, NEW e, e = Exec(st, d), Sound(e, s, merges)
    PROVE  /\ Grows(d, e)
           /\ \A i \in DOMAIN d.rows : i \in DOMAIN e.rows /\ e.rows[i] = d.rows[i]
  <1>1. e = [rows |-> Put(d.rows, st.id, st.row), arch |-> Put(d.arch, st.aid, st.record), tags |-> d.tags]
    BY ExecIs
  <1>2. \A i \in DOMAIN d.rows : i \in DOMAIN e.rows /\ e.rows[i] = d.rows[i]
    BY <1>1 DEF Put
  <1>3. \A x \in DOMAIN d.arch : x \in DOMAIN e.arch /\ e.arch[x] = d.arch[x]
    BY <1>1 DEF Put
  <1>4. e.tags = d.tags
    BY <1>1
  <1>5. Grows(d, e)
    BY <1>2, <1>3, <1>4, AdditionGrows DEF Sound
  <1> QED
    BY <1>2, <1>5

LEMMA StoreGrows ==
    ASSUME NEW d, NEW s, NEW merges, Sound(d, s, merges), NEW key, NEW id, NEW o, HitOK(d, key, id, o),
           NEW st, st.op = "store", st.id = id, st.record.row = id, st.record.session = s,
           st.aid \in DOMAIN d.arch => d.arch[st.aid].row = id /\ d.arch[st.aid].session = s,
           key = "posts" => st.fk["account"] = d.rows[id].fk["account"],
           key = "accounts" => d.rows[id].ids \subseteq st.ids,
           NEW e, e = Exec(st, d), Sound(e, s, merges)
    PROVE  /\ Grows(d, e)
           /\ DOMAIN e.rows = DOMAIN d.rows
           /\ \A i \in DOMAIN d.rows : i # id => e.rows[i] = d.rows[i]
  <1> DEFINE row == StoredRow(st, d.rows[id])
  <1>1. e = [rows |-> Put(d.rows, id, row), arch |-> Put(d.arch, st.aid, st.record), tags |-> d.tags]
    BY ExecIs
  <1>2. id \in DOMAIN d.rows /\ d.rows[id].kind = key
    BY DEF HitOK, RowsOf
  <1>3. row.kind = d.rows[id].kind /\ row.into = d.rows[id].into /\ row.ids = st.ids /\ row.fk = st.fk
    BY DEF StoredRow, Row
  <1> HIDE DEF row
  <1>4. /\ DOMAIN e.rows = DOMAIN d.rows /\ e.rows[id] = row
        /\ \A i \in DOMAIN d.rows : i # id => e.rows[i] = d.rows[i]
    BY <1>1, <1>2 DEF Put
  <1>5. \A x \in DOMAIN d.arch : /\ x \in DOMAIN e.arch
                                 /\ e.arch[x].row = d.arch[x].row /\ e.arch[x].session = d.arch[x].session
    BY <1>1 DEF Put
  <1>6. e.tags = d.tags
    BY <1>1
  <1>7. \A i \in DOMAIN d.rows : /\ i \in DOMAIN e.rows
                                 /\ e.rows[i].kind = d.rows[i].kind /\ e.rows[i].into = d.rows[i].into
                                 /\ d.rows[i].kind = "accounts" => d.rows[i].ids \subseteq e.rows[i].ids
                                 /\ d.rows[i].kind = "posts" =>
                                       e.rows[i].fk["account"] = d.rows[i].fk["account"]
    BY <1>2, <1>3, <1>4
  <1>8. Grows(d, e)
    BY <1>5, <1>6, <1>7, AdditionGrows DEF Sound
  <1> QED
    BY <1>4, <1>8

LEMMA RecountGrows ==
    ASSUME NEW d, NEW s, NEW merges, Sound(d, s, merges), NEW st, st.op = "recount", st.session = s, NEW e, e = Exec(st, d)
    PROVE  /\ Grows(d, e) /\ Sound(e, s, merges)
           /\ \A i \in RowsOf(e, "accounts") : Counted(e, i)
  <1> DEFINE touched == {d.rows[d.arch[a].row].fk.account :
                    a \in {b \in DOMAIN d.arch : /\ d.arch[b].session = st.session
                                                 /\ d.arch[b].kind = "posts"}}
  <1>1. e = [rows |-> Recounted(st, d), arch |-> d.arch, tags |-> d.tags]
    BY ExecIs
  <1>2. Sound(e, s, merges) /\ \A i \in RowsOf(e, "accounts") : Counted(e, i)
    BY <1>1, RecountKeeps
  <1>3. /\ DOMAIN e.rows = DOMAIN d.rows
        /\ \A i \in DOMAIN d.rows :
              e.rows[i] = IF i \in touched
                          THEN Row(d.rows[i].kind, d.rows[i].rec, d.rows[i].ids, d.rows[i].fk,
                                   d.rows[i].into, Cardinality(PostsOf(d, i)))
                          ELSE d.rows[i]
    BY <1>1 DEF Recounted
  <1> HIDE DEF touched
  <1>4. ASSUME NEW i \in DOMAIN d.rows
        PROVE  /\ e.rows[i].kind = d.rows[i].kind /\ e.rows[i].ids = d.rows[i].ids
               /\ e.rows[i].fk = d.rows[i].fk /\ e.rows[i].into = d.rows[i].into
    <2>1. CASE i \in touched
      <3> DEFINE r == d.rows[i]
                 n == Cardinality(PostsOf(d, i))
      <3>1. e.rows[i] = Row(r.kind, r.rec, r.ids, r.fk, r.into, n)
        BY <1>3, <2>1
      <3> HIDE DEF r, n
      <3>2. /\ e.rows[i].kind = r.kind /\ e.rows[i].ids = r.ids
            /\ e.rows[i].fk = r.fk /\ e.rows[i].into = r.into
        BY <3>1 DEF Row
      <3> QED
        BY <3>2 DEF r
    <2>2. CASE i \notin touched
      BY <1>3, <2>2
    <2> QED
      BY <2>1, <2>2
  <1>5. e.arch = d.arch /\ e.tags = d.tags
    BY <1>1
  <1>6. Grows(d, e)
    BY <1>2, <1>3, <1>4, <1>5, AdditionGrows DEF Sound
  <1> QED
    BY <1>2, <1>6

-----------------------------------------------------------------------------
(* The replay of a transaction                                             *)

Ops == {"insert", "store", "merge", "recount"}

\* A statement reads no tag of the tables it is executed on, and takes away none that is added.
LEMMA ExecTags ==
    ASSUME NEW st, st.op \in Ops, NEW d, NEW e, e.rows = d.rows, e.arch = d.arch, d.tags \subseteq e.tags
    PROVE  /\ Exec(st, e) = [rows |-> Exec(st, d).rows, arch |-> Exec(st, d).arch, tags |-> Exec(st, e).tags]
           /\ Exec(st, d).tags \subseteq Exec(st, e).tags
  <1>1. CASE st.op = "insert" \/ st.op = "store"
    BY <1>1, ExecIs
  <1>2. CASE st.op = "merge"
    <2>1. \A i : MergedRow(st, e, i) = MergedRow(st, d, i)
      <3>1. RepointedPosts(st, e) = RepointedPosts(st, d)
        BY DEF RepointedPosts, RowsOf
      <3> QED
        BY <3>1 DEF MergedRow
    <2>2. [i \in DOMAIN e.rows |-> MergedRow(st, e, i)] = [i \in DOMAIN d.rows |-> MergedRow(st, d, i)]
      BY <2>1
    <2>3. MovedTags(st, d.tags) \subseteq MovedTags(st, e.tags)
      BY DEF MovedTags
    <2> QED
      BY <1>2, <2>2, <2>3, ExecIs
  <1>3. CASE st.op = "recount"
    <2>1. Recounted(st, e) = Recounted(st, d)
      <3>1. \A i : PostsOf(e, i) = PostsOf(d, i)
        BY DEF PostsOf, RowsOf
      <3> QED
        BY <3>1 DEF Recounted
    <2> QED
      BY <1>3, <2>1, ExecIs
  <1> QED
    BY <1>1, <1>2, <1>3 DEF Ops

Typed(tags, d) == tags \subseteq RowsOf(d, "accounts") \X TagNames

\* On the tables d with any tags beside those that were read, the statements write the rows
\* and records of the transaction's view.
Replayed(d, read, out, view) ==
    /\ \E T : out \in Seq(T)
    /\ RowsOf(d, "accounts") \subseteq RowsOf(view, "accounts")
    /\ \A tags : read \subseteq tags =>
          LET r == Replay(out, [rows |-> d.rows, arch |-> d.arch, tags |-> tags]) IN
          /\ r = [rows |-> view.rows, arch |-> view.arch, tags |-> r.tags]
          /\ view.tags \subseteq r.tags
          /\ Typed(tags, d) => Typed(r.tags, view)
          /\ \A u \in tags : u[1] \in RowsOf(d, "accounts") /\ Live(view, u[1]) => u \in r.tags

LEMMA ReplayedNone ==
    ASSUME NEW d
    PROVE  Replayed(d, d.tags, <<>>, d)
  <1>1. <<>> \in Seq({})
    OBVIOUS
  <1>2. \A x : Replay(<<>>, x) = x
    BY ReplayNothing
  <1> QED
    BY <1>1, <1>2 DEF Replayed

LEMMA ReplayedOn ==
    ASSUME NEW d, NEW read, NEW out, NEW view, Replayed(d, read, out, view),
           NEW st, st.op \in Ops,
           st.op = "merge" => /\ st.keeper \in RowsOf(view, "accounts") /\ st.tags \subseteq TagNames
                              /\ ~Live(Exec(st, view), st.gone),
           Grows(view, Exec(st, view))
    PROVE  Replayed(d, read, Append(out, st), Exec(st, view))
  <1>5. /\ RowsOf(d, "accounts") \subseteq RowsOf(view, "accounts")
        /\ RowsOf(view, "accounts") \subseteq RowsOf(Exec(st, view), "accounts")
        /\ \A i \in RowsOf(d, "accounts") : Live(Exec(st, view), i) => Live(view, i)
    BY DEF Replayed, Grows
  <1> DEFINE e == Exec(st, view)
             more == Append(out, st)
             On(tags) == [rows |-> d.rows, arch |-> d.arch, tags |-> tags]
  <1>1. PICK T : out \in Seq(T)
    BY DEF Replayed
  <1>2. out \in Seq(T \cup {st})
    BY <1>1
  <1>3. more \in Seq(T \cup {st})
    BY <1>2, AppendProperties
  <1>4. ASSUME NEW tags, read \subseteq tags
        PROVE  /\ Replay(more, On(tags)) = [rows |-> e.rows, arch |-> e.arch,
                                            tags |-> Replay(more, On(tags)).tags]
               /\ e.tags \subseteq Replay(more, On(tags)).tags
               /\ Typed(tags, d) => Typed(Replay(more, On(tags)).tags, e)
               /\ \A u \in tags : u[1] \in RowsOf(d, "accounts") /\ Live(e, u[1]) =>
                     u \in Replay(more, On(tags)).tags
    <2> DEFINE r == Replay(out, On(tags))
               x == Exec(st, r)
    <2>1. /\ r = [rows |-> view.rows, arch |-> view.arch, tags |-> r.tags]
          /\ view.tags \subseteq r.tags
          /\ Typed(tags, d) => Typed(r.tags, view)
          /\ \A u \in tags : u[1] \in RowsOf(d, "accounts") /\ Live(view, u[1]) => u \in r.tags
      BY <1>4 DEF Replayed
    <2>2. Replay(more, On(tags)) = x
      BY <1>2, ReplayAppend
    <2> HIDE DEF r, On
    <2>3. r.rows = view.rows /\ r.arch = view.arch
      BY <2>1
    <2>4. x = [rows |-> e.rows, arch |-> e.arch, tags |-> x.tags] /\ e.tags \subseteq x.tags
      BY <2>1, <2>3, ExecTags
    <2>5. ASSUME Typed(tags, d) PROVE Typed(x.tags, e)
      <3>1. Typed(r.tags, e)
        BY <1>5, <2>1, <2>5 DEF Typed
      <3>2. CASE st.op = "merge"
        <4>1. x.tags = MovedTags(st, r.tags)
          BY <3>2, ExecIs
        <4>2. st.keeper \in RowsOf(e, "accounts") /\ st.tags \subseteq TagNames
          BY <1>5, <3>2
        <4> HIDE DEF e, x
        <4> QED
          BY <3>1, <4>1, <4>2 DEF MovedTags, Typed
      <3>3. CASE st.op # "merge"
        <4>1. x.tags = r.tags
          BY <3>3, ExecIs DEF Ops
        <4> QED
          BY <3>1, <4>1
      <3> QED
        BY <3>2, <3>3
    <2>6. ASSUME NEW u \in tags, u[1] \in RowsOf(d, "accounts"), Live(e, u[1])
          PROVE  u \in x.tags
      <3>1. u \in r.tags
        BY <1>5, <2>1, <2>6
      <3>2. CASE st.op = "merge"
        <4>1. x.tags = MovedTags(st, r.tags)
          BY <3>2, ExecIs
        <4>2. u[1] # st.gone
          BY <2>6, <3>2
        <4>3. \A t \in st.tags : u # <<st.gone, t>>
          BY <4>2
        <4> HIDE DEF e, x
        <4> QED
          BY <3>1, <4>1, <4>3 DEF MovedTags
      <3>3. CASE st.op # "merge"
        <4>1. x.tags = r.tags
          BY <3>3, ExecIs DEF Ops
        <4> QED
          BY <3>1, <4>1
      <3> QED
        BY <3>2, <3>3
    <2> HIDE DEF x, e, more
    <2> QED
      BY <2>2, <2>4, <2>5, <2>6
  <1>6. RowsOf(d, "accounts") \subseteq RowsOf(e, "accounts")
    BY <1>5
  <1> HIDE DEF e, more
  <1> QED
    BY <1>3, <1>4, <1>6 DEF Replayed, e, more

-----------------------------------------------------------------------------
(* A transaction                                                           *)

\* What is left to do of a kind: pairs of accounts to merge, positions of entities of the
\* session's extraction, and entities found for rows they may be stored in.
WorkOK(work, session, c, view) ==
    /\ \A p \in work.stubs : /\ p[1] \in RowsOf(view, "accounts") /\ p[2] \in RowsOf(view, "accounts")
                             /\ view.rows[p[1]].rec.plat = view.rows[p[2]].rec.plat
    /\ work.todo \cup work.new \cup DOMAIN work.hit # {} =>
          /\ session # 0 /\ work.kind \in DOMAIN Order
          /\ work.todo \cup work.new \subseteq DOMAIN c[session][Order[work.kind]]
    /\ \A id \in DOMAIN work.hit : HitOK(view, Order[work.kind], id, work.hit[id])

LEMMA WorkIs ==
    ASSUME NEW kind, NEW stubs, NEW todo, NEW new, NEW hit, NEW work, work = Work(kind, stubs, todo, new, hit)
    PROVE  /\ work.kind = kind /\ work.stubs = stubs /\ work.todo = todo /\ work.new = new
           /\ work.hit = hit
  BY DEF Work

\* A transaction on the tables d, of which it read the tags read; m are the merges on record.
TxOK(t, c, d, m, read) ==
    /\ t.session \in Sessions \cup {0}
    /\ t.session # 0 => c[t.session] \in Contents
    /\ Sound(t.view, t.session, m \cup t.log)
    /\ Replayed(d, read, t.out, t.view)
    /\ Grows([rows |-> d.rows, arch |-> d.arch, tags |-> read], t.view)
    /\ WorkOK(t.work, t.session, c, t.view)

\* t after the statement st.
Executed(t, st, log, work) ==
    [session |-> t.session, view |-> Exec(st, t.view), out |-> Append(t.out, st), log |-> log, work |-> work]

LEMMA StatementKeeps ==
    ASSUME NEW t, NEW c, NEW d, NEW m, NEW read, TxOK(t, c, d, m, read), NEW st, st.op \in Ops,
           st.op = "merge" => /\ st.keeper \in RowsOf(t.view, "accounts") /\ st.tags \subseteq TagNames
                              /\ ~Live(Exec(st, t.view), st.gone),
           NEW log, NEW work, Sound(Exec(st, t.view), t.session, m \cup log),
           Grows(t.view, Exec(st, t.view)), WorkOK(work, t.session, c, Exec(st, t.view))
    PROVE  TxOK(Executed(t, st, log, work), c, d, m, read)
  <1> DEFINE u == Executed(t, st, log, work)
             e == Exec(st, t.view)
  <1>3. u.session = t.session /\ u.view = e /\ u.out = Append(t.out, st) /\ u.log = log /\ u.work = work
    BY DEF Executed
  <1> HIDE DEF u
  <1>1. Replayed(d, read, u.out, u.view)
    BY <1>3, ReplayedOn DEF TxOK
  <1>2. Grows([rows |-> d.rows, arch |-> d.arch, tags |-> read], u.view)
    BY <1>3, GrowsOn DEF TxOK
  <1> QED
    BY <1>1, <1>2, <1>3 DEF TxOK, u

\* Sizes of stored files are numbers in whatever a session holds.
LEMMA EntitySizes ==
    ASSUME NEW c \in Contents, NEW key, NEW n \in DOMAIN c[key]
    PROVE  key = "media" => c[key][n].rec.val \in Nat \cup {None}
  BY ContentsAssumption DEF ContentsAssumption

LEMMA MergeStep ==
    ASSUME NEW t, NEW c, NEW d, NEW m, NEW read, TxOK(t, c, d, m, read),
           NEW keeper, NEW gone, <<keeper, gone>> \in t.work.stubs, ~MergeRefused(t.view, keeper, gone),
           NEW st, st = MergeAccountInto(t.view, keeper, gone)
    PROVE  TxOK(Executed(t, st, t.log \cup {<<keeper, gone>>},
                         Work(t.work.kind, t.work.stubs \ {<<keeper, gone>>}, t.work.todo, {}, <<>>)),
                c, d, m, read)
  <1> DEFINE pair == <<keeper, gone>>
             v == t.view
             e == Exec(st, v)
             log == t.log \cup {pair}
             work == Work(t.work.kind, t.work.stubs \ {pair}, t.work.todo, {}, <<>>)
  <1>1. pair[1] = keeper /\ pair[2] = gone
    OBVIOUS
  <1>2. /\ keeper \in RowsOf(v, "accounts") /\ gone \in RowsOf(v, "accounts")
        /\ v.rows[keeper].rec.plat = v.rows[gone].rec.plat
    BY <1>1 DEF TxOK, WorkOK
  <1>3. st.op = "merge" /\ st.keeper = keeper /\ st.gone = gone /\ st.tags \subseteq TagNames
        /\ st.rec.plat = v.rows[keeper].rec.plat
    <2>1. st.op = "merge" /\ st.keeper = keeper /\ st.gone = gone /\ st.rec.plat = v.rows[keeper].rec.plat
      BY <1>2, MergeWrites
    <2>2. st.tags = {x \in TagNames : <<gone, x>> \in v.tags}
      BY <1>2, MergeWrites
    <2> QED
      BY <2>1, <2>2
  <1>4. /\ DOMAIN e.rows = DOMAIN v.rows /\ e.arch = MovedArch(st, v.arch)
        /\ e.rows = [i \in DOMAIN v.rows |-> MergedRow(st, v, i)]
    BY <1>3, ExecIs
  <1>5. Sound(e, t.session, m \cup log)
    <2>1. (m \cup t.log) \cup {pair} = m \cup log
      OBVIOUS
    <2> HIDE DEF e
    <2>2. Sound(e, t.session, (m \cup t.log) \cup {pair})
      BY <1>2, <1>4, MergeKeeps DEF TxOK
    <2> QED
      BY <2>1, <2>2
  <1>6. Grows(v, e)
    <2>1. (m \cup t.log) \cup {<<keeper, gone>>} = m \cup log
      OBVIOUS
    <2> QED
      BY <1>2, <1>5, <2>1, MergeGrows DEF TxOK
  <1>7. \A i \in DOMAIN v.rows : /\ e.rows[i].kind = v.rows[i].kind
                                 /\ e.rows[i].rec.plat = v.rows[i].rec.plat
    <2> SUFFICES ASSUME NEW i \in DOMAIN v.rows
                 PROVE  e.rows[i].kind = v.rows[i].kind /\ e.rows[i].rec.plat = v.rows[i].rec.plat
      OBVIOUS
    <2> DEFINE r == v.rows[i]
    <2>1. e.rows[i] = MergedRow(st, v, i)
      BY <1>4
    <2> HIDE DEF e
    <2>2. CASE i = gone
      <3>1. e.rows[i] = Tombstone(r, keeper)
        BY <1>3, <2>1, <2>2 DEF MergedRow
      <3> HIDE DEF r
      <3>2. e.rows[i].kind = r.kind /\ e.rows[i].rec.plat = r.rec.plat
        BY <3>1 DEF Tombstone, Row
      <3> QED
        BY <3>2 DEF r
    <2>3. CASE i = keeper /\ i # gone
      <3>1. e.rows[i] = Row(r.kind, st.rec, st.ids, r.fk, Repoint(st, r.into),
                            Cardinality(RepointedPosts(st, v)))
        BY <1>3, <2>1, <2>3 DEF MergedRow
      <3>2. st.rec.plat = r.rec.plat
        BY <1>3, <2>3
      <3> HIDE DEF r
      <3>3. e.rows[i].kind = r.kind /\ e.rows[i].rec = st.rec
        BY <3>1 DEF Row
      <3> QED
        BY <3>2, <3>3 DEF r
    <2>4. CASE i # keeper /\ i # gone
      <3> DEFINE fk == [role \in DOMAIN r.fk |-> IF role \in AccountRoles THEN Repoint(st, r.fk[role])
                                                 ELSE r.fk[role]]
      <3>1. e.rows[i] = Row(r.kind, r.rec, r.ids, fk, Repoint(st, r.into), r.count)
        BY <1>3, <2>1, <2>4 DEF MergedRow
      <3> HIDE DEF r, fk
      <3>2. e.rows[i].kind = r.kind /\ e.rows[i].rec = r.rec
        BY <3>1 DEF Row
      <3> QED
        BY <3>2 DEF r
    <2> QED
      BY <2>2, <2>3, <2>4
  <1>8. /\ work.kind = t.work.kind /\ work.stubs \subseteq t.work.stubs /\ work.todo = t.work.todo
        /\ work.new = {} /\ DOMAIN work.hit = {}
    BY DEF Work
  <1>9. WorkOK(work, t.session, c, e)
    <2> HIDE DEF e, work
    <2>1. ASSUME NEW p \in work.stubs
          PROVE  /\ p[1] \in RowsOf(e, "accounts") /\ p[2] \in RowsOf(e, "accounts")
                 /\ e.rows[p[1]].rec.plat = e.rows[p[2]].rec.plat
      <3>1. /\ p[1] \in RowsOf(v, "accounts") /\ p[2] \in RowsOf(v, "accounts")
            /\ v.rows[p[1]].rec.plat = v.rows[p[2]].rec.plat
        BY <1>8 DEF TxOK, WorkOK
      <3> QED
        BY <1>4, <1>7, <3>1 DEF RowsOf
    <2> QED
      BY <1>8, <2>1 DEF TxOK, WorkOK
  <1>10. st.op \in Ops
    BY <1>3 DEF Ops
  <1>12. ~Live(e, gone)
    <2>1. keeper # None /\ gone \in DOMAIN v.rows
      BY <1>2, ContentsAssumption DEF ContentsAssumption, TxOK, Sound, RowsOK, RowsOf
    <2> DEFINE r == v.rows[gone]
    <2>2. e.rows[gone] = Tombstone(r, keeper)
      BY <1>3, <1>4, <2>1 DEF MergedRow
    <2> HIDE DEF r, e
    <2>3. e.rows[gone].into = keeper
      BY <2>2 DEF Tombstone, Row
    <2> QED
      BY <2>1, <2>3 DEF Live
  <1> HIDE DEF work, log
  <1>11. TxOK(Executed(t, st, log, work), c, d, m, read)
    BY <1>2, <1>3, <1>5, <1>6, <1>9, <1>10, <1>12, StatementKeeps
  <1> QED
    BY <1>11 DEF work, log

\* The statement that stores the new entity n of t's kind.
Inserts(st, t, c, n) ==
    LET key == Order[t.work.kind] IN
    st = StoreNew(t.view, key, c[t.session][key][n], t.session, 1) /\ Resolved(key, st.row.fk)

LEMMA InsertStep ==
    ASSUME Workers = {1}, NEW t, NEW c, NEW d, NEW m, NEW read, TxOK(t, c, d, m, read),
           NEW n \in t.work.new, NEW st, Inserts(st, t, c, n)
    PROVE  TxOK(Executed(t, st, t.log, Work(t.work.kind, {}, {}, t.work.new \ {n}, t.work.hit)), c, d, m, read)
  <1> DEFINE v == t.view
             key == Order[t.work.kind]
             new == t.work.new \ {n}
             work == Work(t.work.kind, {}, {}, new, t.work.hit)
             e == Exec(st, v)
             o == c[t.session][key][n]
  <1>1. /\ t.session \in Sessions /\ c[t.session] \in Contents /\ key \in DOMAIN Kinds
        /\ n \in DOMAIN c[t.session][key] /\ t.session # 0
    BY OrderFacts DEF TxOK, WorkOK
  <1>2. key = "media" => o.rec.val \in Nat \cup {None}
    BY <1>1, EntitySizes
  <1> HIDE DEF o
  <1>3. st = StoreNew(v, key, o, t.session, 1) /\ Resolved(key, st.row.fk)
    BY DEF o, Inserts
  <1> DEFINE merges == m \cup t.log
  <1>8. Sound(v, t.session, merges)
    BY DEF TxOK
  <1>12. e = Exec(st, v)
    OBVIOUS
  <1> HIDE DEF merges, e, v
  <1>4. /\ Sound(e, t.session, merges) /\ st.op = "insert"
        /\ st.id \notin DOMAIN v.rows /\ st.aid \notin DOMAIN v.arch
    BY <1>1, <1>2, <1>3, <1>8, <1>12, InsertIsSound
  <1>5. Grows(v, e) /\ \A i \in DOMAIN v.rows : i \in DOMAIN e.rows /\ e.rows[i] = v.rows[i]
    BY <1>4, <1>8, <1>12, InsertGrows
  <1> HIDE DEF new
  <1>6. /\ work.kind = t.work.kind /\ work.stubs = {} /\ work.todo = {}
        /\ work.new = new /\ work.hit = t.work.hit
    BY WorkIs
  <1> HIDE DEF work, key
  <1>7. WorkOK(work, t.session, c, e)
    <2>1. ASSUME NEW id \in DOMAIN t.work.hit PROVE HitOK(e, key, id, t.work.hit[id])
      <3>1. HitOK(v, key, id, t.work.hit[id])
        BY DEF TxOK, WorkOK, v, key
      <3> QED
        BY <1>5, <3>1 DEF HitOK, RowsOf, Live
    <2> QED
      BY <1>6, <2>1 DEF TxOK, WorkOK, new, key
  <1>9. st.op \in Ops /\ st.op # "merge"
    BY <1>4 DEF Ops
  <1>10. TxOK(Executed(t, st, t.log, work), c, d, m, read)
    BY <1>4, <1>5, <1>7, <1>9, StatementKeeps DEF merges, e, v
  <1> QED
    BY <1>10 DEF work, new

\* The statement that stores what was found for the row id.
Stores(st, t, id) == IsStore(st, t.view, Order[t.work.kind], id, t.work.hit[id], t.session)

LEMMA StoreStep ==
    ASSUME Workers = {1}, NEW t, NEW c, NEW d, NEW m, NEW read, TxOK(t, c, d, m, read),
           NEW id \in DOMAIN t.work.hit, NEW st, Stores(st, t, id)
    PROVE  TxOK(Executed(t, st, t.log,
                         Work(t.work.kind, {}, {}, {}, [i \in DOMAIN t.work.hit \ {id} |-> t.work.hit[i]])),
                c, d, m, read)
  <1> DEFINE v == t.view
             key == Order[t.work.kind]
             e == Exec(st, v)
             o == t.work.hit[id]
             hit == [i \in DOMAIN t.work.hit \ {id} |-> t.work.hit[i]]
             work == Work(t.work.kind, {}, {}, {}, hit)
  <1>1. t.session \in Sessions /\ t.session # 0 /\ HitOK(v, key, id, o)
    BY DEF TxOK, WorkOK
  <1> HIDE DEF o
  <1>2. IsStore(st, v, key, id, o, t.session)
    BY DEF o, Stores
  <1> DEFINE merges == m \cup t.log
  <1>8. Sound(v, t.session, merges)
    BY DEF TxOK
  <1>12. e = Exec(st, v)
    OBVIOUS
  <1> HIDE DEF merges, e, v
  <1>3. /\ Sound(e, t.session, merges)
        /\ st.op = "store" /\ st.id = id /\ st.record.row = id /\ st.record.session = t.session
        /\ key = "posts" => st.fk["account"] = v.rows[id].fk["account"]
        /\ st.aid \in DOMAIN v.arch => v.arch[st.aid].row = id /\ v.arch[st.aid].session = t.session
        /\ key = "accounts" => v.rows[id].ids \subseteq st.ids
    BY <1>1, <1>2, <1>8, <1>12, StoreIsSound
  <1>4. /\ Grows(v, e) /\ DOMAIN e.rows = DOMAIN v.rows
        /\ \A i \in DOMAIN v.rows : i # id => e.rows[i] = v.rows[i]
    BY <1>1, <1>3, <1>8, <1>12, StoreGrows
  <1>5. /\ work.kind = t.work.kind /\ work.stubs = {} /\ work.todo = {} /\ work.new = {}
        /\ work.hit = hit
    <2> HIDE DEF hit
    <2> QED
      BY WorkIs
  <1>6. DOMAIN hit = DOMAIN t.work.hit \ {id} /\ \A i \in DOMAIN hit : hit[i] = t.work.hit[i]
    OBVIOUS
  <1> HIDE DEF hit, work, key
  <1>7. WorkOK(work, t.session, c, e)
    <2>1. ASSUME NEW i \in DOMAIN hit PROVE HitOK(e, key, i, hit[i])
      <3>1. HitOK(v, key, i, t.work.hit[i])
        BY <1>6 DEF TxOK, WorkOK, v, key
      <3> QED
        BY <1>4, <1>6, <3>1 DEF HitOK, RowsOf, Live
    <2> QED
      BY <1>5, <1>6, <2>1 DEF TxOK, WorkOK, key
  <1>9. st.op \in Ops /\ st.op # "merge"
    BY <1>3 DEF Ops
  <1>10. TxOK(Executed(t, st, t.log, work), c, d, m, read)
    BY <1>3, <1>4, <1>7, <1>9, StatementKeeps DEF merges, e, v
  <1> QED
    BY <1>10 DEF work, hit

\* The next kind is opened.
LEMMA OpenStep ==
    ASSUME NEW s, NEW c, NEW view, s # 0, NEW n \in DOMAIN Order,
           NEW work, work = Work(n, IF Order[n] = "accounts" THEN ShadowedStubs(view, c[s][Order[n]]) ELSE {},
                                 DOMAIN c[s][Order[n]], {}, <<>>)
    PROVE  WorkOK(work, s, c, view)
  <1> DEFINE todo == DOMAIN c[s][Order[n]]
             stubs == IF Order[n] = "accounts" THEN ShadowedStubs(view, c[s][Order[n]]) ELSE {}
  <1>1. ASSUME NEW p \in ShadowedStubs(view, c[s][Order[n]])
        PROVE  /\ p[1] \in RowsOf(view, "accounts") /\ p[2] \in RowsOf(view, "accounts")
               /\ view.rows[p[1]].rec.plat = view.rows[p[2]].rec.plat
    <2>1. p \in RowsOf(view, "accounts") \X RowsOf(view, "accounts")
      BY <1>1 DEF ShadowedStubs
    <2>2. \E o : p[1] \in ByPk(view, "accounts", o.plat, o.pk) /\ p[2] \in ByUrl(view, "accounts", o.plat, o.url)
      BY <1>1 DEF ShadowedStubs
    <2> QED
      BY <2>1, <2>2 DEF ByPk, ByUrl
  <1> HIDE DEF todo
  <1>2. \A p \in stubs : /\ p[1] \in RowsOf(view, "accounts") /\ p[2] \in RowsOf(view, "accounts")
                         /\ view.rows[p[1]].rec.plat = view.rows[p[2]].rec.plat
    BY <1>1
  <1>3. work = Work(n, stubs, todo, {}, <<>>)
    BY DEF todo
  <1> HIDE DEF stubs
  <1>4. work.kind = n /\ work.stubs = stubs /\ work.todo = todo /\ work.new = {} /\ work.hit = <<>>
    BY <1>3, WorkIs
  <1>5. DOMAIN work.hit = {}
    BY <1>4
  <1>6. todo \subseteq DOMAIN c[s][Order[work.kind]]
    BY <1>4 DEF todo
  <1> QED
    BY <1>2, <1>4, <1>5, <1>6 DEF WorkOK

\* An entity is matched: it is passed over, new, or found.
LEMMA MatchStep ==
    ASSUME NEW t, NEW c, NEW d, NEW m, NEW read, TxOK(t, c, d, m, read), NEW n \in t.work.todo,
           NEW o, o = c[t.session][Order[t.work.kind]][n],
           NEW id, id = Match(t.view, Order[t.work.kind], o.rec)
    PROVE  /\ WorkOK(Work(t.work.kind, {}, t.work.todo \ {n}, t.work.new, t.work.hit), t.session, c, t.view)
           /\ WorkOK(Work(t.work.kind, {}, t.work.todo \ {n}, t.work.new \cup {n}, t.work.hit),
                     t.session, c, t.view)
           /\ id # None =>
                 WorkOK(Work(t.work.kind, {}, t.work.todo \ {n}, t.work.new,
                             Collapse(Order[t.work.kind], t.work.hit, id, o)), t.session, c, t.view)
  <1> DEFINE key == Order[t.work.kind]
             rest == t.work.todo \ {n}
             more == t.work.new \cup {n}
             v == t.view
             s == t.session
  <1>1. /\ s # 0 /\ t.work.kind \in DOMAIN Order /\ key \in DOMAIN Kinds /\ c[s] \in Contents
        /\ t.work.todo \cup t.work.new \subseteq DOMAIN c[s][key]
        /\ \A i \in DOMAIN t.work.hit : HitOK(v, key, i, t.work.hit[i])
    BY OrderFacts DEF TxOK, WorkOK
  <1>2. rest \cup t.work.new \subseteq DOMAIN c[s][key] /\ rest \cup more \subseteq DOMAIN c[s][key]
    BY <1>1
  <1>3. RowsOK(v) /\ Inert(v)
    BY DEF TxOK, Sound
  <1>4. key = "media" => o.rec.val \in Nat \cup {None}
    BY <1>1, EntitySizes
  <1>5. ASSUME NEW new, rest \cup new \subseteq DOMAIN c[s][key],
               NEW hit, \A i \in DOMAIN hit : HitOK(v, key, i, hit[i])
        PROVE  WorkOK(Work(t.work.kind, {}, rest, new, hit), s, c, v)
    <2> DEFINE work == Work(t.work.kind, {}, rest, new, hit)
    <2> HIDE DEF rest
    <2>1. work.kind = t.work.kind /\ work.stubs = {} /\ work.todo = rest /\ work.new = new /\ work.hit = hit
      BY WorkIs
    <2> HIDE DEF work
    <2>2. WorkOK(work, s, c, v)
      BY <1>1, <1>5, <2>1 DEF WorkOK
    <2> QED
      BY <2>2 DEF work
  <1>6. ASSUME id # None
        PROVE  WorkOK(Work(t.work.kind, {}, rest, t.work.new, Collapse(key, t.work.hit, id, o)), s, c, v)
    <2> DEFINE x == [rec |-> IF id \in DOMAIN t.work.hit THEN Reconcile(key, t.work.hit[id].rec, o.rec)
                             ELSE o.rec,
                     refs |-> o.refs]
               hit == Collapse(key, t.work.hit, id, o)
    <2>1. hit = Put(t.work.hit, id, x)
      BY DEF Collapse
    <2>2. HitOK(v, key, id, o)
      <3> HIDE DEF v, key
      <3>1. id = Match(v, key, o.rec)
        BY DEF v, key
      <3> QED
        BY <1>1, <1>3, <1>4, <1>6, <3>1, MatchIs
    <2>3. HitOK(v, key, id, x)
      <3>1. CASE id \in DOMAIN t.work.hit
        <4> DEFINE h == t.work.hit[id]
        <4>1. x.rec = Reconcile(key, h.rec, o.rec) /\ HitOK(v, key, id, h)
          BY <1>1, <3>1
        <4> HIDE DEF v, key, h, x
        <4> QED
          BY <2>2, <4>1, CollapseKeeps
      <3>2. CASE id \notin DOMAIN t.work.hit
        <4>1. x.rec = o.rec
          BY <3>2
        <4> HIDE DEF x, v, key
        <4> QED
          BY <2>2, <4>1 DEF HitOK
      <3> QED
        BY <3>1, <3>2
    <2> HIDE DEF hit, x
    <2>4. \A i \in DOMAIN hit : HitOK(v, key, i, hit[i])
      BY <1>1, <2>1, <2>3 DEF Put
    <2>5. WorkOK(Work(t.work.kind, {}, rest, t.work.new, hit), s, c, v)
      BY <1>2, <1>5, <2>4
    <2> QED
      BY <2>5 DEF hit
  <1>7. WorkOK(Work(t.work.kind, {}, rest, t.work.new, t.work.hit), s, c, v)
    BY <1>1, <1>2, <1>5
  <1>8. WorkOK(Work(t.work.kind, {}, rest, more, t.work.hit), s, c, v)
    BY <1>1, <1>2, <1>5
  <1> QED
    BY <1>6, <1>7, <1>8

LEMMA CountedWhen ==
    ASSUME NEW d, NEW merges, Sound(d, 0, merges)
    PROVE  \A i \in RowsOf(d, "accounts") : Counted(d, i)
  <1>1. \A a \in DOMAIN d.arch : d.arch[a].session # 0
    <2>1. \A x \in Sessions : x # 0
      BY ContentsAssumption DEF ContentsAssumption, Sessions
    <2> QED
      BY <2>1 DEF Sound, ArchOK
  <1> QED
    BY <1>1 DEF Sound, Due

LEMMA BeginStep ==
    ASSUME NEW d, d = [rows |-> d.rows, arch |-> d.arch, tags |-> d.tags], NEW m, Sound(d, 0, m),
           NEW c, NEW s \in Sessions \cup {0}, s # 0 => c[s] \in Contents, NEW work, WorkOK(work, s, c, d)
    PROVE  TxOK([session |-> s, view |-> d, out |-> <<>>, log |-> {}, work |-> work], c, d, m, d.tags)
  <1> DEFINE t == [session |-> s, view |-> d, out |-> <<>>, log |-> {}, work |-> work]
  <1>1. t.session = s /\ t.view = d /\ t.out = <<>> /\ t.log = {} /\ t.work = work
    OBVIOUS
  <1>2. Sound(d, s, m)
    BY CountedWhen, SoundFrame
  <1>3. m \cup {} = m
    OBVIOUS
  <1>4. Replayed(d, d.tags, <<>>, d)
    BY ReplayedNone
  <1>5. Grows(d, d)
    BY DEF Grows
  <1> HIDE DEF t
  <1>6. TxOK(t, c, d, m, d.tags)
    BY <1>1, <1>2, <1>3, <1>4, <1>5 DEF TxOK
  <1> QED
    BY <1>6 DEF t

\* The tables d with the tags that were read, and those of accounts that are live in e.
Kept(d, read, e) ==
    [rows |-> d.rows, arch |-> d.arch, tags |-> {u \in d.tags : u \in read \/ Live(e, u[1])}]

\* What the statements make of the tables of the moment when they are executed.
LEMMA ReplayIsSound ==
    ASSUME NEW d, d = [rows |-> d.rows, arch |-> d.arch, tags |-> d.tags], Typed(d.tags, d),
           NEW before, Sound(d, 0, before),
           NEW read, read \subseteq d.tags, NEW out, NEW view, Replayed(d, read, out, view),
           NEW s, NEW merges, Sound(view, s, merges), \A i \in RowsOf(view, "accounts") : Counted(view, i),
           Grows([rows |-> d.rows, arch |-> d.arch, tags |-> read], view),
           NEW e, e = Replay(out, d)
    PROVE  /\ e = [rows |-> e.rows, arch |-> e.arch, tags |-> e.tags]
           /\ Sound(e, 0, merges) /\ Typed(e.tags, e)
           /\ Grows(Kept(d, read, e), e)
  <1> DEFINE from == [rows |-> d.rows, arch |-> d.arch, tags |-> read]
             kept == Kept(d, read, e)
  <1>1. /\ e = [rows |-> view.rows, arch |-> view.arch, tags |-> e.tags]
        /\ view.tags \subseteq e.tags /\ Typed(e.tags, view)
        /\ \A u \in d.tags : u[1] \in RowsOf(d, "accounts") /\ Live(view, u[1]) => u \in e.tags
    BY DEF Replayed
  <1>2. e.rows = view.rows /\ e.arch = view.arch
    BY <1>1
  <1>3. Sound(e, 0, merges)
    BY <1>2, SoundFrame
  <1>4. Typed(e.tags, e)
    BY <1>1, <1>2 DEF Typed, RowsOf
  <1>5. Grows(view, e)
    BY <1>1, <1>2, <1>3, AdditionGrows DEF Sound
  <1>6. Grows(from, e)
    BY <1>5, GrowsOn
  <1>7. /\ kept.rows = d.rows /\ kept.arch = d.arch /\ from.rows = d.rows /\ from.arch = d.arch
        /\ from.tags = read /\ kept.tags = {u \in d.tags : u \in read \/ Live(e, u[1])}
    BY DEF Kept
  <1> HIDE DEF kept, from
  <1>8. /\ Sound(kept, 0, before) /\ Sound(from, 0, before)
        /\ RowsOf(kept, "accounts") = RowsOf(d, "accounts")
        /\ RowsOf(from, "accounts") = RowsOf(d, "accounts")
        /\ \A i : Target(kept, i) = Target(d, i) /\ Target(from, i) = Target(d, i) /\ (Live(kept, i) <=> Live(from, i))
        /\ \A i : Face(kept, i) = Face(from, i)
    <2>1. Sound(kept, 0, before) /\ Sound(from, 0, before)
      BY <1>7, SoundFrame
    <2>2. \A key : RowsOf(kept, key) = RowsOf(d, key) /\ RowsOf(from, key) = RowsOf(d, key)
      BY <1>7 DEF RowsOf
    <2>3. \A i : /\ Target(kept, i) = Target(d, i) /\ Target(from, i) = Target(d, i)
                 /\ (Live(kept, i) <=> Live(from, i))
      BY <1>7 DEF Target, Live
    <2>4. \A i : ArchOf(kept, i) = ArchOf(from, i) /\ PostsOf(kept, i) = PostsOf(from, i)
      BY <1>7, <2>2 DEF ArchOf, PostsOf
    <2>5. \A i : Face(kept, i) = Face(from, i)
      BY <1>7, <2>4 DEF Face
    <2> QED
      BY <2>1, <2>2, <2>3, <2>5
  <1>9. ASSUME NEW i \in RowsOf(d, "accounts"), NEW y \in Shown(kept, i)
        PROVE  y \in Shown(e, i)
    <2> DEFINE a == Target(d, i)
    <2>1. i \in DOMAIN kept.rows /\ i \in DOMAIN from.rows
      BY <1>7 DEF RowsOf
    <2>2. i \in RowsOf(e, "accounts") /\ i \in DOMAIN e.rows /\ Shown(from, i) \subseteq Shown(e, i)
      BY <1>6, <1>8 DEF Grows, RowsOf
    <2>3. \/ y \in Face(kept, Target(kept, i))
          \/ \E t \in TagNames : y = <<"tag", t>> /\ <<Target(kept, i), t>> \in kept.tags
      BY <1>8, <1>9, <2>1, ShownIs DEF Sound
    <2>4. \/ y \in Face(from, a)
          \/ \E t \in TagNames : y = <<"tag", t>> /\ <<a, t>> \in kept.tags
      BY <1>8, <2>3
    <2>5. CASE y \in Face(from, a) \/ \E t \in TagNames : y = <<"tag", t>> /\ <<a, t>> \in read
      <3>1. y \in Shown(from, i)
        BY <1>7, <1>8, <2>1, <2>5, ShownIs DEF Sound
      <3> QED
        BY <2>2, <3>1
    <2>6. ASSUME NEW t \in TagNames, y = <<"tag", t>>, <<a, t>> \in d.tags, Live(e, a)
          PROVE  y \in Shown(e, i)
      <3>1. a \in RowsOf(d, "accounts")
        BY <2>6 DEF Typed
      <3>2. a = Target(e, i)
        BY <1>6, <1>8, <2>6, <3>1 DEF Grows
      <3>3. <<a, t>> \in e.tags
        <4>1. Live(view, a)
          BY <1>2, <2>6 DEF Live
        <4>2. <<a, t>>[1] = a
          OBVIOUS
        <4> HIDE DEF a
        <4> QED
          BY <1>1, <2>6, <3>1, <4>1, <4>2
      <3> HIDE DEF a
      <3> QED
        BY <1>3, <2>2, <2>6, <3>2, <3>3, ShownIs DEF Sound
    <2>7. \A t : <<a, t>> \in kept.tags => <<a, t>> \in read \/ (<<a, t>> \in d.tags /\ Live(e, a))
      BY <1>7
    <2> QED
      BY <2>4, <2>5, <2>6, <2>7
  <1>10. Grows(kept, e)
    <2>1. \A i \in RowsOf(d, "accounts") : Shown(kept, i) \subseteq Shown(e, i)
      BY <1>9
    <2> QED
      BY <1>6, <1>8, <2>1 DEF Grows
  <1> QED
    BY <1>1, <1>2, <1>3, <1>4, <1>10 DEF kept

\* e is what the commit of t makes of the tables d.
Commits(t, d, e) ==
    LET recount == [op |-> "recount", session |-> t.session] IN
    e = Replay(IF t.session = 0 THEN t.out ELSE Append(t.out, recount), d)

LEMMA CommitStep ==
    ASSUME NEW d, d = [rows |-> d.rows, arch |-> d.arch, tags |-> d.tags], Typed(d.tags, d),
           NEW read, read \subseteq d.tags, NEW c, NEW m, Sound(d, 0, m), NEW t, TxOK(t, c, d, m, read),
           NEW e, Commits(t, d, e)
    PROVE  /\ e = [rows |-> e.rows, arch |-> e.arch, tags |-> e.tags]
           /\ Sound(e, 0, m \cup t.log) /\ Typed(e.tags, e)
           /\ Grows(Kept(d, read, e), e)
  <1> DEFINE from == [rows |-> d.rows, arch |-> d.arch, tags |-> read]
             merges == m \cup t.log
             recount == [op |-> "recount", session |-> t.session]
  <1>1. /\ Sound(t.view, t.session, merges) /\ Replayed(d, read, t.out, t.view) /\ Grows(from, t.view)
    BY DEF TxOK
  <1> HIDE DEF merges
  <1>2. CASE t.session = 0
    <2>1. \A i \in RowsOf(t.view, "accounts") : Counted(t.view, i)
      BY <1>1, <1>2, CountedWhen
    <2>2. e = Replay(t.out, d)
      BY <1>2 DEF Commits
    <2> QED
      BY <1>1, <2>1, <2>2, ReplayIsSound DEF merges
  <1>3. CASE t.session # 0
    <2> DEFINE view == Exec(recount, t.view)
               out == Append(t.out, recount)
    <2>5. recount.op = "recount" /\ recount.session = t.session
      OBVIOUS
    <2>4. e = Replay(out, d)
      BY <1>3 DEF Commits
    <2> HIDE DEF recount
    <2>1. /\ Grows(t.view, view) /\ Sound(view, t.session, merges)
          /\ \A i \in RowsOf(view, "accounts") : Counted(view, i)
      BY <1>1, <2>5, RecountGrows
    <2>2. Replayed(d, read, out, view)
      BY <1>1, <2>1, <2>5, ReplayedOn DEF Ops
    <2>3. Grows(from, view)
      BY <1>1, <2>1, GrowsOn
    <2> HIDE DEF view, out
    <2> QED
      BY <2>1, <2>2, <2>3, <2>4, ReplayIsSound DEF merges
  <1> QED
    BY <1>2, <1>3

\* A tag that is added to the tables is none that an open transaction read.
LEMMA AnnotateStep ==
    ASSUME NEW d, NEW m, Sound(d, 0, m), NEW e, e.rows = d.rows, e.arch = d.arch
    PROVE  /\ Sound(e, 0, m)
           /\ \A t, c, read : TxOK(t, c, d, m, read) => TxOK(t, c, e, m, read)
  <1>1. Sound(e, 0, m)
    BY SoundFrame
  <1>2. RowsOf(e, "accounts") = RowsOf(d, "accounts") /\ \A tags : Typed(tags, e) <=> Typed(tags, d)
    BY DEF Typed, RowsOf
  <1>3. ASSUME NEW read, NEW out, NEW view, Replayed(d, read, out, view)
        PROVE  Replayed(e, read, out, view)
    BY <1>2, <1>3 DEF Replayed
  <1>4. ASSUME NEW t, NEW c, NEW read, TxOK(t, c, d, m, read) PROVE TxOK(t, c, e, m, read)
    <2>1. Replayed(e, read, t.out, t.view)
      BY <1>3, <1>4 DEF TxOK
    <2> QED
      BY <1>4, <2>1 DEF TxOK
  <1> QED
    BY <1>1, <1>4

-----------------------------------------------------------------------------
(* The inductive invariant                                                 *)

\* The committed tables, of which EntityStore's properties speak.
TablesOK ==
    /\ db = [rows |-> db.rows, arch |-> db.arch, tags |-> db.tags]
    /\ Sound(db, 0, merged)
    /\ Typed(db.tags, db) /\ late \subseteq db.tags
    /\ runs \in 0..MaxRuns /\ migrated \in BOOLEAN

\* The worker's transaction will find the tables as it read them, but for the late tags.
WorkerOK ==
    /\ DOMAIN tx = {1} /\ DOMAIN content = Sessions
    /\ \A s \in Sessions : content[s] \in Contents \cup {None}
    /\ tx[1] = Idle => late = {}
    /\ tx[1] # Idle => TxOK(tx[1], content, db, merged, db.tags \ late)

StoreInv == TablesOK /\ WorkerOK

LEMMA InitStore ==
    ASSUME Workers = {1}, Init
    PROVE  StoreInv
  <1>1. /\ db = [rows |-> db.rows, arch |-> db.arch, tags |-> db.tags]
        /\ RowsOK(db) /\ ArchOK(db) /\ OneIdentity(db) /\ SizesOK(db) /\ Typed(db.tags, db)
        /\ \A i \in DOMAIN db.rows : Live(db, i) /\ Counted(db, i) /\ Synthesis(db, i)
    BY LegacyAssumption DEF LegacyAssumption, Init, SizesOK, Typed
  <1>2. Inert(db)
    BY <1>1 DEF Inert
  <1>3. Sound(db, 0, merged)
    BY <1>1, <1>2 DEF Sound, RowsOf
  <1>4. runs \in 0..MaxRuns
    BY ContentsAssumption DEF ContentsAssumption, Init
  <1>5. TablesOK
    BY <1>1, <1>3, <1>4 DEF TablesOK, Init
  <1>6. WorkerOK
    BY DEF WorkerOK, Init
  <1> QED
    BY <1>5, <1>6 DEF StoreInv

\* A step of the transaction that is not its last.
LEMMA WorkerMoves ==
    ASSUME StoreInv, NEW t, t # Idle, tx' = [tx EXCEPT ![1] = t],
           TxOK(t, content, db, merged, db.tags \ late),
           UNCHANGED <<db, content, runs, migrated, merged, late>>
    PROVE  StoreInv'
  <1>1. TablesOK'
    BY DEF StoreInv, TablesOK
  <1>2. DOMAIN tx' = {1} /\ tx'[1] = t
    BY DEF StoreInv, WorkerOK
  <1>3. WorkerOK'
    BY <1>2 DEF StoreInv, WorkerOK
  <1> QED
    BY <1>1, <1>3 DEF StoreInv

\* A step that only plans.
LEMMA WorkerPlans ==
    ASSUME StoreInv, tx[1] # Idle, NEW work, WorkOK(work, tx[1].session, content, tx[1].view),
           Plan(1, work), UNCHANGED <<db, content, runs, migrated, merged, late>>
    PROVE  StoreInv'
  <1> DEFINE t == tx[1]
             u == [session |-> t.session, view |-> t.view, out |-> t.out, log |-> t.log, work |-> work]
  <1>1. TxOK(t, content, db, merged, db.tags \ late)
    BY DEF StoreInv, WorkerOK
  <1>2. /\ u.session = t.session /\ u.view = t.view /\ u.out = t.out /\ u.log = t.log
        /\ u.work = work
    OBVIOUS
  <1>3. tx' = [tx EXCEPT ![1] = u]
    BY DEF Plan, Go
  <1> HIDE DEF u
  <1>4. TxOK(u, content, db, merged, db.tags \ late)
    BY <1>1, <1>2 DEF TxOK
  <1>5. u # Idle
    BY DEF u, Idle
  <1> QED
    BY <1>3, <1>4, <1>5, WorkerMoves

-----------------------------------------------------------------------------
(* The steps                                                               *)

LEMMA BeginDedupeStep ==
    ASSUME Workers = {1}, StoreInv, BeginDedupe(1)
    PROVE  StoreInv'
  <1> DEFINE work == Work(0, Duplicates(db), {}, {}, <<>>)
             t == Open(0, work)
  <1>1. ASSUME NEW p \in Duplicates(db)
        PROVE  /\ p[1] \in RowsOf(db, "accounts") /\ p[2] \in RowsOf(db, "accounts")
               /\ db.rows[p[1]].rec.plat = db.rows[p[2]].rec.plat
    <2>1. p \in RowsOf(db, "accounts") \X RowsOf(db, "accounts")
      BY <1>1 DEF Duplicates
    <2>2. db.rows[p[1]].rec.pk # None /\ db.rows[p[1]].rec.pk = db.rows[p[2]].rec.pk
      BY <1>1 DEF Duplicates
    <2> QED
      BY <2>1, <2>2 DEF BeginDedupe
  <1>2. work.stubs = Duplicates(db) /\ work.todo = {} /\ work.new = {} /\ work.hit = <<>>
    <2> DEFINE pairs == Duplicates(db)
    <2> HIDE DEF pairs
    <2>1. Work(0, pairs, {}, {}, <<>>).stubs = pairs
      BY DEF Work
    <2> QED
      BY <2>1 DEF pairs, Work
  <1> HIDE DEF work
  <1>3. DOMAIN work.hit = {}
    BY <1>2
  <1>4. WorkOK(work, 0, content, db)
    BY <1>1, <1>2, <1>3 DEF WorkOK
  <1>5. TxOK(t, content, db, merged, db.tags)
    BY <1>4, BeginStep DEF StoreInv, TablesOK, Open
  <1>6. db.tags \ late = db.tags
    <2>1. tx[1] = Idle
      BY DEF BeginDedupe, StoreInv, WorkerOK
    <2> QED
      BY <2>1 DEF StoreInv, WorkerOK
  <1>7. tx' = [tx EXCEPT ![1] = t]
    BY DEF BeginDedupe, Go, work
  <1>8. t # Idle
    BY DEF Open, Idle
  <1>9. UNCHANGED <<db, content, runs, migrated, merged, late>>
    BY DEF BeginDedupe
  <1> HIDE DEF t
  <1> QED
    BY <1>5, <1>6, <1>7, <1>8, <1>9, WorkerMoves

LEMMA BeginSessionStep ==
    ASSUME StoreInv, NEW s \in Sessions, Begin(1, s)
    PROVE  StoreInv'
  <1> DEFINE work == Work(0, {}, {}, {}, <<>>)
             t == Open(s, work)
  <1>1. /\ tx[1] = Idle /\ late = {} /\ db.tags \ late = db.tags
        /\ tx' = [tx EXCEPT ![1] = t] /\ UNCHANGED <<db, migrated, merged, late>>
    BY DEF Begin, Go, StoreInv, WorkerOK
  <1>2. DOMAIN content' = Sessions /\ content'[s] \in Contents
        /\ \A x \in Sessions : content'[x] \in Contents \cup {None}
    BY DEF Begin, StoreInv, WorkerOK
  <1>3. work.stubs = {} /\ work.todo = {} /\ work.new = {} /\ DOMAIN work.hit = {}
    BY DEF Work
  <1> HIDE DEF work
  <1>4. WorkOK(work, s, content', db)
    BY <1>3 DEF WorkOK
  <1>5. TxOK(t, content', db, merged, db.tags)
    <2> DEFINE c == content'
    <2>1. c[s] \in Contents /\ WorkOK(work, s, c, db)
      BY <1>2, <1>4
    <2> HIDE DEF c
    <2>2. TxOK(t, c, db, merged, db.tags)
      BY <2>1, BeginStep DEF StoreInv, TablesOK, Open
    <2> QED
      BY <2>2 DEF c
  <1>6. t # Idle
    BY DEF Open, Idle
  <1> HIDE DEF t
  <1>7. DOMAIN tx' = {1} /\ tx'[1] = t
    BY <1>1 DEF StoreInv, WorkerOK
  <1>8. WorkerOK'
    BY <1>1, <1>2, <1>5, <1>6, <1>7 DEF WorkerOK
  <1>9. TablesOK'
    <2>1. runs' \in 0..MaxRuns
      BY ContentsAssumption DEF ContentsAssumption, Begin, StoreInv, TablesOK
    <2> QED
      BY <1>1, <2>1 DEF StoreInv, TablesOK
  <1> QED
    BY <1>8, <1>9 DEF StoreInv

LEMMA OpenKindStep ==
    ASSUME StoreInv, NEW n \in DOMAIN Order, OpenKind(1, n)
    PROVE  StoreInv'
  <1> DEFINE t == tx[1]
             key == Order[n]
             work == Work(n, IF key = "accounts" THEN ShadowedStubs(t.view, EntitiesAt(t, n)) ELSE {},
                          DOMAIN EntitiesAt(t, n), {}, <<>>)
  <1>1. /\ t # Idle /\ t.session # 0 /\ Plan(1, work)
        /\ UNCHANGED <<db, content, runs, migrated, merged, late>>
    BY DEF OpenKind
  <1>2. WorkOK(work, t.session, content, t.view)
    <2>1. EntitiesAt(t, n) = content[t.session][key]
      BY DEF EntitiesAt
    <2>2. work = Work(n, IF key = "accounts" THEN ShadowedStubs(t.view, content[t.session][key]) ELSE {},
                      DOMAIN content[t.session][key], {}, <<>>)
      BY <2>1
    <2> HIDE DEF work, t
    <2> QED
      BY <1>1, <2>2, OpenStep
  <1> HIDE DEF work
  <1> QED
    BY <1>1, <1>2, WorkerPlans

LEMMA MatchOneStep ==
    ASSUME StoreInv, NEW n, n \in tx[1].work.todo, MatchOne(1, n)
    PROVE  StoreInv'
  <1> DEFINE t == tx[1]
             key == Order[t.work.kind]
             o == content[t.session][key][n]
             id == Match(t.view, key, o.rec)
             rest == t.work.todo \ {n}
             passed == Work(t.work.kind, {}, rest, t.work.new, t.work.hit)
             new == Work(t.work.kind, {}, rest, t.work.new \cup {n}, t.work.hit)
             found == Work(t.work.kind, {}, rest, t.work.new, Collapse(key, t.work.hit, id, o))
  <1>1. EntitiesAt(t, t.work.kind)[n] = o
    BY DEF EntitiesAt
  <1>2. /\ t # Idle
        /\ Plan(1, passed) \/ Plan(1, new) \/ (id # None /\ Plan(1, found))
        /\ UNCHANGED <<db, content, runs, migrated, merged, late>>
    BY <1>1 DEF MatchOne
  <1>3. TxOK(t, content, db, merged, db.tags \ late)
    BY <1>2 DEF StoreInv, WorkerOK
  <1>4. /\ WorkOK(passed, t.session, content, t.view) /\ WorkOK(new, t.session, content, t.view)
        /\ id # None => WorkOK(found, t.session, content, t.view)
    <2> DEFINE i == id
               e == o
    <2>1. i = Match(t.view, key, e.rec) /\ e = content[t.session][key][n]
      OBVIOUS
    <2> HIDE DEF i, e
    <2>2. /\ WorkOK(passed, t.session, content, t.view) /\ WorkOK(new, t.session, content, t.view)
          /\ i # None => WorkOK(Work(t.work.kind, {}, rest, t.work.new, Collapse(key, t.work.hit, i, e)),
                                t.session, content, t.view)
      BY <1>3, <2>1, MatchStep
    <2> QED
      BY <2>2 DEF i, e
  <1> HIDE DEF passed, new, found, id
  <1> QED
    BY <1>2, <1>4, WorkerPlans

\* A step that executes a statement.
LEMMA WorkerExecutes ==
    ASSUME StoreInv, NEW st, NEW log, NEW work, Execute(1, st, log, work),
           TxOK(Executed(tx[1], st, log, work), content, db, merged, db.tags \ late),
           UNCHANGED <<db, content, runs, migrated, merged, late>>
    PROVE  StoreInv'
  <1> DEFINE u == Executed(tx[1], st, log, work)
  <1>1. tx' = [tx EXCEPT ![1] = u]
    BY DEF Execute, Go, Executed
  <1>2. u # Idle
    BY DEF Executed, Idle
  <1> HIDE DEF u
  <1>3. TxOK(u, content, db, merged, db.tags \ late)
    BY DEF u
  <1> QED
    BY <1>1, <1>2, <1>3, WorkerMoves

LEMMA MergeOneStep ==
    ASSUME StoreInv, NEW keeper, NEW gone, MergeOne(1, keeper, gone)
    PROVE  StoreInv'
  <1> DEFINE t == tx[1]
             st == MergeAccountInto(t.view, keeper, gone)
             log == t.log \cup {<<keeper, gone>>}
             work == Work(t.work.kind, t.work.stubs \ {<<keeper, gone>>}, t.work.todo, {}, <<>>)
  <1>1. /\ t # Idle /\ <<keeper, gone>> \in t.work.stubs /\ ~MergeRefused(t.view, keeper, gone)
        /\ Execute(1, st, log, work)
        /\ UNCHANGED <<db, content, runs, migrated, merged, late>>
    BY DEF MergeOne
  <1>2. TxOK(t, content, db, merged, db.tags \ late)
    BY <1>1 DEF StoreInv, WorkerOK
  <1>3. st = MergeAccountInto(t.view, keeper, gone)
    OBVIOUS
  <1> HIDE DEF st
  <1>4. TxOK(Executed(t, st, log, work), content, db, merged, db.tags \ late)
    BY <1>1, <1>2, <1>3, MergeStep
  <1> HIDE DEF log, work
  <1> QED
    BY <1>1, <1>4, WorkerExecutes

LEMMA InsertNewStep ==
    ASSUME Workers = {1}, StoreInv, NEW n, InsertNew(1, n)
    PROVE  StoreInv'
  <1> DEFINE t == tx[1]
             key == Order[t.work.kind]
             st == StoreNew(t.view, key, content[t.session][key][n], t.session, 1)
             work == Work(t.work.kind, {}, {}, t.work.new \ {n}, t.work.hit)
  <1>1. EntitiesAt(t, t.work.kind)[n] = content[t.session][key][n]
    BY DEF EntitiesAt
  <1>2. /\ t # Idle /\ n \in t.work.new /\ Resolved(key, st.row.fk)
        /\ Execute(1, st, t.log, work)
        /\ UNCHANGED <<db, content, runs, migrated, merged, late>>
    BY <1>1 DEF InsertNew
  <1>3. TxOK(t, content, db, merged, db.tags \ late)
    BY <1>2 DEF StoreInv, WorkerOK
  <1>4. Inserts(st, t, content, n)
    BY <1>2 DEF Inserts
  <1> HIDE DEF st
  <1>5. TxOK(Executed(t, st, t.log, work), content, db, merged, db.tags \ late)
    BY <1>2, <1>3, <1>4, InsertStep
  <1> HIDE DEF work
  <1> QED
    BY <1>2, <1>5, WorkerExecutes

LEMMA StoreHitStep ==
    ASSUME Workers = {1}, StoreInv, NEW id, NEW order, StoreHit(1, id, order)
    PROVE  StoreInv'
  <1> DEFINE t == tx[1]
             st == StoreExisting(t.view, Order[t.work.kind], id, t.work.hit[id], t.session, 1, order)
             work == Work(t.work.kind, {}, {}, {}, [i \in DOMAIN t.work.hit \ {id} |-> t.work.hit[i]])
  <1>1. /\ t # Idle /\ id \in DOMAIN t.work.hit /\ order \in Orders(ArchOf(t.view, id))
        /\ Execute(1, st, t.log, work)
        /\ UNCHANGED <<db, content, runs, migrated, merged, late>>
    BY DEF StoreHit
  <1>2. TxOK(t, content, db, merged, db.tags \ late)
    BY <1>1 DEF StoreInv, WorkerOK
  <1>3. Stores(st, t, id)
    BY <1>1 DEF Stores, IsStore
  <1> HIDE DEF st
  <1>4. TxOK(Executed(t, st, t.log, work), content, db, merged, db.tags \ late)
    BY <1>1, <1>2, <1>3, StoreStep
  <1> HIDE DEF work
  <1> QED
    BY <1>1, <1>4, WorkerExecutes

\* The end of the only transaction.
LEMMA WorkerEnds ==
    ASSUME Workers = {1}, StoreInv, End(1)
    PROVE  late' = {} /\ DOMAIN tx' = {1} /\ tx'[1] = Idle
  <1>1. \A v \in Workers \ {1} : tx[v] = Idle
    OBVIOUS
  <1> QED
    BY <1>1 DEF End, Go, StoreInv, WorkerOK

\* What a commit writes.
LEMMA CommitWrites ==
    ASSUME Workers = {1}, StoreInv, Commit(1)
    PROVE  /\ db' = [rows |-> db'.rows, arch |-> db'.arch, tags |-> db'.tags]
           /\ Sound(db', 0, merged') /\ Typed(db'.tags, db')
           /\ Grows(Settled, db')
  <1> DEFINE t == tx[1]
             e == db'
             read == db.tags \ late
             m == merged
             d == db
  <1>1. t # Idle /\ merged' = m \cup t.log
    BY DEF Commit
  <1>2. TxOK(t, content, d, m, read)
    BY <1>1 DEF StoreInv, WorkerOK
  <1>3. Commits(t, d, e)
    BY DEF Commit, Commits
  <1>5. /\ d = [rows |-> d.rows, arch |-> d.arch, tags |-> d.tags] /\ Sound(d, 0, m)
        /\ Typed(d.tags, d) /\ read \subseteq d.tags
    BY DEF StoreInv, TablesOK
  <1>6. Settled = Kept(d, read, e)
    BY DEF Settled, Kept
  <1> HIDE DEF e, read, d, m, t
  <1>7. /\ e = [rows |-> e.rows, arch |-> e.arch, tags |-> e.tags]
        /\ Sound(e, 0, m \cup t.log) /\ Typed(e.tags, e)
        /\ Grows(Kept(d, read, e), e)
    BY <1>2, <1>3, <1>5, CommitStep
  <1> QED
    BY <1>1, <1>6, <1>7 DEF e, m

LEMMA CommitStoreStep ==
    ASSUME Workers = {1}, StoreInv, Commit(1)
    PROVE  StoreInv'
  <1>1. late' = {} /\ DOMAIN tx' = {1} /\ tx'[1] = Idle
    BY WorkerEnds DEF Commit
  <1>2. content' = content /\ runs' = runs /\ migrated' = TRUE
    BY DEF Commit
  <1>3. TablesOK'
    BY <1>1, <1>2, CommitWrites DEF StoreInv, TablesOK
  <1>4. WorkerOK'
    BY <1>1, <1>2 DEF StoreInv, WorkerOK
  <1> QED
    BY <1>3, <1>4 DEF StoreInv

LEMMA RollbackStep ==
    ASSUME Workers = {1}, StoreInv, Rollback(1)
    PROVE  StoreInv'
  <1>1. late' = {} /\ DOMAIN tx' = {1} /\ tx'[1] = Idle
    BY WorkerEnds DEF Rollback
  <1>2. UNCHANGED <<db, content, runs, migrated, merged>>
    BY DEF Rollback
  <1>3. TablesOK'
    BY <1>1, <1>2 DEF StoreInv, TablesOK
  <1>4. WorkerOK'
    BY <1>1, <1>2 DEF StoreInv, WorkerOK
  <1> QED
    BY <1>3, <1>4 DEF StoreInv

LEMMA AnnotateKeeps ==
    ASSUME Workers = {1}, StoreInv, NEW a \in RowsOf(db, "accounts"), NEW g \in TagNames, Annotate(a, g)
    PROVE  StoreInv' /\ Grows(Settled, db')
  <1> DEFINE d == db
             m == merged
             e == [rows |-> d.rows, arch |-> d.arch, tags |-> d.tags \cup {<<a, g>>}]
             read == d.tags \ late
  <1>1. /\ db' = e /\ UNCHANGED <<tx, content, runs, migrated, merged>>
        /\ <<a, g>> \notin d.tags
        /\ late' = IF \A w \in Workers : tx[w] = Idle THEN late ELSE late \cup {<<a, g>>}
    BY DEF Annotate
  <1>2. e.rows = d.rows /\ e.arch = d.arch /\ e.tags = d.tags \cup {<<a, g>>}
    OBVIOUS
  <1>3. Sound(d, 0, m) /\ Typed(d.tags, d) /\ late \subseteq d.tags
    BY DEF StoreInv, TablesOK
  <1>4. Typed(e.tags, e)
    <2>1. RowsOf(e, "accounts") = RowsOf(d, "accounts")
      BY <1>2 DEF RowsOf
    <2>2. a \in RowsOf(d, "accounts")
      OBVIOUS
    <2> HIDE DEF e, d
    <2> QED
      BY <1>2, <1>3, <2>1, <2>2 DEF Typed
  <1>5. e = [rows |-> e.rows, arch |-> e.arch, tags |-> e.tags]
    OBVIOUS
  <1>6. Sound(e, 0, m) /\ \A t, c, r : TxOK(t, c, d, m, r) => TxOK(t, c, e, m, r)
    <2> HIDE DEF e, d, m
    <2> QED
      BY <1>2, <1>3, AnnotateStep
  <1>7. Grows(Settled, db')
    <2> DEFINE x == Settled
    <2>1. x.rows = d.rows /\ x.arch = d.arch /\ x.tags \subseteq e.tags
      BY <1>2 DEF Settled
    <2> HIDE DEF x, e, d, m
    <2>2. Sound(x, 0, m)
      BY <1>3, <2>1, SoundFrame
    <2>3. Grows(x, e)
      BY <1>2, <1>6, <2>1, <2>2, AdditionGrows DEF Sound
    <2> QED
      BY <1>1, <2>3 DEF x
  <1> HIDE DEF e
  <1>8. late' \subseteq e.tags
    BY <1>1, <1>2, <1>3
  <1>9. TablesOK'
    BY <1>1, <1>4, <1>5, <1>6, <1>8 DEF StoreInv, TablesOK
  <1>10. CASE tx[1] = Idle
    <2>1. tx' = tx /\ content' = content
      BY <1>1
    <2>2. late' = {} /\ DOMAIN tx' = {1} /\ tx'[1] = Idle
      BY <1>1, <1>10 DEF StoreInv, WorkerOK
    <2>3. WorkerOK'
      BY <2>1, <2>2 DEF StoreInv, WorkerOK
    <2> QED
      BY <1>7, <1>9, <2>3 DEF StoreInv
  <1>11. CASE tx[1] # Idle
    <2>1. late' = late \cup {<<a, g>>} /\ tx' = tx /\ content' = content
      BY <1>1, <1>11
    <2>2. db'.tags \ late' = read
      BY <1>1, <1>2, <1>3, <2>1
    <2>3. TxOK(tx[1], content, d, m, read)
      BY <1>11 DEF StoreInv, WorkerOK
    <2>4. TxOK(tx[1], content, e, m, read)
      BY <1>6, <2>3
    <2>6. TxOK(tx[1], content, db, merged, db.tags \ late)'
      BY <1>1, <2>1, <2>2, <2>4
    <2>5. WorkerOK'
      BY <1>11, <2>1, <2>6 DEF StoreInv, WorkerOK
    <2> QED
      BY <1>7, <1>9, <2>5 DEF StoreInv
  <1> QED
    BY <1>7, <1>10, <1>11

LEMMA StoreStutters ==
    ASSUME StoreInv, UNCHANGED vars
    PROVE  StoreInv'
  <1>1. UNCHANGED <<db, tx, content, runs, migrated, merged, late>>
    BY DEF vars
  <1>2. TablesOK'
    BY <1>1 DEF StoreInv, TablesOK
  <1>3. WorkerOK'
    BY <1>1 DEF StoreInv, WorkerOK
  <1> QED
    BY <1>2, <1>3 DEF StoreInv

LEMMA StoreNext ==
    ASSUME Workers = {1}, StoreInv, [Next]_vars
    PROVE  StoreInv'
  <1>1. CASE Process(1)
    <2>1. CASE BeginDedupe(1)
      BY <2>1, BeginDedupeStep
    <2>2. CASE \E s \in Sessions : Begin(1, s)
      BY <2>2, BeginSessionStep
    <2>3. CASE \E n \in DOMAIN Order : OpenKind(1, n)
      BY <2>3, OpenKindStep
    <2>4. CASE \E keeper, gone : MergeOne(1, keeper, gone)
      BY <2>4, MergeOneStep
    <2>5. CASE \E n \in tx[1].work.todo : MatchOne(1, n)
      BY <2>5, MatchOneStep
    <2>6. CASE \E n : InsertNew(1, n)
      BY <2>6, InsertNewStep
    <2>7. CASE \E id, order : StoreHit(1, id, order)
      BY <2>7, StoreHitStep
    <2>8. CASE Commit(1)
      BY <2>8, CommitStoreStep
    <2>9. CASE Rollback(1)
      BY <2>9, RollbackStep
    <2> QED
      BY <1>1, <2>1, <2>2, <2>3, <2>4, <2>5, <2>6, <2>7, <2>8, <2>9 DEF Process
  <1>2. CASE \E a \in RowsOf(db, "accounts"), g \in TagNames : Annotate(a, g)
    BY <1>2, AnnotateKeeps
  <1>3. CASE UNCHANGED vars
    BY <1>3, StoreStutters
  <1> QED
    BY <1>1, <1>2, <1>3 DEF Next

\* Only a commit and an annotation write the tables.
LEMMA StoreGrowsOnly ==
    ASSUME Workers = {1}, StoreInv, [Next]_vars
    PROVE  db' = db \/ Grows(Settled, db')
  <1>1. CASE Process(1)
    <2>1. CASE Commit(1)
      BY <2>1, CommitWrites
    <2>2. CASE ~Commit(1)
      BY <1>1, <2>2 DEF Process, BeginDedupe, Begin, OpenKind, MergeOne, MatchOne, InsertNew, StoreHit, Rollback
    <2> QED
      BY <2>1, <2>2
  <1>2. CASE \E a \in RowsOf(db, "accounts"), g \in TagNames : Annotate(a, g)
    BY <1>2, AnnotateKeeps
  <1>3. CASE UNCHANGED vars
    BY <1>3 DEF vars
  <1> QED
    BY <1>1, <1>2, <1>3 DEF Next

LEMMA StoreInvHolds ==
    ASSUME Workers = {1}
    PROVE  Spec => []StoreInv
  BY InitStore, StoreNext, PTL DEF Spec

-----------------------------------------------------------------------------
(* The theorems.  Workers = {1} is the server with its one job thread: two *)
(* writers whose transactions overlap do break them.                       *)

\* Whatever the extractions hold and in whichever order sessions are taken in and taken
\* in again (Begin to Commit), through merges, failures and annotations: a foreign key
\* names a row of its table, every record a row of its kind, a merged account has nothing
\* left by which it is found or counted, and post_count is the number of posts.
THEOREM ReferencesStaySound ==
    ASSUME Workers = {1}
    PROVE  Spec => []ReferencesAreSound
  <1>1. StoreInv => ReferencesAreSound
    <2> SUFFICES ASSUME StoreInv PROVE ReferencesAreSound
      OBVIOUS
    <2>1. Sound(db, 0, merged) /\ Typed(db.tags, db) /\ late \subseteq db.tags
          /\ runs \in 0..MaxRuns /\ migrated \in BOOLEAN
      BY DEF StoreInv, TablesOK
    <2>2. \A w \in Workers : tx[w].session \in Sessions \cup {0, None}
      BY DEF StoreInv, WorkerOK, TxOK, Idle
    <2>3. TypeOK
      BY <2>1, <2>2 DEF TypeOK, Sound, Typed
    <2>4. TombstonesAreInert
      BY <2>1 DEF TombstonesAreInert, Sound
    <2>5. CountsAgree
      BY <2>1, CountedWhen DEF CountsAgree
    <2> QED
      BY <2>3, <2>4, <2>5 DEF ReferencesAreSound
  <1> QED
    BY <1>1, StoreInvHolds, PTL

\* A canonical row (reconcile_X, synthesize_from_archives, preserve_canonical_identifiers)
\* never mixes two identities, and unless a merge touched it it has a value that one of
\* its records has, for media the largest file, however often a session is taken in.
THEOREM CanonicalRowsStayRight ==
    ASSUME Workers = {1}
    PROVE  Spec => []CanonicalRowsAreRight
  <1>1. StoreInv => CanonicalRowsAreRight
    <2> SUFFICES ASSUME StoreInv PROVE CanonicalRowsAreRight
      OBVIOUS
    <2>1. Sound(db, 0, merged)
      BY DEF StoreInv, TablesOK
    <2>2. RowIsOneIdentity
      BY <2>1 DEF RowIsOneIdentity, Sound
    <2>3. CanonicalIsSynthesis
      BY <2>1 DEF CanonicalIsSynthesis, Sound, Untouched
    <2> QED
      BY <2>2, <2>3 DEF CanonicalRowsAreRight
  <1> QED
    BY <1>1, StoreInvHolds, PTL

\* No commit (merge_account_into, Phases 3 and 4 of the intake, V038) and no annotation
\* takes away what was shown under an account's number, redirected or not: identifiers,
\* sessions, posts and the tags that no merge under way could have missed.
THEOREM EvidenceIsKept ==
    ASSUME Workers = {1}
    PROVE  Spec => EvidenceOnlyGrows
  <1> DEFINE Added == \A i \in RowsOf(db, "accounts") : Shown(Settled, i) \subseteq Shown(db', i)
  <1>1. StoreInv /\ [Next]_vars => [Added]_db
    <2> SUFFICES ASSUME StoreInv, [Next]_vars, db' # db PROVE Added
      OBVIOUS
    <2>1. Grows(Settled, db')
      BY StoreGrowsOnly
    <2>2. RowsOf(Settled, "accounts") = RowsOf(db, "accounts")
      BY DEF Settled, RowsOf
    <2> QED
      BY <2>1, <2>2 DEF Grows
  <1> QED
    BY <1>1, StoreInvHolds, PTL DEF Spec, EvidenceOnlyGrows

=============================================================================
