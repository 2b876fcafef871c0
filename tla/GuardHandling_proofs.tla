------------------------- MODULE GuardHandling_proofs -------------------------
(***************************************************************************)
(* Proofs about GuardHandling, for every number of guards, every set of    *)
(* consensuses and all lifetimes.                                          *)
(***************************************************************************)
EXTENDS GuardHandling, FiniteSetTheorems, FunctionTheorems, SequenceTheorems, TLAPS

-----------------------------------------------------------------------------
(* What Ascending and Only are.                                            *)
Rising(f) == \A i, j \in DOMAIN f : i < j => f[i] < f[j]

Enumerable(S) == \E f \in [1 .. Cardinality(S) -> S] : Rising(f)

LEMMA StrictlyBelow ==
  ASSUME NEW S, NEW T \in SUBSET S, NEW U \in SUBSET T, NEW x \in T, x \notin U
  PROVE  <<U, T>> \in StrictSubsetOrdering(S)
BY DEF StrictSubsetOrdering

LEMMA HasMaximum ==
  ASSUME NEW S \in SUBSET Int, IsFiniteSet(S), S # {}
  PROVE  \E m \in S : \A i \in S : i <= m
<1> DEFINE From(m) == {i \in S : i >= m}
           Tails == {From(m) : m \in S}
<1>1. Tails \subseteq FiniteSubsetsOf(Int)
  BY FS_Subset DEF FiniteSubsetsOf
<1>2. Tails # {}
  OBVIOUS
<1> HIDE DEF Tails
<1>3. PICK T \in Tails : \A U \in Tails : <<U, T>> \notin StrictSubsetOrdering(Int)
  BY <1>1, <1>2, FS_StrictSubsetOrderingWellFounded, WFMin
<1>4. PICK m \in S : T = From(m)
  BY DEF Tails
<1>5. ASSUME NEW i \in S, i > m PROVE FALSE
  <2>1. From(i) \in Tails
    BY DEF Tails
  <2>2. From(i) \subseteq From(m) /\ m \in From(m) /\ m \notin From(i)
    <3>1. S \subseteq Int /\ i \in Int /\ m \in Int
      OBVIOUS
    <3>2. m >= m /\ ~(m >= i) /\ \A k \in S : k >= i => k >= m
      BY <1>5, <3>1
    <3> QED
      BY <3>2
  <2>3. From(i) \in SUBSET Int /\ From(m) \in SUBSET Int
    OBVIOUS
  <2> HIDE DEF From
  <2>4. <<From(i), From(m)>> \in StrictSubsetOrdering(Int)
    BY <2>2, <2>3, StrictlyBelow
  <2> QED
    BY <1>3, <1>4, <2>1, <2>4
<1> QED
  BY <1>5

LEMMA EnumerableStep ==
  ASSUME NEW S \in SUBSET Int, IsFiniteSet(S), NEW m \in S, \A i \in S : i <= m,
         Enumerable(S \ {m})
  PROVE  Enumerable(S)
<1> DEFINE n == Cardinality(S \ {m})
<1>1. n \in Nat /\ Cardinality(S) = n + 1
  <2>1. IsFiniteSet(S \ {m}) /\ Cardinality(S \ {m}) = Cardinality(S) - 1
    BY FS_RemoveElement
  <2>2. Cardinality(S) \in Nat /\ Cardinality(S \ {m}) \in Nat
    BY <2>1, FS_CardinalityType
  <2> QED
    BY <2>1, <2>2
<1>2. PICK f \in [1 .. n -> S \ {m}] : Rising(f)
  BY DEF Enumerable
<1> HIDE DEF n
<1> DEFINE g == [i \in 1 .. n + 1 |-> IF i = n + 1 THEN m ELSE f[i]]
<1>3. g \in [1 .. n + 1 -> S]
  BY <1>1
<1>4. ASSUME NEW i \in 1 .. n + 1, NEW j \in 1 .. n + 1, i < j
      PROVE  g[i] < g[j]
  <2>1. i \in 1 .. n /\ g[i] = f[i] /\ f[i] \in S \ {m}
    BY <1>1, <1>4
  <2>2. CASE j = n + 1
    <3>1. g[j] = m /\ f[i] <= m /\ f[i] # m
      BY <1>1, <2>1, <2>2
    <3>2. f[i] \in Int /\ m \in Int
      BY <2>1
    <3> HIDE DEF g
    <3> QED
      BY <2>1, <3>1, <3>2
  <2>3. CASE j # n + 1
    <3>1. j \in 1 .. n /\ g[j] = f[j]
      BY <1>1, <2>3
    <3> QED
      BY <1>2, <1>4, <2>1, <3>1 DEF Rising
  <2> QED
    BY <2>2, <2>3
<1>5. DOMAIN g = 1 .. n + 1
  OBVIOUS
<1> HIDE DEF g
<1>6. Rising(g)
  BY <1>4, <1>5 DEF Rising
<1> QED
  BY <1>1, <1>3, <1>6 DEF Enumerable

LEMMA FiniteSetsAreEnumerable ==
  ASSUME NEW S \in SUBSET Int, IsFiniteSet(S)
  PROVE  Enumerable(S)
<1> DEFINE Bad == {T \in FiniteSubsetsOf(Int) : ~Enumerable(T)}
<1> SUFFICES ASSUME Bad # {} PROVE FALSE
  BY DEF FiniteSubsetsOf
<1>1. Bad \subseteq FiniteSubsetsOf(Int)
  OBVIOUS
<1> HIDE DEF Bad
<1>2. PICK T \in Bad : \A U \in Bad : <<U, T>> \notin StrictSubsetOrdering(Int)
  BY <1>1, FS_StrictSubsetOrderingWellFounded, WFMin
<1>3. T \in SUBSET Int /\ IsFiniteSet(T) /\ ~Enumerable(T)
  BY DEF Bad, FiniteSubsetsOf
<1>4. CASE T = {}
  <2>1. Cardinality(T) = 0
    BY <1>4, FS_EmptySet
  <2> DEFINE f == [i \in 1 .. 0 |-> i]
  <2>2. f \in [1 .. 0 -> T] /\ Rising(f)
    BY DEF Rising
  <2> QED
    BY <1>3, <2>1, <2>2 DEF Enumerable
<1>5. CASE T # {}
  <2>1. PICK m \in T : \A i \in T : i <= m
    BY <1>3, <1>5, HasMaximum
  <2>2. T \ {m} \in SUBSET Int /\ IsFiniteSet(T \ {m})
    BY <1>3, FS_RemoveElement
  <2>3. <<T \ {m}, T>> \in StrictSubsetOrdering(Int)
    BY <1>3, <2>2, StrictlyBelow
  <2>4. Enumerable(T \ {m})
    BY <1>2, <2>2, <2>3 DEF Bad, FiniteSubsetsOf
  <2> QED
    BY <1>3, <2>1, <2>4, EnumerableStep
<1> QED
  BY <1>4, <1>5

LEMMA AscendingIs ==
  ASSUME NEW S \in SUBSET Int, IsFiniteSet(S)
  PROVE  /\ Ascending(S) \in [1 .. Cardinality(S) -> S]
         /\ Cardinality(S) \in Nat
         /\ \A i, j \in 1 .. Cardinality(S) : Ascending(S)[i] = Ascending(S)[j] => i = j
         /\ \A s \in S : \E i \in 1 .. Cardinality(S) : Ascending(S)[i] = s
<1> DEFINE n == Cardinality(S)
           f == Ascending(S)
<1>1. n \in Nat
  BY FS_CardinalityType
<1>2. f \in [1 .. n -> S] /\ Rising(f)
  BY FiniteSetsAreEnumerable DEF Enumerable, Rising, Ascending
<1> HIDE DEF f
<1>3. ASSUME NEW i \in 1 .. n, NEW j \in 1 .. n, f[i] = f[j] PROVE i = j
  <2>1. f[i] \in Int /\ i \in DOMAIN f /\ j \in DOMAIN f
    BY <1>2
  <2>2. ~(i < j) /\ ~(j < i)
    BY <1>2, <1>3, <2>1 DEF Rising
  <2> QED
    BY <1>1, <2>2
<1>4. f \in Surjection(1 .. n, S)
  <2>1. f \in Injection(1 .. n, S)
    BY <1>2, <1>3, Fun_IsInj
  <2>2. Cardinality(1 .. n) = n
    BY <1>1, FS_Interval
  <2> QED
    BY <2>1, <2>2, FS_Injection
<1>5. \A s \in S : \E i \in 1 .. n : f[i] = s
  <2> HIDE DEF n
  <2> QED
    BY <1>4 DEF Surjection
<1> QED
  BY <1>1, <1>2, <1>3, <1>5 DEF f

(* The retained guards are those with a fingerprint in fps, each once.     *)
LEMMA OnlyIs ==
  ASSUME NEW S, NEW vec \in Seq(S), NEW fps
  PROVE  /\ Only(vec, fps) \in Seq(S)
         /\ \A n \in DOMAIN Only(vec, fps) : \E i \in DOMAIN vec :
              Only(vec, fps)[n] = vec[i] /\ vec[i].fingerprint \in fps
         /\ \A i \in DOMAIN vec : vec[i].fingerprint \in fps =>
              \E n \in DOMAIN Only(vec, fps) : Only(vec, fps)[n] = vec[i]
         /\ Fingerprints(Only(vec, fps)) = Fingerprints(vec) \cap fps
         /\ Distinct(vec) => Distinct(Only(vec, fps))
<1> DEFINE kept == {i \in DOMAIN vec : vec[i].fingerprint \in fps}
           order == Ascending(kept)
           r == Only(vec, fps)
<1>1. DOMAIN vec = 1 .. Len(vec) /\ Len(vec) \in Nat /\ \A i \in DOMAIN vec : vec[i] \in S
  BY LenProperties
<1>2. kept \in SUBSET Int /\ IsFiniteSet(kept)
  <2>1. IsFiniteSet(1 .. Len(vec)) /\ kept \in SUBSET (1 .. Len(vec))
    BY <1>1, FS_Interval
  <2>2. kept \in SUBSET Int
    BY <2>1, <1>1
  <2> HIDE DEF kept
  <2> QED
    BY <2>1, <2>2, FS_Subset
<1>3. \A i : i \in kept <=> i \in DOMAIN vec /\ vec[i].fingerprint \in fps
  OBVIOUS
<1>4. r = [n \in DOMAIN order |-> vec[order[n]]]
  BY DEF Only
<1> HIDE DEF kept, r
<1> DEFINE n == Cardinality(kept)
<1>5. /\ n \in Nat /\ order \in [1 .. n -> kept]
      /\ \A i, j \in 1 .. n : order[i] = order[j] => i = j
      /\ \A k \in kept : \E i \in 1 .. n : order[i] = k
  BY <1>2, AscendingIs
<1> HIDE DEF n, order
<1>6. r = [k \in 1 .. n |-> vec[order[k]]] /\ \A k \in 1 .. n : order[k] \in kept
  BY <1>4, <1>5
<1>7. DOMAIN r = 1 .. n /\ \A k \in 1 .. n : r[k] = vec[order[k]] /\ order[k] \in kept
  BY <1>6
<1>8. r \in Seq(S)
  <2>1. \A k \in 1 .. n : vec[order[k]] \in S
    BY <1>1, <1>3, <1>6
  <2> QED
    BY <1>5, <1>6, <2>1
<1>9. \A k \in DOMAIN r : \E i \in DOMAIN vec : r[k] = vec[i] /\ vec[i].fingerprint \in fps
  BY <1>3, <1>7
<1>10. ASSUME NEW i \in DOMAIN vec, vec[i].fingerprint \in fps
       PROVE  \E k \in DOMAIN r : r[k] = vec[i]
  <2>1. PICK k \in 1 .. n : order[k] = i
    BY <1>3, <1>5, <1>10
  <2> QED
    BY <1>7, <2>1
<1>11. Fingerprints(r) = Fingerprints(vec) \cap fps
  BY <1>9, <1>10 DEF Fingerprints
<1>12. Distinct(vec) => Distinct(r)
  <2> SUFFICES ASSUME Distinct(vec), NEW i \in DOMAIN r, NEW j \in DOMAIN r,
                      r[i].fingerprint = r[j].fingerprint
               PROVE  i = j
    BY DEF Distinct
  <2>1. order[i] = order[j]
    BY <1>3, <1>7 DEF Distinct
  <2> QED
    BY <1>5, <1>7, <2>1
<1> QED
  BY <1>8, <1>9, <1>10, <1>11, <1>12 DEF r

LEMMA OutsideIs ==
  ASSUME NEW S, NEW vec \in Seq(S), NEW gone
  PROVE  /\ Outside(vec, gone) \in Seq(S)
         /\ \A n \in DOMAIN Outside(vec, gone) : \E i \in DOMAIN vec :
              Outside(vec, gone)[n] = vec[i] /\ vec[i].fingerprint \notin gone
         /\ \A i \in DOMAIN vec : vec[i].fingerprint \notin gone =>
              \E n \in DOMAIN Outside(vec, gone) : Outside(vec, gone)[n] = vec[i]
         /\ Fingerprints(Outside(vec, gone)) = Fingerprints(vec) \ gone
         /\ Distinct(vec) => Distinct(Outside(vec, gone))
<1> DEFINE fps == Fingerprints(vec) \ gone
<1>1. \A i \in DOMAIN vec : vec[i].fingerprint \in fps <=> vec[i].fingerprint \notin gone
  BY DEF Fingerprints
<1>2. Fingerprints(vec) \cap fps = Fingerprints(vec) \ gone
  OBVIOUS
<1>3. Outside(vec, gone) = Only(vec, fps)
  BY DEF Outside
<1> HIDE DEF fps
<1> QED
  BY <1>1, <1>2, <1>3, OnlyIs

(* The primary guards are confirmed, and listed in the sample.             *)
LEMMA PrimaryIs ==
  ASSUME NEW smp, NEW cfm \in Seq(ConfirmedGuard)
  PROVE  /\ PrimaryOf(smp, cfm) \in Seq(Guard) /\ Len(PrimaryOf(smp, cfm)) <= NPrimaryGuards
         /\ \A i \in DOMAIN PrimaryOf(smp, cfm) :
              PrimaryOf(smp, cfm)[i] \in Listed(smp) \cap Fingerprints(cfm)
<1> DEFINE usable == Only(cfm, Listed(smp))
           n == IF Len(usable) < NPrimaryGuards THEN Len(usable) ELSE NPrimaryGuards
           p == PrimaryOf(smp, cfm)
<1>1. p = [i \in 1 .. n |-> usable[i].fingerprint]
  BY DEF PrimaryOf
<1>2. /\ usable \in Seq(ConfirmedGuard)
      /\ Fingerprints(usable) = Fingerprints(cfm) \cap Listed(smp)
  BY OnlyIs
<1> HIDE DEF usable, p
<1>3. Len(usable) \in Nat /\ DOMAIN usable = 1 .. Len(usable) /\ NPrimaryGuards \in Nat
  BY <1>2, LenProperties, SampleAssumption
<1>4. n \in Nat /\ n <= NPrimaryGuards /\ 1 .. n \subseteq DOMAIN usable
  BY <1>3
<1> HIDE DEF n
<1>5. \A i \in 1 .. n : /\ usable[i].fingerprint \in Guard
                       /\ usable[i].fingerprint \in Fingerprints(usable)
  <2>1. \A i \in DOMAIN usable : usable[i] \in ConfirmedGuard
    BY <1>2, <1>3
  <2>2. \A i \in DOMAIN usable : usable[i].fingerprint \in Guard
    BY <2>1 DEF ConfirmedGuard
  <2> QED
    BY <1>4, <2>2 DEF Fingerprints
<1>6. p \in [1 .. n -> Guard]
  BY <1>1, <1>5
<1>7. p \in Seq(Guard) /\ DOMAIN p = 1 .. n
  BY <1>4, <1>6
<1>8. Len(p) = n
  BY <1>4, <1>7
<1> QED
  BY <1>1, <1>2, <1>4, <1>5, <1>7, <1>8 DEF p

-----------------------------------------------------------------------------
(* A sampled guard is listed when the consensus of the moment says so.     *)
Listings ==
  \A i \in DOMAIN sampled : IsListed(sampled[i]) <=> sampled[i].fingerprint \in consensus.running

(* How far the date of addition may be from the true time of sampling.     *)
AddedDates ==
  \A i \in DOMAIN sampled :
    LET s == since[sampled[i].fingerprint]
    IN  s <= now /\ s - AddedJitter < sampled[i].added_on /\ sampled[i].added_on <= s

(* A guard is confirmed within its lifetime.                               *)
ConfirmedDates ==
  \A k \in DOMAIN confirmed :
    /\ confirmed[k].confirmed_on <= now
    /\ \A i \in DOMAIN sampled : sampled[i].fingerprint = confirmed[k].fingerprint =>
         confirmed[k].confirmed_on < since[sampled[i].fingerprint] + GuardLifetime

(* What a guard must be to be kept.                                        *)
Young(guard) == now - guard.added_on < GuardLifetime

LatelyConfirmed(guard) ==
  \E k \in DOMAIN confirmed :
    /\ confirmed[k].fingerprint = guard.fingerprint
    /\ now - confirmed[k].confirmed_on < ConfirmedMinLifetime

KeptForCause ==
  \A i \in DOMAIN sampled : Young(sampled[i]) \/ LatelyConfirmed(sampled[i])

Guards == Listings /\ AddedDates /\ ConfirmedDates /\ KeptForCause

IInv == TypeOK /\ NoDuplicates /\ PrimaryUsable /\ Guards /\ AlwaysAGuard

LEMMA ConstantsTyped ==
  /\ GuardLifetime \in Nat /\ ConfirmedMinLifetime \in Nat /\ RemoveUnlistedAfter \in Nat
  /\ AddedJitter \in Nat \ {0} /\ AddedJitter <= GuardLifetime /\ UnlistedJitter \in Nat \ {0}
  /\ MaxTime \in Nat
  /\ MinFilteredSample \in Nat \ {0} /\ MaxSampleSize \in Nat \ {0}
  /\ SampleOneOf \in Nat \ {0} /\ NPrimaryGuards \in Nat \ {0}
BY LifetimeAssumption, SampleAssumption

LEMMA SampledTyped ==
  ASSUME TypeOK
  PROVE  /\ \A i \in DOMAIN sampled :
              /\ sampled[i] \in SampledGuard
              /\ sampled[i].fingerprint \in Fingerprints(sampled)
              /\ sampled[i].fingerprint \in Guard /\ sampled[i].added_on \in Int
              /\ since[sampled[i].fingerprint] \in Nat
         /\ \A k \in DOMAIN confirmed :
              /\ confirmed[k].fingerprint \in Guard /\ confirmed[k].confirmed_on \in Int
         /\ Fingerprints(sampled) \subseteq Guard
         /\ now \in Nat
<1>1. /\ \A i \in DOMAIN sampled : sampled[i] \in SampledGuard
      /\ \A k \in DOMAIN confirmed : confirmed[k] \in ConfirmedGuard
      /\ since \in [Fingerprints(sampled) -> Nat] /\ now \in Nat
  BY LenProperties DEF TypeOK
<1>2. \A i \in DOMAIN sampled : sampled[i].fingerprint \in Fingerprints(sampled)
  BY DEF Fingerprints
<1>3. \A i \in DOMAIN sampled : sampled[i].fingerprint \in Guard /\ sampled[i].added_on \in Int
  BY <1>1 DEF SampledGuard
<1>4. \A k \in DOMAIN confirmed :
        confirmed[k].fingerprint \in Guard /\ confirmed[k].confirmed_on \in Int
  BY <1>1 DEF ConfirmedGuard
<1>5. Fingerprints(sampled) \subseteq Guard
  BY <1>3 DEF Fingerprints
<1> QED
  BY <1>1, <1>2, <1>3, <1>4, <1>5

LEMMA RelistIs ==
  ASSUME NEW guard \in SampledGuard, NEW cs, NEW when \in Int
  PROVE  /\ Relist(guard, cs, when) \in SampledGuard
         /\ Relist(guard, cs, when).fingerprint = guard.fingerprint
         /\ Relist(guard, cs, when).added_on = guard.added_on
         /\ IsListed(Relist(guard, cs, when)) <=> guard.fingerprint \in cs.running
<1>1. when # None
  BY NoneAssumption
<1> QED
  BY <1>1 DEF Relist, SampledGuard, IsListed

(* timed_updates: who stays, and why the others go.                        *)
LEMMA Updated ==
  ASSUME TypeOK, NoDuplicates, NEW t \in now .. MaxTime, NEW cs \in Consensuses,
         TimedUpdates(t, cs)
  PROVE  /\ sampled' \in Seq(SampledGuard) /\ confirmed' \in Seq(ConfirmedGuard)
         /\ NoDuplicates'
         /\ Fingerprints(sampled') \subseteq Fingerprints(sampled)
         /\ \A n \in DOMAIN sampled' : \E i \in DOMAIN sampled :
              /\ sampled'[n].fingerprint = sampled[i].fingerprint
              /\ sampled'[n].added_on = sampled[i].added_on
              /\ IsListed(sampled'[n]) <=> sampled[i].fingerprint \in cs.running
              /\ ~TooOld(sampled[i], t)
         /\ \A k \in DOMAIN confirmed' : \E j \in DOMAIN confirmed : confirmed'[k] = confirmed[j]
         /\ \A j \in DOMAIN confirmed : confirmed[j].fingerprint \in Fingerprints(sampled') =>
              \E k \in DOMAIN confirmed' : confirmed'[k] = confirmed[j]
         /\ \A i \in DOMAIN sampled :
              /\ sampled[i].fingerprint \notin Fingerprints(sampled')
              /\ sampled[i].fingerprint \in cs.running
              => t - sampled[i].added_on >= GuardLifetime
<1> DEFINE relisted(when) == [i \in DOMAIN sampled |-> Relist(sampled[i], cs, when[i])]
           old(when)  == {i \in DOMAIN relisted(when) : \/ OfflineTooLong(relisted(when)[i], t)
                                                       \/ TooOld(relisted(when)[i], t)}
           gone(when) == {relisted(when)[i].fingerprint : i \in old(when)}
<1>1. PICK when \in [DOMAIN sampled -> RandomPast(t, UnlistedJitter)] :
        sampled' = Outside(relisted(when), gone(when)) /\ confirmed' = Outside(confirmed, gone(when))
  BY DEF TimedUpdates
<1> DEFINE rel == relisted(when)
           bad == old(when)
           out == gone(when)
<1>2. /\ DOMAIN rel = DOMAIN sampled
      /\ \A i \in DOMAIN sampled : rel[i] = Relist(sampled[i], cs, when[i])
      /\ rel = [i \in DOMAIN sampled |-> Relist(sampled[i], cs, when[i])]
  OBVIOUS
<1>3. \A i : i \in bad <=> i \in DOMAIN rel /\ (OfflineTooLong(rel[i], t) \/ TooOld(rel[i], t))
  OBVIOUS
<1>4. out = {rel[i].fingerprint : i \in bad}
  OBVIOUS
<1>5. sampled' = Outside(rel, out) /\ confirmed' = Outside(confirmed, out)
  BY <1>1
<1> HIDE DEF rel, bad, out, relisted, old, gone
<1>6. \A i \in DOMAIN sampled : when[i] \in Int
  BY ConstantsTyped DEF RandomPast, TypeOK
<1>7. \A i \in DOMAIN sampled :
        /\ rel[i] \in SampledGuard
        /\ rel[i].fingerprint = sampled[i].fingerprint
        /\ rel[i].added_on = sampled[i].added_on
        /\ IsListed(rel[i]) <=> sampled[i].fingerprint \in cs.running
  BY <1>2, <1>6, SampledTyped, RelistIs
<1>8. rel \in Seq(SampledGuard)
  <2>1. DOMAIN sampled = 1 .. Len(sampled) /\ Len(sampled) \in Nat
    BY LenProperties DEF TypeOK
  <2>2. rel \in [1 .. Len(sampled) -> SampledGuard]
    BY <1>2, <1>7, <2>1
  <2> QED
    BY <2>1, <2>2
<1>9. Distinct(rel) /\ Fingerprints(rel) = Fingerprints(sampled)
  BY <1>2, <1>7 DEF NoDuplicates, Distinct, Fingerprints
<1>10. confirmed \in Seq(ConfirmedGuard)
  BY DEF TypeOK
<1>11. /\ sampled' \in Seq(SampledGuard)
       /\ \A n \in DOMAIN sampled' : \E i \in DOMAIN rel :
            sampled'[n] = rel[i] /\ rel[i].fingerprint \notin out
       /\ Fingerprints(sampled') = Fingerprints(rel) \ out
       /\ Distinct(sampled')
  BY <1>5, <1>8, <1>9, OutsideIs
<1>12. /\ confirmed' \in Seq(ConfirmedGuard)
       /\ \A k \in DOMAIN confirmed' : \E j \in DOMAIN confirmed : confirmed'[k] = confirmed[j]
       /\ \A j \in DOMAIN confirmed : confirmed[j].fingerprint \notin out =>
            \E k \in DOMAIN confirmed' : confirmed'[k] = confirmed[j]
       /\ Distinct(confirmed')
  BY <1>5, <1>10, OutsideIs DEF NoDuplicates
<1>13. \A i \in DOMAIN sampled : TooOld(rel[i], t) <=> TooOld(sampled[i], t)
  BY <1>7 DEF TooOld, NotLatelyConfirmed
<1>14. ASSUME NEW n \in DOMAIN sampled'
       PROVE  \E i \in DOMAIN sampled :
                /\ sampled'[n].fingerprint = sampled[i].fingerprint
                /\ sampled'[n].added_on = sampled[i].added_on
                /\ IsListed(sampled'[n]) <=> sampled[i].fingerprint \in cs.running
                /\ ~TooOld(sampled[i], t)
  <2>1. PICK i \in DOMAIN sampled : sampled'[n] = rel[i] /\ rel[i].fingerprint \notin out
    BY <1>2, <1>11
  <2>2. ~TooOld(sampled[i], t)
    BY <1>2, <1>3, <1>4, <1>13, <2>1
  <2> QED
    BY <1>7, <2>1, <2>2
<1>15. ASSUME NEW i \in DOMAIN sampled, sampled[i].fingerprint \notin Fingerprints(sampled'),
              sampled[i].fingerprint \in cs.running
       PROVE  t - sampled[i].added_on >= GuardLifetime
  <2>1. sampled[i].fingerprint \in Fingerprints(rel)
    BY <1>9, SampledTyped
  <2>2. PICK j \in bad : rel[j].fingerprint = sampled[i].fingerprint
    BY <1>4, <1>11, <1>15, <2>1
  <2>3. j \in DOMAIN sampled /\ sampled[j].fingerprint = sampled[i].fingerprint
    BY <1>2, <1>3, <1>7, <2>2
  <2>4. j = i
    BY <2>3 DEF NoDuplicates, Distinct
  <2>5. IsListed(rel[i])
    BY <1>7, <1>15
  <2>6. TooOld(sampled[i], t)
    BY <1>3, <1>13, <2>2, <2>4, <2>5 DEF OfflineTooLong
  <2> QED
    BY <2>6 DEF TooOld
<1>16. Fingerprints(sampled') \subseteq Fingerprints(sampled) /\ Fingerprints(sampled') \cap out = {}
  BY <1>9, <1>11
<1>17. NoDuplicates'
  BY <1>11, <1>12 DEF NoDuplicates, Distinct
<1> QED
  BY <1>11, <1>12, <1>14, <1>15, <1>16, <1>17

LEMMA TimedUpdatesTyped ==
  ASSUME IInv, NEW t \in now .. MaxTime, NEW cs \in Consensuses, TimedUpdates(t, cs)
  PROVE  TypeOK' /\ PrimaryUsable'
<1>1. t \in Nat
  BY ConstantsTyped DEF IInv, TypeOK
<1>2. /\ sampled' \in Seq(SampledGuard) /\ confirmed' \in Seq(ConfirmedGuard)
      /\ Fingerprints(sampled') \subseteq Fingerprints(sampled)
  BY Updated DEF IInv
<1>3. /\ primary' \in Seq(Guard) /\ Len(primary') <= NPrimaryGuards
      /\ \A i \in DOMAIN primary' : primary'[i] \in Listed(sampled') \cap Fingerprints(confirmed')
  <2>1. primary' = PrimaryOf(sampled', confirmed')
    BY DEF TimedUpdates
  <2> QED
    BY <1>2, <2>1, PrimaryIs
<1>4. since' \in [Fingerprints(sampled') -> Nat]
  BY <1>2 DEF TimedUpdates, IInv, TypeOK
<1>5. open' \subseteq [guard : Guard, built : Nat]
  BY DEF TimedUpdates, StillOpen, IInv, TypeOK
<1>6. PrimaryUsable'
  BY <1>3 DEF PrimaryUsable, Listed, Fingerprints
<1>7. TypeOK'
  BY <1>1, <1>2, <1>3, <1>4, <1>5 DEF TimedUpdates, IInv, TypeOK, Fingerprints
<1> QED
  BY <1>6, <1>7

LEMMA TimedUpdatesKeep ==
  ASSUME IInv, NEW t \in now .. MaxTime, NEW cs \in Consensuses, TimedUpdates(t, cs)
  PROVE  IInv'
<1>0. /\ now' = t /\ now <= t /\ t \in Nat /\ now \in Nat /\ consensus' = cs /\ phase' = "round"
      /\ since' = [g \in Fingerprints(sampled') |-> since[g]]
  BY ConstantsTyped DEF TimedUpdates, IInv, TypeOK
<1>1. /\ \A n \in DOMAIN sampled' : \E i \in DOMAIN sampled :
           /\ sampled'[n].fingerprint = sampled[i].fingerprint
           /\ sampled'[n].added_on = sampled[i].added_on
           /\ IsListed(sampled'[n]) <=> sampled[i].fingerprint \in cs.running
           /\ ~TooOld(sampled[i], t)
      /\ \A k \in DOMAIN confirmed' : \E j \in DOMAIN confirmed : confirmed'[k] = confirmed[j]
      /\ \A j \in DOMAIN confirmed : confirmed[j].fingerprint \in Fingerprints(sampled') =>
           \E k \in DOMAIN confirmed' : confirmed'[k] = confirmed[j]
      /\ NoDuplicates'
  BY Updated DEF IInv
<1>2. TypeOK' /\ PrimaryUsable'
  BY TimedUpdatesTyped
<1>3. \A n \in DOMAIN sampled' : /\ sampled'[n].fingerprint \in Fingerprints(sampled')
                               /\ since'[sampled'[n].fingerprint] = since[sampled'[n].fingerprint]
  BY <1>0 DEF Fingerprints
<1>4. Listings'
  <2> SUFFICES ASSUME NEW n \in DOMAIN sampled'
               PROVE  IsListed(sampled'[n]) <=> sampled'[n].fingerprint \in cs.running
    BY <1>0 DEF Listings, IsListed
  <2> QED
    BY <1>1
<1>5. AddedDates'
  <2> SUFFICES ASSUME NEW n \in DOMAIN sampled'
               PROVE  LET s == since[sampled'[n].fingerprint]
                      IN  s <= t /\ s - AddedJitter < sampled'[n].added_on /\ sampled'[n].added_on <= s
    BY <1>0, <1>3 DEF AddedDates
  <2>1. PICK i \in DOMAIN sampled : /\ sampled'[n].fingerprint = sampled[i].fingerprint
                                    /\ sampled'[n].added_on = sampled[i].added_on
    BY <1>1
  <2>2. LET s == since[sampled[i].fingerprint]
        IN  s \in Nat /\ s <= now /\ s - AddedJitter < sampled[i].added_on /\ sampled[i].added_on <= s
    BY SampledTyped DEF IInv, Guards, AddedDates
  <2> QED
    BY <1>0, <2>1, <2>2
<1>6. ConfirmedDates'
  <2>1. ASSUME NEW k \in DOMAIN confirmed'
        PROVE  /\ confirmed'[k].confirmed_on <= t
               /\ \A n \in DOMAIN sampled' : sampled'[n].fingerprint = confirmed'[k].fingerprint =>
                    confirmed'[k].confirmed_on < since'[sampled'[n].fingerprint] + GuardLifetime
    <3>1. PICK j \in DOMAIN confirmed : confirmed'[k] = confirmed[j]
      BY <1>1
    <3>2. /\ confirmed[j].confirmed_on \in Int /\ confirmed[j].confirmed_on <= now
          /\ \A i \in DOMAIN sampled : sampled[i].fingerprint = confirmed[j].fingerprint =>
               confirmed[j].confirmed_on < since[sampled[i].fingerprint] + GuardLifetime
      BY SampledTyped DEF IInv, Guards, ConfirmedDates
    <3>3. confirmed'[k].confirmed_on <= t
      BY <1>0, <3>1, <3>2
    <3> QED
      BY <1>1, <1>3, <3>1, <3>2, <3>3
  <2> QED
    BY <1>0, <2>1 DEF ConfirmedDates
<1>7. KeptForCause'
  <2> SUFFICES ASSUME NEW n \in DOMAIN sampled', ~(t - sampled'[n].added_on < GuardLifetime)
               PROVE  \E k \in DOMAIN confirmed' :
                        /\ confirmed'[k].fingerprint = sampled'[n].fingerprint
                        /\ t - confirmed'[k].confirmed_on < ConfirmedMinLifetime
    BY <1>0 DEF KeptForCause, Young, LatelyConfirmed
  <2>1. PICK i \in DOMAIN sampled :
          /\ sampled'[n].fingerprint = sampled[i].fingerprint
          /\ sampled'[n].added_on = sampled[i].added_on
          /\ ~TooOld(sampled[i], t)
    BY <1>1
  <2>2. sampled[i].added_on \in Int
    BY SampledTyped DEF IInv
  <2>3. t - sampled[i].added_on >= GuardLifetime
    BY <1>0, <2>1, <2>2, ConstantsTyped
  <2>4. PICK j \in DOMAIN confirmed :
          /\ confirmed[j].fingerprint = sampled[i].fingerprint
          /\ ~(t - confirmed[j].confirmed_on >= ConfirmedMinLifetime)
    BY <2>1, <2>3 DEF TooOld, NotLatelyConfirmed
  <2>5. PICK k \in DOMAIN confirmed' : confirmed'[k] = confirmed[j]
    BY <1>1, <1>3, <2>1, <2>4
  <2>6. t - confirmed[j].confirmed_on < ConfirmedMinLifetime
    BY <1>0, <2>4, ConstantsTyped, SampledTyped DEF IInv
  <2> QED
    BY <2>1, <2>4, <2>5, <2>6
<1>8. AlwaysAGuard'
  BY <1>0 DEF AlwaysAGuard
<1> QED
  BY <1>1, <1>2, <1>4, <1>5, <1>6, <1>7, <1>8 DEF IInv, Guards

-----------------------------------------------------------------------------
(* Cardinalities are those of finite sets.                                 *)
LEMMA FingerprintsFinite ==
  ASSUME NEW S, NEW vec \in Seq(S)
  PROVE  IsFiniteSet(Fingerprints(vec))
<1>1. DOMAIN vec = 1 .. Len(vec) /\ Len(vec) \in Nat /\ IsFiniteSet(1 .. Len(vec))
  BY LenProperties, FS_Interval
<1> DEFINE f == [i \in DOMAIN vec |-> vec[i].fingerprint]
<1>2. f \in Surjection(DOMAIN vec, Fingerprints(vec))
  BY DEF Fingerprints, Surjection
<1> HIDE DEF f
<1> QED
  BY <1>1, <1>2, FS_Surjection

LEMMA Counts ==
  ASSUME TypeOK
  PROVE  /\ IsFiniteSet(Listed(sampled)) /\ Cardinality(Listed(sampled)) \in Nat
         /\ Listed(sampled) \subseteq Fingerprints(sampled)
         /\ consensus.guards \subseteq Guard /\ consensus.guards \subseteq consensus.running
         /\ IsFiniteSet(consensus.guards) /\ Cardinality(consensus.guards) \in Nat
         /\ MaxSampled \in Nat /\ Missing \in Nat
<1>1. Listed(sampled) \subseteq Fingerprints(sampled) /\ IsFiniteSet(Fingerprints(sampled))
  BY FingerprintsFinite DEF TypeOK, Listed, Fingerprints
<1>2. IsFiniteSet(Listed(sampled)) /\ Cardinality(Listed(sampled)) \in Nat
  BY <1>1, FS_Subset, FS_CardinalityType
<1>3. /\ consensus.guards \subseteq Guard /\ consensus.guards \subseteq consensus.running
      /\ IsFiniteSet(consensus.guards)
  BY ConsensusAssumption DEF TypeOK, Consensus
<1>4. Cardinality(consensus.guards) \in Nat
  BY <1>3, FS_CardinalityType
<1>5. MaxSampled \in Nat
  BY <1>4, ConstantsTyped DEF MaxSampled
<1>6. Missing \in Nat
  BY <1>2, <1>5, ConstantsTyped DEF Missing
<1> QED
  BY <1>1, <1>2, <1>3, <1>4, <1>5, <1>6

(* usable_guards: the sample gets new guards at its end.                   *)
LEMMA Sampling ==
  ASSUME TypeOK, NoDuplicates, GetSampled
  PROVE  /\ sampled' \in Seq(SampledGuard) /\ Distinct(sampled')
         /\ \A n \in DOMAIN sampled' :
              \/ /\ n \in DOMAIN sampled /\ sampled'[n] = sampled[n]
                 /\ since'[sampled'[n].fingerprint] = since[sampled[n].fingerprint]
              \/ /\ sampled'[n].fingerprint \in consensus.guards \ Fingerprints(sampled)
                 /\ sampled'[n].added_on \in RandomPast(now, AddedJitter)
                 /\ IsListed(sampled'[n])
                 /\ since'[sampled'[n].fingerprint] = now
         /\ \A i \in DOMAIN sampled : i \in DOMAIN sampled' /\ sampled'[i] = sampled[i]
         /\ since' \in [Fingerprints(sampled') -> Nat]
         /\ handed' \in Listed(sampled')
         /\ open' = open \cup {[guard |-> handed', built |-> now]}
         /\ UNCHANGED <<now, consensus, confirmed, primary, phase>>
<1>1. PICK new \in Samples :
        /\ sampled' = sampled \o new
        /\ since' = [g \in Fingerprints(sampled') |->
                      IF g \in Fingerprints(new) THEN now ELSE since[g]]
  BY DEF GetSampled
<1>2. /\ Missing \in Nat /\ consensus.guards \subseteq Guard
      /\ sampled \in Seq(SampledGuard) /\ now \in Nat /\ since \in [Fingerprints(sampled) -> Nat]
  BY Counts DEF TypeOK
<1>3. /\ new \in [1 .. Missing -> [fingerprint : Candidates, added_on : RandomPast(now, AddedJitter),
                                  first_unlisted_at : {None}]]
      /\ \A i, j \in 1 .. Missing : new[i].fingerprint = new[j].fingerprint => i = j
  BY DEF Samples
<1>4. \A i \in 1 .. Missing :
        /\ new[i].fingerprint \in consensus.guards \ Fingerprints(sampled)
        /\ new[i].added_on \in RandomPast(now, AddedJitter)
        /\ IsListed(new[i])
        /\ new[i] \in SampledGuard
  <2>1. RandomPast(now, AddedJitter) \subseteq Int
    BY <1>2, ConstantsTyped DEF RandomPast
  <2> QED
    BY <1>2, <1>3, <2>1 DEF Candidates, IsListed, SampledGuard
<1>5. /\ new \in Seq(SampledGuard) /\ DOMAIN new = 1 .. Missing /\ Len(new) = Missing
  <2>1. new \in [1 .. Missing -> SampledGuard]
    BY <1>3, <1>4
  <2> QED
    BY <1>2, <2>1
<1>6. /\ sampled' \in Seq(SampledGuard)
      /\ Len(sampled) \in Nat /\ DOMAIN sampled = 1 .. Len(sampled)
      /\ DOMAIN sampled' = 1 .. Len(sampled) + Missing
      /\ \A i \in 1 .. Len(sampled) + Missing :
           sampled'[i] = IF i <= Len(sampled) THEN sampled[i] ELSE new[i - Len(sampled)]
  <2> DEFINE longer == sampled \o new
  <2>1. /\ longer \in Seq(SampledGuard) /\ Len(longer) = Len(sampled) + Len(new)
        /\ \A i \in 1 .. Len(sampled) + Len(new) :
             longer[i] = IF i <= Len(sampled) THEN sampled[i] ELSE new[i - Len(sampled)]
    BY <1>2, <1>5, ConcatProperties
  <2> HIDE DEF longer
  <2>2. /\ Len(sampled) \in Nat /\ DOMAIN sampled = 1 .. Len(sampled)
        /\ DOMAIN longer = 1 .. Len(longer)
    BY <1>2, <2>1, LenProperties
  <2>3. sampled' = longer
    BY <1>1 DEF longer
  <2> QED
    BY <1>5, <2>1, <2>2, <2>3
<1>7. \A n \in DOMAIN sampled' :
        \/ n \in DOMAIN sampled /\ n <= Len(sampled) /\ sampled'[n] = sampled[n]
        \/ n - Len(sampled) \in 1 .. Missing /\ n > Len(sampled) /\ sampled'[n] = new[n - Len(sampled)]
  BY <1>2, <1>6
<1>8. \A i \in DOMAIN sampled : i \in DOMAIN sampled' /\ sampled'[i] = sampled[i]
  BY <1>2, <1>6
<1>9. /\ \A i \in 1 .. Missing : new[i].fingerprint \in Fingerprints(new)
      /\ \A g \in Fingerprints(new) : g \notin Fingerprints(sampled)
      /\ \A i \in DOMAIN sampled : sampled[i].fingerprint \in Fingerprints(sampled)
      /\ \A n \in DOMAIN sampled' : sampled'[n].fingerprint \in Fingerprints(sampled')
  BY <1>4, <1>5 DEF Fingerprints
<1>10. Distinct(sampled')
  <2> SUFFICES ASSUME NEW i \in DOMAIN sampled', NEW j \in DOMAIN sampled',
                      sampled'[i].fingerprint = sampled'[j].fingerprint
               PROVE  i = j
    BY DEF Distinct
  <2>1. CASE i <= Len(sampled) /\ j <= Len(sampled)
    BY <1>6, <1>7, <2>1 DEF NoDuplicates, Distinct
  <2>2. CASE i > Len(sampled) /\ j > Len(sampled)
    <3>1. i - Len(sampled) = j - Len(sampled)
      BY <1>3, <1>6, <1>7, <2>2
    <3> QED
      BY <1>6, <3>1
  <2>3. CASE ~(i <= Len(sampled) <=> j <= Len(sampled))
    BY <1>4, <1>6, <1>7, <1>9, <2>3
  <2> QED
    BY <1>6, <2>1, <2>2, <2>3
<1>11. ASSUME NEW n \in DOMAIN sampled'
       PROVE  \/ /\ n \in DOMAIN sampled /\ sampled'[n] = sampled[n]
                 /\ since'[sampled'[n].fingerprint] = since[sampled[n].fingerprint]
              \/ /\ sampled'[n].fingerprint \in consensus.guards \ Fingerprints(sampled)
                 /\ sampled'[n].added_on \in RandomPast(now, AddedJitter)
                 /\ IsListed(sampled'[n])
                 /\ since'[sampled'[n].fingerprint] = now
  <2>1. since'[sampled'[n].fingerprint] = IF sampled'[n].fingerprint \in Fingerprints(new)
                                          THEN now ELSE since[sampled'[n].fingerprint]
    BY <1>1, <1>9
  <2>2. CASE n \in DOMAIN sampled /\ sampled'[n] = sampled[n]
    BY <1>9, <2>1, <2>2
  <2>3. CASE n - Len(sampled) \in 1 .. Missing /\ sampled'[n] = new[n - Len(sampled)]
    BY <1>4, <1>9, <2>1, <2>3
  <2> QED
    BY <1>7, <2>2, <2>3
<1>12. since' \in [Fingerprints(sampled') -> Nat]
  <2>1. ASSUME NEW g \in Fingerprints(sampled') PROVE since'[g] \in Nat
    <3>1. PICK n \in DOMAIN sampled' : sampled'[n].fingerprint = g
      BY DEF Fingerprints
    <3> QED
      BY <1>2, <1>9, <1>11, <3>1
  <2> QED
    BY <1>1, <2>1
<1>13. handed' \in Listed(sampled') /\ open' = open \cup {[guard |-> handed', built |-> now]}
  BY DEF GetSampled, HandOut, Listed
<1> QED
  BY <1>6, <1>8, <1>10, <1>11, <1>12, <1>13 DEF GetSampled

LEMMA GetSampledKeeps ==
  ASSUME IInv, GetSampled
  PROVE  IInv'
<1>0. /\ sampled' \in Seq(SampledGuard) /\ Distinct(sampled')
      /\ \A n \in DOMAIN sampled' :
           \/ /\ n \in DOMAIN sampled /\ sampled'[n] = sampled[n]
              /\ since'[sampled'[n].fingerprint] = since[sampled[n].fingerprint]
           \/ /\ sampled'[n].fingerprint \in consensus.guards \ Fingerprints(sampled)
              /\ sampled'[n].added_on \in RandomPast(now, AddedJitter)
              /\ IsListed(sampled'[n])
              /\ since'[sampled'[n].fingerprint] = now
      /\ \A i \in DOMAIN sampled : i \in DOMAIN sampled' /\ sampled'[i] = sampled[i]
      /\ since' \in [Fingerprints(sampled') -> Nat]
      /\ handed' \in Listed(sampled')
      /\ open' = open \cup {[guard |-> handed', built |-> now]}
      /\ UNCHANGED <<now, consensus, confirmed, primary, phase>>
  BY Sampling DEF IInv
<1>1. now \in Nat /\ consensus.guards \subseteq consensus.running
  BY Counts DEF IInv, TypeOK
<1>2. TypeOK'
  <2>1. handed' \in Guard
    <3>1. \A n \in DOMAIN sampled' : sampled'[n] \in SampledGuard
      BY <1>0, LenProperties
    <3> QED
      BY <1>0, <3>1 DEF Listed, SampledGuard
  <2>2. open' \subseteq [guard : Guard, built : Nat]
    BY <1>0, <1>1, <2>1 DEF IInv, TypeOK
  <2> QED
    BY <1>0, <2>1, <2>2 DEF IInv, TypeOK, Fingerprints
<1>3. NoDuplicates'
  BY <1>0 DEF IInv, NoDuplicates, Distinct
<1>4. PrimaryUsable'
  <2>1. primary' = <<>>
    BY <1>0 DEF GetSampled
  <2> QED
    BY <2>1 DEF PrimaryUsable
<1>5. ASSUME NEW n \in DOMAIN sampled'
      PROVE  /\ IsListed(sampled'[n]) <=> sampled'[n].fingerprint \in consensus.running
             /\ LET s == since'[sampled'[n].fingerprint]
                IN  s <= now /\ s - AddedJitter < sampled'[n].added_on /\ sampled'[n].added_on <= s
             /\ \A k \in DOMAIN confirmed : sampled'[n].fingerprint = confirmed[k].fingerprint =>
                  confirmed[k].confirmed_on < since'[sampled'[n].fingerprint] + GuardLifetime
             /\ now - sampled'[n].added_on < GuardLifetime \/ LatelyConfirmed(sampled'[n])
  <2>1. CASE /\ n \in DOMAIN sampled /\ sampled'[n] = sampled[n]
             /\ since'[sampled'[n].fingerprint] = since[sampled[n].fingerprint]
    BY <2>1 DEF IInv, Guards, Listings, AddedDates, ConfirmedDates, KeptForCause, Young
  <2>2. CASE /\ sampled'[n].fingerprint \in consensus.guards \ Fingerprints(sampled)
             /\ sampled'[n].added_on \in RandomPast(now, AddedJitter)
             /\ IsListed(sampled'[n])
             /\ since'[sampled'[n].fingerprint] = now
    <3>1. \A k \in DOMAIN confirmed : confirmed[k].confirmed_on \in Int /\ confirmed[k].confirmed_on <= now
      BY SampledTyped DEF IInv, Guards, ConfirmedDates
    <3>2. /\ sampled'[n].added_on \in Int /\ now - AddedJitter < sampled'[n].added_on
          /\ sampled'[n].added_on <= now
      BY <1>1, <2>2, ConstantsTyped DEF RandomPast
    <3>3. \A k \in DOMAIN confirmed : confirmed[k].confirmed_on < now + GuardLifetime
      BY <1>1, <3>1, ConstantsTyped
    <3>4. now - sampled'[n].added_on < GuardLifetime
      BY <1>1, <3>2, ConstantsTyped
    <3> QED
      BY <1>1, <2>2, <3>2, <3>3, <3>4
  <2> QED
    BY <1>0, <2>1, <2>2
<1>6. Guards'
  <2>1. Listings' /\ AddedDates'
    BY <1>0, <1>5 DEF Listings, AddedDates, IsListed
  <2>2. ConfirmedDates'
    BY <1>0, <1>5 DEF ConfirmedDates, IInv, Guards
  <2>3. KeptForCause'
    BY <1>0, <1>5 DEF KeptForCause, Young, LatelyConfirmed
  <2> QED
    BY <2>1, <2>2, <2>3 DEF Guards
<1>7. AlwaysAGuard'
  BY <1>0 DEF IInv, AlwaysAGuard
<1> QED
  BY <1>2, <1>3, <1>4, <1>6, <1>7 DEF IInv

LEMMA GetPrimaryKeeps ==
  ASSUME IInv, GetPrimary
  PROVE  IInv' /\ handed' \in Listed(sampled)
<1>1. handed' = primary[1] /\ primary[1] \in Guard /\ 1 \in DOMAIN primary
  BY LenProperties, EmptySeq DEF GetPrimary, HandOut, IInv, TypeOK
<1>2. /\ open' = open \cup {[guard |-> handed', built |-> now]}
      /\ UNCHANGED <<now, consensus, sampled, confirmed, primary, since, phase>>
  BY DEF GetPrimary, HandOut
<1>3. TypeOK'
  BY <1>1, <1>2 DEF IInv, TypeOK, Fingerprints
<1>4. NoDuplicates' /\ PrimaryUsable' /\ AlwaysAGuard'
  BY <1>2 DEF IInv, NoDuplicates, Distinct, PrimaryUsable, Listed, Fingerprints, IsListed, AlwaysAGuard
<1>5. Guards'
  BY <1>2 DEF IInv, Guards, Listings, AddedDates, ConfirmedDates, KeptForCause, Young,
              LatelyConfirmed, IsListed
<1> QED
  BY <1>1, <1>3, <1>4, <1>5 DEF IInv, PrimaryUsable

LEMMA Share ==
  ASSUME NEW a \in Nat, NEW d \in Nat \ {0}
  PROVE  /\ a \div d \in Nat /\ a \div d <= a
         /\ a >= d => a \div d >= 1
OBVIOUS

(* The unwraps of usable_guards fail under a consensus of too few guards   *)
(* only.                                                                   *)
LEMMA NoGuardKeeps ==
  ASSUME IInv, NoGuard
  PROVE  IInv'
<1> DEFINE L == Cardinality(Listed(sampled))
           G == Cardinality(consensus.guards)
           C == Cardinality(Candidates)
           goal == IF MaxSampled < MinFilteredSample THEN MaxSampled ELSE MinFilteredSample
<1>1. /\ L \in Nat /\ G \in Nat /\ MaxSampled \in Nat
      /\ IsFiniteSet(Listed(sampled)) /\ IsFiniteSet(consensus.guards)
      /\ Listed(sampled) \subseteq Fingerprints(sampled)
      /\ consensus.guards \subseteq consensus.running
  BY Counts DEF IInv
<1>2. C \in Nat /\ C >= G - L
  <2>1. consensus.guards \cap Fingerprints(sampled) \subseteq Listed(sampled)
    BY <1>1 DEF IInv, Guards, Listings, Fingerprints, Listed
  <2> DEFINE I == consensus.guards \cap Fingerprints(sampled)
  <2>2. IsFiniteSet(I) /\ Cardinality(I) <= L /\ Cardinality(I) \in Nat
    BY <1>1, <2>1, FS_Subset, FS_CardinalityType
  <2>3. IsFiniteSet(Candidates) /\ C = G - Cardinality(I)
    BY <1>1, FS_Difference DEF Candidates
  <2>4. C \in Nat
    BY <2>3, FS_CardinalityType
  <2> QED
    BY <1>1, <2>2, <2>3, <2>4
<1>3. /\ MaxSampled <= G
      /\ MaxSampled = 0 => G < SampleOneOf
  BY <1>1, Share, ConstantsTyped DEF MaxSampled
<1>4. Missing = IF L < goal THEN goal - L ELSE 0
  BY DEF Missing
<1>5. Listed(sampled) = {} => L = 0
  BY FS_EmptySet
<1>6. C < Missing \/ (Missing = 0 /\ Listed(sampled) = {})
  BY DEF NoGuard
<1> HIDE DEF L, G, C
<1>7. G < SampleOneOf
  BY <1>1, <1>2, <1>3, <1>4, <1>5, <1>6, ConstantsTyped
<1>8. UNCHANGED <<now, consensus, sampled, confirmed, primary, open, handed, since>> /\ phase' = "failed"
  BY DEF NoGuard
<1>9. TypeOK' /\ NoDuplicates' /\ PrimaryUsable'
  BY <1>8 DEF IInv, TypeOK, NoDuplicates, Distinct, PrimaryUsable, Listed, Fingerprints, IsListed
<1>10. Guards'
  BY <1>8 DEF IInv, Guards, Listings, AddedDates, ConfirmedDates, KeptForCause, Young,
              LatelyConfirmed, IsListed
<1>11. AlwaysAGuard'
  BY <1>7, <1>8 DEF AlwaysAGuard, G
<1> QED
  BY <1>9, <1>10, <1>11 DEF IInv

LEMMA MarkAsConfirmedKeeps ==
  ASSUME IInv, NEW g \in Guard, MarkAsConfirmed(g)
  PROVE  IInv'
<1>0. UNCHANGED <<now, consensus, sampled, open, handed, since>> /\ phase' = "idle"
  BY DEF MarkAsConfirmed
<1>1. Listings' /\ AddedDates' /\ AlwaysAGuard' /\ Distinct(sampled')
  BY <1>0 DEF IInv, Guards, Listings, AddedDates, AlwaysAGuard, IsListed, NoDuplicates, Distinct
<1>2. CASE g \in Fingerprints(confirmed)
  <2>1. UNCHANGED <<confirmed, primary>>
    BY <1>2 DEF MarkAsConfirmed
  <2>2. TypeOK' /\ NoDuplicates' /\ PrimaryUsable'
    BY <1>0, <2>1
       DEF IInv, TypeOK, NoDuplicates, Distinct, PrimaryUsable, Listed, Fingerprints, IsListed
  <2>3. ConfirmedDates' /\ KeptForCause'
    BY <1>0, <2>1 DEF IInv, Guards, ConfirmedDates, KeptForCause, Young, LatelyConfirmed
  <2> QED
    BY <1>1, <2>2, <2>3 DEF IInv, Guards
<1>3. CASE g \notin Fingerprints(confirmed)
  <2>1. PICK when \in RandomPast(now, AddedJitter) :
          confirmed' = Append(confirmed, [fingerprint |-> g, confirmed_on |-> when])
    BY <1>3 DEF MarkAsConfirmed
  <2>2. now \in Nat /\ when \in Int /\ when <= now
    BY ConstantsTyped DEF IInv, TypeOK, RandomPast
  <2> DEFINE new == [fingerprint |-> g, confirmed_on |-> when]
             last == Len(confirmed) + 1
  <2>3. /\ confirmed' \in Seq(ConfirmedGuard)
        /\ Len(confirmed) \in Nat /\ DOMAIN confirmed = 1 .. Len(confirmed)
        /\ DOMAIN confirmed' = 1 .. last
        /\ \A k \in DOMAIN confirmed : k \in DOMAIN confirmed' /\ confirmed'[k] = confirmed[k]
        /\ \A k \in DOMAIN confirmed' :
             k \in DOMAIN confirmed \/ (k = last /\ confirmed'[k] = new)
    <3>1. new \in ConfirmedGuard /\ confirmed \in Seq(ConfirmedGuard)
      BY <2>2 DEF ConfirmedGuard, IInv, TypeOK
    <3>2. confirmed' = Append(confirmed, new)
      BY <2>1
    <3> HIDE DEF new
    <3>3. /\ confirmed' \in Seq(ConfirmedGuard)
          /\ Len(confirmed) \in Nat /\ DOMAIN confirmed = 1 .. Len(confirmed)
          /\ DOMAIN confirmed' = 1 .. Len(confirmed) + 1
          /\ \A k \in 1 .. Len(confirmed) : confirmed'[k] = confirmed[k]
          /\ confirmed'[Len(confirmed) + 1] = new
      BY <3>1, <3>2, AppendProperties, LenProperties
    <3> QED
      BY <3>3
  <2>4. new.fingerprint = g /\ new.confirmed_on = when
    OBVIOUS
  <2> HIDE DEF new
  <2>5. primary' = PrimaryOf(sampled', confirmed')
    BY <1>0, <1>3 DEF MarkAsConfirmed
  <2>6. TypeOK'
    BY <1>0, <2>3, <2>5, PrimaryIs DEF IInv, TypeOK, Fingerprints
  <2>7. PrimaryUsable'
    BY <2>3, <2>5, PrimaryIs DEF PrimaryUsable, Listed, Fingerprints
  <2>8. Distinct(confirmed')
    <3>1. \A k \in DOMAIN confirmed : confirmed[k].fingerprint # g
      BY <1>3 DEF Fingerprints
    <3>2. \A i, j \in DOMAIN confirmed : confirmed[i].fingerprint = confirmed[j].fingerprint => i = j
      BY DEF IInv, NoDuplicates, Distinct
    <3> QED
      BY <2>3, <2>4, <3>1, <3>2 DEF Distinct
  <2>9. KeptForCause'
    BY <1>0, <2>3 DEF IInv, Guards, KeptForCause, Young, LatelyConfirmed
  <2>10. ASSUME NEW k \in DOMAIN confirmed'
         PROVE  /\ confirmed'[k].confirmed_on <= now
                /\ \A i \in DOMAIN sampled : sampled[i].fingerprint = confirmed'[k].fingerprint =>
                     confirmed'[k].confirmed_on < since[sampled[i].fingerprint] + GuardLifetime
    <3>1. CASE k \in DOMAIN confirmed
      BY <2>3, <3>1 DEF IInv, Guards, ConfirmedDates
    <3>2. CASE confirmed'[k] = new
      <4>1. ASSUME NEW i \in DOMAIN sampled, sampled[i].fingerprint = g
            PROVE  when < since[sampled[i].fingerprint] + GuardLifetime
        <5>1. ~LatelyConfirmed(sampled[i])
          BY <1>3, <4>1 DEF LatelyConfirmed, Fingerprints
        <5>2. Young(sampled[i])
          BY <5>1 DEF IInv, Guards, KeptForCause
        <5>3. /\ sampled[i].added_on \in Int /\ since[sampled[i].fingerprint] \in Nat
              /\ sampled[i].added_on <= since[sampled[i].fingerprint]
          BY SampledTyped DEF IInv, Guards, AddedDates
        <5> QED
          BY <2>2, <5>2, <5>3, ConstantsTyped DEF Young
      <4> QED
        BY <2>2, <2>4, <3>2, <4>1
    <3> QED
      BY <2>3, <3>1, <3>2
  <2>11. ConfirmedDates'
    BY <1>0, <2>10 DEF ConfirmedDates
  <2> QED
    BY <1>1, <2>6, <2>7, <2>8, <2>9, <2>11 DEF IInv, Guards, NoDuplicates
<1> QED
  BY <1>2, <1>3

-----------------------------------------------------------------------------
LEMMA InitKeeps == Init => IInv
<1> SUFFICES ASSUME Init PROVE IInv
  OBVIOUS
<1>1. /\ now = 0 /\ consensus \in Consensuses /\ sampled = <<>> /\ confirmed = <<>> /\ primary = <<>>
      /\ open = {} /\ handed = None /\ since = [g \in {} |-> 0] /\ phase = "idle"
  BY DEF Init
<1>2. Fingerprints(sampled) = {} /\ DOMAIN sampled = {} /\ DOMAIN confirmed = {} /\ DOMAIN primary = {}
  BY <1>1 DEF Fingerprints
<1>3. TypeOK
  <2>1. since \in [{} -> Nat]
    BY <1>1
  <2>2. /\ sampled \in Seq(SampledGuard) /\ confirmed \in Seq(ConfirmedGuard) /\ primary \in Seq(Guard)
        /\ Len(primary) = 0
    BY <1>1, EmptySeq
  <2> QED
    BY <1>1, <1>2, <2>1, <2>2, ConstantsTyped DEF TypeOK
<1> QED
  BY <1>1, <1>2, <1>3
     DEF IInv, NoDuplicates, Distinct, PrimaryUsable, Guards, Listings, AddedDates, ConfirmedDates,
         KeptForCause, AlwaysAGuard

LEMMA StepKeeps == IInv /\ [Next]_vars => IInv'
<1> SUFFICES ASSUME IInv, [Next]_vars PROVE IInv'
  OBVIOUS
<1>1. CASE UNCHANGED vars
  <2>1. TypeOK' /\ NoDuplicates' /\ PrimaryUsable' /\ AlwaysAGuard'
    BY <1>1 DEF vars, IInv, TypeOK, NoDuplicates, Distinct, PrimaryUsable, Listed, Fingerprints,
                IsListed, AlwaysAGuard
  <2>2. Guards'
    BY <1>1 DEF vars, IInv, Guards, Listings, AddedDates, ConfirmedDates, KeptForCause, Young,
                LatelyConfirmed, IsListed
  <2> QED
    BY <2>1, <2>2 DEF IInv
<1> QED
  BY <1>1, TimedUpdatesKeep, GetPrimaryKeeps, GetSampledKeeps, NoGuardKeeps, MarkAsConfirmedKeeps
     DEF Next

(* The lists, the dates in them and the cache agree with each other and    *)
(* with the consensus of the round, whatever comes and goes.               *)
THEOREM Inductive == Spec => []IInv
BY InitKeeps, StepKeeps, PTL DEF Spec

(* The lists of guards, their dates and the cache of primary guards keep   *)
(* their types.                                                            *)
THEOREM TypeCorrect == Spec => []TypeOK
<1>1. IInv => TypeOK
  BY DEF IInv
<1> QED
  BY <1>1, Inductive, PTL

(* A guard that is removed, confirmed again through an old circuit and     *)
(* sampled again does not get into a list twice.                           *)
THEOREM NeverTwice == Spec => []NoDuplicates
<1>1. IInv => NoDuplicates
  BY DEF IInv
<1> QED
  BY <1>1, Inductive, PTL

(* The cache primary_guards, recomputed at two places only, is not stale.  *)
THEOREM PrimaryNotStale == Spec => []PrimaryUsable
<1>1. IInv => PrimaryUsable
  BY DEF IInv
<1> QED
  BY <1>1, Inductive, PTL

(* The unwraps of usable_guards fail only when the consensus has fewer     *)
(* guards than one per share of the sample.                                *)
THEOREM GuardsSuffice == Spec => []AlwaysAGuard
<1>1. IInv => AlwaysAGuard
  BY DEF IInv
<1> QED
  BY <1>1, Inductive, PTL

(* For all lifetimes, a guard is gone when both of them have passed,       *)
(* however late it was confirmed.                                          *)
THEOREM AllRetire == Spec => []GuardsRetire
<1>1. IInv => GuardsRetire
  <2> SUFFICES ASSUME IInv, NEW g \in Fingerprints(sampled)
               PROVE  now - since[g] < GuardLifetime + ConfirmedMinLifetime
    BY DEF GuardsRetire
  <2>1. PICK i \in DOMAIN sampled : sampled[i].fingerprint = g
    BY DEF Fingerprints
  <2>2. /\ now \in Nat /\ since[g] \in Nat
        /\ sampled[i].added_on \in Int /\ sampled[i].added_on <= since[g]
    BY <2>1, SampledTyped DEF IInv, Guards, AddedDates
  <2>3. CASE Young(sampled[i])
    BY <2>2, <2>3, ConstantsTyped DEF Young
  <2>4. CASE LatelyConfirmed(sampled[i])
    <3>1. PICK k \in DOMAIN confirmed :
            confirmed[k].fingerprint = g /\ now - confirmed[k].confirmed_on < ConfirmedMinLifetime
      BY <2>1, <2>4 DEF LatelyConfirmed
    <3>2. confirmed[k].confirmed_on \in Int /\ confirmed[k].confirmed_on < since[g] + GuardLifetime
      BY <2>1, <3>1, SampledTyped DEF IInv, Guards, ConfirmedDates
    <3> QED
      BY <2>2, <3>1, <3>2, ConstantsTyped
  <2> QED
    BY <2>3, <2>4 DEF IInv, Guards, KeptForCause
<1> QED
  BY <1>1, Inductive, PTL

(* Every circuit begins with a guard that runs: get_guard_for_circuit      *)
(* trusts first_unlisted_at, which timed_updates keeps in step with the    *)
(* consensus.                                                              *)
THEOREM HandedOutRuns == Spec => GuardRuns
<1>1. IInv /\ [Next]_vars => [open' \ open # {} => handed' \in consensus.running]_vars
  <2> SUFFICES ASSUME IInv, Next, open' \ open # {}
               PROVE  handed' \in consensus.running
    BY DEF vars
  <2>1. \A g \in Listed(sampled) : g \in consensus.running
    BY DEF IInv, Guards, Listings, Listed
  <2>2. CASE GetPrimary
    BY <2>1, <2>2, GetPrimaryKeeps
  <2>3. CASE GetSampled
    <3>1. handed' \in Listed(sampled') /\ consensus' = consensus
      BY <2>3, Sampling DEF IInv
    <3>2. Listings'
      BY <2>3, GetSampledKeeps DEF IInv, Guards
    <3> QED
      BY <3>1, <3>2 DEF Listings, Listed, IsListed
  <2>4. CASE ~GetPrimary /\ ~GetSampled
    BY <2>4 DEF Next, TimedUpdates, StillOpen, NoGuard, MarkAsConfirmed
  <2> QED
    BY <2>2, <2>3, <2>4
<1> QED
  BY <1>1, Inductive, PTL DEF Spec, GuardRuns

(* Clients keep a running guard for its lifetime.                          *)
THEOREM RunningStay == Spec => GuardsKept
<1>1. IInv /\ [Next]_vars =>
        [\A g \in Fingerprints(sampled) \ Fingerprints(sampled') :
           g \in consensus'.running => now' - since[g] > GuardLifetime - AddedJitter]_vars
  <2> SUFFICES ASSUME IInv, Next, NEW g \in Fingerprints(sampled), g \notin Fingerprints(sampled'),
                      g \in consensus'.running
               PROVE  now' - since[g] > GuardLifetime - AddedJitter
    BY DEF vars
  <2>1. PICK i \in DOMAIN sampled : sampled[i].fingerprint = g
    BY DEF Fingerprints
  <2>2. CASE GetSampled
    <3>1. i \in DOMAIN sampled' /\ sampled'[i] = sampled[i]
      BY <2>2, Sampling DEF IInv
    <3> QED
      BY <2>1, <3>1 DEF Fingerprints
  <2>3. ASSUME NEW t \in now .. MaxTime, NEW cs \in Consensuses, TimedUpdates(t, cs)
        PROVE  now' - since[g] > GuardLifetime - AddedJitter
    <3>1. now' = t /\ consensus' = cs /\ t \in Int
      BY <2>3, ConstantsTyped DEF TimedUpdates, IInv, TypeOK
    <3>2. t - sampled[i].added_on >= GuardLifetime
      BY <2>1, <2>3, <3>1, Updated DEF IInv
    <3>3. /\ sampled[i].added_on \in Int /\ since[g] \in Nat
          /\ since[g] - AddedJitter < sampled[i].added_on
      BY <2>1, SampledTyped DEF IInv, Guards, AddedDates
    <3> QED
      BY <3>1, <3>2, <3>3, ConstantsTyped
  <2>4. CASE GetPrimary \/ NoGuard \/ \E h \in Guard : MarkAsConfirmed(h)
    <3>1. sampled' = sampled
      BY <2>4 DEF GetPrimary, NoGuard, MarkAsConfirmed
    <3> QED
      BY <3>1 DEF Fingerprints
  <2> QED
    BY <2>2, <2>3, <2>4 DEF Next
<1> QED
  BY <1>1, Inductive, PTL DEF Spec, GuardsKept

-----------------------------------------------------------------------------
(* The orders of sampling and of confirmation.                             *)
LEMMA AscendingRises ==
  ASSUME NEW S \in SUBSET Int, IsFiniteSet(S)
  PROVE  Rising(Ascending(S))
BY FiniteSetsAreEnumerable DEF Enumerable, Rising, Ascending

LEMMA OnlyInOrder ==
  ASSUME NEW S, NEW vec \in Seq(S), NEW fps
  PROVE  /\ \A m, n \in DOMAIN Only(vec, fps) : m < n =>
              \E i, j \in DOMAIN vec :
                i < j /\ Only(vec, fps)[m] = vec[i] /\ Only(vec, fps)[n] = vec[j]
         /\ \A i \in DOMAIN vec : vec[i].fingerprint \in fps =>
              /\ 1 \in DOMAIN Only(vec, fps)
              /\ \E k \in DOMAIN vec : k <= i /\ Only(vec, fps)[1] = vec[k]
<1> DEFINE kept == {i \in DOMAIN vec : vec[i].fingerprint \in fps}
           order == Ascending(kept)
           n == Cardinality(kept)
           r == Only(vec, fps)
<1>1. DOMAIN vec = 1 .. Len(vec) /\ Len(vec) \in Nat
  BY LenProperties
<1>2. kept \in SUBSET Int /\ IsFiniteSet(kept) /\ kept \subseteq DOMAIN vec
  <2>1. IsFiniteSet(1 .. Len(vec)) /\ kept \in SUBSET (1 .. Len(vec))
    BY <1>1, FS_Interval
  <2>2. kept \in SUBSET Int
    BY <2>1, <1>1
  <2> HIDE DEF kept
  <2> QED
    BY <1>1, <2>1, <2>2, FS_Subset
<1>3. \A i \in DOMAIN vec : vec[i].fingerprint \in fps => i \in kept
  OBVIOUS
<1>4. r = [k \in DOMAIN order |-> vec[order[k]]]
  BY DEF Only
<1> HIDE DEF kept, r
<1>5. /\ n \in Nat /\ order \in [1 .. n -> kept] /\ Rising(order)
      /\ \A k \in kept : \E i \in 1 .. n : order[i] = k
  BY <1>2, AscendingIs, AscendingRises
<1> HIDE DEF n, order
<1>6. DOMAIN r = 1 .. n /\ DOMAIN order = 1 .. n /\ \A k \in 1 .. n : r[k] = vec[order[k]]
  BY <1>4, <1>5
<1>7. \A k \in 1 .. n : order[k] \in DOMAIN vec /\ order[k] \in Int
  BY <1>2, <1>5
<1>8. \A k, l \in 1 .. n : k < l => order[k] < order[l]
  BY <1>5, <1>6 DEF Rising
<1>9. ASSUME NEW i \in DOMAIN vec, vec[i].fingerprint \in fps
      PROVE  1 \in DOMAIN r /\ \E k \in DOMAIN vec : k <= i /\ r[1] = vec[k]
  <2>1. PICK l \in 1 .. n : order[l] = i
    BY <1>3, <1>5, <1>9
  <2>2. 1 \in 1 .. n /\ (1 = l \/ 1 < l)
    BY <1>5
  <2>3. order[1] <= i
    BY <1>7, <1>8, <2>1, <2>2
  <2> QED
    BY <1>6, <1>7, <2>2, <2>3
<1> QED
  BY <1>6, <1>7, <1>8, <1>9 DEF r

(* The first primary guard is the one confirmed first of those that are    *)
(* listed.                                                                 *)
LEMMA PrimaryIsFirst ==
  ASSUME NEW smp, NEW cfm \in Seq(ConfirmedGuard),
         NEW i \in DOMAIN cfm, cfm[i].fingerprint \in Listed(smp)
  PROVE  /\ PrimaryOf(smp, cfm) # <<>>
         /\ \E k \in DOMAIN cfm : k <= i /\ PrimaryOf(smp, cfm)[1] = cfm[k].fingerprint
<1> DEFINE usable == Only(cfm, Listed(smp))
           n == IF Len(usable) < NPrimaryGuards THEN Len(usable) ELSE NPrimaryGuards
           p == PrimaryOf(smp, cfm)
<1>1. p = [k \in 1 .. n |-> usable[k].fingerprint]
  BY DEF PrimaryOf
<1>2. usable \in Seq(ConfirmedGuard)
  BY OnlyIs
<1>3. 1 \in DOMAIN usable /\ \E k \in DOMAIN cfm : k <= i /\ usable[1] = cfm[k]
  BY OnlyInOrder
<1> HIDE DEF usable, p
<1>4. n \in Nat /\ 1 \in 1 .. n
  BY <1>2, <1>3, LenProperties, SampleAssumption
<1> HIDE DEF n
<1>5. DOMAIN p = 1 .. n /\ p[1] = usable[1].fingerprint
  BY <1>1, <1>4
<1> QED
  BY <1>3, <1>4, <1>5 DEF p

(* The guard fp is the one that usable_guards offers first.                *)
OfferedFirst(fp) ==
  \E i \in DOMAIN sampled :
    /\ sampled[i].fingerprint = fp /\ IsListed(sampled[i])
    /\ \A j \in 1 .. i - 1 : ~IsListed(sampled[j])

(* The cache of primary guards, when there are any, is what it would be if *)
(* it were computed now.  It may be empty although there is a primary      *)
(* guard: when a confirmed guard has been sampled again in this round; but *)
(* then it is the one that was handed out.                                 *)
CacheFresh == primary # <<>> => primary = PrimaryOf(sampled, confirmed)

NoneUnlessHanded ==
  primary = <<>> => \/ \A k \in DOMAIN confirmed : confirmed[k].fingerprint \notin Listed(sampled)
                    \/ OfferedFirst(handed)

Orders == CacheFresh /\ NoneUnlessHanded

LEMMA RecomputedOrders ==
  ASSUME confirmed' \in Seq(ConfirmedGuard), primary' = PrimaryOf(sampled', confirmed')
  PROVE  CacheFresh' /\ NoneUnlessHanded'
<1>1. primary' = <<>> =>
        \A k \in DOMAIN confirmed' : confirmed'[k].fingerprint \notin Listed(sampled')
  BY PrimaryIsFirst
<1>2. Listed(sampled)' = Listed(sampled')
  BY DEF Listed, IsListed
<1> QED
  BY <1>1, <1>2 DEF CacheFresh, NoneUnlessHanded

LEMMA TimedUpdatesOrder ==
  ASSUME IInv, NEW t \in now .. MaxTime, NEW cs \in Consensuses, TimedUpdates(t, cs)
  PROVE  Orders'
BY Updated, RecomputedOrders DEF IInv, TimedUpdates, Orders

LEMMA GetSampledOrder ==
  ASSUME GetSampled
  PROVE  Orders'
<1>1. OfferedFirst(handed)'
  BY DEF GetSampled, HandOut, OfferedFirst, IsListed
<1>2. primary' = <<>>
  BY DEF GetSampled
<1> QED
  BY <1>1, <1>2 DEF Orders, CacheFresh, NoneUnlessHanded

LEMMA OrdersStep == IInv /\ Orders /\ [Next]_vars => Orders'
<1> SUFFICES ASSUME IInv, Orders, [Next]_vars
             PROVE  Orders'
  OBVIOUS
<1>1. ASSUME NEW g \in Guard, MarkAsConfirmed(g)
      PROVE  Orders'
  <2>1. UNCHANGED <<sampled, handed>>
    BY <1>1 DEF MarkAsConfirmed
  <2>3. CASE g \in Fingerprints(confirmed)
    <3>1. UNCHANGED <<confirmed, primary>>
      BY <1>1, <2>3 DEF MarkAsConfirmed
    <3> QED
      BY <2>1, <3>1 DEF Orders, CacheFresh, NoneUnlessHanded, OfferedFirst, Listed, IsListed
  <2>4. CASE g \notin Fingerprints(confirmed)
    <3>1. primary' = PrimaryOf(sampled', confirmed')
      BY <1>1, <2>1, <2>4 DEF MarkAsConfirmed
    <3>2. confirmed' \in Seq(ConfirmedGuard)
      BY <1>1, MarkAsConfirmedKeeps DEF IInv, TypeOK
    <3> QED
      BY <3>1, <3>2, RecomputedOrders DEF Orders
  <2> QED
    BY <2>3, <2>4
<1>2. CASE GetPrimary
  <2>1. primary # <<>> /\ UNCHANGED <<sampled, confirmed, primary>>
    BY <1>2 DEF GetPrimary
  <2> QED
    BY <2>1 DEF Orders, CacheFresh, NoneUnlessHanded
<1>3. CASE NoGuard \/ UNCHANGED vars
  <2>1. UNCHANGED <<sampled, confirmed, primary, handed>>
    BY <1>3 DEF NoGuard, vars
  <2> QED
    BY <2>1 DEF Orders, CacheFresh, NoneUnlessHanded, OfferedFirst, Listed, IsListed
<1> QED
  BY <1>1, <1>2, <1>3, TimedUpdatesOrder, GetSampledOrder DEF Next

LEMMA AlwaysOrders == Spec => []Orders
<1>1. Init => Orders
  BY DEF Init, Orders, CacheFresh, NoneUnlessHanded
<1> QED
  BY <1>1, OrdersStep, Inductive, PTL DEF Spec

(* While a sampled guard is listed, usable_guards offers none that comes   *)
(* after it.                                                               *)
LEMMA OfferedIsEarlier ==
  ASSUME IInv, GetSampled, NEW j \in DOMAIN sampled, IsListed(sampled[j])
  PROVE  \E i \in DOMAIN sampled :
           i <= j /\ sampled[i].fingerprint = handed' /\ IsListed(sampled[i])
<1>1. PICK i \in DOMAIN sampled' :
        /\ sampled'[i].fingerprint = handed' /\ IsListed(sampled'[i])
        /\ \A k \in 1 .. i - 1 : ~IsListed(sampled'[k])
  BY DEF GetSampled, HandOut
<1>2. \A k \in DOMAIN sampled : k \in DOMAIN sampled' /\ sampled'[k] = sampled[k]
  BY Sampling DEF IInv
<1>3. /\ DOMAIN sampled = 1 .. Len(sampled) /\ Len(sampled) \in Nat
      /\ DOMAIN sampled' = 1 .. Len(sampled') /\ Len(sampled') \in Nat
  <2>1. sampled \in Seq(SampledGuard) /\ sampled' \in Seq(SampledGuard)
    BY Sampling DEF IInv, TypeOK
  <2> QED
    BY <2>1, LenProperties
<1>4. i <= j
  <2>1. IsListed(sampled'[j])
    BY <1>2
  <2> QED
    BY <1>1, <1>3, <2>1
<1>5. i \in DOMAIN sampled
  BY <1>3, <1>4
<1> QED
  BY <1>1, <1>2, <1>4, <1>5

LEMMA BeforeIs ==
  ASSUME NEW vec, Distinct(vec), NEW i \in DOMAIN vec, NEW j \in DOMAIN vec, i < j
  PROVE  Before(vec, vec[i].fingerprint, vec[j].fingerprint)
<1>1. \A k \in DOMAIN vec : Position(vec, vec[k].fingerprint) = k
  BY DEF Position, Distinct
<1> QED
  BY <1>1 DEF Before, Fingerprints

(* A client changes its guard for cause only: the cache, recomputed at two *)
(* places only, never hides a guard that was confirmed earlier, and        *)
(* sampling never brings a guard before those that are there.              *)
THEOREM ChangedForCause == Spec => GuardSticks
<1> DEFINE Sticks ==
      (open' \ open # {} \/ handed' # handed) /\ handed # None =>
        \/ handed' = handed
        \/ handed \notin Listed(sampled)
        \/ Before(confirmed, handed', handed)
        \/ /\ handed \notin Fingerprints(confirmed)
           /\ handed' \in Fingerprints(confirmed) \/ Before(sampled, handed', handed)
<1>1. IInv /\ Orders /\ [Next]_vars => [Sticks]_vars
  <2> SUFFICES ASSUME IInv, Orders, Next, open' \ open # {} \/ handed' # handed,
                      handed' # handed, handed \in Listed(sampled)
               PROVE  Sticks
    BY DEF vars
  <2>1. PICK j \in DOMAIN sampled : sampled[j].fingerprint = handed /\ IsListed(sampled[j])
    BY DEF Listed
  <2>2. confirmed \in Seq(ConfirmedGuard) /\ DOMAIN confirmed \subseteq Int
    BY LenProperties DEF IInv, TypeOK
  <2>3. CASE GetPrimary
    <3>1. primary # <<>> /\ handed' = PrimaryOf(sampled, confirmed)[1]
      BY <2>3 DEF GetPrimary, HandOut, Orders, CacheFresh
    <3>2. ASSUME NEW i \in DOMAIN confirmed, confirmed[i].fingerprint = handed
          PROVE  Before(confirmed, handed', handed)
      <4>1. PICK k \in DOMAIN confirmed : k <= i /\ confirmed[k].fingerprint = handed'
        BY <2>2, <3>1, <3>2, PrimaryIsFirst
      <4>2. k # i
        BY <3>2, <4>1
      <4>3. k < i
        BY <2>2, <4>1, <4>2
      <4> QED
        BY <3>2, <4>1, <4>3, BeforeIs DEF IInv, NoDuplicates
    <3>3. handed \in Fingerprints(confirmed) =>
            \E i \in DOMAIN confirmed : confirmed[i].fingerprint = handed
      BY DEF Fingerprints
    <3>4. handed' \in Fingerprints(confirmed)
      BY <2>3 DEF IInv, PrimaryUsable, GetPrimary, HandOut, TypeOK
    <3> QED
      BY <3>2, <3>3, <3>4
  <2>4. CASE GetSampled
    <3>1. primary = <<>>
      BY <2>4 DEF GetSampled
    <3>2. PICK i \in DOMAIN sampled :
            i <= j /\ sampled[i].fingerprint = handed' /\ IsListed(sampled[i])
      BY <2>1, <2>4, OfferedIsEarlier
    <3>3. i < j /\ DOMAIN sampled \subseteq Int
      <4>1. i # j
        BY <2>1, <3>2
      <4>2. DOMAIN sampled \subseteq Int
        BY LenProperties DEF IInv, TypeOK
      <4> QED
        BY <3>2, <4>1, <4>2
    <3>4. Before(sampled, handed', handed)
      BY <2>1, <3>2, <3>3, BeforeIs DEF IInv, NoDuplicates
    <3>5. handed \notin Fingerprints(confirmed)
      <4> SUFFICES ASSUME handed \in Fingerprints(confirmed)
                   PROVE  FALSE
        OBVIOUS
      <4>1. \E k \in DOMAIN confirmed : confirmed[k].fingerprint \in Listed(sampled)
        BY DEF Fingerprints
      <4>2. PICK f \in DOMAIN sampled :
              /\ sampled[f].fingerprint = handed /\ IsListed(sampled[f])
              /\ \A k \in 1 .. f - 1 : ~IsListed(sampled[k])
        BY <3>1, <4>1 DEF Orders, NoneUnlessHanded, OfferedFirst
      <4>3. f = j
        BY <2>1, <4>2 DEF IInv, NoDuplicates, Distinct
      <4>4. i \in 1 .. f - 1
        <5>1. DOMAIN sampled = 1 .. Len(sampled)
          BY LenProperties DEF IInv, TypeOK
        <5> QED
          BY <3>3, <4>3, <5>1
      <4> QED
        BY <3>2, <4>2, <4>4
    <3> QED
      BY <3>4, <3>5
  <2> QED
    BY <2>3, <2>4 DEF Next, TimedUpdates, StillOpen, NoGuard, MarkAsConfirmed
<1> QED
  BY <1>1, AlwaysOrders, Inductive, PTL DEF Spec, GuardSticks
=============================================================================
