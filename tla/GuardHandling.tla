---------------------------- MODULE GuardHandling ----------------------------
(***************************************************************************)
(* The guard set of one simulated client (src/src/guard.rs).               *)
(*                                                                         *)
(* A client samples guards, in the order of the Vec `sampled`; a guard     *)
(* whose circuit carries a request is confirmed, in the order of           *)
(* `confirmed`; the first few confirmed guards that are listed are the     *)
(* primary guards.  A new circuit is built through the first primary       *)
(* guard, and, when there is none, through the first sampled guard that is *)
(* listed.                                                                 *)
(*                                                                         *)
(* The circuit manager calls the guard handling in rounds: timed_updates   *)
(* (TimedUpdates), then get_guard_for_circuit as often as it builds a      *)
(* circuit (GetGuard), then mark_as_confirmed when the round serves a      *)
(* request (MarkAsConfirmed), all at one time.  Of the circuits themselves *)
(* only what the guard handling gets to see is kept: the guards of the     *)
(* circuits that are open, any of which a request may use.                 *)
(*                                                                         *)
(* A definition whose name ends in Bug is a seeded fault: nothing uses it, *)
(* and a property must fail when it takes the place of the definition      *)
(* that follows it.                                                        *)
(***************************************************************************)
EXTENDS Integers, Sequences, FiniteSets

CONSTANTS
  Guard,                 \* fingerprints of relays that may be guards
  Consensuses,           \* the consensus documents an epoch may bring
  GuardLifetime,         \* GUARD_LIFETIME
  AddedJitter,           \* how far added_on and confirmed_on are set back, at most
  RemoveUnlistedAfter,   \* REMOVE_UNLISTED_GUARDS_AFTER
  UnlistedJitter,        \* how far first_unlisted_at is set back, at most
  ConfirmedMinLifetime,  \* GUARD_CONFIRMED_MIN_LIFETIME
  MinFilteredSample,     \* MIN_FILTERED_SAMPLE
  MaxSampleSize,         \* MAX_SAMPLE_SIZE
  SampleOneOf,           \* 1 / MAX_SAMPLE_THRESHOLD: one guard of five is sampled
  NPrimaryGuards,        \* N_PRIMARY_GUARDS
  CircuitLifetime,       \* the circuit manager closes older circuits
  MaxTime,               \* bound on the simulated time, for model checking
  None                   \* Rust's None

(* What a consensus says: the relays that are listed as Running, those     *)
(* that are also Valid, and those the generator counts and samples as      *)
(* guards.                                                                 *)
Consensus == [running : SUBSET Guard, valid : SUBSET Guard, guards : SUBSET Guard]

ASSUME ConsensusAssumption ==
  /\ Consensuses \subseteq Consensus
  /\ \A cs \in Consensuses : cs.guards \subseteq cs.running /\ IsFiniteSet(cs.guards)
ASSUME LifetimeAssumption ==
  /\ {GuardLifetime, RemoveUnlistedAfter, ConfirmedMinLifetime} \subseteq Nat
  /\ AddedJitter \in 1 .. GuardLifetime /\ UnlistedJitter \in 1 .. RemoveUnlistedAfter
  /\ CircuitLifetime \in Nat /\ MaxTime \in Nat
ASSUME SampleAssumption ==
  {MinFilteredSample, MaxSampleSize, SampleOneOf, NPrimaryGuards} \subseteq Nat \ {0}
ASSUME NoneAssumption == None \notin Int \cup Guard

VARIABLES
  now,        \* the time of this round
  consensus,  \* the consensus of this round
  sampled,    \* sampled_guards
  confirmed,  \* confirmed_guards
  primary,    \* primary_guards
  open,       \* the open circuits: their guards, and when they were built
  handed,     \* the guard that get_guard_for_circuit returned last
  since,      \* for the properties: when each sampled guard was sampled
  phase       \* "idle": the next call is timed_updates; "round"; "failed"

vars == <<now, consensus, sampled, confirmed, primary, open, handed, since, phase>>

-----------------------------------------------------------------------------
SampledGuard == [fingerprint : Guard, added_on : Int, first_unlisted_at : Int \cup {None}]

ConfirmedGuard == [fingerprint : Guard, confirmed_on : Int]

Fingerprints(vec) == {vec[i].fingerprint : i \in DOMAIN vec}

(* random_past: a time at or before t, less than range ago.                *)
RandomPast(t, range) == (t - range + 1) .. t

IsListed(guard) == guard.first_unlisted_at = None

Listed(vec) == {vec[i].fingerprint : i \in {j \in DOMAIN vec : IsListed(vec[j])}}

(* A set of numbers in ascending order.                                    *)
Ascending(S) ==
  CHOOSE f \in [1 .. Cardinality(S) -> S] : \A i, j \in DOMAIN f : i < j => f[i] < f[j]

(* The guards of vec with a fingerprint in fps, in the order of vec.       *)
Only(vec, fps) ==
  LET order == Ascending({i \in DOMAIN vec : vec[i].fingerprint \in fps})
  IN  [n \in DOMAIN order |-> vec[order[n]]]

Outside(vec, gone) == Only(vec, Fingerprints(vec) \ gone)

(* recompute_primary_guards                                                *)
PrimaryOfBug(smp, cfm) ==
  [i \in 1 .. IF Len(cfm) < NPrimaryGuards THEN Len(cfm) ELSE NPrimaryGuards |->
     cfm[i].fingerprint]

PrimaryOfAllBug(smp, cfm) ==
  LET usable == Only(cfm, Listed(smp))
  IN  [i \in DOMAIN usable |-> usable[i].fingerprint]

PrimaryOf(smp, cfm) ==
  LET usable == Only(cfm, Listed(smp))
  IN  [i \in 1 .. IF Len(usable) < NPrimaryGuards THEN Len(usable) ELSE NPrimaryGuards |->
         usable[i].fingerprint]

(* get_confirmed_on(fp) is at most t - ConfirmedMinLifetime, or None.      *)
NotLatelyConfirmed(fp, t) ==
  \A i \in DOMAIN confirmed :
    confirmed[i].fingerprint = fp => t - confirmed[i].confirmed_on >= ConfirmedMinLifetime

OfflineTooLong(guard, t) ==
  ~IsListed(guard) /\ t - guard.first_unlisted_at >= RemoveUnlistedAfter

TooOldBug(guard, t) ==
  t - guard.added_on >= GuardLifetime /\ guard.fingerprint \notin Fingerprints(confirmed)

TooOldEarlyBug(guard, t) ==
  \/ t - guard.added_on >= GuardLifetime
  \/ guard.fingerprint \in Fingerprints(confirmed) /\ NotLatelyConfirmed(guard.fingerprint, t)

TooOld(guard, t) ==
  t - guard.added_on >= GuardLifetime /\ NotLatelyConfirmed(guard.fingerprint, t)

-----------------------------------------------------------------------------
Init ==
  /\ now = 0
  /\ consensus \in Consensuses
  /\ sampled = <<>>
  /\ confirmed = <<>>
  /\ primary = <<>>
  /\ open = {}
  /\ handed = None
  /\ since = [g \in {} |-> 0]
  /\ phase = "idle"

(* The listing of a sampled guard in consensus cs; when is the time that   *)
(* is remembered if the guard has just gone missing.                       *)
RelistBug(guard, cs, when) ==
  IF guard.fingerprint \in cs.running THEN [guard EXCEPT !.first_unlisted_at = None] ELSE guard

Relist(guard, cs, when) ==
  IF guard.fingerprint \in cs.running THEN [guard EXCEPT !.first_unlisted_at = None]
  ELSE IF IsListed(guard) THEN [guard EXCEPT !.first_unlisted_at = when]
  ELSE guard

(* The circuits that the manager may have left when it calls               *)
(* timed_updates.  It may have closed others, through other relays that    *)
(* are down or after their use; a client that still has them may do all    *)
(* that one without them does.                                             *)
StillOpen(t, cs) ==
  {c \in open : c.guard \in cs.valid /\ t <= c.built + CircuitLifetime}

(* timed_updates                                                           *)
TimedUpdates(t, cs) ==
  /\ phase # "failed"
  /\ now' = t
  /\ consensus' = cs
  /\ \E when \in [DOMAIN sampled -> RandomPast(t, UnlistedJitter)] :
       LET relisted == [i \in DOMAIN sampled |-> Relist(sampled[i], cs, when[i])]
           old  == {i \in DOMAIN relisted : OfflineTooLong(relisted[i], t) \/ TooOld(relisted[i], t)}
           gone == {relisted[i].fingerprint : i \in old}
       IN  /\ sampled' = Outside(relisted, gone)
           /\ confirmed' = Outside(confirmed, gone)
  /\ primary' = PrimaryOf(sampled', confirmed')
  /\ since' = [g \in Fingerprints(sampled') |-> since[g]]
  /\ open' = StillOpen(t, cs)
  /\ phase' = "round"
  /\ UNCHANGED handed

(* The least of the two limits on listed sampled guards.  (The threshold   *)
(* is a float in the code, whose products with small integers round down   *)
(* to the exact quotient.)                                                 *)
MaxSampled ==
  LET share == Cardinality(consensus.guards) \div SampleOneOf
  IN  IF share < MaxSampleSize THEN share ELSE MaxSampleSize

(* How many guards usable_guards samples.                                  *)
MissingBug ==
  LET goal == IF MaxSampled < MinFilteredSample THEN MaxSampled ELSE MinFilteredSample
  IN  IF Len(sampled) < goal THEN goal - Len(sampled) ELSE 0

Missing ==
  LET goal == IF MaxSampled < MinFilteredSample THEN MaxSampled ELSE MinFilteredSample
      have == Cardinality(Listed(sampled))
  IN  IF have < goal THEN goal - have ELSE 0

CandidatesBug == consensus.guards

Candidates == consensus.guards \ Fingerprints(sampled)

(* The sequences of guards that usable_guards may sample.                  *)
Samples ==
  {new \in [1 .. Missing -> [fingerprint : Candidates,
                             added_on : RandomPast(now, AddedJitter),
                             first_unlisted_at : {None}]] :
     \A i, j \in 1 .. Missing : new[i].fingerprint = new[j].fingerprint => i = j}

(* The guard is given to a circuit that is built at once.                  *)
HandOut(g) ==
  /\ handed' = g
  /\ open' = open \cup {[guard |-> g, built |-> now]}

(* get_guard_for_circuit, with a primary guard.                            *)
GetPrimary ==
  /\ phase = "round"
  /\ primary # <<>>
  /\ HandOut(primary[1])
  /\ UNCHANGED <<now, consensus, sampled, confirmed, primary, since, phase>>

(* get_guard_for_circuit through usable_guards, which samples guards until *)
(* there are enough.                                                       *)
GetSampledBug ==
  /\ phase = "round"
  /\ primary = <<>>
  /\ \E new \in Samples :
       /\ sampled' = sampled \o new
       /\ since' = [g \in Fingerprints(sampled') |-> IF g \in Fingerprints(new) THEN now ELSE since[g]]
  /\ \E g \in Listed(sampled') : HandOut(g)
  /\ UNCHANGED <<now, consensus, confirmed, primary, phase>>

GetSampled ==
  /\ phase = "round"
  /\ primary = <<>>
  /\ \E new \in Samples :
       /\ sampled' = sampled \o new
       /\ since' = [g \in Fingerprints(sampled') |-> IF g \in Fingerprints(new) THEN now ELSE since[g]]
  /\ \E i \in DOMAIN sampled' :
       /\ IsListed(sampled'[i])
       /\ \A j \in 1 .. i - 1 : ~IsListed(sampled'[j])
       /\ HandOut(sampled'[i].fingerprint)
  /\ UNCHANGED <<now, consensus, confirmed, primary, phase>>

(* An unwrap fails: there is no guard left to sample, or none is usable.   *)
NoGuard ==
  /\ phase = "round"
  /\ primary = <<>>
  /\ \/ Cardinality(Candidates) < Missing
     \/ Missing = 0 /\ Listed(sampled) = {}
  /\ phase' = "failed"
  /\ UNCHANGED <<now, consensus, sampled, confirmed, primary, open, handed, since>>

(* mark_as_confirmed for the guard of a circuit that carries a request.    *)
MarkAsConfirmed(g) ==
  /\ phase = "round"
  /\ g \in {c.guard : c \in open}
  /\ phase' = "idle"
  /\ IF g \in Fingerprints(confirmed)
     THEN UNCHANGED <<confirmed, primary>>
     ELSE /\ \E when \in RandomPast(now, AddedJitter) :
               confirmed' = Append(confirmed, [fingerprint |-> g, confirmed_on |-> when])
          /\ primary' = PrimaryOf(sampled, confirmed')
  /\ UNCHANGED <<now, consensus, sampled, open, handed, since>>

Next ==
  \/ \E t \in now .. MaxTime, cs \in Consensuses : TimedUpdates(t, cs)
  \/ GetPrimary
  \/ GetSampled
  \/ NoGuard
  \/ \E g \in Guard : MarkAsConfirmed(g)

Spec == Init /\ [][Next]_vars

-----------------------------------------------------------------------------
TypeOK ==
  /\ now \in Nat
  /\ consensus \in Consensuses
  /\ sampled \in Seq(SampledGuard)
  /\ confirmed \in Seq(ConfirmedGuard)
  /\ primary \in Seq(Guard) /\ Len(primary) <= NPrimaryGuards
  /\ open \subseteq [guard : Guard, built : Nat]
  /\ handed \in Guard \cup {None}
  /\ since \in [Fingerprints(sampled) -> Nat]
  /\ phase \in {"idle", "round", "failed"}

Distinct(vec) ==
  \A i, j \in DOMAIN vec : vec[i].fingerprint = vec[j].fingerprint => i = j

(* No guard is sampled twice or confirmed twice, although a guard that was *)
(* removed may come back in either list.                                   *)
NoDuplicates == Distinct(sampled) /\ Distinct(confirmed)

(* A primary guard is a confirmed one that is sampled and listed: removals *)
(* and relistings never leave a stale entry.                               *)
PrimaryUsable ==
  \A i \in DOMAIN primary : primary[i] \in Listed(sampled) \cap Fingerprints(confirmed)

(* A client runs out of guards (the unwraps of guard.rs:235 and 268) only  *)
(* under a consensus of too few guards for one to be sampled, never        *)
(* because of those it has sampled before.                                 *)
AlwaysAGuard ==
  phase = "failed" => Cardinality(consensus.guards) < SampleOneOf

(* A new circuit gets a guard that runs in the consensus of this moment.   *)
GuardRuns ==
  [][open' \ open # {} => handed' \in consensus.running]_vars

(* A guard does not outlive both lifetimes: confirming it late prolongs    *)
(* its use only once.                                                      *)
GuardsRetire ==
  phase = "round" =>
    \A g \in Fingerprints(sampled) : now - since[g] < GuardLifetime + ConfirmedMinLifetime

(* A guard that runs is not given up before its lifetime is over, but for  *)
(* the time by which the date of its addition was set back.                *)
GuardsKept ==
  [][\A g \in Fingerprints(sampled) \ Fingerprints(sampled') :
       g \in consensus'.running => now' - since[g] > GuardLifetime - AddedJitter]_vars

(* The place of a guard in a list.                                         *)
Position(vec, fp) == CHOOSE i \in DOMAIN vec : vec[i].fingerprint = fp

Before(vec, g, h) ==
  g \in Fingerprints(vec) /\ h \in Fingerprints(vec) /\ Position(vec, g) < Position(vec, h)

(* The guard for circuits is changed for cause only.  Either the last one  *)
(* has been removed or is not listed any more; or a guard that was         *)
(* confirmed before it is back; or, while it is not confirmed itself,      *)
(* another one has been confirmed, or a guard that comes before it in the  *)
(* sample is back.                                                         *)
GuardSticks ==
  [][(open' \ open # {} \/ handed' # handed) /\ handed # None =>
       \/ handed' = handed
       \/ handed \notin Listed(sampled)
       \/ Before(confirmed, handed', handed)
       \/ /\ handed \notin Fingerprints(confirmed)
          /\ handed' \in Fingerprints(confirmed) \/ Before(sampled, handed', handed)]_vars

(* A guard that was removed is forgotten: it is not confirmed again unless *)
(* it is sampled again.  (The claim of guard.rs:76 and observer.rs:340-346.)*)
ConfirmedAreSampled == Fingerprints(confirmed) \subseteq Fingerprints(sampled)
=============================================================================
