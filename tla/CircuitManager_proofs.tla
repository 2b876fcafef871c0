----------------------- MODULE CircuitManager_proofs -----------------------
(***************************************************************************)
(* Proofs about CircuitManager.  The heart of the matter is that a need's  *)
(* counter is the number of circuits that hold a handle to it.  That is    *)
(* not inductive: it also takes that a handle to a need that has left the  *)
(* map is older than any need that can be added from now on (Past), so     *)
(* that it is never taken for a handle to the new need of the same port.   *)
(***************************************************************************)
EXTENDS CircuitManager, FiniteSetTheorems, TLAPS

(* The types of a map of needs and of a Vec of circuits with indices       *)
(* below n.                                                                *)
NeedsTyped(nds) == DOMAIN nds \subseteq Port /\ nds \in [DOMAIN nds -> Need]

CircuitsTyped(crs, n) ==
  /\ n \in Nat \ {0}
  /\ DOMAIN crs \subseteq 1 .. n - 1
  /\ crs \in [DOMAIN crs -> ShallowCircuit]

(* At time t, no need and no handle is from the future, no need has less   *)
(* than its lifetime, and the handles that do not point to the need of     *)
(* their port are older than it, or than t when the port has no need.      *)
NeedsPast(nds, t) ==
  \A p \in DOMAIN nds :
    nds[p].born <= t /\ nds[p].born + NeedLifetime <= nds[p].expires

HandlesPast(nds, crs, t) ==
  \A c \in DOMAIN crs : \A h \in crs[c].covers :
    /\ h.port \in DOMAIN nds => h.born <= nds[h.port].born
    /\ h.port \notin DOMAIN nds => h.born < t

Spare(crs) == \A c \in DOMAIN crs : crs[c].covers # {} => crs[c].dirty = None

Counted(nds, crs) ==
  \A p \in DOMAIN nds : nds[p].covered = Cardinality(Holders(nds, crs, p))

(* The needs and circuits are in order at time t.                          *)
Good(nds, crs, n, t) ==
  /\ t \in Nat
  /\ NeedsTyped(nds)
  /\ CircuitsTyped(crs, n)
  /\ NeedsPast(nds, t)
  /\ HandlesPast(nds, crs, t)
  /\ Spare(crs)
  /\ Counted(nds, crs)

(* The inductive invariant.                                                *)
ControlOK ==
  /\ triggered \in BOOLEAN
  /\ consensus \in Consensus
  /\ request \in Port \cup {None}
  /\ phase \in {"idle", "covering", "serving", "failed"}
  /\ phase = "serving" => request # None
  /\ used \in DOMAIN circuits \cup {None}

Inv == Good(needs, circuits, pushed, now) /\ ControlOK

-----------------------------------------------------------------------------
(* A set of circuits is finite.                                            *)
LEMMA HoldersFinite ==
  ASSUME NEW nds, NEW crs, NEW n, CircuitsTyped(crs, n), NEW p
  PROVE  IsFiniteSet(Holders(nds, crs, p)) /\ IsFiniteSet(DOMAIN crs)
<1>1. IsFiniteSet(1 .. n - 1)
  BY FS_Interval DEF CircuitsTyped
<1>2. IsFiniteSet(DOMAIN crs)
  BY <1>1, FS_Subset DEF CircuitsTyped
<1>3. Holders(nds, crs, p) \subseteq DOMAIN crs
  BY DEF Holders
<1>. QED
  BY <1>2, <1>3, FS_Subset

(* Adding a need leaves the counters exact: nobody holds a handle to it.   *)
LEMMA AddNeedGood ==
  ASSUME NEW nds, NEW crs, NEW n, NEW t0, Good(nds, crs, n, t0),
         NEW t \in Nat, t0 <= t, NEW p \in Port, NEW s \in BOOLEAN
  PROVE  Good(AddNeed(nds, p, t, s), crs, n, t) /\ p \in DOMAIN AddNeed(nds, p, t, s)
<1> DEFINE new == AddNeed(nds, p, t, s)
<1>a. NeedLifetime \in Nat \ {0}
  BY TimeAssumption
<1>b. /\ t0 \in Nat
      /\ NeedsTyped(nds) /\ CircuitsTyped(crs, n) /\ NeedsPast(nds, t0)
      /\ HandlesPast(nds, crs, t0) /\ Spare(crs) /\ Counted(nds, crs)
  BY DEF Good
<1>1. CASE p \in DOMAIN nds
  <2>1. /\ DOMAIN new = DOMAIN nds
        /\ \A q \in DOMAIN nds : /\ new[q] \in Need
                                 /\ new[q].born = nds[q].born
                                 /\ new[q].covered = nds[q].covered
                                 /\ new[q].expires \in {nds[q].expires, t + NeedLifetime}
    BY <1>1, <1>a, <1>b DEF AddNeed, NeedsTyped, Need
  <2>2. NeedsTyped(new)
    <3>1. new = [q \in DOMAIN nds |-> new[q]]
      BY <1>1, <1>b DEF AddNeed, NeedsTyped
    <3>. QED
      BY <2>1, <3>1, <1>b DEF NeedsTyped
  <2>3. NeedsPast(new, t)
    <3> SUFFICES ASSUME NEW q \in DOMAIN nds
                 PROVE  new[q].born <= t /\ new[q].born + NeedLifetime <= new[q].expires
      BY <2>1 DEF NeedsPast
    <3>1. nds[q] \in Need /\ nds[q].born \in Nat /\ nds[q].expires \in Nat
      BY <1>b DEF NeedsTyped, Need
    <3>2. nds[q].born <= t0 /\ nds[q].born + NeedLifetime <= nds[q].expires
      BY <1>b DEF NeedsPast
    <3>. QED
      BY <2>1, <3>1, <3>2, <1>a, <1>b
  <2>4. HandlesPast(new, crs, t)
    BY <2>1, <1>b DEF HandlesPast, CircuitsTyped, ShallowCircuit, NeedHandle
  <2>5. Counted(new, crs)
    BY <2>1, <1>b DEF Counted, Holders, HandleTo
  <2>. QED
    BY <1>1, <1>b, <2>1, <2>2, <2>3, <2>4, <2>5 DEF Good
<1>2. CASE p \notin DOMAIN nds
  <2>1. /\ DOMAIN new = DOMAIN nds \cup {p}
        /\ \A q \in DOMAIN nds : new[q] = nds[q]
        /\ new[p] = [born |-> t, expires |-> t + NeedLifetime, stable |-> s, covered |-> 0]
        /\ new = [q \in DOMAIN new |-> new[q]]
    BY <1>2 DEF AddNeed
  <2>2. NeedsTyped(new)
    <3>1. new[p] \in Need
      BY <2>1, <1>a DEF Need
    <3>. QED
      BY <2>1, <3>1, <1>b DEF NeedsTyped
  <2>3. NeedsPast(new, t)
    <3>1. \A q \in DOMAIN nds : nds[q].born \in Nat
      BY <1>b DEF NeedsTyped, Need
    <3>. QED
      BY <2>1, <3>1, <1>a, <1>b DEF NeedsPast
  <2>4. \A c \in DOMAIN crs : \A h \in crs[c].covers : h.born \in Nat
    BY <1>b DEF CircuitsTyped, ShallowCircuit, NeedHandle
  <2>5. HandlesPast(new, crs, t)
    BY <2>1, <2>4, <1>b DEF HandlesPast
  <2>6. Holders(new, crs, p) = {}
    <3> SUFFICES ASSUME NEW c \in DOMAIN crs, HandleTo(new, p) \in crs[c].covers
                 PROVE  FALSE
      BY DEF Holders
    <3>1. HandleTo(new, p) = [port |-> p, born |-> t]
      BY <2>1 DEF HandleTo
    <3>2. t < t0
      BY <3>1, <1>2, <1>b DEF HandlesPast
    <3>. QED
      BY <3>2, <1>b
  <2>7. Counted(new, crs)
    <3>1. \A q \in DOMAIN nds : Holders(new, crs, q) = Holders(nds, crs, q)
      BY <2>1 DEF Holders, HandleTo
    <3>. QED
      BY <2>1, <2>6, <3>1, <1>b, FS_EmptySet DEF Counted
  <2>. QED
    BY <1>b, <2>1, <2>2, <2>3, <2>5, <2>7 DEF Good
<1>. QED
  BY <1>1, <1>2

(* The handles to needs that expire by t are older than t.                 *)
LEMMA RemoveExpiredGood ==
  ASSUME NEW nds, NEW crs, NEW n, NEW t, Good(nds, crs, n, t)
  PROVE  Good(RemoveExpired(nds, t), crs, n, t)
<1> DEFINE live == RemoveExpired(nds, t)
<1>a. NeedLifetime \in Nat \ {0}
  BY TimeAssumption
<1>b. /\ t \in Nat
      /\ NeedsTyped(nds) /\ CircuitsTyped(crs, n) /\ NeedsPast(nds, t)
      /\ HandlesPast(nds, crs, t) /\ Spare(crs) /\ Counted(nds, crs)
  BY DEF Good
<1>1. /\ DOMAIN live = {q \in DOMAIN nds : ~(nds[q].expires <= t)}
      /\ \A q \in DOMAIN live : live[q] = nds[q]
      /\ live = [q \in DOMAIN live |-> live[q]]
  BY DEF RemoveExpired, HasExpired
<1>2. NeedsTyped(live)
  BY <1>1, <1>b DEF NeedsTyped
<1>3. NeedsPast(live, t)
  BY <1>1, <1>b DEF NeedsPast
<1>4. HandlesPast(live, crs, t)
  <2> SUFFICES ASSUME NEW c \in DOMAIN crs, NEW h \in crs[c].covers
               PROVE  /\ h.port \in DOMAIN live => h.born <= live[h.port].born
                      /\ h.port \notin DOMAIN live => h.born < t
    BY DEF HandlesPast
  <2>1. h.born \in Nat
    BY <1>b DEF CircuitsTyped, ShallowCircuit, NeedHandle
  <2>2. CASE h.port \in DOMAIN nds
    <3>1. h.born <= nds[h.port].born
      BY <2>2, <1>b DEF HandlesPast
    <3>2. nds[h.port].born \in Nat /\ nds[h.port].expires \in Nat
      BY <2>2, <1>b DEF NeedsTyped, Need
    <3>3. nds[h.port].born + NeedLifetime <= nds[h.port].expires
      BY <2>2, <1>b DEF NeedsPast
    <3>. QED
      BY <2>1, <2>2, <3>1, <3>2, <3>3, <1>1, <1>a, <1>b
  <2>3. CASE h.port \notin DOMAIN nds
    BY <2>3, <1>1, <1>b DEF HandlesPast
  <2>. QED
    BY <2>2, <2>3
<1>5. Counted(live, crs)
  BY <1>1, <1>b DEF Counted, Holders, HandleTo
<1>. QED
  BY <1>b, <1>2, <1>3, <1>4, <1>5 DEF Good

(* Circuits that are gone, or have given up what they covered, are the     *)
(* ones whose handles are dropped.                                         *)
LEMMA DropGood ==
  ASSUME NEW nds, NEW n, NEW t, Good(nds, circuits, n, t),
         NEW gone \in SUBSET DOMAIN circuits, NEW crs, CircuitsTyped(crs, n),
         DOMAIN circuits \ gone \subseteq DOMAIN crs, DOMAIN crs \subseteq DOMAIN circuits,
         \A c \in DOMAIN circuits \ gone : crs[c] = circuits[c],
         \A c \in DOMAIN crs \cap gone : crs[c].covers = {}
  PROVE  Good(DropHandles(nds, gone), crs, n, t)
<1> DEFINE new == DropHandles(nds, gone)
<1>b. /\ t \in Nat
      /\ NeedsTyped(nds) /\ CircuitsTyped(circuits, n) /\ NeedsPast(nds, t)
      /\ HandlesPast(nds, circuits, t) /\ Spare(circuits) /\ Counted(nds, circuits)
  BY DEF Good
<1>1. ASSUME NEW p \in DOMAIN nds
      PROVE  /\ Holders(nds, crs, p) = Holders(nds, circuits, p) \ gone
             /\ nds[p].covered - Cardinality(Holders(nds, circuits, p) \cap gone)
                  = Cardinality(Holders(nds, crs, p))
             /\ Cardinality(Holders(nds, crs, p)) \in Nat
  <2>1. Holders(nds, crs, p) = Holders(nds, circuits, p) \ gone
    BY DEF Holders
  <2>2. IsFiniteSet(Holders(nds, circuits, p)) /\ IsFiniteSet(DOMAIN circuits)
    BY <1>b, HoldersFinite
  <2>3. IsFiniteSet(gone)
    BY <2>2, FS_Subset
  <2>4. /\ IsFiniteSet(Holders(nds, circuits, p) \ gone)
        /\ Cardinality(Holders(nds, circuits, p) \ gone)
             = Cardinality(Holders(nds, circuits, p))
               - Cardinality(Holders(nds, circuits, p) \cap gone)
    BY <2>2, <2>3, FS_Difference
  <2>5. Cardinality(Holders(nds, circuits, p) \ gone) \in Nat
    BY <2>4, FS_CardinalityType
  <2>6. nds[p].covered = Cardinality(Holders(nds, circuits, p))
    BY <1>b DEF Counted
  <2>. QED
    BY <2>1, <2>4, <2>5, <2>6
<1>2. /\ DOMAIN new = DOMAIN nds
      /\ new = [p \in DOMAIN nds |-> new[p]]
      /\ \A p \in DOMAIN nds :
           new[p] = [nds[p] EXCEPT !.covered
                       = @ - Cardinality(Holders(nds, circuits, p) \cap gone)]
  BY DEF DropHandles
<1>3. \A p \in DOMAIN nds :
        /\ new[p] \in Need
        /\ new[p].born = nds[p].born
        /\ new[p].expires = nds[p].expires
        /\ new[p].covered = Cardinality(Holders(nds, crs, p))
  <2> SUFFICES ASSUME NEW p \in DOMAIN nds
               PROVE  /\ new[p] \in Need
                      /\ new[p].born = nds[p].born
                      /\ new[p].expires = nds[p].expires
                      /\ new[p].covered = Cardinality(Holders(nds, crs, p))
    OBVIOUS
  <2>1. nds[p] \in Need
    BY <1>b DEF NeedsTyped
  <2>2. new[p] = [nds[p] EXCEPT !.covered
                    = nds[p].covered - Cardinality(Holders(nds, circuits, p) \cap gone)]
    BY <1>2
  <2>3. new[p] = [nds[p] EXCEPT !.covered = Cardinality(Holders(nds, crs, p))]
    BY <2>2, <1>1
  <2>. HIDE DEF new
  <2>. QED
    BY <2>1, <2>3, <1>1 DEF Need
<1>4. NeedsTyped(new)
  BY <1>2, <1>3, <1>b DEF NeedsTyped
<1>5. NeedsPast(new, t)
  BY <1>2, <1>3, <1>b DEF NeedsPast
<1>6. \A c \in DOMAIN crs : crs[c] = circuits[c] \/ crs[c].covers = {}
  OBVIOUS
<1>7. HandlesPast(new, crs, t)
  BY <1>2, <1>3, <1>6, <1>b DEF HandlesPast
<1>8. Spare(crs)
  BY <1>6, <1>b DEF Spare
<1>9. Counted(new, crs)
  BY <1>2, <1>3 DEF Counted, Holders, HandleTo
<1>. QED
  BY <1>b, <1>4, <1>5, <1>7, <1>8, <1>9 DEF Good

(* A clean circuit takes a handle that it does not hold yet.               *)
LEMMA TakeHandleGood ==
  ASSUME NEW nds, NEW crs, NEW n, NEW t, Good(nds, crs, n, t),
         NEW p \in DOMAIN nds, NEW c \in DOMAIN crs,
         crs[c].dirty = None, c \notin Holders(nds, crs, p)
  PROVE  Good([nds EXCEPT ![p].covered = @ + 1],
              [crs EXCEPT ![c].covers = @ \cup {HandleTo(nds, p)}], n, t)
<1> DEFINE nds2 == [nds EXCEPT ![p].covered = @ + 1]
           crs2 == [crs EXCEPT ![c].covers = @ \cup {HandleTo(nds, p)}]
<1>b. /\ t \in Nat
      /\ NeedsTyped(nds) /\ CircuitsTyped(crs, n) /\ NeedsPast(nds, t)
      /\ HandlesPast(nds, crs, t) /\ Spare(crs) /\ Counted(nds, crs)
  BY DEF Good
<1>1. /\ DOMAIN nds2 = DOMAIN nds
      /\ \A q \in DOMAIN nds : /\ nds2[q].born = nds[q].born
                               /\ nds2[q].expires = nds[q].expires
                               /\ nds2[q].covered = IF q = p THEN nds[q].covered + 1
                                                             ELSE nds[q].covered
      /\ NeedsTyped(nds2)
  BY <1>b DEF NeedsTyped, Need
<1>2. HandleTo(nds, p) \in NeedHandle
  BY <1>b DEF HandleTo, NeedHandle, NeedsTyped, Need
<1>3. /\ DOMAIN crs2 = DOMAIN crs
      /\ \A d \in DOMAIN crs : d # c => crs2[d] = crs[d]
      /\ crs2[c].covers = crs[c].covers \cup {HandleTo(nds, p)}
      /\ crs2[c].dirty = crs[c].dirty
  BY <1>b DEF CircuitsTyped, ShallowCircuit
<1>4. CircuitsTyped(crs2, n)
  <2>1. crs2[c] \in ShallowCircuit
    BY <1>2, <1>b DEF CircuitsTyped, ShallowCircuit
  <2>. QED
    BY <2>1, <1>3, <1>b DEF CircuitsTyped
<1>5. NeedsPast(nds2, t)
  BY <1>1, <1>b DEF NeedsPast
<1>6. HandlesPast(nds2, crs2, t)
  <2>1. \A q \in DOMAIN nds : nds[q].born \in Nat
    BY <1>b DEF NeedsTyped, Need
  <2>2. HandleTo(nds, p).port = p /\ HandleTo(nds, p).born = nds[p].born
    BY DEF HandleTo
  <2>. QED
    BY <2>1, <2>2, <1>1, <1>3, <1>b DEF HandlesPast
<1>7. Spare(crs2)
  BY <1>3, <1>b DEF Spare
<1>8. Holders(nds2, crs2, p) = Holders(nds, crs, p) \cup {c}
  BY <1>1, <1>3 DEF Holders, HandleTo
<1>9. \A q \in DOMAIN nds \ {p} : Holders(nds2, crs2, q) = Holders(nds, crs, q)
  BY <1>1, <1>3 DEF Holders, HandleTo
<1>10. Counted(nds2, crs2)
  <2>1. Cardinality(Holders(nds2, crs2, p)) = nds[p].covered + 1
    BY <1>8, <1>b, HoldersFinite, FS_AddElement DEF Counted
  <2>. QED
    BY <2>1, <1>1, <1>9, <1>b DEF Counted
<1>. QED
  BY <1>b, <1>1, <1>4, <1>5, <1>6, <1>7, <1>10 DEF Good

(* A circuit that covers nothing is pushed to the end of the Vec.          *)
LEMMA PushGood ==
  ASSUME NEW t, Good(needs, circuits, pushed, t),
         NEW circuit \in ShallowCircuit, circuit.covers = {}
  PROVE  /\ Good(needs, Push(circuit), pushed + 1, t)
         /\ Push(circuit)[pushed] = circuit
         /\ DOMAIN Push(circuit) = DOMAIN circuits \cup {pushed}
<1> DEFINE crs == Push(circuit)
<1>b. /\ t \in Nat
      /\ NeedsTyped(needs) /\ CircuitsTyped(circuits, pushed) /\ NeedsPast(needs, t)
      /\ HandlesPast(needs, circuits, t) /\ Spare(circuits) /\ Counted(needs, circuits)
  BY DEF Good
<1>1. pushed \in Nat \ {0} /\ pushed \notin DOMAIN circuits
  BY <1>b DEF CircuitsTyped
<1>2. /\ DOMAIN crs = DOMAIN circuits \cup {pushed}
      /\ crs[pushed] = circuit
      /\ \A c \in DOMAIN circuits : crs[c] = circuits[c]
      /\ crs = [c \in DOMAIN crs |-> crs[c]]
  BY <1>1 DEF Push
<1>3. CircuitsTyped(crs, pushed + 1)
  BY <1>1, <1>2, <1>b DEF CircuitsTyped
<1>4. HandlesPast(needs, crs, t)
  BY <1>2, <1>b DEF HandlesPast
<1>5. Spare(crs)
  BY <1>2, <1>b DEF Spare
<1>6. Counted(needs, crs)
  <2>1. \A p : Holders(needs, crs, p) = Holders(needs, circuits, p)
    BY <1>2 DEF Holders
  <2>. QED
    BY <2>1, <1>b DEF Counted
<1>. QED
  BY <1>b, <1>2, <1>3, <1>4, <1>5, <1>6 DEF Good

(* What is in order stays so as time passes.                               *)
LEMMA LaterGood ==
  ASSUME NEW nds, NEW crs, NEW n, NEW t0, Good(nds, crs, n, t0), NEW t \in Nat, t0 <= t
  PROVE  Good(nds, crs, n, t)
<1>1. t0 \in Nat /\ NeedsTyped(nds) /\ CircuitsTyped(crs, n)
  BY DEF Good
<1>2. NeedsPast(nds, t)
  BY <1>1 DEF Good, NeedsPast, NeedsTyped, Need
<1>3. HandlesPast(nds, crs, t)
  BY <1>1 DEF Good, HandlesPast, CircuitsTyped, ShallowCircuit, NeedHandle
<1>. QED
  BY <1>1, <1>2, <1>3 DEF Good

-----------------------------------------------------------------------------
(* The inductive invariant holds initially.                                *)
LEMMA InitInv == Init => Inv
<1> SUFFICES ASSUME Init PROVE Inv
  OBVIOUS
<1>1. NeedsTyped(needs) /\ CircuitsTyped(circuits, pushed)
  BY DEF Init, NeedsTyped, CircuitsTyped
<1>2. Good(needs, circuits, pushed, now)
  BY <1>1 DEF Init, Good, NeedsPast, HandlesPast, Spare, Counted
<1>3. ControlOK
  BY ConsensusAssumption DEF Init, ControlOK
<1>. QED
  BY <1>2, <1>3 DEF Inv

(* The housekeeping at time t.                                             *)
LEMMA TimedUpdatesInv ==
  ASSUME Inv, NEW t \in Nat, now <= t, NEW cs, TimedUpdates(t, cs)
  PROVE  Good(needs', circuits', pushed', now')
<1> DEFINE added == IF triggered THEN needs ELSE AddNeed(needs, InitialPort, t, FALSE)
           live  == RemoveExpired(added, t)
           rest  == [c \in DOMAIN circuits \ Closed(t, cs) |-> circuits[c]]
<1>1. Good(added, circuits, pushed, t)
  <2>1. CASE triggered
    BY <2>1, LaterGood DEF Inv
  <2>2. CASE ~triggered
    BY <2>2, AddNeedGood, PortAssumption DEF Inv
  <2>. QED
    BY <2>1, <2>2
<1>2. Good(live, circuits, pushed, t)
  BY <1>1, RemoveExpiredGood
<1>3. Closed(t, cs) \in SUBSET DOMAIN circuits
  BY DEF Closed, OldDirty, OldClean, Down
<1>4. CircuitsTyped(rest, pushed)
  BY DEF Inv, Good, CircuitsTyped
<1>5. Good(DropHandles(live, Closed(t, cs)), rest, pushed, t)
  <2>. HIDE DEF live
  <2>. QED
    BY <1>2, <1>3, <1>4, DropGood
<1>. QED
  BY <1>5 DEF TimedUpdates

(* The housekeeping at the start of an epoch preserves it.                 *)
LEMMA NewEpochInv ==
  ASSUME Inv, NEW t \in Nat, now <= t, NEW cs \in Consensuses, NewEpoch(t, cs)
  PROVE  Inv'
<1>1. Good(needs', circuits', pushed', now')
  BY TimedUpdatesInv DEF NewEpoch
<1>2. ControlOK'
  BY ConsensusAssumption DEF NewEpoch, TimedUpdates, ControlOK
<1>. QED
  BY <1>1, <1>2 DEF Inv

(* So does the housekeeping before a request.                              *)
LEMMA NextRequestInv ==
  ASSUME Inv, NEW t \in Nat, now <= t, NEW p \in Port, NextRequest(t, p)
  PROVE  Inv'
<1>1. Good(needs', circuits', pushed', now')
  BY TimedUpdatesInv DEF NextRequest
<1>2. ControlOK'
  BY NoneAssumption DEF NextRequest, TimedUpdates, ControlOK, Inv
<1>. QED
  BY <1>1, <1>2 DEF Inv

(* So does one iteration of the covering loop.                             *)
LEMMA CoverNeedInv ==
  ASSUME Inv, NEW p \in Port, NEW g \in Relay, NEW m \in Relay, NEW x \in Relay,
         CoverNeed(p, g, m, x)
  PROVE  Inv'
<1> DEFINE h     == HandleTo(needs, p)
           bare  == NewCircuit(g, m, x, needs[p].stable, None, {})
           crs   == Push(bare)
<1>1. p \in DOMAIN needs
  BY DEF CoverNeed, Uncovered
<1>2. needs[p] \in Need /\ now \in Nat
  BY <1>1 DEF Inv, Good, NeedsTyped
<1>3. bare \in ShallowCircuit /\ bare.covers = {} /\ bare.dirty = None
  BY <1>2 DEF NewCircuit, ShallowCircuit, Need
<1>4. /\ Good(needs, crs, pushed + 1, now)
      /\ crs[pushed] = bare
      /\ DOMAIN crs = DOMAIN circuits \cup {pushed}
  BY <1>3, PushGood DEF Inv
<1>5. Good([needs EXCEPT ![p].covered = @ + 1],
           [crs EXCEPT ![pushed].covers = @ \cup {h}], pushed + 1, now)
  <2>1. pushed \notin Holders(needs, crs, p)
    BY <1>3, <1>4 DEF Holders
  <2>2. pushed \in DOMAIN crs /\ crs[pushed].dirty = None
    BY <1>3, <1>4
  <2>. HIDE DEF crs, bare
  <2>. QED
    BY <1>1, <1>4, <2>1, <2>2, TakeHandleGood
<1>6. [crs EXCEPT ![pushed].covers = @ \cup {h}] = circuits'
  <2>1. circuits' = Push(NewCircuit(g, m, x, needs[p].stable, None, {h}))
    BY DEF CoverNeed
  <2>2. NewCircuit(g, m, x, needs[p].stable, None, {h}) = [bare EXCEPT !.covers = @ \cup {h}]
    BY DEF NewCircuit
  <2>. QED
    BY <2>1, <2>2 DEF Push
<1>7. Good(needs', circuits', pushed', now')
  BY <1>5, <1>6 DEF CoverNeed
<1>8. ControlOK'
  BY <1>4 DEF CoverNeed, ControlOK, Inv, Push
<1>. QED
  BY <1>7, <1>8 DEF Inv

(* Remembering the need of a request makes no circuit clean or dirty.      *)
LEMMA RememberDirty ==
  ASSUME NEW nds, NEW crs, crs \in [DOMAIN crs -> ShallowCircuit], Remember(nds, crs)
  PROVE  /\ DOMAIN circuits' = DOMAIN crs
         /\ \A c \in DOMAIN crs : circuits'[c].dirty = crs[c].dirty
<1>1. CASE circuits' = crs
  BY <1>1
<1>2. ASSUME NEW c \in DOMAIN crs, NEW h,
             circuits' = [crs EXCEPT ![c].covers = @ \cup {h}]
      PROVE  /\ DOMAIN circuits' = DOMAIN crs
             /\ \A d \in DOMAIN crs : circuits'[d].dirty = crs[d].dirty
  BY <1>2 DEF ShallowCircuit
<1>. QED
  BY <1>1, <1>2 DEF Remember

(* Remembering the need of a request and covering it again.                *)
LEMMA RememberGood ==
  ASSUME NEW nds, NEW crs, NEW n, Good(nds, crs, n, now),
         request \in Port, Remember(nds, crs)
  PROVE  /\ Good(needs', circuits', n, now)
         /\ DOMAIN circuits' = DOMAIN crs
         /\ \A c \in DOMAIN crs : circuits'[c].dirty = crs[c].dirty
<1> DEFINE added == AddNeed(nds, request, now, request \in LongLived)
           fit   == CanCover(added, crs, request)
<1>1. now \in Nat /\ now <= now
  BY DEF Good
<1>2. Good(added, crs, n, now) /\ request \in DOMAIN added
  <2>1. \A s \in BOOLEAN : /\ Good(AddNeed(nds, request, now, s), crs, n, now)
                           /\ request \in DOMAIN AddNeed(nds, request, now, s)
    BY <1>1, AddNeedGood
  <2>2. (request \in LongLived) \in BOOLEAN
    OBVIOUS
  <2>. QED
    BY <2>1, <2>2
<1>3. CASE circuits' = crs /\ needs' = added
  BY <1>2, <1>3
<1>4. ASSUME NEW c \in DOMAIN crs, IsFirst(c, fit),
             circuits' = [crs EXCEPT ![c].covers = @ \cup {HandleTo(added, request)}],
             needs' = [added EXCEPT ![request].covered = @ + 1]
      PROVE  /\ Good(needs', circuits', n, now)
             /\ DOMAIN circuits' = DOMAIN crs
             /\ \A d \in DOMAIN crs : circuits'[d].dirty = crs[d].dirty
  <2>1. crs[c].dirty = None /\ c \notin Holders(added, crs, request)
    BY <1>4 DEF IsFirst, CanCover
  <2>2. Good(needs', circuits', n, now)
    <3>. HIDE DEF added
    <3>. QED
      BY <1>2, <1>4, <2>1, TakeHandleGood
  <2>3. DOMAIN circuits' = DOMAIN crs /\ \A d \in DOMAIN crs : circuits'[d].dirty = crs[d].dirty
    BY RememberDirty DEF Good, CircuitsTyped
  <2>. QED
    BY <2>2, <2>3
<1>. QED
  BY <1>3, <1>4 DEF Remember

(* The request is handled on circuit c of crs.                             *)
LEMMA ServeInv ==
  ASSUME Inv, phase = "serving", NEW nds, NEW crs, NEW c \in DOMAIN crs,
         Good(nds, crs, pushed', now), Serve(c, nds, crs)
  PROVE  Inv'
<1>1. request \in Port
  BY DEF Inv, ControlOK
<1>2. Good(needs', circuits', pushed', now) /\ DOMAIN circuits' = DOMAIN crs
  <2>1. CASE Remember(nds, crs)
    BY <1>1, <2>1, RememberGood
  <2>2. CASE needs' = nds /\ circuits' = crs
    BY <2>2
  <2>. QED
    BY <2>1, <2>2 DEF Serve
<1>3. Good(needs', circuits', pushed', now')
  BY <1>2 DEF Serve
<1>4. ControlOK'
  BY <1>2 DEF Serve, Inv, ControlOK
<1>. QED
  BY <1>3, <1>4 DEF Inv

(* Serving a request on a dirty circuit preserves the invariant.           *)
LEMMA UseDirtyInv ==
  ASSUME Inv, NEW c \in DOMAIN circuits, UseDirty(c)
  PROVE  Inv'
<1>1. Good(needs, circuits, pushed', now)
  BY DEF Inv, UseDirty
<1>. QED
  BY <1>1, ServeInv DEF UseDirty

(* Using a clean circuit leaves the counters exact.                        *)
LEMMA UseCleanGood ==
  ASSUME Inv, NEW c \in DOMAIN circuits
  PROVE  /\ Good(DropHandles(needs, {c}),
                 [circuits EXCEPT ![c].dirty = now, ![c].covers = {}], pushed, now)
         /\ c \in DOMAIN [circuits EXCEPT ![c].dirty = now, ![c].covers = {}]
<1> DEFINE crs == [circuits EXCEPT ![c].dirty = now, ![c].covers = {}]
<1>1. now \in Nat /\ CircuitsTyped(circuits, pushed)
  BY DEF Inv, Good
<1>2. /\ DOMAIN crs = DOMAIN circuits
      /\ \A d \in DOMAIN circuits \ {c} : crs[d] = circuits[d]
      /\ crs[c] = [circuits[c] EXCEPT !.dirty = now, !.covers = {}]
  BY <1>1 DEF CircuitsTyped
<1>3. CircuitsTyped(crs, pushed) /\ crs[c].covers = {}
  <2>1. circuits[c] \in ShallowCircuit
    BY <1>1 DEF CircuitsTyped
  <2>2. crs[c] \in ShallowCircuit /\ crs[c].covers = {}
    BY <1>1, <1>2, <2>1 DEF ShallowCircuit
  <2>3. crs = [d \in DOMAIN circuits |-> crs[d]]
    BY <1>1 DEF CircuitsTyped
  <2>. HIDE DEF crs
  <2>. QED
    BY <1>1, <1>2, <2>2, <2>3 DEF CircuitsTyped
<1>4. Good(needs, circuits, pushed, now)
  BY DEF Inv
<1>. HIDE DEF crs
<1>5. Good(DropHandles(needs, {c}), crs, pushed, now)
  BY <1>2, <1>3, <1>4, DropGood
<1>. QED
  BY <1>2, <1>5 DEF crs

(* Serving a request on a clean circuit preserves the invariant.           *)
LEMMA UseCleanInv ==
  ASSUME Inv, NEW c \in DOMAIN circuits, UseClean(c)
  PROVE  Inv'
<1> DEFINE crs == [circuits EXCEPT ![c].dirty = now, ![c].covers = {}]
<1>1. Good(DropHandles(needs, {c}), crs, pushed, now) /\ c \in DOMAIN crs
  BY UseCleanGood
<1>2. pushed' = pushed /\ phase = "serving" /\ Serve(c, DropHandles(needs, {c}), crs)
  BY DEF UseClean
<1>. HIDE DEF crs
<1>. QED
  BY <1>1, <1>2, ServeInv

(* Serving a request on a new circuit preserves the invariant.             *)
LEMMA UseNewInv ==
  ASSUME Inv, NEW g \in Relay, NEW m \in Relay, NEW x \in Relay, UseNew(g, m, x)
  PROVE  Inv'
<1> DEFINE circuit == NewCircuit(g, m, x, request \in LongLived, now, {})
           crs     == Push(circuit)
<1>1. circuit \in ShallowCircuit /\ circuit.covers = {}
  BY DEF Inv, Good, NewCircuit, ShallowCircuit
<1>2. Good(needs, crs, pushed + 1, now) /\ DOMAIN crs = DOMAIN circuits \cup {pushed}
  BY <1>1, PushGood DEF Inv
<1>3. pushed' = pushed + 1 /\ phase = "serving" /\ Serve(pushed, needs, crs)
  BY DEF UseNew
<1>. HIDE DEF crs
<1>. QED
  BY <1>2, <1>3, ServeInv

(* Every step keeps the needs and circuits in order.                       *)
LEMMA NextInv == Inv /\ [Next]_vars => Inv'
<1> SUFFICES ASSUME Inv, [Next]_vars PROVE Inv'
  OBVIOUS
<1>0. now \in Nat /\ MaxTime \in Nat
  BY TimeAssumption DEF Inv, Good
<1>1. ASSUME NEW t \in now .. MaxTime, NEW cs \in Consensuses, NewEpoch(t, cs)
      PROVE  Inv'
  BY <1>0, <1>1, NewEpochInv
<1>2. ASSUME NEW t \in now .. MaxTime, NEW p \in Port, NextRequest(t, p)
      PROVE  Inv'
  BY <1>0, <1>2, NextRequestInv
<1>3. ASSUME NEW p \in Port, NEW g \in Relay, NEW m \in Relay, NEW x \in Relay,
             CoverNeed(p, g, m, x)
      PROVE  Inv'
  BY <1>3, CoverNeedInv
<1>4. CASE CoverDone
  BY <1>4 DEF CoverDone, Inv, ControlOK
<1>5. CASE BuildFails
  BY <1>5 DEF BuildFails, Inv, ControlOK
<1>6. ASSUME NEW c \in DOMAIN circuits, UseDirty(c) \/ UseClean(c)
      PROVE  Inv'
  BY <1>6, UseDirtyInv, UseCleanInv
<1>7. ASSUME NEW g \in Relay, NEW m \in Relay, NEW x \in Relay, UseNew(g, m, x)
      PROVE  Inv'
  BY <1>7, UseNewInv
<1>8. CASE UNCHANGED vars
  BY <1>8 DEF vars, Inv, ControlOK
<1>. QED
  BY <1>1, <1>2, <1>3, <1>4, <1>5, <1>6, <1>7, <1>8 DEF Next, Covering, Serving

(* The inductive invariant holds in every reachable state.                 *)
LEMMA Invariant == Spec => []Inv
BY InitInv, NextInv, PTL DEF Spec

-----------------------------------------------------------------------------
(* The variables have their types.  In particular the unsigned counter of  *)
(* a need is never decremented below zero (the assertion of needs.rs:253). *)
THEOREM TypeCorrect == Spec => []TypeOK
<1>1. Inv => TypeOK
  BY DEF Inv, Good, NeedsTyped, CircuitsTyped, ControlOK, TypeOK
<1>. QED
  BY <1>1, Invariant, PTL

(* A need's counter is the number of circuits that hold a handle to it,    *)
(* whatever is closed, expires, is added again or is used.                 *)
THEOREM CountersExact == Spec => []CoverCountExact
<1>1. Inv => CoverCountExact
  BY DEF Inv, Good, Counted, CoverCountExact
<1>. QED
  BY <1>1, Invariant, PTL

(* A circuit that has been used covers nothing.                            *)
THEOREM SpareCircuitsCover == Spec => []OnlySpareCircuitsCover
<1>1. Inv => OnlySpareCircuitsCover
  BY DEF Inv, Good, Spare, OnlySpareCircuitsCover, IsClean
<1>. QED
  BY <1>1, Invariant, PTL

-----------------------------------------------------------------------------
(* Handles are handed out only below CoverNum, so a step cannot exceed it. *)
LEMMA AddNeedBounded ==
  ASSUME NEW nds, \A p \in DOMAIN nds : nds[p].covered <= CoverNum,
         NEW q \in Port, NEW t, NEW s, NeedsTyped(nds)
  PROVE  \A p \in DOMAIN AddNeed(nds, q, t, s) :
           AddNeed(nds, q, t, s)[p].covered <= CoverNum
<1>1. CASE q \in DOMAIN nds
  BY <1>1 DEF AddNeed, NeedsTyped, Need
<1>2. CASE q \notin DOMAIN nds
  BY <1>2, CoverAssumption DEF AddNeed
<1>. QED
  BY <1>1, <1>2

(* Dropping handles does not raise a counter.                              *)
LEMMA DropBounded ==
  ASSUME NEW nds, NeedsTyped(nds), \A p \in DOMAIN nds : nds[p].covered <= CoverNum,
         NEW n, CircuitsTyped(circuits, n), NEW gone
  PROVE  \A p \in DOMAIN DropHandles(nds, gone) :
           DropHandles(nds, gone)[p].covered <= CoverNum
<1> SUFFICES ASSUME NEW p \in DOMAIN nds
             PROVE  DropHandles(nds, gone)[p].covered <= CoverNum
  BY DEF DropHandles
<1> DEFINE lost == Holders(nds, circuits, p) \cap gone
<1>1. IsFiniteSet(lost)
  BY HoldersFinite, FS_Subset
<1>2. Cardinality(lost) \in Nat
  BY <1>1, FS_CardinalityType
<1>3. nds[p].covered \in Nat /\ nds[p].covered <= CoverNum /\ nds[p] \in Need
  BY DEF NeedsTyped, Need
<1>4. DropHandles(nds, gone)[p] = [nds[p] EXCEPT !.covered = nds[p].covered - Cardinality(lost)]
  BY DEF DropHandles
<1>5. DropHandles(nds, gone)[p].covered = nds[p].covered - Cardinality(lost)
  BY <1>3, <1>4 DEF Need
<1>. QED
  BY <1>2, <1>3, <1>5, CoverAssumption

(* Remembering a need keeps every counter within the cover number.         *)
LEMMA RememberBounded ==
  ASSUME NEW nds, NEW crs, NeedsTyped(nds), \A p \in DOMAIN nds : nds[p].covered <= CoverNum,
         now \in Nat, request \in Port, Remember(nds, crs)
  PROVE  \A p \in DOMAIN needs' : needs'[p].covered <= CoverNum
<1> DEFINE added == AddNeed(nds, request, now, request \in LongLived)
<1>1. \A p \in DOMAIN added : added[p].covered <= CoverNum
  BY AddNeedBounded
<1>2. \A p \in DOMAIN added : added[p] \in Need
  BY TimeAssumption DEF AddNeed, NeedsTyped, Need
<1>3. CASE needs' = added
  BY <1>1, <1>3
<1>4. CASE NeedsCover(added, request) /\ needs' = [added EXCEPT ![request].covered = @ + 1]
  <2>. HIDE DEF added
  <2>. QED
    BY <1>1, <1>2, <1>4, CoverAssumption DEF NeedsCover, Need
<1>. QED
  BY <1>3, <1>4 DEF Remember

(* No step covers a need more than the cover number says.                  *)
LEMMA NeverOverStep == Inv /\ NeverOverCovered /\ [Next]_vars => NeverOverCovered'
<1> SUFFICES ASSUME Inv, NeverOverCovered, [Next]_vars PROVE NeverOverCovered'
  OBVIOUS
<1>0. /\ NeedsTyped(needs) /\ CircuitsTyped(circuits, pushed) /\ now \in Nat
      /\ \A p \in DOMAIN needs : needs[p].covered <= CoverNum
  BY DEF Inv, Good, NeverOverCovered
<1>1. ASSUME NEW t \in now .. MaxTime, NEW cs, TimedUpdates(t, cs)
      PROVE  NeverOverCovered'
  <2> DEFINE added == IF triggered THEN needs ELSE AddNeed(needs, InitialPort, t, FALSE)
             live  == RemoveExpired(added, t)
  <2>1. NeedsTyped(added) /\ \A p \in DOMAIN added : added[p].covered <= CoverNum
    <3>1. CASE triggered
      BY <1>0, <3>1
    <3>2. CASE ~triggered
      <4>1. t \in Nat /\ now <= t /\ InitialPort \in Port
        BY <1>0, PortAssumption, TimeAssumption
      <4>2. Good(AddNeed(needs, InitialPort, t, FALSE), circuits, pushed, t)
        BY <4>1, AddNeedGood DEF Inv
      <4>. QED
        BY <1>0, <3>2, <4>1, <4>2, AddNeedBounded, PortAssumption DEF Good
    <3>. QED
      BY <3>1, <3>2
  <2>2. NeedsTyped(live) /\ \A p \in DOMAIN live : live[p].covered <= CoverNum
    <3>. HIDE DEF added
    <3>. QED
      BY <2>1 DEF RemoveExpired, NeedsTyped
  <2>3. needs' = DropHandles(live, Closed(t, cs))
    BY <1>1 DEF TimedUpdates
  <2>. HIDE DEF live
  <2>. QED
    BY <1>0, <2>2, <2>3, DropBounded DEF NeverOverCovered
<1>2. ASSUME NEW p \in Port, NEW g \in Relay, NEW m \in Relay, NEW x \in Relay,
             CoverNeed(p, g, m, x)
      PROVE  NeverOverCovered'
  BY <1>0, <1>2, CoverAssumption
     DEF CoverNeed, Uncovered, NeedsCover, NeedsTyped, Need, NeverOverCovered
<1>3. ASSUME NEW c, NEW nds, NEW crs, phase = "serving", NeedsTyped(nds),
             \A p \in DOMAIN nds : nds[p].covered <= CoverNum, Serve(c, nds, crs)
      PROVE  NeverOverCovered'
  <2>1. request \in Port
    BY <1>3 DEF Inv, ControlOK
  <2>2. CASE Remember(nds, crs)
    BY <1>0, <1>3, <2>1, <2>2, RememberBounded DEF NeverOverCovered
  <2>3. CASE needs' = nds
    BY <1>3, <2>3 DEF NeverOverCovered
  <2>. QED
    BY <1>3, <2>2, <2>3 DEF Serve
<1>4. ASSUME NEW c \in DOMAIN circuits, UseDirty(c) PROVE NeverOverCovered'
  BY <1>0, <1>3, <1>4 DEF UseDirty
<1>5. ASSUME NEW c \in DOMAIN circuits, UseClean(c) PROVE NeverOverCovered'
  <2>1. \A p \in DOMAIN DropHandles(needs, {c}) :
          DropHandles(needs, {c})[p].covered <= CoverNum
    BY <1>0, DropBounded
  <2>2. NeedsTyped(DropHandles(needs, {c}))
    BY UseCleanGood DEF Good
  <2>. QED
    BY <1>3, <1>5, <2>1, <2>2 DEF UseClean
<1>6. ASSUME NEW g, NEW m, NEW x, UseNew(g, m, x) PROVE NeverOverCovered'
  BY <1>0, <1>3, <1>6 DEF UseNew
<1>7. CASE CoverDone \/ BuildFails \/ UNCHANGED vars
  BY <1>7 DEF CoverDone, BuildFails, vars, NeverOverCovered
<1>. QED
  BY <1>1, <1>2, <1>4, <1>5, <1>6, <1>7 DEF Next, Covering, Serving, NewEpoch, NextRequest

(* No need is covered by more than CoverNum circuits: the handles that     *)
(* handle_request gives out count against those of the covering loop.      *)
THEOREM NeverOver == Spec => []NeverOverCovered
<1>1. Init => NeverOverCovered
  BY DEF Init, NeverOverCovered
<1>. QED
  BY <1>1, NeverOverStep, Invariant, PTL DEF Spec

-----------------------------------------------------------------------------
(* While the manager executes a call, no circuit is through a relay that   *)
(* is missing or idle for too long, the guards of new circuits excepted,   *)
(* which need not be valid; and no request is looked at before every need  *)
(* is covered.                                                             *)
Fresh(c) ==
  /\ {circuits[c].guard, circuits[c].middle, circuits[c].exit} \subseteq consensus.listed
  /\ {circuits[c].middle, circuits[c].exit} \subseteq Alive(consensus)
  /\ circuits[c].dirty = None => now <= circuits[c].time + IdleTimeout

CallInv ==
  /\ phase \in {"covering", "serving"} => \A c \in DOMAIN circuits : Fresh(c)
  /\ phase = "serving" => \A p \in DOMAIN needs : CoverNum <= needs[p].covered

(* No step breaks what is known while a call is under way.                 *)
LEMMA CallStep == Inv /\ CallInv /\ [Next]_vars => CallInv'
<1> SUFFICES ASSUME Inv, CallInv, [Next]_vars PROVE CallInv'
  OBVIOUS
<1>0. /\ now \in Nat /\ NeedsTyped(needs) /\ CircuitsTyped(circuits, pushed)
      /\ IdleTimeout \in Nat
      /\ pushed \notin DOMAIN circuits
  BY TimeAssumption DEF Inv, Good, CircuitsTyped
<1>1. ASSUME NEW t \in now .. MaxTime, NEW cs, TimedUpdates(t, cs), consensus' = cs
      PROVE  CallInv'
  <2>1. phase' = "covering"
    BY <1>1 DEF TimedUpdates
  <2>2. ASSUME NEW c \in DOMAIN circuits' PROVE Fresh(c)'
    <3>1. /\ c \in DOMAIN circuits /\ circuits'[c] = circuits[c] /\ now' = t
          /\ c \notin OldClean(t) /\ c \notin Down(cs)
      BY <1>1, <2>2 DEF TimedUpdates, Closed
    <3>2. circuits[c].time \in Nat /\ t \in Nat
      BY <1>0, <3>1, TimeAssumption DEF CircuitsTyped, ShallowCircuit
    <3>3. circuits[c].dirty = None => t <= circuits[c].time + IdleTimeout
      BY <1>0, <3>1, <3>2 DEF OldClean, IsClean
    <3>4. {circuits[c].guard, circuits[c].middle, circuits[c].exit} \subseteq Alive(cs)
      BY <3>1 DEF Down
    <3>. QED
      BY <1>1, <3>1, <3>3, <3>4 DEF Fresh, Alive
  <2>. QED
    BY <2>1, <2>2 DEF CallInv
<1>2. ASSUME NEW p \in Port, NEW g \in Relay, NEW m \in Relay, NEW x \in Relay,
             CoverNeed(p, g, m, x)
      PROVE  CallInv'
  <2>1. /\ phase' = "covering" /\ phase = "covering" /\ consensus' = consensus /\ now' = now
        /\ DOMAIN circuits' = DOMAIN circuits \cup {pushed}
        /\ \A c \in DOMAIN circuits : circuits'[c] = circuits[c]
        /\ circuits'[pushed] = NewCircuit(g, m, x, needs[p].stable, None, {HandleTo(needs, p)})
    BY <1>0, <1>2 DEF CoverNeed, Push
  <2>2. \A c \in DOMAIN circuits : Fresh(c)'
    BY <2>1 DEF CallInv, Fresh
  <2>3. ASSUME NEW c, c = pushed PROVE Fresh(c)'
    BY <1>0, <1>2, <2>1, <2>3 DEF CoverNeed, CanBuild, Fresh, Alive, NewCircuit
  <2>. QED
    BY <2>1, <2>2, <2>3 DEF CallInv
<1>3. CASE CoverDone
  <2>1. \A p \in DOMAIN needs : CoverNum <= needs[p].covered
    BY <1>0, <1>3, CoverAssumption DEF CoverDone, Uncovered, NeedsCover, NeedsTyped, Need
  <2>. QED
    BY <1>3, <2>1 DEF CoverDone, CallInv, Fresh
<1>4. CASE UNCHANGED vars
  BY <1>4 DEF vars, CallInv, Fresh
<1>5. CASE BuildFails \/ Serving
  BY <1>5 DEF BuildFails, Serving, UseDirty, UseClean, UseNew, Serve, CallInv
<1>. QED
  BY <1>1, <1>2, <1>3, <1>4, <1>5 DEF Next, Covering, NewEpoch, NextRequest

(* What is known while a call is under way holds always.                   *)
LEMMA CallInvariant == Spec => []CallInv
<1>1. Init => CallInv
  BY DEF Init, CallInv
<1>. QED
  BY <1>1, CallStep, Invariant, PTL DEF Spec

(* The relays that handle_request looks up are in the consensus, so that   *)
(* its unwraps (client.rs:188 and needs.rs:186) do not panic.              *)
THEOREM LookupsFound == Spec => []LookupsSucceed
<1>1. CallInv => LookupsSucceed
  BY DEF CallInv, LookupsSucceed, Fresh
<1>. QED
  BY <1>1, CallInvariant, PTL

(* When a request is looked at, every need is covered by CoverNum circuits *)
(* that could be used for it.                                              *)
THEOREM CoverReady == Spec => []CoveredWhenServing
<1>1. Inv /\ CallInv => CoveredWhenServing
  <2> SUFFICES ASSUME Inv, CallInv, phase = "serving", NEW p \in DOMAIN needs
               PROVE  LET good == {c \in Holders(needs, circuits, p) :
                                     /\ IsClean(c)
                                     /\ now <= circuits[c].time + IdleTimeout
                                     /\ {circuits[c].middle, circuits[c].exit}
                                          \subseteq Alive(consensus)}
                      IN  Cardinality(good) >= CoverNum
    BY DEF CoveredWhenServing
  <2> DEFINE good == {c \in Holders(needs, circuits, p) :
                        /\ IsClean(c)
                        /\ now <= circuits[c].time + IdleTimeout
                        /\ {circuits[c].middle, circuits[c].exit} \subseteq Alive(consensus)}
  <2>1. good = Holders(needs, circuits, p)
    BY DEF Inv, Good, Spare, Holders, IsClean, CallInv, Fresh
  <2>2. /\ Cardinality(Holders(needs, circuits, p)) = needs[p].covered
        /\ needs[p].covered \in Nat
        /\ CoverNum <= needs[p].covered
    BY DEF Inv, Good, Counted, CallInv, NeedsTyped, Need
  <2>. QED
    BY <2>1, <2>2, CoverAssumption
<1>. QED
  BY <1>1, Invariant, CallInvariant, PTL

(* A circuit stays dirty since its first use.                              *)
THEOREM DirtyStays == Spec => DirtySinceFirstUse
<1> DEFINE Kept == \A c \in DOMAIN circuits \cap DOMAIN circuits' :
                     circuits[c].dirty # None => circuits'[c].dirty = circuits[c].dirty
<1>1. Inv /\ [Next]_vars => Kept \/ UNCHANGED vars
  <2> SUFFICES ASSUME Inv, Next PROVE Kept
    OBVIOUS
  <2>0. CircuitsTyped(circuits, pushed) /\ pushed \notin DOMAIN circuits
    BY DEF Inv, Good, CircuitsTyped
  <2>1. ASSUME NEW t, NEW cs, TimedUpdates(t, cs) PROVE Kept
    BY <2>1 DEF TimedUpdates
  <2>2. ASSUME NEW p, NEW g, NEW m, NEW x, CoverNeed(p, g, m, x) PROVE Kept
    BY <2>0, <2>2 DEF CoverNeed, Push
  <2>3. CASE CoverDone \/ BuildFails
    BY <2>3 DEF CoverDone, BuildFails
  <2>4. ASSUME NEW c, NEW nds, NEW crs, crs \in [DOMAIN crs -> ShallowCircuit],
               Serve(c, nds, crs), DOMAIN circuits \subseteq DOMAIN crs,
               \A d \in DOMAIN circuits : circuits[d].dirty # None
                                            => crs[d].dirty = circuits[d].dirty
        PROVE  Kept
    <3>1. CASE Remember(nds, crs)
      BY <2>4, <3>1, RememberDirty
    <3>2. CASE circuits' = crs
      BY <2>4, <3>2
    <3>. QED
      BY <2>4, <3>1, <3>2 DEF Serve
  <2>5. ASSUME NEW c \in DOMAIN circuits, UseDirty(c) PROVE Kept
    BY <2>0, <2>4, <2>5 DEF UseDirty, CircuitsTyped
  <2>6. ASSUME NEW c \in DOMAIN circuits, UseClean(c) PROVE Kept
    <3> DEFINE crs == [circuits EXCEPT ![c].dirty = now, ![c].covers = {}]
    <3>1. /\ DOMAIN crs = DOMAIN circuits
          /\ \A d \in DOMAIN circuits \ {c} : crs[d] = circuits[d]
          /\ crs[c] = [circuits[c] EXCEPT !.dirty = now, !.covers = {}]
          /\ crs = [d \in DOMAIN circuits |-> crs[d]]
      BY <2>0 DEF CircuitsTyped
    <3>2. circuits[c] \in ShallowCircuit /\ circuits[c].dirty = None /\ now \in Nat
      BY <2>0, <2>6 DEF CircuitsTyped, UseClean, IsFirst, SuitableClean, IsClean, Inv, Good
    <3>3. crs[c] \in ShallowCircuit
      BY <3>1, <3>2 DEF ShallowCircuit
    <3>4. Serve(c, DropHandles(needs, {c}), crs)
      BY <2>6 DEF UseClean
    <3>. HIDE DEF crs
    <3>5. crs \in [DOMAIN crs -> ShallowCircuit]
      BY <2>0, <3>1, <3>3 DEF CircuitsTyped
    <3>. QED
      BY <2>4, <3>1, <3>2, <3>4, <3>5
  <2>7. ASSUME NEW g \in Relay, NEW m \in Relay, NEW x \in Relay, UseNew(g, m, x) PROVE Kept
    <3> DEFINE circuit == NewCircuit(g, m, x, request \in LongLived, now, {})
               crs     == Push(circuit)
    <3>1. circuit \in ShallowCircuit /\ circuit.covers = {}
      BY DEF Inv, Good, NewCircuit, ShallowCircuit
    <3>2. Good(needs, crs, pushed + 1, now)
      BY <3>1, PushGood DEF Inv
    <3>3. /\ DOMAIN circuits \subseteq DOMAIN crs
          /\ \A d \in DOMAIN circuits : crs[d] = circuits[d]
      BY <2>0 DEF Push
    <3>4. Serve(pushed, needs, crs)
      BY <2>7 DEF UseNew
    <3>. HIDE DEF crs
    <3>. QED
      BY <2>4, <3>2, <3>3, <3>4 DEF Good, CircuitsTyped
  <2>. QED
    BY <2>1, <2>2, <2>3, <2>5, <2>6, <2>7 DEF Next, Covering, Serving, NewEpoch, NextRequest
<1>. QED
  BY <1>1, Invariant, PTL DEF Spec, DirtySinceFirstUse

-----------------------------------------------------------------------------
(* Implementation of NeedCover: the refinement mapping of CircuitManager.  *)
SpareM(crs) == {c \in DOMAIN crs : crs[c].dirty = None}

CoverM(nds, crs) == [p \in DOMAIN nds |-> Holders(nds, crs, p)]

(* The two modules count alike.                                            *)
LEMMA SameCardinality == \A S : Cover!Cardinality(S) = Cardinality(S)
BY DEF Cover!Cardinality, Cardinality

(* Adding a need leaves the others what they are.                          *)
LEMMA AddNeedHandles ==
  ASSUME NEW nds, NeedsTyped(nds), NEW t \in Nat, NEW p \in Port, NEW s \in BOOLEAN
  PROVE  /\ DOMAIN AddNeed(nds, p, t, s) = DOMAIN nds \cup {p}
         /\ \A q \in DOMAIN nds : HandleTo(AddNeed(nds, p, t, s), q) = HandleTo(nds, q)
<1>1. CASE p \in DOMAIN nds
  BY <1>1 DEF AddNeed, NeedsTyped, Need, HandleTo
<1>2. CASE p \notin DOMAIN nds
  BY <1>2 DEF AddNeed, HandleTo
<1>. QED
  BY <1>1, <1>2

(* Adding a need reserves nothing and takes nothing away.                  *)
LEMMA AddNeedHolders ==
  ASSUME NEW nds, NEW crs, NEW n, NEW t0, Good(nds, crs, n, t0),
         NEW t \in Nat, t0 <= t, NEW p \in Port, NEW s \in BOOLEAN
  PROVE  /\ \A q \in DOMAIN nds : Holders(AddNeed(nds, p, t, s), crs, q) = Holders(nds, crs, q)
         /\ p \notin DOMAIN nds => Holders(AddNeed(nds, p, t, s), crs, p) = {}
<1> DEFINE new == AddNeed(nds, p, t, s)
<1>b. t0 \in Nat /\ NeedsTyped(nds) /\ HandlesPast(nds, crs, t0)
  BY DEF Good
<1>1. \A q \in DOMAIN nds : HandleTo(new, q) = HandleTo(nds, q)
  BY <1>b, AddNeedHandles
<1>2. \A q \in DOMAIN nds : Holders(new, crs, q) = Holders(nds, crs, q)
  BY <1>1 DEF Holders
<1>3. ASSUME p \notin DOMAIN nds, NEW c \in DOMAIN crs, HandleTo(new, p) \in crs[c].covers
      PROVE  FALSE
  <2>1. HandleTo(new, p) = [port |-> p, born |-> t]
    BY <1>3 DEF HandleTo, AddNeed
  <2>2. t < t0
    BY <1>3, <2>1, <1>b DEF HandlesPast
  <2>. QED
    BY <2>2, <1>b
<1>4. p \notin DOMAIN nds => Holders(new, crs, p) = {}
  BY <1>3 DEF Holders
<1>. QED
  BY <1>2, <1>4

(* What is reserved is spare.                                              *)
LEMMA HoldersSpare ==
  ASSUME NEW nds, NEW crs, Spare(crs), NEW p
  PROVE  Holders(nds, crs, p) \subseteq SpareM(crs)
BY DEF Spare, Holders, SpareM

(* The housekeeping is a Housekeep step of the abstract specification.     *)
LEMMA HousekeepMaps ==
  ASSUME Inv, NEW t \in Nat, now <= t, NEW cs, TimedUpdates(t, cs), phase = "idle"
  PROVE  Cover!Housekeep
<1> DEFINE added == IF triggered THEN needs ELSE AddNeed(needs, InitialPort, t, FALSE)
           live  == RemoveExpired(added, t)
           kept  == DOMAIN live \cap DOMAIN needs
           fresh == DOMAIN live \ DOMAIN needs
<1>0. Good(needs, circuits, pushed, now) /\ InitialPort \in Port
  BY PortAssumption DEF Inv
<1>1. /\ DOMAIN added \subseteq Port
      /\ \A p \in DOMAIN needs \cap DOMAIN added : HandleTo(added, p) = HandleTo(needs, p)
      /\ \A p \in DOMAIN added \ DOMAIN needs : Holders(added, circuits, p) = {}
  <2>1. DOMAIN needs \subseteq Port
    BY <1>0 DEF Good, NeedsTyped
  <2>2. CASE triggered
    BY <2>1, <2>2
  <2>3. CASE ~triggered
    <3> DEFINE new == AddNeed(needs, InitialPort, t, FALSE)
    <3>1. /\ DOMAIN new = DOMAIN needs \cup {InitialPort}
          /\ \A q \in DOMAIN needs : HandleTo(new, q) = HandleTo(needs, q)
      BY <1>0, AddNeedHandles DEF Good
    <3>2. InitialPort \notin DOMAIN needs => Holders(new, circuits, InitialPort) = {}
      BY <1>0, AddNeedHolders
    <3>3. added = new
      BY <2>3
    <3>. HIDE DEF new, added
    <3>. QED
      BY <1>0, <2>1, <3>1, <3>2, <3>3
  <2>. QED
    BY <2>2, <2>3
<1>2. /\ DOMAIN live \subseteq DOMAIN added
      /\ \A p \in DOMAIN live : live[p] = added[p]
  BY DEF RemoveExpired
<1>3. /\ needs' = DropHandles(live, Closed(t, cs))
      /\ circuits' = [c \in DOMAIN circuits \ Closed(t, cs) |-> circuits[c]]
      /\ phase' = "covering"
  BY DEF TimedUpdates
<1>4. DOMAIN needs' = DOMAIN live /\ \A p \in DOMAIN live : HandleTo(needs', p) = HandleTo(added, p)
  <2>1. NeedsTyped(live)
    <3>1. Good(added, circuits, pushed, t)
      BY <1>0, AddNeedGood, LaterGood
    <3>2. Good(live, circuits, pushed, t)
      BY <3>1, RemoveExpiredGood
    <3>. QED
      BY <3>2 DEF Good
  <2>. HIDE DEF live
  <2>. QED
    BY <1>2, <1>3, <2>1 DEF DropHandles, NeedsTyped, Need, HandleTo
<1>5. SpareM(circuits') = SpareM(circuits) \ Closed(t, cs)
  BY <1>3 DEF SpareM
<1>6. \A p \in kept : Holders(needs', circuits', p) = Holders(needs, circuits, p) \cap SpareM(circuits')
  <2> SUFFICES ASSUME NEW p \in kept
               PROVE  Holders(needs', circuits', p) = Holders(needs, circuits, p) \cap SpareM(circuits')
    OBVIOUS
  <2>1. HandleTo(needs', p) = HandleTo(needs, p)
    BY <1>1, <1>2, <1>4
  <2>2. Holders(needs', circuits', p) = Holders(needs, circuits, p) \ Closed(t, cs)
    BY <1>3, <2>1 DEF Holders
  <2>3. Holders(needs, circuits, p) \subseteq SpareM(circuits)
    BY <1>0, HoldersSpare DEF Good
  <2>. QED
    BY <1>5, <2>2, <2>3
<1>7. \A p \in fresh : Holders(needs', circuits', p) = {}
  <2> SUFFICES ASSUME NEW p \in fresh PROVE Holders(needs', circuits', p) = {}
    OBVIOUS
  <2>1. HandleTo(needs', p) = HandleTo(added, p)
    BY <1>1, <1>2, <1>4
  <2>2. Holders(added, circuits, p) = {}
    BY <1>1, <1>2
  <2>. QED
    BY <1>3, <2>1, <2>2 DEF Holders
<1>8. CoverM(needs', circuits') =
        [p \in kept \cup fresh |-> IF p \in kept THEN CoverM(needs, circuits)[p] \cap SpareM(circuits')
                                                ELSE {}]
  <2>. HIDE DEF live
  <2>. QED
    BY <1>4, <1>6, <1>7 DEF CoverM
<1>9. kept \in SUBSET DOMAIN CoverM(needs, circuits) /\ fresh \in SUBSET (Port \ DOMAIN CoverM(needs, circuits))
  BY <1>1, <1>2 DEF CoverM
<1>10. SpareM(circuits') \subseteq SpareM(circuits)
  BY <1>5
<1>. HIDE DEF kept, fresh
<1>. QED
  BY <1>3, <1>8, <1>9, <1>10 DEF Cover!Housekeep, SpareM, CoverM, IsClean

(* One iteration of the covering loop is a Build step.                     *)
LEMMA BuildMaps ==
  ASSUME Inv, NEW p \in Port, NEW g \in Relay, NEW m \in Relay, NEW x \in Relay,
         CoverNeed(p, g, m, x)
  PROVE  Cover!Build
<1> DEFINE h       == HandleTo(needs, p)
           circuit == NewCircuit(g, m, x, needs[p].stable, None, {h})
<1>0. /\ NeedsTyped(needs) /\ Counted(needs, circuits) /\ HandlesPast(needs, circuits, now)
      /\ pushed \notin DOMAIN circuits
  BY DEF Inv, Good, CircuitsTyped
<1>1. /\ p \in DOMAIN needs /\ needs[p].covered < CoverNum
      /\ phase = "covering" /\ phase' = phase
      /\ needs' = [needs EXCEPT ![p].covered = @ + 1]
      /\ circuits' = Push(circuit)
  BY DEF CoverNeed, Uncovered, NeedsCover
<1>2. DOMAIN needs' = DOMAIN needs /\ \A q \in DOMAIN needs : HandleTo(needs', q) = HandleTo(needs, q)
  BY <1>0, <1>1 DEF HandleTo, NeedsTyped, Need
<1>3. /\ DOMAIN circuits' = DOMAIN circuits \cup {pushed}
      /\ circuits'[pushed] = circuit
      /\ \A c \in DOMAIN circuits : circuits'[c] = circuits[c]
  BY <1>0, <1>1 DEF Push
<1>4. circuit.dirty = None /\ circuit.covers = {h}
  BY DEF NewCircuit
<1>5. SpareM(circuits') = SpareM(circuits) \cup {pushed} /\ pushed \in SpareM(circuits') \ SpareM(circuits)
  BY <1>0, <1>3, <1>4 DEF SpareM
<1>6. Holders(needs', circuits', p) = Holders(needs, circuits, p) \cup {pushed}
  BY <1>1, <1>2, <1>3, <1>4 DEF Holders
<1>7. \A q \in DOMAIN needs \ {p} : Holders(needs', circuits', q) = Holders(needs, circuits, q)
  <2>1. \A q \in DOMAIN needs \ {p} : HandleTo(needs, q) # h
    BY DEF HandleTo
  <2>. QED
    BY <1>2, <1>3, <1>4, <2>1 DEF Holders
<1>8. CoverM(needs', circuits') = [CoverM(needs, circuits) EXCEPT ![p] = @ \cup {pushed}]
  BY <1>1, <1>2, <1>6, <1>7 DEF CoverM
<1>9. p \in DOMAIN CoverM(needs, circuits) /\ Cardinality(CoverM(needs, circuits)[p]) < CoverNum
  BY <1>0, <1>1 DEF CoverM, Counted
<1>10. \E c \in SpareM(circuits') \ SpareM(circuits), q \in DOMAIN CoverM(needs, circuits) :
         /\ Cardinality(CoverM(needs, circuits)[q]) < CoverNum
         /\ SpareM(circuits') = SpareM(circuits) \cup {c}
         /\ CoverM(needs', circuits') = [CoverM(needs, circuits) EXCEPT ![q] = @ \cup {c}]
  BY <1>5, <1>8, <1>9
<1>. QED
  BY <1>1, <1>10, SameCardinality DEF Cover!Build, SpareM, CoverM, IsClean

(* The end of the covering loop is a Ready step.                           *)
LEMMA ReadyMaps ==
  ASSUME Inv, NeverOverCovered, CoverDone
  PROVE  Cover!Ready
<1>1. \A p \in DOMAIN needs : Cardinality(Holders(needs, circuits, p)) = CoverNum
  BY CoverAssumption
     DEF Inv, Good, Counted, NeverOverCovered, CoverDone, Uncovered, NeedsCover, NeedsTyped, Need
<1>2. UNCHANGED <<needs, circuits>> /\ phase = "covering" /\ phase' \in {"idle", "serving"}
  BY DEF CoverDone
<1>3. \A p \in DOMAIN CoverM(needs, circuits) : Cardinality(CoverM(needs, circuits)[p]) = CoverNum
  BY <1>1 DEF CoverM
<1>4. /\ SpareM(circuits') = SpareM(circuits)
      /\ CoverM(needs', circuits') = CoverM(needs, circuits)
  BY <1>2
<1>. QED
  BY <1>2, <1>3, <1>4, SameCardinality DEF Cover!Ready, SpareM, CoverM, IsClean

(* What the first half of handle_request leaves spare and reserved is      *)
(* given by nds and crs.                                                   *)
LEMMA ServeMaps ==
  ASSUME Inv, phase = "serving", NEW nds, NEW crs, NEW c, Good(nds, crs, pushed', now),
         Serve(c, nds, crs), phase' = "idle", DOMAIN nds = DOMAIN needs,
         SpareM(crs) \subseteq SpareM(circuits),
         \A d, e \in SpareM(circuits) \ SpareM(crs) : d = e,
         \A p \in DOMAIN needs :
           Holders(nds, crs, p) = Holders(needs, circuits, p) \cap SpareM(crs)
  PROVE  Cover!Serve(request)
<1> DEFINE added == AddNeed(nds, request, now, request \in LongLived)
           rest  == SpareM(crs)
           left  == Holders(added, crs, request)
<1>0. request \in Port /\ now \in Nat /\ now <= now /\ (request \in LongLived) \in BOOLEAN
  BY DEF Inv, ControlOK, Good
<1>1. /\ Good(added, crs, pushed', now)
      /\ DOMAIN added = DOMAIN nds \cup {request}
      /\ \A q \in DOMAIN nds : Holders(added, crs, q) = Holders(nds, crs, q)
      /\ request \notin DOMAIN nds => left = {}
  <2>1. NeedsTyped(nds)
    BY DEF Good
  <2>2. \A s \in BOOLEAN : Good(AddNeed(nds, request, now, s), crs, pushed', now)
    BY <1>0, AddNeedGood
  <2>4. \A s \in BOOLEAN : DOMAIN AddNeed(nds, request, now, s) = DOMAIN nds \cup {request}
    BY <1>0, <2>1, AddNeedHandles
  <2>3. \A s \in BOOLEAN :
          /\ \A q \in DOMAIN nds :
               Holders(AddNeed(nds, request, now, s), crs, q) = Holders(nds, crs, q)
          /\ request \notin DOMAIN nds
               => Holders(AddNeed(nds, request, now, s), crs, request) = {}
    BY <1>0, AddNeedHolders
  <2>. QED
    BY <1>0, <2>2, <2>3, <2>4
<1>2. SpareM(circuits') = rest
  <2>1. Remember(nds, crs) /\ crs \in [DOMAIN crs -> ShallowCircuit]
    BY DEF Serve, Good, CircuitsTyped
  <2>. QED
    BY <2>1, RememberDirty DEF SpareM
<1>3. left = IF request \in DOMAIN needs THEN Holders(needs, circuits, request) \cap rest ELSE {}
  BY <1>1
<1>4. /\ DOMAIN needs' = DOMAIN added
      /\ \A q \in DOMAIN needs \ {request} :
           Holders(needs', circuits', q) = Holders(needs, circuits, q) \cap rest
      /\ \/ Holders(needs', circuits', request) = left
         \/ /\ Cardinality(left) < CoverNum
            /\ \E d \in rest \ left : Holders(needs', circuits', request) = left \cup {d}
  <2>1. CASE needs' = added /\ circuits' = crs
    BY <1>1, <2>1
  <2>2. ASSUME NEW d \in DOMAIN crs, IsFirst(d, CanCover(added, crs, request)),
               NeedsCover(added, request),
               circuits' = [crs EXCEPT ![d].covers = @ \cup {HandleTo(added, request)}],
               needs' = [added EXCEPT ![request].covered = @ + 1]
        PROVE  /\ DOMAIN needs' = DOMAIN added
               /\ \A q \in DOMAIN needs \ {request} :
                    Holders(needs', circuits', q) = Holders(needs, circuits, q) \cap rest
               /\ Cardinality(left) < CoverNum
               /\ d \in rest \ left /\ Holders(needs', circuits', request) = left \cup {d}
    <3>. HIDE DEF added
    <3>0. /\ NeedsTyped(added) /\ Counted(added, crs)
          /\ CircuitsTyped(crs, pushed') /\ request \in DOMAIN added
      BY <1>1 DEF Good
    <3>1. /\ DOMAIN needs' = DOMAIN added
          /\ \A q \in DOMAIN added : HandleTo(needs', q) = HandleTo(added, q)
      BY <2>2, <3>0 DEF HandleTo, NeedsTyped, Need
    <3>2. /\ DOMAIN circuits' = DOMAIN crs
          /\ circuits'[d].covers = crs[d].covers \cup {HandleTo(added, request)}
          /\ \A e \in DOMAIN crs \ {d} : circuits'[e] = crs[e]
      BY <2>2, <3>0 DEF CircuitsTyped, ShallowCircuit
    <3>3. \A q \in DOMAIN added \ {request} : HandleTo(added, q) # HandleTo(added, request)
      BY DEF HandleTo
    <3>4. \A q \in DOMAIN added \ {request} : Holders(needs', circuits', q) = Holders(added, crs, q)
      BY <3>1, <3>2, <3>3 DEF Holders
    <3>5. Holders(needs', circuits', request) = left \cup {d}
      BY <3>0, <3>1, <3>2 DEF Holders
    <3>6. d \in rest \ left
      BY <2>2 DEF IsFirst, CanCover, SpareM
    <3>7. Cardinality(left) < CoverNum
      BY <2>2, <3>0 DEF NeedsCover, Counted
    <3>. QED
      BY <1>1, <3>1, <3>4, <3>5, <3>6, <3>7
  <2>. QED
    BY <2>1, <2>2 DEF Serve, Remember
<1> DEFINE cover  == CoverM(needs, circuits)
           cover2 == CoverM(needs', circuits')
<1>5. /\ DOMAIN needs' = DOMAIN needs \cup {request}
      /\ DOMAIN cover = DOMAIN needs /\ DOMAIN cover2 = DOMAIN cover \cup {request}
      /\ \A p \in DOMAIN needs : cover[p] = Holders(needs, circuits, p)
      /\ \A p \in DOMAIN needs' : cover2[p] = Holders(needs', circuits', p)
  BY <1>1, <1>4 DEF CoverM
<1>6. /\ left = IF request \in DOMAIN cover THEN cover[request] \cap rest ELSE {}
      /\ \A q \in DOMAIN cover \ {request} : cover2[q] = cover[q] \cap rest
      /\ \/ cover2[request] = left
         \/ /\ Cardinality(left) < CoverNum
            /\ \E d \in rest \ left : cover2[request] = left \cup {d}
  <2>. HIDE DEF added, rest, left, cover, cover2
  <2>. QED
    BY <1>3, <1>4, <1>5
<1>7. phase' = "idle"
  OBVIOUS
<1>8. /\ SpareM(circuits') \subseteq SpareM(circuits)
      /\ \A d, e \in SpareM(circuits) \ SpareM(circuits') : d = e
  BY <1>2
<1>9. \A q : Cover!Left(q, SpareM(circuits')) =
              IF q \in DOMAIN cover THEN cover[q] \cap rest ELSE {}
  BY <1>2 DEF Cover!Left, SpareM, CoverM, IsClean
<1>10. /\ left = Cover!Left(request, SpareM(circuits'))
       /\ \A q \in DOMAIN cover \ {request} : cover2[q] = Cover!Left(q, SpareM(circuits'))
  <2>. HIDE DEF left, cover, cover2, rest
  <2>. QED
    BY <1>6, <1>9
<1>11. /\ DOMAIN cover2 = DOMAIN cover \cup {request}
       /\ \A q \in DOMAIN cover \ {request} : cover2[q] = Cover!Left(q, SpareM(circuits'))
       /\ \/ cover2[request] = Cover!Left(request, SpareM(circuits'))
          \/ /\ Cardinality(Cover!Left(request, SpareM(circuits'))) < CoverNum
             /\ \E d \in SpareM(circuits') \ Cover!Left(request, SpareM(circuits')) :
                  cover2[request] = Cover!Left(request, SpareM(circuits')) \cup {d}
  <2>. HIDE DEF left, cover, cover2
  <2>. QED
    BY <1>2, <1>5, <1>6, <1>10
<1>. QED
  BY <1>7, <1>8, <1>11, SameCardinality DEF Cover!Serve, SpareM, CoverM, IsClean

(* If the observer fails, the first half is a Fail step.                   *)
LEMMA StopMaps ==
  ASSUME phase = "serving", NEW nds, NEW crs, NEW c, Serve(c, nds, crs), phase' # "idle",
         DOMAIN nds = DOMAIN needs,
         NEW gone, gone = {} \/ \E d \in SpareM(circuits) : gone = {d},
         SpareM(crs) = SpareM(circuits) \ gone,
         \A p \in DOMAIN needs : Holders(nds, crs, p) = Holders(needs, circuits, p) \ gone
  PROVE  Cover!Fail
<1> DEFINE cover == CoverM(needs, circuits)
<1>1. phase' = "failed" /\ needs' = nds /\ circuits' = crs
  BY DEF Serve
<1>2. SpareM(circuits') = SpareM(circuits) \ gone
  BY <1>1
<1>3. CoverM(needs', circuits') = [p \in DOMAIN cover |-> cover[p] \ gone]
  BY <1>1 DEF CoverM
<1>4. CASE gone = {}
  <2>1. CoverM(needs', circuits') = cover
    BY <1>3, <1>4 DEF CoverM
  <2>2. SpareM(circuits') = SpareM(circuits)
    BY <1>2, <1>4
  <2>. QED
    BY <1>1, <2>1, <2>2 DEF Cover!Fail, SpareM, CoverM, IsClean
<1>5. ASSUME NEW d \in SpareM(circuits), gone = {d} PROVE Cover!Fail
  <2>1. \E e \in SpareM(circuits) :
          /\ SpareM(circuits') = SpareM(circuits) \ {e}
          /\ CoverM(needs', circuits') = [p \in DOMAIN cover |-> cover[p] \ {e}]
    BY <1>2, <1>3, <1>5
  <2>. QED
    BY <1>1, <2>1 DEF Cover!Fail, SpareM, CoverM, IsClean
<1>. QED
  BY <1>4, <1>5

(* Serving on a dirty circuit is a Serve step, or a Fail step.             *)
LEMMA UseDirtyMaps ==
  ASSUME Inv, NEW c \in DOMAIN circuits, UseDirty(c)
  PROVE  Cover!Serve(request) \/ Cover!Fail
<1>1. Good(needs, circuits, pushed', now) /\ phase = "serving" /\ Serve(c, needs, circuits)
  BY DEF Inv, UseDirty
<1>2. \A p \in DOMAIN needs :
        Holders(needs, circuits, p) = Holders(needs, circuits, p) \cap SpareM(circuits)
  BY <1>1, HoldersSpare DEF Good
<1>3. CASE phase' = "idle"
  BY <1>1, <1>2, <1>3, ServeMaps
<1>4. CASE phase' # "idle"
  <2>1. SpareM(circuits) = SpareM(circuits) \ {}
    OBVIOUS
  <2>2. \A p \in DOMAIN needs : Holders(needs, circuits, p) = Holders(needs, circuits, p) \ {}
    OBVIOUS
  <2>. QED
    BY <1>1, <1>4, <2>1, <2>2, StopMaps
<1>. QED
  BY <1>3, <1>4

(* Serving on a clean circuit is a Serve step, or a Fail step.             *)
LEMMA UseCleanMaps ==
  ASSUME Inv, NEW c \in DOMAIN circuits, UseClean(c)
  PROVE  Cover!Serve(request) \/ Cover!Fail
<1> DEFINE crs == [circuits EXCEPT ![c].dirty = now, ![c].covers = {}]
           nds == DropHandles(needs, {c})
<1>1. Good(nds, crs, pushed', now)
  BY UseCleanGood DEF UseClean
<1>2. phase = "serving" /\ Serve(c, nds, crs)
  BY DEF UseClean
<1>3. DOMAIN nds = DOMAIN needs /\ \A p \in DOMAIN needs : HandleTo(nds, p) = HandleTo(needs, p)
  BY DEF DropHandles, HandleTo, Inv, Good, NeedsTyped, Need
<1>4. /\ CircuitsTyped(circuits, pushed) /\ Spare(circuits) /\ now # None
  BY NoneAssumption DEF Inv, Good
<1>5. /\ DOMAIN crs = DOMAIN circuits
      /\ \A d \in DOMAIN circuits \ {c} : crs[d] = circuits[d]
      /\ crs[c].dirty = now /\ crs[c].covers = {}
  BY <1>4 DEF CircuitsTyped, ShallowCircuit
<1>6. SpareM(crs) = SpareM(circuits) \ {c}
  BY <1>4, <1>5 DEF SpareM
<1>7. ASSUME NEW p \in DOMAIN needs
      PROVE  Holders(nds, crs, p) = Holders(needs, circuits, p) \ {c}
  <2>. HIDE DEF nds, crs
  <2>. QED
    BY <1>3, <1>5 DEF Holders
<1>8. ASSUME NEW p \in DOMAIN needs
      PROVE  Holders(nds, crs, p) = Holders(needs, circuits, p) \cap SpareM(crs)
  <2>2. Holders(needs, circuits, p) \subseteq SpareM(circuits)
    BY <1>4, HoldersSpare
  <2>. QED
    BY <1>6, <1>7, <2>2
<1>9. c \in SpareM(circuits)
  BY DEF UseClean, IsFirst, SuitableClean, IsClean, SpareM
<1>. HIDE DEF nds, crs
<1>10. CASE phase' = "idle"
  BY <1>1, <1>2, <1>3, <1>6, <1>8, <1>10, ServeMaps
<1>11. CASE phase' # "idle"
  BY <1>2, <1>3, <1>6, <1>7, <1>9, <1>11, StopMaps
<1>. QED
  BY <1>10, <1>11

(* Serving on a new circuit is a Serve step, or a Fail step.               *)
LEMMA UseNewMaps ==
  ASSUME Inv, NEW g \in Relay, NEW m \in Relay, NEW x \in Relay, UseNew(g, m, x)
  PROVE  Cover!Serve(request) \/ Cover!Fail
<1> DEFINE circuit == NewCircuit(g, m, x, request \in LongLived, now, {})
           crs     == Push(circuit)
<1>1. /\ Good(needs, circuits, pushed, now) /\ pushed \notin DOMAIN circuits
      /\ now \in Nat /\ now # None /\ (request \in LongLived) \in BOOLEAN
  BY NoneAssumption DEF Inv, Good, CircuitsTyped
<1>2. circuit \in ShallowCircuit /\ circuit.covers = {} /\ circuit.dirty = now
  BY <1>1 DEF NewCircuit, ShallowCircuit
<1>3. Good(needs, crs, pushed + 1, now)
  BY <1>1, <1>2, PushGood
<1>4. pushed' = pushed + 1 /\ phase = "serving" /\ Serve(pushed, needs, crs)
  BY DEF UseNew
<1>5. /\ DOMAIN crs = DOMAIN circuits \cup {pushed}
      /\ crs[pushed] = circuit
      /\ \A c \in DOMAIN circuits : crs[c] = circuits[c]
  BY <1>1 DEF Push
<1>6. SpareM(crs) = SpareM(circuits)
  BY <1>1, <1>2, <1>5 DEF SpareM
<1>7. ASSUME NEW p \in DOMAIN needs
      PROVE  Holders(needs, crs, p) = Holders(needs, circuits, p)
  <2>. HIDE DEF crs, circuit
  <2>. QED
    BY <1>2, <1>5 DEF Holders
<1>8. ASSUME NEW p \in DOMAIN needs
      PROVE  Holders(needs, crs, p) = Holders(needs, circuits, p) \cap SpareM(crs)
  <2>2. Holders(needs, circuits, p) \subseteq SpareM(circuits)
    BY <1>1, HoldersSpare DEF Good
  <2>. QED
    BY <1>6, <1>7, <2>2
<1>. HIDE DEF crs
<1>9. CASE phase' = "idle"
  BY <1>3, <1>4, <1>6, <1>8, <1>9, ServeMaps
<1>10. CASE phase' # "idle"
  <2>1. SpareM(crs) = SpareM(circuits) \ {}
    BY <1>6
  <2>2. \A p \in DOMAIN needs : Holders(needs, crs, p) = Holders(needs, circuits, p) \ {}
    BY <1>7
  <2>. QED
    BY <1>4, <1>10, <2>1, <2>2, StopMaps
<1>. QED
  BY <1>9, <1>10

(* Every step of the manager is a step of NeedCover, or one that NeedCover *)
(* does not see.                                                           *)
LEMMA StepMaps == Inv /\ NeverOverCovered /\ [Next]_vars => [Cover!Next]_(Cover!vars)
<1> SUFFICES ASSUME Inv, NeverOverCovered, [Next]_vars
             PROVE  Cover!Next \/ UNCHANGED Cover!vars
  OBVIOUS
<1>0. now \in Nat /\ MaxTime \in Nat /\ (phase = "serving" => request \in Port)
  BY TimeAssumption DEF Inv, Good, ControlOK
<1>1. ASSUME NEW t \in now .. MaxTime, NEW cs, NewEpoch(t, cs) PROVE Cover!Housekeep
  BY <1>0, <1>1, HousekeepMaps DEF NewEpoch
<1>2. ASSUME NEW t \in now .. MaxTime, NEW p, NextRequest(t, p) PROVE Cover!Housekeep
  BY <1>0, <1>2, HousekeepMaps DEF NextRequest
<1>3. ASSUME NEW p \in Port, NEW g \in Relay, NEW m \in Relay, NEW x \in Relay,
             CoverNeed(p, g, m, x)
      PROVE  Cover!Build
  BY <1>3, BuildMaps
<1>4. CASE CoverDone
  BY <1>4, ReadyMaps DEF Cover!Next
<1>5. CASE BuildFails
  BY <1>5 DEF BuildFails, Cover!Next, Cover!Fail, Holders, HandleTo, IsClean
<1>6. ASSUME NEW c \in DOMAIN circuits, UseDirty(c) \/ UseClean(c)
      PROVE  Cover!Serve(request) \/ Cover!Fail
  BY <1>6, UseDirtyMaps, UseCleanMaps
<1>7. ASSUME NEW g \in Relay, NEW m \in Relay, NEW x \in Relay, UseNew(g, m, x)
      PROVE  Cover!Serve(request) \/ Cover!Fail
  BY <1>7, UseNewMaps
<1>8. CASE UNCHANGED vars
  BY <1>8 DEF vars, Cover!vars, Holders, HandleTo, IsClean
<1>9. phase = "serving" /\ Cover!Serve(request) => Cover!Next
  BY <1>0 DEF Cover!Next
<1>10. Cover!Housekeep \/ Cover!Build \/ Cover!Fail => Cover!Next
  BY DEF Cover!Next
<1>. QED
  BY <1>1, <1>2, <1>3, <1>4, <1>5, <1>6, <1>7, <1>8, <1>9, <1>10
     DEF Next, Covering, Serving, UseDirty, UseClean, UseNew

(* The circuit manager, which decides by counters and weak handles, does   *)
(* what NeedCover promises: every predicted port has exactly CoverNum      *)
(* spare circuits before a request is looked at, and a request takes at    *)
(* most one of them.                                                       *)
THEOREM Implementation == Spec => ImplementsNeedCover
<1>1. Init => Cover!Init
  BY DEF Init, Cover!Init, IsClean
<1>. QED
  BY <1>1, StepMaps, Invariant, NeverOver, PTL DEF Spec, ImplementsNeedCover, Cover!Spec

-----------------------------------------------------------------------------
(* Lifetimes of needs.                                                     *)
(*                                                                         *)
(* At time t, no need has expired, and each has been given its lifetime.   *)
Living(nds, t) ==
  \A p \in DOMAIN nds : nds[p].expires = nds[p].born + NeedLifetime /\ t < nds[p].expires

LifeInv ==
  /\ Living(needs, now)
  /\ ~triggered => DOMAIN needs = {} /\ phase = "idle"

(* Adding a need takes none away, and finds none that has expired.         *)
LEMMA AddNeedLives ==
  ASSUME NEW nds, NeedsTyped(nds), NEW t \in Nat, Living(nds, t), NEW p \in Port, NEW s \in BOOLEAN
  PROVE  /\ Living(AddNeed(nds, p, t, s), t)
         /\ p \in DOMAIN AddNeed(nds, p, t, s)
         /\ \A q \in DOMAIN nds : q \in DOMAIN AddNeed(nds, p, t, s)
<1>1. CASE p \in DOMAIN nds
  <2>1. ~HasExpired(nds, p, t)
    <3>1. nds[p].expires = nds[p].born + NeedLifetime /\ t < nds[p].expires
      BY <1>1 DEF Living
    <3>2. nds[p].expires \in Nat
      BY <1>1 DEF NeedsTyped, Need
    <3> QED
      BY <3>1, <3>2 DEF HasExpired
  <2> QED
    BY <1>1, <2>1 DEF AddNeed
<1>2. CASE p \notin DOMAIN nds
  <2> DEFINE new == AddNeed(nds, p, t, s)
  <2>1. /\ DOMAIN new = DOMAIN nds \cup {p}
        /\ \A q \in DOMAIN nds : new[q] = nds[q]
        /\ new[p].born = t /\ new[p].expires = t + NeedLifetime
    BY <1>2 DEF AddNeed
  <2>2. t < t + NeedLifetime
    BY TimeAssumption
  <2> HIDE DEF new
  <2> QED
    BY <2>1, <2>2 DEF Living, new
<1> QED
  BY <1>1, <1>2

(* Dropping handles changes counters only.                                 *)
LEMMA DropLives ==
  ASSUME NEW nds, NeedsTyped(nds), NEW t, Living(nds, t), NEW gone
  PROVE  Living(DropHandles(nds, gone), t) /\ DOMAIN DropHandles(nds, gone) = DOMAIN nds
<1> DEFINE new == DropHandles(nds, gone)
<1>1. DOMAIN new = DOMAIN nds
  BY DEF DropHandles
<1>2. ASSUME NEW p \in DOMAIN nds
      PROVE  new[p].born = nds[p].born /\ new[p].expires = nds[p].expires
  <2>1. nds[p] \in Need
    BY DEF NeedsTyped
  <2>2. new[p] = [nds[p] EXCEPT !.covered = @ - Cardinality(Holders(nds, circuits, p) \cap gone)]
    BY DEF DropHandles
  <2> QED
    BY <2>1, <2>2 DEF Need
<1> HIDE DEF new
<1> QED
  BY <1>1, <1>2 DEF Living, new

(* A step leaves living needs, and drops those only that have expired.     *)
Dropped == \A p \in DOMAIN needs \ DOMAIN needs' : needs[p].born + NeedLifetime <= now'

LEMMA UpdateLives ==
  ASSUME Inv, LifeInv, NEW t \in Nat, now <= t, NEW cs, TimedUpdates(t, cs)
  PROVE  LifeInv' /\ Dropped
<1> DEFINE added == IF triggered THEN needs ELSE AddNeed(needs, InitialPort, t, FALSE)
           live  == RemoveExpired(added, t)
<1>1. /\ needs' = DropHandles(live, Closed(t, cs)) /\ now' = t /\ triggered' = TRUE
  BY DEF TimedUpdates
<1>2. /\ NeedsTyped(added) /\ DOMAIN needs \subseteq DOMAIN added
      /\ \A p \in DOMAIN needs : added[p] = needs[p]
      /\ \A p \in DOMAIN added : added[p].expires = added[p].born + NeedLifetime
  <2>1. CASE triggered
    BY <2>1 DEF Inv, Good, LifeInv, Living
  <2>2. CASE ~triggered
    <3>1. Good(added, circuits, pushed, t)
      BY <2>2, AddNeedGood, PortAssumption DEF Inv
    <3>2. DOMAIN needs = {}
      BY <2>2 DEF LifeInv
    <3>3. Living(needs, t)
      BY <3>2 DEF Living
    <3>4. Living(added, t)
      <4>1. NeedsTyped(needs)
        BY DEF Inv, Good
      <4> QED
        BY <2>2, <3>3, <4>1, AddNeedLives, PortAssumption
    <3> QED
      BY <3>1, <3>2, <3>4 DEF Good, Living
  <2> QED
    BY <2>1, <2>2
<1> HIDE DEF added
<1>3. /\ DOMAIN live = {p \in DOMAIN added : ~(added[p].expires <= t)}
      /\ \A p \in DOMAIN live : live[p] = added[p]
      /\ live = [p \in DOMAIN live |-> live[p]]
  BY DEF RemoveExpired, HasExpired
<1> HIDE DEF live
<1>4. NeedsTyped(live)
  BY <1>2, <1>3 DEF NeedsTyped
<1>5. Living(live, t)
  <2> SUFFICES ASSUME NEW p \in DOMAIN live
               PROVE  live[p].expires = live[p].born + NeedLifetime /\ t < live[p].expires
    BY DEF Living
  <2>1. live[p] \in Need
    BY <1>4 DEF NeedsTyped
  <2> QED
    BY <1>2, <1>3, <2>1 DEF Need
<1>6. Living(needs', t) /\ DOMAIN needs' = DOMAIN live
  BY <1>1, <1>4, <1>5, DropLives
<1>7. LifeInv'
  BY <1>1, <1>6 DEF LifeInv
<1>8. Dropped
  <2> SUFFICES ASSUME NEW p \in DOMAIN needs, p \notin DOMAIN needs'
               PROVE  needs[p].born + NeedLifetime <= t
    BY <1>1 DEF Dropped
  <2>1. p \in DOMAIN added /\ added[p] = needs[p] /\ p \notin DOMAIN live
    BY <1>2, <1>6
  <2> QED
    BY <1>2, <1>3, <2>1
<1> QED
  BY <1>7, <1>8

(* Taking a handle changes a counter only.                                 *)
LEMMA TakeLives ==
  ASSUME NEW nds, NeedsTyped(nds), NEW t, Living(nds, t), NEW p \in DOMAIN nds, NEW new,
         new = [nds EXCEPT ![p].covered = @ + 1]
  PROVE  Living(new, t) /\ DOMAIN new = DOMAIN nds
<1>1. DOMAIN new = DOMAIN nds
  OBVIOUS
<1>2. ASSUME NEW q \in DOMAIN nds
      PROVE  new[q].born = nds[q].born /\ new[q].expires = nds[q].expires
  <2>1. nds[q] \in Need
    BY DEF NeedsTyped
  <2>2. new[q] = IF q = p THEN [nds[q] EXCEPT !.covered = @ + 1] ELSE nds[q]
    BY DEF NeedsTyped
  <2> QED
    BY <2>1, <2>2 DEF Need
<1> QED
  BY <1>1, <1>2 DEF Living

(* A request keeps all needs.                                              *)
LEMMA ServeLives ==
  ASSUME Inv, LifeInv, phase = "serving", NEW c, NEW nds, NEW crs, NEW n, Good(nds, crs, n, now),
         Living(nds, now), DOMAIN nds = DOMAIN needs, Serve(c, nds, crs)
  PROVE  LifeInv' /\ Dropped
<1> DEFINE added == AddNeed(nds, request, now, request \in LongLived)
<1>1. /\ now \in Nat /\ request \in Port
      /\ now' = now /\ triggered' = triggered /\ triggered = TRUE
  BY DEF Inv, Good, ControlOK, LifeInv, Serve
<1>2. /\ Living(added, now) /\ request \in DOMAIN added
      /\ \A q \in DOMAIN nds : q \in DOMAIN added
  <2>1. NeedsTyped(nds)
    BY DEF Good
  <2>2. \A s \in BOOLEAN :
          /\ Living(AddNeed(nds, request, now, s), now)
          /\ request \in DOMAIN AddNeed(nds, request, now, s)
          /\ \A q \in DOMAIN nds : q \in DOMAIN AddNeed(nds, request, now, s)
    <3> TAKE s \in BOOLEAN
    <3>1. now \in Nat /\ request \in Port /\ Living(nds, now)
      BY <1>1
    <3> QED
      BY <3>1, <2>1, AddNeedLives
  <2>3. (request \in LongLived) \in BOOLEAN
    OBVIOUS
  <2> QED
    BY <2>2, <2>3
<1>3. NeedsTyped(added)
  <2>1. \A s \in BOOLEAN : Good(AddNeed(nds, request, now, s), crs, n, now)
    BY <1>1, AddNeedGood
  <2>2. (request \in LongLived) \in BOOLEAN
    OBVIOUS
  <2> QED
    BY <2>1, <2>2 DEF Good
<1>4. \/ needs' = nds
      \/ needs' = added \/ needs' = [added EXCEPT ![request].covered = @ + 1]
  BY DEF Serve, Remember
<1> HIDE DEF added
<1>5. Living(needs', now) /\ DOMAIN nds \subseteq DOMAIN needs'
  <2>1. CASE needs' = nds
    BY <2>1
  <2>2. CASE needs' # nds
    BY <1>2, <1>3, <1>4, <2>2, TakeLives
  <2> QED
    BY <2>1, <2>2
<1> QED
  BY <1>1, <1>5 DEF LifeInv, Dropped

LEMMA LifeStep == Inv /\ LifeInv /\ [Next]_vars => LifeInv' /\ (Dropped \/ UNCHANGED vars)
<1> SUFFICES ASSUME Inv, LifeInv, [Next]_vars PROVE LifeInv' /\ (Dropped \/ UNCHANGED vars)
  OBVIOUS
<1>0. /\ now \in Nat /\ MaxTime \in Nat /\ Living(needs, now) /\ NeedsTyped(needs)
      /\ Good(needs, circuits, pushed, now)
  BY TimeAssumption DEF Inv, Good, LifeInv
<1>1. ASSUME NEW t \in now .. MaxTime, NEW cs, TimedUpdates(t, cs)
      PROVE  LifeInv' /\ Dropped
  BY <1>0, <1>1, UpdateLives
<1>2. ASSUME NEW p, NEW g, NEW m, NEW x, CoverNeed(p, g, m, x)
      PROVE  LifeInv' /\ Dropped
  <2>1. /\ p \in DOMAIN needs /\ needs' = [needs EXCEPT ![p].covered = @ + 1]
        /\ now' = now /\ triggered' = triggered /\ phase = "covering"
    BY <1>2 DEF CoverNeed, Uncovered
  <2>2. Living(needs', now) /\ DOMAIN needs' = DOMAIN needs
    BY <1>0, <2>1, TakeLives
  <2> QED
    BY <2>1, <2>2 DEF LifeInv, Dropped
<1>3. CASE CoverDone \/ BuildFails
  BY <1>3 DEF CoverDone, BuildFails, LifeInv, Dropped
<1>4. ASSUME NEW c \in DOMAIN circuits, UseDirty(c)
      PROVE  LifeInv' /\ Dropped
  BY <1>0, <1>4, ServeLives DEF UseDirty
<1>5. ASSUME NEW c \in DOMAIN circuits, UseClean(c)
      PROVE  LifeInv' /\ Dropped
  <2> DEFINE crs == [circuits EXCEPT ![c].dirty = now, ![c].covers = {}]
             nds == DropHandles(needs, {c})
  <2>1. Good(nds, crs, pushed, now)
    BY UseCleanGood
  <2>2. Living(nds, now) /\ DOMAIN nds = DOMAIN needs
    BY <1>0, DropLives
  <2>3. phase = "serving" /\ Serve(c, nds, crs)
    BY <1>5 DEF UseClean
  <2> HIDE DEF crs, nds
  <2> QED
    BY <2>1, <2>2, <2>3, ServeLives
<1>6. ASSUME NEW g \in Relay, NEW m \in Relay, NEW x \in Relay, UseNew(g, m, x)
      PROVE  LifeInv' /\ Dropped
  <2> DEFINE circuit == NewCircuit(g, m, x, request \in LongLived, now, {})
             crs     == Push(circuit)
  <2>1. circuit \in ShallowCircuit /\ circuit.covers = {}
    BY DEF Inv, Good, NewCircuit, ShallowCircuit
  <2>2. Good(needs, crs, pushed + 1, now)
    BY <2>1, PushGood DEF Inv
  <2>3. phase = "serving" /\ Serve(pushed, needs, crs)
    BY <1>6 DEF UseNew
  <2> HIDE DEF crs
  <2> QED
    BY <1>0, <2>2, <2>3, ServeLives
<1>7. CASE UNCHANGED vars
  BY <1>7 DEF vars, LifeInv
<1> QED
  BY <1>1, <1>2, <1>3, <1>4, <1>5, <1>6, <1>7
     DEF Next, Covering, Serving, NewEpoch, NextRequest

LEMMA LifeInvariant == Spec => []LifeInv
<1>1. Init => LifeInv
  BY DEF Init, LifeInv, Living
<1> QED
  BY <1>1, LifeStep, Invariant, PTL DEF Spec

(* A need is in the map for exactly its lifetime: the housekeeping before  *)
(* every call, with its comparison, finds them in time and no earlier.     *)
THEOREM LifetimesKept == Spec => NeedsLiveTheirLifetime
<1>1. Inv /\ LifeInv /\ LifeInv' /\ [Next]_vars =>
        \/ /\ \A p \in DOMAIN needs' : now' < needs'[p].born + NeedLifetime
           /\ \A p \in DOMAIN needs \ DOMAIN needs' : needs[p].born + NeedLifetime <= now'
        \/ UNCHANGED vars
  <2> SUFFICES ASSUME Inv, LifeInv, LifeInv', [Next]_vars, Dropped
               PROVE  \A p \in DOMAIN needs' : now' < needs'[p].born + NeedLifetime
    BY LifeStep DEF Dropped
  <2> QED
    BY DEF LifeInv, Living
<1> QED
  BY <1>1, Invariant, LifeInvariant, PTL DEF Spec, NeedsLiveTheirLifetime

-----------------------------------------------------------------------------
(* Circuits that serve requests.                                           *)
(*                                                                         *)
(* A circuit that is dirty at time t got dirty before, and was not idle    *)
(* for too long then.                                                      *)
InTime(circuit, t) ==
  circuit.dirty # None => circuit.dirty <= t /\ circuit.dirty <= circuit.time + IdleTimeout

UsedInv == \A c \in DOMAIN circuits : InTime(circuits[c], now)

(* A circuit is fit to carry the request.                                  *)
FitFor(circuit) ==
  /\ circuit.exit \in Alive(consensus)
  /\ request \in consensus.policy[circuit.exit]
  /\ request \in LongLived => circuit.stable
  /\ circuit.dirty # None /\ now < circuit.dirty + MaxDirtiness

(* Remembering the need of a request changes only what circuits cover.     *)
LEMMA RememberKeeps ==
  ASSUME NEW nds, NEW crs, crs \in [DOMAIN crs -> ShallowCircuit], Remember(nds, crs)
  PROVE  /\ DOMAIN circuits' = DOMAIN crs
         /\ \A c \in DOMAIN crs : /\ circuits'[c].exit = crs[c].exit
                                  /\ circuits'[c].time = crs[c].time
                                  /\ circuits'[c].dirty = crs[c].dirty
                                  /\ circuits'[c].stable = crs[c].stable
<1>1. CASE circuits' = crs
  BY <1>1
<1>2. ASSUME NEW c \in DOMAIN crs, NEW h,
             circuits' = [crs EXCEPT ![c].covers = @ \cup {h}]
      PROVE  /\ DOMAIN circuits' = DOMAIN crs
             /\ \A d \in DOMAIN crs : /\ circuits'[d].exit = crs[d].exit
                                      /\ circuits'[d].time = crs[d].time
                                      /\ circuits'[d].dirty = crs[d].dirty
                                      /\ circuits'[d].stable = crs[d].stable
  BY <1>2 DEF ShallowCircuit
<1>. QED
  BY <1>1, <1>2 DEF Remember

(* The request is served on circuit c of crs, which is fit for it.         *)
LEMMA ServeFits ==
  ASSUME NEW nds, NEW crs, crs \in [DOMAIN crs -> ShallowCircuit], NEW c \in DOMAIN crs,
         Serve(c, nds, crs), \A d \in DOMAIN crs : InTime(crs[d], now), FitFor(crs[c])
  PROVE  UsedInv' /\ used' \in DOMAIN circuits' /\ FitFor(circuits'[used'])
<1>1. used' = c /\ now' = now
  BY DEF Serve
<1>2. /\ DOMAIN circuits' = DOMAIN crs
      /\ \A d \in DOMAIN crs : /\ circuits'[d].exit = crs[d].exit
                               /\ circuits'[d].time = crs[d].time
                               /\ circuits'[d].dirty = crs[d].dirty
                               /\ circuits'[d].stable = crs[d].stable
  <2>1. CASE Remember(nds, crs)
    BY <2>1, RememberKeeps
  <2>2. CASE circuits' = crs
    BY <2>2
  <2>. QED
    BY <2>1, <2>2 DEF Serve
<1>3. UsedInv'
  BY <1>1, <1>2 DEF UsedInv, InTime
<1>. QED
  BY <1>1, <1>2, <1>3 DEF FitFor

(* What circuits have been used when is kept in order, and a request goes  *)
(* to a fit circuit.                                                       *)
Served == phase = "serving" /\ phase' = "idle" =>
            used' \in DOMAIN circuits' /\ FitFor(circuits'[used'])

LEMMA UsedStep == Inv /\ CallInv /\ UsedInv /\ [Next]_vars => UsedInv' /\ Served
<1> SUFFICES ASSUME Inv, CallInv, UsedInv, [Next]_vars PROVE UsedInv' /\ Served
  OBVIOUS
<1>0. /\ now \in Nat /\ now # None /\ CircuitsTyped(circuits, pushed)
      /\ pushed \notin DOMAIN circuits
      /\ MaxDirtiness \in Nat \ {0} /\ IdleTimeout \in Nat /\ MaxTime \in Nat
      /\ \A c \in DOMAIN circuits : circuits[c] \in ShallowCircuit /\ circuits[c].time \in Nat
  BY TimeAssumption, NoneAssumption DEF Inv, Good, CircuitsTyped, ShallowCircuit
<1>1. ASSUME NEW t \in now .. MaxTime, NEW cs, TimedUpdates(t, cs)
      PROVE  UsedInv' /\ Served
  <2>1. /\ now' = t /\ phase' = "covering"
        /\ \A c \in DOMAIN circuits' : c \in DOMAIN circuits /\ circuits'[c] = circuits[c]
    BY <1>1 DEF TimedUpdates
  <2>2. now <= t /\ t \in Nat
    BY <1>0, <1>1
  <2>3. \A c \in DOMAIN circuits : circuits[c].dirty # None => circuits[c].dirty \in Nat
    BY <1>0 DEF ShallowCircuit
  <2>. QED
    BY <1>0, <2>1, <2>2, <2>3 DEF UsedInv, InTime, Served
<1>2. ASSUME NEW p \in Port, NEW g, NEW m, NEW x, CoverNeed(p, g, m, x)
      PROVE  UsedInv' /\ Served
  <2>1. /\ phase = "covering" /\ now' = now /\ DOMAIN circuits' = DOMAIN circuits \cup {pushed}
        /\ circuits'[pushed].dirty = None
        /\ \A c \in DOMAIN circuits : circuits'[c] = circuits[c]
    BY <1>0, <1>2 DEF CoverNeed, Push, NewCircuit
  <2>. QED
    BY <2>1 DEF UsedInv, InTime, Served
<1>3. CASE CoverDone \/ BuildFails \/ UNCHANGED vars
  BY <1>3 DEF CoverDone, BuildFails, vars, UsedInv, Served
<1>4. ASSUME phase = "serving", NEW nds, NEW crs, crs \in [DOMAIN crs -> ShallowCircuit],
             NEW c \in DOMAIN crs, Serve(c, nds, crs),
             \A d \in DOMAIN crs : InTime(crs[d], now), FitFor(crs[c])
      PROVE  UsedInv' /\ Served
  BY <1>4, ServeFits DEF Served
<1>5. ASSUME NEW c \in DOMAIN circuits, UseDirty(c)
      PROVE  UsedInv' /\ Served
  <2>1. /\ phase = "serving" /\ Serve(c, needs, circuits)
        /\ circuits[c].dirty # None /\ now < circuits[c].dirty + MaxDirtiness
        /\ SupportsStream(c, request)
    BY <1>5 DEF UseDirty, IsFirst, SuitableDirty, IsClean
  <2>2. FitFor(circuits[c])
    BY <2>1 DEF FitFor, SupportsStream, CallInv, Fresh
  <2>. QED
    BY <1>0, <1>4, <2>1, <2>2 DEF UsedInv, CircuitsTyped
<1>6. ASSUME NEW c \in DOMAIN circuits, UseClean(c)
      PROVE  UsedInv' /\ Served
  <2> DEFINE crs == [circuits EXCEPT ![c].dirty = now, ![c].covers = {}]
  <2>1. /\ phase = "serving" /\ Serve(c, DropHandles(needs, {c}), crs)
        /\ circuits[c].dirty = None /\ SupportsStream(c, request)
    BY <1>6 DEF UseClean, IsFirst, SuitableClean, IsClean
  <2>2. CircuitsTyped(crs, pushed)
    BY UseCleanGood DEF Good
  <2>3. /\ DOMAIN crs = DOMAIN circuits
        /\ \A d \in DOMAIN circuits \ {c} : crs[d] = circuits[d]
        /\ crs[c] = [circuits[c] EXCEPT !.dirty = now, !.covers = {}]
    BY <1>0 DEF CircuitsTyped
  <2>4. /\ crs[c].dirty = now /\ crs[c].time = circuits[c].time
        /\ crs[c].exit = circuits[c].exit /\ crs[c].stable = circuits[c].stable
    <3>1. circuits[c] \in ShallowCircuit
      BY <1>0
    <3> HIDE DEF crs
    <3> QED
      BY <2>3, <3>1 DEF ShallowCircuit
  <2> HIDE DEF crs
  <2>5. FitFor(crs[c])
    BY <1>0, <2>1, <2>4 DEF FitFor, SupportsStream, CallInv, Fresh
  <2>6. InTime(crs[c], now)
    BY <1>0, <2>1, <2>4 DEF InTime, CallInv, Fresh
  <2>7. \A d \in DOMAIN crs : InTime(crs[d], now)
    BY <2>3, <2>6 DEF UsedInv
  <2>. QED
    BY <1>4, <2>1, <2>2, <2>3, <2>5, <2>7 DEF CircuitsTyped
<1>7. ASSUME NEW g \in Relay, NEW m \in Relay, NEW x \in Relay, UseNew(g, m, x)
      PROVE  UsedInv' /\ Served
  <2> DEFINE circuit == NewCircuit(g, m, x, request \in LongLived, now, {})
             crs     == Push(circuit)
  <2>1. circuit \in ShallowCircuit /\ circuit.covers = {}
    BY <1>0 DEF NewCircuit, ShallowCircuit
  <2>2. /\ CircuitsTyped(crs, pushed + 1) /\ crs[pushed] = circuit
        /\ DOMAIN crs = DOMAIN circuits \cup {pushed}
    BY <2>1, PushGood DEF Inv, Good
  <2>3. \A d \in DOMAIN circuits : crs[d] = circuits[d]
    BY <1>0 DEF Push
  <2>4. phase = "serving" /\ Serve(pushed, needs, crs) /\ CanBuild(consensus, request, g, m, x)
    BY <1>7 DEF UseNew
  <2>5. FitFor(circuit) /\ InTime(circuit, now)
    <3>1. circuit.exit = x /\ circuit.time = now /\ circuit.dirty = now
      BY DEF NewCircuit
    <3>2. request \in LongLived => circuit.stable
      BY Zenon DEF NewCircuit
    <3> HIDE DEF circuit
    <3> QED
      BY <1>0, <2>4, <3>1, <3>2 DEF FitFor, InTime, CanBuild
  <2> HIDE DEF crs, circuit
  <2>6. \A d \in DOMAIN crs : InTime(crs[d], now)
    BY <2>2, <2>3, <2>5 DEF UsedInv
  <2>. QED
    BY <1>4, <2>2, <2>4, <2>5, <2>6 DEF CircuitsTyped
<1>. QED
  BY <1>1, <1>2, <1>3, <1>5, <1>6, <1>7 DEF Next, Covering, Serving, NewEpoch, NextRequest

LEMMA UsedInvariant == Spec => []UsedInv
<1>1. Init => UsedInv
  BY DEF Init, UsedInv
<1>. QED
  BY <1>1, UsedStep, Invariant, CallInvariant, PTL DEF Spec

(* Whatever the order of requests, epochs and relays that leave, a request *)
(* goes to a circuit that can carry it, through relays that are up, and    *)
(* that is neither too old nor was idle for too long.                      *)
THEOREM ServedFit == Spec => ServedByFitCircuit
<1> DEFINE Fit == phase = "serving" /\ phase' = "idle" =>
       LET c == circuits'[used'] IN
         /\ c.exit \in Alive(consensus)
         /\ request \in consensus.policy[c.exit]
         /\ request \in LongLived => c.stable
         /\ c.dirty # None /\ c.dirty <= now /\ now < c.dirty + MaxDirtiness
         /\ c.dirty <= c.time + IdleTimeout
<1>1. Inv /\ CallInv /\ UsedInv /\ [Next]_vars => Fit \/ UNCHANGED vars
  <2> SUFFICES ASSUME Inv, CallInv, UsedInv, Next, phase = "serving", phase' = "idle"
               PROVE  Fit
    OBVIOUS
  <2>1. UsedInv' /\ used' \in DOMAIN circuits' /\ FitFor(circuits'[used'])
    BY UsedStep DEF Served
  <2>2. now' = now
    BY DEF Next, Covering, Serving, NewEpoch, NextRequest, CoverNeed, CoverDone, BuildFails,
           UseDirty, UseClean, UseNew, Serve
  <2>. QED
    BY <2>1, <2>2 DEF FitFor, UsedInv, InTime
<1>. QED
  BY <1>1, Invariant, CallInvariant, UsedInvariant, PTL DEF Spec, ServedByFitCircuit
=============================================================================
