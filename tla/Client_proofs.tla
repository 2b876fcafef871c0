---------------------------- MODULE Client_proofs ----------------------------
(***************************************************************************)
(* Proofs about Client: that the circuit manager and the guard handling,   *)
(* each of which CircuitManager and GuardHandling describe on its own, see *)
(* the same circuits, that an exit in use keeps its number, and that what  *)
(* is proved of each of the two on its own holds of them in a client.      *)
(***************************************************************************)
EXTENDS Client, FiniteSetTheorems, TLAPS

(* r is a record with the fields of a circuit.                             *)
IsCircuit(r) ==
  r = [guard |-> r.guard, middle |-> r.middle, exit |-> r.exit, time |-> r.time,
       dirty |-> r.dirty, stable |-> r.stable, covers |-> r.covers]

(* No circuit that is open at time t is older than the rules allow.        *)
InTime(r, t) ==
  /\ r.time \in Nat
  /\ IF r.dirty = None
     THEN t <= r.time + IdleTimeout
     ELSE r.dirty \in Nat /\ r.dirty <= r.time + IdleTimeout /\ t <= r.dirty + MaxDirtiness

Known(r) == [guard |-> r.guard, built |-> r.time] \in open

Fit(r) ==
  IsCircuit(r) /\ InTime(r, now) /\ Known(r) /\ r.guard \in Relay

(* The guard that was drawn for a circuit is known before the circuit is   *)
(* there; time stands still between the two, and nothing else serves the   *)
(* request.                                                                *)
Drawn ==
  drawn # None => /\ phase \in {"serving", "failed"}
                  /\ [guard |-> drawn, built |-> now] \in open
                  /\ CM!SuitableDirty(request) \cup CM!SuitableClean(request) = {}

Numbered ==
  /\ consensus \in Consensuses
  /\ triggered => Exits(consensus) \subseteq numbered
  /\ phase \in {"covering", "serving"} => triggered

IInv ==
  /\ now \in Nat
  /\ circuits = [c \in DOMAIN circuits |-> circuits[c]]
  /\ \A c \in DOMAIN circuits : Fit(circuits[c])
  /\ Drawn
  /\ Numbered

-----------------------------------------------------------------------------
(* What an update leaves of the circuits it finds, or a request changes.   *)
Kept(r, old, t) ==
  /\ IsCircuit(r)
  /\ r.guard = old.guard /\ r.time = old.time
  /\ \/ r.dirty = old.dirty
     \/ old.dirty = None /\ r.dirty = t

(* A circuit that is built now, through a known guard.                     *)
Fresh(r, t, known) ==
  /\ IsCircuit(r)
  /\ r.time = t /\ r.dirty \in {None, t}
  /\ [guard |-> r.guard, built |-> t] \in known
  /\ r.guard \in Relay

(* Whatever a step does to the circuits while time stands still, they stay *)
(* fit if each of them is an old one or a new one.                         *)
LEMMA FitStaysFit ==
  ASSUME IInv, now' = now, open \subseteq open',
         \A c \in DOMAIN circuits' :
           \/ c \in DOMAIN circuits /\ Kept(circuits'[c], circuits[c], now)
           \/ Fresh(circuits'[c], now, open')
  PROVE  (\A c \in DOMAIN circuits : Fit(circuits[c]))'
<1> SUFFICES ASSUME NEW c \in DOMAIN circuits'
             PROVE  Fit(circuits[c])'
  OBVIOUS
<1> DEFINE r == circuits'[c]
<1> HIDE DEF r
<1>1. /\ IsCircuit(r) /\ r.guard \in Relay
      /\ [guard |-> r.guard, built |-> r.time] \in open'
      /\ InTime(r, now)
  <2>1. CASE c \in DOMAIN circuits /\ Kept(circuits'[c], circuits[c], now)
    <3> DEFINE s == circuits[c]
    <3>1. now \in Nat /\ InTime(s, now) /\ Known(s) /\ s.guard \in Relay
      BY <2>1 DEF IInv, Fit
    <3>2. Kept(r, s, now)
      BY <2>1 DEF r
    <3> HIDE DEF s
    <3>3. InTime(r, now)
      BY <3>1, <3>2, TimeAssumption, NoneAssumption DEF InTime, Kept
    <3> QED
      BY <3>1, <3>2, <3>3 DEF Kept, Known
  <2>2. CASE Fresh(circuits'[c], now, open')
    BY <2>2, TimeAssumption, NoneAssumption DEF r, Fresh, InTime, IInv
  <2> QED
    BY <2>1, <2>2
<1> QED
  BY <1>1 DEF r, Fit, IsCircuit, InTime, Known

(* The three rules for closing leave what StillOpen takes to be open.      *)
LEMMA UpdateKeeps ==
  ASSUME IInv, phase = "idle", NEW t \in now .. MaxTime, NEW cs \in Consensuses, CM!TimedUpdates(t, cs),
         open' = GH!StillOpen(t, GuardView(cs)), drawn' = drawn,
         consensus' = cs, Exits(cs) \subseteq numbered'
  PROVE  IInv'
<1>1. /\ now \in Nat /\ t \in Nat /\ now <= t /\ now' = t /\ triggered' = TRUE /\ phase' = "covering"
      /\ drawn' = None
      /\ circuits' = [c \in DOMAIN circuits \ CM!Closed(t, cs) |-> circuits[c]]
  BY TimeAssumption DEF IInv, Drawn, CM!TimedUpdates
<1>2. (\A c \in DOMAIN circuits : Fit(circuits[c]))'
  <2> SUFFICES ASSUME NEW c \in DOMAIN circuits'
               PROVE  Fit(circuits[c])'
    OBVIOUS
  <2>1. c \in DOMAIN circuits /\ c \notin CM!Closed(t, cs) /\ circuits'[c] = circuits[c]
    BY <1>1
  <2> DEFINE r == circuits[c]
  <2>2. /\ r.dirty = None => ~(r.time + IdleTimeout < t)
        /\ r.dirty # None => ~(r.dirty + MaxDirtiness < t)
        /\ r.guard \in cs.listed \cap cs.running \cap cs.valid
    BY <2>1 DEF CM!Closed, CM!OldDirty, CM!OldClean, CM!Down, CM!Alive, CM!IsClean
  <2>3. IsCircuit(r) /\ InTime(r, now) /\ Known(r) /\ r.guard \in Relay
    BY <2>1 DEF IInv, Fit
  <2> HIDE DEF r
  <2>4. InTime(r, t)
    BY <1>1, <2>2, <2>3, TimeAssumption DEF InTime
  <2>5. t <= r.time + (IdleTimeout + MaxDirtiness)
    BY <1>1, <2>4, TimeAssumption DEF InTime
  <2>6. [guard |-> r.guard, built |-> r.time] \in open'
    BY <2>2, <2>3, <2>5 DEF Known, GH!StillOpen, GuardView
  <2>7. circuits'[c] = r
    BY <2>1 DEF r
  <2> QED
    BY <1>1, <2>3, <2>4, <2>6, <2>7 DEF Fit, Known, IsCircuit, InTime
<1>3. (circuits = [c \in DOMAIN circuits |-> circuits[c]])'
  BY <1>1
<1>4. Drawn' /\ Numbered'
  BY <1>1 DEF Drawn, Numbered, Exits
<1> QED
  BY <1>1, <1>2, <1>3, <1>4 DEF IInv

(* The generator chooses relays.                                           *)
LEMMA BuiltFromRelays ==
  ASSUME IInv, NEW p, NEW g, NEW m, NEW x, CM!CanBuild(consensus, p, g, m, x)
  PROVE  x \in Relay /\ m \in Relay /\ g \in Relay /\ p \in Port
BY ConsensusAssumption DEF IInv, Numbered, CM!CanBuild, CM!Alive, CM!Consensus

(* A guard that is handed out is known to be in use from now on.           *)
LEMMA HandedIsOpen ==
  ASSUME GetGuard
  PROVE  open' = open \cup {[guard |-> handed', built |-> now]}
BY DEF GetGuard, GH!GetPrimary, GH!GetSampled, GH!HandOut

LEMMA CoverNeedKeeps ==
  ASSUME IInv, NEW p, NEW g, NEW m, NEW x, CoverNeed(p, g, m, x)
  PROVE  IInv'
<1> DEFINE new == CM!NewCircuit(g, m, x, needs[p].stable, None, {CM!HandleTo(needs, p)})
<1>1. /\ now \in Nat /\ now' = now /\ phase = "covering" /\ phase' = phase
      /\ triggered' = triggered /\ consensus' = consensus
      /\ circuits' = [c \in DOMAIN circuits \cup {pushed} |->
                        IF c = pushed THEN new ELSE circuits[c]]
      /\ drawn' = drawn /\ numbered' = numbered
      /\ open' = open \cup {[guard |-> g, built |-> now]}
  BY HandedIsOpen DEF IInv, CoverNeed, CM!CoverNeed, CM!Push
<1>2. g \in Relay
  BY <1>1, BuiltFromRelays DEF CoverNeed, CM!CoverNeed
<1>3. Fresh(new, now, open')
  BY <1>1, <1>2 DEF Fresh, IsCircuit, CM!NewCircuit
<1> HIDE DEF new
<1>4. ASSUME NEW c \in DOMAIN circuits'
      PROVE  \/ c \in DOMAIN circuits /\ Kept(circuits'[c], circuits[c], now)
             \/ Fresh(circuits'[c], now, open')
  <2>1. CASE c = pushed
    BY <1>1, <1>3, <2>1
  <2>2. CASE c # pushed
    <3>1. c \in DOMAIN circuits /\ circuits'[c] = circuits[c] /\ IsCircuit(circuits[c])
      BY <1>1, <2>2 DEF IInv, Fit
    <3> QED
      BY <3>1 DEF Kept
  <2> QED
    BY <2>1, <2>2
<1>5. (\A c \in DOMAIN circuits : Fit(circuits[c]))'
  BY <1>1, <1>4, FitStaysFit
<1>6. Drawn' /\ Numbered'
  BY <1>1 DEF IInv, Drawn, Numbered, Exits
<1> QED
  BY <1>1, <1>5, <1>6 DEF IInv

-----------------------------------------------------------------------------
(* The second half of handle_request changes nothing but what the circuits *)
(* cover.                                                                  *)
LEMMA RememberKeeps ==
  ASSUME IInv, NEW c0, NEW nds, NEW crs, CM!Serve(c0, nds, crs),
         drawn' = None, open \subseteq open', numbered' = numbered,
         phase = "serving",
         crs = [c \in DOMAIN crs |-> crs[c]],
         \A c \in DOMAIN crs :
           \/ c \in DOMAIN circuits /\ Kept(crs[c], circuits[c], now)
           \/ Fresh(crs[c], now, open')
  PROVE  IInv'
<1>1. /\ now \in Nat /\ now' = now /\ phase' \in {"idle", "failed"}
      /\ triggered' = triggered /\ consensus' = consensus
  BY DEF IInv, CM!Serve
<1>2. \/ circuits' = crs
      \/ \E d \in DOMAIN crs : \E cov : circuits' = [crs EXCEPT ![d].covers = cov]
  BY DEF CM!Serve, CM!Remember
<1>3. /\ DOMAIN circuits' = DOMAIN crs
      /\ circuits' = [c \in DOMAIN circuits' |-> circuits'[c]]
      /\ \A c \in DOMAIN crs :
           circuits'[c] = crs[c] \/ \E cov : circuits'[c] = [crs[c] EXCEPT !.covers = cov]
  BY <1>2
<1>4. ASSUME NEW c \in DOMAIN circuits'
      PROVE  \/ c \in DOMAIN circuits /\ Kept(circuits'[c], circuits[c], now)
             \/ Fresh(circuits'[c], now, open')
  <2> DEFINE r == crs[c]
             s == circuits'[c]
  <2>1. c \in DOMAIN crs /\ IsCircuit(r)
    BY <1>3 DEF Kept, Fresh
  <2>2. s = r \/ \E cov : s = [r EXCEPT !.covers = cov]
    BY <1>3
  <2>3. \/ c \in DOMAIN circuits /\ Kept(r, circuits[c], now)
        \/ Fresh(r, now, open')
    BY <1>3
  <2> HIDE DEF r, s
  <2>4. /\ IsCircuit(s) /\ s.guard = r.guard
        /\ s.time = r.time /\ s.dirty = r.dirty
    <3>1. CASE s = r
      BY <2>1, <3>1
    <3>2. CASE \E cov : s = [r EXCEPT !.covers = cov]
      <4>1. PICK cov : s = [r EXCEPT !.covers = cov]
        BY <3>2
      <4>2. s = [guard |-> r.guard, middle |-> r.middle, exit |-> r.exit, time |-> r.time,
                 dirty |-> r.dirty, stable |-> r.stable, covers |-> cov]
        BY <2>1, <4>1 DEF IsCircuit
      <4> QED
        BY <4>2 DEF IsCircuit
    <3> QED
      BY <2>2, <3>1, <3>2
  <2>5. \/ c \in DOMAIN circuits /\ Kept(s, circuits[c], now)
        \/ Fresh(s, now, open')
    BY <2>3, <2>4 DEF Kept, Fresh
  <2> QED
    BY <2>5 DEF s
<1>5. (\A c \in DOMAIN circuits : Fit(circuits[c]))'
  BY <1>1, <1>4, FitStaysFit
<1>6. Drawn' /\ Numbered'
  BY <1>1 DEF IInv, Drawn, Numbered, Exits
<1> QED
  BY <1>1, <1>3, <1>5, <1>6 DEF IInv

(* A circuit that serves the request is there already, so no guard has     *)
(* been drawn.                                                             *)
LEMMA NotDrawn ==
  ASSUME IInv, NEW c, c \in CM!SuitableDirty(request) \cup CM!SuitableClean(request)
  PROVE  drawn = None
BY DEF IInv, Drawn

LEMMA UseDirtyKeeps ==
  ASSUME IInv, NEW c, UseDirty(c)
  PROVE  IInv'
<1>1. /\ CM!Serve(c, needs, circuits) /\ phase = "serving"
      /\ c \in CM!SuitableDirty(request)
      /\ open' = open /\ numbered' = numbered /\ drawn' = drawn
  BY DEF UseDirty, CM!UseDirty, CM!IsFirst, Notify, GH!MarkAsConfirmed, guardVars
<1>2. drawn = None
  BY <1>1, NotDrawn
<1>3. /\ circuits = [d \in DOMAIN circuits |-> circuits[d]]
      /\ \A d \in DOMAIN circuits : Kept(circuits[d], circuits[d], now)
  BY DEF IInv, Fit, Kept
<1> QED
  BY <1>1, <1>2, <1>3, RememberKeeps

LEMMA UseCleanKeeps ==
  ASSUME IInv, NEW c \in DOMAIN circuits, UseClean(c)
  PROVE  IInv'
<1> DEFINE crs == [circuits EXCEPT ![c].dirty = now, ![c].covers = {}]
<1>1. /\ CM!Serve(c, CM!DropHandles(needs, {c}), crs) /\ phase = "serving"
      /\ c \in CM!SuitableClean(request)
      /\ open' = open /\ numbered' = numbered /\ drawn' = drawn
  BY DEF UseClean, CM!UseClean, CM!IsFirst, Notify, GH!MarkAsConfirmed, guardVars
<1>2. drawn = None /\ circuits[c].dirty = None
  BY <1>1, NotDrawn DEF CM!SuitableClean, CM!IsClean
<1>3. ASSUME NEW d \in DOMAIN circuits
      PROVE  Kept(crs[d], circuits[d], now)
  <2>1. IsCircuit(circuits[d])
    BY DEF IInv, Fit
  <2>2. CASE d # c
    <3>1. crs[d] = circuits[d]
      BY <2>2
    <3> QED
      BY <2>1, <3>1 DEF Kept
  <2>3. CASE d = c
    <3> DEFINE r == circuits[c]
    <3>1. crs[d] = [guard |-> r.guard, middle |-> r.middle, exit |-> r.exit, time |-> r.time,
                    dirty |-> now, stable |-> r.stable, covers |-> {}]
      BY <2>1, <2>3 DEF IsCircuit
    <3> HIDE DEF crs
    <3>2. /\ crs[d].guard = r.guard /\ crs[d].time = r.time
          /\ crs[d].dirty = now
      BY <3>1
    <3>3. IsCircuit(crs[d])
      BY <3>1 DEF IsCircuit
    <3> QED
      BY <1>2, <2>3, <3>2, <3>3 DEF Kept
  <2> QED
    BY <2>2, <2>3
<1>4. DOMAIN crs = DOMAIN circuits /\ crs = [d \in DOMAIN crs |-> crs[d]]
  OBVIOUS
<1> HIDE DEF crs
<1> QED
  BY <1>1, <1>2, <1>3, <1>4, RememberKeeps

LEMMA UseNewKeeps ==
  ASSUME IInv, NEW m, NEW x, UseNew(m, x)
  PROVE  IInv'
<1> DEFINE new == CM!NewCircuit(drawn, m, x, request \in LongLived, now, {})
           crs == CM!Push(new)
<1>1. /\ CM!Serve(pushed, needs, crs) /\ phase = "serving"
      /\ CM!CanBuild(consensus, request, drawn, m, x)
      /\ open' = open /\ numbered' = numbered /\ drawn # None /\ drawn' = None
  BY DEF UseNew, CM!UseNew, Notify, GH!MarkAsConfirmed, guardVars
<1>2. drawn \in Relay
  BY <1>1, BuiltFromRelays
<1>3. Fresh(new, now, open')
  BY <1>1, <1>2 DEF Fresh, IsCircuit, CM!NewCircuit, IInv, Drawn
<1> HIDE DEF new
<1>4. /\ crs = [d \in DOMAIN crs |-> crs[d]]
      /\ \A d \in DOMAIN crs :
           \/ d \in DOMAIN circuits /\ crs[d] = circuits[d]
           \/ crs[d] = new
  BY DEF CM!Push
<1> HIDE DEF crs
<1>5. \A d \in DOMAIN crs :
        \/ d \in DOMAIN circuits /\ Kept(crs[d], circuits[d], now)
        \/ Fresh(crs[d], now, open')
  <2>1. \A d \in DOMAIN circuits : Kept(circuits[d], circuits[d], now)
    BY DEF IInv, Fit, Kept
  <2> QED
    BY <1>3, <1>4, <2>1
<1> QED
  BY <1>1, <1>4, <1>5, RememberKeeps

-----------------------------------------------------------------------------
LEMMA InitFits == Init => IInv
<1> SUFFICES ASSUME Init PROVE IInv
  OBVIOUS
<1>1. /\ now = 0 /\ triggered = FALSE /\ phase = "idle" /\ drawn = None
      /\ circuits = [c \in {} |-> c]
  BY DEF Init, CM!Init
<1> QED
  BY <1>1 DEF IInv, Drawn, Numbered, Init, CM!Init

(* A step that leaves the circuits and the guards' view of them alone.     *)
LEMMA QuietKeeps ==
  ASSUME IInv, circuits' = circuits, open' = open, numbered' = numbered, now' = now,
         drawn' = drawn, triggered' = triggered, consensus' = consensus, request' = request,
         \/ phase' = phase
         \/ phase \in {"covering", "serving"} /\ phase' = "failed"
         \/ phase = "covering"
  PROVE  IInv'
<1>1. ASSUME NEW c \in DOMAIN circuits'
      PROVE  \/ c \in DOMAIN circuits /\ Kept(circuits'[c], circuits[c], now)
             \/ Fresh(circuits'[c], now, open')
  BY DEF IInv, Fit, Kept
<1>2. (\A c \in DOMAIN circuits : Fit(circuits[c]))'
  BY <1>1, FitStaysFit
<1>3. (CM!SuitableDirty(request) \cup CM!SuitableClean(request))'
        = CM!SuitableDirty(request) \cup CM!SuitableClean(request)
  BY DEF CM!SuitableDirty, CM!SuitableClean, CM!SupportsStream, CM!IsClean
<1>4. Drawn'
  BY <1>3 DEF IInv, Drawn
<1>5. Numbered'
  BY DEF IInv, Numbered, Exits
<1> QED
  BY <1>2, <1>4, <1>5 DEF IInv

LEMMA DrawGuardKeeps ==
  ASSUME IInv, DrawGuard
  PROVE  IInv'
<1>1. /\ circuits' = circuits /\ numbered' = numbered /\ now' = now
      /\ triggered' = triggered /\ consensus' = consensus /\ request' = request
      /\ phase' = phase /\ phase = "serving"
      /\ open' = open \cup {[guard |-> drawn', built |-> now]}
      /\ CM!SuitableDirty(request) \cup CM!SuitableClean(request) = {}
  BY HandedIsOpen DEF DrawGuard, managerVars
<1>2. ASSUME NEW c \in DOMAIN circuits'
      PROVE  \/ c \in DOMAIN circuits /\ Kept(circuits'[c], circuits[c], now)
             \/ Fresh(circuits'[c], now, open')
  BY <1>1 DEF IInv, Fit, Kept
<1>3. (\A c \in DOMAIN circuits : Fit(circuits[c]))'
  BY <1>1, <1>2, FitStaysFit
<1>4. (CM!SuitableDirty(request) \cup CM!SuitableClean(request))'
        = CM!SuitableDirty(request) \cup CM!SuitableClean(request)
  BY <1>1 DEF CM!SuitableDirty, CM!SuitableClean, CM!SupportsStream, CM!IsClean
<1>5. Drawn' /\ Numbered'
  BY <1>1, <1>4 DEF IInv, Drawn, Numbered, Exits
<1> QED
  BY <1>1, <1>3, <1>5 DEF IInv

LEMMA NextFits == IInv /\ [Next]_vars => IInv'
<1> SUFFICES ASSUME IInv, [Next]_vars PROVE IInv'
  OBVIOUS
<1>1. ASSUME phase = "idle", NEW t \in now .. MaxTime, NEW cs \in Consensuses, NewEpoch(t, cs)
      PROVE  IInv'
  <2>1. /\ CM!TimedUpdates(t, cs) /\ open' = GH!StillOpen(t, GuardView(cs))
        /\ drawn' = drawn /\ consensus' = cs /\ numbered' = numbered \cup Exits(cs)
    BY <1>1 DEF NewEpoch, CM!NewEpoch, GH!TimedUpdates, AddConsensus
  <2> QED
    BY <1>1, <2>1, UpdateKeeps
<1>2. ASSUME phase = "idle", NEW t \in now .. MaxTime, NEW p \in Port, NextRequest(t, p)
      PROVE  IInv'
  <2>1. /\ CM!TimedUpdates(t, consensus) /\ open' = GH!StillOpen(t, GuardView(consensus))
        /\ triggered
        /\ drawn' = drawn /\ consensus' = consensus /\ numbered' = numbered
    BY <1>2 DEF NextRequest, CM!NextRequest, GH!TimedUpdates
  <2>2. consensus \in Consensuses /\ Exits(consensus) \subseteq numbered'
    BY <2>1 DEF IInv, Numbered
  <2> QED
    BY <1>2, <2>1, <2>2, UpdateKeeps
<1>3. ASSUME phase = "covering", Covering
      PROVE  IInv'
  <2>1. ASSUME NEW p, NEW g, NEW m, NEW x, CoverNeed(p, g, m, x)
        PROVE  IInv'
    BY <2>1, CoverNeedKeeps
  <2>2. CASE CoverDone
    BY <1>3, <2>2, QuietKeeps DEF CoverDone, CM!CoverDone, guardVars
  <2> QED
    BY <1>3, <2>1, <2>2 DEF Covering
<1>4. ASSUME phase = "serving", Serving
      PROVE  IInv'
  BY <1>4, DrawGuardKeeps, UseNewKeeps, UseDirtyKeeps, UseCleanKeeps DEF Serving
<1>5. CASE BuildFails
  BY <1>5, QuietKeeps DEF BuildFails, CM!BuildFails, GH!NoGuard, guardVars
<1>6. CASE UNCHANGED vars
  BY <1>6, QuietKeeps DEF vars, managerVars, guardVars
<1> QED
  BY <1>1, <1>2, <1>3, <1>4, <1>5, <1>6 DEF Next, Failed

-----------------------------------------------------------------------------
(* Every reachable state has the guard handling, the manager and the       *)
(* numbers of exits agree on the circuits.                                 *)
THEOREM Inductive == Spec => []IInv
<1>1. Init => IInv
  BY InitFits
<1>2. IInv /\ [Next]_vars => IInv'
  BY NextFits
<1> QED
  BY <1>1, <1>2, PTL DEF Spec

(* However its three rules for closing circuits and the requests           *)
(* interleave, the manager has no circuit that the guard handling has not  *)
(* handed a guard to, or is older than it takes circuits to become.        *)
THEOREM CircuitsAreKnown == Spec => []OpenCircuitsKnown
<1>1. IInv => OpenCircuitsKnown
  BY DEF IInv, Fit, Known, OpenCircuitsKnown
<1> QED
  BY <1>1, Inductive, PTL

-----------------------------------------------------------------------------
(* Each step of the client is one of the manager, or leaves it alone.      *)
LEMMA ManagerStep == IInv /\ [Next]_vars => [CM!Next]_CM!vars
<1> SUFFICES ASSUME IInv, [Next]_vars
             PROVE  CM!Next \/ UNCHANGED managerVars
  BY DEF CM!vars, managerVars
<1>1. ASSUME NEW t \in now .. MaxTime, NEW cs \in Consensuses, NewEpoch(t, cs)
      PROVE  CM!Next
  BY <1>1 DEF NewEpoch, CM!Next
<1>2. ASSUME NEW t \in now .. MaxTime, NEW p \in Port, NextRequest(t, p)
      PROVE  CM!Next
  BY <1>2 DEF NextRequest, CM!Next
<1>3. ASSUME NEW p, NEW g, NEW m, NEW x, CoverNeed(p, g, m, x)
      PROVE  CM!Next
  <2>1. CM!CoverNeed(p, g, m, x) /\ CM!CanBuild(consensus, p, g, m, x) /\ phase = "covering"
    BY <1>3 DEF CoverNeed, CM!CoverNeed
  <2>2. p \in Port /\ g \in Relay /\ m \in Relay /\ x \in Relay
    BY <2>1, BuiltFromRelays
  <2> QED
    BY <2>1, <2>2 DEF CM!Next, CM!Covering
<1>4. ASSUME NEW m, NEW x, UseNew(m, x)
      PROVE  CM!Next
  <2>1. CM!UseNew(drawn, m, x) /\ CM!CanBuild(consensus, request, drawn, m, x) /\ phase = "serving"
    BY <1>4 DEF UseNew, CM!UseNew
  <2>2. drawn \in Relay /\ m \in Relay /\ x \in Relay
    BY <2>1, BuiltFromRelays
  <2> QED
    BY <2>1, <2>2 DEF CM!Next, CM!Serving
<1>5. ASSUME NEW c \in DOMAIN circuits, UseDirty(c) \/ UseClean(c)
      PROVE  CM!Next
  BY <1>5 DEF UseDirty, UseClean, CM!Next, CM!Serving
<1>6. CoverDone \/ BuildFails => CM!Next
  BY DEF CoverDone, BuildFails, CM!Next, CM!Covering
<1>7. DrawGuard \/ Failed \/ UNCHANGED vars => UNCHANGED managerVars
  BY DEF DrawGuard, Failed, vars
<1> QED
  BY <1>1, <1>2, <1>3, <1>4, <1>5, <1>6, <1>7 DEF Next, Covering, Serving

(* The guard handling confirms the guard of a circuit when the observer    *)
(* has been told, and does nothing when that fails.                        *)
LEMMA NotifyStep ==
  ASSUME IInv', NEW nds, NEW crs, NEW c \in DOMAIN crs, CM!Serve(c, nds, crs), Notify(c)
  PROVE  GH!Next \/ UNCHANGED <<now, GuardView(consensus), guardVars>>
<1>1. DOMAIN circuits' = DOMAIN crs /\ now' = now /\ consensus' = consensus
  BY DEF CM!Serve, CM!Remember
<1>2. circuits'[c].guard \in Relay
  BY <1>1 DEF IInv, Fit
<1>3. CASE phase' = "failed"
  BY <1>1, <1>3 DEF Notify, GuardView
<1>4. CASE phase' # "failed"
  BY <1>2, <1>4 DEF Notify, GH!Next
<1> QED
  BY <1>3, <1>4

(* Each step of the client is one of the guard handling, or leaves it      *)
(* alone.                                                                  *)
LEMMA GuardStep == IInv /\ [Next]_vars => [GH!Next]_GH!vars
<1> SUFFICES ASSUME IInv, [Next]_vars
             PROVE  GH!Next \/ UNCHANGED <<now, GuardView(consensus), guardVars>>
  BY DEF GH!vars, guardVars
<1>0. IInv'
  BY NextFits
<1>1. ASSUME NEW t \in now .. MaxTime, NEW cs \in Consensuses, GH!TimedUpdates(t, GuardView(cs))
      PROVE  GH!Next
  BY <1>1 DEF GH!Next
<1>2. ASSUME NEW t \in now .. MaxTime, NEW cs \in Consensuses, NewEpoch(t, cs)
      PROVE  GH!Next
  BY <1>1, <1>2 DEF NewEpoch
<1>3. ASSUME NEW t \in now .. MaxTime, NEW p \in Port, NextRequest(t, p)
      PROVE  GH!Next
  BY <1>1, <1>3 DEF NextRequest, IInv, Numbered
<1>4. ASSUME NEW p, NEW g, NEW m, NEW x, CoverNeed(p, g, m, x)
      PROVE  GH!Next
  BY <1>4 DEF CoverNeed, GetGuard, GH!Next
<1>5. DrawGuard => GH!Next
  BY DEF DrawGuard, GetGuard, GH!Next
<1>6. ASSUME NEW m, NEW x, UseNew(m, x)
      PROVE  GH!Next \/ UNCHANGED <<now, GuardView(consensus), guardVars>>
  <2> DEFINE crs == CM!Push(CM!NewCircuit(drawn, m, x, request \in LongLived, now, {}))
  <2>1. CM!Serve(pushed, needs, crs) /\ pushed \in DOMAIN crs /\ Notify(pushed)
    BY <1>6 DEF UseNew, CM!UseNew, CM!Push
  <2> HIDE DEF crs
  <2> QED
    BY <2>1, <1>0, NotifyStep
<1>7. ASSUME NEW c \in DOMAIN circuits, UseDirty(c) \/ UseClean(c)
      PROVE  GH!Next \/ UNCHANGED <<now, GuardView(consensus), guardVars>>
  <2>1. Notify(c)
    BY <1>7 DEF UseDirty, UseClean
  <2>2. CASE UseDirty(c)
    <3>1. CM!Serve(c, needs, circuits)
      BY <2>2 DEF UseDirty, CM!UseDirty
    <3> QED
      BY <1>0, <2>1, <3>1, NotifyStep
  <2>3. CASE UseClean(c)
    <3> DEFINE crs == [circuits EXCEPT ![c].dirty = now, ![c].covers = {}]
    <3>1. CM!Serve(c, CM!DropHandles(needs, {c}), crs) /\ c \in DOMAIN crs
      BY <2>3 DEF UseClean, CM!UseClean
    <3> HIDE DEF crs
    <3> QED
      BY <1>0, <2>1, <3>1, NotifyStep
  <2> QED
    BY <1>7, <2>2, <2>3
<1>8. CoverDone => UNCHANGED <<now, GuardView(consensus), guardVars>>
  BY DEF CoverDone, CM!CoverDone, GuardView
<1>9. BuildFails => GH!Next \/ UNCHANGED <<now, GuardView(consensus), guardVars>>
  BY DEF BuildFails, CM!BuildFails, GuardView, GH!Next
<1>10. Failed \/ UNCHANGED vars => UNCHANGED <<now, GuardView(consensus), guardVars>>
  BY DEF Failed, vars, managerVars, GuardView
<1> QED
  BY <1>2, <1>3, <1>4, <1>5, <1>6, <1>7, <1>8, <1>9, <1>10 DEF Next, Covering, Serving

(* In one client, and whatever it is asked for, the circuit manager and    *)
(* the guard handling behave as their own specifications say.              *)
THEOREM PartsAreKept == Spec => PartsKept
<1>1. Init => CM!Init /\ GH!Init
  BY DEF Init
<1>2. IInv /\ [Next]_vars => [CM!Next]_CM!vars
  BY ManagerStep
<1>3. IInv /\ [Next]_vars => [GH!Next]_GH!vars
  BY GuardStep
<1> QED
  BY <1>1, <1>2, <1>3, Inductive, PTL DEF Spec, PartsKept, CM!Spec, GH!Spec

-----------------------------------------------------------------------------
(* What is proved of the parts, each on its own, holds in the client.      *)
(* First, the constants of the client are such as the parts assume.        *)
CMP == INSTANCE CircuitManager_proofs

GHP == INSTANCE GuardHandling_proofs WITH
         Guard           <- Relay,
         Consensuses     <- {GuardView(cs) : cs \in Consensuses},
         CircuitLifetime <- IdleTimeout + MaxDirtiness,
         consensus       <- GuardView(consensus),
         phase           <- round

LEMMA ConsensusesAssumed == Consensuses \subseteq CMP!Consensus
BY ConsensusAssumption DEF CM!Consensus, CMP!Consensus

LEMMA TimesAssumed ==
  /\ IdleTimeout \in Nat /\ MaxTime \in Nat
  /\ MaxDirtiness \in Nat \ {0} /\ NeedLifetime \in Nat \ {0}
BY TimeAssumption

LEMMA CoverAssumed == CoverNum \in Nat
BY TimeAssumption

LEMMA NoPortAssumed == None \notin Nat \cup Port
BY NoneAssumption

GuardViews == {GuardView(cs) : cs \in Consensuses}

LEMMA ViewsAssumed ==
  /\ GuardViews \subseteq GHP!Consensus
  /\ \A cs \in GuardViews : cs.guards \subseteq cs.running /\ GHP!IsFiniteSet(cs.guards)
<1>1. ASSUME NEW cs \in Consensuses
      PROVE  /\ GuardView(cs) \in GHP!Consensus
             /\ GuardView(cs).guards \subseteq GuardView(cs).running
             /\ GHP!IsFiniteSet(GuardView(cs).guards)
  <2>1. IsFiniteSet(cs.listed) /\ cs.listed \subseteq Relay
    BY ConsensusAssumption DEF CM!Consensus
  <2>2. IsFiniteSet(cs.listed \cap cs.running \cap cs.guards)
    BY <2>1, FS_Subset
  <2>3. GHP!IsFiniteSet(cs.listed \cap cs.running \cap cs.guards)
    BY <2>2 DEF IsFiniteSet, GHP!IsFiniteSet
  <2> QED
    BY <2>1, <2>3 DEF GuardView, GHP!Consensus
<1> QED
  BY <1>1 DEF GuardViews

LEMMA LifetimesAssumed ==
  /\ {GuardLifetime, RemoveUnlistedAfter, ConfirmedMinLifetime} \subseteq Nat
  /\ AddedJitter \in 1 .. GuardLifetime /\ UnlistedJitter \in 1 .. RemoveUnlistedAfter
  /\ IdleTimeout + MaxDirtiness \in Nat /\ MaxTime \in Nat
BY TimeAssumption, GuardAssumption

LEMMA SampleAssumed ==
  {MinFilteredSample, MaxSampleSize, SampleOneOf, NPrimaryGuards} \subseteq Nat \ {0}
BY GuardAssumption

LEMMA NoRelayAssumed == None \notin Int \cup Relay
BY NoneAssumption

(* The manager of CircuitManager_proofs is the one of Client.              *)
LEMMA SameCount == \A S : CM!Cardinality(S) = CMP!Cardinality(S)
BY DEF CM!Cardinality, CMP!Cardinality, CM!IsFiniteSet, CMP!IsFiniteSet

LEMMA SameDrop == \A nds, gone : CM!DropHandles(nds, gone) = CMP!DropHandles(nds, gone)
BY SameCount, Zenon
   DEF CM!DropHandles, CMP!DropHandles, CM!Holders, CMP!Holders, CM!HandleTo, CMP!HandleTo

LEMMA SameAdd == \A nds, p, t, s : CM!AddNeed(nds, p, t, s) = CMP!AddNeed(nds, p, t, s)
BY Zenon DEF CM!AddNeed, CMP!AddNeed, CM!HasExpired, CMP!HasExpired

LEMMA SameClosed == \A t, cs : CM!Closed(t, cs) = CMP!Closed(t, cs)
BY Zenon
   DEF CM!Closed, CMP!Closed, CM!OldDirty, CMP!OldDirty, CM!OldClean, CMP!OldClean, CM!Down,
       CMP!Down, CM!Alive, CMP!Alive, CM!IsClean, CMP!IsClean

LEMMA SameUpdates ==
  ASSUME NEW t, NEW cs
  PROVE  CM!TimedUpdates(t, cs) <=> CMP!TimedUpdates(t, cs)
BY SameDrop, SameAdd, SameClosed, Zenon
   DEF CM!TimedUpdates, CMP!TimedUpdates, CM!RemoveExpired, CMP!RemoveExpired, CM!HasExpired,
       CMP!HasExpired

LEMMA SameBuild ==
  ASSUME NEW cs, NEW p, NEW g, NEW m, NEW x
  PROVE  CM!CanBuild(cs, p, g, m, x) <=> CMP!CanBuild(cs, p, g, m, x)
BY DEF CM!CanBuild, CMP!CanBuild, CM!Alive, CMP!Alive

LEMMA SameSuitable ==
  /\ \A p : CM!SuitableDirty(p) = CMP!SuitableDirty(p)
  /\ \A p : CM!SuitableClean(p) = CMP!SuitableClean(p)
BY DEF CM!SuitableDirty, CMP!SuitableDirty, CM!SuitableClean, CMP!SuitableClean,
       CM!SupportsStream, CMP!SupportsStream, CM!IsClean, CMP!IsClean

LEMMA SameServe ==
  ASSUME NEW c, NEW nds, NEW crs
  PROVE  CM!Serve(c, nds, crs) <=> CMP!Serve(c, nds, crs)
<1>1. CM!Remember(nds, crs) <=> CMP!Remember(nds, crs)
  BY SameAdd, Zenon
     DEF CM!Remember, CMP!Remember, CM!CanCover, CMP!CanCover, CM!Holders, CMP!Holders,
       CM!HandleTo, CMP!HandleTo, CM!NeedsCover, CMP!NeedsCover, CM!IsFirst, CMP!IsFirst
<1> QED
  BY <1>1, Zenon DEF CM!Serve, CMP!Serve

LEMMA SameNext == CM!Next <=> CMP!Next
<1>1. ASSUME NEW t, NEW cs
      PROVE  CM!NewEpoch(t, cs) <=> CMP!NewEpoch(t, cs)
  BY SameUpdates, Zenon DEF CM!NewEpoch, CMP!NewEpoch
<1>2. ASSUME NEW t, NEW p
      PROVE  CM!NextRequest(t, p) <=> CMP!NextRequest(t, p)
  BY SameUpdates, Zenon DEF CM!NextRequest, CMP!NextRequest
<1>3. CM!Uncovered = CMP!Uncovered
  BY Zenon DEF CM!Uncovered, CMP!Uncovered, CM!NeedsCover, CMP!NeedsCover
<1>4. ASSUME NEW p, NEW g, NEW m, NEW x
      PROVE  CM!CoverNeed(p, g, m, x) <=> CMP!CoverNeed(p, g, m, x)
  BY <1>3, SameBuild, Zenon
     DEF CM!CoverNeed, CMP!CoverNeed, CM!Push, CMP!Push, CM!NewCircuit, CMP!NewCircuit,
       CM!HandleTo, CMP!HandleTo
<1>5. /\ CM!CoverDone <=> CMP!CoverDone
      /\ CM!BuildFails <=> CMP!BuildFails
  BY <1>3, SameSuitable, Zenon DEF CM!CoverDone, CMP!CoverDone, CM!BuildFails, CMP!BuildFails
<1>6. ASSUME NEW c
      PROVE  /\ CM!UseDirty(c) <=> CMP!UseDirty(c)
             /\ CM!UseClean(c) <=> CMP!UseClean(c)
  BY SameServe, SameSuitable, SameDrop, Zenon
     DEF CM!UseDirty, CMP!UseDirty, CM!UseClean, CMP!UseClean, CM!IsFirst, CMP!IsFirst
<1>7. ASSUME NEW g, NEW m, NEW x
      PROVE  CM!UseNew(g, m, x) <=> CMP!UseNew(g, m, x)
  BY SameServe, SameSuitable, SameBuild, Zenon
     DEF CM!UseNew, CMP!UseNew, CM!Push, CMP!Push, CM!NewCircuit, CMP!NewCircuit
<1> QED
  BY <1>1, <1>2, <1>4, <1>5, <1>6, <1>7, Zenon
     DEF CM!Next, CMP!Next, CM!Covering, CMP!Covering, CM!Serving, CMP!Serving

LEMMA ManagerRuns == Spec => CMP!Spec
<1>1. CM!Init => CMP!Init
  BY DEF CM!Init, CMP!Init
<1>2. [CM!Next]_(CM!vars) => [CMP!Next]_(CMP!vars)
  BY SameNext DEF CM!vars, CMP!vars
<1> QED
  BY <1>1, <1>2, PartsAreKept, PTL DEF PartsKept, CM!Spec, CMP!Spec

(* The guard handling of GuardHandling_proofs is the one of Client.        *)
LEMMA SameCardinality == \A S : GH!Cardinality(S) = GHP!Cardinality(S)
BY DEF GH!Cardinality, GHP!Cardinality, GH!IsFiniteSet, GHP!IsFiniteSet

LEMMA SameAscending == \A S : GH!Ascending(S) = GHP!Ascending(S)
BY SameCardinality, Zenon DEF GH!Ascending, GHP!Ascending

LEMMA SameOnly == \A vec, fps : GH!Only(vec, fps) = GHP!Only(vec, fps)
BY SameAscending, Zenon DEF GH!Only, GHP!Only

LEMMA SameOutside == \A vec, gone : GH!Outside(vec, gone) = GHP!Outside(vec, gone)
BY SameOnly, Zenon DEF GH!Outside, GHP!Outside, GH!Fingerprints, GHP!Fingerprints

LEMMA SameListed == \A vec : GH!Listed(vec) = GHP!Listed(vec)
BY DEF GH!Listed, GHP!Listed, GH!IsListed, GHP!IsListed

LEMMA SamePrimaryOf == \A smp, cfm : GH!PrimaryOf(smp, cfm) = GHP!PrimaryOf(smp, cfm)
BY SameOnly, SameListed, Zenon DEF GH!PrimaryOf, GHP!PrimaryOf

LEMMA SameMissing == GH!Missing = GHP!Missing
BY SameCardinality, SameListed, Zenon DEF GH!Missing, GHP!Missing, GH!MaxSampled, GHP!MaxSampled

LEMMA SameTimedUpdates ==
  ASSUME NEW t, NEW cs
  PROVE  GH!TimedUpdates(t, cs) <=> GHP!TimedUpdates(t, cs)
BY SameOutside, SamePrimaryOf, Zenon
   DEF GH!TimedUpdates, GHP!TimedUpdates, GH!Relist, GHP!Relist, GH!IsListed, GHP!IsListed,
       GH!OfflineTooLong, GHP!OfflineTooLong, GH!TooOld, GHP!TooOld, GH!NotLatelyConfirmed,
       GHP!NotLatelyConfirmed, GH!Fingerprints, GHP!Fingerprints, GH!StillOpen, GHP!StillOpen,
       GH!RandomPast, GHP!RandomPast

LEMMA SameGetSampled == GH!GetSampled <=> GHP!GetSampled
<1>1. GH!Samples = GHP!Samples
  BY SameMissing, Zenon
     DEF GH!Samples, GHP!Samples, GH!Candidates, GHP!Candidates, GH!Fingerprints,
       GHP!Fingerprints, GH!RandomPast, GHP!RandomPast
<1> QED
  BY <1>1, Zenon
     DEF GH!GetSampled, GHP!GetSampled, GH!HandOut, GHP!HandOut, GH!IsListed, GHP!IsListed,
         GH!Fingerprints, GHP!Fingerprints

LEMMA SameGuardNext == GH!Next <=> GHP!Next
<1>1. GH!GetPrimary <=> GHP!GetPrimary
  BY DEF GH!GetPrimary, GHP!GetPrimary, GH!HandOut, GHP!HandOut
<1>2. GH!NoGuard <=> GHP!NoGuard
  BY SameMissing, SameCardinality, SameListed, Zenon
     DEF GH!NoGuard, GHP!NoGuard, GH!Candidates, GHP!Candidates, GH!Fingerprints, GHP!Fingerprints
<1>3. ASSUME NEW g
      PROVE  GH!MarkAsConfirmed(g) <=> GHP!MarkAsConfirmed(g)
  BY SamePrimaryOf, Zenon
     DEF GH!MarkAsConfirmed, GHP!MarkAsConfirmed, GH!Fingerprints, GHP!Fingerprints,
       GH!RandomPast, GHP!RandomPast
<1> QED
  BY <1>1, <1>2, <1>3, SameTimedUpdates, SameGetSampled, Zenon DEF GH!Next, GHP!Next

LEMMA GuardsRun == Spec => GHP!Spec
<1>1. GH!Init => GHP!Init
  BY DEF GH!Init, GHP!Init, GH!Fingerprints, GHP!Fingerprints
<1>2. [GH!Next]_(GH!vars) => [GHP!Next]_(GHP!vars)
  BY SameGuardNext DEF GH!vars, GHP!vars
<1> QED
  BY <1>1, <1>2, PartsAreKept, PTL DEF PartsKept, GH!Spec, GHP!Spec

-----------------------------------------------------------------------------
(* The theorems about the parts, in the client.                               *)
LEMMA ManagerPromises ==
  CMP!Spec => /\ []CMP!TypeOK
              /\ []CMP!CoverCountExact
              /\ []CMP!LookupsSucceed
              /\ []CMP!CoveredWhenServing
              /\ CMP!DirtySinceFirstUse
              /\ CMP!NeedsLiveTheirLifetime
              /\ CMP!ServedByFitCircuit
<1> USE PortAssumption, ConsensusesAssumed, TimesAssumed, CoverAssumed, NoPortAssumed
<1>1. CMP!Spec => []CMP!TypeOK
  BY CMP!TypeCorrect, Zenon
<1>2. CMP!Spec => []CMP!CoverCountExact
  BY CMP!CountersExact, Zenon
<1>3. CMP!Spec => []CMP!LookupsSucceed
  BY CMP!LookupsFound, Zenon
<1>4. CMP!Spec => []CMP!CoveredWhenServing
  BY CMP!CoverReady, Zenon
<1>5. CMP!Spec => CMP!DirtySinceFirstUse
  BY CMP!DirtyStays, Zenon
<1>6. CMP!Spec => CMP!NeedsLiveTheirLifetime
  BY CMP!LifetimesKept, Zenon
<1>7. CMP!Spec => CMP!ServedByFitCircuit
  BY CMP!ServedFit, Zenon
<1> QED
  BY <1>1, <1>2, <1>3, <1>4, <1>5, <1>6, <1>7, Zenon

LEMMA GuardPromises ==
  GHP!Spec => /\ []GHP!IInv
              /\ []GHP!GuardsRetire
              /\ GHP!GuardRuns
              /\ GHP!GuardsKept
              /\ GHP!GuardSticks
<1> USE ViewsAssumed, LifetimesAssumed, SampleAssumed, NoRelayAssumed DEF GuardViews
<1>1. GHP!Spec => []GHP!IInv
  BY GHP!Inductive, Zenon
<1>2. GHP!Spec => []GHP!GuardsRetire
  BY GHP!AllRetire, Zenon
<1>3. GHP!Spec => GHP!GuardRuns
  BY GHP!HandedOutRuns, Zenon
<1>4. GHP!Spec => GHP!GuardsKept
  BY GHP!RunningStay, Zenon
<1>5. GHP!Spec => GHP!GuardSticks
  BY GHP!ChangedForCause, Zenon
<1> QED
  BY <1>1, <1>2, <1>3, <1>4, <1>5, Zenon

(* The theorems about CircuitManager hold of the manager of a client,      *)
(* whose guards are handed out by the guard handling: the counters are     *)
(* exact, no look-up of a relay fails, requests find their needs covered,  *)
(* needs live their lifetime, and requests are served by fit circuits.     *)
THEOREM ManagerKeepsPromises ==
  Spec => /\ []CM!CoverCountExact
          /\ []CM!LookupsSucceed
          /\ []CM!CoveredWhenServing
          /\ CM!NeedsLiveTheirLifetime
          /\ CM!ServedByFitCircuit
<1>1. CMP!CoverCountExact => CM!CoverCountExact
  BY SameCount, Zenon
     DEF CM!CoverCountExact, CMP!CoverCountExact, CM!Holders, CMP!Holders, CM!HandleTo, CMP!HandleTo
<1>2. CMP!LookupsSucceed => CM!LookupsSucceed
  BY Zenon DEF CM!LookupsSucceed, CMP!LookupsSucceed
<1>3. CMP!CoveredWhenServing => CM!CoveredWhenServing
  BY SameCount, Zenon
     DEF CM!CoveredWhenServing, CMP!CoveredWhenServing, CM!Holders, CMP!Holders, CM!HandleTo,
         CMP!HandleTo, CM!IsClean, CMP!IsClean, CM!Alive, CMP!Alive
<1>4. CMP!NeedsLiveTheirLifetime => CM!NeedsLiveTheirLifetime
  BY DEF CM!NeedsLiveTheirLifetime, CMP!NeedsLiveTheirLifetime, CM!vars, CMP!vars
<1>5. CMP!ServedByFitCircuit => CM!ServedByFitCircuit
  BY DEF CM!ServedByFitCircuit, CMP!ServedByFitCircuit, CM!Alive, CMP!Alive, CM!vars, CMP!vars
<1> QED
  BY <1>1, <1>2, <1>3, <1>4, <1>5, ManagerRuns, ManagerPromises, PTL

(* A circuit that carried a stream stays dirty since its first one.        *)
THEOREM DirtyStays == Spec => DirtySinceFirstUse
<1>1. CMP!DirtySinceFirstUse => DirtySinceFirstUse
  BY DEF DirtySinceFirstUse, CM!DirtySinceFirstUse, CMP!DirtySinceFirstUse, CM!vars, CMP!vars
<1> QED
  BY <1>1, ManagerRuns, ManagerPromises, PTL

(* The theorems about GuardHandling hold of the guard handling of a client *)
(* that is asked for guards, and told of requests, by the circuit manager: *)
(* no guard is in a list twice, the primary guards are not stale, a client *)
(* runs out of guards under a consensus of too few only, and guards are    *)
(* handed out, kept, changed and retired as they should.                   *)
THEOREM GuardsKeepPromises ==
  Spec => /\ [](GH!NoDuplicates /\ GH!PrimaryUsable /\ GH!AlwaysAGuard)
          /\ []GH!GuardsRetire
          /\ GH!GuardRuns
          /\ GH!GuardsKept
          /\ GH!GuardSticks
<1>1. GHP!IInv => GH!NoDuplicates
  BY Zenon DEF GHP!IInv, GH!NoDuplicates, GHP!NoDuplicates, GH!Distinct, GHP!Distinct
<1>2. GHP!IInv => GH!PrimaryUsable
  BY SameListed, Zenon
     DEF GHP!IInv, GH!PrimaryUsable, GHP!PrimaryUsable, GH!Fingerprints, GHP!Fingerprints
<1>3. GHP!IInv => GH!AlwaysAGuard
  BY SameCardinality, Zenon DEF GHP!IInv, GH!AlwaysAGuard, GHP!AlwaysAGuard
<1>4. GHP!GuardsRetire => GH!GuardsRetire
  BY Zenon DEF GH!GuardsRetire, GHP!GuardsRetire, GH!Fingerprints, GHP!Fingerprints
<1>5. GHP!GuardRuns => GH!GuardRuns
  BY DEF GH!GuardRuns, GHP!GuardRuns, GH!vars, GHP!vars
<1>6. GHP!GuardsKept => GH!GuardsKept
  BY DEF GH!GuardsKept, GHP!GuardsKept, GH!Fingerprints, GHP!Fingerprints, GH!vars, GHP!vars
<1>7. GHP!GuardSticks => GH!GuardSticks
  BY SameListed
     DEF GH!GuardSticks, GHP!GuardSticks, GH!Fingerprints, GHP!Fingerprints, GH!Before,
         GHP!Before, GH!Position, GHP!Position, GH!Listed, GHP!Listed, GH!IsListed, GHP!IsListed, GH!vars, GHP!vars
<1> QED
  BY <1>1, <1>2, <1>3, <1>4, <1>5, <1>6, <1>7, GuardsRun, GuardPromises, PTL

(* The manager and the guard handling keep their types, whatever they pass *)
(* to each other.                                                          *)
THEOREM TypeCorrect == Spec => []TypeOK
<1>1. CMP!TypeOK => CM!TypeOK
  BY Zenon
     DEF CM!TypeOK, CMP!TypeOK, CM!Consensus, CMP!Consensus, CM!Need, CMP!Need,
         CM!ShallowCircuit, CMP!ShallowCircuit, CM!NeedHandle, CMP!NeedHandle
<1>2. GHP!IInv => GH!TypeOK
  BY Zenon
     DEF GHP!IInv, GH!TypeOK, GHP!TypeOK, GH!SampledGuard, GHP!SampledGuard,
         GH!ConfirmedGuard, GHP!ConfirmedGuard, GH!Fingerprints, GHP!Fingerprints
<1> DEFINE Rest == drawn \in Relay \cup {None} /\ numbered \subseteq Relay
<1>3. Init => Rest
  BY DEF Init
<1>4. Rest /\ GH!TypeOK' /\ [Next]_vars => Rest'
  <2> SUFFICES ASSUME Rest, GH!TypeOK', [Next]_vars
               PROVE  Rest'
    OBVIOUS
  <2>1. handed' \in Relay \cup {None}
    BY DEF GH!TypeOK
  <2>2. ASSUME NEW t, NEW cs \in Consensuses, NewEpoch(t, cs)
        PROVE  Rest'
    <3>1. Exits(cs) \subseteq Relay
      BY ConsensusAssumption DEF Exits, CM!Consensus
    <3> QED
      BY <2>2, <3>1 DEF NewEpoch, AddConsensus
  <2>3. CASE DrawGuard
    BY <2>1, <2>3 DEF DrawGuard
  <2>4. ASSUME NEW c, UseDirty(c) \/ UseClean(c)
        PROVE  Rest'
    BY <2>4 DEF UseDirty, UseClean
  <2>5. ASSUME NEW mid, NEW x, UseNew(mid, x)
        PROVE  Rest'
    BY <2>5 DEF UseNew
  <2>6. ASSUME NEW t, NEW p, NextRequest(t, p)
        PROVE  Rest'
    BY <2>6 DEF NextRequest
  <2>7. ASSUME NEW p, NEW g, NEW mid, NEW x, CoverNeed(p, g, mid, x)
        PROVE  Rest'
    BY <2>7 DEF CoverNeed
  <2>8. CASE CoverDone \/ BuildFails \/ Failed \/ UNCHANGED vars
    BY <2>8 DEF CoverDone, BuildFails, Failed, vars
  <2> HIDE DEF Rest
  <2> QED
    BY <2>2, <2>3, <2>4, <2>5, <2>6, <2>7, <2>8 DEF Next, Covering, Serving
<1> DEFINE Open == unflagged \subseteq DOMAIN circuits
<1>5. CM!TypeOK /\ GH!TypeOK /\ Rest /\ Open => TypeOK
  BY DEF TypeOK
<1>6. Init => Open
  BY DEF Init
<1>7. Open /\ [Next]_vars => Open'
  <2>1. TrackFlags => Open'
    BY DEF TrackFlags
  <2>2. Open /\ (Failed \/ UNCHANGED vars) => Open'
    BY DEF Failed, vars, managerVars
  <2> QED
    BY <2>1, <2>2 DEF Next
<1> HIDE DEF Rest, Open
<1> QED
  BY <1>1, <1>2, <1>3, <1>4, <1>5, <1>6, <1>7, ManagerRuns, ManagerPromises, GuardsRun, GuardPromises, PTL
     DEF Spec

-----------------------------------------------------------------------------
(* A circuit keeps its relays.                                             *)
SamePath(new, old) == new.guard = old.guard /\ new.exit = old.exit

LEMMA ServeKeepsPaths ==
  ASSUME NEW c0, NEW nds, NEW crs, CM!Serve(c0, nds, crs),
         \A c \in DOMAIN crs : IsCircuit(crs[c])
  PROVE  /\ consensus' = consensus
         /\ DOMAIN circuits' = DOMAIN crs
         /\ \A c \in DOMAIN crs : SamePath(circuits'[c], crs[c])
<1>1. /\ consensus' = consensus
      /\ \/ circuits' = crs
         \/ \E d \in DOMAIN crs : \E cov : circuits' = [crs EXCEPT ![d].covers = cov]
  BY DEF CM!Serve, CM!Remember
<1>2. CASE circuits' = crs
  BY <1>1, <1>2 DEF SamePath
<1>3. ASSUME NEW d \in DOMAIN crs, NEW cov, circuits' = [crs EXCEPT ![d].covers = cov]
      PROVE  /\ DOMAIN circuits' = DOMAIN crs
             /\ \A c \in DOMAIN crs : SamePath(circuits'[c], crs[c])
  <2>0. DOMAIN circuits' = DOMAIN crs
    BY <1>3
  <2> SUFFICES ASSUME NEW c \in DOMAIN crs
               PROVE  SamePath(circuits'[c], crs[c])
    BY <2>0
  <2> DEFINE r == crs[c]
  <2>1. IsCircuit(r) /\ (circuits'[c] = r \/ circuits'[c] = [r EXCEPT !.covers = cov])
    BY <1>3
  <2> HIDE DEF r
  <2>2. [r EXCEPT !.covers = cov].guard = r.guard /\ [r EXCEPT !.covers = cov].exit = r.exit
    BY <2>1 DEF IsCircuit
  <2> QED
    BY <2>1, <2>2 DEF r, SamePath
<1> QED
  BY <1>1, <1>2, <1>3

LEMMA DirtyKeepsPaths ==
  ASSUME NEW c, NEW t, NEW d \in DOMAIN circuits, IsCircuit(circuits[d]),
         NEW crs, crs = [circuits EXCEPT ![c].dirty = t, ![c].covers = {}]
  PROVE  /\ IsCircuit(crs[d])
         /\ crs[d].guard = circuits[d].guard
         /\ crs[d].exit = circuits[d].exit
<1>1. CASE d # c
  <2>1. crs[d] = circuits[d]
    BY <1>1
  <2> QED
    BY <2>1
<1>2. CASE d = c
  <2> DEFINE old == circuits[d]
  <2>1. crs[d] = [guard |-> old.guard, middle |-> old.middle, exit |-> old.exit,
                  time |-> old.time, dirty |-> t, stable |-> old.stable, covers |-> {}]
    BY <1>2 DEF IsCircuit
  <2>2. crs[d].guard = circuits[d].guard /\ crs[d].exit = circuits[d].exit
    BY <2>1
  <2>3. IsCircuit(crs[d])
    BY <2>1 DEF IsCircuit
  <2> QED
    BY <2>2, <2>3
<1> QED
  BY <1>1, <1>2

(* No step changes the exit of an open circuit, and only the two phases in *)
(* which the exits of the consensus are numbered add circuits.             *)
ExitsKept ==
  /\ \A c \in DOMAIN circuits \cap DOMAIN circuits' : circuits'[c].exit = circuits[c].exit
  /\ \/ DOMAIN circuits' \subseteq DOMAIN circuits
     \/ phase \in {"covering", "serving"} /\ consensus' = consensus

LEMMA ServeKeepsExits ==
  ASSUME NEW c0, NEW nds, NEW crs, CM!Serve(c0, nds, crs), phase = "serving",
         \A c \in DOMAIN crs : IsCircuit(crs[c]),
         \A c \in DOMAIN circuits : c \in DOMAIN crs /\ crs[c].exit = circuits[c].exit
  PROVE  ExitsKept
BY ServeKeepsPaths DEF SamePath, ExitsKept

LEMMA ExitsStay == IInv /\ CM!TypeOK /\ [Next]_vars => ExitsKept
<1> SUFFICES ASSUME IInv, CM!TypeOK, [CM!Next]_(CM!vars)
             PROVE  ExitsKept
  BY ManagerStep
<1>0. /\ \A c \in DOMAIN circuits : IsCircuit(circuits[c])
      /\ pushed \notin DOMAIN circuits
  <2>1. pushed \in Nat \ {0} /\ DOMAIN circuits \subseteq 1 .. pushed - 1
    BY DEF CM!TypeOK
  <2>2. pushed \notin DOMAIN circuits
    BY <2>1
  <2> QED
    BY <2>2 DEF IInv, Fit
<1>1. ASSUME NEW t, NEW cs, CM!TimedUpdates(t, cs)
      PROVE  ExitsKept
  BY <1>1 DEF CM!TimedUpdates, ExitsKept
<1>2. ASSUME NEW p, NEW g, NEW m, NEW x, CM!CoverNeed(p, g, m, x)
      PROVE  ExitsKept
  <2> DEFINE new == CM!NewCircuit(g, m, x, needs[p].stable, None, {CM!HandleTo(needs, p)})
  <2>1. circuits' = CM!Push(new) /\ consensus' = consensus /\ phase = "covering"
    BY <1>2 DEF CM!CoverNeed
  <2> HIDE DEF new
  <2> QED
    BY <1>0, <2>1 DEF CM!Push, ExitsKept
<1>3. ASSUME NEW c, CM!UseDirty(c)
      PROVE  ExitsKept
  BY <1>0, <1>3, ServeKeepsExits DEF CM!UseDirty
<1>4. ASSUME NEW c, CM!UseClean(c)
      PROVE  ExitsKept
  <2> DEFINE crs == [circuits EXCEPT ![c].dirty = now, ![c].covers = {}]
  <2>1. crs = [circuits EXCEPT ![c].dirty = now, ![c].covers = {}]
    OBVIOUS
  <2>2. DOMAIN crs = DOMAIN circuits
    OBVIOUS
  <2>3. CM!Serve(c, CM!DropHandles(needs, {c}), crs) /\ phase = "serving"
    BY <1>4 DEF CM!UseClean
  <2> HIDE DEF crs
  <2>4. ASSUME NEW d \in DOMAIN circuits
        PROVE  IsCircuit(crs[d]) /\ crs[d].exit = circuits[d].exit
    BY <1>0, <2>1, DirtyKeepsPaths
  <2> QED
    BY <2>2, <2>3, <2>4, ServeKeepsExits
<1>5. ASSUME NEW g, NEW m, NEW x, CM!UseNew(g, m, x)
      PROVE  ExitsKept
  <2> DEFINE new == CM!NewCircuit(g, m, x, request \in LongLived, now, {})
             crs == CM!Push(new)
  <2>1. CM!Serve(pushed, needs, crs) /\ phase = "serving"
    BY <1>5 DEF CM!UseNew
  <2>2. IsCircuit(new)
    BY DEF IsCircuit, CM!NewCircuit
  <2> HIDE DEF new
  <2>3. \A c \in DOMAIN crs : IsCircuit(crs[c])
    BY <1>0, <2>2 DEF CM!Push
  <2>4. \A c \in DOMAIN circuits : c \in DOMAIN crs /\ crs[c].exit = circuits[c].exit
    BY <1>0 DEF CM!Push
  <2> HIDE DEF crs
  <2> QED
    BY <2>1, <2>3, <2>4, ServeKeepsExits
<1>6. CASE CM!CoverDone \/ CM!BuildFails \/ UNCHANGED CM!vars
  BY <1>6 DEF CM!CoverDone, CM!BuildFails, CM!vars, ExitsKept
<1> QED
  BY <1>1, <1>2, <1>3, <1>4, <1>5, <1>6
     DEF CM!Next, CM!Covering, CM!Serving, CM!NewEpoch, CM!NextRequest

LEMMA NumbersStay == [Next]_vars => numbered \subseteq numbered'
BY DEF Next, Covering, Serving, NewEpoch, AddConsensus, NextRequest, CoverNeed, CoverDone,
       DrawGuard, UseNew, UseDirty, UseClean, BuildFails, Failed, vars

(* An exit that had the Exit flag when a circuit was built through it has  *)
(* a number for as long as the circuit is open, whether or not it keeps    *)
(* the flag: the expect of observer.rs:285 cannot fail for it.             *)
THEOREM ExitsHaveNumbers == Spec => []ExitsNumbered
<1>1. Init => ExitsNumbered
  BY DEF Init, CM!Init, ExitsNumbered
<1>2. IInv /\ CM!TypeOK /\ ExitsNumbered /\ [Next]_vars => ExitsNumbered'
  <2> SUFFICES ASSUME IInv, CM!TypeOK, ExitsNumbered, [Next]_vars,
                      NEW c \in DOMAIN circuits' \ unflagged'
               PROVE  circuits'[c].exit \in numbered'
    BY DEF ExitsNumbered
  <2>1. ExitsKept /\ numbered \subseteq numbered'
    BY ExitsStay, NumbersStay
  <2>2. TrackFlags \/ UNCHANGED <<circuits, unflagged>>
    BY DEF Next, Failed, vars, managerVars
  <2>3. CASE c \in DOMAIN circuits
    <3>1. c \notin unflagged
      BY <2>2, <2>3 DEF TrackFlags
    <3> QED
      BY <2>1, <2>3, <3>1 DEF ExitsKept, ExitsNumbered
  <2>4. CASE c \notin DOMAIN circuits
    <3>1. phase \in {"covering", "serving"}
      BY <2>1, <2>4 DEF ExitsKept
    <3>2. circuits'[c].exit \in Exits(consensus)
      BY <2>2, <2>4 DEF TrackFlags
    <3> QED
      BY <2>1, <3>1, <3>2 DEF IInv, Numbered
  <2> QED
    BY <2>3, <2>4
<1>3. TypeOK => CM!TypeOK
  BY DEF TypeOK
<1> QED
  BY <1>1, <1>2, <1>3, Inductive, TypeCorrect, PTL DEF Spec

-----------------------------------------------------------------------------
(* The guard of every circuit runs.                                        *)
Through(crs, cs) == \A c \in DOMAIN crs : crs[c].guard \in GuardView(cs).running

LEMMA BuiltThroughRunning ==
  ASSUME NEW p, NEW g, NEW m, NEW x, CM!CanBuild(consensus, p, g, m, x)
  PROVE  g \in GuardView(consensus).running
BY DEF CM!CanBuild, GuardView

LEMMA PushKeepsThrough ==
  ASSUME Through(circuits, consensus), NEW new, new.guard \in GuardView(consensus).running
  PROVE  Through(CM!Push(new), consensus)
BY DEF Through, CM!Push

LEMMA UpdateKeepsThrough ==
  ASSUME NEW t, NEW cs, CM!TimedUpdates(t, cs)
  PROVE  Through(circuits', cs)
<1> SUFFICES ASSUME NEW c \in DOMAIN circuits'
             PROVE  circuits'[c].guard \in GuardView(cs).running
  BY DEF Through
<1>1. c \in DOMAIN circuits /\ c \notin CM!Down(cs) /\ circuits'[c] = circuits[c]
  BY DEF CM!TimedUpdates, CM!Closed
<1> QED
  BY <1>1 DEF CM!Down, CM!Alive, GuardView

LEMMA ServeKeepsThrough ==
  ASSUME NEW c0, NEW nds, NEW crs, CM!Serve(c0, nds, crs), Through(crs, consensus),
         \A c \in DOMAIN crs : IsCircuit(crs[c])
  PROVE  Through(circuits, consensus)'
BY ServeKeepsPaths DEF Through, SamePath

LEMMA ThroughStep ==
  IInv /\ Through(circuits, consensus) /\ [Next]_vars => Through(circuits, consensus)'
<1> SUFFICES ASSUME IInv, Through(circuits, consensus), [CM!Next]_(CM!vars)
             PROVE  Through(circuits, consensus)'
  BY ManagerStep
<1>0. \A c \in DOMAIN circuits : IsCircuit(circuits[c])
  BY DEF IInv, Fit
<1>1. ASSUME NEW t, NEW cs, CM!NewEpoch(t, cs)
      PROVE  Through(circuits, consensus)'
  BY <1>1, UpdateKeepsThrough DEF CM!NewEpoch, Through
<1>2. ASSUME NEW t, NEW p, CM!NextRequest(t, p)
      PROVE  Through(circuits, consensus)'
  BY <1>2, UpdateKeepsThrough DEF CM!NextRequest, Through
<1>3. ASSUME NEW p, NEW g, NEW m, NEW x, CM!CoverNeed(p, g, m, x)
      PROVE  Through(circuits, consensus)'
  <2> DEFINE new == CM!NewCircuit(g, m, x, needs[p].stable, None, {CM!HandleTo(needs, p)})
  <2>1. /\ circuits' = CM!Push(new) /\ consensus' = consensus
        /\ new.guard \in GuardView(consensus).running
    BY <1>3, BuiltThroughRunning DEF CM!CoverNeed, CM!NewCircuit
  <2> HIDE DEF new
  <2> QED
    BY <2>1, PushKeepsThrough DEF Through
<1>4. ASSUME NEW c, CM!UseDirty(c)
      PROVE  Through(circuits, consensus)'
  BY <1>0, <1>4, ServeKeepsThrough DEF CM!UseDirty
<1>5. ASSUME NEW c, CM!UseClean(c)
      PROVE  Through(circuits, consensus)'
  <2> DEFINE crs == [circuits EXCEPT ![c].dirty = now, ![c].covers = {}]
  <2>1. crs = [circuits EXCEPT ![c].dirty = now, ![c].covers = {}]
    OBVIOUS
  <2>2. DOMAIN crs = DOMAIN circuits
    OBVIOUS
  <2>3. CM!Serve(c, CM!DropHandles(needs, {c}), crs)
    BY <1>5 DEF CM!UseClean
  <2> HIDE DEF crs
  <2>4. ASSUME NEW d \in DOMAIN circuits
        PROVE  IsCircuit(crs[d]) /\ crs[d].guard = circuits[d].guard
    BY <1>0, <2>1, DirtyKeepsPaths
  <2>5. Through(crs, consensus)
    BY <2>2, <2>4 DEF Through
  <2> QED
    BY <2>2, <2>3, <2>4, <2>5, ServeKeepsThrough
<1>6. ASSUME NEW g, NEW m, NEW x, CM!UseNew(g, m, x)
      PROVE  Through(circuits, consensus)'
  <2> DEFINE new == CM!NewCircuit(g, m, x, request \in LongLived, now, {})
             crs == CM!Push(new)
  <2>1. /\ CM!Serve(pushed, needs, crs)
        /\ new.guard \in GuardView(consensus).running
    BY <1>6, BuiltThroughRunning DEF CM!UseNew, CM!NewCircuit
  <2>2. IsCircuit(new)
    BY DEF IsCircuit, CM!NewCircuit
  <2> HIDE DEF new
  <2>3. Through(crs, consensus)
    BY <2>1, PushKeepsThrough
  <2>4. \A c \in DOMAIN crs : IsCircuit(crs[c])
    BY <1>0, <2>2 DEF CM!Push
  <2> HIDE DEF crs
  <2> QED
    BY <2>1, <2>3, <2>4, ServeKeepsThrough
<1>7. CASE CM!CoverDone \/ CM!BuildFails \/ UNCHANGED CM!vars
  BY <1>7 DEF CM!CoverDone, CM!BuildFails, CM!vars, Through
<1> QED
  BY <1>1, <1>2, <1>3, <1>4, <1>5, <1>6, <1>7 DEF CM!Next, CM!Covering, CM!Serving

LEMMA AlwaysThrough == Spec => []Through(circuits, consensus)
<1>1. Init => Through(circuits, consensus)
  BY DEF Init, CM!Init, Through
<1>2. IInv /\ Through(circuits, consensus) /\ [Next]_vars => Through(circuits, consensus)'
  BY ThroughStep
<1> QED
  BY <1>1, <1>2, Inductive, PTL DEF Spec

(* The manager looks at the relays of its circuits, the guard handling at  *)
(* those in its sample: after every update they agree, and a guard that is *)
(* marked as missing carries no circuit.                                   *)
THEOREM MissingCarryNothing == Spec => []NoCircuitThroughUnlisted
<1>1. GHP!IInv /\ Through(circuits, consensus) => NoCircuitThroughUnlisted
  BY DEF GHP!IInv, GHP!Guards, GHP!Listings, GHP!IsListed, GH!IsListed, Through,
         NoCircuitThroughUnlisted
<1> QED
  BY <1>1, AlwaysThrough, GuardsRun, GuardPromises, PTL
=============================================================================
