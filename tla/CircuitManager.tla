--------------------------- MODULE CircuitManager ---------------------------
(***************************************************************************)
(* The circuit manager of one simulated Tor client (src/src/client.rs) and *)
(* the port needs it owns (src/src/needs.rs).                              *)
(*                                                                         *)
(* A need says "requests to this port are likely"; every need should be    *)
(* covered by CoverNum spare (clean) circuits.  A circuit that covers a    *)
(* need holds a NeedHandle: a weak pointer to the need, whose creation and *)
(* destruction increment and decrement the need's counter `covered`.       *)
(*                                                                         *)
(* The client calls the manager in one of two ways, both while it is       *)
(* "idle": timed_client_updates at the start of an epoch, when the         *)
(* consensus has changed (NewEpoch), and timed_client_updates followed by  *)
(* handle_request, both at the request's time (NextRequest).  The loop     *)
(* that covers uncovered needs is taken one iteration at a time, in the    *)
(* phase "covering"; handle_request runs in the phase "serving".           *)
(*                                                                         *)
(* Left out, because they cannot vary in this code: a circuit's            *)
(* is_internal flag (always false) and the fast flag of needs and circuits *)
(* (both callers of add_need pass true).                                   *)
(*                                                                         *)
(* A definition whose name ends in Bug is a seeded fault: nothing uses it, *)
(* and a property must fail when it takes the place of the definition      *)
(* that follows it.                                                        *)
(***************************************************************************)
EXTENDS Integers, FiniteSets

CONSTANTS
  Relay,         \* relay fingerprints
  Port,          \* the ports requests go to, and InitialPort
  InitialPort,   \* the port every new client has a need for (80)
  LongLived,     \* LONG_LIVED_PORTS
  Consensuses,   \* the consensus documents an epoch may bring
  MaxDirtiness,  \* MAX_CIRCUIT_DIRTINESS
  IdleTimeout,   \* CIRCUIT_IDLE_TIMEOUT
  NeedLifetime,  \* PORT_NEED_LIFETIME
  CoverNum,      \* PORT_NEED_COVER_NUM
  MaxTime,       \* bound on the simulated time, for model checking
  None           \* Rust's None

(* What the manager reads of a consensus: lookup_relay finds the listed    *)
(* relays; running and valid are the relays that have these flags; guards  *)
(* and middles those that can be chosen for these positions; policy gives  *)
(* the ports a relay's exit policy allows.  The Exit flag, which exits     *)
(* have, is not read here, but by the observer (see Client).               *)
Consensus == [listed : SUBSET Relay, running : SUBSET Relay, valid : SUBSET Relay,
              guards : SUBSET Relay, middles : SUBSET Relay, exits : SUBSET Relay,
              policy : [Relay -> SUBSET Port]]

ASSUME PortAssumption == InitialPort \in Port /\ LongLived \subseteq Port \ {InitialPort}
ASSUME ConsensusAssumption == Consensuses \subseteq Consensus
ASSUME TimeAssumption ==
  /\ IdleTimeout \in Nat /\ MaxTime \in Nat
  /\ MaxDirtiness \in Nat \ {0} /\ NeedLifetime \in Nat \ {0}
ASSUME CoverAssumption == CoverNum \in Nat
ASSUME NoneAssumption == None \notin Nat \cup Port

VARIABLES
  now,        \* the time of the last timed update (last_triggered)
  triggered,  \* whether there has been one
  consensus,  \* the consensus the circuit generator was made from
  needs,      \* NeedsContainer.needs, the map from ports to needs
  circuits,   \* CircuitManager.circuits: the Vec, by order of insertion
  pushed,     \* circuits pushed so far; the next one goes to this index
  request,    \* the port of the request being handled, or None
  phase,      \* what the client is executing
  used        \* the circuit the last request went to (notify_circuit_used)

vars == <<now, triggered, consensus, needs, circuits, pushed, request, phase, used>>

-----------------------------------------------------------------------------
(* A need is identified by its port and the time it was added: the map has *)
(* one need per port, and one that is added again after it has expired is  *)
(* a new allocation, to which the old handles do not point.                *)
Need == [born : Nat, expires : Nat, stable : BOOLEAN, covered : Nat]

NeedHandle == [port : Port, born : Nat]

ShallowCircuit ==
  [guard : Relay, middle : Relay, exit : Relay, time : Nat,
   dirty : Nat \cup {None}, stable : BOOLEAN, covers : SUBSET NeedHandle]

IsClean(c) == circuits[c].dirty = None

(* Weak::upgrade succeeds on the handles of a need that is in the map.     *)
HandleTo(nds, p) == [port |-> p, born |-> nds[p].born]

(* The circuits of crs that hold a handle to the need for p.               *)
Holders(nds, crs, p) == {c \in DOMAIN crs : HandleTo(nds, p) \in crs[c].covers}

NeedsCover(nds, p) == nds[p].covered < CoverNum

Uncovered == {p \in DOMAIN needs : NeedsCover(needs, p)}

(* Drop for NeedHandle: the circuits in gone give up what they cover.  A   *)
(* handle whose need has left the map decrements nothing.                  *)
DropHandlesBug(nds, gone) == nds

DropHandlesTwiceBug(nds, gone) ==
  [p \in DOMAIN nds |->
     [nds[p] EXCEPT !.covered = @ - 2 * Cardinality(Holders(nds, circuits, p) \cap gone)]]

DropHandles(nds, gone) ==
  [p \in DOMAIN nds |->
     [nds[p] EXCEPT !.covered = @ - Cardinality(Holders(nds, circuits, p) \cap gone)]]

HasExpiredBug(nds, p, t) == nds[p].expires < t

HasExpired(nds, p, t) == nds[p].expires <= t

AddNeed(nds, p, t, stable) ==
  IF p \in DOMAIN nds
  THEN IF HasExpired(nds, p, t)
       THEN [nds EXCEPT ![p].expires = t + NeedLifetime]
       ELSE nds
  ELSE [q \in DOMAIN nds \cup {p} |->
          IF q = p THEN [born |-> t, expires |-> t + NeedLifetime,
                         stable |-> stable, covered |-> 0]
                   ELSE nds[q]]

RemoveExpired(nds, t) ==
  [p \in {q \in DOMAIN nds : ~HasExpired(nds, q, t)} |-> nds[p]]

-----------------------------------------------------------------------------
(* The three reasons to close a circuit.                                   *)
OldDirty(t) ==
  {c \in DOMAIN circuits : ~IsClean(c) /\ circuits[c].dirty + MaxDirtiness < t}

OldCleanBug(t) == {}

OldClean(t) ==
  {c \in DOMAIN circuits : IsClean(c) /\ circuits[c].time + IdleTimeout < t}

Alive(cs) == cs.listed \cap cs.running \cap cs.valid

DownBug(cs) ==
  {c \in DOMAIN circuits : {circuits[c].guard, circuits[c].middle} \ Alive(cs) # {}}

DownGuardBug(cs) ==
  {c \in DOMAIN circuits : {circuits[c].middle, circuits[c].exit} \ Alive(cs) # {}}

Down(cs) ==
  {c \in DOMAIN circuits :
     {circuits[c].guard, circuits[c].middle, circuits[c].exit} \ Alive(cs) # {}}

Closed(t, cs) == OldDirty(t) \cup OldClean(t) \cup Down(cs)

(* The circuit generator (external): a three-hop circuit through the guard *)
(* it is given, with a middle and an exit that are up; the exit allows p.  *)
CanBuild(cs, p, g, m, x) ==
  /\ g \in cs.listed \cap cs.running \cap cs.guards
  /\ m \in Alive(cs) \cap cs.middles
  /\ x \in Alive(cs)
  /\ g # m /\ m # x /\ g # x
  /\ p \in cs.policy[x]

Push(circuit) ==
  [c \in DOMAIN circuits \cup {pushed} |-> IF c = pushed THEN circuit ELSE circuits[c]]

NewCircuit(g, m, x, stable, dirty, covers) ==
  [guard |-> g, middle |-> m, exit |-> x, time |-> now,
   dirty |-> dirty, stable |-> stable, covers |-> covers]

(* ShallowCircuit::supports_stream                                         *)
SupportsStream(c, p) ==
  /\ p \in LongLived => circuits[c].stable
  /\ p \in consensus.policy[circuits[c].exit]

SuitableDirtyBug(p) ==
  {c \in DOMAIN circuits : /\ ~IsClean(c)
                           /\ now <= circuits[c].dirty + MaxDirtiness
                           /\ SupportsStream(c, p)}

SuitableDirty(p) ==
  {c \in DOMAIN circuits : /\ ~IsClean(c)
                           /\ now < circuits[c].dirty + MaxDirtiness
                           /\ SupportsStream(c, p)}

SuitableClean(p) ==
  {c \in DOMAIN circuits : IsClean(c) /\ SupportsStream(c, p)}

(* c is the circuit of S that the loop over the Vec meets first.           *)
IsFirst(c, S) == c \in S /\ \A d \in S : c <= d

-----------------------------------------------------------------------------
Init ==
  /\ now = 0
  /\ triggered = FALSE
  /\ consensus \in Consensuses
  /\ needs = [p \in {} |-> p]
  /\ circuits = [c \in {} |-> c]
  /\ pushed = 1
  /\ request = None
  /\ phase = "idle"
  /\ used = None

(* timed_client_updates up to the loop that covers uncovered needs, on     *)
(* consensus cs at time t: the initial need, the expired needs, and the    *)
(* circuits that are too old or down.                                      *)
TimedUpdates(t, cs) ==
  LET added == IF triggered THEN needs ELSE AddNeed(needs, InitialPort, t, FALSE)
      live  == RemoveExpired(added, t)
  IN  /\ now' = t
      /\ triggered' = TRUE
      /\ needs' = DropHandles(live, Closed(t, cs))
      /\ circuits' = [c \in DOMAIN circuits \ Closed(t, cs) |-> circuits[c]]
      /\ phase' = "covering"
      /\ used' = None
      /\ UNCHANGED pushed

(* handle_new_epoch: the housekeeping at the start of an epoch.  The last   *)
(* epoch took its requests from before its end, where this one starts.     *)
NewEpoch(t, cs) ==
  /\ phase = "idle"
  /\ triggered => now < t
  /\ consensus' = cs
  /\ request' = None
  /\ TimedUpdates(t, cs)

(* handle_new_epoch: the next request of the epoch, for port p at time t,  *)
(* first brings the manager up to its own time.                            *)
NextRequest(t, p) ==
  /\ phase = "idle"
  /\ triggered
  /\ request' = p
  /\ TimedUpdates(t, consensus)
  /\ UNCHANGED consensus

(* One iteration of the covering loop.  get_uncovered_need returns the     *)
(* first need of a hash map that needs cover: any of them.                 *)
CoverNeedBug(p, g, m, x) ==
  /\ phase = "covering"
  /\ p \in Uncovered
  /\ CanBuild(consensus, p, g, m, x)
  /\ needs' = [needs EXCEPT ![p].covered = @ + 1]
  /\ circuits' = Push(NewCircuit(g, m, x, FALSE, None, {HandleTo(needs, p)}))
  /\ pushed' = pushed + 1
  /\ UNCHANGED <<now, triggered, consensus, request, phase, used>>

CoverNeed(p, g, m, x) ==
  /\ phase = "covering"
  /\ p \in Uncovered
  /\ CanBuild(consensus, p, g, m, x)
  /\ needs' = [needs EXCEPT ![p].covered = @ + 1]
  /\ circuits' = Push(NewCircuit(g, m, x, needs[p].stable, None, {HandleTo(needs, p)}))
  /\ pushed' = pushed + 1
  /\ UNCHANGED <<now, triggered, consensus, request, phase, used>>

(* The loop ends; the client goes on with the request, if there is one.    *)
CoverDoneBug ==
  /\ phase = "covering"
  /\ \A p \in DOMAIN needs : needs[p].covered > 0
  /\ phase' = IF request = None THEN "idle" ELSE "serving"
  /\ UNCHANGED <<now, triggered, consensus, needs, circuits, pushed, request, used>>

CoverDone ==
  /\ phase = "covering"
  /\ Uncovered = {}
  /\ phase' = IF request = None THEN "idle" ELSE "serving"
  /\ UNCHANGED <<now, triggered, consensus, needs, circuits, pushed, request, used>>

(* The generator returned an error: the error ends the simulation.  The    *)
(* handle that was taken for the new circuit is dropped again.             *)
BuildFailsBug ==
  /\ \/ phase = "covering" /\ Uncovered # {}
     \/ phase = "serving" /\ SuitableDirty(request) \cup SuitableClean(request) = {}
  /\ UNCHANGED vars

BuildFails ==
  /\ \/ phase = "covering" /\ Uncovered # {}
     \/ phase = "serving" /\ SuitableDirty(request) \cup SuitableClean(request) = {}
  /\ phase' = "failed"
  /\ UNCHANGED <<now, triggered, consensus, needs, circuits, pushed, request, used>>

(* The clean circuits that may take a handle to the need for p: those that *)
(* do not cover p yet and that can_be_covered_by_circuit accepts.          *)
CanCover(nds, crs, p) ==
  {c \in DOMAIN crs : /\ crs[c].dirty = None
                      /\ c \notin Holders(nds, crs, p)
                      /\ nds[p].stable => crs[c].stable
                      /\ p \in consensus.policy[crs[c].exit]}

(* The second half of handle_request: remember the need for the port and,  *)
(* if it is not covered enough, let the first clean circuit that fits      *)
(* cover it.  nds and crs are the needs and circuits after the first half. *)
Remember(nds, crs) ==
  LET added == AddNeed(nds, request, now, request \in LongLived)
      fit   == CanCover(added, crs, request)
  IN  \/ /\ NeedsCover(added, request)
         /\ \E c \in DOMAIN crs :
              /\ IsFirst(c, fit)
              /\ circuits' = [crs EXCEPT ![c].covers = @ \cup {HandleTo(added, request)}]
         /\ needs' = [added EXCEPT ![request].covered = @ + 1]
      \/ /\ ~NeedsCover(added, request) \/ fit = {}
         /\ circuits' = crs
         /\ needs' = added

(* What the three ways to serve a request have in common.  Before the need *)
(* is remembered, the observer is told that c is used (notify_circuit_used,*)
(* which writes the packets); a failure there ends the simulation.         *)
Serve(c, nds, crs) ==
  /\ \/ phase' = "idle" /\ Remember(nds, crs)
     \/ phase' = "failed" /\ needs' = nds /\ circuits' = crs
  /\ used' = c
  /\ request' = None
  /\ UNCHANGED <<now, triggered, consensus>>

(* handle_request with a dirty circuit that is suitable.                   *)
UseDirtyBug(c) ==
  /\ phase = "serving"
  /\ IsFirst(c, SuitableDirty(request))
  /\ Serve(c, needs, [circuits EXCEPT ![c].dirty = now])
  /\ UNCHANGED pushed

UseDirty(c) ==
  /\ phase = "serving"
  /\ IsFirst(c, SuitableDirty(request))
  /\ Serve(c, needs, circuits)
  /\ UNCHANGED pushed

(* handle_request with a clean circuit: it gets dirty and gives up the     *)
(* needs it covered.                                                       *)
UseClean(c) ==
  /\ phase = "serving"
  /\ SuitableDirty(request) = {}
  /\ IsFirst(c, SuitableClean(request))
  /\ Serve(c, DropHandles(needs, {c}),
           [circuits EXCEPT ![c].dirty = now, ![c].covers = {}])
  /\ UNCHANGED pushed

(* handle_request with a circuit built for it, dirty from the start.       *)
UseNew(g, m, x) ==
  /\ phase = "serving"
  /\ SuitableDirty(request) \cup SuitableClean(request) = {}
  /\ CanBuild(consensus, request, g, m, x)
  /\ Serve(pushed, needs, Push(NewCircuit(g, m, x, request \in LongLived, now, {})))
  /\ pushed' = pushed + 1

Covering ==
  \/ \E p \in Port, g, m, x \in Relay : CoverNeed(p, g, m, x)
  \/ CoverDone
  \/ BuildFails

Serving ==
  \/ \E c \in DOMAIN circuits : UseDirty(c) \/ UseClean(c)
  \/ \E g, m, x \in Relay : UseNew(g, m, x)

Next ==
  \/ \E t \in now .. MaxTime, cs \in Consensuses : NewEpoch(t, cs)
  \/ \E t \in now .. MaxTime, p \in Port : NextRequest(t, p)
  \/ Covering
  \/ Serving

Spec == Init /\ [][Next]_vars

(* A client runs on one thread, which executes what it has begun.          *)
FairSpec == Spec /\ WF_vars(Covering \/ Serving)

-----------------------------------------------------------------------------
TypeOK ==
  /\ now \in Nat
  /\ triggered \in BOOLEAN
  /\ consensus \in Consensus
  /\ DOMAIN needs \subseteq Port
  /\ needs \in [DOMAIN needs -> Need]
  /\ DOMAIN circuits \subseteq 1 .. pushed - 1
  /\ circuits \in [DOMAIN circuits -> ShallowCircuit]
  /\ pushed \in Nat \ {0}
  /\ request \in Port \cup {None}
  /\ phase \in {"idle", "covering", "serving", "failed"}
  /\ used \in DOMAIN circuits \cup {None}

(* The counter of every need is the number of circuits that hold a handle  *)
(* to it: through expiry, re-creation, closing, first use and the covering *)
(* of both loops.  In particular decrement_cover_count never finds a zero  *)
(* (the assertion of needs.rs:253).                                        *)
CoverCountExact ==
  \A p \in DOMAIN needs :
    needs[p].covered = Cardinality(Holders(needs, circuits, p))

(* No need is ever covered by more circuits than CoverNum, although both   *)
(* the covering loop and handle_request hand out handles.                  *)
NeverOverCovered == \A p \in DOMAIN needs : needs[p].covered <= CoverNum

(* Only clean circuits hold handles: a circuit in use is not spare.        *)
OnlySpareCircuitsCover ==
  \A c \in DOMAIN circuits : circuits[c].covers # {} => IsClean(c)

(* When a request is looked at, every need is covered by CoverNum circuits *)
(* that are clean, not idle for too long, and whose middle and exit are up *)
(* in the consensus of this moment.                                        *)
CoveredWhenServing ==
  phase = "serving" =>
    \A p \in DOMAIN needs :
      LET good == {c \in Holders(needs, circuits, p) :
                     /\ IsClean(c)
                     /\ now <= circuits[c].time + IdleTimeout
                     /\ {circuits[c].middle, circuits[c].exit} \subseteq Alive(consensus)}
      IN  Cardinality(good) >= CoverNum

(* The unwraps of lookup_relay on a circuit's exit (client.rs:188 and      *)
(* needs.rs:186) find a relay: handle_request only meets circuits whose    *)
(* relays are in the consensus, whatever the consensus was before.         *)
LookupsSucceed ==
  phase = "serving" =>
    \A c \in DOMAIN circuits :
      {circuits[c].guard, circuits[c].middle, circuits[c].exit} \subseteq consensus.listed

(* A need is in the map for exactly its lifetime: none is left that has    *)
(* expired, and none is dropped early.                                     *)
NeedsLiveTheirLifetime ==
  [][/\ \A p \in DOMAIN needs' : now' < needs'[p].born + NeedLifetime
     /\ \A p \in DOMAIN needs \ DOMAIN needs' : needs[p].born + NeedLifetime <= now']_vars

(* The circuit a request is sent on can carry it: its exit is up and       *)
(* allows the port, it is stable if the port is long-lived, it was first   *)
(* used less than MaxDirtiness ago, and it was not idle for too long when  *)
(* it was first used.                                                      *)
ServedByFitCircuit ==
  [][phase = "serving" /\ phase' = "idle" =>
       LET c == circuits'[used'] IN
         /\ c.exit \in Alive(consensus)
         /\ request \in consensus.policy[c.exit]
         /\ request \in LongLived => c.stable
         /\ c.dirty # None /\ c.dirty <= now /\ now < c.dirty + MaxDirtiness
         /\ c.dirty <= c.time + IdleTimeout]_vars

(* A circuit that carried a stream stays dirty since its first one: no     *)
(* later request, epoch or covering makes it look younger.                 *)
DirtySinceFirstUse ==
  [][\A c \in DOMAIN circuits \cap DOMAIN circuits' :
       circuits[c].dirty # None => circuits'[c].dirty = circuits[c].dirty]_vars

(* A port that is predicted is served by a circuit built in advance.  (The *)
(* claim of needs.rs:3-5.  It holds while exit policies do not change.)    *)
PredictedPortsPrebuilt ==
  [][phase = "serving" /\ request \in DOMAIN needs => pushed' = pushed]_vars

(* A request renews the need for its port.  (The claim of client.rs:415.)  *)
RequestRenewsNeed ==
  [][phase = "serving" /\ phase' = "idle" =>
       needs'[request].expires = now + NeedLifetime]_vars

(* The manager does what NeedCover promises, where the cover of a port is  *)
(* the set of circuits that hold a handle to its need, and the spare       *)
(* circuits are the clean ones.                                            *)
Cover == INSTANCE NeedCover WITH
  spare <- {c \in DOMAIN circuits : IsClean(c)},
  cover <- [p \in DOMAIN needs |-> Holders(needs, circuits, p)],
  stage <- phase

ImplementsNeedCover == Cover!Spec

(* A call of the manager ends: the covering loop covers every need after   *)
(* finitely many circuits, and the request is then handled, unless the     *)
(* generator or the observer fails.                                        *)
CallsEnd == phase \in {"covering", "serving"} ~> phase \in {"idle", "failed"}
=============================================================================
