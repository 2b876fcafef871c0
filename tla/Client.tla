------------------------------- MODULE Client -------------------------------
(***************************************************************************)
(* One simulated client (src/src/client.rs): its circuit manager, the      *)
(* guard handling the manager calls, and the numbers of exits it is given  *)
(* (src/src/observer.rs).                                                  *)
(*                                                                         *)
(* CircuitManager and GuardHandling, each checked in an environment of its *)
(* own, are put together here: CircuitManager takes any guard for a new    *)
(* circuit, here it is the one that get_guard_for_circuit hands out;       *)
(* GuardHandling confirms any guard that may have an open circuit, here it *)
(* is the guard of the circuit that serves the request; and both see the   *)
(* same consensuses at the same times.  GuardHandling's guess at the open  *)
(* circuits is kept beside the real ones.                                  *)
(*                                                                         *)
(* A definition whose name ends in Bug is a seeded fault: nothing uses it, *)
(* and a property must fail when it takes the place of the definition      *)
(* that follows it.                                                        *)
(***************************************************************************)
EXTENDS Integers, Sequences, FiniteSets

CONSTANTS
  \* of the circuit manager
  Relay, Port, InitialPort, LongLived, Consensuses,
  MaxDirtiness, IdleTimeout, NeedLifetime, CoverNum,
  \* of the guard handling
  GuardLifetime, AddedJitter, RemoveUnlistedAfter, UnlistedJitter, ConfirmedMinLifetime,
  MinFilteredSample, MaxSampleSize, SampleOneOf, NPrimaryGuards,
  \* of both
  MaxTime, None

VARIABLES
  now, triggered, consensus, needs, circuits, pushed, request, phase, used,  \* the manager
  sampled, confirmed, primary, open, handed, since, round,                   \* the guards
  drawn,     \* the guard for the circuit that handle_request builds, or None
  numbered,  \* the exits that have a number (ExitFingerprintSerializer)
  unflagged  \* for the properties: the circuits that were built through an exit
             \* without the Exit flag in the consensus of that moment

managerVars == <<now, triggered, consensus, needs, circuits, pushed, request, phase, used>>

guardVars == <<sampled, confirmed, primary, open, handed, since, round>>

vars == <<managerVars, guardVars, drawn, numbered, unflagged>>

CM == INSTANCE CircuitManager

ASSUME ConsensusAssumption ==
  Consensuses \subseteq CM!Consensus /\ \A cs \in Consensuses : IsFiniteSet(cs.listed)
ASSUME PortAssumption == InitialPort \in Port /\ LongLived \subseteq Port \ {InitialPort}
ASSUME TimeAssumption ==
  /\ {IdleTimeout, CoverNum, MaxTime} \subseteq Nat
  /\ {MaxDirtiness, NeedLifetime} \subseteq Nat \ {0}
ASSUME GuardAssumption ==
  /\ {GuardLifetime, RemoveUnlistedAfter, ConfirmedMinLifetime} \subseteq Nat
  /\ AddedJitter \in 1 .. GuardLifetime /\ UnlistedJitter \in 1 .. RemoveUnlistedAfter
  /\ {MinFilteredSample, MaxSampleSize, SampleOneOf, NPrimaryGuards} \subseteq Nat \ {0}
ASSUME NoneAssumption == None \notin Int \cup Relay \cup Port

(* What the guard handling sees of a consensus.                            *)
GuardView(cs) ==
  [running |-> cs.listed \cap cs.running,
   valid   |-> cs.listed \cap cs.running \cap cs.valid,
   guards  |-> cs.listed \cap cs.running \cap cs.guards]

(* A circuit is not used longer than MaxDirtiness after its first use,     *)
(* which is at most IdleTimeout after it was built.                        *)
GH == INSTANCE GuardHandling WITH
        Guard           <- Relay,
        Consensuses     <- {GuardView(cs) : cs \in Consensuses},
        CircuitLifetime <- IdleTimeout + MaxDirtiness,
        consensus       <- GuardView(consensus),
        phase           <- round

(* The relays with the Exit flag.  The generator looks at exit policies;   *)
(* whether it looks at the flag is not known here.                         *)
Exits(cs) == cs.listed \cap cs.exits

-----------------------------------------------------------------------------
Init ==
  /\ CM!Init
  /\ GH!Init
  /\ drawn = None
  /\ numbered = {}
  /\ unflagged = {}

(* add_consensus, before the clients are triggered.                        *)
AddConsensusBug(cs) == numbered' = Exits(cs)

AddConsensus(cs) == numbered' = numbered \cup Exits(cs)

NewEpoch(t, cs) ==
  /\ CM!NewEpoch(t, cs)
  /\ GH!TimedUpdates(t, GuardView(cs))
  /\ AddConsensus(cs)
  /\ UNCHANGED drawn

NextRequestBug(t, p) ==
  /\ CM!NextRequest(t, p)
  /\ UNCHANGED <<guardVars, drawn, numbered>>

NextRequest(t, p) ==
  /\ CM!NextRequest(t, p)
  /\ GH!TimedUpdates(t, GuardView(consensus))
  /\ UNCHANGED <<drawn, numbered>>

(* get_guard_for_circuit                                                   *)
GetGuard == GH!GetPrimary \/ GH!GetSampled

CoverNeedBug(p, g, m, x) ==
  /\ CM!CoverNeed(p, g, m, x)
  /\ IF handed = None THEN GetGuard ELSE UNCHANGED guardVars
  /\ handed' = g
  /\ UNCHANGED <<drawn, numbered>>

CoverNeed(p, g, m, x) ==
  /\ CM!CoverNeed(p, g, m, x)
  /\ GetGuard
  /\ handed' = g
  /\ UNCHANGED <<drawn, numbered>>

CoverDone ==
  /\ CM!CoverDone
  /\ UNCHANGED <<guardVars, drawn, numbered>>

(* handle_request finds no circuit, and asks for a guard for a new one.    *)
DrawGuard ==
  /\ phase = "serving"
  /\ drawn = None
  /\ CM!SuitableDirty(request) \cup CM!SuitableClean(request) = {}
  /\ UNCHANGED managerVars
  /\ GetGuard
  /\ drawn' = handed'
  /\ UNCHANGED numbered

(* notify_circuit_used, for the circuit c that serves the request, fails   *)
(* when the exit has no number, or the packets cannot be written; only     *)
(* after it has succeeded is the guard of c confirmed.                     *)
Notify(c) ==
  /\ circuits'[c].exit \in numbered \/ phase' = "failed"
  /\ IF phase' = "failed" THEN UNCHANGED guardVars
                         ELSE GH!MarkAsConfirmed(circuits'[c].guard)

UseNew(m, x) ==
  /\ drawn # None
  /\ CM!UseNew(drawn, m, x)
  /\ Notify(pushed)
  /\ drawn' = None
  /\ UNCHANGED numbered

UseDirty(c) ==
  /\ CM!UseDirty(c)
  /\ Notify(c)
  /\ UNCHANGED <<drawn, numbered>>

UseClean(c) ==
  /\ CM!UseClean(c)
  /\ Notify(c)
  /\ UNCHANGED <<drawn, numbered>>

(* There is no guard, or the generator finds no circuit.                   *)
BuildFails ==
  /\ CM!BuildFails
  /\ \/ drawn = None /\ GH!NoGuard
     \/ (phase = "covering" \/ drawn # None) /\ UNCHANGED guardVars
  /\ UNCHANGED <<drawn, numbered>>

Covering ==
  \/ \E p \in CM!Uncovered, g \in Relay, m, x \in CM!Alive(consensus) : CoverNeed(p, g, m, x)
  \/ CoverDone

Serving ==
  \/ DrawGuard
  \/ \E m, x \in CM!Alive(consensus) : UseNew(m, x)
  \/ \E c \in DOMAIN circuits : UseDirty(c) \/ UseClean(c)

(* The error has ended the simulation.                                     *)
Failed == phase = "failed" /\ UNCHANGED vars

(* The history of the exits, beside every step: circuits are built from    *)
(* the consensus the step starts with.                                     *)
TrackFlags ==
  unflagged' = {c \in DOMAIN circuits' :
                  IF c \in DOMAIN circuits THEN c \in unflagged
                  ELSE circuits'[c].exit \notin Exits(consensus)}

Next ==
  \/ /\ \/ /\ phase = "idle"
           /\ \/ \E t \in now .. MaxTime, cs \in Consensuses : NewEpoch(t, cs)
              \/ \E t \in now .. MaxTime, p \in Port : NextRequest(t, p)
        \/ phase = "covering" /\ Covering
        \/ phase = "serving" /\ Serving
        \/ BuildFails
     /\ TrackFlags
  \/ Failed

Spec == Init /\ [][Next]_vars

-----------------------------------------------------------------------------
TypeOK ==
  /\ CM!TypeOK
  /\ GH!TypeOK
  /\ drawn \in Relay \cup {None}
  /\ numbered \subseteq Relay
  /\ unflagged \subseteq DOMAIN circuits

(* The guard handling knows of every open circuit, and from when it is:    *)
(* no guard is confirmed for a circuit older than CircuitLifetime, however *)
(* the three rules for closing circuits interleave.                        *)
OpenCircuitsKnown ==
  \A c \in DOMAIN circuits : [guard |-> circuits[c].guard, built |-> circuits[c].time] \in open

(* A guard that the guard handling has found missing carries no circuit:   *)
(* the manager, which looks at the relays of its circuits, and the guard   *)
(* handling, which looks at its sample, agree after every update.          *)
NoCircuitThroughUnlisted ==
  \A c \in DOMAIN circuits, i \in DOMAIN sampled :
    sampled[i].fingerprint = circuits[c].guard => GH!IsListed(sampled[i])

(* The exit of a circuit has a number (the expect of observer.rs:285) for  *)
(* as long as the circuit is open, although numbers are given to the exits *)
(* of one consensus at a time and a circuit outlives the consensus it was  *)
(* built from; its exit may have lost the flag since.  The expect can      *)
(* only fail for a circuit whose exit lacked the Exit flag at the moment   *)
(* the circuit was built.                                                  *)
ExitsNumbered == \A c \in DOMAIN circuits \ unflagged : circuits[c].exit \in numbered

(* The manager, and the guard handling, behave in one client as they are   *)
(* specified: the environments that CircuitManager and GuardHandling       *)
(* assume (any guard, confirmations of any open circuit, updates at any    *)
(* time) include each other, so what holds of each of them holds here.     *)
PartsKept == CM!Spec /\ GH!Spec

(* Of the circuit manager: a circuit that carried a stream stays dirty     *)
(* since its first one.                                                    *)
DirtySinceFirstUse == CM!DirtySinceFirstUse

(* Of the guard handling, with the circuits of the circuit manager.        *)
ConfirmedAreSampled == GH!ConfirmedAreSampled
=============================================================================
