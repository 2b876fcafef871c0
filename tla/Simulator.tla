----------------------------- MODULE Simulator -----------------------------
(***************************************************************************)
(* Simulator::run (src/src/sim.rs): the setup, and the loop over the       *)
(* consensuses of the timespan.  In each of them the adversary             *)
(* (src/src/adversaries.rs) adds its relays and has the bandwidth weights  *)
(* computed anew, the exits get numbers (ExitFingerprintSerializer in      *)
(* src/src/observer.rs), and the clients are simulated up to the next      *)
(* consensus.                                                              *)
(*                                                                         *)
(* The clients are one step here, which may fail; CircuitManager,          *)
(* UserRequests and Client model what they do, TracePipeline how threads   *)
(* take them in turns.                                                     *)
(*                                                                         *)
(* A definition whose name ends in Bug is a seeded fault: nothing uses it, *)
(* and a property must fail when it takes the place of the definition      *)
(* that follows it.                                                        *)
(***************************************************************************)
EXTENDS Archive, BandwidthWeights

CONSTANTS
  Relay,       \* fingerprints of the relays of the Tor network
  Inputs,      \* the command lines, each with the archive it is used on
  EpochLimit,  \* how long the last epoch is at most (3 hours)
  MaxByte      \* the greatest byte of an IP address (255)

(* What adversarial relays are called: their fingerprints are their index, *)
(* padded with 0 or F.                                                     *)
Fingerprint == Relay \cup ({"0", "F"} \X Nat)

Cli == [from : Edge, to : Edge, guards : Nat, guardsBw : Nat, exits : Nat, exitsBw : Nat]

(* What the simulator reads of a consensus.  Loading it may end with an    *)
(* error, or in an unwrap.  load is the bandwidth of the relays that are   *)
(* exits (and not bad ones), guards, both or neither.                      *)
Document ==
  [loads : {"ok", "error", "panic"}, valid_after : Nat \cup {None},
   load : [E : Nat, G : Nat, D : Nat, M : Nat], exits : SUBSET Relay]

File == [year : Year, month : Month, time : Nat, doc : Document]

Input == [cli : Cli, archive : SUBSET File]

(* The files of an archive lie where they belong, and no two of them have  *)
(* the same time, which is that of the consensus.                          *)
ASSUME InputAssumption ==
  \A in \in Inputs :
    /\ in \in Input /\ IsFiniteSet(in.archive)
    /\ \A f \in in.archive :
         /\ InMonth(f.year, f.month, f.time)
         /\ f.doc.valid_after \in {f.time, None}
         /\ IsFiniteSet(f.doc.exits)
    /\ \A f, g \in in.archive : f.time = g.time => f = g
ASSUME LimitAssumption == {EpochLimit, MaxByte} \subseteq Nat

VARIABLES
  cli,      \* the command line
  archive,  \* the files there are
  phase,    \* what run is doing, or how it ended
  handles,  \* the consensuses that are still to be simulated
  epochs,   \* the epochs begun so far
  totals,   \* of the consensus of this epoch, when the adversary has changed it
  weights,  \* its bandwidth weights, or None if they are the original ones
  ids       \* assigned_ids, the numbers of the exits

vars == <<cli, archive, phase, handles, epochs, totals, weights, ids>>

-----------------------------------------------------------------------------
(* Adversary::new                                                          *)
Relays(kind, number, offset, flags, bandwidth) ==
  {[fingerprint |-> <<kind, i>>, address |-> offset + i, flags |-> flags,
    bandwidth |-> bandwidth] : i \in 1 .. number}

ExtraRelays ==
  Relays("0", cli.guards, 0, {"Guard"}, cli.guardsBw)
    \cup Relays("F", cli.exits, cli.guards, {"Exit"}, cli.exitsBw)

(* An index is not a byte: the parsing of the address panics.              *)
TooManyRelays == \E r \in ExtraRelays : r.address > MaxByte

Init ==
  /\ \E in \in Inputs : cli = in.cli /\ archive = in.archive
  /\ phase = "start"
  /\ handles = <<>>
  /\ epochs = <<>>
  /\ totals = None
  /\ weights = None
  /\ ids = [x \in {} |-> 0]

(* Simulator::run up to its loop.                                          *)
Setup ==
  /\ phase = "start"
  /\ ~TooManyRelays /\ Exists(cli.from) /\ Exists(cli.to)
  /\ FirstDatetime(cli.from) < LastDatetime(cli.to)
  /\ handles' \in FindConsensuses(archive, cli.from, cli.to)
  /\ phase' = "loading"
  /\ UNCHANGED <<cli, archive, epochs, totals, weights, ids>>

(* ... or it ends: an unwrap fails; the timespan is empty, or a file or    *)
(* directory cannot be read.                                               *)
SetupFails ==
  /\ phase = "start"
  /\ \/ (TooManyRelays \/ ~Exists(cli.from) \/ ~Exists(cli.to)) /\ phase' = "panic"
     \/ ~TooManyRelays /\ phase' = "error"
  /\ UNCHANGED <<cli, archive, handles, epochs, totals, weights, ids>>

-----------------------------------------------------------------------------
(* The consensus of the epoch, and what peek finds: the next one.          *)
Current == Head(handles).doc

HasNext == Len(handles) > 1

Upcoming == handles[2].doc

EndTime == LastDatetime(cli.to)

EpochEndBug ==
  IF HasNext /\ Upcoming.loads = "ok" THEN Upcoming.valid_after
  ELSE Current.valid_after + EpochLimit

EpochEnd ==
  LET end == IF HasNext /\ Upcoming.loads = "ok" THEN Upcoming.valid_after
             ELSE Current.valid_after + EpochLimit
  IN  Least(end, EndTime)

(* The first loop of recompute_bw_weights, over the relays of the document *)
(* and of the adversary.                                                   *)
NewTotalsBug ==
  [E |-> Current.load.E + cli.exits * cli.exitsBw,
   G |-> Current.load.G + cli.guards * cli.guardsBw,
   D |-> Current.load.D,
   M |-> Current.load.M]

NewTotals ==
  [E |-> 1 + Current.load.E + cli.exits * cli.exitsBw,
   G |-> 1 + Current.load.G + cli.guards * cli.guardsBw,
   D |-> 1 + Current.load.D,
   M |-> 1 + Current.load.M]

(* modify_consensus                                                        *)
ModifyConsensus ==
  IF ExtraRelays = {} THEN totals' = None /\ weights' = None
  ELSE /\ totals' = NewTotals
       /\ weights' = Recompute(NewTotals)

(* The exits of the consensus, with those of the adversary.                *)
Exits == Current.exits \cup {r.fingerprint : r \in {x \in ExtraRelays : "Exit" \in x.flags}}

WeightsFail == ExtraRelays # {} /\ Panics(NewTotals)

(* ExitFingerprintSerializer::add_consensus: exits without a number get    *)
(* the next ones, in the order of the document.                            *)
AddConsensusBug(exits) ==
  LET n == Cardinality(exits)
  IN  \E new \in [exits -> 0 .. n - 1] :
        /\ \A x, y \in exits : new[x] = new[y] => x = y
        /\ ids' = [x \in DOMAIN ids \cup exits |-> IF x \in exits THEN new[x] ELSE ids[x]]

AddConsensus(exits) ==
  LET news == exits \ DOMAIN ids
      next == Cardinality(DOMAIN ids)
  IN  \E new \in [news -> next .. next + Cardinality(news) - 1] :
        /\ \A x, y \in news : new[x] = new[y] => x = y
        /\ ids' = [x \in DOMAIN ids \cup news |-> IF x \in news THEN new[x] ELSE ids[x]]

(* The two consensuses can be used, as far as the loop looks at them.      *)
Usable ==
  /\ Current.loads = "ok" /\ Current.valid_after # None
  /\ HasNext => Upcoming.loads = "error" \/ (Upcoming.loads = "ok" /\ Upcoming.valid_after # None)

Panicking ==
  \/ Current.loads = "panic"
  \/ Current.loads = "ok" /\ Current.valid_after # None /\ HasNext /\ Upcoming.loads = "panic"

BeginEpoch ==
  /\ phase = "loading"
  /\ handles # <<>>
  /\ Usable
  /\ ~WeightsFail
  /\ phase' = "epoch"
  /\ epochs' = Append(epochs, [start |-> Current.valid_after, end |-> EpochEnd])
  /\ handles' = Tail(handles)
  /\ ModifyConsensus
  /\ AddConsensus(Exits)
  /\ UNCHANGED <<cli, archive>>

(* The consensus cannot be used (an error, or a failing unwrap), or no     *)
(* circuit generator can be made from it.                                  *)
BeginFailsBug ==
  /\ phase = "loading"
  /\ handles # <<>>
  /\ Usable => ~WeightsFail
  /\ phase' = IF Panicking THEN "panic" ELSE "ok"
  /\ UNCHANGED <<cli, archive, handles, epochs, totals, weights, ids>>

BeginFails ==
  /\ phase = "loading"
  /\ handles # <<>>
  /\ Usable => ~WeightsFail
  /\ phase' = IF Panicking THEN "panic" ELSE "error"
  /\ UNCHANGED <<cli, archive, handles, epochs, totals, weights, ids>>

(* The panic of recompute_bw_weights.                                      *)
WeightsPanic ==
  /\ phase = "loading"
  /\ handles # <<>>
  /\ Usable
  /\ WeightsFail
  /\ phase' = "panic"
  /\ totals' = NewTotals
  /\ weights' = None
  /\ UNCHANGED <<cli, archive, handles, epochs, ids>>

(* A relay of the consensus has no flags or no bandwidth weight (the       *)
(* expects of recompute_bw_weights).                                       *)
IncompleteRelay ==
  /\ phase = "loading"
  /\ handles # <<>>
  /\ Usable
  /\ ExtraRelays # {}
  /\ phase' = "panic"
  /\ UNCHANGED <<cli, archive, handles, epochs, totals, weights, ids>>

(* All clients have been simulated.  The consensus goes out of scope.      *)
EpochDone ==
  /\ phase = "epoch"
  /\ phase' = "loading"
  /\ totals' = None
  /\ weights' = None
  /\ UNCHANGED <<cli, archive, handles, epochs, ids>>

(* A client returns an error or panics.                                    *)
ClientFails ==
  /\ phase = "epoch"
  /\ phase' \in {"error", "panic"}
  /\ UNCHANGED <<cli, archive, handles, epochs, totals, weights, ids>>

(* There is no further consensus; the trace worker is stopped, and its     *)
(* result is that of the simulation.                                       *)
Finish ==
  /\ phase = "loading"
  /\ handles = <<>>
  /\ phase' \in {"ok", "error"}
  /\ UNCHANGED <<cli, archive, handles, epochs, totals, weights, ids>>

Next ==
  \/ Setup \/ SetupFails
  \/ BeginEpoch \/ BeginFails \/ WeightsPanic \/ IncompleteRelay
  \/ EpochDone \/ ClientFails
  \/ Finish

Spec == Init /\ [][Next]_vars

-----------------------------------------------------------------------------
TypeOK ==
  /\ [cli |-> cli, archive |-> archive] \in Inputs
  /\ phase \in {"start", "loading", "epoch", "ok", "error", "panic"}
  /\ handles \in Seq(archive)
  /\ epochs \in Seq([start : Nat, end : Nat])
  /\ totals \in Totals \cup {None}
  /\ weights \in Weights \cup {None}
  /\ DOMAIN ids \subseteq Fingerprint
  /\ ids \in [DOMAIN ids -> Nat]

(* The consensuses of the simulation are those of the timespan, in order:  *)
(* the tests on the names of directories drop none of them, and the ends   *)
(* of the timespan are where the edges say, at the ends of months and      *)
(* years too.                                                              *)
RightConsensuses ==
  phase = "loading" /\ epochs = <<>> =>
    /\ {handles[i] : i \in DOMAIN handles} = {f \in archive : Between(f.time, cli.from, cli.to)}
    /\ \A i, j \in DOMAIN handles : i < j => handles[i].time < handles[j].time

(* The epochs follow one another without a gap or an overlap, and none     *)
(* leaves the timespan.                                                    *)
EpochsTile ==
  \A i \in DOMAIN epochs :
    /\ Between(epochs[i].start, cli.from, cli.to) /\ Between(epochs[i].end, cli.from, cli.to)
    /\ epochs[i].start <= epochs[i].end
    /\ i > 1 => epochs[i].start = epochs[i - 1].end

(* A simulation that succeeds has simulated every consensus of the         *)
(* timespan: the error of a consensus that peek has loaded, and looked     *)
(* away from, is not lost.                                                 *)
SuccessIsWhole ==
  phase = "ok" =>
    {epochs[i].start : i \in DOMAIN epochs}
      = {f.time : f \in {x \in archive : Between(x.time, cli.from, cli.to)}}

(* An exit keeps its number for the whole simulation, and no other exit    *)
(* gets it, whatever consensuses list them.                                *)
NumbersForLife ==
  [][/\ \A x \in DOMAIN ids : x \in DOMAIN ids' /\ ids'[x] = ids[x]
     /\ \A x, y \in DOMAIN ids' : ids'[x] = ids'[y] => x = y]_vars

(* Every recomputed weight is a share of the bandwidth, also in the cases  *)
(* that the code does not check: the conversion to u64 does not wrap.      *)
WeightsAreShares == weights # None => InRange(weights) /\ SharesAddUp(weights)

(* The weights give the position that is worst off as much as any weights  *)
(* could, in every case.                                                   *)
WeightsAreOptimal == weights # None => Optimal(weights, totals)

(* Too much bandwidth at the middle position is a case of its own, with    *)
(* weights.  (The comment at adversaries.rs:282-283.)                      *)
TooMuchMiddleHasWeights == totals # None => weights # None
=============================================================================
