-------------------------- MODULE Simulator_proofs --------------------------
(***************************************************************************)
(* Theorems about Simulator: for every archive, command line and adversary *)
(* the simulated epochs tile the timespan, a success has covered it, exits *)
(* keep their numbers, and the recomputed bandwidth weights are shares     *)
(* that give the worst position as much as any could.                      *)
(***************************************************************************)
EXTENDS Simulator, Archive_proofs, BandwidthWeights_proofs, TLAPS

-----------------------------------------------------------------------------
(* The consensuses are files of the archive, and the weights are those of  *)
(* the totals they belong to.                                              *)
WeightsInv ==
  /\ [cli |-> cli, archive |-> archive] \in Inputs
  /\ handles \in Seq(archive)
  /\ weights # None =>
       totals \in Totals /\ ~Panics(totals) /\ weights = Recompute(totals)

(* What InputAssumption says of the state.                                 *)
LEMMA InputTyped ==
  ASSUME [cli |-> cli, archive |-> archive] \in Inputs
  PROVE  /\ cli \in Cli /\ archive \subseteq File /\ IsFiniteSet(archive)
         /\ \A f \in archive : IsFiniteSet(f.doc.exits)
<1> DEFINE in == [cli |-> cli, archive |-> archive]
<1>1. in \in Input /\ IsFiniteSet(in.archive) /\ \A f \in in.archive : IsFiniteSet(f.doc.exits)
  BY InputAssumption
<1> QED
  BY <1>1 DEF Input

LEMMA FoundAreFiles ==
  ASSUME [cli |-> cli, archive |-> archive] \in Inputs,
         NEW s \in FindConsensuses(archive, cli.from, cli.to)
  PROVE  s \in Seq(archive)
<1> DEFINE files == Matching(archive, cli.from, cli.to)
<1>1. files \subseteq archive
  BY DEF Matching
<1>2. Cardinality(files) \in Nat
  BY <1>1, InputTyped, FS_Subset, FS_CardinalityType
<1>3. s \in [1 .. Cardinality(files) -> files]
  BY DEF FindConsensuses
<1> HIDE DEF files
<1> QED
  BY <1>1, <1>2, <1>3

LEMMA OneMore ==
  ASSUME NEW x \in Nat, NEW y \in Nat
  PROVE  1 + x \in Nat \ {0} /\ 1 + x + y \in Nat \ {0}
OBVIOUS

LEMMA NewTotalsTyped ==
  ASSUME [cli |-> cli, archive |-> archive] \in Inputs, handles \in Seq(archive), handles # <<>>
  PROVE  NewTotals \in Totals
<1>1. Head(handles) \in File
  BY InputTyped
<1>2. Current.load \in [E : Nat, G : Nat, D : Nat, M : Nat]
  BY <1>1 DEF Current, File, Document
<1>3. /\ cli.exits \in Nat /\ cli.exitsBw \in Nat
      /\ cli.guards \in Nat /\ cli.guardsBw \in Nat
  BY InputTyped DEF Cli
<1>4. cli.exits * cli.exitsBw \in Nat /\ cli.guards * cli.guardsBw \in Nat
  BY <1>3, SMT
<1>5. /\ Current.load.E \in Nat /\ Current.load.G \in Nat
      /\ Current.load.D \in Nat /\ Current.load.M \in Nat
  BY <1>2
<1> DEFINE ours == cli.exits * cli.exitsBw
           theirs == cli.guards * cli.guardsBw
<1>6. NewTotals = [E |-> 1 + Current.load.E + ours, G |-> 1 + Current.load.G + theirs,
                   D |-> 1 + Current.load.D, M |-> 1 + Current.load.M]
  BY DEF NewTotals
<1>7. ours \in Nat /\ theirs \in Nat
  BY <1>4
<1> HIDE DEF ours, theirs
<1>8. /\ 1 + Current.load.E + ours \in Nat \ {0} /\ 1 + Current.load.G + theirs \in Nat \ {0}
      /\ 1 + Current.load.D \in Nat \ {0} /\ 1 + Current.load.M \in Nat \ {0}
  BY <1>5, <1>7, OneMore
<1> QED
  BY <1>6, <1>8 DEF Totals

LEMMA WeightsInvariant == Spec => []WeightsInv
<1>1. Init => WeightsInv
  <2> SUFFICES ASSUME Init PROVE WeightsInv
    OBVIOUS
  <2>1. PICK in \in Inputs : cli = in.cli /\ archive = in.archive
    BY DEF Init
  <2>2. in = [cli |-> cli, archive |-> archive]
    BY <2>1, InputAssumption DEF Input
  <2> QED
    BY <2>2 DEF Init, WeightsInv
<1>2. WeightsInv /\ [Next]_vars => WeightsInv'
  <2> SUFFICES ASSUME WeightsInv, [Next]_vars PROVE WeightsInv'
    OBVIOUS
  <2> USE DEF WeightsInv
  <2>1. CASE Setup
    BY <2>1, FoundAreFiles DEF Setup
  <2>2. CASE SetupFails
    BY <2>2 DEF SetupFails
  <2>3. CASE BeginEpoch
    <3>1. handles' \in Seq(archive')
      BY <2>3 DEF BeginEpoch
    <3>2. CASE ExtraRelays = {}
      BY <2>3, <3>1, <3>2 DEF BeginEpoch, ModifyConsensus
    <3>3. CASE ExtraRelays # {}
      <4>1. NewTotals \in Totals
        BY <2>3, NewTotalsTyped DEF BeginEpoch
      <4>2. ~Panics(NewTotals)
        BY <2>3, <3>3 DEF BeginEpoch, WeightsFail
      <4>3. totals' = NewTotals /\ weights' = Recompute(NewTotals)
        BY <2>3, <3>3 DEF BeginEpoch, ModifyConsensus
      <4>4. UNCHANGED <<cli, archive>>
        BY <2>3 DEF BeginEpoch
      <4> HIDE DEF WeightsInv
      <4>5. weights' # None =>
              totals' \in Totals /\ ~Panics(totals)' /\ weights' = Recompute(totals)'
        BY <4>1, <4>2, <4>3
      <4> QED
        BY <3>1, <4>4, <4>5 DEF WeightsInv
    <3> QED
      BY <3>2, <3>3
  <2>4. CASE BeginFails \/ IncompleteRelay
    BY <2>4 DEF BeginFails, IncompleteRelay
  <2>5. CASE WeightsPanic
    BY <2>5 DEF WeightsPanic
  <2>6. CASE EpochDone
    BY <2>6 DEF EpochDone
  <2>7. CASE ClientFails
    BY <2>7 DEF ClientFails
  <2>8. CASE Finish
    BY <2>8 DEF Finish
  <2>9. CASE UNCHANGED vars
    BY <2>9 DEF vars
  <2> QED
    BY <2>1, <2>2, <2>3, <2>4, <2>5, <2>6, <2>7, <2>8, <2>9 DEF Next
<1> QED
  BY <1>1, <1>2, PTL DEF Spec

(* The weights of a consensus are shares of the bandwidth of its relays,   *)
(* for every archive, adversary and Scale: the sums that WeightsAreShares  *)
(* names are within the margin, and no weight is negative.                 *)
THEOREM WeightsStayShares == Spec => []WeightsAreShares
<1>1. WeightsInv => WeightsAreShares
  BY RecomputedAreShares DEF WeightsInv, WeightsAreShares
<1> QED
  BY <1>1, WeightsInvariant, PTL

(* The weights of a consensus give the position that is worst off as much  *)
(* as any weights could, whatever relays the adversary adds.               *)
THEOREM WeightsStayOptimal == Spec => []WeightsAreOptimal
<1>1. WeightsInv => WeightsAreOptimal
  BY RecomputedAreOptimal DEF WeightsInv, WeightsAreOptimal
<1> QED
  BY <1>1, WeightsInvariant, PTL

-----------------------------------------------------------------------------
(* The numbers given so far are different, and all below their number, so  *)
(* that the next ones are free.                                            *)
Numbered(m) ==
  /\ IsFiniteSet(DOMAIN m)
  /\ m \in [DOMAIN m -> Nat]
  /\ \A x \in DOMAIN m : m[x] < Cardinality(DOMAIN m)
  /\ \A x, y \in DOMAIN m : m[x] = m[y] => x = y

IdsInv ==
  /\ [cli |-> cli, archive |-> archive] \in Inputs
  /\ handles \in Seq(archive)
  /\ Numbered(ids)

LEMMA RelaysFinite ==
  ASSUME NEW kind, NEW n \in Nat, NEW offset, NEW flags, NEW bandwidth
  PROVE  IsFiniteSet(Relays(kind, n, offset, flags, bandwidth))
<1> DEFINE f == [i \in 1 .. n |->
                   [fingerprint |-> <<kind, i>>, address |-> offset + i, flags |-> flags,
                    bandwidth |-> bandwidth]]
<1>1. IsFiniteSet(1 .. n)
  BY FS_Interval
<1>2. f = [i \in 1 .. n |-> f[i]]
  OBVIOUS
<1>3. Relays(kind, n, offset, flags, bandwidth) = {f[i] : i \in 1 .. n}
  BY DEF Relays
<1> HIDE DEF f
<1> QED
  BY <1>1, <1>2, <1>3, ValuesFinite

LEMMA ExitsFinite ==
  ASSUME [cli |-> cli, archive |-> archive] \in Inputs, handles \in Seq(archive), handles # <<>>
  PROVE  IsFiniteSet(Exits)
<1> DEFINE ours == {x \in ExtraRelays : "Exit" \in x.flags}
           f == [r \in ours |-> r.fingerprint]
<1>1. IsFiniteSet(ExtraRelays)
  <2>1. cli.guards \in Nat /\ cli.exits \in Nat
    BY InputTyped DEF Cli
  <2> QED
    BY <2>1, RelaysFinite, FS_Union DEF ExtraRelays
<1>2. IsFiniteSet(ours)
  BY <1>1, FS_Subset
<1>3. IsFiniteSet({r.fingerprint : r \in ours})
  <2>1. f = [r \in ours |-> f[r]] /\ {f[r] : r \in ours} = {r.fingerprint : r \in ours}
    OBVIOUS
  <2> HIDE DEF ours, f
  <2>2. IsFiniteSet({f[r] : r \in ours})
    BY <1>2, <2>1, ValuesFinite
  <2> QED
    BY <2>1, <2>2
<1>4. IsFiniteSet(Current.exits)
  <2>1. Head(handles) \in archive
    OBVIOUS
  <2> QED
    BY <2>1, InputTyped DEF Current
<1> QED
  BY <1>3, <1>4, FS_Union DEF Exits

(* Exits without a number get numbers nobody has, and nobody loses one.    *)
LEMMA AddConsensusNumbers ==
  ASSUME NEW exits, IsFiniteSet(exits), Numbered(ids), AddConsensus(exits)
  PROVE  /\ Numbered(ids')
         /\ \A x \in DOMAIN ids : x \in DOMAIN ids' /\ ids'[x] = ids[x]
<1> DEFINE news == exits \ DOMAIN ids
           next == Cardinality(DOMAIN ids)
<1>1. PICK new \in [news -> next .. next + Cardinality(news) - 1] :
        /\ \A x, y \in news : new[x] = new[y] => x = y
        /\ ids' = [x \in DOMAIN ids \cup news |-> IF x \in news THEN new[x] ELSE ids[x]]
  BY DEF AddConsensus
<1>2. IsFiniteSet(news) /\ IsFiniteSet(DOMAIN ids)
  BY FS_Difference DEF Numbered
<1>3. next \in Nat /\ Cardinality(news) \in Nat
  BY <1>2, FS_CardinalityType
<1>4. DOMAIN ids' = DOMAIN ids \cup news
  BY <1>1
<1>5. /\ IsFiniteSet(DOMAIN ids')
      /\ Cardinality(DOMAIN ids') = next + Cardinality(news)
  <2>1. DOMAIN ids \cap news = {}
    OBVIOUS
  <2>2. Cardinality(DOMAIN ids \cap news) = 0
    BY <2>1, FS_EmptySet
  <2>3. /\ IsFiniteSet(DOMAIN ids \cup news)
        /\ Cardinality(DOMAIN ids \cup news)
             = next + Cardinality(news) - Cardinality(DOMAIN ids \cap news)
    BY <1>2, FS_Union
  <2> QED
    BY <1>3, <1>4, <2>2, <2>3
<1> HIDE DEF news, next
<1>6. \A x \in DOMAIN ids : x \notin news /\ ids'[x] = ids[x]
  BY <1>1 DEF news
<1>7. \A x \in news : ids'[x] = new[x] /\ new[x] \in next .. next + Cardinality(news) - 1
  BY <1>1
<1>8. \A x \in DOMAIN ids : ids[x] \in Nat /\ ids[x] < next
  BY DEF Numbered, next
<1>9. ids' \in [DOMAIN ids' -> Nat]
  <2>1. \A x \in DOMAIN ids' : ids'[x] \in Nat
    BY <1>3, <1>4, <1>6, <1>7, <1>8
  <2>2. ids' = [x \in DOMAIN ids' |-> ids'[x]]
    BY <1>1
  <2> QED
    BY <2>1, <2>2
<1>10. \A x \in DOMAIN ids' : ids'[x] < Cardinality(DOMAIN ids')
  BY <1>3, <1>4, <1>5, <1>6, <1>7, <1>8
<1>11. \A x, y \in DOMAIN ids' : ids'[x] = ids'[y] => x = y
  <2> SUFFICES ASSUME NEW x \in DOMAIN ids', NEW y \in DOMAIN ids', ids'[x] = ids'[y]
               PROVE  x = y
    OBVIOUS
  <2>1. CASE x \in news /\ y \in news
    BY <1>1, <1>7, <2>1
  <2>2. CASE x \in DOMAIN ids /\ y \in DOMAIN ids
    BY <1>6, <2>2 DEF Numbered
  <2>3. CASE x \in news /\ y \in DOMAIN ids
    BY <1>3, <1>6, <1>7, <1>8, <2>3
  <2>4. CASE x \in DOMAIN ids /\ y \in news
    BY <1>3, <1>6, <1>7, <1>8, <2>4
  <2> QED
    BY <1>4, <2>1, <2>2, <2>3, <2>4
<1> QED
  BY <1>4, <1>5, <1>6, <1>9, <1>10, <1>11 DEF Numbered

(* An exit keeps the number it has got, and no other exit gets it, in      *)
(* however many consensuses they come and go.                              *)
THEOREM NumbersAreForLife == Spec => NumbersForLife
<1> DEFINE Kept == /\ \A x \in DOMAIN ids : x \in DOMAIN ids' /\ ids'[x] = ids[x]
                   /\ \A x, y \in DOMAIN ids' : ids'[x] = ids'[y] => x = y
<1>1. Init => IdsInv
  <2> SUFFICES ASSUME Init PROVE IdsInv
    OBVIOUS
  <2>1. PICK in \in Inputs : cli = in.cli /\ archive = in.archive
    BY DEF Init
  <2>2. in = [cli |-> cli, archive |-> archive]
    BY <2>1, InputAssumption DEF Input
  <2>3. DOMAIN ids = {}
    BY DEF Init
  <2>4. Numbered(ids)
    BY <2>3, FS_EmptySet DEF Init, Numbered
  <2> QED
    BY <2>2, <2>4 DEF Init, IdsInv
<1>2. IdsInv /\ [Next]_vars => IdsInv' /\ Kept
  <2> SUFFICES ASSUME IdsInv, [Next]_vars PROVE IdsInv' /\ Kept
    OBVIOUS
  <2>1. CASE BeginEpoch
    <3>1. IsFiniteSet(Exits)
      BY <2>1, ExitsFinite DEF IdsInv, BeginEpoch
    <3>2. /\ Numbered(ids')
          /\ \A x \in DOMAIN ids : x \in DOMAIN ids' /\ ids'[x] = ids[x]
      BY <2>1, <3>1, AddConsensusNumbers DEF IdsInv, BeginEpoch
    <3>3. Numbered(ids)'
      BY <3>2 DEF Numbered
    <3>4. handles' \in Seq(archive') /\ UNCHANGED <<cli, archive>>
      BY <2>1 DEF IdsInv, BeginEpoch
    <3> QED
      BY <3>2, <3>3, <3>4 DEF IdsInv, Numbered
  <2>2. CASE Setup
    <3>1. handles' \in Seq(archive') /\ UNCHANGED <<cli, archive, ids>>
      BY <2>2, FoundAreFiles DEF IdsInv, Setup
    <3> QED
      BY <3>1 DEF IdsInv, Numbered
  <2>3. CASE UNCHANGED <<cli, archive, handles, ids>>
    BY <2>3 DEF IdsInv, Numbered
  <2>4. [Next]_vars => BeginEpoch \/ Setup \/ UNCHANGED <<cli, archive, handles, ids>>
    BY DEF Next, vars, SetupFails, BeginFails, WeightsPanic, IncompleteRelay, EpochDone,
           ClientFails, Finish
  <2> QED
    BY <2>1, <2>2, <2>3, <2>4
<1>3. Kept => [Kept]_vars
  OBVIOUS
<1> QED
  <2>1. Init /\ [][Next]_vars => []IdsInv /\ [][Kept]_vars
    BY <1>1, <1>2, PTL
  <2> QED
    BY <2>1 DEF Spec, NumbersForLife

-----------------------------------------------------------------------------
(* The edges of the timespan exist once the simulation has begun.          *)
EdgesInv ==
  phase \in {"loading", "epoch", "ok"} \/ epochs # <<>> => Exists(cli.from) /\ Exists(cli.to)

TypeInv == TypeOK /\ Numbered(ids) /\ EdgesInv

LEMMA HeadTyped ==
  ASSUME [cli |-> cli, archive |-> archive] \in Inputs, handles \in Seq(archive), handles # <<>>
  PROVE  /\ Head(handles) \in archive /\ Current \in Document
         /\ HasNext => handles[2] \in archive /\ Upcoming \in Document
<1>1. Head(handles) \in archive
  OBVIOUS
<1>2. HasNext => handles[2] \in archive
  BY DEF HasNext
<1>3. \A f \in archive : f.doc \in Document
  BY InputTyped DEF File
<1> QED
  BY <1>1, <1>2, <1>3 DEF Current, Upcoming

LEMMA EdgesOfCli ==
  ASSUME [cli |-> cli, archive |-> archive] \in Inputs
  PROVE  cli.from \in Edge /\ cli.to \in Edge
BY InputTyped DEF Cli

LEMMA EpochTyped ==
  ASSUME [cli |-> cli, archive |-> archive] \in Inputs, handles \in Seq(archive), handles # <<>>,
         Usable, Exists(cli.to)
  PROVE  Current.valid_after \in Nat /\ EpochEnd \in Nat
<1>1. Current.valid_after \in Nat
  BY HeadTyped DEF Usable, Document
<1>2. HasNext /\ Upcoming.loads = "ok" => Upcoming.valid_after \in Nat
  BY HeadTyped DEF Usable, Document
<1>3. EndTime \in Nat
  BY EdgesOfCli, EdgesTyped DEF EndTime
<1>4. Current.valid_after + EpochLimit \in Nat
  BY <1>1, LimitAssumption
<1> QED
  BY <1>1, <1>2, <1>3, <1>4 DEF EpochEnd, Least

LEMMA ExitsNamed ==
  ASSUME [cli |-> cli, archive |-> archive] \in Inputs, handles \in Seq(archive), handles # <<>>
  PROVE  Exits \subseteq Fingerprint
<1>1. Current.exits \subseteq Fingerprint
  BY HeadTyped DEF Document, Fingerprint
<1>2. \A r \in ExtraRelays : r.fingerprint \in Fingerprint
  <2>1. \A kind \in {"0", "F"} : \A n \in Nat : \A offset, flags, bandwidth :
          \A r \in Relays(kind, n, offset, flags, bandwidth) : r.fingerprint \in {"0", "F"} \X Nat
    <3> TAKE kind \in {"0", "F"}
    <3> TAKE n \in Nat
    <3> TAKE offset, flags, bandwidth
    <3> TAKE r \in Relays(kind, n, offset, flags, bandwidth)
    <3>1. PICK i \in 1 .. n : r.fingerprint = <<kind, i>>
      BY DEF Relays
    <3>2. i \in Nat
      OBVIOUS
    <3> QED
      BY <3>1, <3>2
  <2>2. cli.guards \in Nat /\ cli.exits \in Nat
    BY InputTyped DEF Cli
  <2>3. \A r \in Relays("0", cli.guards, 0, {"Guard"}, cli.guardsBw) : r.fingerprint \in Fingerprint
    BY <2>1, <2>2 DEF Fingerprint
  <2>4. \A r \in Relays("F", cli.exits, cli.guards, {"Exit"}, cli.exitsBw) :
          r.fingerprint \in Fingerprint
    BY <2>1, <2>2 DEF Fingerprint
  <2> QED
    BY <2>3, <2>4 DEF ExtraRelays
<1> QED
  BY <1>1, <1>2 DEF Exits

LEMMA NumberedDomain ==
  ASSUME NEW exits, AddConsensus(exits), exits \subseteq Fingerprint, DOMAIN ids \subseteq Fingerprint
  PROVE  DOMAIN ids' \subseteq Fingerprint
<1>1. DOMAIN ids' = DOMAIN ids \cup (exits \ DOMAIN ids)
  BY DEF AddConsensus
<1> QED
  BY <1>1

LEMMA InitTyped == Init => TypeInv
<1> SUFFICES ASSUME Init PROVE TypeInv
  OBVIOUS
<1>1. PICK in \in Inputs : cli = in.cli /\ archive = in.archive
  BY DEF Init
<1>2. in = [cli |-> cli, archive |-> archive]
  BY <1>1, InputAssumption DEF Input
<1>3. DOMAIN ids = {} /\ ids \in [DOMAIN ids -> Nat]
  BY DEF Init
<1>4. Numbered(ids)
  BY <1>3, FS_EmptySet DEF Init, Numbered
<1>5. /\ phase = "start" /\ handles \in Seq(archive) /\ epochs \in Seq([start : Nat, end : Nat])
      /\ totals = None /\ weights = None
  BY DEF Init
<1>6. TypeOK
  BY <1>2, <1>3, <1>5 DEF TypeOK
<1> QED
  BY <1>4, <1>6 DEF TypeInv, EdgesInv, Init

LEMMA BeginEpochTyped ==
  ASSUME TypeInv, BeginEpoch
  PROVE  TypeInv'
<1>0. /\ [cli |-> cli, archive |-> archive] \in Inputs /\ handles \in Seq(archive)
      /\ handles # <<>> /\ Usable /\ ~WeightsFail /\ Exists(cli.from) /\ Exists(cli.to)
      /\ UNCHANGED <<cli, archive>> /\ phase' = "epoch"
  BY DEF TypeInv, TypeOK, EdgesInv, BeginEpoch
<1>1. handles' \in Seq(archive)
  BY <1>0 DEF BeginEpoch
<1>2. epochs' \in Seq([start : Nat, end : Nat])
  <2>1. [start |-> Current.valid_after, end |-> EpochEnd] \in [start : Nat, end : Nat]
    BY <1>0, EpochTyped
  <2> QED
    BY <2>1 DEF BeginEpoch, TypeInv, TypeOK
<1>3. totals' \in Totals \cup {None} /\ weights' \in Weights \cup {None}
  BY <1>0, NewTotalsTyped, RecomputedTyped DEF BeginEpoch, ModifyConsensus
<1>4. AddConsensus(Exits)
  BY DEF BeginEpoch
<1>5. Numbered(ids')
  BY <1>0, <1>4, ExitsFinite, AddConsensusNumbers DEF TypeInv
<1>6. DOMAIN ids' \subseteq Fingerprint
  BY <1>0, <1>4, ExitsNamed, NumberedDomain DEF TypeInv, TypeOK
<1>7. TypeOK'
  BY <1>0, <1>1, <1>2, <1>3, <1>5, <1>6 DEF TypeOK, Numbered
<1>8. Numbered(ids)'
  BY <1>5 DEF Numbered
<1>9. EdgesInv'
  BY <1>0 DEF EdgesInv
<1> QED
  BY <1>7, <1>8, <1>9 DEF TypeInv

LEMMA NextTyped == TypeInv /\ [Next]_vars => TypeInv'
<1> SUFFICES ASSUME TypeInv, [Next]_vars PROVE TypeInv'
  OBVIOUS
<1>0. TypeOK /\ Numbered(ids) /\ EdgesInv
  BY DEF TypeInv
<1>1. CASE Setup
  <2>1. handles' \in Seq(archive)
    BY <1>0, <1>1, FoundAreFiles DEF Setup, TypeOK
  <2> QED
    BY <1>0, <1>1, <2>1 DEF Setup, TypeInv, TypeOK, EdgesInv, Numbered
<1>2. CASE SetupFails
  BY <1>0, <1>2 DEF SetupFails, TypeInv, TypeOK, EdgesInv, Numbered
<1>3. CASE BeginEpoch
  BY <1>3, BeginEpochTyped
<1>4. CASE BeginFails \/ IncompleteRelay
  BY <1>0, <1>4 DEF BeginFails, IncompleteRelay, TypeInv, TypeOK, EdgesInv, Numbered
<1>5. CASE WeightsPanic
  <2>1. totals' \in Totals
    BY <1>0, <1>5, NewTotalsTyped DEF WeightsPanic, TypeOK
  <2> QED
    BY <1>0, <1>5, <2>1 DEF WeightsPanic, TypeInv, TypeOK, EdgesInv, Numbered
<1>6. CASE EpochDone
  BY <1>0, <1>6 DEF EpochDone, TypeInv, TypeOK, EdgesInv, Numbered
<1>7. CASE ClientFails
  BY <1>0, <1>7 DEF ClientFails, TypeInv, TypeOK, EdgesInv, Numbered
<1>8. CASE Finish
  BY <1>0, <1>8 DEF Finish, TypeInv, TypeOK, EdgesInv, Numbered
<1>9. CASE UNCHANGED vars
  BY <1>0, <1>9 DEF vars, TypeInv, TypeOK, EdgesInv, Numbered
<1> QED
  BY <1>1, <1>2, <1>3, <1>4, <1>5, <1>6, <1>7, <1>8, <1>9 DEF Next

(* The state of a simulation has the types of the code's variables: every  *)
(* epoch has a beginning and an end, though a consensus may lack its time. *)
THEOREM SimulatorTyped == Spec => []TypeOK
<1>1. Spec => []TypeInv
  BY InitTyped, NextTyped, PTL DEF Spec
<1>2. TypeInv => TypeOK
  BY DEF TypeInv
<1> QED
  BY <1>1, <1>2, PTL

-----------------------------------------------------------------------------
(* What is known of the files that are still to be simulated ...           *)
HandlesInv ==
  /\ \A i \in DOMAIN handles : handles[i] \in Matching(archive, cli.from, cli.to)
  /\ \A i, j \in DOMAIN handles : i < j => handles[i].time < handles[j].time

(* ... and of the epochs: each begins at the time of a file, and ends      *)
(* where the next one begins.                                              *)
TilesInv ==
  \A i \in DOMAIN epochs :
    /\ \E f \in Matching(archive, cli.from, cli.to) : f.time = epochs[i].start
    /\ epochs[i].start <= epochs[i].end /\ epochs[i].end <= LastDatetime(cli.to)
    /\ i > 1 => epochs[i].start = epochs[i - 1].end

(* The last epoch ends at the time of the file ahead, unless that file     *)
(* cannot be used: peek may have looked away from an error, but then the   *)
(* loop meets it.                                                          *)
ContinuesInv ==
  phase \in {"loading", "epoch"} /\ epochs # <<>> /\ handles # <<>> =>
    \/ Current.loads # "ok" \/ Current.valid_after = None
    \/ epochs[Len(epochs)].end = Head(handles).time

(* No file gets lost between the two.                                      *)
WholeInv ==
  /\ phase = "start" => epochs = <<>>
  /\ phase \in {"loading", "epoch", "ok"} =>
       \A f \in Matching(archive, cli.from, cli.to) :
         \/ \E i \in DOMAIN epochs : epochs[i].start = f.time
         \/ \E j \in DOMAIN handles : handles[j] = f
  /\ phase = "ok" => handles = <<>>

EpochsInv == TypeInv /\ HandlesInv /\ TilesInv /\ ContinuesInv /\ WholeInv

LEMMA SeqElement ==
  ASSUME NEW S, NEW s \in Seq(S), NEW i \in DOMAIN s
  PROVE  s # <<>> /\ s[i] \in S
OBVIOUS

(* InputAssumption, for the archive of the state.                          *)
LEMMA ArchiveSorted ==
  ASSUME [cli |-> cli, archive |-> archive] \in Inputs
  PROVE  /\ Sorted(archive)
         /\ \A f \in archive : f.time \in Nat /\ f.doc.valid_after \in {f.time, None}
         /\ \A f, g \in archive : f.time = g.time => f = g
<1> DEFINE in == [cli |-> cli, archive |-> archive]
<1>1. /\ in \in Input
      /\ \A f \in in.archive : /\ InMonth(f.year, f.month, f.time)
                               /\ f.doc.valid_after \in {f.time, None}
      /\ \A f, g \in in.archive : f.time = g.time => f = g
  BY InputAssumption
<1>2. archive \subseteq File
  BY InputTyped
<1>3. \A f \in archive : f.year \in Year /\ f.month \in Month /\ f.time \in Nat
  BY <1>2 DEF File
<1> QED
  BY <1>1, <1>3 DEF Sorted

LEMMA MatchingTimes ==
  ASSUME [cli |-> cli, archive |-> archive] \in Inputs, Exists(cli.from), Exists(cli.to),
         NEW f \in Matching(archive, cli.from, cli.to)
  PROVE  /\ f \in archive /\ f.time \in Nat /\ Between(f.time, cli.from, cli.to)
         /\ FirstDatetime(cli.from) <= f.time /\ f.time <= LastDatetime(cli.to)
<1>1. f \in archive
  BY DEF Matching
<1>2. f.time \in Nat
  BY <1>1, ArchiveSorted
<1>3. Between(f.time, cli.from, cli.to)
  BY <1>1, ArchiveSorted, EdgesOfCli, MatchingIs
<1> QED
  BY <1>1, <1>2, <1>3, EdgesOfCli, BetweenIs

LEMMA SetupEpochs ==
  ASSUME EpochsInv, Setup
  PROVE  HandlesInv' /\ TilesInv' /\ ContinuesInv' /\ WholeInv'
<1>1. [cli |-> cli, archive |-> archive] \in Inputs /\ epochs = <<>>
  BY DEF EpochsInv, TypeInv, TypeOK, WholeInv, Setup
<1>2. IsFiniteSet(archive) /\ handles' \in FindConsensuses(archive, cli.from, cli.to)
  BY <1>1, InputTyped DEF Setup
<1>3. /\ \A i \in DOMAIN handles' : handles'[i] \in Matching(archive, cli.from, cli.to)
      /\ \A f \in Matching(archive, cli.from, cli.to) : \E i \in DOMAIN handles' : handles'[i] = f
      /\ \A i, j \in DOMAIN handles' : i < j => handles'[i].time < handles'[j].time
  BY <1>1, <1>2, ArchiveSorted, FoundAreMatching
<1>4. UNCHANGED <<cli, archive, epochs>> /\ phase' = "loading"
  BY DEF Setup
<1>5. HandlesInv'
  BY <1>3, <1>4 DEF HandlesInv
<1>6. TilesInv' /\ ContinuesInv'
  BY <1>1, <1>4 DEF TilesInv, ContinuesInv
<1>7. WholeInv'
  BY <1>3, <1>4 DEF WholeInv
<1> QED
  BY <1>5, <1>6, <1>7

(* The epoch that begins.                                                  *)
LEMMA NewEpoch ==
  ASSUME EpochsInv, BeginEpoch
  PROVE  /\ Current.valid_after = Head(handles).time /\ Head(handles).time \in Nat
         /\ EpochEnd \in Nat /\ Head(handles).time <= EpochEnd /\ EpochEnd <= EndTime
         /\ HasNext /\ Upcoming.loads = "ok" => EpochEnd = handles[2].time
<1>0. /\ [cli |-> cli, archive |-> archive] \in Inputs /\ handles \in Seq(archive)
      /\ handles # <<>> /\ Usable /\ Exists(cli.from) /\ Exists(cli.to)
  BY DEF EpochsInv, TypeInv, TypeOK, EdgesInv, BeginEpoch
<1>1. /\ Current.valid_after \in Nat /\ EpochEnd \in Nat
  BY <1>0, EpochTyped
<1>2. /\ 1 \in DOMAIN handles /\ Head(handles) = handles[1]
      /\ HasNext => 2 \in DOMAIN handles
  BY <1>0 DEF HasNext
<1>3. /\ handles[1] \in Matching(archive, cli.from, cli.to)
      /\ HasNext => /\ handles[2] \in Matching(archive, cli.from, cli.to)
                    /\ handles[1].time < handles[2].time
  BY <1>2 DEF EpochsInv, HandlesInv
<1>4. /\ handles[1] \in archive /\ handles[1].time \in Nat
      /\ handles[1].time <= LastDatetime(cli.to)
  BY <1>0, <1>3, MatchingTimes
<1>5. HasNext => /\ handles[2] \in archive /\ handles[2].time \in Nat
                 /\ handles[2].time <= LastDatetime(cli.to)
  BY <1>0, <1>3, MatchingTimes
<1>6. Current.valid_after = handles[1].time
  <2>1. handles[1].doc.valid_after \in {handles[1].time, None}
    BY <1>0, <1>4, ArchiveSorted
  <2>2. Current.valid_after # None /\ Current = handles[1].doc
    BY <1>0, <1>2 DEF Usable, Current
  <2> QED
    BY <2>1, <2>2
<1>7. HasNext /\ Upcoming.loads = "ok" => Upcoming.valid_after = handles[2].time
  <2> HAVE HasNext /\ Upcoming.loads = "ok"
  <2>1. handles[2].doc.valid_after \in {handles[2].time, None}
    BY <1>0, <1>5, ArchiveSorted
  <2>2. Upcoming.valid_after # None /\ Upcoming = handles[2].doc
    BY <1>0 DEF Usable, Upcoming
  <2> QED
    BY <2>1, <2>2
<1>8. EndTime = LastDatetime(cli.to) /\ EndTime \in Nat
  BY <1>0, EdgesOfCli, EdgesTyped DEF EndTime
<1>9. EpochLimit \in Nat
  BY LimitAssumption
<1>10. CASE HasNext /\ Upcoming.loads = "ok"
  <2>1. EpochEnd = Least(handles[2].time, EndTime)
    BY <1>7, <1>10 DEF EpochEnd
  <2> QED
    BY <1>1, <1>2, <1>3, <1>4, <1>5, <1>6, <1>8, <1>10, <2>1 DEF Least
<1>11. CASE ~(HasNext /\ Upcoming.loads = "ok")
  <2>1. EpochEnd = Least(handles[1].time + EpochLimit, EndTime)
    BY <1>6, <1>11 DEF EpochEnd
  <2> QED
    BY <1>1, <1>2, <1>4, <1>6, <1>8, <1>9, <1>11, <2>1 DEF Least
<1> QED
  BY <1>10, <1>11

LEMMA BeginEpochEpochs ==
  ASSUME EpochsInv, BeginEpoch
  PROVE  HandlesInv' /\ TilesInv' /\ ContinuesInv' /\ WholeInv'
<1> DEFINE n == Len(epochs)
           new == [start |-> Current.valid_after, end |-> EpochEnd]
<1>0. /\ [cli |-> cli, archive |-> archive] \in Inputs /\ handles \in Seq(archive)
      /\ handles # <<>> /\ Usable /\ phase = "loading" /\ phase' = "epoch"
      /\ UNCHANGED <<cli, archive>> /\ handles' = Tail(handles) /\ epochs' = Append(epochs, new)
      /\ epochs \in Seq([start : Nat, end : Nat])
  BY DEF EpochsInv, TypeInv, TypeOK, BeginEpoch
<1>1. /\ new.start = Head(handles).time /\ Head(handles).time \in Nat
      /\ new.end \in Nat /\ Head(handles).time <= new.end /\ new.end <= LastDatetime(cli.to)
      /\ HasNext /\ Upcoming.loads = "ok" => new.end = handles[2].time
  BY NewEpoch DEF EndTime
<1>2. /\ n \in Nat /\ DOMAIN epochs = 1 .. n /\ Len(epochs') = n + 1 /\ DOMAIN epochs' = 1 .. n + 1
      /\ epochs'[n + 1] = new /\ \A i \in 1 .. n : epochs'[i] = epochs[i]
  BY <1>0
<1>3. /\ Len(handles) \in Nat \ {0} /\ DOMAIN handles = 1 .. Len(handles)
      /\ DOMAIN handles' = 1 .. Len(handles) - 1
      /\ \A i \in DOMAIN handles' : i + 1 \in DOMAIN handles /\ handles'[i] = handles[i + 1]
      /\ Head(handles) = handles[1]
  BY <1>0
<1>4. /\ \A i \in DOMAIN handles : handles[i] \in Matching(archive, cli.from, cli.to)
      /\ \A i, j \in DOMAIN handles : i < j => handles[i].time < handles[j].time
  BY DEF EpochsInv, HandlesInv
<1>5. HandlesInv'
  <2>1. \A i \in DOMAIN handles' : handles'[i] \in Matching(archive, cli.from, cli.to)
    BY <1>3, <1>4
  <2>2. \A i, j \in DOMAIN handles' : i < j => handles'[i].time < handles'[j].time
    <3> TAKE i, j \in DOMAIN handles'
    <3> HAVE i < j
    <3>1. /\ i + 1 \in DOMAIN handles /\ j + 1 \in DOMAIN handles /\ i + 1 < j + 1
          /\ handles'[i] = handles[i + 1] /\ handles'[j] = handles[j + 1]
      BY <1>3
    <3> QED
      BY <1>4, <3>1
  <2> QED
    BY <1>0, <2>1, <2>2 DEF HandlesInv
<1> HIDE DEF new
<1>6. n > 0 => epochs[n].end = Head(handles).time
  BY <1>0, <1>2 DEF EpochsInv, ContinuesInv, Usable
<1>7. TilesInv'
  <2> SUFFICES ASSUME NEW i \in 1 .. n + 1
               PROVE  /\ \E f \in Matching(archive, cli.from, cli.to) : f.time = epochs'[i].start
                      /\ epochs'[i].start <= epochs'[i].end
                      /\ epochs'[i].end <= LastDatetime(cli.to)
                      /\ i > 1 => epochs'[i].start = epochs'[i - 1].end
    BY <1>0, <1>2 DEF TilesInv
  <2>1. CASE i \in 1 .. n
    <3>1. i > 1 => i - 1 \in 1 .. n
      BY <1>2
    <3> QED
      BY <1>2, <2>1, <3>1 DEF EpochsInv, TilesInv
  <2>2. CASE i = n + 1
    <3>1. handles[1] \in Matching(archive, cli.from, cli.to)
      BY <1>3, <1>4
    <3>2. i > 1 => n \in 1 .. n /\ n > 0 /\ i - 1 = n
      BY <1>2, <2>2
    <3> QED
      BY <1>1, <1>2, <1>3, <1>6, <2>2, <3>1, <3>2
  <2> QED
    BY <1>2, <2>1, <2>2
<1>8. ContinuesInv'
  <2> SUFFICES ASSUME handles' # <<>>, Current'.loads = "ok"
               PROVE  epochs'[Len(epochs')].end = Head(handles').time
    BY DEF ContinuesInv
  <2>1. Len(handles) > 1
    BY <1>0
  <2>2. Head(handles') = handles[2]
    BY <1>0, <2>1
  <2>3. HasNext /\ Upcoming.loads = "ok"
    BY <2>1, <2>2 DEF HasNext, Upcoming, Current
  <2> QED
    BY <1>1, <1>2, <2>2, <2>3
<1>9. WholeInv'
  <2> SUFFICES ASSUME NEW f \in Matching(archive, cli.from, cli.to)
               PROVE  \/ \E i \in DOMAIN epochs' : epochs'[i].start = f.time
                      \/ \E j \in DOMAIN handles' : handles'[j] = f
    BY <1>0 DEF WholeInv
  <2>1. CASE \E i \in DOMAIN epochs : epochs[i].start = f.time
    <3>1. PICK i \in 1 .. n : epochs[i].start = f.time
      BY <1>2, <2>1
    <3>2. i \in 1 .. n + 1 /\ epochs'[i].start = f.time
      BY <1>2, <3>1
    <3> QED
      BY <1>2, <3>2
  <2>2. CASE \E j \in DOMAIN handles : handles[j] = f
    <3>1. PICK j \in DOMAIN handles : handles[j] = f
      BY <2>2
    <3>2. CASE j = 1
      <4>1. n + 1 \in DOMAIN epochs' /\ epochs'[n + 1].start = f.time
        BY <1>1, <1>2, <1>3, <3>1, <3>2
      <4> QED
        BY <4>1
    <3>3. CASE j # 1
      <4>1. j - 1 \in DOMAIN handles' /\ handles'[j - 1] = handles[(j - 1) + 1] /\ (j - 1) + 1 = j
        BY <1>3, <3>3
      <4> QED
        BY <3>1, <4>1
    <3> QED
      BY <3>2, <3>3
  <2> QED
    BY <1>0, <2>1, <2>2 DEF EpochsInv, WholeInv
<1> QED
  BY <1>5, <1>7, <1>8, <1>9

LEMMA EpochsInductive ==
  /\ Init => EpochsInv
  /\ EpochsInv /\ [Next]_vars => EpochsInv'
<1>1. Init => EpochsInv
  <2> SUFFICES ASSUME Init PROVE EpochsInv
    OBVIOUS
  <2>1. phase = "start" /\ handles = <<>> /\ epochs = <<>>
    BY DEF Init
  <2> QED
    BY <2>1, InitTyped DEF EpochsInv, HandlesInv, TilesInv, ContinuesInv, WholeInv
<1>2. ASSUME EpochsInv, [Next]_vars PROVE EpochsInv'
  <2>0. TypeInv'
    BY <1>2, NextTyped DEF EpochsInv
  <2> SUFFICES HandlesInv' /\ TilesInv' /\ ContinuesInv' /\ WholeInv'
    BY <2>0 DEF EpochsInv
  <2>1. CASE Setup
    BY <1>2, <2>1, SetupEpochs
  <2>2. CASE BeginEpoch
    BY <1>2, <2>2, BeginEpochEpochs
  <2>3. CASE ~Setup /\ ~BeginEpoch
    <3>1. /\ UNCHANGED <<cli, archive, handles, epochs>>
          /\ \/ UNCHANGED phase
             \/ phase' \in {"error", "panic"}
             \/ phase = "epoch" /\ phase' = "loading"
             \/ phase = "loading" /\ phase' = "ok" /\ handles = <<>>
      BY <1>2, <2>3 DEF Next, vars, SetupFails, BeginFails, WeightsPanic, IncompleteRelay,
                        EpochDone, ClientFails, Finish
    <3>2. HandlesInv /\ TilesInv /\ ContinuesInv /\ WholeInv
      BY <1>2 DEF EpochsInv
    <3>3. HandlesInv' /\ TilesInv'
      BY <3>1, <3>2 DEF HandlesInv, TilesInv
    <3>4. ContinuesInv'
      BY <3>1, <3>2 DEF ContinuesInv, Current
    <3>5. WholeInv'
      BY <3>1, <3>2 DEF WholeInv
    <3> QED
      BY <3>3, <3>4, <3>5
  <2> QED
    BY <2>1, <2>2, <2>3
<1> QED
  BY <1>1, <1>2

(* For every archive and every timespan, the loop starts with just the     *)
(* files of the timespan, in their order: neither the tests on directories *)
(* nor the ends of months and years cost one.                              *)
THEOREM ConsensusesAreRight == Spec => []RightConsensuses
<1>1. EpochsInv => RightConsensuses
  <2> SUFFICES ASSUME EpochsInv, phase = "loading", epochs = <<>>
               PROVE  /\ {handles[i] : i \in DOMAIN handles}
                           = {f \in archive : Between(f.time, cli.from, cli.to)}
                      /\ \A i, j \in DOMAIN handles : i < j => handles[i].time < handles[j].time
    BY DEF RightConsensuses
  <2>0. [cli |-> cli, archive |-> archive] \in Inputs /\ Exists(cli.from) /\ Exists(cli.to)
    BY DEF EpochsInv, TypeInv, TypeOK, EdgesInv
  <2>1. \A i \in DOMAIN handles : handles[i] \in Matching(archive, cli.from, cli.to)
    BY DEF EpochsInv, HandlesInv
  <2>2. \A f \in Matching(archive, cli.from, cli.to) : \E j \in DOMAIN handles : handles[j] = f
    BY DEF EpochsInv, WholeInv
  <2>3. \A f \in archive : f \in Matching(archive, cli.from, cli.to)
                            <=> Between(f.time, cli.from, cli.to)
    BY <2>0, ArchiveSorted, EdgesOfCli, MatchingIs
  <2>4. \A f \in Matching(archive, cli.from, cli.to) : f \in archive
    BY DEF Matching
  <2>5. {handles[i] : i \in DOMAIN handles} = {f \in archive : Between(f.time, cli.from, cli.to)}
    BY <2>1, <2>2, <2>3, <2>4
  <2> QED
    BY <2>5 DEF EpochsInv, HandlesInv
<1> QED
  BY <1>1, EpochsInductive, PTL DEF Spec

(* The epochs follow one another without a gap or an overlap, within the   *)
(* timespan, whatever errors peek looks away from.                         *)
THEOREM EpochsAreTiled == Spec => []EpochsTile
<1>1. EpochsInv => EpochsTile
  <2> SUFFICES ASSUME EpochsInv, NEW i \in DOMAIN epochs
               PROVE  /\ Between(epochs[i].start, cli.from, cli.to)
                      /\ Between(epochs[i].end, cli.from, cli.to)
                      /\ epochs[i].start <= epochs[i].end
                      /\ i > 1 => epochs[i].start = epochs[i - 1].end
    BY DEF EpochsTile
  <2>0. /\ [cli |-> cli, archive |-> archive] \in Inputs /\ Exists(cli.from) /\ Exists(cli.to)
        /\ epochs[i].start \in Nat /\ epochs[i].end \in Nat
    <3>1. /\ [cli |-> cli, archive |-> archive] \in Inputs
          /\ epochs \in Seq([start : Nat, end : Nat])
      BY DEF EpochsInv, TypeInv, TypeOK
    <3>2. epochs # <<>> /\ epochs[i] \in [start : Nat, end : Nat]
      BY <3>1, SeqElement
    <3> QED
      BY <3>1, <3>2 DEF EpochsInv, TypeInv, EdgesInv
  <2>1. PICK f \in Matching(archive, cli.from, cli.to) : f.time = epochs[i].start
    BY DEF EpochsInv, TilesInv
  <2>2. /\ epochs[i].start <= epochs[i].end /\ epochs[i].end <= LastDatetime(cli.to)
        /\ i > 1 => epochs[i].start = epochs[i - 1].end
    BY DEF EpochsInv, TilesInv
  <2>3. /\ Between(epochs[i].start, cli.from, cli.to)
        /\ FirstDatetime(cli.from) <= epochs[i].start
    BY <2>0, <2>1, MatchingTimes
  <2>4. FirstDatetime(cli.from) \in Nat
    BY <2>0, EdgesOfCli, EdgesTyped
  <2>5. FirstDatetime(cli.from) <= epochs[i].end
    BY <2>0, <2>2, <2>3, <2>4
  <2>6. Between(epochs[i].end, cli.from, cli.to)
    BY <2>0, <2>2, <2>5, EdgesOfCli, BetweenIs
  <2> QED
    BY <2>2, <2>3, <2>6
<1> QED
  BY <1>1, EpochsInductive, PTL DEF Spec

(* A simulation that succeeds has simulated every consensus of the         *)
(* timespan, and no other.                                                 *)
THEOREM SuccessCoversTimespan == Spec => []SuccessIsWhole
<1>1. EpochsInv => SuccessIsWhole
  <2> SUFFICES ASSUME EpochsInv, phase = "ok"
               PROVE  {epochs[i].start : i \in DOMAIN epochs}
                        = {f.time : f \in {x \in archive : Between(x.time, cli.from, cli.to)}}
    BY DEF SuccessIsWhole
  <2>0. [cli |-> cli, archive |-> archive] \in Inputs /\ Exists(cli.from) /\ Exists(cli.to)
    BY DEF EpochsInv, TypeInv, TypeOK, EdgesInv
  <2>1. \A f \in Matching(archive, cli.from, cli.to) : \E i \in DOMAIN epochs : epochs[i].start = f.time
    <3>1. handles = <<>>
      BY DEF EpochsInv, WholeInv
    <3>2. ~\E j \in DOMAIN handles : TRUE
      BY <3>1
    <3> QED
      BY <3>2 DEF EpochsInv, WholeInv
  <2>2. \A i \in DOMAIN epochs : \E f \in Matching(archive, cli.from, cli.to) : f.time = epochs[i].start
    BY DEF EpochsInv, TilesInv
  <2>3. \A f \in archive : f \in Matching(archive, cli.from, cli.to)
                            <=> Between(f.time, cli.from, cli.to)
    BY <2>0, ArchiveSorted, EdgesOfCli, MatchingIs
  <2>4. \A f \in Matching(archive, cli.from, cli.to) : f \in archive
    BY DEF Matching
  <2> QED
    BY <2>1, <2>2, <2>3, <2>4
<1> QED
  BY <1>1, EpochsInductive, PTL DEF Spec

=============================================================================
