---------------------------- MODULE UserRequests ----------------------------
(***************************************************************************)
(* The times at which one simulated client does something: the user model  *)
(* that makes its requests (PrivcountUser in src/src/user.rs, with the     *)
(* Markov chains of src/src/packet_model), the loop of the client that     *)
(* takes them (Client::handle_new_epoch in src/src/client.rs) and the      *)
(* epochs of the simulator (src/src/sim.rs).                               *)
(*                                                                         *)
(* The user starts a flow after a random time; a flow is a Markov chain    *)
(* that opens streams; a stream, the request, is a second chain, which     *)
(* gives the times of its packets.  After a request the user waits until   *)
(* its last packet.  The client looks at the next request (peek) and takes *)
(* it if its time is in the current epoch.                                 *)
(*                                                                         *)
(* Of a Markov chain only its time and whether it has stopped is kept: the *)
(* states, weights and distributions give any event and any delay.         *)
(*                                                                         *)
(* A definition whose name ends in Bug is a seeded fault: nothing uses it, *)
(* and a property must fail when it takes the place of the definition      *)
(* that follows it.                                                        *)
(***************************************************************************)
EXTENDS Integers, Sequences

CONSTANTS
  From,         \* start_time, where the user models begin
  EndTime,      \* end_time, the not_after of all models
  Starts,       \* the valid_after of the consensuses, in order
  LastEpoch,    \* the length of the epoch of the last consensus (3 hours)
  Delays,       \* the delays a chain and the flow model may sample
  MaxPackets,   \* bound on the packets of a stream
  MaxTime,      \* bound on the start of a flow
  None          \* Rust's None

ASSUME TimeAssumption ==
  /\ From \in Nat /\ EndTime \in Nat /\ From < EndTime
  /\ LastEpoch \in Nat /\ Delays \subseteq Nat /\ MaxTime \in Nat
ASSUME StartsAssumption ==
  /\ Starts \in Seq(Nat)
  /\ \A i \in DOMAIN Starts : From <= Starts[i] /\ Starts[i] <= EndTime
  /\ \A i, j \in DOMAIN Starts : i < j => Starts[i] < Starts[j]
ASSUME PacketsAssumption == MaxPackets \in Nat

VARIABLES
  flowTime,  \* current_time of the ExponentialFlowModel
  flow,      \* current_flow: the chain that opens streams, or None
  stream,    \* the chain that makes the packets of the request
  packets,   \* the packet_timestamps made so far
  opened,    \* the time of the request that is being made
  request,   \* the request in the Peekable, or None
  phase,     \* what the client is doing
  epoch,     \* the number of the current epoch
  updated,   \* the time of the last timed_client_updates, or None
  served,    \* the last request the client has taken, or None
  due        \* for the properties: when the flow is due to open its next stream

vars == <<flowTime, flow, stream, packets, opened, request, phase, epoch, updated, served, due>>

-----------------------------------------------------------------------------
Chain == [time : Nat, stopped : BOOLEAN]

Request == [time : Nat, packets : Seq(Nat)]

ASSUME NoneAssumption == None \notin Nat \cup Chain \cup Request

NewChain(t) == [time |-> t, stopped |-> FALSE]

(* MarkovChain::get_next, but for its result, when the delay is d and the  *)
(* chain does not stop: its time does not leave the simulated time.        *)
Advance(chain, d) ==
  IF d >= EndTime - chain.time
  THEN [time |-> EndTime, stopped |-> TRUE]
  ELSE [time |-> chain.time + d, stopped |-> chain.stopped]

EpochStart == Starts[epoch]

(* range_end: where the next epoch starts, but not after the end.          *)
EpochEndBug ==
  IF EpochStart + LastEpoch < EndTime THEN EpochStart + LastEpoch ELSE EndTime

EpochEnd ==
  LET end == IF epoch < Len(Starts) THEN Starts[epoch + 1] ELSE EpochStart + LastEpoch
  IN  IF end < EndTime THEN end ELSE EndTime

Init ==
  /\ flowTime = From
  /\ flow = None
  /\ stream = NewChain(From)
  /\ packets = <<>>
  /\ opened = From
  /\ request = None
  /\ phase = "epoch"
  /\ epoch = 0
  /\ updated = None
  /\ served = None
  /\ due = None

-----------------------------------------------------------------------------
(* The simulator triggers the client for the next epoch, or ends.          *)
BeginEpoch ==
  /\ phase = "epoch"
  /\ epoch < Len(Starts)
  /\ epoch' = epoch + 1
  /\ updated' = Starts[epoch + 1]
  /\ phase' = "loop"
  /\ UNCHANGED <<flowTime, flow, stream, packets, opened, request, served, due>>

EndSimulation ==
  /\ phase = "epoch"
  /\ epoch = Len(Starts)
  /\ phase' = "end"
  /\ UNCHANGED <<flowTime, flow, stream, packets, opened, request, epoch, updated, served, due>>

(* peek, when the Peekable is empty: the user model is asked.              *)
Peek ==
  /\ phase = "loop"
  /\ request = None
  /\ phase' = "user"
  /\ UNCHANGED <<flowTime, flow, stream, packets, opened, request, epoch, updated, served, due>>

InEpochBug(r) == EpochStart <= r.time /\ r.time <= EpochEnd

InEpoch(r) == EpochStart <= r.time /\ r.time < EpochEnd

(* The request is taken; the manager is brought up to its time.            *)
Consume ==
  /\ phase = "loop"
  /\ request # None
  /\ InEpoch(request)
  /\ served' = request
  /\ updated' = request.time
  /\ request' = None
  /\ UNCHANGED <<flowTime, flow, stream, packets, opened, phase, epoch, due>>

(* The request stays in the Peekable, and the epoch is over.               *)
Break ==
  /\ phase = "loop"
  /\ request # None
  /\ ~InEpoch(request)
  /\ phase' = "epoch"
  /\ UNCHANGED <<flowTime, flow, stream, packets, opened, request, epoch, updated, served, due>>

-----------------------------------------------------------------------------
(* ExponentialFlowModel::next: the time of the next flow.                  *)
NextFlow(d) == flowTime + d

(* PrivcountUser::next without an active flow: one is started.             *)
StartFlow(d) ==
  /\ phase = "user"
  /\ flow = None
  /\ NextFlow(d) <= MaxTime
  /\ flowTime' = NextFlow(d)
  /\ flow' = NewChain(flowTime')
  /\ UNCHANGED <<stream, packets, opened, request, phase, epoch, updated, served, due>>

(* PrivcountUser::next in a flow: the chain opens a stream.                *)
OpenStreamBug(d) ==
  /\ phase = "user"
  /\ flow # None
  /\ ~flow.stopped
  /\ opened' = flow.time
  /\ flowTime' = flow.time
  /\ flow' = Advance(flow, d)
  /\ stream' = NewChain(flow.time)
  /\ phase' = "packets"
  /\ due' = flow'.time
  /\ UNCHANGED <<packets, request, epoch, updated, served>>

OpenStream(d) ==
  /\ phase = "user"
  /\ flow # None
  /\ ~flow.stopped
  /\ opened' = flow.time
  /\ flowTime' = flow.time
  /\ flow' = Advance(flow, d)
  /\ stream' = NewChain(flow.time)
  /\ packets' = <<>>
  /\ phase' = "packets"
  /\ due' = flow'.time
  /\ UNCHANGED <<request, epoch, updated, served>>

(* ... or stops, if it has not stopped before.                             *)
EndFlow ==
  /\ phase = "user"
  /\ flow # None
  /\ flow' = None
  /\ due' = None
  /\ UNCHANGED <<flowTime, stream, packets, opened, request, phase, epoch, updated, served>>

(* generate_timestamps: a packet; only those of the server are recorded.   *)
PacketBug(d, fromServer) ==
  /\ phase = "packets"
  /\ ~stream.stopped
  /\ Len(packets) < MaxPackets
  /\ stream' = Advance(stream, d)
  /\ packets' = IF fromServer THEN Append(packets, stream.time) ELSE packets
  /\ UNCHANGED <<flowTime, flow, opened, request, phase, epoch, updated, served, due>>

Packet(d, fromServer) ==
  /\ phase = "packets"
  /\ ~stream.stopped
  /\ stream.time <= EndTime
  /\ Len(packets) < MaxPackets
  /\ stream' = Advance(stream, d)
  /\ packets' = IF fromServer THEN Append(packets, stream.time) ELSE packets
  /\ UNCHANGED <<flowTime, flow, opened, request, phase, epoch, updated, served, due>>

(* generate_timestamps ends, because its chain stops, has stopped, or has  *)
(* left the simulated time; the user waits for the last packet.            *)
StreamDoneBug ==
  /\ phase = "packets"
  /\ request' = [time |-> opened, packets |-> packets]
  /\ IF packets = <<>>
     THEN UNCHANGED <<flowTime, flow>>
     ELSE /\ flow' = [time |-> packets[Len(packets)], stopped |-> flow.stopped]
          /\ UNCHANGED flowTime
  /\ phase' = "loop"
  /\ UNCHANGED <<stream, packets, opened, epoch, updated, served, due>>

StreamDone ==
  /\ phase = "packets"
  /\ request' = [time |-> opened, packets |-> packets]
  /\ IF packets = <<>>
     THEN UNCHANGED <<flowTime, flow>>
     ELSE /\ flow' = [time |-> packets[Len(packets)], stopped |-> flow.stopped]
          /\ flowTime' = packets[Len(packets)]
  /\ phase' = "loop"
  /\ UNCHANGED <<stream, packets, opened, epoch, updated, served, due>>

(* A chain makes an event of the other kind of chain (it was read from the *)
(* wrong file): the panic ends the simulation.                             *)
WrongEvent ==
  /\ \/ phase = "user" /\ flow # None /\ ~flow.stopped
     \/ phase = "packets" /\ ~stream.stopped /\ stream.time <= EndTime
  /\ phase' = "failed"
  /\ UNCHANGED <<flowTime, flow, stream, packets, opened, request, epoch, updated, served, due>>

Next ==
  \/ BeginEpoch
  \/ EndSimulation
  \/ Peek
  \/ Consume
  \/ Break
  \/ \E d \in Delays : StartFlow(d) \/ OpenStream(d)
  \/ EndFlow
  \/ \E d \in Delays, fromServer \in BOOLEAN : Packet(d, fromServer)
  \/ StreamDone
  \/ WrongEvent

Spec == Init /\ [][Next]_vars

-----------------------------------------------------------------------------
TypeOK ==
  /\ flowTime \in Nat
  /\ flow \in Chain \cup {None}
  /\ stream \in Chain
  /\ packets \in Seq(0 .. EndTime)
  /\ opened \in Nat
  /\ request \in Request \cup {None}
  /\ phase \in {"epoch", "loop", "user", "packets", "end", "failed"}
  /\ epoch \in 0 .. Len(Starts)
  /\ updated \in Nat \cup {None}
  /\ served \in Request \cup {None}
  /\ due \in Nat \cup {None}

(* The last packet of request r, or the request itself.                    *)
Over(r) == IF r.packets = <<>> THEN r.time ELSE r.packets[Len(r.packets)]

(* The user waits with a request until the one before is over, within a    *)
(* flow and from one flow to the next.                                     *)
RequestsDoNotOverlap ==
  request # None /\ served # None => Over(served) <= request.time

(* A request's packets are sent in order, not before the request and not   *)
(* after the end of the simulation.                                        *)
PacketsInTime ==
  request # None =>
    \A i \in DOMAIN request.packets :
      /\ request.time <= request.packets[i] /\ request.packets[i] <= EndTime
      /\ \A j \in 1 .. i : request.packets[j] <= request.packets[i]

(* The manager's clock does not go back, and each epoch starts after all   *)
(* that happened in the one before.  (CircuitManager and GuardHandling     *)
(* take their calls in this order for granted.)                            *)
UpdatesInOrder ==
  [][updated # None =>
       updated <= updated' /\ (epoch' # epoch => updated < updated')]_vars

(* When the simulation ends, the client has taken every request there was  *)
(* before the end of the last epoch: the next one is after it.  (The claim *)
(* of cli.rs:19-21, that the simulated time begins where the option --from *)
(* says.)                                                                  *)
NoRequestLeftBehind == phase = "end" /\ request # None => request.time >= EpochEnd

(* Between two streams of a flow there is at least the delay the chain has *)
(* sampled.  (The claim of markov.rs:67-73.)                               *)
StreamDelayKept ==
  [][phase = "user" /\ phase' = "packets" /\ due # None => due <= opened']_vars
=============================================================================
