------------------------- MODULE UserRequests_proofs -------------------------
(***************************************************************************)
(* Proofs about UserRequests, for all epochs, delays and bounds: requests  *)
(* do not overlap, packets are in time, the manager's clock does not go    *)
(* back, and, if the first consensus is valid from the start, no request   *)
(* is left behind.                                                         *)
(***************************************************************************)
EXTENDS UserRequests, TLAPS

(* A chain advances to a chain, which has stopped or not gone back.        *)
LEMMA AdvanceForward ==
  ASSUME NEW chain \in Chain, NEW d \in Nat
  PROVE  /\ Advance(chain, d) \in Chain
         /\ Advance(chain, d).stopped \/ chain.time <= Advance(chain, d).time
BY TimeAssumption, SMT DEF Advance, Chain

-----------------------------------------------------------------------------
(* The inductive invariant, in named parts.  The type invariant needs one: *)
(* a stream is only made while there is a flow.                            *)
InFlow == phase = "packets" => flow # None

(* Nothing is peeked at while the user model is asked.                     *)
Asked == phase \in {"user", "packets"} => request = None

(* A flow that goes on is not behind the flow model.                       *)
FlowAhead == flow # None => flow.stopped \/ flowTime <= flow.time

(* While packets are made, the flow model is at the time of the request,   *)
(* and the packets so far are in order and not after the next.             *)
Sorted(ps, from) ==
  \A i \in DOMAIN ps : from <= ps[i] /\ \A j \in 1 .. i : ps[j] <= ps[i]

Growing ==
  phase = "packets" =>
    /\ flowTime = opened
    /\ Sorted(packets, opened)
    /\ ~stream.stopped => /\ opened <= stream.time
                          /\ \A i \in DOMAIN packets : packets[i] <= stream.time

(* A request that was made is over when the flow model says so.            *)
Fits(r) == /\ r.packets \in Seq(0 .. EndTime)
           /\ Sorted(r.packets, r.time)
           /\ Over(r) <= flowTime

MadeFit == /\ request # None => Fits(request)
           /\ served # None => Fits(served)

IInv == /\ TypeOK /\ InFlow /\ Asked /\ FlowAhead /\ Growing /\ MadeFit
        /\ RequestsDoNotOverlap

(* What is in a sequence over a set is in the set.                         *)
LEMMA ElementTyped == ASSUME NEW S, NEW s \in Seq(S), NEW i \in DOMAIN s PROVE s[i] \in S
BY SMT

(* Appending one more keeps it a sequence over the set.                    *)
LEMMA AppendTyped == ASSUME NEW S, NEW s \in Seq(S), NEW e \in S PROVE Append(s, e) \in Seq(S)
BY SMT

(* A request is over when or after it begins.                              *)
LEMMA OverAfter ==
  ASSUME NEW r \in Request, Sorted(r.packets, r.time)
  PROVE  Over(r) \in Nat /\ r.time <= Over(r)
<1>1. r.packets \in Seq(Nat) /\ r.time \in Nat
  BY SMT DEF Request
<1>2. CASE r.packets = <<>>
  BY <1>1, <1>2 DEF Over
<1>3. CASE r.packets # <<>>
  <2>1. Len(r.packets) \in DOMAIN r.packets
    BY <1>1, <1>3, SMT
  <2>2. r.packets[Len(r.packets)] \in Nat
    BY <1>1, <2>1, SMT
  <2>. QED
    BY <1>3, <2>1, <2>2 DEF Over, Sorted
<1>. QED
  BY <1>2, <1>3

(* The invariant holds initially.                                          *)
LEMMA InitInv == Init => IInv
<1> SUFFICES ASSUME Init PROVE IInv
  OBVIOUS
<1>1. TypeOK
  BY TimeAssumption, StartsAssumption, SMT DEF Init, TypeOK, NewChain, Chain
<1>. QED
  BY <1>1 DEF Init, IInv, InFlow, Asked, FlowAhead, Growing, MadeFit, RequestsDoNotOverlap

(* Starting a flow preserves it.                                           *)
LEMMA StartFlowInv == ASSUME IInv, NEW d \in Delays, StartFlow(d) PROVE IInv'
<1> USE TimeAssumption, NoneAssumption
<1>0. d \in Nat /\ flowTime \in Nat /\ flowTime' = flowTime + d /\ flowTime <= flowTime'
  BY SMT DEF StartFlow, NextFlow, IInv, TypeOK
<1>1. flow' = [time |-> flowTime', stopped |-> FALSE] /\ flow' \in Chain
  BY <1>0, SMT DEF StartFlow, NewChain, Chain
<1>2. TypeOK'
  BY <1>0, <1>1, SMT DEF StartFlow, IInv, TypeOK
<1>3. InFlow' /\ Asked' /\ Growing'
  BY DEF StartFlow, IInv, InFlow, Asked, Growing
<1>4. FlowAhead'
  BY <1>0, <1>1, SMT DEF FlowAhead
<1>5. MadeFit' /\ RequestsDoNotOverlap'
  <2>1. request = None /\ request' = None /\ served' = served
    BY DEF StartFlow, IInv, Asked
  <2>2. ASSUME served # None PROVE Over(served) <= flowTime'
    <3>1. served \in Request /\ Fits(served)
      BY <2>2 DEF IInv, TypeOK, MadeFit
    <3>. QED
      BY <1>0, <3>1, OverAfter, SMT DEF Fits
  <2>. QED
    BY <2>1, <2>2 DEF IInv, MadeFit, Fits, RequestsDoNotOverlap, Over
<1>. QED
  BY <1>2, <1>3, <1>4, <1>5 DEF IInv

(* Opening a stream preserves it.                                          *)
LEMMA OpenStreamInv == ASSUME IInv, NEW d \in Delays, OpenStream(d) PROVE IInv'
<1> USE TimeAssumption, NoneAssumption
<1>0. d \in Nat /\ flow \in Chain /\ flow.time \in Nat /\ flowTime \in Nat /\ flowTime <= flow.time
  BY SMT DEF OpenStream, IInv, TypeOK, Chain, FlowAhead
<1>1. flow' = Advance(flow, d) /\ flow' \in Chain /\ flow'.time \in Nat
      /\ (flow'.stopped \/ flow.time <= flow'.time)
  <2>1. flow' = Advance(flow, d)
    BY DEF OpenStream
  <2>2. /\ Advance(flow, d) \in Chain
        /\ Advance(flow, d).stopped \/ flow.time <= Advance(flow, d).time
    BY <1>0, AdvanceForward
  <2>3. Advance(flow, d).time \in Nat
    BY <2>2 DEF Chain
  <2>. QED
    BY <2>1, <2>2, <2>3
<1>2. stream' = [time |-> flow.time, stopped |-> FALSE] /\ stream' \in Chain
  BY <1>0, SMT DEF OpenStream, NewChain, Chain
<1>3. TypeOK'
  BY <1>0, <1>1, <1>2, SMT DEF OpenStream, IInv, TypeOK
<1>4. InFlow' /\ Asked'
  BY <1>1 DEF OpenStream, IInv, InFlow, Asked
<1>5. FlowAhead'
  BY <1>1 DEF OpenStream, FlowAhead
<1>6. Growing'
  BY <1>0, <1>2, SMT DEF OpenStream, Growing, Sorted
<1>7. MadeFit' /\ RequestsDoNotOverlap'
  <2>1. request = None /\ request' = None /\ served' = served /\ flowTime' = flow.time
    BY DEF OpenStream, IInv, Asked
  <2>2. ASSUME served # None PROVE Over(served) <= flowTime'
    <3>1. served \in Request /\ Fits(served)
      BY <2>2 DEF IInv, TypeOK, MadeFit
    <3>. QED
      BY <1>0, <2>1, <3>1, OverAfter, SMT DEF Fits
  <2>. QED
    BY <2>1, <2>2 DEF IInv, MadeFit, Fits, RequestsDoNotOverlap, Over
<1>. QED
  BY <1>3, <1>4, <1>5, <1>6, <1>7 DEF IInv

(* Making a packet preserves it.                                           *)
LEMMA PacketInv ==
  ASSUME IInv, NEW d \in Delays, NEW fromServer \in BOOLEAN, Packet(d, fromServer)
  PROVE  IInv'
<1> USE TimeAssumption, NoneAssumption
<1>0. /\ d \in Nat /\ stream \in Chain /\ stream.time \in 0 .. EndTime
      /\ packets \in Seq(0 .. EndTime) /\ opened \in Nat
  BY SMT DEF Packet, IInv, TypeOK, Chain
<1>1. stream' = Advance(stream, d) /\ stream' \in Chain /\ stream'.time \in Nat
      /\ (stream'.stopped \/ stream.time <= stream'.time)
  <2>1. stream' = Advance(stream, d)
    BY DEF Packet
  <2>2. /\ Advance(stream, d) \in Chain
        /\ Advance(stream, d).stopped \/ stream.time <= Advance(stream, d).time
    BY <1>0, AdvanceForward
  <2>3. Advance(stream, d).time \in Nat
    BY <2>2 DEF Chain
  <2>. QED
    BY <2>1, <2>2, <2>3
<1>2. packets' = packets \/ packets' = Append(packets, stream.time)
  BY DEF Packet
<1>3. packets' \in Seq(0 .. EndTime)
  BY <1>0, <1>2, AppendTyped
<1>4. TypeOK'
  BY <1>1, <1>3, SMT DEF Packet, IInv, TypeOK
<1>5. InFlow' /\ Asked' /\ FlowAhead'
  BY DEF Packet, IInv, InFlow, Asked, FlowAhead
<1>6. Growing'
  <2>1. /\ Sorted(packets, opened) /\ opened <= stream.time
        /\ \A i \in DOMAIN packets : packets[i] <= stream.time
    BY DEF Packet, IInv, Growing
  <2>2. Sorted(packets', opened) /\ \A i \in DOMAIN packets' : packets'[i] <= stream.time
    <3>1. CASE packets' = packets
      BY <2>1, <3>1
    <3>2. CASE packets' = Append(packets, stream.time)
      <4>1. /\ Len(packets) \in Nat /\ DOMAIN packets = 1 .. Len(packets)
            /\ DOMAIN packets' = 1 .. Len(packets) + 1
            /\ \A i \in 1 .. Len(packets) : packets'[i] = packets[i]
            /\ packets'[Len(packets) + 1] = stream.time
        BY <1>0, <3>2, SMT
      <4>2. stream.time \in Nat
        BY <1>0, SMT
      <4>3. \A i \in DOMAIN packets' : opened <= packets'[i] /\ packets'[i] <= stream.time
        BY <1>0, <2>1, <4>1, <4>2, SMT DEF Sorted
      <4>4. \A i \in DOMAIN packets' : \A j \in 1 .. i : packets'[j] <= packets'[i]
        <5> SUFFICES ASSUME NEW i \in DOMAIN packets', NEW j \in 1 .. i
                     PROVE  packets'[j] <= packets'[i]
          OBVIOUS
        <5>1. CASE i = Len(packets) + 1
          BY <4>1, <4>3, <5>1, SMT
        <5>2. CASE i # Len(packets) + 1
          BY <2>1, <4>1, <5>2, SMT DEF Sorted
        <5>. QED
          BY <5>1, <5>2
      <4>. QED
        BY <4>3, <4>4 DEF Sorted
    <3>. QED
      BY <1>2, <3>1, <3>2
  <2>3. ~stream'.stopped => /\ opened <= stream'.time
                            /\ \A i \in DOMAIN packets' : packets'[i] <= stream'.time
    <3> SUFFICES ASSUME ~stream'.stopped
                 PROVE  /\ opened <= stream'.time
                        /\ \A i \in DOMAIN packets' : packets'[i] <= stream'.time
      OBVIOUS
    <3>1. \A i \in DOMAIN packets' : packets'[i] \in Nat
      BY <1>3, SMT
    <3>. QED
      BY <1>0, <1>1, <2>1, <2>2, <3>1, SMT
  <2>. QED
    BY <2>2, <2>3 DEF Packet, IInv, Growing
<1>7. MadeFit' /\ RequestsDoNotOverlap'
  BY DEF Packet, IInv, MadeFit, Fits, RequestsDoNotOverlap, Over
<1>. QED
  BY <1>4, <1>5, <1>6, <1>7 DEF IInv

(* Ending a stream, and with it the making of a request, preserves it.     *)
LEMMA StreamDoneInv == ASSUME IInv, StreamDone PROVE IInv'
<1> USE TimeAssumption, NoneAssumption
<1>0. /\ flow \in Chain /\ opened \in Nat /\ flowTime = opened
      /\ packets \in Seq(0 .. EndTime) /\ packets \in Seq(Nat)
      /\ Sorted(packets, opened)
  BY SMT DEF StreamDone, IInv, TypeOK, InFlow, Growing
<1>1. request' = [time |-> opened, packets |-> packets] /\ request' \in Request
  BY <1>0, SMT DEF StreamDone, Request
<1>2. Over(request') \in Nat /\ opened <= Over(request')
  BY <1>0, <1>1, OverAfter
<1>3. flowTime' = Over(request') /\ flow' \in Chain
      /\ (flow'.stopped \/ flowTime' <= flow'.time)
  <2>1. CASE packets = <<>>
    BY <1>0, <1>1, <2>1 DEF StreamDone, Over, IInv, FlowAhead
  <2>2. CASE packets # <<>>
    <3>1. packets[Len(packets)] \in Nat
      BY <1>0, <2>2, SMT
    <3>2. flow' = [time |-> packets[Len(packets)], stopped |-> flow.stopped]
          /\ flowTime' = packets[Len(packets)]
      BY <2>2 DEF StreamDone
    <3>3. flow' \in Chain
      BY <1>0, <3>1, <3>2, SMT DEF Chain
    <3>4. Over(request') = packets[Len(packets)]
      BY <1>1, <2>2 DEF Over
    <3>. QED
      BY <3>1, <3>2, <3>3, <3>4, SMT
  <2>. QED
    BY <2>1, <2>2
<1>4. TypeOK'
  BY <1>1, <1>2, <1>3, SMT DEF StreamDone, IInv, TypeOK
<1>5. InFlow' /\ Asked' /\ Growing'
  BY DEF StreamDone, InFlow, Asked, Growing
<1>6. FlowAhead'
  BY <1>3 DEF FlowAhead
<1>7. MadeFit' /\ RequestsDoNotOverlap'
  <2>1. Fits(request)'
    BY <1>0, <1>1, <1>2, <1>3, SMT DEF Fits
  <2>2. ASSUME served # None PROVE Over(served) <= opened /\ Fits(served)'
    <3>1. served \in Request /\ Fits(served)
      BY <2>2 DEF IInv, TypeOK, MadeFit
    <3>2. Over(served) \in Nat /\ Over(served) <= flowTime'
      BY <1>0, <1>2, <1>3, <3>1, OverAfter, SMT DEF Fits
    <3>. QED
      BY <1>0, <3>1, <3>2 DEF StreamDone, Fits, Over
  <2>. QED
    BY <1>1, <2>1, <2>2 DEF StreamDone, MadeFit, RequestsDoNotOverlap, Over
<1>. QED
  BY <1>4, <1>5, <1>6, <1>7 DEF IInv

(* Taking a request preserves it.                                          *)
LEMMA ConsumeInv == ASSUME IInv, Consume PROVE IInv'
<1> USE NoneAssumption
<1>1. request \in Request /\ request.time \in Nat /\ Fits(request)
  BY SMT DEF Consume, IInv, TypeOK, MadeFit, Request
<1>2. TypeOK'
  BY <1>1, SMT DEF Consume, IInv, TypeOK
<1>3. InFlow' /\ Asked' /\ FlowAhead' /\ Growing'
  BY DEF Consume, IInv, InFlow, Asked, FlowAhead, Growing
<1>4. MadeFit' /\ RequestsDoNotOverlap'
  BY <1>1 DEF Consume, MadeFit, Fits, Over, RequestsDoNotOverlap
<1>. QED
  BY <1>2, <1>3, <1>4 DEF IInv

(* The other steps preserve it.                                            *)
LEMMA OtherInv ==
  ASSUME IInv,
         BeginEpoch \/ EndSimulation \/ Peek \/ Break \/ EndFlow \/ WrongEvent \/ UNCHANGED vars
  PROVE  IInv'
<1> USE StartsAssumption, NoneAssumption
<1>1. TypeOK'
  <2>1. CASE BeginEpoch
    BY <2>1, SMT DEF BeginEpoch, IInv, TypeOK
  <2>2. CASE EndSimulation \/ Peek \/ Break
    BY <2>2, SMT DEF EndSimulation, Peek, Break, IInv, TypeOK
  <2>3. CASE EndFlow \/ WrongEvent \/ UNCHANGED vars
    BY <2>3, SMT DEF EndFlow, WrongEvent, vars, IInv, TypeOK
  <2>. QED
    BY <2>1, <2>2, <2>3
<1>2. InFlow' /\ Asked' /\ FlowAhead' /\ Growing'
  BY DEF IInv, InFlow, Asked, FlowAhead, Growing,
         BeginEpoch, EndSimulation, Peek, Break, EndFlow, WrongEvent, vars
<1>3. MadeFit' /\ RequestsDoNotOverlap'
  <2>1. flowTime' = flowTime /\ request' = request /\ served' = served
    BY DEF BeginEpoch, EndSimulation, Peek, Break, EndFlow, WrongEvent, vars
  <2>. QED
    BY <2>1 DEF IInv, MadeFit, Fits, Over, RequestsDoNotOverlap
<1>. QED
  BY <1>1, <1>2, <1>3 DEF IInv

(* The invariant holds in every reachable state.                           *)
LEMMA Invariant == Spec => []IInv
<1>1. IInv /\ [Next]_vars => IInv'
  BY StartFlowInv, OpenStreamInv, PacketInv, StreamDoneInv, ConsumeInv, OtherInv DEF Next
<1>. QED
  BY InitInv, <1>1, PTL DEF Spec

(* The state has its types always.                                         *)
THEOREM TypeCorrect == Spec => []TypeOK
<1>1. IInv => TypeOK
  BY DEF IInv
<1>. QED
  BY Invariant, <1>1, PTL

(* No request begins before the last packet of the one before.             *)
THEOREM NoOverlap == Spec => []RequestsDoNotOverlap
<1>1. IInv => RequestsDoNotOverlap
  BY DEF IInv
<1>. QED
  BY Invariant, <1>1, PTL

(* The packets of a request are in order and in the simulated time.        *)
THEOREM PacketsOnTime == Spec => []PacketsInTime
<1>1. IInv => PacketsInTime
  <2> SUFFICES ASSUME IInv, request # None, NEW i \in DOMAIN request.packets
               PROVE  /\ request.time <= request.packets[i] /\ request.packets[i] <= EndTime
                      /\ \A j \in 1 .. i : request.packets[j] <= request.packets[i]
    BY DEF PacketsInTime
  <2>1. request.packets \in Seq(0 .. EndTime) /\ Sorted(request.packets, request.time)
    BY DEF IInv, MadeFit, Fits
  <2>2. request.packets[i] \in 0 .. EndTime
    BY <2>1, ElementTyped
  <2>. QED
    BY <2>1, <2>2, TimeAssumption, SMT DEF Sorted
<1>. QED
  BY Invariant, <1>1, PTL
-----------------------------------------------------------------------------
(* The manager's clock: it shows the start of the epoch, or the time of    *)
(* the last request, which was taken in this epoch.                        *)
Clock ==
  /\ phase \in {"loop", "user", "packets"} => epoch # 0
  /\ epoch = 0 => updated = None
  /\ epoch # 0 => \/ updated = EpochStart
                  \/ /\ served # None /\ updated = served.time
                     /\ EpochStart <= updated /\ updated < EpochEnd

(* An epoch starts and ends at a time, and the next one starts where it    *)
(* ends.                                                                   *)
LEMMA EpochTimes ==
  ASSUME TypeOK, epoch # 0
  PROVE  /\ EpochStart \in Nat /\ EpochEnd \in Nat
         /\ epoch < Len(Starts) =>
              /\ Starts[epoch + 1] \in Nat
              /\ EpochStart < Starts[epoch + 1]
              /\ EpochEnd = Starts[epoch + 1]
<1> USE TimeAssumption, StartsAssumption
<1>1. epoch \in DOMAIN Starts /\ (epoch < Len(Starts) => epoch + 1 \in DOMAIN Starts)
  BY SMT DEF TypeOK
<1>2. Starts[epoch] \in Nat /\ (epoch < Len(Starts) => Starts[epoch + 1] \in Nat)
  BY <1>1, ElementTyped
<1>3. epoch < Len(Starts) => Starts[epoch] < Starts[epoch + 1] /\ Starts[epoch + 1] <= EndTime
  BY <1>1, SMT DEF TypeOK
<1> DEFINE end == IF epoch < Len(Starts) THEN Starts[epoch + 1] ELSE EpochStart + LastEpoch
<1>4. EpochStart = Starts[epoch] /\ EpochEnd = IF end < EndTime THEN end ELSE EndTime
  BY DEF EpochStart, EpochEnd
<1>5. end \in Nat /\ EndTime \in Nat
  BY <1>2, <1>4
<1>6. epoch < Len(Starts) => end = Starts[epoch + 1]
  OBVIOUS
<1>. HIDE DEF end
<1>. QED
  BY <1>2, <1>3, <1>4, <1>5, <1>6

(* A step of the client moves the clock forward.                           *)
LEMMA ClockStep ==
  ASSUME IInv, Clock, [Next]_vars
  PROVE  /\ Clock'
         /\ updated # None =>
              updated <= updated' /\ (epoch' # epoch => updated < updated')
<1> USE NoneAssumption
<1>0. updated \in Nat \cup {None} /\ epoch \in 0 .. Len(Starts)
  BY DEF IInv, TypeOK
<1>1. CASE BeginEpoch
  <2>1. epoch' = epoch + 1 /\ updated' = Starts[epoch + 1] /\ epoch < Len(Starts) /\ epoch' # 0
    BY <1>0, <1>1, StartsAssumption, SMT DEF BeginEpoch
  <2>2. Clock'
    BY <2>1 DEF Clock, EpochStart
  <2>3. ASSUME updated # None PROVE updated < updated'
    <3>1. epoch # 0
      BY <2>3 DEF Clock
    <3>. QED
      BY <1>0, <2>1, <2>3, <3>1, EpochTimes, SMT DEF IInv, Clock
  <2>4. updated' \in Nat
    <3>1. epoch + 1 \in DOMAIN Starts
      BY <1>0, <2>1, StartsAssumption, SMT
    <3>. QED
      BY <2>1, <3>1, StartsAssumption, ElementTyped
  <2>. QED
    BY <1>0, <2>2, <2>3, <2>4, SMT
<1>2. CASE Consume
  <2>1. /\ request \in Request /\ request.time \in Nat /\ epoch # 0 /\ epoch' = epoch
        /\ EpochStart <= request.time /\ request.time < EpochEnd
        /\ served' = request /\ updated' = request.time
    BY <1>2 DEF Consume, InEpoch, IInv, TypeOK, Request, Clock
  <2>2. EpochStart' = EpochStart /\ EpochEnd' = EpochEnd
    BY <2>1 DEF EpochStart, EpochEnd
  <2>3. Clock'
    BY <1>2, <2>1, <2>2 DEF Clock
  <2>4. updated <= updated'
    <3>1. CASE updated = EpochStart
      BY <2>1, <3>1
    <3>2. CASE served # None /\ updated = served.time
      <4>1. served \in Request /\ Sorted(served.packets, served.time)
        BY <3>2 DEF IInv, TypeOK, MadeFit, Fits
      <4>2. Over(served) \in Nat /\ served.time <= Over(served) /\ served.time \in Nat
        BY <4>1, OverAfter DEF Request
      <4>3. Over(served) <= request.time
        BY <1>2, <3>2 DEF Consume, IInv, RequestsDoNotOverlap
      <4>. QED
        BY <2>1, <3>2, <4>2, <4>3, SMT
    <3>. QED
      BY <2>1, <3>1, <3>2 DEF Clock
  <2>. QED
    BY <2>1, <2>3, <2>4
<1>3. CASE ~BeginEpoch /\ ~Consume
  <2>1. epoch' = epoch /\ updated' = updated /\ served' = served
    BY <1>3 DEF Next, vars, EndSimulation, Peek, Break, StartFlow, OpenStream, EndFlow,
               Packet, StreamDone, WrongEvent
  <2>2. phase' \in {"loop", "user", "packets"} => phase \in {"loop", "user", "packets"}
    BY <1>3 DEF Next, vars, EndSimulation, Peek, Break, StartFlow, OpenStream, EndFlow,
               Packet, StreamDone, WrongEvent
  <2>3. EpochStart' = EpochStart /\ EpochEnd' = EpochEnd
    BY <2>1 DEF EpochStart, EpochEnd
  <2>4. Clock'
    BY <2>1, <2>2, <2>3 DEF Clock
  <2>. QED
    BY <1>0, <2>1, <2>4, SMT
<1>. QED
  BY <1>1, <1>2, <1>3

(* The clock is right in every reachable state.                            *)
LEMMA ClockInvariant == Spec => []Clock
<1>1. Init => Clock
  BY DEF Init, Clock
<1>2. IInv /\ Clock /\ [Next]_vars => Clock'
  BY ClockStep
<1>. QED
  BY Invariant, <1>1, <1>2, PTL DEF Spec

(* The manager is called at times that do not go back, and each epoch      *)
(* starts strictly after everything in the one before.                     *)
THEOREM ClockForward == Spec => UpdatesInOrder
<1>1. IInv /\ Clock /\ [Next]_vars =>
        [updated # None =>
           updated <= updated' /\ (epoch' # epoch => updated < updated')]_vars
  BY ClockStep
<1>. QED
  BY Invariant, ClockInvariant, <1>1, PTL DEF Spec, UpdatesInOrder

-----------------------------------------------------------------------------
(* Where the next request is, if the first consensus is valid from the     *)
(* start: not before the current epoch, and, once the epoch is over, not   *)
(* before the end of it.                                                   *)
Front ==
  /\ epoch = 0 => request = None /\ flowTime = From
  /\ epoch # 0 /\ request = None => EpochStart <= flowTime
  /\ phase = "epoch" /\ epoch # 0 => request # None
  /\ request # None /\ phase = "loop" => EpochStart <= request.time
  /\ request # None /\ phase \in {"epoch", "end"} => EpochEnd <= request.time

(* Every step keeps the next request there.                                *)
LEMMA FrontStep ==
  ASSUME Starts # <<>>, Starts[1] = From, IInv, Clock, Front, [Next]_vars
  PROVE  Front'
<1> USE NoneAssumption
<1>0. flowTime \in Nat /\ epoch \in 0 .. Len(Starts) /\ Len(Starts) \in Nat /\ Len(Starts) # 0
  BY StartsAssumption, SMT DEF IInv, TypeOK
<1>a. ASSUME epoch' = epoch PROVE EpochStart' = EpochStart /\ EpochEnd' = EpochEnd
  BY <1>a DEF EpochStart, EpochEnd
<1>1. CASE BeginEpoch
  <2>1. /\ epoch' = epoch + 1 /\ epoch < Len(Starts) /\ epoch' # 0 /\ phase' = "loop"
        /\ EpochStart' = Starts[epoch + 1]
        /\ request' = request /\ flowTime' = flowTime
    BY <1>0, <1>1, SMT DEF BeginEpoch, EpochStart
  <2>2. CASE epoch = 0
    <3>1. request = None /\ flowTime = From
      BY <2>2 DEF Front
    <3>2. EpochStart' = From
      BY <2>1, <2>2
    <3>. QED
      BY <1>0, <2>1, <3>1, <3>2, SMT DEF Front
  <2>3. CASE epoch # 0
    <3>1. request # None /\ EpochEnd <= request.time
      BY <1>1, <2>3 DEF BeginEpoch, Front
    <3>2. EpochStart' = EpochEnd
      BY <2>1, <2>3, EpochTimes DEF IInv
    <3>. QED
      BY <2>1, <3>1, <3>2 DEF Front
  <2>. QED
    BY <2>2, <2>3
<1>2. CASE Consume
  <2>1. epoch' = epoch /\ epoch # 0 /\ request \in Request /\ request # None
        /\ phase' = "loop" /\ request' = None /\ flowTime' = flowTime
    BY <1>2 DEF Consume, Clock, IInv, TypeOK
  <2>2. request.time \in Nat /\ Over(request) \in Nat
        /\ request.time <= Over(request) /\ Over(request) <= flowTime
    BY <2>1, OverAfter DEF IInv, MadeFit, Fits, Request
  <2>3. EpochStart <= request.time /\ EpochStart \in Nat
    BY <1>2, <2>1, EpochTimes DEF Consume, InEpoch, IInv
  <2>4. EpochStart <= flowTime
    BY <1>0, <2>2, <2>3, SMT
  <2>. QED
    BY <1>a, <2>1, <2>4 DEF Front
<1>3. CASE Break
  <2>1. epoch' = epoch /\ epoch # 0 /\ request \in Request /\ request # None
        /\ phase = "loop" /\ phase' = "epoch" /\ request' = request
    BY <1>3 DEF Break, Clock, IInv, TypeOK
  <2>2. request.time \in Nat
    BY <2>1 DEF Request
  <2>3. EpochStart <= request.time
    BY <2>1 DEF Front
  <2>4. EpochEnd <= request.time
    BY <1>3, <2>1, <2>2, <2>3, EpochTimes, SMT DEF Break, InEpoch, IInv
  <2>. QED
    BY <1>a, <2>1, <2>4 DEF Front
<1>4. CASE EndSimulation \/ Peek \/ EndFlow \/ WrongEvent \/ UNCHANGED vars
  <2>1. /\ epoch' = epoch /\ request' = request /\ flowTime' = flowTime
        /\ phase' = "epoch" => phase = "epoch"
        /\ phase' = "loop" => phase = "loop"
        /\ phase' \in {"epoch", "end"} => phase \in {"epoch", "end"}
    BY <1>4 DEF EndSimulation, Peek, EndFlow, WrongEvent, vars
  <2>. QED
    BY <1>a, <2>1 DEF Front
<1>5. ASSUME NEW d \in Delays, StartFlow(d) PROVE Front'
  <2>1. d \in Nat
    BY TimeAssumption
  <2>2. epoch' = epoch /\ epoch # 0 /\ request = None /\ request' = None
        /\ phase' = "user" /\ flowTime' = flowTime + d
    BY <1>5 DEF StartFlow, NextFlow, Clock, IInv, Asked
  <2>3. EpochStart \in Nat /\ EpochStart <= flowTime
    BY <2>2, EpochTimes DEF IInv, Front
  <2>4. EpochStart <= flowTime'
    BY <1>0, <2>1, <2>2, <2>3, SMT
  <2>. QED
    BY <1>a, <2>2, <2>4 DEF Front
<1>6. ASSUME NEW d \in Delays, OpenStream(d) PROVE Front'
  <2>1. /\ epoch' = epoch /\ epoch # 0 /\ request = None /\ request' = None
        /\ phase' = "packets" /\ flowTime' = flow.time
        /\ flow \in Chain /\ flowTime <= flow.time
    BY <1>6 DEF OpenStream, Clock, IInv, TypeOK, Asked, FlowAhead
  <2>2. EpochStart \in Nat /\ EpochStart <= flowTime /\ flow.time \in Nat
    BY <2>1, EpochTimes DEF IInv, Front, Chain
  <2>3. EpochStart <= flowTime'
    BY <1>0, <2>1, <2>2, SMT
  <2>. QED
    BY <1>a, <2>1, <2>3 DEF Front
<1>7. ASSUME NEW d \in Delays, NEW fromServer \in BOOLEAN, Packet(d, fromServer) PROVE Front'
  BY <1>a, <1>7 DEF Packet, Front
<1>8. CASE StreamDone
  <2>1. /\ epoch' = epoch /\ epoch # 0 /\ request = None
        /\ request' = [time |-> opened, packets |-> packets]
        /\ phase' = "loop" /\ flowTime = opened
    BY <1>8 DEF StreamDone, Clock, IInv, Asked, Growing
  <2>3. request' \in Request /\ request' # None
    <3>1. packets \in Seq(Nat) /\ opened \in Nat
      BY TimeAssumption, SMT DEF IInv, TypeOK
    <3>2. request' \in Request
      BY <2>1, <3>1, SMT DEF Request
    <3>. QED
      BY <3>2
  <2>2. EpochStart <= request'.time
    BY <2>1 DEF Front
  <2>. QED
    BY <1>a, <2>1, <2>2, <2>3 DEF Front
<1>. QED
  BY <1>1, <1>2, <1>3, <1>4, <1>5, <1>6, <1>7, <1>8 DEF Next

(* If the first consensus is valid from the start of the simulation, the   *)
(* client takes every request before the end of the last epoch.            *)
THEOREM NobodyStuck ==
  ASSUME Starts # <<>>, Starts[1] = From
  PROVE  Spec => []NoRequestLeftBehind
<1>1. Init => Front
  BY DEF Init, Front
<1>2. IInv /\ Clock /\ Front /\ [Next]_vars => Front'
  BY FrontStep
<1>3. Front => NoRequestLeftBehind
  BY DEF Front, NoRequestLeftBehind
<1>. QED
  BY Invariant, ClockInvariant, <1>1, <1>2, <1>3, PTL DEF Spec
=============================================================================
