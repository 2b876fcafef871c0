---------------------------- MODULE TracePipeline ----------------------------
(***************************************************************************)
(* How the packet traces of the simulated flows get into the trace file    *)
(* (src/src/trace.rs), and the epochs of the simulator around it           *)
(* (src/src/sim.rs).                                                       *)
(*                                                                         *)
(* In every epoch the threads of a pool take the clients in turns.  A      *)
(* thread has a writer, which collects the entries of the flows of its     *)
(* clients in a buffer and sends the buffer through a bounded channel: in  *)
(* the middle of a client when it gets long, at the end of each client,    *)
(* and when the writer is dropped.  The trace worker writes what it        *)
(* receives to the file.  The numbers of flows (destination_id) and        *)
(* packets (m_id) come from two counters, each with a lock of its own.     *)
(*                                                                         *)
(* What a client does but to make flows is abstracted: it makes some, or   *)
(* fails.  A writer's error, a panic and the failure to load a consensus   *)
(* end the simulation in the ways the code has for them.  Left out: the    *)
(* progress thread, which only logs (its channel is unbounded).            *)
(*                                                                         *)
(* A definition whose name ends in Bug is a seeded fault: nothing uses it, *)
(* and a property must fail when it takes the place of the definition      *)
(* that follows it.                                                        *)
(***************************************************************************)
EXTENDS Integers, Sequences, FiniteSets

CONSTANTS
  Thread,      \* the threads of the pool
  Client,      \* the simulated clients
  Capacity,    \* of the channel (1024)
  FlushAt,     \* a writer with more entries than this sends them
  FlowLength,  \* how many packets a flow may have
  MaxFlows,    \* bound on the flows of a client in an epoch
  MaxEpochs,   \* the number of consensuses that are simulated
  None         \* Rust's None: in the channel, the message to stop

ASSUME SetAssumption == IsFiniteSet(Thread) /\ IsFiniteSet(Client) /\ Thread # {}
ASSUME CapacityAssumption == Capacity \in Nat \ {0} /\ FlushAt \in Nat
ASSUME FlowAssumption ==
  /\ IsFiniteSet(FlowLength) /\ FlowLength \subseteq Nat /\ FlowLength # {}
  /\ MaxFlows \in Nat /\ MaxEpochs \in Nat

VARIABLES
  main,         \* what Simulator::run is doing, or how it ended
  epoch,        \* the epochs begun so far
  waiting,      \* the clients of this epoch that no thread has taken yet
  result,       \* what the parallel iterator over the clients returns
  thread,       \* the state of every thread
  channel,      \* the batches under way
  worker,       \* the state of the trace worker
  file,         \* the entries in the trace file
  nextReceiver, \* NEXT_RECEIVER
  nextMessage   \* NEXT_MESSAGE

vars == <<main, epoch, waiting, result, thread, channel, worker, file,
          nextReceiver, nextMessage>>

-----------------------------------------------------------------------------
(* An entry carries, for the properties, the flow it belongs to: the       *)
(* made-th of its client in its epoch.                                     *)
Flow == [client : Client, epoch : Nat, made : Nat]

TraceEntry == [m_id : Nat, destination_id : Nat, flow : Flow]

ASSUME NoneAssumption == None \notin Client /\ None \notin Seq(TraceEntry)

(* A thread without a writer is "idle", one between two clients "ready";   *)
(* it is making the flows of a client ("flows"), has drawn a number for    *)
(* one ("drawn"), or is about to send its buffer: in the middle of a       *)
(* client ("flush"), at its end ("finish"), or to "drop" its writer.       *)
Sending == {"flush", "finish", "drop"}

Outcome == {"ok", "error", "panic"}

ThreadState ==
  [pc : {"idle", "ready", "flows", "drawn"} \cup Sending, client : Client \cup {None},
   made : Nat, receiver : Nat \cup {None}, buffer : Seq(TraceEntry), fate : Outcome]

IdleThread == [pc |-> "idle", client |-> None, made |-> 0, receiver |-> None,
               buffer |-> <<>>, fate |-> "ok"]

Connected == worker \in {"starting", "running"}

Ended == main \in Outcome \cup {"abort"}

Worse(a, b) == IF "panic" \in {a, b} THEN "panic"
               ELSE IF "error" \in {a, b} THEN "error" ELSE "ok"

Init ==
  /\ main = "loading"
  /\ epoch = 0
  /\ waiting = {}
  /\ result = "ok"
  /\ thread = [t \in Thread |-> IdleThread]
  /\ channel = <<>>
  /\ worker = "starting"
  /\ file = <<>>
  /\ nextReceiver = 0
  /\ nextMessage = 0

-----------------------------------------------------------------------------
(* The pool (external) gives a waiting client to a thread, which makes a   *)
(* writer if it has none.  A thread may still take one after another       *)
(* thread has failed: the flag that stops the iterator is read unlocked.   *)
Take(t, c) ==
  /\ main = "running"
  /\ thread[t].pc \in {"idle", "ready"}
  /\ c \in waiting
  /\ waiting' = waiting \ {c}
  /\ thread' = [thread EXCEPT ![t] = [@ EXCEPT !.pc = "flows", !.client = c, !.made = 0]]
  /\ UNCHANGED <<main, epoch, result, channel, worker, file, nextReceiver, nextMessage>>

(* The pool lets a thread end its share of the clients: the writer is      *)
(* dropped.                                                                *)
Leave(t) ==
  /\ thread[t].pc = "ready"
  /\ thread' = [thread EXCEPT ![t].pc = "drop"]
  /\ UNCHANGED <<main, epoch, waiting, result, channel, worker, file,
                 nextReceiver, nextMessage>>

(* make_trace_entries, first lock.                                         *)
DrawReceiverBug(t) ==
  /\ thread[t].pc = "flows"
  /\ thread[t].made < MaxFlows
  /\ thread' = [thread EXCEPT ![t] = [@ EXCEPT !.pc = "drawn", !.receiver = nextReceiver]]
  /\ UNCHANGED <<main, epoch, waiting, result, channel, worker, file,
                 nextReceiver, nextMessage>>

DrawReceiver(t) ==
  /\ thread[t].pc = "flows"
  /\ thread[t].made < MaxFlows
  /\ thread' = [thread EXCEPT ![t] = [@ EXCEPT !.pc = "drawn", !.receiver = nextReceiver]]
  /\ nextReceiver' = nextReceiver + 1
  /\ UNCHANGED <<main, epoch, waiting, result, channel, worker, file, nextMessage>>

(* The entries of a flow of n packets for thread state th.                 *)
Entries(th, n) ==
  [i \in 1 .. n |->
     [m_id |-> nextMessage + i - 1, destination_id |-> th.receiver,
      flow |-> [client |-> th.client, epoch |-> epoch, made |-> th.made]]]

(* make_trace_entries, second lock, and write_entries.                     *)
WriteEntries(t, n) ==
  LET buffer == thread[t].buffer \o Entries(thread[t], n)
  IN  /\ thread[t].pc = "drawn"
      /\ nextMessage' = nextMessage + n
      /\ thread' = [thread EXCEPT ![t] =
                      [@ EXCEPT !.pc = IF Len(buffer) > FlushAt THEN "flush" ELSE "flows",
                                !.made = thread[t].made + 1, !.receiver = None, !.buffer = buffer]]
      /\ UNCHANGED <<main, epoch, waiting, result, channel, worker, file, nextReceiver>>

(* handle_new_epoch returns, and the buffer is flushed.                    *)
ClientDone(t) ==
  /\ thread[t].pc = "flows"
  /\ thread' = [thread EXCEPT ![t].pc = "finish"]
  /\ UNCHANGED <<main, epoch, waiting, result, channel, worker, file,
                 nextReceiver, nextMessage>>

(* The thread gives up its client with an error or a panic, and drops its  *)
(* writer.                                                                 *)
GiveUp(t, how, buffer) ==
  /\ thread' = [thread EXCEPT ![t] = [@ EXCEPT !.pc = "drop", !.fate = how, !.buffer = buffer,
                                               !.client = None]]
  /\ result' = Worse(result, how)

(* A circuit cannot be built, or an unwrap in the client fails.            *)
ClientFails(t, how) ==
  /\ thread[t].pc = "flows"
  /\ GiveUp(t, how, thread[t].buffer)
  /\ UNCHANGED <<main, epoch, waiting, channel, worker, file, nextReceiver, nextMessage>>

(* The state of a thread that has sent its buffer.                         *)
SentBug(th) ==
  CASE th.pc = "flush"  -> [th EXCEPT !.pc = "flows"]
    [] th.pc = "finish" -> [th EXCEPT !.pc = "ready", !.client = None]
    [] th.pc = "drop"   -> IdleThread

Sent(th) ==
  CASE th.pc = "flush"  -> [th EXCEPT !.pc = "flows", !.buffer = <<>>]
    [] th.pc = "finish" -> [th EXCEPT !.pc = "ready", !.buffer = <<>>, !.client = None]
    [] th.pc = "drop"   -> IdleThread

(* MemoryCsvWriter::flush, when there is room.                             *)
SendBug(t) ==
  /\ thread[t].pc \in Sending
  /\ Connected
  /\ channel' = Append(channel, thread[t].buffer)
  /\ thread' = [thread EXCEPT ![t] = Sent(@)]
  /\ UNCHANGED <<main, epoch, waiting, result, worker, file, nextReceiver, nextMessage>>

Send(t) ==
  /\ thread[t].pc \in Sending
  /\ Connected
  /\ Len(channel) < Capacity
  /\ channel' = Append(channel, thread[t].buffer)
  /\ thread' = [thread EXCEPT ![t] = Sent(@)]
  /\ UNCHANGED <<main, epoch, waiting, result, worker, file, nextReceiver, nextMessage>>

(* flush, when the worker is gone: the batch is lost, and the error ends   *)
(* the client.                                                             *)
SendFails(t) ==
  /\ thread[t].pc \in {"flush", "finish"}
  /\ ~Connected
  /\ GiveUp(t, "error", <<>>)
  /\ UNCHANGED <<main, epoch, waiting, channel, worker, file, nextReceiver, nextMessage>>

(* The drop of the writer unwraps the error: a panic, and an abort if the  *)
(* thread is panicking already.                                            *)
DropPanics(t) ==
  /\ thread[t].pc = "drop"
  /\ ~Connected
  /\ IF thread[t].fate = "panic"
     THEN main' = "abort" /\ UNCHANGED <<thread, result>>
     ELSE /\ thread' = [thread EXCEPT ![t] = IdleThread]
          /\ result' = "panic"
          /\ UNCHANGED main
  /\ UNCHANGED <<epoch, waiting, channel, worker, file, nextReceiver, nextMessage>>

ThreadStep(t) ==
  /\ main = "running"
  /\ \/ \E c \in Client : Take(t, c)
     \/ Leave(t)
     \/ DrawReceiver(t)
     \/ \E n \in FlowLength : WriteEntries(t, n)
     \/ ClientDone(t)
     \/ \E how \in {"error", "panic"} : ClientFails(t, how)
     \/ Send(t)
     \/ SendFails(t)
     \/ DropPanics(t)

-----------------------------------------------------------------------------
(* TraceWorker::run ends; the channel goes with its receiver.              *)
Finish(how) == worker' = how /\ channel' = <<>>

(* The header is written.                                                  *)
WriteHeader ==
  /\ worker = "starting"
  /\ worker' = "running"
  /\ UNCHANGED <<channel, file>>

(* A batch is written.                                                     *)
WriteBatchBug ==
  /\ worker = "running"
  /\ channel # <<>> /\ channel[Len(channel)] # None
  /\ file' = file \o channel[Len(channel)]
  /\ channel' = SubSeq(channel, 1, Len(channel) - 1)
  /\ UNCHANGED worker

WriteBatch ==
  /\ worker = "running"
  /\ channel # <<>> /\ Head(channel) # None
  /\ file' = file \o Head(channel)
  /\ channel' = Tail(channel)
  /\ UNCHANGED worker

(* A write fails, after some of its bytes have been written.               *)
WriteFails ==
  \/ worker = "starting" /\ Finish("failed") /\ UNCHANGED file
  \/ /\ worker = "running"
     /\ channel # <<>> /\ Head(channel) # None
     /\ \E k \in 0 .. Len(Head(channel)) : file' = file \o SubSeq(Head(channel), 1, k)
     /\ Finish("failed")

Stop ==
  /\ worker = "running"
  /\ channel # <<>> /\ Head(channel) = None
  /\ Finish("done")
  /\ UNCHANGED file

(* recv fails when the last sender is gone, which happens when the         *)
(* simulation ends with an error or a panic.                               *)
Disconnect ==
  /\ worker = "running"
  /\ main \in {"error", "panic"}
  /\ channel = <<>>
  /\ Finish("failed")
  /\ UNCHANGED file

WorkerStep ==
  /\ main # "abort"
  /\ WriteHeader \/ WriteBatch \/ WriteFails \/ Stop \/ Disconnect
  /\ UNCHANGED <<main, epoch, waiting, result, thread, nextReceiver, nextMessage>>

-----------------------------------------------------------------------------
(* The next consensus is loaded, and the clients are triggered; or it      *)
(* cannot be loaded, and the error ends the simulation.                    *)
NextEpoch ==
  /\ main = "loading"
  /\ epoch < MaxEpochs
  /\ \/ /\ main' = "running"
        /\ epoch' = epoch + 1
        /\ waiting' = Client
     \/ /\ main' = "error"
        /\ UNCHANGED <<epoch, waiting>>
  /\ UNCHANGED <<result, thread, channel, worker, file, nextReceiver, nextMessage>>

(* collect returns when the threads are done; its error or panic ends the  *)
(* simulation.                                                             *)
EpochDoneBug ==
  /\ main = "running"
  /\ IF result = "ok" THEN waiting = {} /\ main' = "loading" ELSE main' = result
  /\ UNCHANGED <<epoch, waiting, result, thread, channel, worker, file,
                 nextReceiver, nextMessage>>

EpochDone ==
  /\ main = "running"
  /\ \A t \in Thread : thread[t].pc = "idle"
  /\ IF result = "ok" THEN waiting = {} /\ main' = "loading" ELSE main' = result
  /\ UNCHANGED <<epoch, waiting, result, thread, channel, worker, file,
                 nextReceiver, nextMessage>>

(* stop_and_join: None is sent to the worker.                              *)
StopWorkerBug ==
  /\ main = "loading"
  /\ epoch = MaxEpochs
  /\ main' = IF Connected THEN "joining" ELSE "error"
  /\ UNCHANGED <<epoch, waiting, result, thread, channel, worker, file, nextReceiver, nextMessage>>

StopWorker ==
  /\ main = "loading"
  /\ epoch = MaxEpochs
  /\ IF Connected
     THEN /\ Len(channel) < Capacity
          /\ channel' = Append(channel, None)
          /\ main' = "joining"
     ELSE main' = "error" /\ UNCHANGED channel
  /\ UNCHANGED <<epoch, waiting, result, thread, worker, file, nextReceiver, nextMessage>>

(* ... and its result is awaited.                                          *)
JoinBug ==
  /\ main = "joining"
  /\ main' = "ok"
  /\ UNCHANGED <<epoch, waiting, result, thread, channel, worker, file,
                 nextReceiver, nextMessage>>

Join ==
  /\ main = "joining"
  /\ worker \in {"done", "failed"}
  /\ main' = IF worker = "done" THEN "ok" ELSE "error"
  /\ UNCHANGED <<epoch, waiting, result, thread, channel, worker, file,
                 nextReceiver, nextMessage>>

MainStep == NextEpoch \/ EpochDone \/ StopWorker \/ Join

(* The process has ended, and with it all its threads.                     *)
Terminated == Ended /\ UNCHANGED vars

Next ==
  \/ \E t \in Thread : ThreadStep(t)
  \/ WorkerStep
  \/ MainStep
  \/ Terminated

Spec == Init /\ [][Next]_vars

(* The operating system runs every thread.                                 *)
FairSpec ==
  /\ Spec
  /\ \A t \in Thread : WF_vars(ThreadStep(t))
  /\ WF_vars(WorkerStep)
  /\ WF_vars(MainStep)

-----------------------------------------------------------------------------
TypeOK ==
  /\ main \in {"loading", "running", "joining", "abort"} \cup Outcome
  /\ epoch \in 0 .. MaxEpochs
  /\ waiting \subseteq Client
  /\ result \in Outcome
  /\ thread \in [Thread -> ThreadState]
  /\ channel \in Seq(Seq(TraceEntry) \cup {None}) /\ Len(channel) <= Capacity
  /\ worker \in {"starting", "running", "done", "failed"}
  /\ file \in Seq(TraceEntry)
  /\ nextReceiver \in Nat
  /\ nextMessage \in Nat

Contents(vec) == {vec[i] : i \in DOMAIN vec}

InTransit(ch) == UNION {Contents(b) : b \in Contents(ch) \ {None}}

Buffered(th) == UNION {Contents(th[t].buffer) : t \in Thread}

(* All entries there are, in the file, under way or in a buffer.           *)
AllEntries == Contents(file) \cup InTransit(channel) \cup Buffered(thread)

(* Numbers are unique although threads draw them concurrently: one message *)
(* number per packet, one destination per flow.                            *)
NumbersUnique ==
  \A d, e \in AllEntries :
    /\ d.m_id = e.m_id => d = e
    /\ d.destination_id = e.destination_id <=> d.flow = e.flow

(* The packets of a flow are next to each other in the file and numbered   *)
(* consecutively, whatever the interleaving of the threads and however the *)
(* buffers are cut.  (In particular, none is written twice.)               *)
FlowsContiguous ==
  \A i, j \in DOMAIN file :
    i < j /\ file[i].flow = file[j].flow => file[j].m_id = file[i].m_id + (j - i)

(* f was made before g, by the same client.                                *)
Before(f, g) ==
  f.client = g.client /\ (f.epoch < g.epoch \/ (f.epoch = g.epoch /\ f.made < g.made))

(* The flows of a client are in the file in the order the client made      *)
(* them, although other threads may have worked on it in other epochs.     *)
ClientOrder ==
  \A i, j \in DOMAIN file : i < j => ~Before(file[j].flow, file[i].flow)

(* When the simulation succeeds, the file has every packet.                *)
SuccessIsComplete ==
  main = "ok" => {e.m_id : e \in Contents(file)} = 0 .. nextMessage - 1

(* A write error is never taken for a success.                             *)
WriteErrorsReported == main = "ok" => worker # "failed"

(* The simulation ends: no thread waits forever to send to a worker that   *)
(* is gone, nor the main thread for the worker to end.                     *)
Terminates == <>Ended
=============================================================================
