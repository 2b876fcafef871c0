------------------------ MODULE TracePipeline_proofs ------------------------
(***************************************************************************)
(* Proofs about TracePipeline: the numbers in the trace file are unique,   *)
(* its flows contiguous and in order, and a simulation that succeeds has   *)
(* written all of them, for every number of threads, clients and epochs    *)
(* and every capacity of the channel.                                      *)
(***************************************************************************)
EXTENDS TracePipeline, FiniteSetTheorems, SequenceTheorems, TLAPS

-----------------------------------------------------------------------------
(* What the operations on sequences do to their contents.                  *)
LEMMA ConcatContents ==
  ASSUME NEW S, NEW s \in Seq(S), NEW t \in Seq(S)
  PROVE  s \o t \in Seq(S) /\ Contents(s \o t) = Contents(s) \cup Contents(t)
<1> DEFINE st == s \o t
<1>1. /\ st \in Seq(S)
      /\ Len(st) = Len(s) + Len(t)
      /\ \A i \in 1 .. Len(s) + Len(t) : st[i] = IF i <= Len(s) THEN s[i] ELSE t[i - Len(s)]
  BY ConcatProperties
<1> HIDE DEF st
<1>2. /\ Len(s) \in Nat /\ Len(t) \in Nat
      /\ DOMAIN s = 1 .. Len(s) /\ DOMAIN t = 1 .. Len(t)
      /\ DOMAIN st = 1 .. Len(s) + Len(t)
  BY <1>1, LenProperties
<1>3. \A i \in DOMAIN s : i \in DOMAIN st /\ st[i] = s[i]
  BY <1>1, <1>2
<1>4. \A i \in DOMAIN t : i + Len(s) \in DOMAIN st /\ st[i + Len(s)] = t[i]
  BY <1>1, <1>2
<1>5. \A i \in DOMAIN st :
        \/ i \in DOMAIN s /\ st[i] = s[i]
        \/ i - Len(s) \in DOMAIN t /\ st[i] = t[i - Len(s)]
  BY <1>1, <1>2
<1>6. Contents(st) = Contents(s) \cup Contents(t)
  BY <1>3, <1>4, <1>5 DEF Contents
<1> QED
  BY <1>1, <1>6 DEF st

LEMMA AppendContents ==
  ASSUME NEW S, NEW s \in Seq(S), NEW x \in S
  PROVE  /\ Append(s, x) \in Seq(S)
         /\ Contents(Append(s, x)) = Contents(s) \cup {x}
<1>1. /\ Append(s, x) \in Seq(S)
      /\ Len(s) \in Nat
      /\ DOMAIN s = 1 .. Len(s) /\ DOMAIN Append(s, x) = 1 .. Len(s) + 1
      /\ \A i \in 1 .. Len(s) : Append(s, x)[i] = s[i]
      /\ Append(s, x)[Len(s) + 1] = x
  BY LenProperties, AppendProperties
<1>2. \A i \in DOMAIN s : i \in DOMAIN Append(s, x) /\ Append(s, x)[i] = s[i]
  BY <1>1
<1>3. \A i \in DOMAIN Append(s, x) : i \in DOMAIN s \/ i = Len(s) + 1
  BY <1>1
<1>4. Len(s) + 1 \in DOMAIN Append(s, x)
  BY <1>1
<1> QED
  BY <1>1, <1>2, <1>3, <1>4 DEF Contents

LEMMA HeadTailContents ==
  ASSUME NEW S, NEW s \in Seq(S), s # <<>>
  PROVE  /\ Head(s) \in S /\ Tail(s) \in Seq(S) /\ Len(Tail(s)) = Len(s) - 1
         /\ Contents(s) = {Head(s)} \cup Contents(Tail(s))
<1>1. /\ Head(s) \in S /\ Tail(s) \in Seq(S) /\ Len(Tail(s)) = Len(s) - 1
      /\ \A i \in 1 .. Len(Tail(s)) : Tail(s)[i] = s[i + 1]
      /\ Head(s) = s[1]
  BY HeadTailProperties
<1>2. /\ Len(s) \in Nat \ {0}
      /\ DOMAIN s = 1 .. Len(s) /\ DOMAIN Tail(s) = 1 .. Len(s) - 1
  BY <1>1, LenProperties, EmptySeq
<1>3. \A i \in DOMAIN Tail(s) : i + 1 \in DOMAIN s /\ Tail(s)[i] = s[i + 1]
  BY <1>1, <1>2
<1>4. 1 \in DOMAIN s /\ s[1] = Head(s)
  BY <1>1, <1>2
<1>5. \A i \in DOMAIN s : i = 1 \/ (i - 1 \in DOMAIN Tail(s) /\ Tail(s)[i - 1] = s[i])
  BY <1>1, <1>2
<1> QED
  BY <1>1, <1>3, <1>4, <1>5 DEF Contents

LEMMA PrefixContents ==
  ASSUME NEW S, NEW s \in Seq(S), NEW k \in 0 .. Len(s)
  PROVE  /\ SubSeq(s, 1, k) \in Seq(S)
         /\ Contents(SubSeq(s, 1, k)) \subseteq Contents(s)
<1>1. Len(s) \in Nat /\ DOMAIN s = 1 .. Len(s) /\ \A i \in 1 .. Len(s) : s[i] \in S
  BY LenProperties
<1>2. /\ SubSeq(s, 1, k) \in Seq(S)
      /\ Len(SubSeq(s, 1, k)) = k
      /\ \A i \in 1 .. k : SubSeq(s, 1, k)[i] = s[i]
  <2>1. k \in Int /\ 1 \in Int /\ \A i \in 1 .. k : s[i] \in S
    BY <1>1
  <2> QED
    BY <2>1, SubSeqProperties
<1>3. DOMAIN SubSeq(s, 1, k) = 1 .. k
  BY <1>2, LenProperties
<1> QED
  BY <1>1, <1>2, <1>3 DEF Contents

LEMMA SeqContents ==
  ASSUME NEW S, NEW s \in Seq(S)
  PROVE  /\ Contents(s) \subseteq S
         /\ Len(s) \in Nat /\ DOMAIN s = 1 .. Len(s)
         /\ s = <<>> => Contents(s) = {}
BY LenProperties, EmptySeq DEF Contents

-----------------------------------------------------------------------------
(* What a thread has while it is working on a client, and what it has not  *)
(* between two clients.                                                    *)
Busy == {"flows", "drawn", "flush", "finish"}

Shape(th) ==
  /\ th.pc \in Busy => th.client \in Client
  /\ th.pc = "drawn" => th.receiver \in Nat
  /\ th.pc \in {"idle", "ready"} => th.buffer = <<>>

(* The message to stop is the last one, and is sent when no thread runs.   *)
StopIsLast ==
  /\ \A i \in DOMAIN channel : channel[i] = None => i = Len(channel)
  /\ main \in {"loading", "running"} => None \notin Contents(channel) /\ worker # "done"
  /\ worker \in {"done", "failed"} => channel = <<>>
  /\ main = "ok" => worker = "done"

TypeInv ==
  /\ TypeOK
  /\ \A t \in Thread : Shape(thread[t])
  /\ main \notin {"running", "abort"} => \A t \in Thread : thread[t].pc = "idle"
  /\ main = "loading" => waiting = {}
  /\ StopIsLast

LEMMA EntriesTyped ==
  ASSUME TypeInv, NEW t \in Thread, thread[t].pc = "drawn", NEW n \in Nat
  PROVE  Entries(thread[t], n) \in Seq(TraceEntry) /\ Len(Entries(thread[t], n)) = n
<1>1. /\ nextMessage \in Nat /\ epoch \in Nat /\ thread[t].made \in Nat
      /\ thread[t].receiver \in Nat /\ thread[t].client \in Client
  BY FlowAssumption DEF TypeInv, TypeOK, Shape, Busy, ThreadState
<1>2. \A i \in 1 .. n : nextMessage + i - 1 \in Nat
  BY <1>1
<1>3. \A i \in 1 .. n : Entries(thread[t], n)[i] \in TraceEntry
  BY <1>1, <1>2 DEF Entries, TraceEntry, Flow
<1>4. Entries(thread[t], n) \in [1 .. n -> TraceEntry]
  BY <1>3 DEF Entries
<1> QED
  BY <1>4

(* What a step of thread t makes of its state.                             *)
LEMMA Stepped ==
  ASSUME NEW t \in Thread, thread \in [Thread -> ThreadState], NEW th \in ThreadState,
         thread' = [thread EXCEPT ![t] = th]
  PROVE  /\ thread' \in [Thread -> ThreadState]
         /\ thread'[t] = th
         /\ \A u \in Thread : u # t => thread'[u] = thread[u]
OBVIOUS

(* The record of thread t is still one, and no other thread has changed.   *)
OnlyThread(t) ==
  /\ thread' \in [Thread -> ThreadState]
  /\ Shape(thread'[t])
  /\ \A u \in Thread : u # t => thread'[u] = thread[u]

LEMMA TakeEffect ==
  ASSUME TypeInv, NEW t \in Thread, NEW c \in Client, Take(t, c)
  PROVE  /\ OnlyThread(t)
         /\ thread'[t].pc = "flows" /\ thread'[t].client = c /\ thread'[t].made = 0
         /\ thread'[t].buffer = thread[t].buffer
<1> DEFINE nt == [thread[t] EXCEPT !.pc = "flows", !.client = c, !.made = 0]
<1>1. thread \in [Thread -> ThreadState] /\ thread[t] \in ThreadState
  BY DEF TypeInv, TypeOK
<1>2. /\ nt \in ThreadState /\ nt.buffer = thread[t].buffer
      /\ nt.pc = "flows" /\ nt.client = c /\ nt.made = 0
  BY <1>1 DEF ThreadState
<1>3. thread' = [thread EXCEPT ![t] = nt]
  BY DEF Take
<1> HIDE DEF nt
<1> QED
  BY <1>1, <1>2, <1>3, Stepped DEF OnlyThread, Shape

(* Leave and ClientDone                                                    *)
LEMMA PcEffect ==
  ASSUME TypeInv, NEW t \in Thread, Leave(t) \/ ClientDone(t)
  PROVE  /\ OnlyThread(t)
         /\ \/ thread[t].pc = "ready" /\ thread'[t].pc = "drop"
            \/ thread[t].pc = "flows" /\ thread'[t].pc = "finish"
         /\ thread'[t].client = thread[t].client /\ thread'[t].made = thread[t].made
         /\ thread'[t].buffer = thread[t].buffer
<1> DEFINE nt == [thread[t] EXCEPT !.pc = IF Leave(t) THEN "drop" ELSE "finish"]
<1>1. thread \in [Thread -> ThreadState] /\ thread[t] \in ThreadState /\ Shape(thread[t])
  BY DEF TypeInv, TypeOK
<1>2. /\ nt \in ThreadState /\ nt.buffer = thread[t].buffer
      /\ nt.pc = IF Leave(t) THEN "drop" ELSE "finish"
      /\ nt.client = thread[t].client /\ nt.made = thread[t].made
  BY <1>1 DEF ThreadState, Sending
<1>3. thread' = [thread EXCEPT ![t] = nt]
  BY DEF Leave, ClientDone
<1>4. IF Leave(t) THEN thread[t].pc = "ready" ELSE thread[t].pc = "flows"
  BY DEF Leave, ClientDone
<1> HIDE DEF nt
<1> QED
  BY <1>1, <1>2, <1>3, <1>4, Stepped DEF OnlyThread, Shape, Busy

LEMMA DrawEffect ==
  ASSUME TypeInv, NEW t \in Thread, DrawReceiver(t)
  PROVE  /\ OnlyThread(t)
         /\ thread[t].pc = "flows" /\ thread'[t].pc = "drawn"
         /\ thread'[t].client = thread[t].client /\ thread'[t].made = thread[t].made
         /\ thread'[t].receiver = nextReceiver /\ thread'[t].buffer = thread[t].buffer
<1> DEFINE nt == [thread[t] EXCEPT !.pc = "drawn", !.receiver = nextReceiver]
<1>1. /\ thread \in [Thread -> ThreadState] /\ thread[t] \in ThreadState /\ Shape(thread[t])
      /\ nextReceiver \in Nat
  BY DEF TypeInv, TypeOK
<1>2. /\ nt \in ThreadState /\ nt.buffer = thread[t].buffer
      /\ nt.pc = "drawn" /\ nt.receiver = nextReceiver
      /\ nt.client = thread[t].client /\ nt.made = thread[t].made
  BY <1>1 DEF ThreadState
<1>3. thread' = [thread EXCEPT ![t] = nt] /\ thread[t].pc = "flows"
  BY DEF DrawReceiver
<1> HIDE DEF nt
<1> QED
  BY <1>1, <1>2, <1>3, Stepped DEF OnlyThread, Shape, Busy

LEMMA WriteEffect ==
  ASSUME TypeInv, NEW t \in Thread, NEW n \in FlowLength, WriteEntries(t, n)
  PROVE  /\ OnlyThread(t)
         /\ thread[t].pc = "drawn" /\ thread'[t].pc \in {"flush", "flows"}
         /\ thread'[t].client = thread[t].client /\ thread'[t].made = thread[t].made + 1
         /\ thread'[t].buffer = thread[t].buffer \o Entries(thread[t], n)
<1> DEFINE buffer == thread[t].buffer \o Entries(thread[t], n)
           pc == IF Len(buffer) > FlushAt THEN "flush" ELSE "flows"
           made == thread[t].made + 1
           nt == [thread[t] EXCEPT !.pc = pc, !.made = made, !.receiver = None, !.buffer = buffer]
<1>1. /\ thread \in [Thread -> ThreadState] /\ thread[t] \in ThreadState /\ Shape(thread[t])
      /\ thread[t].pc = "drawn" /\ n \in Nat
  BY FlowAssumption DEF TypeInv, TypeOK, WriteEntries
<1>2. buffer \in Seq(TraceEntry)
  BY <1>1, EntriesTyped, ConcatContents DEF ThreadState
<1>3. thread' = [thread EXCEPT ![t] = nt]
  BY DEF WriteEntries
<1>4. pc \in {"flush", "flows"} /\ made \in Nat
  BY <1>1 DEF ThreadState
<1> HIDE DEF buffer, pc, made
<1>5. /\ nt \in ThreadState /\ nt.buffer = buffer /\ nt.pc = pc
      /\ nt.client = thread[t].client /\ nt.made = made
  BY <1>1, <1>2, <1>4 DEF ThreadState, Sending
<1> HIDE DEF nt
<1>6. OnlyThread(t) /\ thread'[t] = nt
  BY <1>1, <1>3, <1>4, <1>5, Stepped DEF OnlyThread, Shape, Busy
<1> QED
  BY <1>1, <1>4, <1>5, <1>6 DEF buffer, made

LEMMA GiveUpEffect ==
  ASSUME TypeInv, NEW t \in Thread, NEW how \in Outcome, NEW buffer \in Seq(TraceEntry),
         GiveUp(t, how, buffer)
  PROVE  OnlyThread(t) /\ thread'[t].pc = "drop" /\ thread'[t].buffer = buffer
<1> DEFINE nt == [thread[t] EXCEPT !.pc = "drop", !.fate = how, !.buffer = buffer, !.client = None]
<1>1. thread \in [Thread -> ThreadState] /\ thread[t] \in ThreadState
  BY DEF TypeInv, TypeOK
<1>2. nt \in ThreadState /\ nt.buffer = buffer /\ nt.pc = "drop"
  BY <1>1 DEF ThreadState, Sending
<1>3. thread' = [thread EXCEPT ![t] = nt]
  BY DEF GiveUp
<1> HIDE DEF nt
<1> QED
  BY <1>1, <1>2, <1>3, Stepped DEF OnlyThread, Shape, Busy

LEMMA IdleTyped ==
  /\ IdleThread \in ThreadState /\ Shape(IdleThread)
  /\ IdleThread.pc = "idle" /\ IdleThread.buffer = <<>>
BY EmptySeq DEF IdleThread, ThreadState, Shape, Busy, Outcome

LEMMA SendEffect ==
  ASSUME TypeInv, NEW t \in Thread, Send(t)
  PROVE  /\ OnlyThread(t)
         /\ thread'[t].buffer = <<>>
         /\ \/ /\ thread[t].pc = "flush" /\ thread'[t].pc = "flows"
               /\ thread'[t].client = thread[t].client /\ thread'[t].made = thread[t].made
            \/ thread[t].pc = "finish" /\ thread'[t].pc = "ready"
            \/ thread[t].pc = "drop" /\ thread'[t].pc = "idle"
<1>1. /\ thread \in [Thread -> ThreadState] /\ thread[t] \in ThreadState /\ Shape(thread[t])
      /\ thread' = [thread EXCEPT ![t] = Sent(thread[t])]
  BY DEF TypeInv, TypeOK, Send
<1>2. CASE thread[t].pc = "flush"
  <2> DEFINE nt == [thread[t] EXCEPT !.pc = "flows", !.buffer = <<>>]
  <2>1. Sent(thread[t]) = nt
    BY <1>2 DEF Sent
  <2>2. /\ nt \in ThreadState /\ nt.buffer = <<>> /\ nt.pc = "flows"
        /\ nt.client = thread[t].client /\ nt.made = thread[t].made
    BY <1>1, EmptySeq DEF ThreadState
  <2> HIDE DEF nt
  <2> QED
    BY <1>1, <1>2, <2>1, <2>2, Stepped DEF OnlyThread, Shape, Busy
<1>3. CASE thread[t].pc = "finish"
  <2> DEFINE nt == [thread[t] EXCEPT !.pc = "ready", !.buffer = <<>>, !.client = None]
  <2>1. Sent(thread[t]) = nt
    BY <1>3 DEF Sent
  <2>2. nt \in ThreadState /\ nt.buffer = <<>> /\ nt.pc = "ready"
    BY <1>1, EmptySeq DEF ThreadState
  <2> HIDE DEF nt
  <2> QED
    BY <1>1, <1>3, <2>1, <2>2, Stepped DEF OnlyThread, Shape, Busy
<1>4. CASE thread[t].pc = "drop"
  <2>1. Sent(thread[t]) = IdleThread
    BY <1>4 DEF Sent
  <2> QED
    BY <1>1, <1>4, <2>1, IdleTyped, Stepped DEF OnlyThread
<1> QED
  BY <1>2, <1>3, <1>4 DEF Send, Sending

(* A thread whose writer is dropped with an error ends with no entries.    *)
LEMMA DropEffect ==
  ASSUME TypeInv, NEW t \in Thread, DropPanics(t)
  PROVE  \/ main' = "abort" /\ UNCHANGED <<thread, result>>
         \/ /\ OnlyThread(t)
            /\ thread'[t].pc = "idle" /\ thread'[t].buffer = <<>>
            /\ UNCHANGED main /\ result' = "panic"
<1>1. thread \in [Thread -> ThreadState]
  BY DEF TypeInv, TypeOK
<1> QED
  BY <1>1, IdleTyped, Stepped DEF DropPanics, OnlyThread

-----------------------------------------------------------------------------
Message == Seq(TraceEntry) \cup {None}

(* What a step of a thread leaves alone.                                   *)
LEMMA ThreadStepTyped ==
  ASSUME TypeInv, NEW t \in Thread, ThreadStep(t)
  PROVE  TypeInv'
<1>0. /\ main = "running" /\ nextReceiver \in Nat /\ nextMessage \in Nat
      /\ channel \in Seq(Message) /\ None \notin Contents(channel) /\ worker # "done"
      /\ thread[t] \in ThreadState /\ thread[t].buffer \in Seq(TraceEntry)
  BY DEF ThreadStep, TypeInv, TypeOK, StopIsLast, Message, ThreadState
<1>1. ASSUME OnlyThread(t), main' \in {"running", "abort"}, result' \in Outcome,
             waiting' \subseteq Client, nextReceiver' \in Nat,
             UNCHANGED <<epoch, channel, worker, file, nextMessage>>
      PROVE  TypeInv'
  BY <1>0, <1>1 DEF TypeInv, TypeOK, OnlyThread, StopIsLast, Contents, Outcome
<1>2. CASE \E c \in Client : Take(t, c)
  <2>1. PICK c \in Client : Take(t, c)
    BY <1>2
  <2> QED
    BY <1>0, <1>1, <2>1, TakeEffect DEF Take, TypeInv, TypeOK
<1>3. CASE Leave(t) \/ ClientDone(t)
  BY <1>0, <1>1, <1>3, PcEffect DEF Leave, ClientDone, TypeInv, TypeOK
<1>4. CASE DrawReceiver(t)
  <2>1. OnlyThread(t)
    BY <1>4, DrawEffect
  <2>2. /\ nextReceiver' \in Nat
        /\ UNCHANGED <<main, epoch, waiting, result, channel, worker, file, nextMessage>>
    BY <1>0, <1>4 DEF DrawReceiver
  <2> QED
    BY <1>0, <1>1, <2>1, <2>2 DEF TypeInv, TypeOK
<1>5. CASE \E n \in FlowLength : WriteEntries(t, n)
  <2>1. PICK n \in FlowLength : WriteEntries(t, n)
    BY <1>5
  <2>2. OnlyThread(t)
    BY <2>1, WriteEffect
  <2>3. nextMessage' \in Nat
    BY <1>0, <2>1, FlowAssumption DEF WriteEntries
  <2> QED
    BY <1>0, <2>1, <2>2, <2>3 DEF WriteEntries, TypeInv, TypeOK, OnlyThread, StopIsLast, Contents
<1>6. CASE \E how \in {"error", "panic"} : ClientFails(t, how)
  <2>1. PICK how \in {"error", "panic"} : ClientFails(t, how)
    BY <1>6
  <2>2. OnlyThread(t)
    BY <1>0, <2>1, GiveUpEffect DEF ClientFails, Outcome
  <2> QED
    BY <1>0, <1>1, <2>1, <2>2 DEF ClientFails, GiveUp, Worse, Outcome, TypeInv, TypeOK
<1>7. CASE Send(t)
  <2>1. OnlyThread(t)
    BY <1>7, SendEffect
  <2>2. /\ channel' = Append(channel, thread[t].buffer) /\ Len(channel) < Capacity /\ Connected
        /\ UNCHANGED <<main, epoch, waiting, result, worker, file, nextReceiver, nextMessage>>
    BY <1>7 DEF Send
  <2>3. thread[t].buffer \in Message /\ thread[t].buffer # None
    BY <1>0, NoneAssumption DEF Message
  <2>4. /\ channel' \in Seq(Message) /\ Len(channel') = Len(channel) + 1
        /\ Contents(channel') = Contents(channel) \cup {thread[t].buffer}
    BY <1>0, <2>2, <2>3, AppendContents, AppendProperties
  <2>5. Len(channel') <= Capacity
    BY <1>0, <2>2, <2>4, CapacityAssumption, SeqContents
  <2>6. None \notin Contents(channel)'
    BY <1>0, <2>3, <2>4 DEF Contents
  <2>7. StopIsLast'
    BY <1>0, <2>2, <2>6 DEF StopIsLast, Contents, Connected
  <2> QED
    BY <1>0, <2>1, <2>2, <2>4, <2>5, <2>7 DEF TypeInv, TypeOK, OnlyThread, Message
<1>8. CASE SendFails(t)
  <2>1. OnlyThread(t)
    BY <1>0, <1>8, EmptySeq, GiveUpEffect DEF SendFails, Outcome
  <2> QED
    BY <1>0, <1>1, <1>8, <2>1 DEF SendFails, GiveUp, Worse, Outcome, TypeInv, TypeOK
<1>9. CASE DropPanics(t)
  <2>1. UNCHANGED <<epoch, waiting, channel, worker, file, nextReceiver, nextMessage>>
    BY <1>9 DEF DropPanics
  <2>2. CASE main' = "abort" /\ UNCHANGED <<thread, result>>
    BY <1>0, <2>1, <2>2 DEF TypeInv, TypeOK, StopIsLast, Contents
  <2>3. CASE OnlyThread(t) /\ UNCHANGED main /\ result' = "panic"
    BY <1>0, <1>1, <2>1, <2>3 DEF TypeInv, TypeOK, Outcome
  <2> QED
    BY <1>9, <2>2, <2>3, DropEffect
<1> QED
  BY <1>2, <1>3, <1>4, <1>5, <1>6, <1>7, <1>8, <1>9 DEF ThreadStep

LEMMA WorkerStepTyped ==
  ASSUME TypeInv, WorkerStep
  PROVE  TypeInv'
<1>0. /\ channel \in Seq(Message) /\ file \in Seq(TraceEntry)
      /\ UNCHANGED <<main, epoch, waiting, result, thread, nextReceiver, nextMessage>>
      /\ main # "abort"
  BY DEF WorkerStep, TypeInv, TypeOK, Message
<1>1. ASSUME file' \in Seq(TraceEntry), Finish("failed"),
             worker \in {"starting", "running"}
      PROVE  TypeInv'
  BY <1>0, <1>1, EmptySeq, CapacityAssumption
     DEF TypeInv, TypeOK, StopIsLast, Contents, Finish, Message
<1>2. CASE WriteHeader
  BY <1>0, <1>2 DEF WriteHeader, TypeInv, TypeOK, StopIsLast, Contents
<1>3. CASE WriteBatch
  <2>1. Head(channel) \in Seq(TraceEntry)
    BY <1>0, <1>3, HeadTailProperties DEF WriteBatch, Message
  <2>2. file' \in Seq(TraceEntry)
    BY <1>0, <1>3, <2>1, ConcatContents DEF WriteBatch
  <2>3. /\ channel' \in Seq(Message) /\ Len(channel') = Len(channel) - 1
        /\ Len(channel) \in Nat /\ Contents(channel') \subseteq Contents(channel)
        /\ DOMAIN channel = 1 .. Len(channel) /\ DOMAIN channel' = 1 .. Len(channel')
        /\ \A i \in DOMAIN channel' : channel'[i] = channel[i + 1]
    BY <1>0, <1>3, HeadTailContents, HeadTailProperties, SeqContents DEF WriteBatch
  <2>4. worker = "running" /\ worker' = "running"
    BY <1>3 DEF WriteBatch
  <2>5. StopIsLast'
    <3>1. \A i \in DOMAIN channel' : channel'[i] = None => i = Len(channel')
      BY <2>3 DEF TypeInv, StopIsLast
    <3>2. main' \in {"loading", "running"} => None \notin Contents(channel)'
      BY <1>0, <2>3 DEF TypeInv, StopIsLast, Contents
    <3> QED
      BY <1>0, <2>4, <3>1, <3>2 DEF TypeInv, StopIsLast
  <2>6. Len(channel') <= Capacity
    BY <2>3, CapacityAssumption DEF TypeInv, TypeOK
  <2> QED
    BY <1>0, <2>2, <2>3, <2>4, <2>5, <2>6 DEF TypeInv, TypeOK, Message
<1>4. CASE WriteFails
  <2>1. CASE worker = "starting" /\ Finish("failed") /\ UNCHANGED file
    BY <1>0, <1>1, <2>1
  <2>2. CASE /\ worker = "running"
             /\ channel # <<>> /\ Head(channel) # None
             /\ \E k \in 0 .. Len(Head(channel)) : file' = file \o SubSeq(Head(channel), 1, k)
             /\ Finish("failed")
    <3>1. PICK k \in 0 .. Len(Head(channel)) : file' = file \o SubSeq(Head(channel), 1, k)
      BY <2>2
    <3>2. Head(channel) \in Seq(TraceEntry)
      BY <1>0, <2>2, HeadTailProperties DEF Message
    <3>3. file' \in Seq(TraceEntry)
      BY <1>0, <3>1, <3>2, PrefixContents, ConcatContents
    <3> QED
      BY <1>1, <2>2, <3>3
  <2> QED
    BY <1>4, <2>1, <2>2 DEF WriteFails
<1>5. CASE Stop
  <2>1. main \notin {"loading", "running"}
    <3>1. channel # <<>> /\ Head(channel) = None
      BY <1>5 DEF Stop
    <3>2. None \in Contents(channel)
      BY <1>0, <3>1, HeadTailContents
    <3> QED
      BY <3>2 DEF TypeInv, StopIsLast
  <2> QED
    BY <1>0, <1>5, <2>1, EmptySeq, CapacityAssumption
       DEF Stop, Finish, TypeInv, TypeOK, StopIsLast, Contents, Message
<1>6. CASE Disconnect
  BY <1>0, <1>1, <1>6 DEF Disconnect
<1> QED
  BY <1>2, <1>3, <1>4, <1>5, <1>6 DEF WorkerStep

LEMMA MainStepTyped ==
  ASSUME TypeInv, MainStep
  PROVE  TypeInv'
<1>1. CASE NextEpoch
  BY <1>1, FlowAssumption DEF NextEpoch, TypeInv, TypeOK, StopIsLast, Contents, Outcome
<1>2. CASE EpochDone
  BY <1>2 DEF EpochDone, TypeInv, TypeOK, StopIsLast, Contents, Outcome
<1>3. CASE StopWorker
  <2>1. CASE ~Connected
    BY <1>3, <2>1 DEF StopWorker, TypeInv, TypeOK, StopIsLast, Contents, Outcome, Connected
  <2>2. CASE Connected
    <3>1. /\ channel \in Seq(Message) /\ None \notin Contents(channel)
      BY <1>3 DEF StopWorker, TypeInv, TypeOK, StopIsLast, Message
    <3>2. channel' = Append(channel, None) /\ Len(channel) < Capacity /\ main' = "joining"
      BY <1>3, <2>2 DEF StopWorker
    <3>3. /\ channel' \in Seq(Message) /\ Len(channel') = Len(channel) + 1
          /\ Len(channel) \in Nat
          /\ DOMAIN channel = 1 .. Len(channel) /\ DOMAIN channel' = 1 .. Len(channel')
          /\ \A i \in DOMAIN channel : channel'[i] = channel[i]
      <4>1. None \in Message
        BY DEF Message
      <4> QED
        BY <3>1, <3>2, <4>1, AppendProperties, SeqContents
    <3>4. \A i \in DOMAIN channel' : channel'[i] = None => i = Len(channel')
      BY <3>1, <3>3 DEF Contents
    <3>5. StopIsLast'
      BY <1>3, <2>2, <3>2, <3>4 DEF StopWorker, StopIsLast, Connected
    <3>6. Len(channel') <= Capacity
      BY <3>2, <3>3, CapacityAssumption
    <3> QED
      BY <1>3, <3>2, <3>3, <3>5, <3>6 DEF StopWorker, TypeInv, TypeOK, Message
  <2> QED
    BY <2>1, <2>2
<1>4. CASE Join
  BY <1>4 DEF Join, TypeInv, TypeOK, StopIsLast, Contents, Outcome
<1> QED
  BY <1>1, <1>2, <1>3, <1>4 DEF MainStep

(* The types, what a thread has drawn and buffered at each point, and that *)
(* the message to stop is the last one in the channel: nothing is written  *)
(* after it.                                                               *)
THEOREM Typed == Spec => []TypeInv
<1>1. Init => TypeInv
  BY EmptySeq, IdleTyped, FlowAssumption, CapacityAssumption
     DEF Init, TypeInv, TypeOK, StopIsLast, Contents, Outcome
<1>2. TypeInv /\ [Next]_vars => TypeInv'
  <2>1. ASSUME TypeInv, UNCHANGED vars PROVE TypeInv'
    BY <2>1 DEF vars, TypeInv, TypeOK, StopIsLast, Contents
  <2> QED
    BY <2>1, ThreadStepTyped, WorkerStepTyped, MainStepTyped DEF Next, Terminated
<1> QED
  BY <1>1, <1>2, PTL DEF Spec

-----------------------------------------------------------------------------
(* Where entries go: a thread adds those of a flow, and every other step   *)
(* passes them on.  They are lost only when the worker has failed.         *)
New(t, n) == Contents(Entries(thread[t], n))

LEMMA AllEntriesAre ==
  /\ AllEntries = Contents(file) \cup InTransit(channel) \cup Buffered(thread)
  /\ AllEntries' = Contents(file') \cup InTransit(channel') \cup Buffered(thread')
BY DEF AllEntries

(* What thread t has in its buffer, and what the others have.              *)
LEMMA BufferedBut ==
  ASSUME NEW t \in Thread, NEW f, NEW g,
         \A u \in Thread : u # t => f[u].buffer = g[u].buffer
  PROVE  \E rest : /\ Buffered(f) = rest \cup Contents(f[t].buffer)
                   /\ Buffered(g) = rest \cup Contents(g[t].buffer)
<1> DEFINE rest == UNION {Contents(f[u].buffer) : u \in Thread \ {t}}
<1>1. rest = UNION {Contents(g[u].buffer) : u \in Thread \ {t}}
  OBVIOUS
<1>2. Buffered(f) = rest \cup Contents(f[t].buffer)
  BY DEF Buffered
<1> HIDE DEF rest
<1>3. Buffered(g) = rest \cup Contents(g[t].buffer)
  BY <1>1 DEF Buffered
<1> QED
  BY <1>2, <1>3

LEMMA InTransitWith ==
  ASSUME NEW ch, NEW new, NEW b, Contents(new) = Contents(ch) \cup {b}
  PROVE  InTransit(new) = InTransit(ch) \cup IF b = None THEN {} ELSE Contents(b)
<1>1. CASE b = None
  <2>1. Contents(new) \ {None} = Contents(ch) \ {None}
    BY <1>1
  <2> QED
    BY <1>1, <2>1 DEF InTransit
<1>2. CASE b # None
  <2>1. Contents(new) \ {None} = (Contents(ch) \ {None}) \cup {b}
    BY <1>2
  <2> DEFINE C == Contents(ch) \ {None}
  <2>2. UNION {Contents(c) : c \in C \cup {b}} = (UNION {Contents(c) : c \in C}) \cup Contents(b)
    OBVIOUS
  <2> QED
    BY <1>2, <2>1, <2>2 DEF InTransit
<1> QED
  BY <1>1, <1>2

Passed == AllEntries' \subseteq AllEntries /\ (worker' # "failed" => AllEntries' = AllEntries)

LEMMA SameBuffersPass ==
  ASSUME TypeInv, UNCHANGED <<file, channel>>,
         \A u \in Thread : thread'[u].buffer = thread[u].buffer
  PROVE  Passed
<1>1. Buffered(thread') = Buffered(thread)
  BY DEF Buffered
<1> QED
  BY <1>1, AllEntriesAre DEF Passed

LEMMA WriteAddsNew ==
  ASSUME TypeInv, NEW t \in Thread, NEW n \in FlowLength, WriteEntries(t, n)
  PROVE  AllEntries' = AllEntries \cup New(t, n)
<1>1. /\ \A u \in Thread : u # t => thread'[u].buffer = thread[u].buffer
      /\ thread'[t].buffer = thread[t].buffer \o Entries(thread[t], n)
      /\ thread[t].pc = "drawn"
  BY WriteEffect DEF OnlyThread
<1>2. Entries(thread[t], n) \in Seq(TraceEntry) /\ thread[t].buffer \in Seq(TraceEntry)
  BY <1>1, EntriesTyped, FlowAssumption DEF TypeInv, TypeOK, ThreadState
<1>3. Contents(thread'[t].buffer) = Contents(thread[t].buffer) \cup New(t, n)
  BY <1>1, <1>2, ConcatContents DEF New
<1>4. PICK rest : /\ Buffered(thread') = rest \cup Contents(thread'[t].buffer)
                  /\ Buffered(thread) = rest \cup Contents(thread[t].buffer)
  <2>1. \A u \in Thread : u # t => thread'[u].buffer = thread[u].buffer
    BY <1>1
  <2> QED
    BY <2>1, BufferedBut
<1>5. UNCHANGED <<file, channel>>
  BY DEF WriteEntries
<1> QED
  BY <1>3, <1>4, <1>5, AllEntriesAre

LEMMA SendPasses ==
  ASSUME TypeInv, NEW t \in Thread, Send(t)
  PROVE  Passed
<1>1. /\ \A u \in Thread : u # t => thread'[u].buffer = thread[u].buffer
      /\ thread'[t].buffer = <<>>
  BY SendEffect DEF OnlyThread
<1>2. /\ thread[t].buffer \in Message /\ thread[t].buffer # None
      /\ channel \in Seq(Message)
  BY NoneAssumption DEF TypeInv, TypeOK, ThreadState, Message
<1>3. Contents(channel') = Contents(channel) \cup {thread[t].buffer}
  BY <1>2, AppendContents DEF Send
<1>4. Contents(thread'[t].buffer) = {}
  BY <1>1 DEF Contents
<1>5. PICK rest : /\ Buffered(thread') = rest \cup Contents(thread'[t].buffer)
                  /\ Buffered(thread) = rest \cup Contents(thread[t].buffer)
  BY <1>1, BufferedBut
<1>6. InTransit(channel') = InTransit(channel) \cup Contents(thread[t].buffer)
  BY <1>2, <1>3, InTransitWith
<1>7. file' = file
  BY DEF Send
<1>8. AllEntries' = AllEntries
  BY <1>4, <1>5, <1>6, <1>7, AllEntriesAre
<1> QED
  BY <1>8 DEF Passed

(* Steps that shorten the channel or empty a buffer, while the worker has  *)
(* failed.                                                                 *)
LEMMA LossPasses ==
  ASSUME TypeInv, worker' = "failed", Contents(file') \subseteq AllEntries,
         Contents(channel') \subseteq Contents(channel),
         \A u \in Thread : thread'[u].buffer \in {thread[u].buffer, <<>>}
  PROVE  Passed
<1>1. \A u \in Thread : Contents(thread'[u].buffer) \subseteq Contents(thread[u].buffer)
  BY DEF Contents
<1>2. Buffered(thread') \subseteq Buffered(thread)
  BY <1>1 DEF Buffered
<1>3. InTransit(channel') \subseteq InTransit(channel)
  BY DEF InTransit
<1> QED
  BY <1>2, <1>3, AllEntriesAre DEF Passed

LEMMA ThreadPasses ==
  ASSUME TypeInv, NEW t \in Thread, ThreadStep(t)
  PROVE  \/ Passed /\ nextMessage' = nextMessage
         \/ \E n \in FlowLength : WriteEntries(t, n)
<1>1. CASE \E c \in Client : Take(t, c)
  BY <1>1, TakeEffect, SameBuffersPass DEF OnlyThread, Take
<1>2. CASE Leave(t) \/ ClientDone(t)
  BY <1>2, PcEffect, SameBuffersPass DEF OnlyThread, Leave, ClientDone
<1>3. CASE DrawReceiver(t)
  BY <1>3, DrawEffect, SameBuffersPass DEF OnlyThread, DrawReceiver
<1>4. CASE \E how \in {"error", "panic"} : ClientFails(t, how)
  <2>1. PICK how \in {"error", "panic"} : ClientFails(t, how)
    BY <1>4
  <2>2. OnlyThread(t) /\ thread'[t].buffer = thread[t].buffer
    BY <2>1, GiveUpEffect DEF ClientFails, Outcome, TypeInv, TypeOK, ThreadState
  <2> QED
    BY <2>1, <2>2, SameBuffersPass DEF OnlyThread, ClientFails
<1>5. CASE Send(t)
  BY <1>5, SendPasses DEF Send
<1>6. CASE SendFails(t) \/ DropPanics(t)
  <2>1. /\ worker' = "failed" /\ nextMessage' = nextMessage
        /\ UNCHANGED <<file, channel>>
    BY <1>6 DEF SendFails, DropPanics, Connected, ThreadStep, TypeInv, TypeOK, StopIsLast
  <2>2. \A u \in Thread : thread'[u].buffer \in {thread[u].buffer, <<>>}
    BY <1>6, EmptySeq, GiveUpEffect, DropEffect DEF SendFails, OnlyThread, Outcome
  <2>3. Contents(file') \subseteq AllEntries
    BY <2>1 DEF AllEntries
  <2> QED
    BY <2>1, <2>2, <2>3, LossPasses
<1> QED
  BY <1>1, <1>2, <1>3, <1>4, <1>5, <1>6 DEF ThreadStep

LEMMA WorkerPasses ==
  ASSUME TypeInv, WorkerStep
  PROVE  Passed /\ UNCHANGED <<nextMessage, thread>> /\ (worker = "failed" => worker' = "failed")
<1>0. /\ channel \in Seq(Message) /\ file \in Seq(TraceEntry)
      /\ UNCHANGED <<main, epoch, waiting, result, thread, nextReceiver, nextMessage>>
  BY DEF WorkerStep, TypeInv, TypeOK, Message
<1>1. CASE WriteHeader
  BY <1>0, <1>1, SameBuffersPass DEF WriteHeader
<1>2. CASE WriteBatch
  <2>1. Head(channel) \in Seq(TraceEntry) /\ Head(channel) # None
    BY <1>0, <1>2, HeadTailProperties DEF WriteBatch, Message
  <2>2. Contents(file') = Contents(file) \cup Contents(Head(channel))
    BY <1>0, <1>2, <2>1, ConcatContents DEF WriteBatch
  <2>3. Contents(channel) = {Head(channel)} \cup Contents(channel')
    BY <1>0, <1>2, HeadTailContents DEF WriteBatch
  <2>4. InTransit(channel) = InTransit(channel') \cup Contents(Head(channel))
    BY <2>1, <2>3, InTransitWith
  <2>5. AllEntries' = AllEntries
    BY <1>0, <2>2, <2>4, AllEntriesAre
  <2> QED
    BY <1>0, <1>2, <2>5 DEF Passed, WriteBatch
<1>3. CASE WriteFails
  <2>1. CASE worker = "starting" /\ Finish("failed") /\ UNCHANGED file
    BY <1>0, <2>1, LossPasses DEF Finish, Contents, AllEntries
  <2>2. CASE /\ worker = "running"
             /\ channel # <<>> /\ Head(channel) # None
             /\ \E k \in 0 .. Len(Head(channel)) : file' = file \o SubSeq(Head(channel), 1, k)
             /\ Finish("failed")
    <3>1. PICK k \in 0 .. Len(Head(channel)) : file' = file \o SubSeq(Head(channel), 1, k)
      BY <2>2
    <3>2. Head(channel) \in Seq(TraceEntry)
      BY <1>0, <2>2, HeadTailProperties DEF Message
    <3>3. Contents(file') \subseteq Contents(file) \cup Contents(Head(channel))
      <4>1. /\ SubSeq(Head(channel), 1, k) \in Seq(TraceEntry)
            /\ Contents(SubSeq(Head(channel), 1, k)) \subseteq Contents(Head(channel))
        BY <3>2, PrefixContents
      <4>2. Contents(file') = Contents(file) \cup Contents(SubSeq(Head(channel), 1, k))
        BY <1>0, <3>1, <4>1, ConcatContents
      <4> QED
        BY <4>1, <4>2
    <3>4. Head(channel) \in Contents(channel) \ {None}
      BY <1>0, <2>2, HeadTailContents
    <3>5. Contents(file') \subseteq AllEntries
      BY <3>3, <3>4 DEF AllEntries, InTransit
    <3>6. worker' = "failed" /\ Contents(channel') \subseteq Contents(channel)
      BY <2>2 DEF Finish, Contents
    <3> QED
      BY <1>0, <2>2, <3>5, <3>6, LossPasses
  <2> QED
    BY <1>3, <2>1, <2>2 DEF WriteFails
<1>4. CASE Stop
  <2>1. /\ channel # <<>> /\ Head(channel) = None
        /\ channel' = <<>> /\ file' = file /\ worker' = "done"
    BY <1>4 DEF Stop, Finish
  <2>2. Contents(channel) \subseteq {None}
    <3>1. /\ Len(channel) \in Nat /\ DOMAIN channel = 1 .. Len(channel)
          /\ channel[1] = None /\ 1 \in DOMAIN channel
      BY <1>0, <2>1, HeadTailProperties, LenProperties, EmptySeq
    <3>2. Len(channel) = 1
      BY <3>1 DEF TypeInv, StopIsLast
    <3> QED
      BY <3>1, <3>2 DEF Contents
  <2>3. InTransit(channel) = {} /\ InTransit(channel') = {}
    <3>1. Contents(channel) \ {None} = {} /\ Contents(channel') \ {None} = {}
      BY <2>1, <2>2 DEF Contents
    <3> QED
      BY <3>1 DEF InTransit
  <2>4. AllEntries' = AllEntries
    BY <1>0, <2>1, <2>3, AllEntriesAre
  <2> QED
    BY <1>0, <1>4, <2>4 DEF Passed, Stop
<1>5. CASE Disconnect
  BY <1>0, <1>5, LossPasses DEF Disconnect, Finish, Contents, AllEntries
<1> QED
  BY <1>1, <1>2, <1>3, <1>4, <1>5 DEF WorkerStep

LEMMA MainPasses ==
  ASSUME TypeInv, MainStep
  PROVE  Passed /\ UNCHANGED <<nextMessage, nextReceiver, thread, worker, file>>
<1>1. CASE NextEpoch \/ EpochDone \/ Join \/ (StopWorker /\ ~Connected)
  BY <1>1, SameBuffersPass DEF NextEpoch, EpochDone, Join, StopWorker
<1>2. CASE StopWorker /\ Connected
  <2>1. /\ channel' = Append(channel, None) /\ channel \in Seq(Message) /\ None \in Message
        /\ UNCHANGED <<nextMessage, nextReceiver, thread, worker, file>>
    BY <1>2 DEF StopWorker, TypeInv, TypeOK, Message
  <2>2. Contents(channel') = Contents(channel) \cup {None}
    BY <2>1, AppendContents
  <2>3. InTransit(channel') = InTransit(channel)
    BY <2>2, InTransitWith
  <2>4. AllEntries' = AllEntries
    BY <2>1, <2>3, AllEntriesAre
  <2> QED
    BY <2>1, <2>4 DEF Passed
<1> QED
  BY <1>1, <1>2 DEF MainStep

LEMMA NewTyped ==
  ASSUME TypeInv, NEW t \in Thread, NEW n \in FlowLength, thread[t].pc = "drawn"
  PROVE  /\ New(t, n) = {[m_id |-> nextMessage + i - 1, destination_id |-> thread[t].receiver,
                          flow |-> [client |-> thread[t].client, epoch |-> epoch,
                                    made |-> thread[t].made]] : i \in 1 .. n}
         /\ nextMessage \in Nat /\ epoch \in Nat /\ n \in Nat
BY FlowAssumption DEF TypeInv, TypeOK, New, Contents, Entries

LEMMA NothingYet ==
  ASSUME Init
  PROVE  AllEntries = {}
<1>1. Contents(file) = {} /\ Contents(channel) = {}
  BY DEF Init, Contents
<1>2. \A t \in Thread : Contents(thread[t].buffer) = {}
  BY IdleTyped DEF Init, Contents
<1> QED
  BY <1>1, <1>2 DEF AllEntries, InTransit, Buffered

LEMMA EntriesAreTyped ==
  ASSUME TypeInv
  PROVE  AllEntries \subseteq TraceEntry
<1>1. Contents(file) \subseteq TraceEntry
  BY SeqContents DEF TypeInv, TypeOK
<1>2. \A t \in Thread : Contents(thread[t].buffer) \subseteq TraceEntry
  BY SeqContents DEF TypeInv, TypeOK, ThreadState
<1>3. \A b \in Contents(channel) \ {None} : b \in Seq(TraceEntry)
  BY SeqContents DEF TypeInv, TypeOK
<1>4. \A b \in Contents(channel) \ {None} : Contents(b) \subseteq TraceEntry
  BY <1>3, SeqContents
<1> QED
  BY <1>1, <1>2, <1>4 DEF AllEntries, InTransit, Buffered

-----------------------------------------------------------------------------
(* Until the worker fails, no message number is lost.                      *)
Complete == worker # "failed" => {e.m_id : e \in AllEntries} = 0 .. nextMessage - 1

LEMMA CompleteStep ==
  ASSUME TypeInv, Complete, [Next]_vars
  PROVE  Complete'
<1>1. ASSUME Passed, nextMessage' = nextMessage, worker = "failed" => worker' = "failed"
      PROVE  Complete'
  BY <1>1 DEF Complete, Passed
<1>2. ASSUME NEW t \in Thread, ThreadStep(t) PROVE Complete'
  <2>1. worker' = worker
    BY <1>2 DEF ThreadStep, Take, Leave, DrawReceiver, WriteEntries, ClientDone, ClientFails,
                Send, SendFails, DropPanics
  <2>2. CASE \E n \in FlowLength : WriteEntries(t, n)
    <3>1. PICK n \in FlowLength : WriteEntries(t, n)
      BY <2>2
    <3>2. /\ AllEntries' = AllEntries \cup New(t, n)
          /\ nextMessage' = nextMessage + n /\ thread[t].pc = "drawn"
      BY <3>1, WriteAddsNew DEF WriteEntries
    <3>3. /\ {e.m_id : e \in New(t, n)} = {nextMessage + i - 1 : i \in 1 .. n}
          /\ nextMessage \in Nat /\ n \in Nat
      <4> DEFINE entry(i) == [m_id |-> nextMessage + i - 1, destination_id |-> thread[t].receiver,
                              flow |-> [client |-> thread[t].client, epoch |-> epoch,
                                        made |-> thread[t].made]]
      <4>1. New(t, n) = {entry(i) : i \in 1 .. n} /\ nextMessage \in Nat /\ n \in Nat
        BY <3>2, NewTyped
      <4>2. \A i \in 1 .. n : entry(i).m_id = nextMessage + i - 1
        OBVIOUS
      <4> HIDE DEF entry
      <4> QED
        BY <4>1, <4>2
    <3>4. {nextMessage + i - 1 : i \in 1 .. n} = nextMessage .. nextMessage + n - 1
      <4>1. \A k \in nextMessage .. nextMessage + n - 1 :
              k - nextMessage + 1 \in 1 .. n /\ nextMessage + (k - nextMessage + 1) - 1 = k
        BY <3>3
      <4>2. \A i \in 1 .. n : nextMessage + i - 1 \in nextMessage .. nextMessage + n - 1
        BY <3>3
      <4> QED
        BY <4>1, <4>2
    <3>5. {e.m_id : e \in AllEntries'} = {e.m_id : e \in AllEntries} \cup {e.m_id : e \in New(t, n)}
      BY <3>2
    <3>6. (0 .. nextMessage - 1) \cup (nextMessage .. nextMessage + n - 1) = 0 .. nextMessage + n - 1
      BY <3>3
    <3> QED
      BY <2>1, <3>2, <3>3, <3>4, <3>5, <3>6 DEF Complete
  <2> QED
    BY <1>1, <1>2, <2>1, <2>2, ThreadPasses
<1>3. CASE WorkerStep
  BY <1>1, <1>3, WorkerPasses
<1>4. CASE MainStep
  BY <1>1, <1>4, MainPasses
<1>5. CASE UNCHANGED vars
  BY <1>5 DEF vars, Complete, AllEntries, InTransit, Buffered, Contents
<1> QED
  BY <1>2, <1>3, <1>4, <1>5 DEF Next, Terminated

(* As long as the worker has not failed, every message number drawn is in  *)
(* a buffer, the channel, the worker's hands or the file.                  *)
THEOREM Completed == Spec => []Complete
<1>1. Init => Complete
  <2> SUFFICES ASSUME Init PROVE Complete
    OBVIOUS
  <2>1. AllEntries = {} /\ 0 .. nextMessage - 1 = {}
    BY NothingYet DEF Init
  <2> QED
    BY <2>1 DEF Complete
<1>2. TypeInv /\ Complete /\ [Next]_vars => Complete'
  BY CompleteStep
<1> QED
  BY <1>1, <1>2, Typed, PTL DEF Spec

(* The types of the pipeline's state.                                      *)
THEOREM PipelineTyped == Spec => []TypeOK
<1>1. TypeInv => TypeOK
  BY DEF TypeInv
<1> QED
  BY <1>1, Typed, PTL

(* A write error is never taken for a success: stop_and_join has waited    *)
(* for a worker that has ended well.                                       *)
THEOREM WriteErrorsAreReported == Spec => []WriteErrorsReported
<1>1. TypeInv => WriteErrorsReported
  BY DEF TypeInv, StopIsLast, WriteErrorsReported
<1> QED
  BY <1>1, Typed, PTL

(* When the simulation succeeds, the file has every packet, whatever the   *)
(* number of threads and wherever their buffers are cut: no batch is in a  *)
(* buffer or in the channel then, and none was lost.                       *)
THEOREM SuccessWritesAll == Spec => []SuccessIsComplete
<1>1. TypeInv /\ Complete => SuccessIsComplete
  <2> SUFFICES ASSUME TypeInv, Complete, main = "ok"
               PROVE  {e.m_id : e \in Contents(file)} = 0 .. nextMessage - 1
    BY DEF SuccessIsComplete
  <2>1. worker = "done" /\ channel = <<>> /\ \A t \in Thread : thread[t].pc = "idle"
    BY DEF TypeInv, StopIsLast
  <2>2. \A t \in Thread : thread[t].buffer = <<>>
    BY <2>1 DEF TypeInv, Shape
  <2>3. Contents(channel) = {} /\ \A t \in Thread : Contents(thread[t].buffer) = {}
    BY <2>1, <2>2 DEF Contents
  <2>4. AllEntries = Contents(file)
    BY <2>3 DEF AllEntries, InTransit, Buffered
  <2> QED
    BY <2>1, <2>4 DEF Complete
<1> QED
  BY <1>1, Typed, Completed, PTL

-----------------------------------------------------------------------------
(* Who works on a client: in an epoch, one thread at most, which counts    *)
(* the client's flows.  So the next flow of a client is a new one.         *)
Owners ==
  /\ \A t \in Thread : thread[t].pc \in Busy =>
       /\ thread[t].client \notin waiting
       /\ \A u \in Thread : thread[u].pc \in Busy /\ thread[u].client = thread[t].client => u = t
  /\ \A e \in AllEntries :
       /\ e.flow.epoch <= epoch
       /\ e.flow.epoch = epoch =>
            /\ e.flow.client \notin waiting
            /\ \A t \in Thread : thread[t].pc \in Busy /\ thread[t].client = e.flow.client =>
                 e.flow.made < thread[t].made

(* Thread t takes on no other client, and makes no flow.                   *)
Steady(t) ==
  thread'[t].pc \in Busy =>
    /\ thread[t].pc \in Busy
    /\ thread'[t].client = thread[t].client /\ thread'[t].made = thread[t].made

LEMMA SteadySteps ==
  ASSUME TypeInv, NEW t \in Thread, ThreadStep(t)
  PROVE  \/ \E c \in Client : Take(t, c)
         \/ \E n \in FlowLength : WriteEntries(t, n)
         \/ /\ \A u \in Thread : Steady(u)
            /\ UNCHANGED <<epoch, waiting, nextMessage>> /\ Passed
<1>1. CASE Leave(t) \/ ClientDone(t) \/ DrawReceiver(t) \/ Send(t)
  <2>1. OnlyThread(t) /\ Steady(t)
    BY <1>1, PcEffect, DrawEffect, SendEffect DEF Steady, Busy, Send
  <2> QED
    BY <1>1, <2>1, ThreadPasses DEF OnlyThread, Steady, Leave, ClientDone, DrawReceiver, Send,
                                    WriteEntries
<1>2. CASE (\E how \in {"error", "panic"} : ClientFails(t, how)) \/ SendFails(t) \/ DropPanics(t)
  <2>1. \A u \in Thread : Steady(u)
    <3>1. CASE (\E how \in {"error", "panic"} : ClientFails(t, how)) \/ SendFails(t)
      <4>1. thread[t].buffer \in Seq(TraceEntry)
        BY DEF TypeInv, TypeOK, ThreadState
      <4>2. OnlyThread(t) /\ thread'[t].pc = "drop"
        BY <3>1, <4>1, GiveUpEffect, EmptySeq DEF ClientFails, SendFails, Outcome
      <4> QED
        BY <4>2 DEF OnlyThread, Steady, Busy
    <3>2. CASE DropPanics(t)
      BY <3>2, DropEffect DEF OnlyThread, Steady, Busy
    <3> QED
      BY <1>2, <3>1, <3>2
  <2>2. UNCHANGED <<epoch, waiting, nextMessage>> /\ ~\E n \in FlowLength : WriteEntries(t, n)
    BY <1>2 DEF ClientFails, SendFails, DropPanics, WriteEntries, Sending
  <2> QED
    BY <2>1, <2>2, ThreadPasses
<1> QED
  BY <1>1, <1>2 DEF ThreadStep

LEMMA OwnersStep ==
  ASSUME TypeInv, Owners, [Next]_vars
  PROVE  Owners'
<1>1. ASSUME \A u \in Thread : Steady(u), UNCHANGED <<epoch, waiting>>, Passed
      PROVE  Owners'
  <2>1. ASSUME NEW t \in Thread, thread'[t].pc \in Busy
        PROVE  /\ thread'[t].client \notin waiting'
               /\ \A u \in Thread : thread'[u].pc \in Busy /\ thread'[u].client = thread'[t].client
                    => u = t
    BY <1>1, <2>1 DEF Owners, Steady
  <2>2. ASSUME NEW e \in AllEntries'
        PROVE  /\ e.flow.epoch <= epoch'
               /\ e.flow.epoch = epoch' =>
                    /\ e.flow.client \notin waiting'
                    /\ \A t \in Thread : thread'[t].pc \in Busy /\ thread'[t].client = e.flow.client
                         => e.flow.made < thread'[t].made
    <3>1. e \in AllEntries
      BY <1>1, <2>2 DEF Passed
    <3> QED
      BY <1>1, <3>1 DEF Owners, Steady
  <2> QED
    BY <2>1, <2>2 DEF Owners, Busy
<1>2. ASSUME NEW t \in Thread, NEW c \in Client, Take(t, c), ThreadStep(t)
      PROVE  Owners'
  <2>1. /\ thread'[t].pc = "flows" /\ thread'[t].client = c /\ thread'[t].made = 0
        /\ \A u \in Thread : u # t => thread'[u] = thread[u]
        /\ c \in waiting /\ waiting' = waiting \ {c} /\ epoch' = epoch
    BY <1>2, TakeEffect DEF OnlyThread, Take
  <2>2. AllEntries' \subseteq AllEntries
    BY <1>2, ThreadPasses DEF Passed, Take, WriteEntries
  <2>3. ASSUME NEW u \in Thread, thread'[u].pc \in Busy
        PROVE  /\ thread'[u].client \notin waiting'
               /\ \A v \in Thread : thread'[v].pc \in Busy /\ thread'[v].client = thread'[u].client
                    => v = u
    BY <2>1, <2>3 DEF Owners
  <2>4. ASSUME NEW e \in AllEntries'
        PROVE  /\ e.flow.epoch <= epoch'
               /\ e.flow.epoch = epoch' =>
                    /\ e.flow.client \notin waiting'
                    /\ \A u \in Thread : thread'[u].pc \in Busy /\ thread'[u].client = e.flow.client
                         => e.flow.made < thread'[u].made
    <3>1. e \in AllEntries
      BY <2>2, <2>4
    <3> QED
      BY <2>1, <3>1 DEF Owners
  <2> QED
    BY <2>3, <2>4 DEF Owners, Busy
<1>3. ASSUME NEW t \in Thread, NEW n \in FlowLength, WriteEntries(t, n)
      PROVE  Owners'
  <2>1. /\ thread[t].pc = "drawn"
        /\ thread'[t].client = thread[t].client /\ thread'[t].made = thread[t].made + 1
        /\ \A u \in Thread : u # t => thread'[u] = thread[u]
        /\ AllEntries' = AllEntries \cup New(t, n)
        /\ UNCHANGED <<waiting, epoch>>
    BY <1>3, WriteEffect, WriteAddsNew DEF OnlyThread, WriteEntries
  <2>2. /\ \A e \in New(t, n) : /\ e.flow.client = thread[t].client
                                /\ e.flow.epoch = epoch /\ e.flow.made = thread[t].made
        /\ epoch \in Nat
    BY <2>1, NewTyped
  <2>3. /\ thread[t].made \in Nat
        /\ \A e \in AllEntries : e.flow.made \in Nat
    BY EntriesAreTyped DEF TypeInv, TypeOK, ThreadState, TraceEntry, Flow
  <2>4. ASSUME NEW u \in Thread, thread'[u].pc \in Busy
        PROVE  /\ thread'[u].client \notin waiting'
               /\ \A v \in Thread : thread'[v].pc \in Busy /\ thread'[v].client = thread'[u].client
                    => v = u
    BY <2>1, <2>4 DEF Owners, Busy
  <2>5. ASSUME NEW e \in AllEntries'
        PROVE  /\ e.flow.epoch <= epoch'
               /\ e.flow.epoch = epoch' =>
                    /\ e.flow.client \notin waiting'
                    /\ \A u \in Thread : thread'[u].pc \in Busy /\ thread'[u].client = e.flow.client
                         => e.flow.made < thread'[u].made
    <3>1. CASE e \in AllEntries
      <4>1. /\ e.flow.epoch <= epoch
            /\ e.flow.epoch = epoch => e.flow.client \notin waiting
        BY <3>1 DEF Owners
      <4>2. ASSUME NEW u \in Thread, thread'[u].pc \in Busy, thread'[u].client = e.flow.client,
                   e.flow.epoch = epoch
            PROVE  e.flow.made < thread'[u].made
        <5>1. thread[u].pc \in Busy /\ thread[u].client = e.flow.client
          BY <2>1, <4>2 DEF Busy
        <5>2. e.flow.made < thread[u].made
          BY <3>1, <4>2, <5>1 DEF Owners
        <5> QED
          BY <2>1, <2>3, <3>1, <5>2
      <4> QED
        BY <2>1, <4>1, <4>2
    <3>2. CASE e \in New(t, n)
      <4>1. e.flow.client \notin waiting
        BY <2>1, <2>2, <3>2 DEF Owners, Busy
      <4>2. \A u \in Thread : thread'[u].pc \in Busy /\ thread'[u].client = e.flow.client => u = t
        BY <2>1, <2>2, <2>4, <3>2 DEF Owners, Busy
      <4> QED
        BY <2>1, <2>2, <2>3, <3>2, <4>1, <4>2
    <3> QED
      BY <2>1, <2>5, <3>1, <3>2
  <2> QED
    BY <2>4, <2>5 DEF Owners, Busy
<1>4. CASE WorkerStep
  BY <1>1, <1>4, WorkerPasses DEF WorkerStep, Steady
<1>5. CASE MainStep
  <2>1. Passed /\ UNCHANGED thread
    BY <1>5, MainPasses
  <2>2. CASE UNCHANGED <<epoch, waiting>>
    BY <1>1, <2>1, <2>2 DEF Steady
  <2>3. CASE main = "loading" /\ epoch' = epoch + 1
    <3>1. \A t \in Thread : thread'[t].pc \notin Busy
      BY <2>1, <2>3 DEF TypeInv, Busy
    <3>2. \A e \in AllEntries' : e.flow.epoch < epoch'
      <4>1. epoch \in Nat /\ \A e \in AllEntries : e.flow.epoch \in Nat
        BY EntriesAreTyped, FlowAssumption DEF TypeInv, TypeOK, TraceEntry, Flow
      <4> QED
        BY <2>1, <2>3, <4>1 DEF Passed, Owners
    <3>3. \A e \in AllEntries' : e.flow.epoch <= epoch' /\ e.flow.epoch # epoch'
      <4>1. epoch' \in Nat /\ \A e \in AllEntries : e.flow.epoch \in Nat
        BY <2>3, EntriesAreTyped, FlowAssumption DEF TypeInv, TypeOK, TraceEntry, Flow
      <4> QED
        BY <2>1, <3>2, <4>1 DEF Passed
    <3> QED
      BY <3>1, <3>3 DEF Owners, Busy
  <2> QED
    BY <1>5, <2>2, <2>3 DEF MainStep, NextEpoch, EpochDone, StopWorker, Join
<1>6. CASE UNCHANGED vars
  BY <1>6 DEF vars, Owners, AllEntries, InTransit, Buffered, Contents, Busy
<1> QED
  BY <1>1, <1>2, <1>3, <1>4, <1>5, <1>6, SteadySteps DEF Next, Terminated

(* No two threads are at work on the same client, and no thread is about   *)
(* to write a flow that has been written.                                  *)
THEOREM Owned == Spec => []Owners
<1>1. Init => Owners
  BY NothingYet, IdleTyped DEF Init, Owners, Busy
<1>2. TypeInv /\ Owners /\ [Next]_vars => Owners'
  BY OwnersStep
<1> QED
  BY <1>1, <1>2, Typed, PTL DEF Spec

-----------------------------------------------------------------------------
(* Numbers come from below the counters; a destination that a thread has   *)
(* drawn is its own until it writes the entries of the flow.               *)
Numbers ==
  /\ \A e \in AllEntries : e.m_id < nextMessage /\ e.destination_id < nextReceiver
  /\ \A t \in Thread : thread[t].pc = "drawn" =>
       /\ thread[t].receiver < nextReceiver
       /\ \A e \in AllEntries : e.destination_id # thread[t].receiver
       /\ \A u \in Thread :
            thread[u].pc = "drawn" /\ thread[u].receiver = thread[t].receiver => u = t
  /\ NumbersUnique

LEMMA NewNumbers ==
  ASSUME TypeInv, Owners, Numbers, NEW t \in Thread, NEW n \in FlowLength, WriteEntries(t, n)
  PROVE  NumbersUnique'
<1>1. /\ thread[t].pc = "drawn"
      /\ AllEntries' = AllEntries \cup New(t, n)
  BY WriteEffect, WriteAddsNew
<1>2. /\ New(t, n) = {[m_id |-> nextMessage + i - 1, destination_id |-> thread[t].receiver,
                       flow |-> [client |-> thread[t].client, epoch |-> epoch,
                                 made |-> thread[t].made]] : i \in 1 .. n}
      /\ nextMessage \in Nat /\ n \in Nat
  BY <1>1, NewTyped
<1>3. \A e \in New(t, n) : /\ e.destination_id = thread[t].receiver
                           /\ e.flow = [client |-> thread[t].client, epoch |-> epoch,
                                        made |-> thread[t].made]
                           /\ e.m_id \in Nat /\ e.m_id >= nextMessage
  BY <1>2
<1>4. \A d, e \in New(t, n) : d.m_id = e.m_id => d = e
  <2> SUFFICES ASSUME NEW d \in New(t, n), NEW e \in New(t, n), d.m_id = e.m_id PROVE d = e
    OBVIOUS
  <2> DEFINE entry(i) == [m_id |-> nextMessage + i - 1, destination_id |-> thread[t].receiver,
                          flow |-> [client |-> thread[t].client, epoch |-> epoch,
                                    made |-> thread[t].made]]
  <2>1. PICK i \in 1 .. n : d = entry(i)
    BY <1>2
  <2>2. PICK j \in 1 .. n : e = entry(j)
    BY <1>2
  <2>3. nextMessage + i - 1 = nextMessage + j - 1
    BY <2>1, <2>2
  <2>4. i = j
    BY <1>2, <2>3
  <2> QED
    BY <2>1, <2>2, <2>4
<1>5. \A d \in AllEntries, e \in New(t, n) :
        d.m_id # e.m_id /\ d.destination_id # e.destination_id /\ d.flow # e.flow
  <2> SUFFICES ASSUME NEW d \in AllEntries, NEW e \in New(t, n)
               PROVE  d.m_id # e.m_id /\ d.destination_id # e.destination_id /\ d.flow # e.flow
    OBVIOUS
  <2>1. d.m_id \in Nat /\ d.m_id < nextMessage /\ d.flow.made \in Nat
    BY EntriesAreTyped DEF Numbers, TraceEntry, Flow
  <2>2. d.destination_id # thread[t].receiver
    BY <1>1 DEF Numbers
  <2>3. d.flow.epoch = epoch /\ d.flow.client = thread[t].client => d.flow.made < thread[t].made
    BY <1>1 DEF Owners, Busy
  <2>4. d.flow # e.flow
    <3>1. ASSUME d.flow = e.flow PROVE FALSE
      <4>1. /\ d.flow.epoch = epoch /\ d.flow.client = thread[t].client
            /\ d.flow.made = thread[t].made
        BY <1>3, <3>1
      <4> QED
        BY <2>1, <2>3, <4>1
    <3> QED
      BY <3>1
  <2> QED
    BY <1>2, <1>3, <2>1, <2>2, <2>4
<1>6. ASSUME NEW d \in AllEntries', NEW e \in AllEntries'
      PROVE  /\ d.m_id = e.m_id => d = e
             /\ d.destination_id = e.destination_id <=> d.flow = e.flow
  <2>1. CASE d \in AllEntries /\ e \in AllEntries
    BY <2>1 DEF Numbers, NumbersUnique
  <2>2. CASE d \in AllEntries /\ e \in New(t, n)
    BY <1>5, <2>2
  <2>3. CASE d \in New(t, n) /\ e \in AllEntries
    BY <1>5, <2>3
  <2>4. CASE d \in New(t, n) /\ e \in New(t, n)
    BY <1>3, <1>4, <2>4
  <2> QED
    BY <1>1, <1>6, <2>1, <2>2, <2>3, <2>4
<1> QED
  BY <1>6 DEF NumbersUnique

LEMMA NumbersStep ==
  ASSUME TypeInv, Owners, Numbers, [Next]_vars
  PROVE  Numbers'
<1>0. /\ nextMessage \in Nat /\ nextReceiver \in Nat
      /\ \A e \in AllEntries : e.m_id \in Nat /\ e.destination_id \in Nat
      /\ \A t \in Thread : thread[t].pc = "drawn" => thread[t].receiver \in Nat
  BY EntriesAreTyped DEF TypeInv, TypeOK, TraceEntry, Shape
<1>1. ASSUME AllEntries' \subseteq AllEntries, UNCHANGED <<nextMessage, nextReceiver>>,
             \A u \in Thread : thread'[u].pc = "drawn" =>
               thread[u].pc = "drawn" /\ thread'[u].receiver = thread[u].receiver
      PROVE  Numbers'
  <2>1. NumbersUnique'
    BY <1>1 DEF Numbers, NumbersUnique
  <2> QED
    BY <1>1, <2>1 DEF Numbers
<1>2. ASSUME NEW t \in Thread, ThreadStep(t), AllEntries' \subseteq AllEntries,
             nextMessage' = nextMessage
      PROVE  Numbers'
  <2>1. CASE DrawReceiver(t)
    <3>1. /\ thread'[t].pc = "drawn" /\ thread'[t].receiver = nextReceiver
          /\ \A u \in Thread : u # t => thread'[u] = thread[u]
          /\ nextReceiver' = nextReceiver + 1
      BY <2>1, DrawEffect DEF OnlyThread, DrawReceiver
    <3>2. NumbersUnique'
      BY <1>2 DEF Numbers, NumbersUnique
    <3>3. \A e \in AllEntries' : e.m_id < nextMessage' /\ e.destination_id < nextReceiver'
      BY <1>0, <1>2, <3>1 DEF Numbers
    <3>4. ASSUME NEW u \in Thread, thread'[u].pc = "drawn"
          PROVE  /\ thread'[u].receiver < nextReceiver'
                 /\ \A e \in AllEntries' : e.destination_id # thread'[u].receiver
                 /\ \A v \in Thread :
                      thread'[v].pc = "drawn" /\ thread'[v].receiver = thread'[u].receiver => v = u
      <4>1. CASE u = t
        BY <1>0, <1>2, <3>1, <4>1 DEF Numbers
      <4>2. CASE u # t
        BY <1>0, <1>2, <3>1, <3>4, <4>2 DEF Numbers
      <4> QED
        BY <4>1, <4>2
    <3> QED
      BY <3>2, <3>3, <3>4 DEF Numbers
  <2>2. CASE ~DrawReceiver(t) /\ ~\E n \in FlowLength : WriteEntries(t, n)
    <3>1. nextReceiver' = nextReceiver
      BY <1>2, <2>2 DEF ThreadStep, Take, Leave, ClientDone, ClientFails, Send, SendFails, DropPanics
    <3>2. UNCHANGED thread \/ (OnlyThread(t) /\ thread'[t].pc # "drawn")
      <4>1. thread[t].buffer \in Seq(TraceEntry)
        BY DEF TypeInv, TypeOK, ThreadState
      <4>2. CASE \E c \in Client : Take(t, c)
        BY <4>2, TakeEffect
      <4>3. CASE Leave(t) \/ ClientDone(t) \/ Send(t) \/ DropPanics(t)
        BY <4>3, PcEffect, SendEffect, DropEffect
      <4>4. CASE (\E how \in {"error", "panic"} : ClientFails(t, how)) \/ SendFails(t)
        BY <4>1, <4>4, GiveUpEffect, EmptySeq DEF ClientFails, SendFails, Outcome
      <4> QED
        BY <1>2, <2>2, <4>2, <4>3, <4>4 DEF ThreadStep
    <3> QED
      BY <1>1, <1>2, <3>1, <3>2 DEF OnlyThread
  <2>3. CASE \E n \in FlowLength : WriteEntries(t, n)
    <3>1. PICK n \in FlowLength : WriteEntries(t, n)
      BY <2>3
    <3>2. /\ thread[t].pc = "drawn" /\ thread'[t].pc # "drawn"
          /\ \A u \in Thread : u # t => thread'[u] = thread[u]
          /\ nextReceiver' = nextReceiver
      BY <3>1, WriteEffect DEF OnlyThread, WriteEntries
    <3> QED
      BY <1>1, <1>2, <3>2
  <2> QED
    BY <2>1, <2>2, <2>3
<1>3. ASSUME NEW t \in Thread, NEW n \in FlowLength, WriteEntries(t, n)
      PROVE  Numbers'
  <2>1. /\ thread[t].pc = "drawn" /\ thread'[t].pc # "drawn"
        /\ \A u \in Thread : u # t => thread'[u] = thread[u]
        /\ AllEntries' = AllEntries \cup New(t, n)
        /\ nextReceiver' = nextReceiver /\ nextMessage' = nextMessage + n
    BY <1>3, WriteEffect, WriteAddsNew DEF OnlyThread, WriteEntries
  <2>2. /\ n \in Nat
        /\ \A e \in New(t, n) : /\ e.destination_id = thread[t].receiver
                                /\ e.m_id < nextMessage + n
    BY <2>1, NewTyped
  <2>3. \A e \in AllEntries' : e.m_id < nextMessage' /\ e.destination_id < nextReceiver'
    BY <1>0, <2>1, <2>2 DEF Numbers
  <2>4. ASSUME NEW u \in Thread, thread'[u].pc = "drawn"
        PROVE  /\ thread'[u].receiver < nextReceiver'
               /\ \A e \in AllEntries' : e.destination_id # thread'[u].receiver
               /\ \A v \in Thread :
                    thread'[v].pc = "drawn" /\ thread'[v].receiver = thread'[u].receiver => v = u
    <3>1. u # t /\ thread'[u] = thread[u] /\ thread[u].pc = "drawn"
      BY <2>1, <2>4
    <3> QED
      BY <2>1, <2>2, <3>1 DEF Numbers
  <2>5. NumbersUnique'
    BY <1>3, NewNumbers
  <2> QED
    BY <2>3, <2>4, <2>5 DEF Numbers
<1>4. CASE WorkerStep
  BY <1>1, <1>4, WorkerPasses DEF Passed, WorkerStep
<1>5. CASE MainStep
  BY <1>1, <1>5, MainPasses DEF Passed
<1>6. CASE UNCHANGED vars
  BY <1>6 DEF vars, Numbers, NumbersUnique, AllEntries, InTransit, Buffered, Contents
<1> QED
  BY <1>2, <1>3, <1>4, <1>5, <1>6, ThreadPasses DEF Next, Terminated, Passed

(* Message numbers and destinations are unique, although threads draw      *)
(* them one by one from two counters: a destination names one flow.        *)
THEOREM NumbersAreUnique == Spec => []NumbersUnique
<1>1. Init => Numbers
  BY NothingYet, IdleTyped DEF Init, Numbers, NumbersUnique
<1>2. TypeInv /\ Owners /\ Numbers /\ [Next]_vars => Numbers'
  BY NumbersStep
<1>3. Numbers => NumbersUnique
  BY DEF Numbers
<1> QED
  BY <1>1, <1>2, <1>3, Typed, Owned, PTL DEF Spec

-----------------------------------------------------------------------------
(* Of the flows of d and e, e's is another one and not made before d's.    *)
Earlier(A, B) == \A d \in A, e \in B : d.flow # e.flow /\ ~Before(e.flow, d.flow)

(* A sequence of entries has its flows in one piece and in order.          *)
Neat(s) ==
  \A i, j \in DOMAIN s : i < j =>
    /\ s[i].flow = s[j].flow => s[j].m_id = s[i].m_id + (j - i)
    /\ ~Before(s[j].flow, s[i].flow)

(* The buffers are of this epoch, and of different clients.                *)
Apart ==
  \A u \in Thread : \A e \in Contents(thread[u].buffer) :
    /\ e.flow.epoch = epoch
    /\ \A t \in Thread : t # u /\ thread[t].pc \in Busy => thread[t].client # e.flow.client

(* The file comes before what is under way, in the order of the channel,   *)
(* and that before the buffers.                                            *)
ChannelInOrder ==
  \A i \in DOMAIN channel : channel[i] # None =>
    /\ Neat(channel[i])
    /\ Earlier(Contents(file), Contents(channel[i]))
    /\ \A j \in DOMAIN channel : i < j /\ channel[j] # None =>
         Earlier(Contents(channel[i]), Contents(channel[j]))

ChannelBeforeBuffers ==
  \A t \in Thread, i \in DOMAIN channel : channel[i] # None =>
    Earlier(Contents(channel[i]), Contents(thread[t].buffer))

BuffersInOrder ==
  \A t \in Thread :
    /\ Neat(thread[t].buffer)
    /\ Earlier(Contents(file), Contents(thread[t].buffer))
    /\ \A u \in Thread : u # t =>
         Earlier(Contents(thread[t].buffer), Contents(thread[u].buffer))

InOrder == Neat(file) /\ ChannelInOrder /\ ChannelBeforeBuffers /\ BuffersInOrder

LEMMA ConcatNeat ==
  ASSUME NEW s \in Seq(TraceEntry), NEW t \in Seq(TraceEntry), Neat(s), Neat(t),
         Earlier(Contents(s), Contents(t))
  PROVE  Neat(s \o t)
<1> DEFINE st == s \o t
<1>1. /\ st \in Seq(TraceEntry)
      /\ Len(st) = Len(s) + Len(t)
      /\ \A i \in 1 .. Len(s) + Len(t) : st[i] = IF i <= Len(s) THEN s[i] ELSE t[i - Len(s)]
  BY ConcatProperties
<1> HIDE DEF st
<1>2. /\ Len(s) \in Nat /\ Len(t) \in Nat
      /\ DOMAIN s = 1 .. Len(s) /\ DOMAIN t = 1 .. Len(t)
      /\ DOMAIN st = 1 .. Len(s) + Len(t)
  BY <1>1, LenProperties
<1>3. \A i \in DOMAIN st :
        \/ i \in DOMAIN s /\ i <= Len(s) /\ st[i] = s[i]
        \/ i - Len(s) \in DOMAIN t /\ i > Len(s) /\ st[i] = t[i - Len(s)]
  BY <1>1, <1>2
<1>4. ASSUME NEW i \in DOMAIN st, NEW j \in DOMAIN st, i < j
      PROVE  /\ st[i].flow = st[j].flow => st[j].m_id = st[i].m_id + (j - i)
             /\ ~Before(st[j].flow, st[i].flow)
  <2>0. i \in Nat /\ j \in Nat
    BY <1>2
  <2>1. CASE i <= Len(s) /\ j <= Len(s)
    <3>1. i \in DOMAIN s /\ st[i] = s[i] /\ j \in DOMAIN s /\ st[j] = s[j]
      BY <1>2, <1>3, <2>0, <2>1
    <3> QED
      BY <1>4, <3>1 DEF Neat
  <2>2. CASE i > Len(s) /\ j > Len(s)
    <3> DEFINE k == i - Len(s)
               l == j - Len(s)
    <3>1. k \in DOMAIN t /\ st[i] = t[k] /\ l \in DOMAIN t /\ st[j] = t[l]
      BY <1>2, <1>3, <2>0, <2>2
    <3>2. k < l /\ l - k = j - i
      BY <1>2, <1>4, <2>0
    <3> HIDE DEF k, l
    <3> QED
      BY <3>1, <3>2 DEF Neat
  <2>3. CASE i <= Len(s) /\ j > Len(s)
    <3>1. i \in DOMAIN s /\ st[i] = s[i] /\ j - Len(s) \in DOMAIN t /\ st[j] = t[j - Len(s)]
      BY <1>2, <1>3, <2>0, <2>3
    <3>2. st[i] \in Contents(s) /\ st[j] \in Contents(t)
      BY <3>1 DEF Contents
    <3> QED
      BY <3>2 DEF Earlier
  <2> QED
    BY <1>2, <1>4, <2>0, <2>1, <2>2, <2>3
<1> QED
  BY <1>4 DEF Neat, st

LEMMA PrefixNeat ==
  ASSUME NEW s \in Seq(TraceEntry), Neat(s), NEW k \in 0 .. Len(s)
  PROVE  Neat(SubSeq(s, 1, k))
<1>1. Len(s) \in Nat /\ DOMAIN s = 1 .. Len(s) /\ \A i \in 1 .. Len(s) : s[i] \in TraceEntry
  BY LenProperties
<1> DEFINE p == SubSeq(s, 1, k)
<1>2. p \in Seq(TraceEntry) /\ Len(p) = k /\ \A i \in 1 .. k : p[i] = s[i]
  <2>1. k \in Int /\ 1 \in Int /\ \A i \in 1 .. k : s[i] \in TraceEntry
    BY <1>1
  <2> QED
    BY <2>1, SubSeqProperties
<1>3. DOMAIN p = 1 .. k
  BY <1>2, LenProperties
<1> HIDE DEF p
<1>4. \A i \in DOMAIN p : i \in DOMAIN s /\ p[i] = s[i]
  BY <1>1, <1>2, <1>3
<1>5. Neat(p)
  BY <1>4 DEF Neat
<1> QED
  BY <1>5 DEF p

(* The entries that a thread makes are numbered consecutively, and later   *)
(* than all others.                                                        *)
LEMMA NewIsNeat ==
  ASSUME TypeInv, NEW t \in Thread, NEW n \in FlowLength, thread[t].pc = "drawn"
  PROVE  Neat(Entries(thread[t], n))
<1>1. n \in Nat /\ nextMessage \in Nat /\ thread[t].made \in Nat
  BY FlowAssumption DEF TypeInv, TypeOK, ThreadState
<1>2. DOMAIN Entries(thread[t], n) = 1 .. n
  BY DEF Entries
<1>3. \A i \in 1 .. n :
        /\ Entries(thread[t], n)[i].m_id = nextMessage + i - 1
        /\ Entries(thread[t], n)[i].flow = [client |-> thread[t].client, epoch |-> epoch,
                                            made |-> thread[t].made]
  BY DEF Entries
<1>4. \A i, j \in 1 .. n : nextMessage + j - 1 = nextMessage + i - 1 + (j - i)
  BY <1>1
<1>5. epoch \in Nat
  BY FlowAssumption DEF TypeInv, TypeOK
<1> QED
  <2> DEFINE s == Entries(thread[t], n)
  <2>1. ASSUME NEW i \in DOMAIN s, NEW j \in DOMAIN s
        PROVE  s[j].m_id = s[i].m_id + (j - i) /\ ~Before(s[j].flow, s[i].flow)
    <3>1. i \in 1 .. n /\ j \in 1 .. n
      BY <1>2, <2>1
    <3>2. s[j].m_id = s[i].m_id + (j - i)
      BY <1>3, <1>4, <3>1
    <3>3. /\ s[i].flow.epoch = epoch /\ s[j].flow.epoch = epoch
          /\ s[i].flow.made = thread[t].made /\ s[j].flow.made = thread[t].made
      BY <1>3, <3>1
    <3> HIDE DEF s
    <3> QED
      BY <1>1, <1>5, <3>2, <3>3 DEF Before
  <2> HIDE DEF s
  <2>2. Neat(s)
    BY <2>1 DEF Neat
  <2> QED
    BY <2>2 DEF s

LEMMA NewIsLatest ==
  ASSUME TypeInv, Owners, NEW t \in Thread, NEW n \in FlowLength, thread[t].pc = "drawn"
  PROVE  Earlier(AllEntries, New(t, n))
<1> SUFFICES ASSUME NEW d \in AllEntries, NEW e \in New(t, n)
             PROVE  d.flow # e.flow /\ ~Before(e.flow, d.flow)
  BY DEF Earlier
<1>1. e.flow = [client |-> thread[t].client, epoch |-> epoch, made |-> thread[t].made]
  <2>1. New(t, n) = {[m_id |-> nextMessage + i - 1, destination_id |-> thread[t].receiver,
                      flow |-> [client |-> thread[t].client, epoch |-> epoch,
                                made |-> thread[t].made]] : i \in 1 .. n}
    BY NewTyped
  <2> QED
    BY <2>1
<1>2. d.flow.made \in Nat /\ d.flow.epoch \in Nat /\ thread[t].made \in Nat /\ epoch \in Nat
  <2>1. d \in TraceEntry
    BY EntriesAreTyped
  <2>2. thread[t].made \in Nat /\ epoch \in Nat
    BY FlowAssumption DEF TypeInv, TypeOK, ThreadState
  <2> QED
    BY <2>1, <2>2 DEF TraceEntry, Flow
<1>3. /\ d.flow.epoch <= epoch
      /\ d.flow.epoch = epoch /\ d.flow.client = thread[t].client => d.flow.made < thread[t].made
  BY DEF Owners, Busy
<1>4. ASSUME d.flow = e.flow PROVE FALSE
  <2>1. /\ d.flow.epoch = epoch /\ d.flow.client = thread[t].client
        /\ d.flow.made = thread[t].made
    BY <1>1, <1>4
  <2> QED
    BY <1>2, <1>3, <2>1
<1>5. ~Before(e.flow, d.flow)
  <2>1. /\ e.flow.client = thread[t].client /\ e.flow.epoch = epoch
        /\ e.flow.made = thread[t].made
    BY <1>1
  <2> QED
    BY <1>2, <1>3, <2>1 DEF Before
<1> QED
  BY <1>4, <1>5

LEMMA EarlierLaws ==
  ASSUME NEW A, NEW B, NEW C
  PROVE  /\ Earlier({}, C) /\ Earlier(C, {})
         /\ Earlier(A \cup B, C) <=> Earlier(A, C) /\ Earlier(B, C)
         /\ Earlier(C, A \cup B) <=> Earlier(C, A) /\ Earlier(C, B)
         /\ A \subseteq B /\ Earlier(B, C) => Earlier(A, C)
         /\ A \subseteq B /\ Earlier(C, B) => Earlier(C, A)
BY DEF Earlier

LEMMA EmptyIsNeat == Neat(<<>>) /\ Contents(<<>>) = {}
BY DEF Neat, Contents

(* Only write_entries adds to a buffer, and only flush empties one.        *)
LEMMA BufferSteps ==
  ASSUME TypeInv, NEW t \in Thread, ThreadStep(t)
  PROVE  \/ \E n \in FlowLength : WriteEntries(t, n)
         \/ Send(t)
         \/ /\ \A u \in Thread : thread'[u].buffer \in {thread[u].buffer, <<>>}
            /\ UNCHANGED <<file, channel>>
<1>0. thread[t].buffer \in Seq(TraceEntry)
  BY DEF TypeInv, TypeOK, ThreadState
<1>1. CASE \E c \in Client : Take(t, c)
  BY <1>1, TakeEffect DEF OnlyThread, Take
<1>2. CASE Leave(t) \/ ClientDone(t) \/ DrawReceiver(t)
  BY <1>2, PcEffect, DrawEffect DEF OnlyThread, Leave, ClientDone, DrawReceiver
<1>3. CASE (\E how \in {"error", "panic"} : ClientFails(t, how)) \/ SendFails(t)
  <2>1. PICK how \in {"error", "panic"}, buffer \in {thread[t].buffer, <<>>} :
          GiveUp(t, how, buffer)
    BY <1>3 DEF ClientFails, SendFails
  <2>2. how \in Outcome /\ buffer \in Seq(TraceEntry)
    BY <1>0, EmptySeq DEF Outcome
  <2>3. OnlyThread(t) /\ thread'[t].buffer = buffer
    BY <2>1, <2>2, GiveUpEffect
  <2>4. UNCHANGED <<file, channel>>
    BY <1>3 DEF ClientFails, SendFails
  <2> QED
    BY <2>3, <2>4 DEF OnlyThread
<1>4. CASE DropPanics(t)
  BY <1>4, DropEffect DEF OnlyThread, DropPanics
<1> QED
  BY <1>1, <1>2, <1>3, <1>4 DEF ThreadStep

LEMMA BuffersAreEntries ==
  ASSUME NEW t \in Thread
  PROVE  Contents(thread[t].buffer) \subseteq AllEntries
BY DEF AllEntries, Buffered

LEMMA ApartStep ==
  ASSUME TypeInv, Owners, Apart, [Next]_vars
  PROVE  Apart'
<1>1. ASSUME \A u \in Thread : Steady(u), UNCHANGED epoch,
             \A u \in Thread : thread'[u].buffer \in {thread[u].buffer, <<>>}
      PROVE  Apart'
  <2>1. ASSUME NEW u \in Thread, NEW e \in Contents(thread'[u].buffer)
        PROVE  /\ e.flow.epoch = epoch'
               /\ \A t \in Thread : t # u /\ thread'[t].pc \in Busy =>
                    thread'[t].client # e.flow.client
    <3>1. e \in Contents(thread[u].buffer)
      BY <1>1, <2>1, EmptyIsNeat
    <3> QED
      BY <1>1, <3>1 DEF Apart, Steady
  <2> QED
    BY <2>1 DEF Apart, Busy, Contents
<1>2. ASSUME NEW t \in Thread, NEW c \in Client, Take(t, c)
      PROVE  Apart'
  <2>1. /\ thread'[t].client = c /\ thread'[t].buffer = thread[t].buffer
        /\ \A u \in Thread : u # t => thread'[u] = thread[u]
        /\ c \in waiting /\ epoch' = epoch
    BY <1>2, TakeEffect DEF OnlyThread, Take
  <2>2. ASSUME NEW u \in Thread, NEW e \in Contents(thread'[u].buffer)
        PROVE  /\ e.flow.epoch = epoch'
               /\ \A v \in Thread : v # u /\ thread'[v].pc \in Busy =>
                    thread'[v].client # e.flow.client
    <3>1. e \in Contents(thread[u].buffer)
      BY <2>1, <2>2
    <3>2. e.flow.epoch = epoch /\ e.flow.client \notin waiting
      BY <3>1, BuffersAreEntries DEF Apart, Owners
    <3> QED
      BY <2>1, <3>1, <3>2 DEF Apart
  <2> QED
    BY <2>2 DEF Apart, Busy, Contents
<1>3. ASSUME NEW t \in Thread, NEW n \in FlowLength, WriteEntries(t, n)
      PROVE  Apart'
  <2>1. /\ thread[t].pc = "drawn" /\ thread'[t].client = thread[t].client
        /\ thread'[t].buffer = thread[t].buffer \o Entries(thread[t], n)
        /\ \A u \in Thread : u # t => thread'[u] = thread[u]
        /\ epoch' = epoch
    BY <1>3, WriteEffect DEF OnlyThread, WriteEntries
  <2>2. Contents(thread'[t].buffer) = Contents(thread[t].buffer) \cup New(t, n)
    <3>1. Entries(thread[t], n) \in Seq(TraceEntry) /\ thread[t].buffer \in Seq(TraceEntry)
      BY <2>1, EntriesTyped, FlowAssumption DEF TypeInv, TypeOK, ThreadState
    <3> QED
      BY <2>1, <3>1, ConcatContents DEF New
  <2>3. \A e \in New(t, n) : e.flow.epoch = epoch /\ e.flow.client = thread[t].client
    BY <2>1, NewTyped
  <2>4. ASSUME NEW u \in Thread, NEW e \in Contents(thread'[u].buffer)
        PROVE  /\ e.flow.epoch = epoch'
               /\ \A v \in Thread : v # u /\ thread'[v].pc \in Busy =>
                    thread'[v].client # e.flow.client
    <3>1. CASE e \in Contents(thread[u].buffer)
      <4>1. \A v \in Thread : thread'[v].client = thread[v].client
        BY <2>1
      <4>2. \A v \in Thread : thread'[v].pc \in Busy => thread[v].pc \in Busy
        BY <2>1 DEF Busy
      <4> QED
        BY <2>1, <3>1, <4>1, <4>2 DEF Apart
    <3>2. CASE u = t /\ e \in New(t, n)
      <4>1. \A v \in Thread : v # t /\ thread[v].pc \in Busy => thread[v].client # thread[t].client
        BY <2>1 DEF Owners, Busy
      <4> QED
        BY <2>1, <2>3, <3>2, <4>1
    <3> QED
      BY <2>1, <2>2, <2>4, <3>1, <3>2
  <2> QED
    BY <2>4 DEF Apart, Busy, Contents
<1>4. ASSUME NEW t \in Thread, ThreadStep(t) PROVE Apart'
  <2>1. CASE Send(t)
    <3>1. \A u \in Thread : thread'[u].buffer \in {thread[u].buffer, <<>>}
      BY <2>1, SendEffect DEF OnlyThread
    <3> QED
      BY <1>1, <1>2, <1>3, <1>4, <3>1, SteadySteps
  <2> QED
    BY <1>1, <1>2, <1>3, <1>4, <2>1, SteadySteps, BufferSteps
<1>5. CASE WorkerStep
  BY <1>1, <1>5 DEF WorkerStep, Steady
<1>6. CASE MainStep
  <2>1. UNCHANGED thread
    BY <1>6, MainPasses
  <2>2. CASE UNCHANGED epoch
    BY <1>1, <2>1, <2>2 DEF Steady
  <2>3. CASE main = "loading"
    <3>1. \A t \in Thread : Contents(thread'[t].buffer) = {}
      BY <2>1, <2>3, EmptyIsNeat DEF TypeInv, Shape
    <3> QED
      BY <3>1 DEF Apart, Contents
  <2> QED
    BY <1>6, <2>2, <2>3 DEF MainStep, NextEpoch, EpochDone, StopWorker, Join
<1>7. CASE UNCHANGED vars
  BY <1>7 DEF vars, Apart, Contents, Busy
<1> QED
  BY <1>4, <1>5, <1>6, <1>7 DEF Next, Terminated

LEMMA ShrinkInOrder ==
  ASSUME InOrder, UNCHANGED <<file, channel>>,
         \A u \in Thread : thread'[u].buffer \in {thread[u].buffer, <<>>}
  PROVE  InOrder'
<1>1. ASSUME NEW u \in Thread
      PROVE  /\ Contents(thread'[u].buffer) \subseteq Contents(thread[u].buffer)
             /\ Neat(thread'[u].buffer)
  BY EmptyIsNeat DEF InOrder, BuffersInOrder
<1>0. file' = file /\ channel' = channel
  OBVIOUS
<1>2. Neat(file') /\ ChannelInOrder'
  <2>1. Neat(file') /\ ChannelInOrder
    BY <1>0 DEF InOrder
  <2>2. ChannelInOrder => ChannelInOrder'
    BY <1>0 DEF ChannelInOrder, Contents, Earlier, Neat
  <2> QED
    BY <2>1, <2>2
<1>3. ChannelBeforeBuffers'
  <2> SUFFICES ASSUME NEW t \in Thread, NEW i \in DOMAIN channel, channel[i] # None
               PROVE  Earlier(Contents(channel[i]), Contents(thread'[t].buffer))
    BY <1>0 DEF ChannelBeforeBuffers, Contents
  <2>1. Earlier(Contents(channel[i]), Contents(thread[t].buffer))
    BY DEF InOrder, ChannelBeforeBuffers
  <2> QED
    BY <1>1, <2>1 DEF Earlier
<1>4. BuffersInOrder'
  <2>1. \A t \in Thread : Earlier(Contents(file), Contents(thread'[t].buffer))
    BY <1>1, EarlierLaws DEF InOrder, BuffersInOrder
  <2>2. ASSUME NEW t \in Thread, NEW u \in Thread, u # t
        PROVE  Earlier(Contents(thread'[t].buffer), Contents(thread'[u].buffer))
    <3>1. Earlier(Contents(thread[t].buffer), Contents(thread[u].buffer))
      BY <2>2 DEF InOrder, BuffersInOrder
    <3> QED
      BY <1>1, <3>1 DEF Earlier
  <2> QED
    BY <1>0, <1>1, <2>1, <2>2 DEF BuffersInOrder, Contents
<1> QED
  BY <1>2, <1>3, <1>4 DEF InOrder

LEMMA WriteInOrder ==
  ASSUME TypeInv, Owners, Apart, InOrder, NEW t \in Thread, NEW n \in FlowLength, WriteEntries(t, n)
  PROVE  InOrder'
<1>1. /\ thread[t].pc = "drawn"
      /\ thread'[t].buffer = thread[t].buffer \o Entries(thread[t], n)
      /\ \A u \in Thread : u # t => thread'[u].buffer = thread[u].buffer
      /\ UNCHANGED <<file, channel>>
  BY WriteEffect DEF OnlyThread, WriteEntries
<1>2. Entries(thread[t], n) \in Seq(TraceEntry) /\ thread[t].buffer \in Seq(TraceEntry)
  BY <1>1, EntriesTyped, FlowAssumption DEF TypeInv, TypeOK, ThreadState
<1>3. Contents(thread'[t].buffer) = Contents(thread[t].buffer) \cup New(t, n)
  BY <1>1, <1>2, ConcatContents DEF New
<1>4. Earlier(AllEntries, New(t, n))
  BY <1>1, NewIsLatest
<1>5. ASSUME NEW u \in Thread, u # t
      PROVE  Earlier(New(t, n), Contents(thread[u].buffer))
  <2> SUFFICES ASSUME NEW d \in New(t, n), NEW e \in Contents(thread[u].buffer)
               PROVE  d.flow # e.flow /\ ~Before(e.flow, d.flow)
    BY DEF Earlier
  <2>1. d.flow.client = thread[t].client
    BY <1>1, NewTyped
  <2>2. thread[t].client # e.flow.client
    BY <1>1, <1>5 DEF Apart, Busy
  <2> QED
    BY <2>1, <2>2 DEF Before
<1>6. Neat(thread'[t].buffer)
  <2>1. Earlier(Contents(thread[t].buffer), Contents(Entries(thread[t], n)))
    BY <1>4, BuffersAreEntries DEF New, Earlier
  <2>2. Neat(thread[t].buffer) /\ Neat(Entries(thread[t], n))
    BY <1>1, NewIsNeat DEF InOrder, BuffersInOrder
  <2> QED
    BY <1>1, <1>2, <2>1, <2>2, ConcatNeat
<1>7. Neat(file') /\ ChannelInOrder'
  BY <1>1 DEF InOrder, ChannelInOrder, Contents
<1>8. ChannelBeforeBuffers'
  <2> SUFFICES ASSUME NEW u \in Thread, NEW i \in DOMAIN channel, channel[i] # None
               PROVE  Earlier(Contents(channel[i]), Contents(thread'[u].buffer))
    BY <1>1 DEF ChannelBeforeBuffers, Contents
  <2>1. Earlier(Contents(channel[i]), Contents(thread[u].buffer))
    BY DEF InOrder, ChannelBeforeBuffers
  <2>2. Contents(channel[i]) \subseteq AllEntries
    BY DEF AllEntries, InTransit, Contents
  <2>3. Earlier(Contents(channel[i]), New(t, n))
    BY <1>4, <2>2 DEF Earlier
  <2> QED
    BY <1>1, <1>3, <2>1, <2>3 DEF Earlier
<1>9. BuffersInOrder'
  <2>1. ASSUME NEW u \in Thread
        PROVE  Neat(thread'[u].buffer) /\ Earlier(Contents(file), Contents(thread'[u].buffer))
    <3>1. Neat(thread[u].buffer) /\ Earlier(Contents(file), Contents(thread[u].buffer))
      BY DEF InOrder, BuffersInOrder
    <3>2. Earlier(Contents(file), New(t, n))
      BY <1>4 DEF AllEntries, Earlier
    <3> QED
      BY <1>1, <1>3, <1>6, <3>1, <3>2 DEF Earlier
  <2>2. ASSUME NEW u \in Thread, NEW v \in Thread, v # u
        PROVE  Earlier(Contents(thread'[u].buffer), Contents(thread'[v].buffer))
    <3>1. Earlier(Contents(thread[u].buffer), Contents(thread[v].buffer))
      BY <2>2 DEF InOrder, BuffersInOrder
    <3>2. CASE u # t /\ v # t
      BY <1>1, <3>1, <3>2
    <3>3. CASE u = t
      BY <1>1, <1>3, <1>5, <2>2, <3>1, <3>3 DEF Earlier
    <3>4. CASE v = t
      <4>1. Earlier(Contents(thread[u].buffer), New(t, n))
        BY <1>4, BuffersAreEntries DEF Earlier
      <4> QED
        BY <1>1, <1>3, <2>2, <3>1, <3>4, <4>1 DEF Earlier
    <3> QED
      BY <3>2, <3>3, <3>4
  <2> QED
    BY <1>1, <2>1, <2>2 DEF BuffersInOrder, Contents
<1> QED
  BY <1>7, <1>8, <1>9 DEF InOrder

LEMMA SendInOrder ==
  ASSUME TypeInv, InOrder, NEW t \in Thread, Send(t)
  PROVE  InOrder'
<1> DEFINE b == thread[t].buffer
<1>1. /\ thread'[t].buffer = <<>>
      /\ \A u \in Thread : u # t => thread'[u].buffer = thread[u].buffer
      /\ file' = file
  BY SendEffect DEF OnlyThread, Send
<1>2. /\ Neat(b) /\ Earlier(Contents(file), Contents(b))
      /\ \A i \in DOMAIN channel : channel[i] # None => Earlier(Contents(channel[i]), Contents(b))
      /\ \A u \in Thread : u # t => Earlier(Contents(b), Contents(thread[u].buffer))
  BY DEF InOrder, BuffersInOrder, ChannelBeforeBuffers
<1>3. /\ Len(channel) \in Nat /\ DOMAIN channel = 1 .. Len(channel)
      /\ DOMAIN channel' = 1 .. Len(channel) + 1
      /\ \A i \in 1 .. Len(channel) : channel'[i] = channel[i]
      /\ channel'[Len(channel) + 1] = b
  <2>1. channel \in Seq(Message) /\ b \in Message /\ channel' = Append(channel, b)
    BY DEF TypeInv, TypeOK, ThreadState, Message, Send
  <2> HIDE DEF b
  <2> QED
    BY <2>1, LenProperties, AppendProperties
<1> HIDE DEF b
<1>4. \A i \in DOMAIN channel' :
        \/ i \in DOMAIN channel /\ channel'[i] = channel[i]
        \/ i = Len(channel) + 1 /\ channel'[i] = b
  BY <1>3
<1>5. Neat(file')
  BY <1>1 DEF InOrder
<1>6. ChannelInOrder'
  <2>1. ASSUME NEW i \in DOMAIN channel', channel'[i] # None
        PROVE  Neat(channel'[i]) /\ Earlier(Contents(file), Contents(channel'[i]))
    BY <1>2, <1>4, <2>1 DEF InOrder, ChannelInOrder
  <2>2. ASSUME NEW i \in DOMAIN channel', NEW j \in DOMAIN channel', i < j,
               channel'[i] # None, channel'[j] # None
        PROVE  Earlier(Contents(channel'[i]), Contents(channel'[j]))
    <3>1. i \in DOMAIN channel /\ channel'[i] = channel[i]
      BY <1>3, <2>2
    <3> QED
      BY <1>2, <1>4, <2>2, <3>1 DEF InOrder, ChannelInOrder
  <2> QED
    BY <1>1, <2>1, <2>2 DEF ChannelInOrder, Contents
<1>7. ChannelBeforeBuffers'
  <2> SUFFICES ASSUME NEW u \in Thread, NEW i \in DOMAIN channel', channel'[i] # None
               PROVE  Earlier(Contents(channel'[i]), Contents(thread'[u].buffer))
    BY DEF ChannelBeforeBuffers, Contents
  <2>1. CASE u = t
    BY <1>1, <2>1, EmptyIsNeat DEF Earlier
  <2>2. CASE u # t
    BY <1>1, <1>2, <1>4, <2>2 DEF InOrder, ChannelBeforeBuffers
  <2> QED
    BY <2>1, <2>2
<1>8. BuffersInOrder'
  <2>1. ASSUME NEW u \in Thread
        PROVE  Neat(thread'[u].buffer) /\ Earlier(Contents(file), Contents(thread'[u].buffer))
    BY <1>1, EmptyIsNeat DEF InOrder, BuffersInOrder, Earlier
  <2>2. ASSUME NEW u \in Thread, NEW v \in Thread, v # u
        PROVE  Earlier(Contents(thread'[u].buffer), Contents(thread'[v].buffer))
    BY <1>1, <2>2, EmptyIsNeat DEF InOrder, BuffersInOrder, Earlier
  <2> QED
    BY <1>1, <2>1, <2>2 DEF BuffersInOrder, Contents
<1> QED
  BY <1>5, <1>6, <1>7, <1>8 DEF InOrder

(* A batch, or its beginning, goes to the file, and the channel loses it,  *)
(* alone or with all that follows.                                         *)
LEMMA WorkerInOrder ==
  ASSUME TypeInv, InOrder, WorkerStep
  PROVE  InOrder'
<1>0. /\ channel \in Seq(Message) /\ file \in Seq(TraceEntry) /\ thread' = thread
      /\ Len(channel) \in Nat /\ DOMAIN channel = 1 .. Len(channel)
  BY LenProperties DEF WorkerStep, TypeInv, TypeOK, Message
<1>1. ASSUME NEW p \in Seq(TraceEntry), Neat(p), channel # <<>>, Head(channel) # None,
             Contents(p) \subseteq Contents(Head(channel)), file' = file \o p,
             channel' \in {Tail(channel), <<>>}
      PROVE  InOrder'
  <2>1. /\ Head(channel) = channel[1] /\ 1 \in DOMAIN channel
        /\ \A i \in DOMAIN channel' :
             i \in Nat /\ i + 1 \in DOMAIN channel /\ i + 1 > 1 /\ channel'[i] = channel[i + 1]
    <3>1. /\ Head(channel) = channel[1] /\ Tail(channel) \in Seq(Message)
          /\ Len(Tail(channel)) = Len(channel) - 1
          /\ \A i \in 1 .. Len(Tail(channel)) : Tail(channel)[i] = channel[i + 1]
      BY <1>0, <1>1, HeadTailProperties
    <3>2. DOMAIN Tail(channel) = 1 .. Len(channel) - 1 /\ Len(channel) >= 1
      BY <1>0, <1>1, <3>1, LenProperties, EmptySeq
    <3>3. \A i \in DOMAIN Tail(channel) : i \in Nat /\ i + 1 \in DOMAIN channel /\ i + 1 > 1
                                         /\ Tail(channel)[i] = channel[i + 1]
      BY <1>0, <3>1, <3>2
    <3>4. DOMAIN <<>> = {}
      OBVIOUS
    <3> QED
      BY <1>0, <1>1, <3>1, <3>2, <3>3, <3>4
  <2>2. /\ Earlier(Contents(file), Contents(p))
        /\ \A i \in DOMAIN channel : i > 1 /\ channel[i] # None =>
             Earlier(Contents(p), Contents(channel[i]))
        /\ \A t \in Thread : Earlier(Contents(p), Contents(thread[t].buffer))
    BY <1>1, <2>1 DEF InOrder, ChannelInOrder, ChannelBeforeBuffers, Earlier
  <2>3. Contents(file') = Contents(file) \cup Contents(p) /\ Neat(file')
    BY <1>0, <1>1, <2>2, ConcatContents, ConcatNeat DEF InOrder
  <2>4. ChannelInOrder'
    <3>1. ASSUME NEW i \in DOMAIN channel', channel'[i] # None
          PROVE  Neat(channel'[i]) /\ Earlier(Contents(file'), Contents(channel'[i]))
      BY <2>1, <2>2, <2>3, <3>1 DEF InOrder, ChannelInOrder, Earlier
    <3>2. ASSUME NEW i \in DOMAIN channel', NEW j \in DOMAIN channel', i < j,
                 channel'[i] # None, channel'[j] # None
          PROVE  Earlier(Contents(channel'[i]), Contents(channel'[j]))
      <4>1. i + 1 < j + 1
        BY <2>1, <3>2
      <4> QED
        BY <2>1, <3>2, <4>1 DEF InOrder, ChannelInOrder
    <3> QED
      BY <3>1, <3>2 DEF ChannelInOrder, Contents
  <2>5. ChannelBeforeBuffers'
    <3> SUFFICES ASSUME NEW u \in Thread, NEW i \in DOMAIN channel', channel'[i] # None
                 PROVE  Earlier(Contents(channel'[i]), Contents(thread'[u].buffer))
      BY DEF ChannelBeforeBuffers, Contents
    <3> QED
      BY <1>0, <2>1 DEF InOrder, ChannelBeforeBuffers
  <2>6. BuffersInOrder'
    <3>1. ASSUME NEW u \in Thread
          PROVE  Earlier(Contents(file'), Contents(thread'[u].buffer))
      BY <1>0, <2>2, <2>3 DEF InOrder, BuffersInOrder, Earlier
    <3>2. \A u \in Thread : Neat(thread[u].buffer) /\ \A v \in Thread : v # u =>
            Earlier(Contents(thread[u].buffer), Contents(thread[v].buffer))
      BY DEF InOrder, BuffersInOrder
    <3> QED
      BY <1>0, <3>1, <3>2 DEF BuffersInOrder, Contents
  <2> QED
    BY <2>3, <2>4, <2>5, <2>6 DEF InOrder
<1>2. CASE WriteBatch
  <2>1. Head(channel) \in Seq(TraceEntry) /\ Head(channel) = channel[1] /\ 1 \in DOMAIN channel
    BY <1>0, <1>2, HeadTailProperties, EmptySeq DEF WriteBatch, Message
  <2>2. Neat(Head(channel))
    BY <1>2, <2>1 DEF InOrder, ChannelInOrder, WriteBatch
  <2> QED
    BY <1>1, <1>2, <2>1, <2>2 DEF WriteBatch
<1>3. ASSUME UNCHANGED file, channel' \in {channel, <<>>}
      PROVE  InOrder'
  <2>1. file' = file /\ thread' = thread
    BY <1>0, <1>3
  <2>2. CASE channel' = <<>>
    <3>1. DOMAIN channel' = {}
      BY <2>2
    <3>2. ChannelInOrder' /\ ChannelBeforeBuffers'
      BY <3>1 DEF ChannelInOrder, ChannelBeforeBuffers
    <3>3. Neat(file') /\ BuffersInOrder'
      BY <2>1 DEF InOrder, BuffersInOrder, Contents
    <3> QED
      BY <3>2, <3>3 DEF InOrder
  <2>3. CASE channel' = channel
    BY <2>1, <2>3, ShrinkInOrder
  <2> QED
    BY <1>3, <2>2, <2>3
<1>4. CASE WriteHeader \/ Stop \/ Disconnect
  BY <1>3, <1>4 DEF WriteHeader, Stop, Disconnect, Finish
<1>5. CASE WriteFails
  <2>1. CASE worker = "starting" /\ Finish("failed") /\ UNCHANGED file
    BY <1>3, <2>1 DEF Finish
  <2>2. CASE /\ worker = "running"
             /\ channel # <<>> /\ Head(channel) # None
             /\ \E k \in 0 .. Len(Head(channel)) : file' = file \o SubSeq(Head(channel), 1, k)
             /\ Finish("failed")
    <3>1. PICK k \in 0 .. Len(Head(channel)) : file' = file \o SubSeq(Head(channel), 1, k)
      BY <2>2
    <3>2. Head(channel) \in Seq(TraceEntry) /\ Head(channel) = channel[1] /\ 1 \in DOMAIN channel
      BY <1>0, <2>2, HeadTailProperties, EmptySeq DEF Message
    <3>3. Neat(Head(channel))
      BY <2>2, <3>2 DEF InOrder, ChannelInOrder
    <3> DEFINE p == SubSeq(Head(channel), 1, k)
    <3>4. p \in Seq(TraceEntry) /\ Contents(p) \subseteq Contents(Head(channel)) /\ Neat(p)
      BY <3>2, <3>3, PrefixContents, PrefixNeat
    <3>5. file' = file \o p /\ channel' = <<>>
      BY <2>2, <3>1 DEF Finish
    <3> HIDE DEF p
    <3> QED
      BY <1>1, <2>2, <3>4, <3>5
  <2> QED
    BY <1>5, <2>1, <2>2 DEF WriteFails
<1> QED
  BY <1>2, <1>4, <1>5 DEF WorkerStep

LEMMA MainInOrder ==
  ASSUME TypeInv, InOrder, MainStep
  PROVE  InOrder'
<1>1. UNCHANGED <<file, thread>>
  BY MainPasses
<1>2. CASE UNCHANGED channel
  BY <1>1, <1>2, ShrinkInOrder
<1>3. CASE channel' = Append(channel, None)
  <2>1. channel \in Seq(Message) /\ None \in Message
    BY DEF TypeInv, TypeOK, Message
  <2>2. \A i \in DOMAIN channel' : channel'[i] # None =>
          i \in DOMAIN channel /\ channel'[i] = channel[i]
    <3>1. /\ channel' \in Seq(Message)
          /\ Len(channel) \in Nat
          /\ DOMAIN channel = 1 .. Len(channel) /\ DOMAIN channel' = 1 .. Len(channel) + 1
          /\ \A i \in 1 .. Len(channel) : channel'[i] = channel[i]
          /\ channel'[Len(channel) + 1] = None
      BY <1>3, <2>1, LenProperties, AppendProperties
    <3> QED
      BY <3>1
  <2>3. ChannelInOrder'
    <3>1. \A i \in DOMAIN channel' : channel'[i] # None =>
            Neat(channel'[i]) /\ Earlier(Contents(file), Contents(channel'[i]))
      BY <2>2 DEF InOrder, ChannelInOrder
    <3>2. \A i, j \in DOMAIN channel' : i < j /\ channel'[i] # None /\ channel'[j] # None =>
            Earlier(Contents(channel'[i]), Contents(channel'[j]))
      BY <2>2 DEF InOrder, ChannelInOrder
    <3> QED
      BY <1>1, <3>1, <3>2 DEF ChannelInOrder, Contents
  <2>4. ChannelBeforeBuffers'
    BY <1>1, <2>2 DEF InOrder, ChannelBeforeBuffers, Contents
  <2> QED
    BY <1>1, <2>3, <2>4 DEF InOrder, BuffersInOrder, Contents
<1> QED
  BY <1>2, <1>3 DEF MainStep, NextEpoch, EpochDone, StopWorker, Join

LEMMA InOrderStep ==
  ASSUME TypeInv, Owners, Apart, InOrder, [Next]_vars
  PROVE  InOrder'
<1>1. ASSUME NEW t \in Thread, ThreadStep(t) PROVE InOrder'
  BY <1>1, BufferSteps, WriteInOrder, SendInOrder, ShrinkInOrder
<1>2. CASE UNCHANGED vars
  BY <1>2, ShrinkInOrder DEF vars
<1> QED
  BY <1>1, <1>2, WorkerInOrder, MainInOrder DEF Next, Terminated

(* What is in the file is older than what is in the channel, and that is   *)
(* older than what the threads have in their buffers.                      *)
THEOREM Ordered == Spec => [](Apart /\ InOrder)
<1>1. Init => Apart /\ InOrder
  <2> SUFFICES ASSUME Init PROVE Apart /\ InOrder
    OBVIOUS
  <2>1. /\ \A t \in Thread : thread[t].buffer = <<>> /\ thread[t].pc = "idle"
        /\ file = <<>> /\ channel = <<>>
    BY IdleTyped DEF Init
  <2>2. DOMAIN <<>> = {}
    OBVIOUS
  <2> QED
    BY <2>1, <2>2, EmptyIsNeat
       DEF Apart, InOrder, ChannelInOrder, ChannelBeforeBuffers, BuffersInOrder, Earlier
<1>2. TypeInv /\ Owners /\ (Apart /\ InOrder) /\ [Next]_vars => (Apart /\ InOrder)'
  BY ApartStep, InOrderStep
<1> QED
  BY <1>1, <1>2, Typed, Owned, PTL DEF Spec

(* The packets of a flow stay together in the file, however the buffers    *)
(* are cut and whatever the threads do meanwhile.                          *)
THEOREM FlowsStayTogether == Spec => []FlowsContiguous
<1>1. InOrder => FlowsContiguous
  BY DEF InOrder, Neat, FlowsContiguous
<1> QED
  BY <1>1, Ordered, PTL

(* The flows of a client are in the file in the order it made them.        *)
THEOREM ClientsInOrder == Spec => []ClientOrder
<1>1. InOrder => ClientOrder
  BY DEF InOrder, Neat, ClientOrder
<1> QED
  BY <1>1, Ordered, PTL
=============================================================================
