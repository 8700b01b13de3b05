-------------------------- MODULE ShardPoolProofs ---------------------------
(***************************************************************************)
(* Proofs about ShardPool, for any number of shards and flows, any limits  *)
(* and any input.                                                          *)
(***************************************************************************)
EXTENDS ShardPoolReference, Induction

USE PoolAssumption DEF Shards

(* Where the capture thread uses the packet just read, there is one; where *)
(* it goes through the shards, `sweeping` is one of them.                  *)
Goes(places) == cpc \in places \/ (cpc = "drain" /\ then \in places)

CaptureInv ==
    /\ Goes({"sweep", "decode", "send"}) => pos \in 1 .. Len(capture)
    /\ Goes({"sweep", "join"}) => sweeping \in Shards

(* A packet is queued at the shard of its flow.                            *)
QueueRouted ==
    \A s \in Shards : \A i \in 1 .. Len(queue[s]) :
        queue[s][i].kind = "Packet" => ShardOf[queue[s][i].packet.flow] = s

(* After a release a worker goes on where it may, and if that is amid the  *)
(* handling of a packet, it still has the packet.                          *)
ReleaseRouted ==
    \A s \in Shards :
        /\ wnext[s] \in {"recv", "acquire", "send", "evict", "flush"}
        /\ wpc[s] = "release" /\ wnext[s] \in InPacket =>
              work[s].kind = "Packet" /\ ShardOf[Key(s)] = s

IInv == TypeOK /\ CaptureInv /\ QueueRouted /\ ReleaseRouted /\ WorkerOwnsFlow

LEMMA InitInv == Init => IInv
<1> SUFFICES ASSUME Init PROVE IInv
  OBVIOUS
<1>1. TypeOK
  BY DEF Init, TypeOK, CaptureType, ChannelType, WorkerType,
         ReportType, BudgetType, Command, EvictIdle, WorkerPc
<1>2. CaptureInv /\ QueueRouted /\ ReleaseRouted /\ WorkerOwnsFlow
  BY DEF Init, CaptureInv, Goes, QueueRouted, ReleaseRouted, WorkerOwnsFlow, InPacket
<1> QED
  BY <1>1, <1>2 DEF IInv

(* The packet a worker handles, and the one the capture thread holds.      *)
LEMMA WorkTyped ==
  ASSUME WorkerType, NEW s \in Shards, work[s].kind = "Packet"
  PROVE  /\ Key(s) \in Flows
         /\ Packet(s) \in PacketType
         /\ work[s].index \in Nat
<1>1. work[s] \in [kind : {"Packet"}, index : Nat, packet : Packets, now : Nat]
  BY DEF WorkerType, Command
<1> QED
  BY <1>1 DEF Packet, Key, PacketType

LEMMA CaptureTyped ==
  ASSUME CaptureType
  PROVE  /\ capture \in Seq(Packets)
         /\ Len(capture) \in Nat
         /\ pos \in Nat
         /\ \A i \in 1 .. Len(capture) : capture[i] \in PacketType /\ capture[i] \in Packets
BY DEF CaptureType

LEMMA ReassembledTyped ==
  ASSUME NEW held \in Nat, NEW p \in PacketType
  PROVE  /\ Reassembled(held, p).held \in Nat
         /\ Reassembled(held, p).output \in Nat
         /\ Reassembled(held, p).warnings \in Nat
BY DEF Reassembled, PacketType

(* A step of the capture thread leaves the workers alone, and the type of  *)
(* its own variables and of the channels intact.                           *)
LEMMA CaptureThreadType ==
  ASSUME IInv, CaptureThread
  PROVE  TypeOK'
<1> USE DEF IInv, TypeOK, captureVars, outVars, workerVars, sharedVars
<1>a. WorkerType' /\ ReportType' /\ BudgetType'
  BY DEF WorkerType, ReportType, BudgetType, CaptureThread, ReadPacket, SendSweep, DecodePacket,
         SubmitPacket,
         EndOfInput, DropSender, JoinWorker, ReceiveResult, WriteResult, WriteFails,
         Drained, Exit
<1>0. CaptureType
  OBVIOUS
<1>b. /\ Len(capture) \in Nat /\ pos \in Nat
      /\ \A i \in 1 .. Len(capture) : capture[i] \in PacketType /\ capture[i] \in Packets
  BY <1>0, CaptureTyped, Zenon
<1>1. CASE ReadPacket
  <2>1. CaptureType'
    BY <1>1, <1>b DEF ReadPacket, DrainThen, CaptureType
  <2> QED
    BY <1>1, <1>a, <2>1 DEF ReadPacket, ChannelType
<1>2. CASE SendSweep
  <2>1. pos \in 1 .. Len(capture) /\ sweeping \in Shards
    BY <1>2 DEF SendSweep, CaptureInv, Goes
  <2>2. Current.at \in Nat
    BY <2>1, <1>b DEF Current, PacketType
  <2>3. EvictIdle(Current.at) \in Command
    BY <2>2 DEF EvictIdle, Command
  <2>4. queue' \in [Shards -> Seq(Command)]
    BY <1>2, <2>1, <2>3 DEF SendSweep, ChannelType
  <2>5. ChannelType'
    BY <1>2, <2>4 DEF SendSweep, ChannelType
  <2>6. CaptureType'
    BY <1>2, <1>b, <2>1, <2>2 DEF SendSweep, DrainThen, CaptureType
  <2> QED
    BY <1>a, <2>5, <2>6
<1>3. CASE DecodePacket
  BY <1>3, <1>a, <1>b DEF DecodePacket, DrainThen, CaptureType, ChannelType
<1>4. CASE SubmitPacket
  <2>1. Current \in Packets /\ Current \in PacketType
    BY <1>4, <1>b DEF SubmitPacket, CaptureInv, Goes, Current
  <2>2. PacketCommand(next_packet_index, Current) \in Command
    BY <2>1 DEF PacketCommand, Command, PacketType, CaptureType
  <2>3. queue' \in [Shards -> Seq(Command)]
    BY <1>4, <2>1, <2>2 DEF SubmitPacket, ShardIndex, ChannelType, PacketType
  <2>4. ChannelType'
    BY <1>4, <2>3 DEF SubmitPacket, ChannelType
  <2>5. CaptureType'
    BY <1>4, <1>b DEF SubmitPacket, DrainThen, CaptureType
  <2> QED
    BY <1>a, <2>4, <2>5
<1>5. CASE EndOfInput
  BY <1>5, <1>a, <1>b DEF EndOfInput, DrainThen, CaptureType, ChannelType
<1>6. CASE DropSender
  BY <1>6, <1>a, <1>b DEF DropSender, CaptureType, ChannelType, CaptureInv, Goes
<1>7. CASE JoinWorker
  <2>1. sweeping \in Shards
    BY <1>7 DEF JoinWorker, CaptureInv, Goes
  <2>2. lost[sweeping] \in Nat
    BY <2>1 DEF ReportType
  <2>3. losses' \in Nat /\ sweeping' \in 1 .. NShards + 1
    BY <1>7, <2>1, <2>2 DEF JoinWorker, CaptureType
  <2>4. CaptureType'
    BY <1>7, <1>b, <2>3 DEF JoinWorker, DrainThen, CaptureType
  <2> QED
    BY <1>7, <1>a, <2>4 DEF JoinWorker, ChannelType
<1>8. CASE ReceiveResult
  <2>1. Head(results) \in Result /\ Tail(results) \in Seq(Result)
    BY <1>8 DEF ReceiveResult, ChannelType
  <2> QED
    BY <1>8, <1>a, <1>b, <2>1 DEF ReceiveResult, CaptureType, ChannelType
<1>9. CASE WriteResult
  <2>1. PICK r \in Due : /\ pending' = pending \ {r}
                         /\ losses' = losses + r.warnings
                         /\ out' = Append(out, r)
                         /\ next_output_index' = next_output_index + 1
    BY <1>9 DEF WriteResult
  <2>2. r \in Result /\ r.warnings \in Nat
    BY <2>1 DEF Due, Result, ChannelType
  <2>3. ChannelType'
    BY <1>9, <2>1, <2>2 DEF WriteResult, ChannelType
  <2>4. CaptureType'
    BY <1>9, <1>b, <2>1, <2>2 DEF WriteResult, CaptureType
  <2> QED
    BY <1>a, <2>3, <2>4
<1>10. CASE WriteFails
  <2>1. PICK r \in Due : /\ pending' = pending \ {r}
                         /\ losses' = losses + r.warnings + FailureLoss
    BY <1>10 DEF WriteFails
  <2>2. r.warnings \in Nat /\ FailureLoss \in Nat
    BY <2>1 DEF Due, Result, FailureLoss, ChannelType
  <2>3. ChannelType'
    BY <1>10, <2>1 DEF WriteFails, ChannelType
  <2>4. CaptureType'
    BY <1>10, <1>b, <2>1, <2>2 DEF WriteFails, CaptureType
  <2> QED
    BY <1>a, <2>3, <2>4
<1>11. CASE Drained
  BY <1>11, <1>a, <1>b DEF Drained, CaptureType, ChannelType
<1>12. CASE Exit
  BY <1>12, <1>a, <1>b DEF Exit, CaptureType, ChannelType
<1> QED
  BY <1>1, <1>2, <1>3, <1>4, <1>5, <1>6, <1>7, <1>8, <1>9, <1>10, <1>11, <1>12
  DEF CaptureThread

LEMMA PcNames ==
  /\ {"recv", "syn", "acquire", "update", "undo", "fin", "send", "evict"} \subseteq WorkerPc
  /\ {"flush", "release", "exited"} \subseteq WorkerPc
BY DEF WorkerPc

HIDE DEF Shards

(* Removing a flow from the table keeps the workers' variables typed.      *)
LEMMA ReleaseTyped ==
  ASSUME WorkerType, BudgetType, NEW s \in Shards, NEW f \in Flows, flow[f] # NoFlow,
         NEW where \in WorkerPc, ReleaseFlow(s, f, where)
  PROVE  /\ BudgetType'
         /\ wpc' \in [Shards -> WorkerPc] /\ wnext' \in [Shards -> WorkerPc]
         /\ flow[f].held \in Nat
<1>1. flow[f].held \in Nat
  BY DEF BudgetType
<1> QED
  BY <1>1, PcNames DEF WorkerType, BudgetType, ReleaseFlow

(* Every handling of a packet has the packet at hand, and its flow.        *)
LEMMA OwnedTyped ==
  ASSUME WorkerType, BudgetType, WorkerOwnsFlow, NEW s \in Shards, wpc[s] \in InPacket
  PROVE  /\ Key(s) \in Flows /\ ShardOf[Key(s)] = s
         /\ Packet(s) \in PacketType
         /\ work[s].kind = "Packet" /\ work[s].index \in Nat
         /\ wpc[s] \in {"update", "undo", "fin"} =>
               flow[Key(s)] # NoFlow /\ flow[Key(s)].held \in Nat
<1>1. work[s].kind = "Packet" /\ ShardOf[Key(s)] = s
  BY DEF WorkerOwnsFlow
<1>2. Key(s) \in Flows /\ Packet(s) \in PacketType /\ work[s].index \in Nat
  BY <1>1, WorkTyped
<1>3. flow[Key(s)] # NoFlow => flow[Key(s)].held \in Nat
  BY <1>2 DEF BudgetType
<1> QED
  BY <1>1, <1>2, <1>3 DEF WorkerOwnsFlow

(* What a step may do to the workers' variables and keep them typed.       *)
LEMMA WorkerMoves ==
  ASSUME WorkerType, NEW s \in Shards, NEW place \in WorkerPc,
         wpc' = [wpc EXCEPT ![s] = place], UNCHANGED <<wnext, work>>
  PROVE  WorkerType'
BY DEF WorkerType

LEMMA WorkerReleases ==
  ASSUME WorkerType, UNCHANGED work,
         wpc' \in [Shards -> WorkerPc], wnext' \in [Shards -> WorkerPc]
  PROVE  WorkerType'
BY DEF WorkerType

LEMMA ReportKept ==
  ASSUME ReportType, UNCHANGED <<warnings, output, lost>>
  PROVE  ReportType'
BY DEF ReportType

LEMMA WarningsAdded ==
  ASSUME ReportType, NEW s \in Shards, NEW n \in Nat,
         warnings' = [warnings EXCEPT ![s] = @ + n], UNCHANGED <<output, lost>>
  PROVE  ReportType'
<1>1. warnings[s] + n \in Nat
  BY DEF ReportType
<1> QED
  BY <1>1 DEF ReportType

LEMMA LossAdded ==
  ASSUME ReportType, NEW s \in Shards, NEW n \in Nat,
         lost' = [lost EXCEPT ![s] = @ + n], UNCHANGED <<warnings, output>>
  PROVE  ReportType'
<1>1. lost[s] + n \in Nat
  BY DEF ReportType
<1> QED
  BY <1>1 DEF ReportType

LEMMA BudgetKept ==
  ASSUME BudgetType, UNCHANGED <<flow, flows, buffered_bytes, owed>>
  PROVE  BudgetType'
BY DEF BudgetType

(* Every step of a worker is of one of three kinds for its flow table: a   *)
(* flow is removed, the packet's flow gets a new state, or nothing.        *)
LEMMA WorkerStepType ==
  ASSUME IInv, NEW s \in Shards, Worker(s)
  PROVE  TypeOK'
<1> USE DEF captureSide, captureVars, outVars, sharedVars
<1>t. /\ CaptureType /\ ChannelType /\ WorkerType /\ ReportType /\ BudgetType
      /\ WorkerOwnsFlow
  BY DEF IInv, TypeOK
<1>0. CaptureType'
  BY <1>t DEF CaptureType, Worker, TakeCommand, HandleSyn, AcquireFlow, UpdateBytes,
     UndoBytes, HandleFin, ReleaseBytes, SendResult, EvictFlow, FlushFlows
<1>1. CASE TakeCommand(s)
  <2>1. Head(queue[s]) \in Command /\ Tail(queue[s]) \in Seq(Command)
    BY <1>t, <1>1 DEF TakeCommand, ChannelType
  <2>2. ChannelType'
    BY <1>t, <1>1, <2>1 DEF TakeCommand, ChannelType
  <2>3. WorkerType'
    BY <1>t, <1>1, <2>1, PcNames DEF TakeCommand, WorkerType
  <2>4. ReportType' /\ BudgetType'
    BY <1>t, <1>1 DEF TakeCommand, ReportType, BudgetType
  <2> QED
    BY <1>0, <2>2, <2>3, <2>4 DEF TypeOK
<1>2. CASE HandleSyn(s)
  <2>1. Key(s) \in Flows
    BY <1>t, <1>2, OwnedTyped DEF HandleSyn, InPacket
  <2>2. ChannelType'
    BY <1>t, <1>2 DEF HandleSyn, ChannelType
  <2>3. CASE Packet(s).syn /\ flow[Key(s)] # NoFlow
    <3>1. ReleaseFlow(s, Key(s), "acquire")
      BY <1>2, <2>3 DEF HandleSyn
    <3>2. /\ BudgetType' /\ flow[Key(s)].held \in Nat
          /\ wpc' \in [Shards -> WorkerPc] /\ wnext' \in [Shards -> WorkerPc]
      BY <1>t, <2>1, <2>3, <3>1, ReleaseTyped, PcNames
    <3>3. WorkerType'
      BY <1>t, <1>2, <3>2, WorkerReleases DEF HandleSyn
    <3>4. ReportType'
      BY <1>t, <1>2, <2>3, WarningsAdded DEF HandleSyn
    <3> QED
      BY <1>0, <2>2, <3>2, <3>3, <3>4 DEF TypeOK
  <2>4. CASE ~(Packet(s).syn /\ flow[Key(s)] # NoFlow)
    <3>1. /\ wpc' = [wpc EXCEPT ![s] = "acquire"]
          /\ UNCHANGED <<wnext, owed, warnings, work, output, lost>>
          /\ UNCHANGED <<flow, flows, buffered_bytes>>
      BY <1>2, <2>4 DEF HandleSyn
    <3>2. WorkerType'
      BY <1>t, <3>1, PcNames, WorkerMoves
    <3>3. ReportType' /\ BudgetType'
      BY <1>t, <3>1, ReportKept, BudgetKept
    <3> QED
      BY <1>0, <2>2, <3>2, <3>3 DEF TypeOK
  <2> QED
    BY <2>3, <2>4
<1>3. CASE AcquireFlow(s)
  <2>1. Key(s) \in Flows /\ Packet(s).at \in Nat
    BY <1>t, <1>3, OwnedTyped DEF AcquireFlow, InPacket, PacketType
  <2>2. WorkerType'
    BY <1>t, <1>3, PcNames, WorkerMoves DEF AcquireFlow
  <2>5. ReportType'
    <3>1. /\ \/ warnings' = [warnings EXCEPT ![s] = 1]
             \/ UNCHANGED warnings
          /\ UNCHANGED <<output, lost>>
      BY <1>3 DEF AcquireFlow
    <3> QED
      BY <1>t, <3>1 DEF ReportType
  <2>3. BudgetType'
    BY <1>t, <1>3, <2>1 DEF AcquireFlow, BudgetType
  <2>4. ChannelType'
    BY <1>t, <1>3 DEF AcquireFlow, ChannelType
  <2> QED
    BY <1>0, <2>2, <2>3, <2>4, <2>5 DEF TypeOK
<1>4. CASE UpdateBytes(s)
  <2> DEFINE r == Reassembled(flow[Key(s)].held, Packet(s))
  <2>1. Key(s) \in Flows /\ Packet(s) \in PacketType /\ flow[Key(s)].held \in Nat
    BY <1>t, <1>4, OwnedTyped DEF UpdateBytes, InPacket
  <2>2. r.held \in Nat /\ r.output \in Nat /\ r.warnings \in Nat
    BY <2>1, ReassembledTyped
  <2>3. Packet(s).at \in Nat
    BY <2>1 DEF PacketType
  <2>4. /\ flow' = [flow EXCEPT ![Key(s)] = [held |-> r.held, last_seen |-> Packet(s).at]]
        /\ buffered_bytes' = buffered_bytes + r.held - flow[Key(s)].held
        /\ output' = [output EXCEPT ![s] = r.output]
        /\ warnings' = [warnings EXCEPT ![s] = @ + r.warnings]
        /\ UNCHANGED <<owed, lost, flows, queue, results, captureSide, work, wnext>>
        /\ \/ wpc' = [wpc EXCEPT ![s] = "undo"]
           \/ wpc' = [wpc EXCEPT ![s] = "fin"]
    BY <1>4 DEF UpdateBytes
  <2> HIDE DEF r
  <2>5. BudgetType'
    BY <1>t, <2>1, <2>2, <2>3, <2>4 DEF BudgetType
  <2>6. ReportType'
    BY <1>t, <2>2, <2>4 DEF ReportType
  <2>7. WorkerType'
    BY <1>t, <2>4, PcNames DEF WorkerType
  <2>8. ChannelType'
    BY <1>t, <2>4 DEF ChannelType
  <2> QED
    BY <1>0, <2>5, <2>6, <2>7, <2>8 DEF TypeOK
<1>5. CASE UndoBytes(s)
  <2>1. Key(s) \in Flows /\ flow[Key(s)] # NoFlow /\ flow[Key(s)].held \in Nat
    BY <1>t, <1>5, OwnedTyped DEF UndoBytes, InPacket
  <2>2. BudgetType'
    <3> DEFINE emptied == [flow[Key(s)] EXCEPT !.held = 0]
    <3>1. /\ flow' = [flow EXCEPT ![Key(s)] = emptied]
          /\ buffered_bytes' = buffered_bytes - flow[Key(s)].held
          /\ UNCHANGED <<owed, flows>>
      BY <1>5 DEF UndoBytes
    <3>2. emptied \in [held : Nat, last_seen : Nat]
      BY <1>t, <2>1 DEF BudgetType
    <3> HIDE DEF emptied
    <3> QED
      BY <1>t, <2>1, <3>1, <3>2 DEF BudgetType
  <2>3. WorkerType'
    BY <1>t, <1>5, PcNames, WorkerMoves DEF UndoBytes
  <2>4. ReportType'
    BY <1>t, <1>5, WarningsAdded DEF UndoBytes
  <2>5. ChannelType'
    BY <1>t, <1>5 DEF UndoBytes, ChannelType
  <2> QED
    BY <1>0, <2>2, <2>3, <2>4, <2>5 DEF TypeOK
<1>6. CASE HandleFin(s)
  <2>1. Key(s) \in Flows /\ flow[Key(s)] # NoFlow
    BY <1>t, <1>6, OwnedTyped DEF HandleFin, InPacket
  <2>2. ChannelType'
    BY <1>t, <1>6 DEF HandleFin, ChannelType
  <2>3. CASE Packet(s).fin
    <3>1. ReleaseFlow(s, Key(s), "send")
      BY <1>6, <2>3 DEF HandleFin
    <3>2. /\ BudgetType' /\ flow[Key(s)].held \in Nat
          /\ wpc' \in [Shards -> WorkerPc] /\ wnext' \in [Shards -> WorkerPc]
      BY <1>t, <2>1, <3>1, ReleaseTyped, PcNames
    <3>3. WorkerType'
      BY <1>t, <1>6, <3>2, WorkerReleases DEF HandleFin
    <3>4. ReportType'
      BY <1>t, <1>6, <2>3, WarningsAdded DEF HandleFin
    <3> QED
      BY <1>0, <2>2, <3>2, <3>3, <3>4 DEF TypeOK
  <2>4. CASE ~Packet(s).fin
    <3>1. /\ wpc' = [wpc EXCEPT ![s] = "send"]
          /\ UNCHANGED <<wnext, owed, warnings, work, output, lost>>
          /\ UNCHANGED <<flow, flows, buffered_bytes>>
      BY <1>6, <2>4 DEF HandleFin
    <3>2. WorkerType'
      BY <1>t, <3>1, PcNames, WorkerMoves
    <3>3. ReportType' /\ BudgetType'
      BY <1>t, <3>1, ReportKept, BudgetKept
    <3> QED
      BY <1>0, <2>2, <3>2, <3>3 DEF TypeOK
  <2> QED
    BY <2>3, <2>4
<1>7. CASE ReleaseBytes(s)
  <2>1. BudgetType'
    BY <1>t, <1>7 DEF ReleaseBytes, BudgetType
  <2>2. wnext[s] \in WorkerPc
    BY <1>t DEF WorkerType
  <2>3. WorkerType'
    BY <1>t, <1>7, <2>2, WorkerMoves DEF ReleaseBytes
  <2>4. ReportType' /\ ChannelType'
    BY <1>t, <1>7, ReportKept DEF ReleaseBytes, ChannelType
  <2> QED
    BY <1>0, <2>1, <2>3, <2>4 DEF TypeOK
<1>8. CASE SendResult(s)
  <2>1. work[s].index \in Nat
    BY <1>t, <1>8, OwnedTyped DEF SendResult, InPacket
  <2>2. [index |-> work[s].index, output |-> output[s], warnings |-> warnings[s]] \in Result
    BY <1>t, <2>1 DEF Result, ReportType
  <2>3. ChannelType'
    BY <1>t, <1>8, <2>2 DEF SendResult, ChannelType
  <2>4. WorkerType'
    BY <1>t, <1>8, PcNames, WorkerMoves DEF SendResult
  <2>5. ReportType' /\ BudgetType'
    BY <1>t, <1>8, ReportKept, BudgetKept DEF SendResult
  <2> QED
    BY <1>0, <2>3, <2>4, <2>5 DEF TypeOK
<1>9. CASE EvictFlow(s)
  <2>1. ChannelType'
    BY <1>t, <1>9 DEF EvictFlow, ChannelType
  <2>2. CASE wpc' = [wpc EXCEPT ![s] = "recv"] /\ UNCHANGED <<wnext, owed, lost, sharedVars>>
    <3>1. UNCHANGED <<wnext, owed, lost, work, warnings, output>>
      BY <1>9, <2>2 DEF EvictFlow
    <3>2. WorkerType'
      BY <1>t, <2>2, <3>1, PcNames, WorkerMoves
    <3>3. ReportType' /\ BudgetType'
      BY <1>t, <2>2, <3>1, ReportKept, BudgetKept
    <3> QED
      BY <1>0, <2>1, <3>2, <3>3 DEF TypeOK
  <2>3. CASE \E f \in Idle(s, work[s].now) :
               /\ ReleaseFlow(s, f, "evict")
               /\ lost' = [lost EXCEPT ![s] = @ + (IF flow[f].held > 0 THEN 1 ELSE 0)]
    <3>1. PICK f \in Flows : /\ flow[f] # NoFlow /\ ReleaseFlow(s, f, "evict")
                             /\ lost' = [lost EXCEPT ![s] =
                                           @ + (IF flow[f].held > 0 THEN 1 ELSE 0)]
      BY <2>3 DEF Idle, Table, Live
    <3>2. /\ BudgetType' /\ flow[f].held \in Nat
          /\ wpc' \in [Shards -> WorkerPc] /\ wnext' \in [Shards -> WorkerPc]
      BY <1>t, <3>1, ReleaseTyped, PcNames
    <3>3. UNCHANGED <<work, warnings, output>>
      BY <1>9 DEF EvictFlow
    <3>4. WorkerType'
      BY <1>t, <3>2, <3>3, WorkerReleases
    <3>5. ReportType'
      BY <1>t, <3>1, <3>3, LossAdded
    <3> QED
      BY <1>0, <2>1, <3>2, <3>4, <3>5 DEF TypeOK
  <2> QED
    BY <1>9, <2>2, <2>3 DEF EvictFlow
<1>10. CASE FlushFlows(s)
  <2>1. ChannelType'
    BY <1>t, <1>10 DEF FlushFlows, ChannelType
  <2>2. CASE wpc' = [wpc EXCEPT ![s] = "exited"] /\ UNCHANGED <<wnext, owed, lost, sharedVars>>
    <3>1. UNCHANGED <<wnext, owed, lost, work, warnings, output>>
      BY <1>10, <2>2 DEF FlushFlows
    <3>2. WorkerType'
      BY <1>t, <2>2, <3>1, PcNames, WorkerMoves
    <3>3. ReportType' /\ BudgetType'
      BY <1>t, <2>2, <3>1, ReportKept, BudgetKept
    <3> QED
      BY <1>0, <2>1, <3>2, <3>3 DEF TypeOK
  <2>3. CASE \E f \in Table(s) :
               /\ ReleaseFlow(s, f, "flush")
               /\ lost' = [lost EXCEPT ![s] = @ + (IF flow[f].held > 0 THEN 1 ELSE 0)]
    <3>1. PICK f \in Flows : /\ flow[f] # NoFlow /\ ReleaseFlow(s, f, "flush")
                             /\ lost' = [lost EXCEPT ![s] =
                                           @ + (IF flow[f].held > 0 THEN 1 ELSE 0)]
      BY <2>3 DEF Table, Live
    <3>2. /\ BudgetType' /\ flow[f].held \in Nat
          /\ wpc' \in [Shards -> WorkerPc] /\ wnext' \in [Shards -> WorkerPc]
      BY <1>t, <3>1, ReleaseTyped, PcNames
    <3>3. UNCHANGED <<work, warnings, output>>
      BY <1>10 DEF FlushFlows
    <3>4. WorkerType'
      BY <1>t, <3>2, <3>3, WorkerReleases
    <3>5. ReportType'
      BY <1>t, <3>1, <3>3, LossAdded
    <3> QED
      BY <1>0, <2>1, <3>2, <3>4, <3>5 DEF TypeOK
  <2> QED
    BY <1>10, <2>2, <2>3 DEF FlushFlows
<1> QED
  BY <1>1, <1>2, <1>3, <1>4, <1>5, <1>6, <1>7, <1>8, <1>9, <1>10 DEF Worker

(* The rest of the invariant, step by step.                                *)
LEMMA CaptureThreadPlaces ==
  ASSUME IInv, CaptureThread
  PROVE  CaptureInv'
<1>1. CaptureInv /\ CaptureType /\ NShards \in Nat \ {0}
  BY PoolAssumption DEF IInv, TypeOK
<1>2. pos \in Nat /\ Len(capture) \in Nat
  BY <1>1, CaptureTyped
<1>3. CASE SendSweep
  BY <1>1, <1>3 DEF SendSweep, CaptureInv, Goes, DrainThen, Shards
<1>4. CASE JoinWorker
  BY <1>1, <1>4 DEF JoinWorker, CaptureInv, Goes, DrainThen, Shards
<1>5. CASE ReadPacket
  BY <1>1, <1>2, <1>5 DEF ReadPacket, CaptureInv, Goes, DrainThen, CaptureType, Shards
<1>6. CASE EndOfInput
  BY <1>1, <1>6 DEF EndOfInput, CaptureInv, Goes, DrainThen, Shards
<1>7. CASE DecodePacket \/ SubmitPacket
  BY <1>1, <1>7 DEF DecodePacket, SubmitPacket, CaptureInv, Goes, DrainThen
<1>8. CASE DropSender \/ ReceiveResult \/ WriteResult
  BY <1>1, <1>8 DEF DropSender, ReceiveResult, WriteResult, CaptureInv, Goes, captureVars
<1>9. CASE WriteFails \/ Exit
  BY <1>1, <1>9 DEF WriteFails, Exit, CaptureInv, Goes
<1>10. CASE Drained
  BY <1>1, <1>10 DEF Drained, CaptureInv, Goes
<1> QED
  BY <1>3, <1>4, <1>5, <1>6, <1>7, <1>8, <1>9, <1>10 DEF CaptureThread

LEMMA CommandQueued ==
  ASSUME ChannelType, QueueRouted, NEW s \in Shards, NEW c \in Command,
         c.kind = "Packet" => ShardOf[c.packet.flow] = s,
         queue' = [queue EXCEPT ![s] = Append(@, c)]
  PROVE  QueueRouted'
<1> SUFFICES ASSUME NEW t \in Shards, NEW i \in 1 .. Len(queue'[t]),
                    queue'[t][i].kind = "Packet"
             PROVE  ShardOf[queue'[t][i].packet.flow] = t
  BY DEF QueueRouted
<1>1. queue \in [Shards -> Seq(Command)]
  BY DEF ChannelType
<1>2. CASE t # s
  BY <1>1, <1>2 DEF QueueRouted
<1>3. CASE t = s
  <2>1. queue'[s] = Append(queue[s], c) /\ queue[s] \in Seq(Command)
    BY <1>1
  <2>2. i \in 1 .. Len(queue[s]) + 1
    BY <1>3, <2>1
  <2>3. CASE i = Len(queue[s]) + 1
    BY <1>3, <2>1, <2>3
  <2>4. CASE i \in 1 .. Len(queue[s])
    BY <1>3, <2>1, <2>4 DEF QueueRouted
  <2> QED
    BY <2>1, <2>2, <2>3, <2>4
<1> QED
  BY <1>2, <1>3

LEMMA CaptureThreadRoutes ==
  ASSUME IInv, CaptureThread
  PROVE  QueueRouted' /\ ReleaseRouted' /\ WorkerOwnsFlow'
<1>1. /\ CaptureType /\ ChannelType /\ CaptureInv /\ QueueRouted /\ ReleaseRouted
      /\ WorkerOwnsFlow
  BY DEF IInv, TypeOK
<1>2. UNCHANGED <<workerVars, sharedVars>>
  BY DEF CaptureThread, ReadPacket, SendSweep, DecodePacket, SubmitPacket, EndOfInput,
         DropSender, JoinWorker, ReceiveResult, WriteResult, WriteFails, Drained, Exit
<1>3. ReleaseRouted' /\ WorkerOwnsFlow'
  BY <1>1, <1>2 DEF workerVars, sharedVars, ReleaseRouted, WorkerOwnsFlow, Key, Packet
<1>4. CASE SendSweep
  <2>1. sweeping \in Shards /\ pos \in 1 .. Len(capture)
    BY <1>1, <1>4 DEF SendSweep, CaptureInv, Goes
  <2>2. Current.at \in Nat
    BY <1>1, <2>1, CaptureTyped DEF Current, PacketType
  <2>3. EvictIdle(Current.at) \in Command /\ EvictIdle(Current.at).kind # "Packet"
    BY <2>2 DEF EvictIdle, Command
  <2> QED
    BY <1>1, <1>3, <1>4, <2>1, <2>3, CommandQueued DEF SendSweep
<1>5. CASE SubmitPacket
  <2>1. pos \in 1 .. Len(capture)
    BY <1>1, <1>5 DEF SubmitPacket, CaptureInv, Goes
  <2>2. Current \in Packets /\ Current \in PacketType
    BY <1>1, <2>1, CaptureTyped DEF Current
  <2>3. ShardIndex(Current) \in Shards
    BY <2>2, PoolAssumption DEF ShardIndex, PacketType
  <2> DEFINE c == PacketCommand(next_packet_index, Current)
  <2>4. c \in Command /\ ShardOf[c.packet.flow] = ShardIndex(Current)
    BY <1>1, <2>2 DEF PacketCommand, Command, PacketType, CaptureType, ShardIndex
  <2>5. queue' = [queue EXCEPT ![ShardIndex(Current)] = Append(@, c)]
    BY <1>5 DEF SubmitPacket
  <2> HIDE DEF c
  <2> QED
    BY <1>1, <1>3, <2>3, <2>4, <2>5, CommandQueued
<1>6. CASE UNCHANGED queue
  BY <1>1, <1>3, <1>6 DEF QueueRouted
<1> QED
  BY <1>4, <1>5, <1>6 DEF CaptureThread, ReadPacket, DecodePacket, EndOfInput, DropSender,
     JoinWorker, ReceiveResult, WriteResult, WriteFails, Drained, Exit

(* The steps of a worker leave the other workers' variables alone, and     *)
(* remove no flow of another shard.                                        *)
LEMMA WorkerStaysInShard ==
  ASSUME IInv, NEW s \in Shards, Worker(s), NEW t \in Shards, t # s
  PROVE  /\ wpc'[t] = wpc[t] /\ wnext'[t] = wnext[t] /\ work'[t] = work[t]
         /\ \A f \in Flows : ShardOf[f] = t => flow'[f] = flow[f]
<1>1. WorkerType /\ BudgetType /\ WorkerOwnsFlow
  BY DEF IInv, TypeOK
<1>2. /\ wpc \in [Shards -> WorkerPc] /\ wnext \in [Shards -> WorkerPc]
      /\ work \in [Shards -> Command]
      /\ flow \in [Flows -> [held : Nat, last_seen : Nat] \cup {NoFlow}]
  BY <1>1 DEF WorkerType, BudgetType
<1>3. wpc'[t] = wpc[t] /\ wnext'[t] = wnext[t] /\ work'[t] = work[t]
  BY <1>2 DEF Worker, TakeCommand, HandleSyn, AcquireFlow, UpdateBytes, UndoBytes, HandleFin,
     ReleaseBytes, SendResult, EvictFlow, FlushFlows, ReleaseFlow
<1>4. wpc[s] \in InPacket => Key(s) \in Flows /\ ShardOf[Key(s)] = s
  BY <1>1, OwnedTyped
<1>5. \A f \in Flows : ShardOf[f] = t => flow'[f] = flow[f]
  <2>1. CASE HandleSyn(s) \/ AcquireFlow(s) \/ HandleFin(s)
    BY <1>2, <1>4, <2>1 DEF HandleSyn, AcquireFlow, HandleFin, ReleaseFlow, InPacket, sharedVars
  <2>2. CASE UpdateBytes(s)
    BY <1>2, <1>4, <2>2 DEF UpdateBytes, InPacket
  <2>3. CASE UndoBytes(s)
    <3> DEFINE emptied == [flow[Key(s)] EXCEPT !.held = 0]
    <3>1. wpc[s] = "undo" /\ flow' = [flow EXCEPT ![Key(s)] = emptied]
      BY <2>3 DEF UndoBytes
    <3> HIDE DEF emptied
    <3> QED
      BY <1>2, <1>4, <3>1 DEF InPacket
  <2>4. CASE EvictFlow(s) \/ FlushFlows(s)
    <3>1. \/ UNCHANGED flow
          \/ \E f \in Table(s) : flow' = [flow EXCEPT ![f] = NoFlow]
      BY <2>4 DEF EvictFlow, FlushFlows, ReleaseFlow, Idle, sharedVars
    <3> QED
      BY <1>2, <3>1 DEF Table, Live
  <2>5. CASE TakeCommand(s) \/ ReleaseBytes(s) \/ SendResult(s)
    BY <2>5 DEF TakeCommand, ReleaseBytes, SendResult, sharedVars
  <2> QED
    BY <2>1, <2>2, <2>3, <2>4, <2>5 DEF Worker
<1> QED
  BY <1>3, <1>5

(* What WorkerOwnsFlow and ReleaseRouted say of one worker.                *)
Owns(s) ==
    /\ wpc[s] \in InPacket => work[s].kind = "Packet" /\ ShardOf[Key(s)] = s
    /\ wpc[s] \in {"update", "undo", "fin"} => flow[Key(s)] # NoFlow

GoesOn(s) ==
    /\ wnext[s] \in {"recv", "acquire", "send", "evict", "flush"}
    /\ wpc[s] = "release" /\ wnext[s] \in InPacket =>
          work[s].kind = "Packet" /\ ShardOf[Key(s)] = s

LEMMA WorkerKeepsOwn ==
  ASSUME IInv, NEW s \in Shards, Worker(s)
  PROVE  Owns(s)' /\ GoesOn(s)'
<1>1. WorkerType /\ BudgetType /\ WorkerOwnsFlow /\ QueueRouted /\ ChannelType
  BY DEF IInv, TypeOK
<1>2. /\ wpc \in [Shards -> WorkerPc] /\ wnext \in [Shards -> WorkerPc]
      /\ work \in [Shards -> Command]
      /\ flow \in [Flows -> [held : Nat, last_seen : Nat] \cup {NoFlow}]
      /\ queue \in [Shards -> Seq(Command)]
  BY <1>1 DEF WorkerType, BudgetType, ChannelType
<1>3. Owns(s) /\ GoesOn(s)
  BY DEF IInv, WorkerOwnsFlow, ReleaseRouted, Owns, GoesOn
<1>4. wpc[s] \in InPacket => Key(s) \in Flows
  BY <1>1, OwnedTyped
<1>5. CASE TakeCommand(s)
  <2>1. queue[s] # <<>> /\ queue[s] \in Seq(Command)
    BY <1>2, <1>5 DEF TakeCommand
  <2>2. Head(queue[s]) = queue[s][1] /\ 1 \in 1 .. Len(queue[s])
    BY <2>1
  <2>3. Head(queue[s]).kind = "Packet" => ShardOf[Head(queue[s]).packet.flow] = s
    BY <1>1, <2>2 DEF QueueRouted
  <2>4. /\ work'[s] = Head(queue[s])
        /\ wpc'[s] = IF Head(queue[s]).kind = "Packet" THEN "syn" ELSE "evict"
        /\ wnext' = wnext
    BY <1>2, <1>5 DEF TakeCommand
  <2> QED
    BY <1>3, <2>3, <2>4 DEF Owns, GoesOn, InPacket, Key, Packet
<1>6. CASE HandleSyn(s)
  <2>1. /\ work'[s] = work[s] /\ wpc[s] = "syn"
        /\ \/ wpc'[s] = "release" /\ wnext'[s] = "acquire"
           \/ wpc'[s] = "acquire" /\ wnext'[s] = wnext[s]
    BY <1>2, <1>6 DEF HandleSyn, ReleaseFlow
  <2> QED
    BY <1>3, <2>1 DEF Owns, GoesOn, InPacket, Key, Packet
<1>7. CASE AcquireFlow(s)
  <2>1. /\ work'[s] = work[s] /\ wpc[s] = "acquire" /\ wnext' = wnext
        /\ \/ wpc'[s] = "update"
           \/ wpc'[s] = "send"
    BY <1>2, <1>7 DEF AcquireFlow
  <2>2. Key(s) \in Flows
    BY <1>4, <2>1 DEF InPacket
  <2>3. wpc'[s] = "update" => flow'[Key(s)] # NoFlow
    <3>1. CASE flow' = [flow EXCEPT ![Key(s)] = [held |-> 0, last_seen |-> Packet(s).at]]
      <4>1. Packet(s).at \in Nat
        BY <1>1, <2>1, OwnedTyped DEF InPacket, PacketType
      <4> QED
        BY <1>2, <2>2, <3>1, <4>1, PoolAssumption
    <3>2. CASE flow[Key(s)] # NoFlow /\ flow' = flow
      BY <3>2
    <3>3. CASE wpc' = [wpc EXCEPT ![s] = "send"]
      BY <1>2, <3>3
    <3> QED
      BY <1>7, <3>1, <3>2, <3>3 DEF AcquireFlow
  <2> QED
    BY <1>3, <2>1, <2>3 DEF Owns, GoesOn, InPacket, Key, Packet
<1>8. CASE UpdateBytes(s)
  <2>1. /\ work'[s] = work[s] /\ wpc[s] = "update" /\ wnext' = wnext
        /\ \/ wpc'[s] = "undo"
           \/ wpc'[s] = "fin"
    BY <1>2, <1>8 DEF UpdateBytes
  <2>2. Key(s) \in Flows
    BY <1>4, <2>1 DEF InPacket
  <2>3. PICK n : flow' = [flow EXCEPT ![Key(s)] = [held |-> n, last_seen |-> Packet(s).at]]
                 /\ n = Reassembled(flow[Key(s)].held, Packet(s)).held
    BY <1>8 DEF UpdateBytes
  <2>4. n \in Nat /\ Packet(s).at \in Nat
    BY <1>1, <2>1, <2>3, OwnedTyped, ReassembledTyped DEF InPacket, PacketType
  <2>5. flow'[Key(s)] # NoFlow
    BY <1>2, <2>2, <2>3, <2>4, PoolAssumption
  <2> QED
    BY <1>3, <2>1, <2>5 DEF Owns, GoesOn, InPacket, Key, Packet
<1>9. CASE UndoBytes(s)
  <2> DEFINE emptied == [flow[Key(s)] EXCEPT !.held = 0]
  <2>1. work' = work /\ wnext' = wnext /\ flow' = [flow EXCEPT ![Key(s)] = emptied]
    BY <1>9 DEF UndoBytes
  <2>2. wpc[s] = "undo" /\ wpc' = [wpc EXCEPT ![s] = "fin"]
    BY <1>9 DEF UndoBytes
  <2>3. Key(s) \in Flows /\ flow[Key(s)] # NoFlow
    BY <1>3, <1>4, <2>2 DEF InPacket, Owns
  <2>4. emptied \in [held : Nat, last_seen : Nat]
    BY <1>2, <2>3
  <2> HIDE DEF emptied
  <2>5. flow'[Key(s)] # NoFlow /\ wpc'[s] = "fin"
    BY <1>2, <2>1, <2>2, <2>3, <2>4, PoolAssumption
  <2> QED
    BY <1>3, <2>1, <2>2, <2>5 DEF Owns, GoesOn, InPacket, Key, Packet
<1>10. CASE HandleFin(s)
  <2>1. /\ work'[s] = work[s] /\ wpc[s] = "fin"
        /\ \/ wpc'[s] = "release" /\ wnext'[s] = "send"
           \/ wpc'[s] = "send" /\ wnext'[s] = wnext[s]
    BY <1>2, <1>10 DEF HandleFin, ReleaseFlow
  <2> QED
    BY <1>3, <2>1 DEF Owns, GoesOn, InPacket, Key, Packet
<1>11. CASE ReleaseBytes(s)
  <2>1. /\ work'[s] = work[s] /\ wpc[s] = "release" /\ wpc'[s] = wnext[s]
        /\ wnext'[s] = wnext[s]
    BY <1>2, <1>11 DEF ReleaseBytes
  <2> QED
    BY <1>3, <2>1 DEF Owns, GoesOn, InPacket, Key, Packet
<1>12. CASE SendResult(s)
  <2>1. wpc'[s] = "evict" /\ wnext'[s] = wnext[s]
    BY <1>2, <1>12 DEF SendResult
  <2> QED
    BY <1>3, <2>1 DEF Owns, GoesOn, InPacket
<1>13. CASE EvictFlow(s)
  <2>1. \/ wpc'[s] = "recv" /\ wnext'[s] = wnext[s]
        \/ wpc'[s] = "release" /\ wnext'[s] = "evict"
    BY <1>2, <1>13 DEF EvictFlow, ReleaseFlow
  <2> QED
    BY <1>3, <2>1 DEF Owns, GoesOn, InPacket
<1>14. CASE FlushFlows(s)
  <2>1. \/ wpc'[s] = "exited" /\ wnext'[s] = wnext[s]
        \/ wpc'[s] = "release" /\ wnext'[s] = "flush"
    BY <1>2, <1>14 DEF FlushFlows, ReleaseFlow
  <2> QED
    BY <1>3, <2>1 DEF Owns, GoesOn, InPacket
<1> QED
  BY <1>5, <1>6, <1>7, <1>8, <1>9, <1>10, <1>11, <1>12, <1>13, <1>14 DEF Worker

(* A queue only grows at its end, which is CommandQueued, or loses its     *)
(* head.                                                                   *)
LEMMA WorkerRoutes ==
  ASSUME IInv, NEW s \in Shards, Worker(s)
  PROVE  QueueRouted' /\ ReleaseRouted' /\ WorkerOwnsFlow'
<1>1. WorkerType /\ WorkerOwnsFlow /\ ReleaseRouted /\ QueueRouted /\ ChannelType
  BY DEF IInv, TypeOK
<1>2. Owns(s)' /\ GoesOn(s)'
  BY WorkerKeepsOwn
<1>3. ASSUME NEW t \in Shards, t # s
      PROVE  Owns(t)' /\ GoesOn(t)'
  <2>1. /\ wpc'[t] = wpc[t] /\ wnext'[t] = wnext[t] /\ work'[t] = work[t]
        /\ \A f \in Flows : ShardOf[f] = t => flow'[f] = flow[f]
    BY <1>3, WorkerStaysInShard
  <2>2. Owns(t) /\ GoesOn(t)
    BY <1>1 DEF WorkerOwnsFlow, ReleaseRouted, Owns, GoesOn
  <2>3. wpc[t] \in InPacket => Key(t) \in Flows
    BY <1>1, <2>2, WorkTyped DEF Owns
  <2> QED
    BY <2>1, <2>2, <2>3 DEF Owns, GoesOn, InPacket, Key, Packet
<1>4. ReleaseRouted' /\ WorkerOwnsFlow'
  <2>1. \A t \in Shards : Owns(t)' /\ GoesOn(t)'
    BY <1>2, <1>3
  <2> QED
    BY <2>1 DEF WorkerOwnsFlow, ReleaseRouted, Owns, GoesOn
<1>5. QueueRouted'
  <2>1. queue \in [Shards -> Seq(Command)]
    BY <1>1 DEF ChannelType
  <2>2. CASE UNCHANGED queue
    BY <1>1, <2>2 DEF QueueRouted
  <2>3. CASE TakeCommand(s)
    <3>1. /\ queue[s] # <<>> /\ queue[s] \in Seq(Command)
          /\ queue' = [queue EXCEPT ![s] = Tail(queue[s])]
      BY <2>1, <2>3 DEF TakeCommand
    <3>2. \A i \in 1 .. Len(Tail(queue[s])) :
             /\ i + 1 \in 1 .. Len(queue[s])
             /\ Tail(queue[s])[i] = queue[s][i + 1]
      BY <3>1
    <3>3. \A i \in 1 .. Len(queue'[s]) : queue'[s][i].kind = "Packet" =>
             ShardOf[queue'[s][i].packet.flow] = s
      BY <1>1, <2>1, <3>1, <3>2 DEF QueueRouted
    <3>4. \A t \in Shards : t # s => queue'[t] = queue[t]
      BY <2>1, <3>1
    <3> QED
      BY <1>1, <3>3, <3>4 DEF QueueRouted
  <2> QED
    BY <2>2, <2>3 DEF Worker, HandleSyn, AcquireFlow, UpdateBytes, UndoBytes, HandleFin,
       ReleaseBytes, SendResult, EvictFlow, FlushFlows
<1> QED
  BY <1>4, <1>5

LEMMA InvStep == IInv /\ [Next]_vars => IInv'
<1> SUFFICES ASSUME IInv, [Next]_vars PROVE IInv'
  OBVIOUS
<1>1. CASE CaptureThread
  BY <1>1, CaptureThreadType, CaptureThreadPlaces, CaptureThreadRoutes DEF IInv
<1>2. ASSUME NEW s \in Shards, Worker(s)
      PROVE  IInv'
  <2>1. TypeOK' /\ QueueRouted' /\ ReleaseRouted' /\ WorkerOwnsFlow'
    BY <1>2, WorkerStepType, WorkerRoutes
  <2>2. UNCHANGED captureVars
    BY <1>2 DEF Worker, TakeCommand, HandleSyn, AcquireFlow, UpdateBytes, UndoBytes,
       HandleFin, ReleaseBytes, SendResult, EvictFlow, FlushFlows, captureSide
  <2>3. CaptureInv'
    BY <2>2 DEF IInv, CaptureInv, Goes, captureVars
  <2> QED
    BY <2>1, <2>3 DEF IInv
<1>3. CASE UNCHANGED vars
  <2> USE <1>3 DEF vars, captureVars, outVars, workerVars, sharedVars, IInv
  <2>1. CaptureType' /\ ChannelType'
    BY DEF TypeOK, CaptureType, ChannelType
  <2>2. WorkerType' /\ ReportType' /\ BudgetType'
    BY DEF TypeOK, WorkerType, ReportType, BudgetType
  <2>3. CaptureInv' /\ QueueRouted'
    BY DEF CaptureInv, Goes, QueueRouted
  <2>4. ReleaseRouted' /\ WorkerOwnsFlow'
    BY DEF ReleaseRouted, WorkerOwnsFlow, Key, Packet
  <2> QED
    BY <2>1, <2>2, <2>3, <2>4 DEF TypeOK
<1> QED
  BY <1>1, <1>2, <1>3 DEF Next, Terminated

LEMMA Invariance == Spec => []IInv
<1> QED
  BY InitInv, InvStep, PTL DEF Spec

(* Every variable of the capture thread, the channels, the workers and the *)
(* shared budget keeps its type.                                           *)
THEOREM TypeCorrect == Spec => []TypeOK
<1>1. IInv => TypeOK
  BY DEF IInv
<1> QED
  BY <1>1, Invariance, PTL

(* handle_packet_work may take its flow for granted: no other worker, no   *)
(* eviction and no flush removes the flow of a packet amid its handling.   *)
THEOREM WorkerOwnership == Spec => []WorkerOwnsFlow
<1>1. IInv => WorkerOwnsFlow
  BY DEF IInv
<1> QED
  BY <1>1, Invariance, PTL
-----------------------------------------------------------------------------
(* The flow counter.                                                       *)

LEMMA LiveFinite == IsFiniteSet(Live) /\ Cardinality(Live) \in Nat
<1>1. IsFiniteSet(Live)
  BY PoolAssumption, FS_Subset DEF Live
<1> QED
  BY <1>1, FS_CardinalityType

LEMMA ReleaseCounted ==
  ASSUME BudgetType, FlowsCounted, NEW s, NEW where, NEW f \in Flows, flow[f] # NoFlow,
         ReleaseFlow(s, f, where)
  PROVE  FlowsCounted' /\ Cardinality(Live') <= Cardinality(Live)
<1>1. flow' = [flow EXCEPT ![f] = NoFlow] /\ flows' = flows - 1
  BY DEF ReleaseFlow
<1>2. f \in Live /\ Live' = Live \ {f}
  BY <1>1 DEF BudgetType, Live
<1>3. Cardinality(Live') = Cardinality(Live) - 1
  BY <1>2, LiveFinite, FS_RemoveElement
<1> QED
  BY <1>1, <1>3, LiveFinite DEF FlowsCounted

LEMMA CountedStep ==
  ASSUME IInv, [Next]_vars, FlowsCounted, FlowLimit
  PROVE  FlowsCounted' /\ FlowLimit'
<1>1. BudgetType /\ WorkerType /\ WorkerOwnsFlow
  BY DEF IInv, TypeOK
<1>2. flow \in [Flows -> [held : Nat, last_seen : Nat] \cup {NoFlow}]
  BY <1>1 DEF BudgetType
<1>3. MaxFlows \in Nat /\ NoFlow \notin [held : Nat, last_seen : Nat]
  BY PoolAssumption
<1>4. CASE Live' = Live /\ UNCHANGED flows
  BY <1>4 DEF FlowsCounted, FlowLimit
<1>5. CASE UNCHANGED <<flow, flows>>
  BY <1>4, <1>5 DEF Live
<1>6. ASSUME NEW s, NEW where, NEW f \in Flows, flow[f] # NoFlow, ReleaseFlow(s, f, where)
      PROVE  FlowsCounted' /\ FlowLimit'
  <2>1. FlowsCounted' /\ Cardinality(Live') <= Cardinality(Live)
    BY <1>1, <1>6, ReleaseCounted
  <2>2. Cardinality(Live) \in Nat /\ Cardinality(Live') \in Nat
    <3>1. Live' \subseteq Flows
      BY DEF Live
    <3> QED
      BY <3>1, LiveFinite, PoolAssumption, FS_Subset, FS_CardinalityType
  <2> QED
    BY <1>3, <2>1, <2>2 DEF FlowLimit
<1>7. ASSUME NEW s \in Shards, Worker(s)
      PROVE  FlowsCounted' /\ FlowLimit'
  <2>0. wpc[s] \in InPacket => Key(s) \in Flows
    BY <1>1, OwnedTyped
  <2>1. CASE HandleSyn(s)
    <3>1. Key(s) \in Flows
      BY <2>0, <2>1 DEF HandleSyn, InPacket
    <3> QED
      BY <1>5, <1>6, <2>1, <3>1 DEF HandleSyn, sharedVars
  <2>2. CASE AcquireFlow(s)
    <3>1. Key(s) \in Flows /\ Packet(s).at \in Nat
      BY <1>1, <2>2, OwnedTyped DEF AcquireFlow, InPacket, PacketType
    <3>2. CASE /\ flow[Key(s)] = NoFlow /\ MayAcquire
               /\ flow' = [flow EXCEPT ![Key(s)] = [held |-> 0, last_seen |-> Packet(s).at]]
               /\ flows' = flows + 1
      <4>1. Key(s) \notin Live /\ Live' = Live \cup {Key(s)}
        BY <1>2, <1>3, <3>1, <3>2 DEF Live
      <4>2. Cardinality(Live') = Cardinality(Live) + 1
        BY <4>1, LiveFinite, FS_AddElement
      <4> QED
        BY <1>3, <3>2, <4>2, LiveFinite DEF FlowsCounted, FlowLimit, MayAcquire
    <3> QED
      BY <1>5, <2>2, <3>2 DEF AcquireFlow
  <2>3. CASE UpdateBytes(s)
    <3>1. wpc[s] = "update" /\ flows' = flows
      BY <2>3 DEF UpdateBytes
    <3>2. Key(s) \in Flows /\ flow[Key(s)] # NoFlow /\ flow[Key(s)].held \in Nat
          /\ Packet(s) \in PacketType /\ Packet(s).at \in Nat
      BY <1>1, <3>1, OwnedTyped DEF InPacket, PacketType
    <3>3. PICK n : flow' = [flow EXCEPT ![Key(s)] = [held |-> n, last_seen |-> Packet(s).at]]
                   /\ n = Reassembled(flow[Key(s)].held, Packet(s)).held
      BY <2>3 DEF UpdateBytes
    <3>4. n \in Nat
      BY <3>2, <3>3, ReassembledTyped
    <3>5. Live' = Live
      BY <1>2, <1>3, <3>2, <3>3, <3>4 DEF Live
    <3> QED
      BY <1>4, <3>1, <3>5
  <2>4. CASE UndoBytes(s)
    <3> DEFINE emptied == [flow[Key(s)] EXCEPT !.held = 0]
    <3>1. wpc[s] = "undo" /\ flows' = flows /\ flow' = [flow EXCEPT ![Key(s)] = emptied]
      BY <2>4 DEF UndoBytes
    <3>2. Key(s) \in Flows /\ flow[Key(s)] # NoFlow
      BY <1>1, <3>1, OwnedTyped DEF InPacket
    <3>3. emptied \in [held : Nat, last_seen : Nat]
      BY <1>2, <3>2
    <3> HIDE DEF emptied
    <3>4. Live' = Live
      BY <1>2, <1>3, <3>1, <3>2, <3>3 DEF Live
    <3> QED
      BY <1>4, <3>1, <3>4
  <2>5. CASE HandleFin(s)
    <3>1. Key(s) \in Flows /\ flow[Key(s)] # NoFlow
      BY <1>1, <2>5, OwnedTyped DEF HandleFin, InPacket
    <3> QED
      BY <1>5, <1>6, <2>5, <3>1 DEF HandleFin, sharedVars
  <2>6. CASE EvictFlow(s) \/ FlushFlows(s)
    <3>1. \/ UNCHANGED <<flow, flows>>
          \/ \E f \in Live : ReleaseFlow(s, f, "evict") \/ ReleaseFlow(s, f, "flush")
      BY <2>6 DEF EvictFlow, FlushFlows, Idle, Table, sharedVars
    <3> QED
      BY <1>5, <1>6, <3>1 DEF Live
  <2>7. CASE TakeCommand(s) \/ ReleaseBytes(s) \/ SendResult(s)
    BY <1>5, <2>7 DEF TakeCommand, ReleaseBytes, SendResult, sharedVars
  <2> QED
    BY <1>7, <2>1, <2>2, <2>3, <2>4, <2>5, <2>6, <2>7 DEF Worker
<1>8. CASE CaptureThread
  BY <1>5, <1>8 DEF CaptureThread, ReadPacket, SendSweep, DecodePacket, SubmitPacket,
     EndOfInput, DropSender, JoinWorker, ReceiveResult, WriteResult, WriteFails, Drained,
     Exit, sharedVars
<1>9. CASE UNCHANGED vars
  BY <1>5, <1>9 DEF vars, sharedVars
<1> QED
  BY <1>7, <1>8, <1>9 DEF Next, Terminated

(* --max-flows is never exceeded, whatever the workers' interleaving,      *)
(* since the atomic counter is at every moment the number of flows.        *)
THEOREM FlowsBounded == Spec => [](FlowsCounted /\ FlowLimit)
<1>1. Init => FlowsCounted /\ FlowLimit
  <2> SUFFICES ASSUME Init PROVE FlowsCounted /\ FlowLimit
    OBVIOUS
  <2>1. Live = {}
    BY DEF Init, Live
  <2> QED
    BY <2>1, FS_EmptySet, PoolAssumption DEF Init, FlowsCounted, FlowLimit
<1>2. IInv /\ [Next]_vars /\ FlowsCounted /\ FlowLimit => (FlowsCounted /\ FlowLimit)'
  BY CountedStep
<1> QED
  BY <1>1, <1>2, Invariance, PTL DEF Spec

(* ResourceBudget.flows, on its own: no interleaving of try_acquire_flow   *)
(* and release_flow makes the counter differ from the tables.              *)
THEOREM FlowCounterExact == Spec => []FlowsCounted
BY FlowsBounded, PTL
-----------------------------------------------------------------------------
(* Results are written in the order of the packets: the output is the      *)
(* results numbered 0, 1, 2, ... whatever order the workers send them in.  *)
THEOREM OutputOrder == Spec => []OutputInOrder
<1>1. Init => OutputInOrder
  BY DEF Init, OutputInOrder
<1>2. IInv /\ [Next]_vars /\ OutputInOrder => OutputInOrder'
  <2> SUFFICES ASSUME IInv, [Next]_vars, OutputInOrder PROVE OutputInOrder'
    OBVIOUS
  <2>1. out \in Seq(Result) /\ next_output_index \in Nat
    BY DEF IInv, TypeOK, ChannelType
  <2>2. CASE UNCHANGED <<out, next_output_index>>
    BY <2>2 DEF OutputInOrder
  <2>3. CASE WriteResult
    <3>1. PICK r \in Due : out' = Append(out, r) /\ next_output_index' = next_output_index + 1
      BY <2>3 DEF WriteResult
    <3>2. r \in Result /\ r.index = next_output_index
      BY <3>1 DEF Due, IInv, TypeOK, ChannelType
    <3> QED
      BY <2>1, <3>1, <3>2 DEF OutputInOrder
  <2>4. ASSUME NEW s \in Shards, Worker(s) PROVE OutputInOrder'
    BY <2>2, <2>4 DEF Worker, TakeCommand, HandleSyn, AcquireFlow, UpdateBytes, UndoBytes,
       HandleFin, ReleaseBytes, SendResult, EvictFlow, FlushFlows, captureSide, outVars
  <2> QED
    BY <2>2, <2>3, <2>4 DEF Next, CaptureThread, ReadPacket, SendSweep, DecodePacket,
       SubmitPacket, EndOfInput, DropSender, JoinWorker, ReceiveResult, WriteFails, Drained,
       Exit, Terminated, vars, outVars
<1> QED
  BY <1>1, <1>2, Invariance, PTL DEF Spec

-----------------------------------------------------------------------------
(* The byte counter.  The sums of ShardPoolReference, as sums of functions *)
(* over all flows and all shards.                                          *)
HeldOf(fl) == [f \in Flows |-> IF fl[f] = NoFlow THEN 0 ELSE fl[f].held]

LEMMA SumOfHeld ==
  ASSUME NEW fl, \A f \in Flows : HeldOf(fl)[f] \in Nat
  PROVE  HeldBy(fl, Flows) = SumFunctionOnSet(HeldOf(fl), Flows)
<1> DEFINE Rule(T, k) == [s \in SUBSET T |->
                             IF s = {} THEN 0
                             ELSE LET x == CHOOSE y \in s : TRUE IN fl[x].held + k[s \ {x}]]
<1>1. PICK h : h = HeldOf(fl)
  OBVIOUS
<1>2. PICK T \in SUBSET Flows : T = {f \in Flows : fl[f] # NoFlow}
  OBVIOUS
<1>3. IsFiniteSet(T) /\ IsFiniteSet(Flows)
  BY PoolAssumption, FS_Subset
<1>4. HeldBy(fl, Flows) = (CHOOSE k : k = Rule(T, k))[T]
  BY <1>2 DEF HeldBy, MapThenSumSet, MapThenFoldSet
<1>5. \A x \in T : h[x] = fl[x].held /\ h[x] \in Nat
  BY <1>1, <1>2 DEF HeldOf
<1>6. ASSUME NEW k PROVE Rule(T, k) = SumRule(h, T, k)
  <2>1. \A s \in SUBSET T : s # {} => (CHOOSE y \in s : TRUE) \in T
    OBVIOUS
  <2> QED
    BY <1>5, <2>1 DEF SumRule
<1>7. PICK g : Sums(h, T, g)
  BY <1>3, <1>5, SumExists
<1>8. PICK k : k = Rule(T, k) /\ HeldBy(fl, Flows) = k[T]
  <2>1. g = Rule(T, g)
    BY <1>6, <1>7 DEF Sums
  <2> HIDE DEF Rule
  <2> QED
    BY <1>4, <2>1
<1>9. k = SumRule(h, T, k)
  BY <1>6, <1>8
<1>10. SumFunctionOnSet(h, T) = k[T]
  BY <1>3, <1>5, <1>9, SumIs
<1>11. SumFunctionOnSet(h, Flows) = SumFunctionOnSet(h, T)
  <2>1. \A f \in Flows \ T : h[f] = 0
    BY <1>1, <1>2 DEF HeldOf
  <2> QED
    BY <1>1, <1>3, <2>1, SumOnSupport
<1> QED
  BY <1>1, <1>8, <1>10, <1>11

LEMMA SumOfOwed ==
  ASSUME \A s \in Shards : owed[s] \in Nat
  PROVE  MapThenSumSet(LAMBDA s : owed[s], Shards) = SumFunctionOnSet(owed, Shards)
BY DEF MapThenSumSet, MapThenFoldSet, SumFunctionOnSet, FoldFunctionOnSet

(* What a worker that exceeded --max-total-bytes is about to take off.     *)
Excess == [s \in Shards |-> IF wpc[s] = "undo" THEN flow[Key(s)].held ELSE 0]

HeldTotal   == SumFunctionOnSet(HeldOf(flow), Flows)
OwedTotal   == SumFunctionOnSet(owed, Shards)
ExcessTotal == SumFunctionOnSet(Excess, Shards)

BytesInv ==
    /\ \A s \in Shards : wpc[s] # "release" => owed[s] = 0
    /\ buffered_bytes = HeldTotal + OwedTotal
    /\ buffered_bytes <= MaxTotalBytes + ExcessTotal

LEMMA ShardsFinite == IsFiniteSet(Shards) /\ IsFiniteSet(Flows) /\ MaxTotalBytes \in Nat
  BY PoolAssumption, FS_Interval DEF Shards

LEMMA HeldTyped ==
  ASSUME BudgetType
  PROVE  \A f \in Flows : HeldOf(flow)[f] \in Nat
  BY DEF BudgetType, HeldOf

LEMMA ExcessTyped ==
  ASSUME IInv
  PROVE  \A s \in Shards : Excess[s] \in Nat
<1> SUFFICES ASSUME NEW s \in Shards PROVE Excess[s] \in Nat
  OBVIOUS
<1>1. wpc[s] = "undo" => flow[Key(s)].held \in Nat
  BY OwnedTyped DEF IInv, TypeOK, InPacket
<1> QED
  BY <1>1 DEF Excess

LEMMA TotalsTyped ==
  ASSUME IInv
  PROVE  HeldTotal \in Nat /\ OwedTotal \in Nat /\ ExcessTotal \in Nat /\ buffered_bytes \in Int
<1>1. BudgetType
  BY DEF IInv, TypeOK
<1>2. HeldTotal \in Nat
  BY <1>1, HeldTyped, ShardsFinite, SumOverSet DEF HeldTotal
<1>3. OwedTotal \in Nat
  <2>1. \A s \in Shards : owed[s] \in Nat
    BY <1>1 DEF BudgetType
  <2> QED
    BY <2>1, ShardsFinite, SumOverSet DEF OwedTotal
<1>4. ExcessTotal \in Nat
  BY ExcessTyped, ShardsFinite, SumOverSet DEF ExcessTotal
<1> QED
  BY <1>1, <1>2, <1>3, <1>4 DEF BudgetType

(* One flow changes, one worker's debt, one worker's excess.               *)
LEMMA HeldMoves ==
  ASSUME BudgetType, BudgetType', NEW f \in Flows,
         \A g \in Flows \ {f} : flow'[g] = flow[g]
  PROVE  HeldTotal' = HeldTotal - HeldOf(flow)[f] + HeldOf(flow')[f]
<1>1. PICK h : h = HeldOf(flow)
  OBVIOUS
<1>2. PICK k : k = HeldOf(flow')
  OBVIOUS
<1>3. \A g \in Flows : h[g] \in Nat /\ k[g] \in Nat
  BY <1>1, <1>2 DEF BudgetType, HeldOf
<1>4. \A g \in Flows \ {f} : k[g] = h[g]
  BY <1>1, <1>2 DEF HeldOf
<1>5. SumFunctionOnSet(k, Flows) = SumFunctionOnSet(h, Flows) - h[f] + k[f]
  BY <1>3, <1>4, ShardsFinite, SumChangesAt
<1> QED
  BY <1>1, <1>2, <1>5 DEF HeldTotal

LEMMA ShardSumMoves ==
  ASSUME NEW h, NEW k, NEW s \in Shards,
         \A t \in Shards : h[t] \in Nat /\ k[t] \in Nat, \A t \in Shards \ {s} : k[t] = h[t]
  PROVE  SumFunctionOnSet(k, Shards) = SumFunctionOnSet(h, Shards) - h[s] + k[s]
  BY ShardsFinite, SumChangesAt

LEMMA OwedMoves ==
  ASSUME BudgetType, BudgetType', NEW s \in Shards,
         \A t \in Shards \ {s} : owed'[t] = owed[t]
  PROVE  OwedTotal' = OwedTotal - owed[s] + owed'[s]
<1>1. PICK h : h = owed
  OBVIOUS
<1>2. PICK k : k = owed'
  OBVIOUS
<1>3. \A t \in Shards : h[t] \in Nat /\ k[t] \in Nat
  BY <1>1, <1>2 DEF BudgetType
<1>4. \A t \in Shards \ {s} : k[t] = h[t]
  BY <1>1, <1>2
<1>5. SumFunctionOnSet(k, Shards) = SumFunctionOnSet(h, Shards) - h[s] + k[s]
  BY <1>3, <1>4, ShardSumMoves
<1> QED
  BY <1>1, <1>2, <1>5 DEF OwedTotal

LEMMA ExcessTypedNext ==
  ASSUME IInv'
  PROVE  \A t \in Shards : Excess'[t] \in Nat
<1> SUFFICES ASSUME NEW t \in Shards PROVE Excess'[t] \in Nat
  OBVIOUS
<1>1. WorkerType' /\ BudgetType' /\ WorkerOwnsFlow'
  BY DEF IInv, TypeOK
<1>2. CASE wpc'[t] = "undo"
  <2>1. work'[t].kind = "Packet" /\ flow'[Key(t)'] # NoFlow
    BY <1>1, <1>2 DEF WorkerOwnsFlow, InPacket
  <2>2. work'[t] \in [kind : {"Packet"}, index : Nat, packet : Packets, now : Nat]
    BY <1>1, <2>1 DEF WorkerType, Command
  <2>3. Key(t)' \in Flows
    BY <2>2 DEF Key, Packet, PacketType
  <2>4. flow'[Key(t)'].held \in Nat
    BY <1>1, <2>1, <2>3 DEF BudgetType
  <2> QED
    BY <1>2, <2>4 DEF Excess
<1>3. CASE wpc'[t] # "undo"
  BY <1>3 DEF Excess
<1> QED
  BY <1>2, <1>3

LEMMA ExcessMoves ==
  ASSUME IInv, IInv', NEW s \in Shards, Worker(s)
  PROVE  ExcessTotal' = ExcessTotal - Excess[s] + Excess'[s]
<1>1. PICK h : h = Excess
  OBVIOUS
<1>2. PICK k : k = Excess'
  OBVIOUS
<1>3. \A t \in Shards : h[t] \in Nat /\ k[t] \in Nat
  BY <1>1, <1>2, ExcessTyped, ExcessTypedNext
<1>4. ASSUME NEW t \in Shards \ {s} PROVE k[t] = h[t]
  <2>1. /\ wpc'[t] = wpc[t] /\ work'[t] = work[t]
        /\ \A f \in Flows : ShardOf[f] = t => flow'[f] = flow[f]
    BY WorkerStaysInShard
  <2>2. wpc[t] = "undo" => Key(t) \in Flows /\ ShardOf[Key(t)] = t
    BY OwnedTyped DEF IInv, TypeOK, InPacket
  <2>3. Key(t)' = Key(t)
    BY <2>1 DEF Key, Packet
  <2>4. CASE wpc[t] = "undo"
    <3>1. flow'[Key(t)'] = flow[Key(t)]
      BY <2>1, <2>2, <2>3, <2>4
    <3> QED
      BY <1>1, <1>2, <2>1, <2>4, <3>1 DEF Excess
  <2>5. CASE wpc[t] # "undo"
    BY <1>1, <1>2, <2>1, <2>5 DEF Excess
  <2> QED
    BY <2>4, <2>5
<1>5. SumFunctionOnSet(k, Shards) = SumFunctionOnSet(h, Shards) - h[s] + k[s]
  BY <1>3, <1>4, ShardsFinite, SumChangesAt
<1> QED
  BY <1>1, <1>2, <1>5 DEF ExcessTotal

(* The arithmetic of the limit.                                            *)
LEMMA LimitMoves ==
  ASSUME NEW limit \in Nat, NEW x \in Nat, NEW y \in Nat, NEW e \in Nat, NEW f \in Nat,
         NEW n \in Int, NEW b \in Int, n <= limit + x, y = x - e + f, b <= f - e
  PROVE  n + b <= limit + y
OBVIOUS

(* The ledger: what leaves a table goes to the worker's debt, what leaves  *)
(* the debt leaves the counter; and the counter only passes the limit by   *)
(* what a worker knows it has to take off.                                 *)
LEMMA Balance ==
  ASSUME IInv, IInv', BytesInv, NEW s \in Shards, Worker(s),
         NEW b \in Int, NEW d \in Int, buffered_bytes' = buffered_bytes + b,
         HeldTotal' = HeldTotal + d, b = d + owed'[s] - owed[s],
         \A t \in Shards \ {s} : owed'[t] = owed[t],
         wpc'[s] # "release" => owed'[s] = 0,
         b <= Excess'[s] - Excess[s] \/ buffered_bytes' <= MaxTotalBytes
  PROVE  BytesInv'
<1>1. BudgetType /\ BudgetType'
  BY DEF IInv, TypeOK
<1>2. owed[s] \in Nat /\ owed'[s] \in Nat
  BY <1>1 DEF BudgetType
<1>3. HeldTotal \in Nat /\ OwedTotal \in Nat /\ ExcessTotal \in Nat /\ buffered_bytes \in Int
  BY TotalsTyped
<1>4. OwedTotal' = OwedTotal - owed[s] + owed'[s]
  BY <1>1, OwedMoves
<1>5. buffered_bytes' = HeldTotal' + OwedTotal'
  <2>1. buffered_bytes = HeldTotal + OwedTotal
    BY DEF BytesInv
  <2> QED
    BY <1>2, <1>3, <1>4, <2>1
<1>6. \A t \in Shards : wpc'[t] # "release" => owed'[t] = 0
  <2>1. \A t \in Shards \ {s} : wpc'[t] = wpc[t]
    BY WorkerStaysInShard
  <2> QED
    BY <2>1 DEF BytesInv
<1>7. ExcessTotal' = ExcessTotal - Excess[s] + Excess'[s] /\ Excess[s] \in Nat /\ Excess'[s] \in Nat
  BY ExcessMoves, ExcessTyped, ExcessTypedNext
<1>8. ExcessTotal' \in Nat
  BY ExcessTypedNext, ShardsFinite, SumOverSet DEF ExcessTotal
<1>9. buffered_bytes' <= MaxTotalBytes + ExcessTotal'
  <2>1. buffered_bytes <= MaxTotalBytes + ExcessTotal /\ MaxTotalBytes \in Nat
    BY ShardsFinite DEF BytesInv
  <2>2. PICK e \in Nat, f \in Nat, x \in Nat, y \in Nat :
           e = Excess[s] /\ f = Excess'[s] /\ x = ExcessTotal /\ y = ExcessTotal'
    BY <1>3, <1>7, <1>8
  <2>3. CASE b <= Excess'[s] - Excess[s]
    <3>1. y = x - e + f /\ b <= f - e
      BY <1>7, <2>2, <2>3
    <3>2. PICK n \in Int : n = buffered_bytes
      BY <1>3
    <3>3. PICK limit \in Nat : limit = MaxTotalBytes
      BY <2>1
    <3>4. n <= limit + x
      BY <2>1, <2>2, <3>2, <3>3
    <3>5. n + b <= limit + y
      BY <3>1, <3>4, LimitMoves
    <3> QED
      BY <2>2, <3>2, <3>3, <3>5
  <2>4. CASE buffered_bytes' <= MaxTotalBytes
    BY <1>3, <1>8, <2>1, <2>4
  <2> QED
    BY <2>3, <2>4
<1> QED
  BY <1>5, <1>6, <1>9 DEF BytesInv

(* The steps of a worker that move no bytes.                               *)
LEMMA NothingMoves ==
  ASSUME IInv, IInv', BytesInv, NEW s \in Shards, Worker(s), UNCHANGED <<owed, buffered_bytes>>,
         HeldTotal' = HeldTotal, wpc[s] \notin {"release", "undo"}, wpc'[s] # "undo"
  PROVE  BytesInv'
<1>1. owed[s] = 0
  BY DEF BytesInv
<1>2. Excess[s] = 0 /\ Excess'[s] = 0
  BY DEF Excess
<1>3. HeldTotal \in Nat /\ buffered_bytes \in Int
  BY TotalsTyped
<1>4. PICK z : z = 0
  OBVIOUS
<1>5. /\ buffered_bytes' = buffered_bytes + z /\ HeldTotal' = HeldTotal + z
      /\ z = z + owed'[s] - owed[s] /\ z <= Excess'[s] - Excess[s] /\ z \in Int
      /\ wpc'[s] # "release" => owed'[s] = 0
      /\ \A t \in Shards \ {s} : owed'[t] = owed[t]
  BY <1>1, <1>2, <1>3, <1>4
<1> QED
  BY <1>5, Balance

LEMMA ReleaseMoves ==
  ASSUME IInv, IInv', BytesInv, NEW s \in Shards, Worker(s), NEW f \in Flows, flow[f] # NoFlow,
         NEW where, ReleaseFlow(s, f, where), wpc[s] \notin {"release", "undo"}
  PROVE  BytesInv'
<1>1. BudgetType /\ BudgetType' /\ wpc \in [Shards -> WorkerPc]
  BY DEF IInv, TypeOK, WorkerType
<1>2. /\ flow' = [flow EXCEPT ![f] = NoFlow] /\ owed' = [owed EXCEPT ![s] = flow[f].held]
      /\ wpc' = [wpc EXCEPT ![s] = "release"] /\ UNCHANGED buffered_bytes
  BY DEF ReleaseFlow
<1>3. /\ owed[s] = 0 /\ owed'[s] = flow[f].held /\ flow[f].held \in Nat
      /\ \A t \in Shards \ {s} : owed'[t] = owed[t]
  BY <1>1, <1>2 DEF BytesInv, BudgetType
<1>4. wpc'[s] = "release" /\ Excess[s] = 0 /\ Excess'[s] = 0
  BY <1>1, <1>2 DEF Excess
<1>5. HeldTotal' = HeldTotal - flow[f].held
  <2>1. \A g \in Flows \ {f} : flow'[g] = flow[g]
    BY <1>1, <1>2 DEF BudgetType
  <2>2. HeldOf(flow)[f] = flow[f].held /\ HeldOf(flow')[f] = 0
    BY <1>1, <1>2 DEF HeldOf, BudgetType
  <2>3. HeldTotal \in Nat
    BY TotalsTyped
  <2>4. HeldTotal' = HeldTotal - HeldOf(flow)[f] + HeldOf(flow')[f]
    BY <1>1, <2>1, HeldMoves
  <2> QED
    BY <1>3, <2>2, <2>3, <2>4
<1>6. HeldTotal \in Nat /\ buffered_bytes \in Int
  BY TotalsTyped
<1>7. PICK h : h = flow[f].held
  OBVIOUS
<1>8. PICK z, d : z = 0 /\ d = 0 - h
  OBVIOUS
<1>9. z \in Int /\ d \in Int /\ h \in Nat
  BY <1>3, <1>7, <1>8
<1>10. buffered_bytes' = buffered_bytes + z
  BY <1>2, <1>6, <1>8
<1>11. HeldTotal' = HeldTotal + d
  BY <1>5, <1>6, <1>7, <1>8, <1>9
<1>12. z = d + owed'[s] - owed[s]
  BY <1>3, <1>7, <1>8
<1>13. z <= Excess'[s] - Excess[s]
  BY <1>4, <1>8
<1> QED
  BY <1>3, <1>4, <1>9, <1>10, <1>11, <1>12, <1>13, Balance

(* The steps of a worker that do not touch a flow table.                   *)
LEMMA BytesElsewhere ==
  ASSUME IInv, IInv', BytesInv, NEW s \in Shards, Worker(s),
         UNCHANGED <<flow, owed, buffered_bytes>>,
         wpc[s] \notin {"release", "undo"}, wpc'[s] # "undo"
  PROVE  BytesInv'
<1>1. HeldTotal' = HeldTotal
  BY DEF HeldTotal
<1> QED
  BY <1>1, NothingMoves

LEMMA BytesAcquire ==
  ASSUME IInv, IInv', BytesInv, NEW s \in Shards, AcquireFlow(s)
  PROVE  BytesInv'
<1>0. Worker(s)
  BY DEF Worker
<1>1. /\ BudgetType /\ BudgetType' /\ WorkerType /\ WorkerOwnsFlow
      /\ wpc \in [Shards -> WorkerPc]
      /\ flow \in [Flows -> [held : Nat, last_seen : Nat] \cup {NoFlow}]
  BY DEF IInv, TypeOK, WorkerType, BudgetType
<1>2. wpc[s] = "acquire" /\ UNCHANGED <<owed, buffered_bytes>>
  BY DEF AcquireFlow
<1>3. wpc'[s] # "undo"
  BY <1>1 DEF AcquireFlow
<1>4. Key(s) \in Flows /\ Packet(s).at \in Nat
  BY <1>1, <1>2, OwnedTyped DEF InPacket, PacketType
<1>5. CASE /\ flow[Key(s)] = NoFlow
           /\ flow' = [flow EXCEPT ![Key(s)] = [held |-> 0, last_seen |-> Packet(s).at]]
  <2>1. \A g \in Flows \ {Key(s)} : flow'[g] = flow[g]
    BY <1>1, <1>4, <1>5
  <2>2. HeldTotal' = HeldTotal - HeldOf(flow)[Key(s)] + HeldOf(flow')[Key(s)]
    BY <1>1, <1>4, <2>1, HeldMoves
  <2>3. HeldOf(flow)[Key(s)] = 0
    BY <1>4, <1>5 DEF HeldOf
  <2>4. HeldOf(flow')[Key(s)] = 0
    BY <1>1, <1>4, <1>5 DEF HeldOf
  <2>5. HeldTotal' = HeldTotal
    BY <2>2, <2>3, <2>4, TotalsTyped
  <2> QED
    BY <1>0, <1>2, <1>3, <2>5, NothingMoves
<1>6. CASE UNCHANGED flow
  BY <1>0, <1>2, <1>3, <1>6, BytesElsewhere
<1> QED
  BY <1>5, <1>6 DEF AcquireFlow

(* update_buffered_bytes: what a flow gains the counter gains.             *)
LEMMA BytesUpdate ==
  ASSUME IInv, IInv', BytesInv, NEW s \in Shards, UpdateBytes(s)
  PROVE  BytesInv'
<1>0. Worker(s)
  BY DEF Worker
<1>1. /\ BudgetType /\ BudgetType' /\ WorkerType /\ WorkerOwnsFlow
      /\ wpc \in [Shards -> WorkerPc]
      /\ flow \in [Flows -> [held : Nat, last_seen : Nat] \cup {NoFlow}]
  BY DEF IInv, TypeOK, WorkerType, BudgetType
<1>2. wpc[s] = "update" /\ owed' = owed
  BY DEF UpdateBytes
<1>3. /\ Key(s) \in Flows /\ flow[Key(s)] # NoFlow /\ flow[Key(s)].held \in Nat
      /\ Packet(s) \in PacketType
  BY <1>1, <1>2, OwnedTyped DEF InPacket
<1>4. PICK before, n : /\ before = flow[Key(s)].held
                       /\ n = Reassembled(before, Packet(s)).held
  OBVIOUS
<1>5. before \in Nat /\ n \in Nat
  BY <1>3, <1>4, ReassembledTyped
<1>6. /\ flow' = [flow EXCEPT ![Key(s)] = [held |-> n, last_seen |-> Packet(s).at]]
      /\ buffered_bytes' = buffered_bytes + n - before
      /\ wpc'[s] = IF ExceedsTotal(before, n) THEN "undo" ELSE "fin"
      /\ work' = work
  BY <1>1, <1>4 DEF UpdateBytes
<1>7. Key(s)' = Key(s)
  BY <1>6 DEF Key, Packet
<1>8. flow'[Key(s)].held = n /\ flow'[Key(s)] # NoFlow
  <2>1. flow'[Key(s)] = [held |-> n, last_seen |-> Packet(s).at]
    BY <1>1, <1>3, <1>6
  <2>2. Packet(s).at \in Nat
    BY <1>3 DEF PacketType
  <2> QED
    BY <1>5, <2>1, <2>2, PoolAssumption
<1>9. HeldTotal \in Nat /\ buffered_bytes \in Int /\ MaxTotalBytes \in Nat
  BY TotalsTyped, ShardsFinite
<1>10. HeldTotal' = HeldTotal - before + n
  <2>1. \A g \in Flows \ {Key(s)} : flow'[g] = flow[g]
    BY <1>1, <1>3, <1>6
  <2>2. HeldTotal' = HeldTotal - HeldOf(flow)[Key(s)] + HeldOf(flow')[Key(s)]
    BY <1>1, <1>3, <2>1, HeldMoves
  <2>3. HeldOf(flow)[Key(s)] = before /\ HeldOf(flow')[Key(s)] = n
    BY <1>3, <1>4, <1>8 DEF HeldOf
  <2> QED
    BY <2>2, <2>3
<1>11. Excess[s] = 0 /\ owed[s] = 0 /\ owed'[s] = 0
  BY <1>2 DEF Excess, BytesInv
<1>12. PICK b : b = n - before
  OBVIOUS
<1>13. b \in Int /\ buffered_bytes' = buffered_bytes + b /\ HeldTotal' = HeldTotal + b
  BY <1>5, <1>6, <1>9, <1>10, <1>12
<1>14. b = b + owed'[s] - owed[s]
  BY <1>11, <1>13
<1>15. b <= Excess'[s] - Excess[s] \/ buffered_bytes' <= MaxTotalBytes
  <2>1. CASE ExceedsTotal(before, n)
    <3>1. Excess'[s] = n
      BY <1>6, <1>7, <1>8, <2>1 DEF Excess
    <3> QED
      BY <1>5, <1>11, <1>12, <3>1
  <2>2. CASE ~ExceedsTotal(before, n)
    <3>1. Excess'[s] = 0
      BY <1>6, <2>2 DEF Excess
    <3>2. CASE n <= before
      BY <1>5, <1>11, <1>12, <3>1, <3>2
    <3>3. CASE n > before
      BY <1>5, <1>6, <1>9, <2>2, <3>3 DEF ExceedsTotal
    <3> QED
      BY <1>5, <3>2, <3>3
  <2> QED
    BY <2>1, <2>2
<1> QED
  BY <1>0, <1>2, <1>11, <1>13, <1>14, <1>15, Balance

(* Over the limit, what the flow held goes, and with it the excess.        *)
LEMMA BytesUndo ==
  ASSUME IInv, IInv', BytesInv, NEW s \in Shards, UndoBytes(s)
  PROVE  BytesInv'
<1>0. Worker(s)
  BY DEF Worker
<1>1. /\ BudgetType /\ BudgetType' /\ WorkerType /\ WorkerOwnsFlow
      /\ wpc \in [Shards -> WorkerPc]
      /\ flow \in [Flows -> [held : Nat, last_seen : Nat] \cup {NoFlow}]
  BY DEF IInv, TypeOK, WorkerType, BudgetType
<1>2. wpc[s] = "undo" /\ owed' = owed
  BY DEF UndoBytes
<1>3. Key(s) \in Flows /\ flow[Key(s)] # NoFlow /\ flow[Key(s)].held \in Nat
  BY <1>1, <1>2, OwnedTyped DEF InPacket
<1>4. PICK h : h = flow[Key(s)].held
  OBVIOUS
<1>5. PICK emptied : emptied = [flow[Key(s)] EXCEPT !.held = 0]
  OBVIOUS
<1>6. /\ flow' = [flow EXCEPT ![Key(s)] = emptied]
      /\ buffered_bytes' = buffered_bytes - h /\ wpc'[s] = "fin"
  BY <1>1, <1>4, <1>5 DEF UndoBytes
<1>7. emptied \in [held : Nat, last_seen : Nat] /\ emptied.held = 0
  <2>1. flow[Key(s)] \in [held : Nat, last_seen : Nat]
    BY <1>1, <1>3
  <2> QED
    BY <1>5, <2>1
<1>8. HeldTotal \in Nat /\ buffered_bytes \in Int /\ h \in Nat
  BY <1>3, <1>4, TotalsTyped
<1>9. HeldTotal' = HeldTotal - h
  <2>1. \A g \in Flows \ {Key(s)} : flow'[g] = flow[g]
    BY <1>1, <1>3, <1>6
  <2>2. HeldTotal' = HeldTotal - HeldOf(flow)[Key(s)] + HeldOf(flow')[Key(s)]
    BY <1>1, <1>3, <2>1, HeldMoves
  <2>3. flow'[Key(s)] = emptied
    BY <1>1, <1>3, <1>6
  <2>4. HeldOf(flow)[Key(s)] = h /\ HeldOf(flow')[Key(s)] = 0
    BY <1>3, <1>4, <1>7, <2>3 DEF HeldOf
  <2> QED
    BY <1>8, <2>2, <2>4
<1>10. Excess[s] = h /\ Excess'[s] = 0 /\ owed[s] = 0 /\ owed'[s] = 0
  BY <1>2, <1>4, <1>6 DEF Excess, BytesInv
<1>11. PICK b : b = 0 - h
  OBVIOUS
<1>12. b \in Int /\ buffered_bytes' = buffered_bytes + b /\ HeldTotal' = HeldTotal + b
  BY <1>6, <1>8, <1>9, <1>11
<1>13. b = b + owed'[s] - owed[s] /\ b <= Excess'[s] - Excess[s]
  BY <1>8, <1>10, <1>11, <1>12
<1> QED
  BY <1>0, <1>2, <1>10, <1>12, <1>13, Balance

(* The second step of release_flow.                                        *)
LEMMA BytesRelease ==
  ASSUME IInv, IInv', BytesInv, NEW s \in Shards, ReleaseBytes(s)
  PROVE  BytesInv'
<1>0. Worker(s)
  BY DEF Worker
<1>1. BudgetType /\ wpc \in [Shards -> WorkerPc] /\ ReleaseRouted
  BY DEF IInv, TypeOK, WorkerType
<1>2. /\ wpc[s] = "release" /\ buffered_bytes' = buffered_bytes - owed[s]
      /\ owed' = [owed EXCEPT ![s] = 0] /\ flow' = flow /\ wpc'[s] = wnext[s]
  BY <1>1 DEF ReleaseBytes
<1>3. wpc'[s] # "undo"
  BY <1>1, <1>2 DEF ReleaseRouted
<1>4. PICK h : h = owed[s]
  OBVIOUS
<1>5. h \in Nat /\ owed'[s] = 0 /\ \A t \in Shards \ {s} : owed'[t] = owed[t]
  BY <1>1, <1>2, <1>4 DEF BudgetType
<1>6. HeldTotal' = HeldTotal /\ HeldTotal \in Nat /\ buffered_bytes \in Int
  BY <1>2, TotalsTyped DEF HeldTotal
<1>7. Excess[s] = 0 /\ Excess'[s] = 0
  BY <1>2, <1>3 DEF Excess
<1>8. PICK b, d : b = 0 - h /\ d = 0
  OBVIOUS
<1>9. b \in Int /\ d \in Int /\ buffered_bytes' = buffered_bytes + b
  BY <1>2, <1>4, <1>5, <1>6, <1>8
<1>10. HeldTotal' = HeldTotal + d
  BY <1>6, <1>8
<1>11. b = d + owed'[s] - owed[s] /\ b <= Excess'[s] - Excess[s]
  BY <1>4, <1>5, <1>7, <1>8
<1> QED
  BY <1>0, <1>5, <1>9, <1>10, <1>11, Balance

LEMMA BytesStep ==
  ASSUME IInv, IInv', [Next]_vars, BytesInv
  PROVE  BytesInv'
<1>1. /\ BudgetType /\ WorkerType /\ WorkerOwnsFlow /\ wpc \in [Shards -> WorkerPc]
  BY DEF IInv, TypeOK, WorkerType
<1>2. ASSUME NEW s \in Shards, Worker(s)
      PROVE  BytesInv'
  <2>0. wpc[s] \in {"syn", "fin"} => Key(s) \in Flows
    BY <1>1, OwnedTyped DEF InPacket
  <2>1. CASE HandleSyn(s)
    <3>1. CASE \E where : flow[Key(s)] # NoFlow /\ ReleaseFlow(s, Key(s), where)
      BY <1>2, <2>0, <2>1, <3>1, ReleaseMoves DEF HandleSyn
    <3>2. CASE wpc' = [wpc EXCEPT ![s] = "acquire"] /\ UNCHANGED <<owed, sharedVars>>
      BY <1>1, <1>2, <2>1, <3>2, BytesElsewhere DEF HandleSyn, sharedVars
    <3> QED
      BY <2>1, <3>1, <3>2 DEF HandleSyn
  <2>2. CASE HandleFin(s)
    <3>1. CASE \E where : flow[Key(s)] # NoFlow /\ ReleaseFlow(s, Key(s), where)
      BY <1>2, <2>0, <2>2, <3>1, ReleaseMoves DEF HandleFin
    <3>2. CASE wpc' = [wpc EXCEPT ![s] = "send"] /\ UNCHANGED <<owed, sharedVars>>
      BY <1>1, <1>2, <2>2, <3>2, BytesElsewhere DEF HandleFin, sharedVars
    <3>3. flow[Key(s)] # NoFlow
      BY <1>1, <2>2, OwnedTyped DEF HandleFin, InPacket
    <3> QED
      BY <2>2, <3>1, <3>2, <3>3 DEF HandleFin
  <2>3. CASE EvictFlow(s) \/ FlushFlows(s)
    <3>1. wpc[s] \notin {"release", "undo"}
      BY <2>3 DEF EvictFlow, FlushFlows
    <3>2. CASE \E f \in Live : \E where \in {"evict", "flush"} : ReleaseFlow(s, f, where)
      BY <1>2, <3>1, <3>2, ReleaseMoves DEF Live
    <3>3. CASE wpc'[s] # "undo" /\ UNCHANGED <<owed, sharedVars>>
      BY <1>2, <3>1, <3>3, BytesElsewhere DEF sharedVars
    <3> QED
      BY <1>1, <2>3, <3>2, <3>3 DEF EvictFlow, FlushFlows, Idle, Table
  <2>4. CASE TakeCommand(s) \/ SendResult(s)
    <3>1. /\ wpc[s] \notin {"release", "undo"} /\ wpc'[s] # "undo"
          /\ UNCHANGED <<flow, owed, buffered_bytes>>
      BY <1>1, <2>4 DEF TakeCommand, SendResult, sharedVars
    <3> QED
      BY <1>2, <3>1, BytesElsewhere
  <2> QED
    BY <1>2, <2>1, <2>2, <2>3, <2>4, BytesAcquire, BytesUpdate, BytesUndo, BytesRelease
       DEF Worker
<1>3. CASE UNCHANGED <<wpc, work, flow, owed, buffered_bytes>>
  <2>1. HeldTotal' = HeldTotal /\ OwedTotal' = OwedTotal
    BY <1>3 DEF HeldTotal, OwedTotal
  <2>2. Excess' = Excess
    BY <1>3 DEF Excess, Key, Packet
  <2>3. ExcessTotal' = ExcessTotal
    BY <2>2 DEF ExcessTotal
  <2> QED
    BY <1>3, <2>1, <2>3 DEF BytesInv
<1>4. CASE CaptureThread
  BY <1>3, <1>4 DEF CaptureThread, ReadPacket, SendSweep, DecodePacket, SubmitPacket,
     EndOfInput, DropSender, JoinWorker, ReceiveResult, WriteResult, WriteFails, Drained,
     Exit, workerVars, sharedVars
<1>5. CASE UNCHANGED vars
  BY <1>3, <1>5 DEF vars, workerVars, sharedVars
<1> QED
  BY <1>2, <1>4, <1>5 DEF Next, Terminated

(* A worker that has exited has emptied its table, and the capture thread  *)
(* reaches the end when all have.                                          *)
EndInv ==
    /\ \A s \in Shards : wpc[s] = "exited" => Table(s) = {}
    /\ Goes({"join"}) => \A s \in Shards : s < sweeping => wpc[s] = "exited"
    /\ Goes({"end"}) \/ cpc = "exit" => \A s \in Shards : wpc[s] = "exited"

LEMMA ShardOrder ==
  ASSUME NEW t \in Shards, NEW k \in 1 .. NShards + 1
  PROVE  ~(t < 1) /\ t < NShards + 1 /\ (t < k + 1 => t < k \/ t = k)
  BY DEF Shards

LEMMA EndStep ==
  ASSUME IInv, [Next]_vars, EndInv
  PROVE  EndInv'
<1>1. /\ wpc \in [Shards -> WorkerPc] /\ WorkerType /\ ReleaseRouted
      /\ flow \in [Flows -> [held : Nat, last_seen : Nat] \cup {NoFlow}]
      /\ sweeping \in 1 .. NShards + 1
  BY DEF IInv, TypeOK, WorkerType, BudgetType, CaptureType
<1>2. ASSUME NEW s \in Shards, Worker(s)
      PROVE  EndInv'
  <2>1. wpc[s] # "exited"
    BY <1>2 DEF Worker, TakeCommand, HandleSyn, AcquireFlow, UpdateBytes, UndoBytes,
       HandleFin, ReleaseBytes, SendResult, EvictFlow, FlushFlows
  <2>2. \A t \in Shards \ {s} :
           wpc'[t] = wpc[t] /\ \A f \in Flows : ShardOf[f] = t => flow'[f] = flow[f]
    BY <1>2, WorkerStaysInShard
  <2>3. \A t \in Shards \ {s} : Table(t)' = Table(t)
    BY <2>2 DEF Table, Live
  <2>4. wpc'[s] = "exited" => Table(s)' = {}
    <3>1. wpc'[s] = "exited" => FlushFlows(s) /\ Table(s) = {} /\ flow' = flow
      BY <1>1, <1>2 DEF Worker, TakeCommand, HandleSyn, AcquireFlow, UpdateBytes, UndoBytes,
         HandleFin, ReleaseBytes, SendResult, EvictFlow, FlushFlows, ReleaseFlow,
         ReleaseRouted, sharedVars
    <3> QED
      BY <3>1 DEF Table, Live
  <2>5. \A t \in Shards : wpc'[t] = "exited" => Table(t)' = {}
    BY <2>2, <2>3, <2>4 DEF EndInv
  <2>6. \A t \in Shards : wpc[t] = "exited" => wpc'[t] = "exited"
    BY <2>1, <2>2
  <2>7. UNCHANGED <<cpc, then, sweeping>>
    BY <1>2 DEF Worker, TakeCommand, HandleSyn, AcquireFlow, UpdateBytes, UndoBytes,
       HandleFin, ReleaseBytes, SendResult, EvictFlow, FlushFlows, captureSide, captureVars
  <2> QED
    BY <2>5, <2>6, <2>7 DEF EndInv, Goes
<1>3. CASE UNCHANGED <<wpc, flow>> /\ CaptureThread
  <2>1. \A t \in Shards : wpc'[t] = wpc[t] /\ Table(t)' = Table(t)
    BY <1>3 DEF Table, Live
  <2>2. CASE JoinWorker
    <3>1. /\ wpc[sweeping] = "exited" /\ sweeping' = sweeping + 1
          /\ cpc = "join" /\ cpc' \in {"join", "drain"}
          /\ IF sweeping = NShards THEN cpc' = "drain" /\ then' = "end"
                                   ELSE UNCHANGED <<cpc, then>>
      BY <2>2 DEF JoinWorker, DrainThen
    <3>2. \A t \in Shards : t < sweeping => wpc[t] = "exited"
      BY <3>1 DEF EndInv, Goes
    <3>a. /\ \A t \in Shards : t < sweeping + 1 => t < sweeping \/ t = sweeping
          /\ sweeping = NShards => \A t \in Shards : t < sweeping + 1
      BY <1>1, ShardOrder
    <3>3. \A t \in Shards : t < sweeping' => wpc[t] = "exited"
      BY <3>1, <3>2, <3>a
    <3>4. sweeping = NShards => \A t \in Shards : wpc[t] = "exited"
      BY <3>1, <3>3, <3>a
    <3> QED
      BY <2>1, <3>1, <3>3, <3>4 DEF EndInv, Goes
  <2>3. CASE EndOfInput
    <3>1. sweeping' = 1 /\ cpc' = "drain" /\ then' = "join"
      BY <2>3 DEF EndOfInput, DrainThen
    <3>2. \A t \in Shards : ~(t < 1)
      BY <1>1, ShardOrder
    <3> QED
      BY <2>1, <3>1, <3>2 DEF EndInv, Goes
  <2>4. CASE Exit \/ Drained
    <3>1. then \in {"read", "sweep", "decode", "send", "join", "end"}
      BY DEF IInv, TypeOK, CaptureType
    <3> QED
      BY <2>1, <2>4, <3>1 DEF Exit, Drained, EndInv, Goes
  <2>5. CASE WriteFails
    BY <2>1, <2>5 DEF WriteFails, EndInv, Goes
  <2>6. CASE ReceiveResult \/ WriteResult \/ DropSender
    <3>1. UNCHANGED <<cpc, then, sweeping>>
      BY <2>6 DEF ReceiveResult, WriteResult, DropSender, captureVars
    <3> QED
      BY <2>1, <3>1 DEF EndInv, Goes
  <2>7. CASE ReadPacket \/ SendSweep \/ DecodePacket \/ SubmitPacket
    <3>1. \/ cpc' = "drain" /\ then' \in {"sweep", "decode", "send", "read"}
          \/ cpc' \in {"read", "decode", "sweep"}
      BY <2>7 DEF ReadPacket, SendSweep, DecodePacket, SubmitPacket, DrainThen
    <3> QED
      BY <2>1, <3>1 DEF EndInv, Goes
  <2> QED
    BY <1>3, <2>2, <2>3, <2>4, <2>5, <2>6, <2>7 DEF CaptureThread
<1>4. CASE UNCHANGED vars
  BY <1>4 DEF vars, captureVars, workerVars, sharedVars, EndInv, Goes, Table, Live
<1>5. CaptureThread => UNCHANGED <<wpc, flow>>
  BY DEF CaptureThread, ReadPacket, SendSweep, DecodePacket, SubmitPacket,
     EndOfInput, DropSender, JoinWorker, ReceiveResult, WriteResult, WriteFails, Drained,
     Exit, workerVars, sharedVars
<1> QED
  BY <1>2, <1>3, <1>4, <1>5 DEF Next, Terminated

LEMMA BytesInit == Init => BytesInv /\ EndInv
<1> SUFFICES ASSUME Init PROVE BytesInv /\ EndInv
  OBVIOUS
<1>1. EndInv
  BY DEF Init, EndInv, Goes
<1>2. \A f \in Flows : HeldOf(flow)[f] = 0
  BY DEF Init, HeldOf
<1>3. \A s \in Shards : owed[s] = 0 /\ Excess[s] = 0
  BY DEF Init, Excess
<1>4. HeldTotal = 0 /\ OwedTotal = 0 /\ ExcessTotal = 0
  BY <1>2, <1>3, ShardsFinite, SumOfZeros DEF HeldTotal, OwedTotal, ExcessTotal
<1> QED
  BY <1>1, <1>3, <1>4, ShardsFinite DEF Init, BytesInv

LEMMA BytesInvariance == Spec => [](IInv /\ FlowsCounted /\ BytesInv /\ EndInv)
<1>1. IInv /\ IInv' /\ [Next]_vars /\ BytesInv /\ EndInv => (BytesInv /\ EndInv)'
  BY BytesStep, EndStep
<1> QED
  BY <1>1, BytesInit, Invariance, FlowsBounded, PTL DEF Spec

(* ResourceBudget.buffered_bytes is at every moment what the flow tables   *)
(* hold and what release_flow is about to take off; at the end of the      *)
(* input both counters are back at zero.                                   *)
THEOREM BytesAccounted == Spec => []BytesCounted
<1>1. IInv /\ FlowsCounted /\ BytesInv /\ EndInv => BytesCounted
  <2> SUFFICES ASSUME IInv, FlowsCounted, BytesInv, EndInv PROVE BytesCounted
    OBVIOUS
  <2>1. BudgetType
    BY DEF IInv, TypeOK
  <2>2. HeldBy(flow, Flows) = HeldTotal
    BY <2>1, HeldTyped, SumOfHeld DEF HeldTotal
  <2>3. \A s \in Shards : owed[s] \in Nat
    BY <2>1 DEF BudgetType
  <2>4. MapThenSumSet(LAMBDA s : owed[s], Shards) = OwedTotal
    BY <2>3, SumOfOwed DEF OwedTotal
  <2>5. ASSUME cpc = "exit"
        PROVE  flows = 0 /\ buffered_bytes = 0
    <3>1. \A s \in Shards : wpc[s] = "exited" /\ Table(s) = {}
      BY <2>5 DEF EndInv
    <3>2. Live = {}
      BY <3>1, PoolAssumption DEF Table, Live
    <3>3. \A f \in Flows : HeldOf(flow)[f] = 0
      BY <3>2 DEF Live, HeldOf
    <3>4. \A s \in Shards : owed[s] = 0
      BY <3>1 DEF BytesInv
    <3>5. HeldTotal = 0 /\ OwedTotal = 0
      BY <3>3, <3>4, ShardsFinite, SumOfZeros DEF HeldTotal, OwedTotal
    <3> QED
      BY <3>2, <3>5, FS_EmptySet DEF FlowsCounted, BytesInv
  <2> QED
    BY <2>2, <2>4, <2>5 DEF BytesCounted, BytesInv
<1> QED
  BY <1>1, BytesInvariance, PTL

(* --max-total-bytes is exceeded only while a worker that knows it did is  *)
(* about to drop its flow's bytes: adding first and comparing afterwards,  *)
(* in one atomic step, leaves no other excess.                             *)
THEOREM BytesBounded == Spec => []MemoryBounded
<1>1. IInv /\ BytesInv => MemoryBounded
  <2> SUFFICES ASSUME IInv, BytesInv, \A s \in Shards : wpc[s] # "undo"
               PROVE  ~(buffered_bytes > MaxTotalBytes)
    BY DEF MemoryBounded
  <2>1. \A s \in Shards : Excess[s] = 0
    BY DEF Excess
  <2>2. ExcessTotal = 0
    BY <2>1, ShardsFinite, SumOfZeros DEF ExcessTotal
  <2> QED
    BY <2>2, TotalsTyped, ShardsFinite DEF BytesInv
<1> QED
  BY <1>1, BytesInvariance, PTL

-----------------------------------------------------------------------------
(* The packets of an input that get a number: WorksOf(c, n) are those of   *)
(* its first n, and NthWork(c, k) is number k, counting from zero.         *)
WorksOf(c, n) == {j \in 1 .. n : c[j].decodes_to = "work"}
Place(c, k) ==
    CHOOSE j \in WorksOf(c, Len(c)) : Cardinality(WorksOf(c, j)) = k + 1
NthWork(c, k) == c[Place(c, k)]

LEMMA WorksFinite ==
  ASSUME NEW c, NEW n \in Int
  PROVE  IsFiniteSet(WorksOf(c, n)) /\ Cardinality(WorksOf(c, n)) \in Nat
<1>1. WorksOf(c, n) \in SUBSET (1 .. n) /\ IsFiniteSet(1 .. n)
  BY FS_Interval DEF WorksOf
<1>2. IsFiniteSet(WorksOf(c, n))
  BY <1>1, FS_Subset
<1> QED
  BY <1>2, FS_CardinalityType

LEMMA WorksNext ==
  ASSUME NEW c, NEW n \in Nat
  PROVE  Cardinality(WorksOf(c, n + 1)) =
            Cardinality(WorksOf(c, n)) + (IF c[n + 1].decodes_to = "work" THEN 1 ELSE 0)
<1>1. /\ IsFiniteSet(WorksOf(c, n)) /\ Cardinality(WorksOf(c, n)) \in Nat
      /\ n + 1 \notin WorksOf(c, n)
  <2>1. n \in Int
    OBVIOUS
  <2>2. IsFiniteSet(WorksOf(c, n)) /\ Cardinality(WorksOf(c, n)) \in Nat
    BY <2>1, WorksFinite
  <2> QED
    BY <2>2 DEF WorksOf
<1>2. CASE c[n + 1].decodes_to = "work"
  <2>1. WorksOf(c, n + 1) = WorksOf(c, n) \cup {n + 1}
    BY <1>2 DEF WorksOf
  <2> QED
    BY <1>1, <1>2, <2>1, FS_AddElement
<1>3. CASE c[n + 1].decodes_to # "work"
  <2>1. WorksOf(c, n + 1) = WorksOf(c, n)
    BY <1>3 DEF WorksOf
  <2> QED
    BY <1>1, <1>3, <2>1
<1> QED
  BY <1>2, <1>3

LEMMA WorksGrow ==
  ASSUME NEW c, NEW i \in Nat, NEW j \in Nat
  PROVE  /\ i <= j => Cardinality(WorksOf(c, i)) <= Cardinality(WorksOf(c, j))
         /\ i < j /\ c[j].decodes_to = "work" =>
               Cardinality(WorksOf(c, i)) < Cardinality(WorksOf(c, j))
<1>1. /\ IsFiniteSet(WorksOf(c, i)) /\ Cardinality(WorksOf(c, i)) \in Nat
      /\ IsFiniteSet(WorksOf(c, j)) /\ Cardinality(WorksOf(c, j)) \in Nat
  BY WorksFinite
<1>2. i <= j => WorksOf(c, i) \in SUBSET WorksOf(c, j)
  BY DEF WorksOf
<1>3. i <= j => Cardinality(WorksOf(c, i)) <= Cardinality(WorksOf(c, j))
  BY <1>1, <1>2, FS_Subset
<1>4. ASSUME i < j, c[j].decodes_to = "work"
      PROVE  Cardinality(WorksOf(c, i)) < Cardinality(WorksOf(c, j))
  <2>1. j \in WorksOf(c, j) /\ j \notin WorksOf(c, i)
    BY <1>4 DEF WorksOf
  <2>2. Cardinality(WorksOf(c, i)) # Cardinality(WorksOf(c, j))
    BY <1>1, <1>2, <1>4, <2>1, FS_Subset
  <2> QED
    BY <1>1, <1>3, <1>4, <2>2
<1> QED
  BY <1>3, <1>4

(* Every number below the count of the first n belongs to one of them.     *)
LEMMA PlaceExists ==
  ASSUME NEW c, NEW n \in Nat, NEW k \in 0 .. Cardinality(WorksOf(c, n)) - 1
  PROVE  \E j \in WorksOf(c, n) : Cardinality(WorksOf(c, j)) = k + 1
<1> DEFINE has(m) == \A l \in 0 .. Cardinality(WorksOf(c, m)) - 1 :
                       \E j \in WorksOf(c, m) : Cardinality(WorksOf(c, j)) = l + 1
           Good == {m \in Nat : has(m)}
<1>1. 0 \in Good
  <2>1. WorksOf(c, 0) = {}
    BY DEF WorksOf
  <2>2. Cardinality(WorksOf(c, 0)) = 0
    BY <2>1, FS_EmptySet
  <2> QED
    BY <2>2
<1>2. ASSUME NEW m \in Nat, m \in Good PROVE m + 1 \in Good
  <2>1. SUFFICES ASSUME NEW l \in 0 .. Cardinality(WorksOf(c, m + 1)) - 1
                 PROVE  \E j \in WorksOf(c, m + 1) : Cardinality(WorksOf(c, j)) = l + 1
    OBVIOUS
  <2>2. WorksOf(c, m) \subseteq WorksOf(c, m + 1)
    BY DEF WorksOf
  <2>3. /\ Cardinality(WorksOf(c, m)) \in Nat
        /\ Cardinality(WorksOf(c, m + 1)) = Cardinality(WorksOf(c, m))
             + (IF c[m + 1].decodes_to = "work" THEN 1 ELSE 0)
    <3>1. m \in Int
      OBVIOUS
    <3>2. Cardinality(WorksOf(c, m)) \in Nat
      BY <3>1, WorksFinite
    <3> QED
      BY <3>2, WorksNext
  <2>4. CASE l \in 0 .. Cardinality(WorksOf(c, m)) - 1
    BY <1>2, <2>2, <2>4
  <2>5. CASE l \notin 0 .. Cardinality(WorksOf(c, m)) - 1
    <3>1. c[m + 1].decodes_to = "work" /\ Cardinality(WorksOf(c, m + 1)) = l + 1
      BY <2>1, <2>3, <2>5
    <3>2. m + 1 \in WorksOf(c, m + 1)
      BY <3>1 DEF WorksOf
    <3> QED
      BY <3>1, <3>2
  <2> QED
    BY <2>4, <2>5
<1> HIDE DEF Good
<1>3. n \in Good
  BY <1>1, <1>2, UpwardInduction
<1> QED
  BY <1>3 DEF Good

LEMMA PlaceIs ==
  ASSUME NEW c, Len(c) \in Nat, NEW j \in WorksOf(c, Len(c))
  PROVE  /\ Cardinality(WorksOf(c, j)) \in Nat \ {0}
         /\ Place(c, Cardinality(WorksOf(c, j)) - 1) = j
<1>1. j \in Nat /\ c[j].decodes_to = "work" /\ 0 < j
  BY DEF WorksOf
<1>2. Cardinality(WorksOf(c, 0)) < Cardinality(WorksOf(c, j))
  BY <1>1, WorksGrow
<1>3. Cardinality(WorksOf(c, 0)) \in Nat /\ Cardinality(WorksOf(c, j)) \in Nat
  BY <1>1, WorksFinite
<1>4. PICK n : n = Cardinality(WorksOf(c, j))
  OBVIOUS
<1>5. n \in Nat \ {0} /\ n = (n - 1) + 1
  BY <1>2, <1>3, <1>4
<1>6. ASSUME NEW i \in WorksOf(c, Len(c)), Cardinality(WorksOf(c, i)) = (n - 1) + 1
      PROVE  i = j
  <2>1. i \in Nat /\ c[i].decodes_to = "work"
    BY DEF WorksOf
  <2>2. ~(i < j) /\ ~(j < i)
    BY <1>1, <1>4, <1>5, <1>6, <2>1, WorksGrow
  <2> QED
    BY <1>1, <2>1, <2>2
<1>7. Place(c, n - 1) = j
  BY <1>4, <1>5, <1>6 DEF Place
<1> QED
  BY <1>4, <1>5, <1>7

LEMMA PlaceOf ==
  ASSUME NEW c, NEW n \in 0 .. Len(c), Len(c) \in Nat,
         NEW k \in 0 .. Cardinality(WorksOf(c, n)) - 1
  PROVE  /\ Place(c, k) \in WorksOf(c, n)
         /\ Cardinality(WorksOf(c, Place(c, k))) = k + 1
<1>1. PICK j \in WorksOf(c, n) : Cardinality(WorksOf(c, j)) = k + 1
  BY PlaceExists
<1>2. WorksOf(c, n) \subseteq WorksOf(c, Len(c))
  BY DEF WorksOf
<1>3. j \in WorksOf(c, Len(c))
  BY <1>1, <1>2
<1>4. Place(c, (k + 1) - 1) = j
  BY <1>1, <1>3, PlaceIs
<1>5. k = (k + 1) - 1
  OBVIOUS
<1>6. Place(c, k) = j
  BY <1>4, <1>5
<1> QED
  BY <1>1, <1>6

LEMMA PlacesOrdered ==
  ASSUME NEW c, NEW i \in Nat, NEW j \in Nat, c[j].decodes_to = "work"
  PROVE  /\ Cardinality(WorksOf(c, i)) < Cardinality(WorksOf(c, j)) => i < j
         /\ Cardinality(WorksOf(c, j)) <= Cardinality(WorksOf(c, i)) => j <= i
<1>1. Cardinality(WorksOf(c, i)) \in Nat /\ Cardinality(WorksOf(c, j)) \in Nat
  <2>1. i \in Int /\ j \in Int
    OBVIOUS
  <2> QED
    BY <2>1, WorksFinite
<1>2. /\ i < j => Cardinality(WorksOf(c, i)) < Cardinality(WorksOf(c, j))
      /\ j <= i => Cardinality(WorksOf(c, j)) <= Cardinality(WorksOf(c, i))
  BY WorksGrow
<1> QED
  BY <1>1, <1>2

(* The numbers of the packets of an input, and the packets.                *)
NumbersOf(c) == 0 .. Cardinality(WorksOf(c, Len(c))) - 1

LEMMA NthTyped ==
  ASSUME NEW c \in Seq(Packets), NEW k \in NumbersOf(c)
  PROVE  /\ NthWork(c, k) \in Packets /\ NthWork(c, k) \in PacketType
         /\ NthWork(c, k).flow \in Flows /\ ShardOf[NthWork(c, k).flow] \in Shards
         /\ NthWork(c, k).size \in Nat /\ NthWork(c, k).prior \in Nat
<1>1. Place(c, k) \in WorksOf(c, Len(c))
  BY PlaceOf DEF NumbersOf
<1>2. NthWork(c, k) \in Packets
  BY <1>1 DEF WorksOf, NthWork
<1> QED
  BY <1>2 DEF PacketType

(* What CountsPrior says, by the numbers of the packets.                   *)
EarlierOf(c, k) == {m \in 0 .. k - 1 : NthWork(c, m).flow = NthWork(c, k).flow}

LEMMA PriorOfNth ==
  ASSUME NEW c \in Seq(Packets), CountsPrior(c), NEW k \in NumbersOf(c)
  PROVE  /\ NthWork(c, k).completes => NthWork(c, k).size > 0
         /\ EarlierOf(c, k) = {} => NthWork(c, k).prior = 0
         /\ \A m \in EarlierOf(c, k) :
              (\A l \in EarlierOf(c, k) : l <= m) =>
                  NthWork(c, k).prior = IF NthWork(c, k).syn THEN 0
                                        ELSE Unfinished(NthWork(c, m))
<1> DEFINE j == Place(c, k)
           before == {i \in 1 .. j - 1 : c[i].decodes_to = "work" /\ c[i].flow = c[j].flow}
<1>1. ASSUME NEW l \in NumbersOf(c)
      PROVE  /\ Place(c, l) \in Nat /\ Place(c, l) \in 1 .. Len(c)
             /\ c[Place(c, l)].decodes_to = "work" /\ NthWork(c, l) = c[Place(c, l)]
             /\ Cardinality(WorksOf(c, Place(c, l))) = l + 1
  <2>1. /\ Place(c, l) \in WorksOf(c, Len(c))
        /\ Cardinality(WorksOf(c, Place(c, l))) = l + 1
    BY PlaceOf DEF NumbersOf
  <2> QED
    BY <2>1 DEF WorksOf, NthWork
<1>2. /\ j \in Nat /\ j \in 1 .. Len(c) /\ c[j].decodes_to = "work" /\ NthWork(c, k) = c[j]
      /\ Cardinality(WorksOf(c, j)) = k + 1
  BY <1>1
<1>3. /\ c[j].completes => c[j].size > 0
      /\ before = {} => c[j].prior = 0
      /\ \A i \in before :
            (\A n \in before : n <= i) =>
                c[j].prior = IF c[j].syn THEN 0 ELSE Unfinished(c[i])
  BY <1>2 DEF CountsPrior
<1>4. k \in Nat /\ \A l \in 0 .. k - 1 : l \in NumbersOf(c)
  <2>1. Len(c) \in Int
    OBVIOUS
  <2>2. Cardinality(WorksOf(c, Len(c))) \in Nat
    BY <2>1, WorksFinite
  <2> QED
    BY <2>2 DEF NumbersOf
<1>5. ASSUME NEW i \in before
      PROVE  \E l \in EarlierOf(c, k) : Place(c, l) = i /\ Cardinality(WorksOf(c, i)) = l + 1
  <2>1. i \in Nat /\ i \in WorksOf(c, Len(c)) /\ i < j /\ c[i].flow = c[j].flow
    BY <1>2 DEF WorksOf
  <2>2. PICK n : n = Cardinality(WorksOf(c, i))
    OBVIOUS
  <2>3. n \in Nat \ {0} /\ Place(c, n - 1) = i
    BY <2>1, <2>2, PlaceIs
  <2>4. n < k + 1
    BY <1>2, <2>1, <2>2, WorksGrow
  <2>5. n - 1 \in 0 .. k - 1 /\ n = (n - 1) + 1
    BY <1>4, <2>3, <2>4
  <2>6. NthWork(c, n - 1).flow = NthWork(c, k).flow
    BY <1>2, <2>1, <2>3 DEF NthWork
  <2> QED
    BY <2>2, <2>3, <2>5, <2>6 DEF EarlierOf
<1>6. ASSUME NEW m \in EarlierOf(c, k)
      PROVE  /\ Place(c, m) \in before /\ NthWork(c, m) = c[Place(c, m)]
             /\ m \in Nat /\ Cardinality(WorksOf(c, Place(c, m))) = m + 1
             /\ Place(c, m) \in Nat /\ c[Place(c, m)].decodes_to = "work"
  <2>1. m \in 0 .. k - 1 /\ NthWork(c, m).flow = NthWork(c, k).flow /\ m \in NumbersOf(c)
    BY <1>4 DEF EarlierOf
  <2>2. /\ Place(c, m) \in Nat /\ Place(c, m) \in 1 .. Len(c)
        /\ c[Place(c, m)].decodes_to = "work" /\ NthWork(c, m) = c[Place(c, m)]
        /\ Cardinality(WorksOf(c, Place(c, m))) = m + 1
    BY <1>1, <2>1
  <2>3. m + 1 < k + 1
    BY <1>4, <2>1
  <2>4. Place(c, m) < j
    BY <1>2, <2>2, <2>3, PlacesOrdered
  <2> QED
    BY <1>2, <2>1, <2>2, <2>4
<1> HIDE DEF j, before
<1>7. EarlierOf(c, k) = {} => before = {}
  BY <1>5
<1>8. ASSUME NEW m \in EarlierOf(c, k), \A l \in EarlierOf(c, k) : l <= m
      PROVE  \A i \in before : i <= Place(c, m)
  <2> TAKE i \in before
  <2>1. PICK l \in EarlierOf(c, k) : Place(c, l) = i /\ Cardinality(WorksOf(c, i)) = l + 1
    BY <1>5
  <2>2. l <= m /\ l \in Nat /\ m \in Nat
    BY <1>6, <1>8
  <2>3. l + 1 <= m + 1
    BY <2>2
  <2>4. i \in Nat /\ c[i].decodes_to = "work" /\ Place(c, m) \in Nat
    BY <1>6, <2>1
  <2>5. Cardinality(WorksOf(c, Place(c, m))) = m + 1
    BY <1>6
  <2> QED
    BY <2>1, <2>3, <2>4, <2>5, PlacesOrdered
<1> QED
  BY <1>2, <1>3, <1>6, <1>7, <1>8

-----------------------------------------------------------------------------
(* Where a worker is, or goes once it has released a flow's bytes; and the *)
(* packets a shard has yet to answer: those queued, and the one at hand.   *)
At(s, places) == wpc[s] \in places \/ (wpc[s] = "release" /\ wnext[s] \in places)
Busy(s) == At(s, InPacket)

Queued(s) == {i \in 1 .. Len(queue[s]) : queue[s][i].kind = "Packet"}
Undone(s) == {k \in Nat : \/ \E i \in Queued(s) : queue[s][i].index = k
                          \/ Busy(s) /\ work[s].index = k}
Arrived == {results[i].index : i \in 1 .. Len(results)}
Waiting == {r.index : r \in pending}

Ordered(s) ==
    /\ Busy(s) => \A i \in Queued(s) : work[s].index < queue[s][i].index
    /\ \A i, j \in Queued(s) : i < j => queue[s][i].index < queue[s][j].index

(* A packet's number is in one place: the queue or the hands of one worker,*)
(* the result channel, or among the results that wait for their turn.      *)
NumbersInv ==
    /\ \A s \in Shards : Ordered(s)
    /\ \A s \in Shards : \A k \in Undone(s) :
          /\ k < next_packet_index /\ k \notin Arrived /\ k \notin Waiting
          /\ \A t \in Shards \ {s} : k \notin Undone(t)
    /\ \A i \in 1 .. Len(results) :
          /\ results[i].index < next_packet_index /\ results[i].index \notin Waiting
          /\ \A j \in 1 .. Len(results) : i # j => results[i].index # results[j].index
    /\ \A r \in pending : r.index < next_packet_index

LEMMA PlacesTyped ==
  ASSUME IInv, NEW s \in Shards
  PROVE  /\ queue[s] \in Seq(Command)
         /\ \A i \in Queued(s) :
              /\ queue[s][i].index \in Nat /\ queue[s][i].packet \in Packets
              /\ i \in Nat /\ i \in 1 .. Len(queue[s])
         /\ Busy(s) => work[s].kind = "Packet" /\ work[s].index \in Nat
         /\ Undone(s) \subseteq Nat
         /\ wnext[s] \in {"recv", "acquire", "send", "evict", "flush"}
<1>1. queue[s] \in Seq(Command) /\ work[s] \in Command /\ WorkerType /\ WorkerOwnsFlow
  BY DEF IInv, TypeOK, ChannelType, WorkerType
<1>2. ASSUME NEW i \in Queued(s)
      PROVE  /\ queue[s][i].index \in Nat /\ queue[s][i].packet \in Packets
             /\ i \in Nat /\ i \in 1 .. Len(queue[s])
  <2>1. i \in 1 .. Len(queue[s]) /\ queue[s][i].kind = "Packet"
    BY DEF Queued
  <2>2. queue[s][i] \in [kind : {"Packet"}, index : Nat, packet : Packets, now : Nat]
    BY <1>1, <2>1 DEF Command
  <2> QED
    BY <2>1, <2>2
<1>3. ASSUME Busy(s) PROVE work[s].kind = "Packet" /\ work[s].index \in Nat
  <2>1. work[s].kind = "Packet"
    BY <1>3 DEF Busy, At, IInv, WorkerOwnsFlow, ReleaseRouted
  <2> QED
    BY <1>1, <2>1, WorkTyped
<1> QED
  BY <1>1, <1>2, <1>3 DEF Undone, IInv, ReleaseRouted

(* The steps that leave the packets of every shard where they are.         *)
LEMMA PlacesKept ==
  ASSUME NEW s \in Shards, queue'[s] = queue[s], Busy(s)' = Busy(s),
         Busy(s) => work'[s].index = work[s].index
  PROVE  /\ Undone(s)' = Undone(s) /\ Queued(s)' = Queued(s)
         /\ Ordered(s) => Ordered(s)'
<1>1. Queued(s)' = Queued(s)
  BY DEF Queued
<1>2. Busy(s)' => work'[s].index = work[s].index
  OBVIOUS
<1> HIDE DEF Busy
<1> QED
  BY <1>1, <1>2 DEF Undone, Ordered

WorkerPasses(s) ==
    \/ HandleSyn(s) \/ AcquireFlow(s) \/ UpdateBytes(s) \/ UndoBytes(s) \/ HandleFin(s)
    \/ ReleaseBytes(s) \/ EvictFlow(s) \/ FlushFlows(s)

LEMMA PassesKeep ==
  ASSUME IInv, NEW s \in Shards, WorkerPasses(s), NEW t \in Shards
  PROVE  /\ queue' = queue /\ results' = results /\ work' = work
         /\ Busy(t)' = Busy(t)
<1>1. queue' = queue /\ results' = results /\ work' = work
  BY DEF WorkerPasses, HandleSyn, AcquireFlow, UpdateBytes, UndoBytes, HandleFin,
     ReleaseBytes, EvictFlow, FlushFlows
<1>2. Worker(s)
  BY DEF WorkerPasses, Worker
<1>3. CASE t # s
  <2>1. wpc'[t] = wpc[t] /\ wnext'[t] = wnext[t]
    BY <1>2, <1>3, WorkerStaysInShard
  <2> QED
    BY <1>1, <2>1 DEF Busy, At
<1>4. CASE t = s
  <2>1. /\ wpc \in [Shards -> WorkerPc] /\ wnext \in [Shards -> WorkerPc]
        /\ wnext[s] \in {"recv", "acquire", "send", "evict", "flush"}
    BY PlacesTyped DEF IInv, TypeOK, WorkerType
  <2>2. CASE HandleSyn(s) \/ AcquireFlow(s) \/ UpdateBytes(s) \/ UndoBytes(s) \/ HandleFin(s)
    BY <2>1, <2>2 DEF HandleSyn, AcquireFlow, UpdateBytes, UndoBytes, HandleFin, ReleaseFlow,
       Busy, At, InPacket
  <2>3. CASE ReleaseBytes(s)
    BY <2>1, <2>3 DEF ReleaseBytes, Busy, At, InPacket
  <2>4. CASE EvictFlow(s) \/ FlushFlows(s)
    BY <2>1, <2>4 DEF EvictFlow, FlushFlows, ReleaseFlow, Busy, At, InPacket
  <2> QED
    BY <1>1, <1>4, <2>2, <2>3, <2>4 DEF WorkerPasses
<1> QED
  BY <1>1, <1>3, <1>4

(* The step of another worker.                                             *)
LEMMA OthersKeep ==
  ASSUME IInv, NEW s \in Shards, Worker(s), NEW t \in Shards, t # s
  PROVE  /\ queue'[t] = queue[t] /\ work'[t] = work[t]
         /\ Busy(t)' = Busy(t)
         /\ \A places : At(t, places)' = At(t, places)
<1>1. wpc'[t] = wpc[t] /\ wnext'[t] = wnext[t] /\ work'[t] = work[t]
  BY WorkerStaysInShard
<1>2. queue \in [Shards -> Seq(Command)]
  BY DEF IInv, TypeOK, ChannelType
<1>3. queue'[t] = queue[t]
  BY <1>2 DEF Worker, TakeCommand, HandleSyn, AcquireFlow, UpdateBytes, UndoBytes, HandleFin,
     ReleaseBytes, SendResult, EvictFlow, FlushFlows
<1> QED
  BY <1>1, <1>3 DEF Busy, At

(* TakeCommand: the first packet of the queue is at hand now.              *)
LEMMA PlacesTake ==
  ASSUME IInv, NEW s \in Shards, TakeCommand(s), Ordered(s)
  PROVE  /\ Undone(s)' = Undone(s) /\ Ordered(s)'
         /\ results' = results
         /\ ~Busy(s) /\ queue[s] # <<>>
         /\ work'[s] = queue[s][1] /\ (Busy(s)' => 1 \in Queued(s))
         /\ Busy(s)' => wpc'[s] = "syn" /\ warnings'[s] = 0
         /\ \A i \in Queued(s)' : i + 1 \in Queued(s) /\ queue'[s][i] = queue[s][i + 1]
<1> DEFINE q == queue[s]
<1>1. /\ q \in Seq(Command) /\ q # <<>> /\ Len(q) \in Nat
      /\ wpc \in [Shards -> WorkerPc] /\ wpc[s] = "recv"
      /\ queue'[s] = Tail(q) /\ work'[s] = q[1] /\ results' = results
      /\ wpc'[s] = IF q[1].kind = "Packet" THEN "syn" ELSE "evict"
      /\ warnings'[s] = 0
  BY DEF TakeCommand, IInv, TypeOK, ChannelType, WorkerType, ReportType
<1>2. /\ Len(Tail(q)) = Len(q) - 1
      /\ \A i \in 1 .. Len(q) - 1 : Tail(q)[i] = q[i + 1]
  BY <1>1
<1>3. ~Busy(s) /\ (Busy(s)' <=> q[1].kind = "Packet")
  BY <1>1 DEF Busy, At, InPacket
<1>4. \A i \in Queued(s)' :
          i + 1 \in Queued(s) /\ queue'[s][i] = q[i + 1] /\ i \in Nat /\ 1 < i + 1
  BY <1>1, <1>2 DEF Queued
<1>5. \A i \in Queued(s) : i = 1 \/ (i - 1 \in Queued(s)' /\ queue'[s][i - 1] = q[i])
  <2> TAKE i \in Queued(s)
  <2>1. i \in 1 .. Len(q) /\ q[i].kind = "Packet"
    BY DEF Queued
  <2>2. CASE i # 1
    <3>1. i - 1 \in 1 .. Len(q) - 1 /\ (i - 1) + 1 = i
      BY <1>1, <2>1, <2>2
    <3>2. Tail(q)[i - 1] = q[i] /\ Len(queue'[s]) = Len(q) - 1
      BY <1>1, <1>2, <3>1
    <3> QED
      BY <1>1, <2>1, <3>1, <3>2 DEF Queued
  <2> QED
    BY <2>2
<1>6. Busy(s)' => 1 \in Queued(s)
  BY <1>1, <1>3 DEF Queued
<1>7. 1 \in Queued(s) => Busy(s)'
  BY <1>3 DEF Queued
<1>8. Ordered(s)'
  <2>1. \A i \in Queued(s) : i \in Nat
    BY DEF Queued
  <2>2. \A i, j \in Queued(s) : i < j => q[i].index < q[j].index
    BY DEF Ordered
  <2>3. Busy(s)' => \A i \in Queued(s)' : work'[s].index < queue'[s][i].index
    BY <1>1, <1>4, <1>6, <2>2
  <2>4. \A i, j \in Queued(s)' : i < j => queue'[s][i].index < queue'[s][j].index
    <3> TAKE i, j \in Queued(s)'
    <3>1. /\ i \in Nat /\ j \in Nat /\ i + 1 \in Queued(s) /\ j + 1 \in Queued(s)
          /\ queue'[s][i] = q[i + 1] /\ queue'[s][j] = q[j + 1]
      BY <1>4
    <3>2. i < j => i + 1 < j + 1
      BY <3>1
    <3> QED
      BY <2>2, <3>1, <3>2
  <2> QED
    BY <2>3, <2>4 DEF Ordered
<1>9. ASSUME NEW k \in Nat
      PROVE  k \in Undone(s)' <=> k \in Undone(s)
  <2>1. k \in Undone(s)' <=> \/ \E i \in Queued(s)' : queue'[s][i].index = k
                             \/ Busy(s)' /\ work'[s].index = k
    BY DEF Undone
  <2>2. k \in Undone(s) <=> \E i \in Queued(s) : q[i].index = k
    BY <1>3 DEF Undone
  <2>3. k \in Undone(s)' => k \in Undone(s)
    <3>1. ASSUME NEW i \in Queued(s)', queue'[s][i].index = k PROVE k \in Undone(s)
      BY <1>4, <2>2, <3>1
    <3>2. ASSUME Busy(s)', work'[s].index = k PROVE k \in Undone(s)
      BY <1>1, <1>6, <2>2, <3>2
    <3> QED
      BY <2>1, <3>1, <3>2
  <2>4. ASSUME NEW i \in Queued(s), q[i].index = k PROVE k \in Undone(s)'
    BY <1>1, <1>5, <1>7, <2>1, <2>4
  <2> QED
    BY <2>2, <2>3, <2>4
<1>10. Undone(s)' = Undone(s)
  BY <1>9 DEF Undone
<1> QED
  BY <1>1, <1>3, <1>4, <1>6, <1>8, <1>10

(* SendResult: the packet at hand is answered.                             *)
LEMMA PlacesSend ==
  ASSUME IInv, NEW s \in Shards, SendResult(s), Ordered(s)
  PROVE  /\ Undone(s)' = Undone(s) \ {work[s].index} /\ Ordered(s)'
         /\ Busy(s) /\ ~Busy(s)' /\ work[s].index \in Undone(s)
         /\ queue' = queue /\ work' = work
         /\ wpc[s] = "send" /\ wpc'[s] = "evict"
         /\ results' = Append(results, [index |-> work[s].index, output |-> output[s],
                                        warnings |-> warnings[s]])
<1>1. /\ wpc \in [Shards -> WorkerPc] /\ wpc[s] = "send" /\ wpc'[s] = "evict"
      /\ queue' = queue /\ work' = work
      /\ results' = Append(results, [index |-> work[s].index, output |-> output[s],
                                     warnings |-> warnings[s]])
  BY DEF SendResult, IInv, TypeOK, WorkerType
<1>2. Busy(s) /\ ~Busy(s)'
  BY <1>1 DEF Busy, At, InPacket
<1>3. Queued(s)' = Queued(s)
  BY <1>1 DEF Queued
<1>4. work[s].index \in Nat /\ \A i \in Queued(s) : queue[s][i].index \in Nat
  BY <1>2, PlacesTyped
<1>5. \A i \in Queued(s) : queue[s][i].index # work[s].index
  BY <1>2, <1>4 DEF Ordered
<1>6. Ordered(s)'
  BY <1>1, <1>2, <1>3 DEF Ordered
<1>7. Undone(s)' = Undone(s) \ {work[s].index} /\ work[s].index \in Undone(s)
  <2> HIDE DEF Busy
  <2> QED
    BY <1>1, <1>2, <1>3, <1>4, <1>5 DEF Undone
<1> QED
  BY <1>1, <1>2, <1>6, <1>7

(* SendSweep: a command that is no packet is queued.                       *)
LEMMA PlacesSweep ==
  ASSUME IInv, SendSweep, NEW s \in Shards
  PROVE  /\ Undone(s)' = Undone(s) /\ (Ordered(s) => Ordered(s)') /\ Busy(s)' = Busy(s)
         /\ work' = work /\ results' = results
         /\ Queued(s)' = Queued(s) /\ \A i \in Queued(s) : queue'[s][i] = queue[s][i]
<1>1. /\ queue[s] \in Seq(Command) /\ queue \in [Shards -> Seq(Command)]
      /\ work' = work /\ wpc' = wpc /\ wnext' = wnext /\ results' = results
      /\ queue' = [queue EXCEPT ![sweeping] = Append(@, EvictIdle(Current.at))]
  BY DEF SendSweep, IInv, TypeOK, ChannelType, workerVars
<1>2. Queued(s)' = Queued(s) /\ \A i \in Queued(s) : queue'[s][i] = queue[s][i]
  <2>1. CASE s # sweeping
    <3>1. queue'[s] = queue[s]
      BY <1>1, <2>1
    <3> QED
      BY <3>1 DEF Queued
  <2>2. CASE s = sweeping
    <3>1. queue'[s] = Append(queue[s], EvictIdle(Current.at))
      BY <1>1, <2>2
    <3>2. /\ Len(queue[s]) \in Nat /\ Len(queue'[s]) = Len(queue[s]) + 1
          /\ queue'[s][Len(queue[s]) + 1] = EvictIdle(Current.at)
          /\ \A i \in 1 .. Len(queue[s]) : queue'[s][i] = queue[s][i]
      BY <1>1, <3>1
    <3>3. queue'[s][Len(queue[s]) + 1].kind # "Packet"
      BY <3>2 DEF EvictIdle
    <3> QED
      BY <3>2, <3>3 DEF Queued
  <2> QED
    BY <2>1, <2>2
<1>3. Busy(s)' = Busy(s)
  BY <1>1 DEF Busy, At
<1> HIDE DEF Busy
<1> QED
  BY <1>1, <1>2, <1>3 DEF Undone, Ordered

(* SubmitPacket: the packet's shard has one number more, the largest.      *)
LEMMA PlacesSubmit ==
  ASSUME IInv, SubmitPacket, NEW s \in Shards, Ordered(s),
         \A k \in Undone(s) : k < next_packet_index
  PROVE  /\ Undone(s)' = Undone(s) \cup (IF s = ShardIndex(Current) THEN {next_packet_index}
                                                                   ELSE {})
         /\ Ordered(s)' /\ Busy(s)' = Busy(s) /\ work' = work /\ results' = results
         /\ \A i \in Queued(s)' :
              \/ i \in Queued(s) /\ queue'[s][i] = queue[s][i]
              \/ queue'[s][i] = PacketCommand(next_packet_index, Current)
<1>1. /\ queue[s] \in Seq(Command) /\ queue \in [Shards -> Seq(Command)]
      /\ work' = work /\ wpc' = wpc /\ wnext' = wnext /\ results' = results
      /\ queue' = [queue EXCEPT ![ShardIndex(Current)] =
                      Append(@, PacketCommand(next_packet_index, Current))]
      /\ next_packet_index \in Nat
  BY DEF SubmitPacket, IInv, TypeOK, ChannelType, CaptureType, workerVars
<1>2. Busy(s)' = Busy(s)
  BY <1>1 DEF Busy, At
<1>3. CASE s # ShardIndex(Current)
  <2>1. queue'[s] = queue[s]
    BY <1>1, <1>3
  <2>2. Queued(s)' = Queued(s) /\ Undone(s)' = Undone(s) /\ Ordered(s)'
    BY <1>1, <1>2, <2>1, PlacesKept
  <2> QED
    BY <1>1, <1>2, <1>3, <2>1, <2>2
<1>4. CASE s = ShardIndex(Current)
  <2> DEFINE n == Len(queue[s])
             c == PacketCommand(next_packet_index, Current)
  <2>1. queue'[s] = Append(queue[s], c)
    BY <1>1, <1>4
  <2>2. /\ n \in Nat /\ Len(queue'[s]) = n + 1 /\ queue'[s][n + 1] = c
        /\ \A i \in 1 .. n : queue'[s][i] = queue[s][i]
    BY <1>1, <2>1
  <2>3. c.kind = "Packet" /\ c.index = next_packet_index
    BY DEF PacketCommand
  <2>4. \A i \in Queued(s) : i \in 1 .. n
    BY DEF Queued
  <2>5. Queued(s)' = Queued(s) \cup {n + 1}
    BY <2>2, <2>3 DEF Queued
  <2> HIDE DEF n, c, Busy
  <2>6. \A k \in Nat : k \in Undone(s)' <=> k \in Undone(s) \/ k = next_packet_index
    BY <1>1, <1>2, <2>2, <2>3, <2>4, <2>5 DEF Undone
  <2>7. Undone(s)' = Undone(s) \cup {next_packet_index}
    BY <1>1, <2>6 DEF Undone
  <2>8. /\ \A i \in Queued(s) : queue[s][i].index < next_packet_index
        /\ Busy(s) => work[s].index < next_packet_index
    BY PlacesTyped DEF Undone
  <2>9. Ordered(s)'
    <3>1. Busy(s)' => \A i \in Queued(s)' : work'[s].index < queue'[s][i].index
      BY <1>1, <1>2, <2>2, <2>3, <2>4, <2>5, <2>8 DEF Ordered
    <3>2. ASSUME NEW i \in Queued(s)', NEW j \in Queued(s)', i < j
          PROVE  queue'[s][i].index < queue'[s][j].index
      <4>1. i \in Queued(s)
        BY <2>2, <2>4, <2>5, <3>2
      <4>2. CASE j \in Queued(s)
        BY <2>2, <2>4, <3>2, <4>1, <4>2 DEF Ordered
      <4>3. CASE j = n + 1
        BY <2>2, <2>3, <2>4, <2>8, <4>1, <4>3
      <4> QED
        BY <2>5, <4>2, <4>3
    <3> QED
      BY <3>1, <3>2 DEF Ordered
  <2>10. \A i \in Queued(s)' :
              \/ i \in Queued(s) /\ queue'[s][i] = queue[s][i]
              \/ queue'[s][i] = PacketCommand(next_packet_index, Current)
    BY <2>2, <2>4, <2>5 DEF c
  <2> QED
    BY <1>1, <1>2, <1>4, <2>7, <2>9, <2>10
<1> QED
  BY <1>3, <1>4

LEMMA ChannelsTyped ==
  ASSUME IInv
  PROVE  /\ results \in Seq(Result) /\ Len(results) \in Nat
         /\ \A i \in 1 .. Len(results) : results[i] \in Result /\ results[i].index \in Nat
                                         /\ results[i].warnings \in Nat
         /\ \A r \in pending : r \in Result /\ r.index \in Nat /\ r.warnings \in Nat
         /\ next_packet_index \in Nat /\ next_output_index \in Nat
         /\ losses \in Nat /\ \A s \in Shards : lost[s] \in Nat /\ warnings[s] \in Nat
<1>1. results \in Seq(Result) /\ pending \in SUBSET Result
  BY DEF IInv, TypeOK, ChannelType
<1>2. next_packet_index \in Nat /\ next_output_index \in Nat /\ losses \in Nat
  BY DEF IInv, TypeOK, ChannelType, CaptureType
<1>3. \A s \in Shards : lost[s] \in Nat /\ warnings[s] \in Nat
  BY DEF IInv, TypeOK, ReportType
<1>4. \A r \in Result : r.index \in Nat /\ r.warnings \in Nat
  BY DEF Result
<1>5. Len(results) \in Nat /\ \A i \in 1 .. Len(results) : results[i] \in Result
  BY <1>1
<1> QED
  BY <1>1, <1>2, <1>3, <1>4, <1>5

(* A step that leaves every number where it is, or takes results that wait *)
(* for their turn.                                                         *)
LEMMA NumbersKept ==
  ASSUME IInv, NumbersInv, \A s \in Shards : Undone(s)' = Undone(s) /\ Ordered(s)',
         results' = results, pending' \subseteq pending,
         next_packet_index' \in Nat, next_packet_index <= next_packet_index'
  PROVE  NumbersInv'
<1>1. Arrived' = Arrived /\ Waiting' \subseteq Waiting
  BY DEF Arrived, Waiting
<1>2. \A s \in Shards : \A k \in Undone(s) : k \in Nat
  BY PlacesTyped
<1>3. \A k \in Nat : k < next_packet_index => k < next_packet_index'
  BY ChannelsTyped
<1>4. \A s \in Shards : \A k \in Undone(s)' :
          /\ k < next_packet_index' /\ k \notin Arrived' /\ k \notin Waiting'
          /\ \A t \in Shards \ {s} : k \notin Undone(t)'
  BY <1>1, <1>2, <1>3 DEF NumbersInv
<1>5. \A i \in 1 .. Len(results') :
          /\ results'[i].index < next_packet_index' /\ results'[i].index \notin Waiting'
          /\ \A j \in 1 .. Len(results') : i # j => results'[i].index # results'[j].index
  BY <1>1, <1>3, ChannelsTyped DEF NumbersInv
<1>6. \A r \in pending' : r.index < next_packet_index'
  BY <1>3, ChannelsTyped DEF NumbersInv
<1> QED
  BY <1>4, <1>5, <1>6 DEF NumbersInv

LEMMA NumbersSubmit ==
  ASSUME IInv, NumbersInv, SubmitPacket
  PROVE  NumbersInv'
<1>1. \A s \in Shards : Ordered(s) /\ \A k \in Undone(s) : k < next_packet_index
  BY DEF NumbersInv
<1>2. \A s \in Shards :
        /\ Undone(s)' = Undone(s) \cup (IF s = ShardIndex(Current) THEN {next_packet_index}
                                                                  ELSE {})
        /\ Ordered(s)'
  BY <1>1, PlacesSubmit
<1>3. results' = results /\ pending' = pending /\ next_packet_index' = next_packet_index + 1
  BY DEF SubmitPacket, outVars
<1>4. Arrived' = Arrived /\ Waiting' = Waiting
  BY <1>3 DEF Arrived, Waiting
<1>5. \A s \in Shards : Undone(s) \subseteq Nat
  BY PlacesTyped
<1>6. next_packet_index \notin Arrived
  BY ChannelsTyped DEF Arrived, NumbersInv
<1>7. next_packet_index \notin Waiting
  BY ChannelsTyped DEF Waiting, NumbersInv
<1>8. \A k \in Nat : k < next_packet_index => k < next_packet_index' /\ k # next_packet_index
  BY <1>3, ChannelsTyped
<1>9. next_packet_index < next_packet_index'
  BY <1>3, ChannelsTyped
<1>10. ASSUME NEW s \in Shards, NEW k \in Undone(s)'
       PROVE  /\ k < next_packet_index' /\ k \notin Arrived' /\ k \notin Waiting'
              /\ \A t \in Shards \ {s} : k \notin Undone(t)'
  <2>1. CASE k \in Undone(s)
    BY <1>1, <1>2, <1>4, <1>5, <1>8, <2>1 DEF NumbersInv
  <2>2. CASE k = next_packet_index /\ s = ShardIndex(Current)
    BY <1>1, <1>2, <1>4, <1>5, <1>6, <1>7, <1>8, <1>9, <2>2
  <2> QED
    BY <1>2, <2>1, <2>2
<1>11. \A i \in 1 .. Len(results') :
          /\ results'[i].index < next_packet_index' /\ results'[i].index \notin Waiting'
          /\ \A j \in 1 .. Len(results') : i # j => results'[i].index # results'[j].index
  BY <1>3, <1>4, <1>8, ChannelsTyped DEF NumbersInv
<1>12. \A r \in pending' : r.index < next_packet_index'
  BY <1>3, <1>8, ChannelsTyped DEF NumbersInv
<1> QED
  BY <1>2, <1>10, <1>11, <1>12 DEF NumbersInv

LEMMA NumbersSend ==
  ASSUME IInv, NumbersInv, NEW s \in Shards, SendResult(s)
  PROVE  NumbersInv'
<1>1. /\ Undone(s)' = Undone(s) \ {work[s].index} /\ Ordered(s)'
      /\ work[s].index \in Undone(s)
      /\ results' = Append(results, [index |-> work[s].index, output |-> output[s],
                                     warnings |-> warnings[s]])
  BY PlacesSend DEF NumbersInv
<1>2. \A t \in Shards \ {s} : Undone(t)' = Undone(t) /\ Ordered(t)'
  <2> TAKE t \in Shards \ {s}
  <2>1. Worker(s)
    BY DEF Worker
  <2>2. queue'[t] = queue[t] /\ Busy(t)' = Busy(t) /\ work'[t] = work[t]
    BY <2>1, OthersKeep
  <2> QED
    BY <2>2, PlacesKept DEF NumbersInv
<1>3. PICK n : n = work[s].index
  OBVIOUS
<1>4. PICK r : r = [index |-> work[s].index, output |-> output[s], warnings |-> warnings[s]]
  OBVIOUS
<1>5. r.index = n /\ n \in Undone(s) /\ Undone(s)' = Undone(s) \ {n}
      /\ results' = Append(results, r)
  BY <1>1, <1>3, <1>4
<1>6. pending' = pending /\ next_packet_index' = next_packet_index
  BY DEF SendResult, captureSide, captureVars, outVars
<1>7. /\ Len(results') = Len(results) + 1 /\ results'[Len(results) + 1] = r
      /\ \A i \in 1 .. Len(results) : results'[i] = results[i]
  BY <1>5, ChannelsTyped
<1>8. /\ \A i \in 1 .. Len(results') : i \in 1 .. Len(results) \/ i = Len(results) + 1
      /\ \A i \in 1 .. Len(results) : i # Len(results) + 1
  BY <1>7, ChannelsTyped
<1>9. Waiting' = Waiting /\ Arrived' \subseteq Arrived \cup {n}
  <2>1. Arrived' \subseteq Arrived \cup {n}
    BY <1>5, <1>7, <1>8 DEF Arrived
  <2> QED
    BY <1>6, <2>1 DEF Waiting
<1>10. n < next_packet_index /\ n \notin Arrived /\ n \notin Waiting
  BY <1>5 DEF NumbersInv
<1>11. ASSUME NEW t \in Shards, NEW k \in Undone(t)'
       PROVE  /\ k < next_packet_index' /\ k \notin Arrived' /\ k \notin Waiting'
              /\ \A u \in Shards \ {t} : k \notin Undone(u)'
  <2>1. k \in Undone(t) /\ k # n
    BY <1>2, <1>5 DEF NumbersInv
  <2> QED
    BY <1>2, <1>5, <1>6, <1>9, <2>1 DEF NumbersInv
<1>12. ASSUME NEW i \in 1 .. Len(results')
       PROVE  /\ results'[i].index < next_packet_index' /\ results'[i].index \notin Waiting'
              /\ \A j \in 1 .. Len(results') : i # j => results'[i].index # results'[j].index
  <2>1. CASE i \in 1 .. Len(results)
    BY <1>5, <1>6, <1>7, <1>8, <1>9, <1>10, <2>1 DEF NumbersInv, Arrived
  <2>2. CASE i = Len(results) + 1
    BY <1>5, <1>6, <1>7, <1>8, <1>9, <1>10, <2>2 DEF Arrived
  <2> QED
    BY <1>8, <2>1, <2>2
<1>13. \A r1 \in pending' : r1.index < next_packet_index'
  BY <1>6 DEF NumbersInv
<1> QED
  BY <1>1, <1>2, <1>11, <1>12, <1>13 DEF NumbersInv

(* The first result of the channel waits for its turn now.                 *)
LEMMA Received ==
  ASSUME IInv, NumbersInv, ReceiveResult
  PROVE  /\ results # <<>> /\ 1 \in 1 .. Len(results)
         /\ pending' = pending \cup {results[1]}
         /\ Len(results') = Len(results) - 1
         /\ \A i \in 1 .. Len(results') :
               i + 1 \in 1 .. Len(results) /\ results'[i] = results[i + 1]
         /\ \A i \in 1 .. Len(results) :
               i = 1 \/ (i - 1 \in 1 .. Len(results') /\ results'[i - 1] = results[i])
         /\ Waiting' = Waiting \cup {results[1].index}
         /\ Arrived = Arrived' \cup {results[1].index}
<1>1. /\ results # <<>> /\ results' = Tail(results)
      /\ pending' = {r \in pending : r.index # Head(results).index} \cup {Head(results)}
  BY DEF ReceiveResult
<1>2. /\ Head(results) = results[1] /\ Len(results) \in Nat \ {0}
      /\ Len(results') = Len(results) - 1
      /\ \A i \in 1 .. Len(results) - 1 : results'[i] = results[i + 1]
  BY <1>1, ChannelsTyped
<1>3. 1 \in 1 .. Len(results)
  BY <1>2
<1>4. results[1].index \notin Waiting
  BY <1>3 DEF NumbersInv
<1>5. pending' = pending \cup {results[1]}
  BY <1>1, <1>2, <1>4 DEF Waiting
<1>6. \A i \in 1 .. Len(results') :
          i + 1 \in 1 .. Len(results) /\ results'[i] = results[i + 1]
  BY <1>2
<1>7. \A i \in 1 .. Len(results) :
          i = 1 \/ (i - 1 \in 1 .. Len(results') /\ results'[i - 1] = results[i])
  <2> TAKE i \in 1 .. Len(results)
  <2>1. CASE i # 1
    <3>1. i - 1 \in 1 .. Len(results) - 1 /\ (i - 1) + 1 = i
      BY <1>2, <2>1
    <3> QED
      BY <1>2, <3>1
  <2> QED
    BY <2>1
<1>8. Waiting' = Waiting \cup {results[1].index}
  BY <1>5 DEF Waiting
<1>9. Arrived = Arrived' \cup {results[1].index}
  BY <1>3, <1>6, <1>7 DEF Arrived
<1> QED
  BY <1>1, <1>2, <1>3, <1>5, <1>6, <1>7, <1>8, <1>9

LEMMA NumbersReceive ==
  ASSUME IInv, NumbersInv, ReceiveResult
  PROVE  NumbersInv'
<1>1. /\ queue' = queue /\ wpc' = wpc /\ wnext' = wnext /\ work' = work
      /\ next_packet_index' = next_packet_index
  BY DEF ReceiveResult, captureVars, workerVars
<1>2. \A s \in Shards : Undone(s)' = Undone(s) /\ Ordered(s)'
  <2> TAKE s \in Shards
  <2>1. Busy(s)' = Busy(s)
    BY <1>1 DEF Busy, At
  <2> QED
    BY <1>1, <2>1, PlacesKept DEF NumbersInv
<1>3. PICK h : h = results[1]
  OBVIOUS
<1>4. /\ 1 \in 1 .. Len(results) /\ pending' = pending \cup {h}
      /\ Len(results') = Len(results) - 1
      /\ \A i \in 1 .. Len(results') :
            i + 1 \in 1 .. Len(results) /\ results'[i] = results[i + 1]
      /\ Waiting' = Waiting \cup {h.index} /\ Arrived = Arrived' \cup {h.index}
  BY <1>3, Received
<1>5. \A s \in Shards : \A k \in Undone(s)' :
          /\ k < next_packet_index' /\ k \notin Arrived' /\ k \notin Waiting'
          /\ \A t \in Shards \ {s} : k \notin Undone(t)'
  BY <1>1, <1>2, <1>4 DEF NumbersInv
<1>6. ASSUME NEW i \in 1 .. Len(results')
      PROVE  /\ results'[i].index < next_packet_index' /\ results'[i].index \notin Waiting'
             /\ \A j \in 1 .. Len(results') : i # j => results'[i].index # results'[j].index
  <2>1. i \in Nat /\ 1 # i + 1 /\ \A j \in 1 .. Len(results') : i # j => i + 1 # j + 1
    OBVIOUS
  <2>2. i + 1 \in 1 .. Len(results) /\ results'[i] = results[i + 1]
    BY <1>4
  <2>3. results[i + 1].index # h.index
    BY <1>3, <1>4, <2>1, <2>2 DEF NumbersInv
  <2> QED
    BY <1>1, <1>4, <2>1, <2>2, <2>3 DEF NumbersInv
<1>7. \A r \in pending' : r.index < next_packet_index'
  BY <1>1, <1>3, <1>4 DEF NumbersInv
<1> QED
  BY <1>2, <1>5, <1>6, <1>7 DEF NumbersInv

LEMMA NumbersStep ==
  ASSUME IInv, [Next]_vars, NumbersInv
  PROVE  NumbersInv'
<1>0. \A s \in Shards : Ordered(s)
  BY DEF NumbersInv
<1>1. ASSUME queue' = queue, results' = results, UNCHANGED workerVars,
             pending' \subseteq pending,
             next_packet_index' = next_packet_index \/ next_packet_index' = next_packet_index + 1
      PROVE  NumbersInv'
  <2>1. \A s \in Shards : Undone(s)' = Undone(s) /\ Ordered(s)'
    <3> TAKE s \in Shards
    <3>1. Busy(s)' = Busy(s) /\ work' = work
      BY <1>1 DEF Busy, At, workerVars
    <3> QED
      BY <1>0, <1>1, <3>1, PlacesKept
  <2>2. next_packet_index' \in Nat /\ next_packet_index <= next_packet_index'
    BY <1>1, ChannelsTyped
  <2> QED
    BY <1>1, <2>1, <2>2, NumbersKept
<1>2. ASSUME \A s \in Shards : Undone(s)' = Undone(s) /\ Ordered(s)',
             results' = results, pending' = pending, next_packet_index' = next_packet_index
      PROVE  NumbersInv'
  BY <1>2, ChannelsTyped, NumbersKept
<1>3. CASE SendSweep
  BY <1>0, <1>2, <1>3, PlacesSweep DEF SendSweep, outVars
<1>4. ASSUME NEW s \in Shards, Worker(s)
      PROVE  NumbersInv'
  <2>1. pending' = pending /\ next_packet_index' = next_packet_index
    BY <1>4 DEF Worker, TakeCommand, HandleSyn, AcquireFlow, UpdateBytes, UndoBytes, HandleFin,
       ReleaseBytes, SendResult, EvictFlow, FlushFlows, captureSide, captureVars, outVars
  <2>2. \A t \in Shards \ {s} : Undone(t)' = Undone(t) /\ Ordered(t)'
    <3> TAKE t \in Shards \ {s}
    <3>1. queue'[t] = queue[t] /\ Busy(t)' = Busy(t) /\ work'[t] = work[t]
      BY <1>4, OthersKeep
    <3> QED
      BY <1>0, <3>1, PlacesKept
  <2>3. CASE WorkerPasses(s)
    <3>1. queue' = queue /\ results' = results /\ work' = work /\ Busy(s)' = Busy(s)
      BY <2>3, PassesKeep
    <3>2. Undone(s)' = Undone(s) /\ Ordered(s)'
      BY <1>0, <3>1, PlacesKept
    <3> QED
      BY <1>2, <2>1, <2>2, <3>1, <3>2
  <2>4. CASE TakeCommand(s)
    BY <1>0, <1>2, <2>1, <2>2, <2>4, PlacesTake
  <2>5. CASE SendResult(s)
    BY <2>5, NumbersSend
  <2> QED
    BY <1>4, <2>3, <2>4, <2>5 DEF Worker, WorkerPasses
<1>5. CASE WriteResult \/ WriteFails
  <2>1. /\ pending' \subseteq pending /\ queue' = queue /\ results' = results
        /\ UNCHANGED workerVars
        /\ next_packet_index' = next_packet_index
             \/ next_packet_index' = next_packet_index + (IF then = "send" THEN 1 ELSE 0)
    BY <1>5 DEF WriteResult, WriteFails
  <2>2. next_packet_index' = next_packet_index \/ next_packet_index' = next_packet_index + 1
    BY <2>1, ChannelsTyped
  <2> QED
    BY <1>1, <2>1, <2>2
<1>6. CASE \/ ReadPacket \/ DecodePacket \/ EndOfInput \/ DropSender \/ JoinWorker
           \/ Drained \/ Exit
  BY <1>1, <1>6 DEF ReadPacket, DecodePacket, EndOfInput, DropSender, JoinWorker, Drained,
     Exit, captureVars, outVars
<1>7. CASE UNCHANGED vars
  BY <1>1, <1>7 DEF vars, captureVars, outVars
<1> QED
  BY <1>3, <1>4, <1>5, <1>6, <1>7, NumbersSubmit, NumbersReceive
  DEF Next, CaptureThread, Terminated

-----------------------------------------------------------------------------
(* The end of the input.  A worker leaves when its queue is empty and      *)
(* nothing more can be queued; the losses it reports are added before the  *)
(* capture thread goes on; and what remains in the channel is taken.       *)
AtEnd == Goes({"end"}) \/ cpc = "exit"

LeavingInv ==
    /\ closed # {} => Goes({"join", "end"}) \/ cpc \in {"exit", "failed"}
    /\ \A s \in Shards : At(s, {"flush", "exited"}) => s \in closed /\ queue[s] = <<>>
    /\ Goes({"join"}) \/ AtEnd => pos = Len(capture)
    /\ cpc \in {"end", "exit"} => results = <<>>
    /\ cpc = "exit" => pending = {}
    /\ Goes({"join"}) => \A s \in Shards : s < sweeping /\ lost[s] > 0 => losses > 0
    /\ AtEnd => \A s \in Shards : lost[s] > 0 => losses > 0

LEMMA LeavingWorker ==
  ASSUME IInv, NEW s \in Shards, Worker(s), EndInv, LeavingInv
  PROVE  LeavingInv'
<1>1. UNCHANGED <<cpc, then, closed, pos, capture, sweeping, pending, losses>>
  BY DEF Worker, TakeCommand, HandleSyn, AcquireFlow, UpdateBytes, UndoBytes,
     HandleFin, ReleaseBytes, SendResult, EvictFlow, FlushFlows, captureSide, captureVars,
     outVars
<1>2. wpc[s] # "exited"
  BY DEF Worker, TakeCommand, HandleSyn, AcquireFlow, UpdateBytes, UndoBytes,
     HandleFin, ReleaseBytes, SendResult, EvictFlow, FlushFlows
<1>3. cpc \notin {"end", "exit"} /\ ~AtEnd
  BY <1>2 DEF EndInv, AtEnd, Goes
<1>4. Goes({"join"}) => ~(s < sweeping)
  BY <1>2 DEF EndInv
<1>5. /\ wpc \in [Shards -> WorkerPc] /\ wnext \in [Shards -> WorkerPc]
      /\ wnext[s] \in {"recv", "acquire", "send", "evict", "flush"}
      /\ lost \in [Shards -> Nat] /\ queue \in [Shards -> Seq(Command)]
  BY PlacesTyped DEF IInv, TypeOK, WorkerType, ReportType, ChannelType
<1>6. At(s, {"flush", "exited"})' => s \in closed' /\ queue'[s] = <<>>
  <2>1. CASE FlushFlows(s)
    BY <1>1, <1>5, <2>1 DEF FlushFlows, ReleaseFlow, At, LeavingInv
  <2>2. CASE ReleaseBytes(s)
    BY <1>1, <1>5, <2>2 DEF ReleaseBytes, At, LeavingInv
  <2>3. CASE EvictFlow(s) \/ TakeCommand(s) \/ SendResult(s)
    BY <1>5, <2>3 DEF EvictFlow, TakeCommand, SendResult, ReleaseFlow, At
  <2>4. CASE HandleSyn(s) \/ AcquireFlow(s) \/ UpdateBytes(s) \/ UndoBytes(s) \/ HandleFin(s)
    BY <1>5, <2>4 DEF HandleSyn, AcquireFlow, UpdateBytes, UndoBytes, HandleFin, ReleaseFlow, At
  <2> QED
    BY <2>1, <2>2, <2>3, <2>4 DEF Worker
<1>7. \A t \in Shards \ {s} : lost'[t] = lost[t]
  BY <1>5 DEF Worker, TakeCommand, HandleSyn, AcquireFlow, UpdateBytes, UndoBytes,
     HandleFin, ReleaseBytes, SendResult, EvictFlow, FlushFlows
<1>8. \A t \in Shards : At(t, {"flush", "exited"})' => t \in closed' /\ queue'[t] = <<>>
  BY <1>1, <1>6, OthersKeep DEF LeavingInv
<1>9. Goes({"join"}) => \A t \in Shards : t < sweeping /\ lost'[t] > 0 => losses > 0
  BY <1>4, <1>7 DEF LeavingInv
<1>10. ~AtEnd' /\ cpc' \notin {"end", "exit"}
  BY <1>1, <1>3 DEF AtEnd, Goes
<1>11. /\ closed' # {} => Goes({"join", "end"})' \/ cpc' \in {"exit", "failed"}
       /\ Goes({"join"})' <=> Goes({"join"})
  BY <1>1 DEF LeavingInv, Goes
<1> QED
  BY <1>1, <1>8, <1>9, <1>10, <1>11 DEF LeavingInv

LEMMA LeavingCapture ==
  ASSUME IInv, CaptureThread, EndInv, LeavingInv
  PROVE  LeavingInv'
<1>1. UNCHANGED <<wpc, wnext, lost, capture>>
  BY DEF CaptureThread, ReadPacket, SendSweep, DecodePacket, SubmitPacket,
     EndOfInput, DropSender, JoinWorker, ReceiveResult, WriteResult, WriteFails, Drained,
     Exit, workerVars, captureVars
<1>2. \A s \in Shards : lost[s] \in Nat /\ losses \in Nat
  BY ChannelsTyped
<1>3. /\ then \in {"read", "sweep", "decode", "send", "join", "end"}
      /\ sweeping \in 1 .. NShards + 1
  BY DEF IInv, TypeOK, CaptureType
<1>4. \A s \in Shards : At(s, {"flush", "exited"})' = At(s, {"flush", "exited"})
  BY <1>1 DEF At
<1>5. CASE ReadPacket \/ SendSweep \/ DecodePacket \/ SubmitPacket
  <2>1. /\ closed' = closed
        /\ \/ cpc = "sweep" \/ cpc = "decode" \/ cpc = "send" \/ cpc = "read"
        /\ \/ cpc' = "drain" /\ then' \in {"sweep", "decode", "send", "read"}
           \/ cpc' \in {"read", "decode", "sweep"}
    BY <1>5 DEF ReadPacket, SendSweep, DecodePacket, SubmitPacket, DrainThen
  <2>2. closed = {}
    BY <2>1 DEF LeavingInv, Goes
  <2>3. \A s \in Shards : ~At(s, {"flush", "exited"})
    BY <2>2 DEF LeavingInv
  <2>4. ~Goes({"join"})' /\ ~AtEnd' /\ cpc' \notin {"end", "exit"}
    BY <2>1 DEF Goes, AtEnd
  <2> QED
    BY <1>4, <2>1, <2>2, <2>3, <2>4 DEF LeavingInv
<1>6. CASE EndOfInput
  <2>1. /\ closed' = closed /\ queue' = queue /\ sweeping' = 1 /\ cpc' = "drain"
        /\ then' = "join" /\ pos' = pos /\ pos = Len(capture) /\ cpc = "read"
    BY <1>6 DEF EndOfInput, DrainThen
  <2>2. \A s \in Shards : ~(s < 1)
    BY <1>3, ShardOrder
  <2>3. Goes({"join"})' /\ ~AtEnd' /\ cpc' \notin {"end", "exit"} /\ Goes({"join", "end"})'
    BY <2>1 DEF Goes, AtEnd
  <2> QED
    BY <1>1, <1>4, <2>1, <2>2, <2>3 DEF LeavingInv
<1>7. CASE DropSender
  <2>1. /\ closed' = closed \cup {sweeping} /\ queue' = queue /\ cpc = "join"
        /\ UNCHANGED <<cpc, then, pos, sweeping, losses>>
    BY <1>7 DEF DropSender, captureVars
  <2>2. Goes({"join"})' /\ ~AtEnd' /\ cpc' \notin {"end", "exit"} /\ Goes({"join", "end"})'
        /\ Goes({"join"})
    BY <2>1 DEF Goes, AtEnd
  <2> QED
    BY <1>1, <1>4, <2>1, <2>2 DEF LeavingInv
<1>8. CASE JoinWorker
  <2>1. /\ closed' = closed /\ queue' = queue /\ cpc = "join" /\ pos' = pos
        /\ losses' = losses + lost[sweeping] /\ sweeping' = sweeping + 1
        /\ IF sweeping = NShards THEN cpc' = "drain" /\ then' = "end"
                                 ELSE cpc' = cpc /\ then' = then
    BY <1>8 DEF JoinWorker, DrainThen
  <2>2. sweeping \in Shards /\ Goes({"join"})
    BY <2>1 DEF IInv, CaptureInv, Goes
  <2>3. lost[sweeping] \in Nat
    BY <1>2, <2>2
  <2>4. \A s \in Shards : s < sweeping + 1 /\ lost[s] > 0 => losses' > 0
    <3> TAKE s \in Shards
    <3>1. s < sweeping + 1 => s < sweeping \/ s = sweeping
      BY <1>3, ShardOrder
    <3>2. s < sweeping /\ lost[s] > 0 => losses > 0
      BY <2>2 DEF LeavingInv
    <3> QED
      BY <1>2, <2>1, <2>3, <3>1, <3>2
  <2>5. sweeping = NShards => \A s \in Shards : s < sweeping + 1
    BY <1>3, ShardOrder
  <2>6. /\ Goes({"join", "end"})' /\ cpc' \notin {"end", "exit"}
        /\ AtEnd' => sweeping = NShards
    BY <2>1 DEF Goes, AtEnd
  <2>7. pos' = Len(capture')
    BY <1>1, <2>1, <2>2 DEF LeavingInv
  <2> QED
    BY <1>1, <1>4, <2>1, <2>4, <2>5, <2>6, <2>7 DEF LeavingInv
<1>9. CASE ReceiveResult \/ WriteResult
  <2>1. /\ cpc = "drain" /\ UNCHANGED <<closed, queue, cpc, then, pos, sweeping>>
    BY <1>9 DEF ReceiveResult, WriteResult, captureVars
  <2>2. losses > 0 => losses' > 0
    <3>1. CASE ReceiveResult
      BY <3>1 DEF ReceiveResult, captureVars
    <3>2. CASE WriteResult
      <4>1. PICK r \in Due : losses' = losses + r.warnings
        BY <3>2 DEF WriteResult
      <4>2. r.warnings \in Nat
        BY <4>1, ChannelsTyped DEF Due
      <4> QED
        BY <1>2, <4>1, <4>2, ChannelsTyped
    <3> QED
      BY <1>9, <3>1, <3>2
  <2>3. /\ Goes({"join"})' = Goes({"join"}) /\ AtEnd' = AtEnd
        /\ Goes({"join", "end"})' = Goes({"join", "end"})
        /\ cpc' \notin {"end", "exit"}
    BY <2>1 DEF Goes, AtEnd
  <2>4. closed' # {} => Goes({"join", "end"})'
    BY <2>1, <2>3 DEF LeavingInv
  <2> QED
    BY <1>1, <1>4, <2>1, <2>2, <2>3, <2>4 DEF LeavingInv
<1>10. CASE WriteFails
  <2>1. /\ cpc = "drain" /\ UNCHANGED <<closed, queue, pos, then>>
        /\ cpc' = IF then \in {"send", "read"} THEN "read" ELSE "failed"
    BY <1>10 DEF WriteFails
  <2>2. cpc' = "read" => closed = {}
    BY <2>1 DEF LeavingInv, Goes
  <2>3. ~Goes({"join"})' /\ ~AtEnd' /\ cpc' \in {"read", "failed"}
    BY <2>1 DEF Goes, AtEnd
  <2> QED
    BY <1>4, <2>1, <2>2, <2>3 DEF LeavingInv
<1>11. CASE Drained
  <2>1. /\ cpc = "drain" /\ cpc' = then /\ results = <<>>
        /\ UNCHANGED <<closed, queue, pos, then, results, sweeping, losses>>
    BY <1>11 DEF Drained
  <2>2. /\ Goes({"join"})' <=> Goes({"join"})
        /\ AtEnd' <=> AtEnd
        /\ Goes({"join", "end"})' <=> Goes({"join", "end"})
        /\ cpc' # "exit"
    BY <1>3, <2>1 DEF Goes, AtEnd
  <2> QED
    BY <1>1, <1>4, <2>1, <2>2 DEF LeavingInv
<1>12. CASE Exit
  <2>1. /\ cpc = "end" /\ cpc' \in {"exit", "failed"} /\ (cpc' = "exit" => pending = {})
        /\ UNCHANGED <<closed, queue, pos, then, results, sweeping, losses, pending>>
    BY <1>12 DEF Exit, outVars
  <2>2. AtEnd /\ ~Goes({"join"})' /\ cpc' \in {"exit", "failed"}
    BY <2>1 DEF Goes, AtEnd
  <2> QED
    BY <1>1, <1>4, <2>1, <2>2 DEF LeavingInv
<1> QED
  BY <1>5, <1>6, <1>7, <1>8, <1>9, <1>10, <1>11, <1>12 DEF CaptureThread

LEMMA LeavingStep ==
  ASSUME IInv, [Next]_vars, EndInv, LeavingInv
  PROVE  LeavingInv'
<1>1. CASE UNCHANGED vars
  BY <1>1 DEF vars, captureVars, outVars, workerVars, LeavingInv, Goes, AtEnd, At
<1> QED
  BY <1>1, LeavingWorker, LeavingCapture DEF Next, Terminated

-----------------------------------------------------------------------------
(* A run without a loss so far: none counted, none on its way.             *)
Clean ==
    /\ losses = 0 /\ cpc # "failed"
    /\ \A s \in Shards : lost[s] = 0 /\ (Busy(s) => warnings[s] = 0)
    /\ \A i \in 1 .. Len(results) : results[i].warnings = 0
    /\ \A r \in pending : r.warnings = 0

(* A loss stays: no step makes a run clean that was not.                   *)
LEMMA CleanBefore ==
  ASSUME IInv, NumbersInv, [Next]_vars, Clean'
  PROVE  Clean
<1>1. /\ warnings \in [Shards -> Nat] /\ lost \in [Shards -> Nat] /\ losses \in Nat
      /\ wpc \in [Shards -> WorkerPc] /\ wnext \in [Shards -> WorkerPc]
      /\ flow \in [Flows -> [held : Nat, last_seen : Nat] \cup {NoFlow}]
  BY DEF IInv, TypeOK, CaptureType, WorkerType, ReportType, BudgetType
<1>2. /\ losses' = 0 /\ cpc' # "failed"
      /\ \A s \in Shards : lost'[s] = 0 /\ (Busy(s)' => warnings'[s] = 0)
      /\ \A i \in 1 .. Len(results') : results'[i].warnings = 0
      /\ \A r \in pending' : r.warnings = 0
  BY DEF Clean
<1>3. CASE UNCHANGED vars
  BY <1>3, <1>2 DEF vars, captureVars, outVars, workerVars, Clean, Busy, At
<1>4. ASSUME NEW s \in Shards, Worker(s) PROVE Clean
  <2>1. UNCHANGED <<losses, cpc, pending>>
    BY <1>4 DEF Worker, TakeCommand, HandleSyn, AcquireFlow, UpdateBytes, UndoBytes,
       HandleFin, ReleaseBytes, SendResult, EvictFlow, FlushFlows, captureSide, captureVars,
       outVars
  <2>2. \A t \in Shards \ {s} : /\ lost'[t] = lost[t] /\ warnings'[t] = warnings[t]
                                /\ Busy(t)' = Busy(t)
    <3>1. \A t \in Shards \ {s} : lost'[t] = lost[t] /\ warnings'[t] = warnings[t]
      BY <1>1, <1>4 DEF Worker, TakeCommand, HandleSyn, AcquireFlow, UpdateBytes, UndoBytes,
         HandleFin, ReleaseBytes, SendResult, EvictFlow, FlushFlows
    <3> QED
      BY <1>4, <3>1, OthersKeep
  <2>3. \A t \in Shards \ {s} : lost[t] = 0 /\ (Busy(t) => warnings[t] = 0)
    BY <1>2, <2>2
  <2>4. lost[s] = 0
    <3>1. lost'[s] = lost[s] \/ \E f : lost'[s] = lost[s] + (IF flow[f].held > 0 THEN 1 ELSE 0)
      BY <1>1, <1>4 DEF Worker, TakeCommand, HandleSyn, AcquireFlow, UpdateBytes, UndoBytes,
         HandleFin, ReleaseBytes, SendResult, EvictFlow, FlushFlows
    <3> QED
      BY <1>1, <1>2, <3>1
  <2>5. CASE SendResult(s)
    <3>1. /\ results' = Append(results, [index |-> work[s].index, output |-> output[s],
                                         warnings |-> warnings[s]])
          /\ Len(results') = Len(results) + 1
          /\ results'[Len(results) + 1].warnings = warnings[s]
          /\ \A i \in 1 .. Len(results) : results'[i] = results[i]
          /\ Len(results) \in Nat
      BY <2>5, ChannelsTyped DEF SendResult
    <3>2. Len(results) + 1 \in 1 .. Len(results')
          /\ \A i \in 1 .. Len(results) : i \in 1 .. Len(results')
      BY <3>1
    <3>3. warnings[s] = 0 /\ \A i \in 1 .. Len(results) : results[i].warnings = 0
      BY <1>2, <3>1, <3>2
    <3> QED
      BY <1>2, <2>1, <2>3, <2>4, <3>3 DEF Clean
  <2>6. CASE TakeCommand(s)
    <3>1. ~Busy(s) /\ results' = results
      BY <2>6 DEF TakeCommand, Busy, At, InPacket
    <3> QED
      BY <1>2, <2>1, <2>3, <2>4, <3>1 DEF Clean
  <2>7. CASE WorkerPasses(s)
    <3>1. results' = results /\ Busy(s)' = Busy(s)
      BY <2>7, PassesKeep
    <3>2. warnings'[s] = 0 => warnings[s] = 0
      <4>1. CASE HandleSyn(s) \/ HandleFin(s)
        <5>1. \/ warnings' = warnings
              \/ \E n \in {0, 1} : warnings' = [warnings EXCEPT ![s] = @ + n]
          BY <4>1 DEF HandleSyn, HandleFin
        <5> QED
          BY <1>1, <5>1
      <4>2. CASE AcquireFlow(s)
        <5>1. warnings' = warnings \/ warnings' = [warnings EXCEPT ![s] = 1]
          BY <4>2 DEF AcquireFlow
        <5> QED
          BY <1>1, <5>1
      <4>3. CASE UpdateBytes(s) \/ UndoBytes(s)
        <5>1. \E n \in {0, 1} : warnings' = [warnings EXCEPT ![s] = @ + n]
          BY <4>3 DEF UpdateBytes, UndoBytes, Reassembled
        <5> QED
          BY <1>1, <5>1
      <4>4. CASE ReleaseBytes(s) \/ EvictFlow(s) \/ FlushFlows(s)
        BY <4>4 DEF ReleaseBytes, EvictFlow, FlushFlows
      <4> QED
        BY <2>7, <4>1, <4>2, <4>3, <4>4 DEF WorkerPasses
    <3> QED
      BY <1>2, <2>1, <2>3, <2>4, <3>1, <3>2 DEF Clean
  <2> QED
    BY <1>4, <2>5, <2>6, <2>7 DEF Worker, WorkerPasses
<1>5. CASE CaptureThread
  <2>1. UNCHANGED <<wpc, wnext, lost, warnings>> /\ cpc # "failed"
    BY <1>5 DEF CaptureThread, ReadPacket, SendSweep, DecodePacket, SubmitPacket,
       EndOfInput, DropSender, JoinWorker, ReceiveResult, WriteResult, WriteFails, Drained,
       Exit, workerVars
  <2>2. \A s \in Shards : lost[s] = 0 /\ (Busy(s) => warnings[s] = 0)
    BY <1>2, <2>1 DEF Busy, At
  <2>3. CASE ReceiveResult
    <3>1. losses' = losses
      BY <2>3 DEF ReceiveResult, captureVars
    <3>2. /\ pending' = pending \cup {results[1]}
          /\ \A i \in 1 .. Len(results) :
               i = 1 \/ (i - 1 \in 1 .. Len(results') /\ results'[i - 1] = results[i])
      BY <2>3, Received
    <3>3. \A r \in pending : r.warnings = 0
      BY <1>2, <3>2
    <3>4. \A i \in 1 .. Len(results) : results[i].warnings = 0
      BY <1>2, <3>2
    <3> QED
      BY <1>2, <2>1, <2>2, <3>1, <3>3, <3>4 DEF Clean
  <2>4. CASE WriteResult \/ WriteFails
    <3>1. PICK r \in Due : pending' = pending \ {r} /\ \E n \in {0, 1} :
                              losses' = losses + r.warnings + n
      <4>1. CASE WriteResult
        <5>1. PICK r \in Due : pending' = pending \ {r} /\ losses' = losses + r.warnings
          BY <4>1 DEF WriteResult
        <5>2. losses' = losses + r.warnings + 0
          BY <1>1, <5>1, ChannelsTyped DEF Due
        <5> QED
          BY <5>1, <5>2
      <4> QED
        BY <2>4, <4>1 DEF WriteFails, FailureLoss
    <3>2. r \in pending /\ r.warnings \in Nat
      BY <3>1, ChannelsTyped DEF Due
    <3>3. losses = 0 /\ r.warnings = 0
      BY <1>1, <1>2, <3>1, <3>2
    <3>4. results' = results
      BY <2>4 DEF WriteResult, WriteFails
    <3> QED
      BY <1>2, <2>1, <2>2, <3>1, <3>3, <3>4 DEF Clean
  <2>5. CASE JoinWorker
    <3>1. /\ losses' = losses + lost[sweeping] /\ results' = results /\ pending' = pending
          /\ cpc = "join"
      BY <2>5 DEF JoinWorker, outVars
    <3>2. lost[sweeping] \in Nat
      BY <1>1, <3>1 DEF IInv, CaptureInv, Goes
    <3> QED
      BY <1>1, <1>2, <2>1, <2>2, <3>1, <3>2 DEF Clean
  <2>6. CASE DecodePacket
    <3>1. /\ results' = results /\ pending' = pending
          /\ \E n \in {0, 1} : losses' = losses + n
      BY <1>1, <2>6 DEF DecodePacket, outVars
    <3> QED
      BY <1>1, <1>2, <2>1, <2>2, <3>1 DEF Clean
  <2>7. CASE \/ ReadPacket \/ SendSweep \/ SubmitPacket \/ EndOfInput \/ DropSender
             \/ Drained \/ Exit
    <3>1. UNCHANGED <<results, pending, losses>>
      BY <2>7 DEF ReadPacket, SendSweep, SubmitPacket, EndOfInput, DropSender, Drained, Exit,
         captureVars, outVars
    <3> QED
      BY <1>2, <2>1, <2>2, <3>1 DEF Clean
  <2> QED
    BY <1>5, <2>3, <2>4, <2>5, <2>6, <2>7 DEF CaptureThread
<1> QED
  BY <1>3, <1>4, <1>5 DEF Next, Terminated

-----------------------------------------------------------------------------
(* What holds of a run without a loss.                                     *)
Pkt(k)  == NthWork(capture, k)
Numbers == 0 .. next_packet_index - 1
Past    == {"sweep", "decode", "send"}
HasRead == IF Goes(Past) THEN pos - 1 ELSE pos

(* What reassembly keeps of a packet's bytes, and what it writes.          *)
Kept(p) ==
    IF p.size = 0 THEN p.prior ELSE IF p.completes THEN 0 ELSE p.prior + p.size
Expected(p) == IF p.completes THEN p.prior + p.size ELSE 0

(* Every packet dealt with was readable, and those to be handled have the  *)
(* numbers from zero.                                                      *)
ReadInv ==
    /\ next_packet_index = Cardinality(WorksOf(capture, HasRead))
    /\ \A j \in 1 .. HasRead : capture[j].decodes_to # "error"
    /\ Goes({"send"}) => Current.decodes_to = "work"

(* A command is the packet of its number, and a shard answers its packets  *)
(* in their order.                                                         *)
Commands(s) ==
    /\ \A i \in Queued(s) : queue[s][i].packet = Pkt(queue[s][i].index)
    /\ Busy(s) => Packet(s) = Pkt(work[s].index)
    /\ \A k \in Undone(s) : \A m \in Numbers :
          k < m /\ ShardOf[Pkt(m).flow] = s => m \in Undone(s)

CommandInv == \A s \in Shards : Commands(s)

(* No number gets lost between the queue and the output.                   *)
NothingGoes ==
    \A k \in Numbers : \/ k < next_output_index \/ k \in Waiting \/ k \in Arrived
                       \/ \E s \in Shards : k \in Undone(s)

(* A result has what its packet completes.                                 *)
Answers(r) == r.index \in Numbers /\ r.output = Expected(Pkt(r.index))

ResultInv ==
    /\ next_output_index <= next_packet_index
    /\ \A i \in 1 .. Len(results) : Answers(results[i])
    /\ \A r \in pending : Answers(r)
    /\ \A i \in 1 .. Len(out) : Answers(out[i])

(* What the packets of a flow leave of an unfinished message.  The flow    *)
(* holds that many bytes, unless its worker is between counting the bytes  *)
(* of a packet and answering it.                                           *)
DoneOf(f) == {k \in Numbers : Pkt(k).flow = f /\ k \notin Undone(ShardOf[f])}
Leaves(f, h) ==
    /\ DoneOf(f) = {} => h = 0
    /\ \A k \in DoneOf(f) : (\A m \in DoneOf(f) : m <= k) => h = Unfinished(Pkt(k))
Updated(s, f) == At(s, {"undo", "fin", "send"}) /\ Key(s) = f

FlowInv == \A f \in Flows : ~Updated(ShardOf[f], f) => Leaves(f, HeldOf(flow)[f])

AtHand(s) ==
    /\ At(s, {"acquire", "update"}) /\ Packet(s).syn => HeldOf(flow)[Key(s)] = 0
    /\ wpc[s] = "fin" => /\ HeldOf(flow)[Key(s)] = Kept(Packet(s))
                         /\ output[s] = Expected(Packet(s))
    /\ At(s, {"send"}) => /\ HeldOf(flow)[Key(s)] = Unfinished(Packet(s))
                          /\ output[s] = Expected(Packet(s))

HandInv == \A s \in Shards : AtHand(s)

Faithful == ReadInv /\ CommandInv /\ NothingGoes /\ ResultInv /\ FlowInv /\ HandInv

LEMMA NumbersTyped ==
  ASSUME IInv, ReadInv
  PROVE  /\ capture \in Seq(Packets) /\ CountsPrior(capture) /\ HasRead \in 0 .. Len(capture)
         /\ Len(capture) \in Nat /\ next_packet_index \in Nat
         /\ \A k \in Numbers : /\ k \in NumbersOf(capture) /\ k \in Nat
                               /\ Pkt(k) \in PacketType /\ Pkt(k) \in Packets
                               /\ Pkt(k).flow \in Flows /\ ShardOf[Pkt(k).flow] \in Shards
<1>1. capture \in Captures /\ pos \in 0 .. Len(capture) /\ next_packet_index \in Nat
  BY DEF IInv, TypeOK, CaptureType
<1>2. capture \in Seq(Packets) /\ CountsPrior(capture) /\ Len(capture) \in Nat
  BY <1>1, PriorAssumption
<1>3. HasRead \in 0 .. Len(capture)
  BY <1>1, <1>2 DEF HasRead, IInv, CaptureInv, Past
<1>4. HasRead \in Nat /\ HasRead <= Len(capture)
  BY <1>2, <1>3
<1>5. Cardinality(WorksOf(capture, HasRead)) <= Cardinality(WorksOf(capture, Len(capture)))
  BY <1>2, <1>4, WorksGrow
<1>6. Len(capture) \in Int
  BY <1>2
<1>7. Cardinality(WorksOf(capture, Len(capture))) \in Nat
  BY <1>6, WorksFinite
<1>8. \A k \in Numbers : k \in NumbersOf(capture) /\ k \in Nat
  BY <1>1, <1>5, <1>7 DEF ReadInv, Numbers, NumbersOf
<1> QED
  BY <1>1, <1>2, <1>3, <1>8, NthTyped DEF Pkt

(* In a clean run no write fails.                                          *)
LEMMA CleanWrites ==
  ASSUME IInv, Clean', WriteFails
  PROVE  FALSE
<1>1. PICK r \in Due : losses' = losses + r.warnings + FailureLoss
  BY DEF WriteFails
<1>2. r.warnings \in Nat /\ losses \in Nat
  BY <1>1, ChannelsTyped DEF Due
<1>3. losses' = 0 /\ cpc' # "failed"
  BY DEF Clean
<1>4. CASE then \in {"send", "read"}
  BY <1>1, <1>2, <1>3, <1>4 DEF FailureLoss
<1>5. CASE then \notin {"send", "read"}
  BY <1>3, <1>5 DEF WriteFails
<1> QED
  BY <1>4, <1>5

LEMMA ReadKept ==
  ASSUME ReadInv, capture' = capture, next_packet_index' = next_packet_index,
         HasRead' = HasRead, Goes({"send"})' => Goes({"send"}) /\ pos' = pos
  PROVE  ReadInv'
BY DEF ReadInv, Current

LEMMA ReadStep ==
  ASSUME IInv, [Next]_vars, Clean', ReadInv
  PROVE  ReadInv'
<1>1. /\ pos \in Nat /\ pos \in 0 .. Len(capture) /\ next_packet_index \in Nat
      /\ then \in {"read", "sweep", "decode", "send", "join", "end"}
      /\ HasRead \in 0 .. Len(capture) /\ losses \in Nat /\ capture \in Seq(Packets)
      /\ \A i \in 1 .. Len(capture) : capture[i] \in PacketType
  BY NumbersTyped, CaptureTyped DEF IInv, TypeOK, CaptureType
<1>2. CASE UNCHANGED <<capture, next_packet_index, pos, cpc, then>>
  BY <1>2, ReadKept DEF HasRead, Goes
<1>3. CASE ReadPacket
  <2>1. /\ cpc = "read" /\ pos' = pos + 1
        /\ cpc' = "decode" \/ (cpc' = "drain" /\ then' = "sweep")
        /\ UNCHANGED <<capture, next_packet_index>>
    BY <1>3 DEF ReadPacket, DrainThen
  <2>2. HasRead = pos /\ HasRead' = pos' - 1 /\ ~Goes({"send"})'
    BY <2>1 DEF HasRead, Goes, Past
  <2> QED
    BY <1>1, <2>1, <2>2, ReadKept
<1>4. CASE SendSweep
  <2>1. /\ cpc = "sweep" /\ UNCHANGED <<pos, capture, next_packet_index>>
        /\ cpc' = "sweep" \/ (cpc' = "drain" /\ then' = "decode")
    BY <1>4 DEF SendSweep, DrainThen
  <2>2. HasRead' = HasRead /\ ~Goes({"send"})'
    BY <2>1 DEF HasRead, Goes, Past
  <2> QED
    BY <2>1, <2>2, ReadKept
<1>5. CASE DecodePacket
  <2>1. cpc = "decode" /\ UNCHANGED <<pos, capture, next_packet_index>>
    BY <1>5 DEF DecodePacket
  <2>2. HasRead = pos - 1 /\ pos - 1 \in Nat /\ pos \in 1 .. Len(capture)
    BY <1>1, <2>1 DEF HasRead, Goes, Past
  <2>3. CASE Current.decodes_to = "work"
    <3>1. cpc' = "drain" /\ then' = "send"
      BY <1>5, <2>3 DEF DecodePacket, DrainThen
    <3>2. HasRead' = HasRead
      BY <2>1, <2>2, <3>1 DEF HasRead, Goes, Past
    <3> QED
      BY <2>1, <2>3, <3>2 DEF ReadInv, Current
  <2>4. CASE Current.decodes_to # "work"
    <3>1. /\ cpc' = "read"
          /\ losses' = losses + (IF Current.decodes_to = "error" THEN 1 ELSE 0)
      BY <1>5, <2>4 DEF DecodePacket
    <3>2. losses' = 0
      BY DEF Clean
    <3>3. capture[pos].decodes_to # "error" /\ capture[pos].decodes_to # "work"
      BY <1>1, <2>4, <3>1, <3>2 DEF Current
    <3>4. HasRead' = pos /\ ~Goes({"send"})'
      BY <2>1, <3>1 DEF HasRead, Goes, Past
    <3>5. Cardinality(WorksOf(capture, (pos - 1) + 1)) =
            Cardinality(WorksOf(capture, pos - 1))
              + (IF capture[(pos - 1) + 1].decodes_to = "work" THEN 1 ELSE 0)
      BY <2>2, WorksNext
    <3>6. (pos - 1) + 1 = pos
      BY <2>2
    <3>7. Cardinality(WorksOf(capture, pos)) = next_packet_index
      BY <1>1, <2>2, <3>3, <3>5, <3>6 DEF ReadInv
    <3>8. \A j \in 1 .. pos : capture[j].decodes_to # "error"
      BY <2>2, <3>3 DEF ReadInv
    <3> QED
      BY <2>1, <3>4, <3>7, <3>8 DEF ReadInv
  <2> QED
    BY <2>3, <2>4
<1>6. CASE SubmitPacket
  <2>1. /\ cpc = "send" /\ UNCHANGED <<pos, capture>>
        /\ next_packet_index' = next_packet_index + 1
        /\ cpc' = "drain" /\ then' = "read"
    BY <1>6 DEF SubmitPacket, DrainThen
  <2>2. HasRead = pos - 1 /\ pos - 1 \in Nat /\ pos \in 1 .. Len(capture)
    BY <1>1, <2>1 DEF HasRead, Goes, Past
  <2>3. HasRead' = pos /\ ~Goes({"send"})'
    BY <2>1 DEF HasRead, Goes, Past
  <2>4. capture[pos].decodes_to = "work"
    BY <2>1 DEF ReadInv, Goes, Current
  <2>5. Cardinality(WorksOf(capture, (pos - 1) + 1)) =
          Cardinality(WorksOf(capture, pos - 1))
            + (IF capture[(pos - 1) + 1].decodes_to = "work" THEN 1 ELSE 0)
    BY <2>2, WorksNext
  <2>6. (pos - 1) + 1 = pos
    BY <2>2
  <2>7. Cardinality(WorksOf(capture, pos)) = next_packet_index + 1
    BY <2>2, <2>4, <2>5, <2>6 DEF ReadInv
  <2>8. \A j \in 1 .. pos : capture[j].decodes_to # "error"
    BY <2>2, <2>4 DEF ReadInv
  <2> QED
    BY <2>1, <2>3, <2>7, <2>8 DEF ReadInv
<1>7. CASE EndOfInput \/ JoinWorker \/ Exit \/ DropSender
  <2>1. /\ cpc \in {"read", "join", "end"} /\ UNCHANGED <<pos, capture, next_packet_index>>
        /\ \/ cpc' \in {"join", "exit", "failed"}
           \/ cpc' = "drain" /\ then' \in {"join", "end"}
    BY <1>7 DEF EndOfInput, JoinWorker, Exit, DropSender, DrainThen, captureVars
  <2>2. HasRead' = HasRead /\ ~Goes({"send"})'
    BY <2>1 DEF HasRead, Goes, Past
  <2> QED
    BY <2>1, <2>2, ReadKept
<1>8. CASE Drained
  <2>1. /\ cpc = "drain" /\ cpc' = then /\ UNCHANGED <<then, pos, capture, next_packet_index>>
    BY <1>8 DEF Drained
  <2>2. Goes(Past)' = Goes(Past) /\ Goes({"send"})' = Goes({"send"})
    BY <1>1, <2>1 DEF Goes, Past
  <2> QED
    BY <2>1, <2>2, ReadKept DEF HasRead
<1>9. ASSUME NEW s \in Shards, Worker(s) PROVE ReadInv'
  BY <1>2, <1>9 DEF Worker, TakeCommand, HandleSyn, AcquireFlow, UpdateBytes, UndoBytes,
     HandleFin, ReleaseBytes, SendResult, EvictFlow, FlushFlows, captureSide, captureVars
<1>10. CASE ReceiveResult \/ WriteResult \/ UNCHANGED vars
  BY <1>2, <1>10 DEF ReceiveResult, WriteResult, captureVars, vars
<1> QED
  BY <1>3, <1>4, <1>5, <1>6, <1>7, <1>8, <1>9, <1>10, CleanWrites
  DEF Next, Terminated, CaptureThread

LEMMA SamePackets ==
  ASSUME capture' = capture
  PROVE  \A k : Pkt(k)' = Pkt(k)
BY DEF Pkt

LEMMA CommandsKept ==
  ASSUME NEW s \in Shards, Commands(s), capture' = capture,
         next_packet_index' = next_packet_index, Undone(s)' = Undone(s),
         \A i \in Queued(s)' : \E j \in Queued(s) : queue'[s][i] = queue[s][j],
         \/ Busy(s)' => Busy(s) /\ work'[s] = work[s]
         \/ \E j \in Queued(s) : work'[s] = queue[s][j]
  PROVE  Commands(s)'
<1>1. \A k : Pkt(k)' = Pkt(k)
  BY SamePackets
<1>2. Numbers' = Numbers
  BY DEF Numbers
<1>3. \A i \in Queued(s)' : queue'[s][i].packet = Pkt(queue'[s][i].index)
  BY DEF Commands
<1>4. Busy(s)' => work'[s].packet = Pkt(work'[s].index)
  BY DEF Commands, Packet
<1> HIDE DEF Pkt, Numbers, Undone, Queued, Busy
<1> QED
  BY <1>1, <1>2, <1>3, <1>4 DEF Commands, Packet

LEMMA CommandsSend ==
  ASSUME IInv, NumbersInv, NEW s \in Shards, SendResult(s), Commands(s)
  PROVE  Commands(s)'
<1>1. /\ Undone(s)' = Undone(s) \ {work[s].index} /\ ~Busy(s)' /\ Busy(s)
      /\ queue' = queue /\ work' = work
  BY PlacesSend DEF NumbersInv
<1>2. capture' = capture /\ next_packet_index' = next_packet_index
  BY DEF SendResult, captureSide, captureVars
<1>3. (\A k : Pkt(k)' = Pkt(k)) /\ Numbers' = Numbers /\ Queued(s)' = Queued(s)
  BY <1>1, <1>2, SamePackets DEF Numbers, Queued
<1>4. work[s].index \in Nat /\ \A k \in Undone(s)' : k \in Nat /\ work[s].index < k
  <2>1. work[s].index \in Nat /\ \A i \in Queued(s) : work[s].index < queue[s][i].index
    BY <1>1, PlacesTyped DEF NumbersInv, Ordered
  <2>2. ASSUME NEW k \in Undone(s)'
        PROVE  k \in Nat /\ \E i \in Queued(s) : queue[s][i].index = k
    <3>1. k \in Undone(s) /\ k # work[s].index
      BY <1>1
    <3> QED
      BY <3>1 DEF Undone
  <2> QED
    BY <2>1, <2>2
<1>5. ASSUME NEW k \in Undone(s)', NEW m \in Numbers', k < m, ShardOf[Pkt(m).flow] = s
      PROVE  m \in Undone(s)'
  <2>1. m \in Undone(s)
    BY <1>1, <1>3, <1>5 DEF Commands
  <2>2. m \in Nat
    BY <2>1 DEF Undone
  <2>3. m # work[s].index
    BY <1>4, <1>5, <2>2
  <2> QED
    BY <1>1, <2>1, <2>3
<1>6. \A i \in Queued(s)' : queue'[s][i].packet = Pkt(queue'[s][i].index)
  BY <1>1, <1>3 DEF Commands
<1> HIDE DEF Busy
<1> QED
  BY <1>1, <1>3, <1>5, <1>6 DEF Commands

(* The packet at hand of the capture thread gets its number.               *)
LEMMA CurrentIsNext ==
  ASSUME IInv, ReadInv, SubmitPacket
  PROVE  /\ Current = Pkt(next_packet_index) /\ Current \in PacketType
         /\ ShardIndex(Current) = ShardOf[Current.flow] /\ ShardOf[Current.flow] \in Shards
         /\ capture' = capture /\ next_packet_index' = next_packet_index + 1
         /\ next_packet_index \in Nat
<1>1. /\ cpc = "send" /\ capture' = capture /\ next_packet_index' = next_packet_index + 1
      /\ Goes({"send"}) /\ Goes(Past) /\ Goes({"sweep", "decode", "send"})
  BY DEF SubmitPacket, Goes, Past
<1>2. /\ pos \in 1 .. Len(capture) /\ capture[pos].decodes_to = "work" /\ HasRead = pos - 1
      /\ Len(capture) \in Nat /\ capture \in Seq(Packets) /\ next_packet_index \in Nat
  BY <1>1, NumbersTyped DEF IInv, CaptureInv, ReadInv, Current, HasRead
<1>3. pos - 1 \in Nat /\ (pos - 1) + 1 = pos /\ pos \in Nat
  BY <1>2
<1>4. Cardinality(WorksOf(capture, (pos - 1) + 1)) =
          Cardinality(WorksOf(capture, pos - 1))
            + (IF capture[(pos - 1) + 1].decodes_to = "work" THEN 1 ELSE 0)
  BY <1>3, WorksNext
<1>5. Cardinality(WorksOf(capture, pos)) = next_packet_index + 1
  BY <1>2, <1>3, <1>4 DEF ReadInv
<1>6. pos \in WorksOf(capture, Len(capture))
  BY <1>2 DEF WorksOf
<1>7. Place(capture, (next_packet_index + 1) - 1) = pos
  BY <1>2, <1>5, <1>6, PlaceIs
<1>8. (next_packet_index + 1) - 1 = next_packet_index
  BY <1>2
<1>9. Current = Pkt(next_packet_index)
  BY <1>7, <1>8 DEF Current, Pkt, NthWork
<1>10. Current \in PacketType
  BY <1>2 DEF Current
<1> QED
  BY <1>1, <1>2, <1>9, <1>10 DEF ShardIndex, PacketType

LEMMA CommandsSubmit ==
  ASSUME IInv, NumbersInv, ReadInv, SubmitPacket, NEW s \in Shards, Commands(s)
  PROVE  Commands(s)'
<1>1. /\ Current = Pkt(next_packet_index) /\ ShardIndex(Current) = ShardOf[Current.flow]
      /\ capture' = capture /\ next_packet_index' = next_packet_index + 1
      /\ next_packet_index \in Nat
  BY CurrentIsNext
<1>2. /\ Undone(s)' = Undone(s) \cup (IF s = ShardIndex(Current) THEN {next_packet_index}
                                                                   ELSE {})
      /\ Busy(s)' = Busy(s) /\ work' = work
      /\ \A i \in Queued(s)' :
              \/ i \in Queued(s) /\ queue'[s][i] = queue[s][i]
              \/ queue'[s][i] = PacketCommand(next_packet_index, Current)
      /\ \A k \in Undone(s) : k < next_packet_index /\ k \in Nat
  BY PlacesSubmit, PlacesTyped DEF NumbersInv
<1>3. \A k : Pkt(k)' = Pkt(k)
  BY <1>1, SamePackets
<1>4. \A i \in Queued(s)' : queue'[s][i].packet = Pkt(queue'[s][i].index)
  BY <1>1, <1>2 DEF Commands, PacketCommand
<1>5. Busy(s)' => work'[s].packet = Pkt(work'[s].index)
  BY <1>2 DEF Commands, Packet
<1>6. ASSUME NEW k \in Undone(s)', NEW m \in Numbers', k < m, ShardOf[Pkt(m).flow] = s
      PROVE  m \in Undone(s)'
  <2>1. m \in Nat /\ (m \in Numbers \/ m = next_packet_index)
    BY <1>1, <1>6 DEF Numbers
  <2>2. CASE m = next_packet_index
    BY <1>1, <1>2, <1>6, <2>2
  <2>3. CASE m \in Numbers
    <3>1. m < next_packet_index
      BY <1>1, <2>3 DEF Numbers
    <3>2. k # next_packet_index
      BY <1>1, <1>6, <2>1, <3>1
    <3>3. k \in Undone(s)
      BY <1>2, <3>2
    <3> QED
      BY <1>2, <1>6, <2>3, <3>3 DEF Commands
  <2> QED
    BY <2>1, <2>2, <2>3
<1> HIDE DEF Busy
<1> QED
  BY <1>3, <1>4, <1>5, <1>6 DEF Commands, Packet

LEMMA CommandStep ==
  ASSUME IInv, NumbersInv, ReadInv, [Next]_vars, Clean', CommandInv
  PROVE  CommandInv'
<1> SUFFICES ASSUME NEW s \in Shards PROVE Commands(s)'
  BY DEF CommandInv
<1>0. Commands(s) /\ Ordered(s)
  BY DEF CommandInv, NumbersInv
<1>1. ASSUME queue'[s] = queue[s], work'[s] = work[s], Busy(s)' = Busy(s),
             capture' = capture, next_packet_index' = next_packet_index
      PROVE  Commands(s)'
  <2>1. Undone(s)' = Undone(s) /\ Queued(s)' = Queued(s)
    BY <1>1, PlacesKept
  <2> QED
    BY <1>0, <1>1, <2>1, CommandsKept
<1>2. CASE SendSweep
  <2>1. /\ Undone(s)' = Undone(s) /\ Busy(s)' = Busy(s) /\ work' = work
        /\ Queued(s)' = Queued(s) /\ \A i \in Queued(s) : queue'[s][i] = queue[s][i]
    BY <1>2, PlacesSweep
  <2>2. capture' = capture /\ next_packet_index' = next_packet_index
    BY <1>2 DEF SendSweep
  <2> QED
    BY <1>0, <2>1, <2>2, CommandsKept
<1>3. CASE SubmitPacket
  BY <1>0, <1>3, CommandsSubmit
<1>4. ASSUME NEW t \in Shards, Worker(t) PROVE Commands(s)'
  <2>1. capture' = capture /\ next_packet_index' = next_packet_index
    BY <1>4 DEF Worker, TakeCommand, HandleSyn, AcquireFlow, UpdateBytes, UndoBytes, HandleFin,
       ReleaseBytes, SendResult, EvictFlow, FlushFlows, captureSide, captureVars
  <2>2. CASE t # s
    BY <1>1, <1>4, <2>1, <2>2, OthersKeep
  <2>3. CASE WorkerPasses(s)
    BY <1>1, <2>1, <2>3, PassesKeep
  <2>4. CASE TakeCommand(s)
    <3>1. /\ Undone(s)' = Undone(s) /\ work'[s] = queue[s][1]
          /\ (Busy(s)' => 1 \in Queued(s))
          /\ \A i \in Queued(s)' : i + 1 \in Queued(s) /\ queue'[s][i] = queue[s][i + 1]
      BY <1>0, <2>4, PlacesTake
    <3> QED
      BY <1>0, <2>1, <3>1, CommandsKept
  <2>5. CASE SendResult(s)
    BY <1>0, <2>5, CommandsSend
  <2> QED
    BY <1>4, <2>2, <2>3, <2>4, <2>5 DEF Worker, WorkerPasses
<1>5. CASE \/ ReadPacket \/ DecodePacket \/ EndOfInput \/ DropSender \/ JoinWorker
           \/ Drained \/ Exit \/ ReceiveResult \/ WriteResult \/ UNCHANGED vars
  BY <1>1, <1>5 DEF ReadPacket, DecodePacket, EndOfInput, DropSender, JoinWorker, Drained,
     Exit, ReceiveResult, WriteResult, vars, captureVars, workerVars, Busy, At
<1> QED
  BY <1>2, <1>3, <1>4, <1>5, CleanWrites DEF Next, CaptureThread, Terminated

LEMMA NothingKept ==
  ASSUME NothingGoes, next_packet_index' = next_packet_index,
         next_output_index' = next_output_index,
         \A s \in Shards : Undone(s) \subseteq Undone(s)' \cup Arrived',
         Arrived \subseteq Arrived' \cup Waiting', Waiting \subseteq Waiting'
  PROVE  NothingGoes'
<1>1. Numbers' = Numbers
  BY DEF Numbers
<1> HIDE DEF Numbers, Undone, Arrived, Waiting
<1> QED
  BY <1>1 DEF NothingGoes

LEMMA NothingStep ==
  ASSUME IInv, NumbersInv, ReadInv, [Next]_vars, Clean', NothingGoes
  PROVE  NothingGoes'
<1>0. \A s \in Shards : Ordered(s)
  BY DEF NumbersInv
<1>1. ASSUME \A s \in Shards : queue'[s] = queue[s] /\ work'[s] = work[s] /\ Busy(s)' = Busy(s)
      PROVE  \A s \in Shards : Undone(s)' = Undone(s)
  BY <1>1, PlacesKept
<1>2. CASE WriteResult
  <2>1. UNCHANGED <<queue, results, next_packet_index>> /\ UNCHANGED workerVars
    BY <1>2 DEF WriteResult
  <2>2. \A s \in Shards : Undone(s)' = Undone(s)
    BY <1>1, <2>1 DEF workerVars, Busy, At
  <2>3. PICK r \in Due : pending' = pending \ {r} /\ next_output_index' = next_output_index + 1
    BY <1>2 DEF WriteResult
  <2>4. r.index = next_output_index
    BY <2>3 DEF Due
  <2>5. Waiting \subseteq Waiting' \cup {next_output_index}
    BY <2>3, <2>4 DEF Waiting
  <2>6. Arrived' = Arrived /\ Numbers' = Numbers
    BY <2>1 DEF Arrived, Numbers
  <2>7. \A k \in Numbers : k < next_output_index \/ k = next_output_index =>
                              k < next_output_index'
    BY <2>3, ChannelsTyped DEF Numbers
  <2> HIDE DEF Numbers, Waiting, Arrived, Undone
  <2> QED
    BY <2>2, <2>5, <2>6, <2>7 DEF NothingGoes
<1>3. CASE SubmitPacket
  <2>1. \A s \in Shards :
          Undone(s)' = Undone(s) \cup (IF s = ShardIndex(Current) THEN {next_packet_index} ELSE {})
    BY <1>0, <1>3, PlacesSubmit DEF NumbersInv
  <2>2. ShardIndex(Current) \in Shards /\ next_packet_index' = next_packet_index + 1
        /\ next_packet_index \in Nat
    BY <1>3, CurrentIsNext
  <2>3. UNCHANGED <<results, pending, next_output_index>>
    BY <1>3 DEF SubmitPacket, outVars
  <2>4. Arrived' = Arrived /\ Waiting' = Waiting
    BY <2>3 DEF Arrived, Waiting
  <2>5. \A k \in Numbers' : k \in Numbers \/ k = next_packet_index
    BY <2>2 DEF Numbers
  <2> HIDE DEF Numbers, Waiting, Arrived, Undone
  <2> QED
    BY <2>1, <2>2, <2>3, <2>4, <2>5 DEF NothingGoes
<1>4. CASE ReceiveResult
  <2>1. UNCHANGED <<queue, next_packet_index, next_output_index>> /\ UNCHANGED workerVars
    BY <1>4 DEF ReceiveResult, captureVars
  <2>2. \A s \in Shards : Undone(s)' = Undone(s)
    BY <1>1, <2>1 DEF workerVars, Busy, At
  <2>3. /\ Waiting' = Waiting \cup {results[1].index}
        /\ Arrived = Arrived' \cup {results[1].index}
    BY <1>4, Received
  <2> HIDE DEF Waiting, Arrived, Undone
  <2> QED
    BY <2>1, <2>2, <2>3, NothingKept
<1>5. ASSUME NEW s \in Shards, Worker(s) PROVE NothingGoes'
  <2>1. UNCHANGED <<next_packet_index, next_output_index, pending>>
    BY <1>5 DEF Worker, TakeCommand, HandleSyn, AcquireFlow, UpdateBytes, UndoBytes, HandleFin,
       ReleaseBytes, SendResult, EvictFlow, FlushFlows, captureSide, captureVars, outVars
  <2>2. Waiting' = Waiting
    BY <2>1 DEF Waiting
  <2>3. \A t \in Shards \ {s} : Undone(t)' = Undone(t)
    <3> TAKE t \in Shards \ {s}
    <3>1. queue'[t] = queue[t] /\ Busy(t)' = Busy(t) /\ work'[t] = work[t]
      BY <1>5, OthersKeep
    <3> QED
      BY <3>1, PlacesKept
  <2>4. CASE SendResult(s)
    <3>1. /\ Undone(s)' = Undone(s) \ {work[s].index}
          /\ results' = Append(results, [index |-> work[s].index, output |-> output[s],
                                         warnings |-> warnings[s]])
      BY <1>0, <2>4, PlacesSend
    <3>2. /\ Len(results') = Len(results) + 1 /\ Len(results) \in Nat
          /\ results'[Len(results) + 1].index = work[s].index
          /\ \A i \in 1 .. Len(results) : results'[i] = results[i]
      BY <3>1, ChannelsTyped
    <3>3. /\ Len(results) + 1 \in 1 .. Len(results')
          /\ \A i \in 1 .. Len(results) : i \in 1 .. Len(results')
      BY <3>2
    <3>4. Arrived \subseteq Arrived' /\ work[s].index \in Arrived'
      BY <3>2, <3>3 DEF Arrived
    <3> HIDE DEF Waiting, Arrived, Undone
    <3> QED
      BY <2>1, <2>2, <2>3, <3>1, <3>4, NothingKept
  <2>5. CASE WorkerPasses(s) \/ TakeCommand(s)
    <3>1. Undone(s)' = Undone(s) /\ results' = results
      BY <1>0, <2>5, PassesKeep, PlacesKept, PlacesTake
    <3>2. Arrived' = Arrived
      BY <3>1 DEF Arrived
    <3> HIDE DEF Waiting, Arrived, Undone
    <3> QED
      BY <2>1, <2>2, <2>3, <3>1, <3>2, NothingKept
  <2> QED
    BY <1>5, <2>4, <2>5 DEF Worker, WorkerPasses
<1>6. CASE SendSweep
  <2>1. \A s \in Shards : Undone(s)' = Undone(s) /\ results' = results
    BY <1>6, PlacesSweep
  <2>2. UNCHANGED <<results, pending, next_packet_index, next_output_index>>
    BY <1>6 DEF SendSweep, outVars
  <2>3. Arrived' = Arrived /\ Waiting' = Waiting
    BY <2>2 DEF Arrived, Waiting
  <2> HIDE DEF Waiting, Arrived, Undone
  <2> QED
    BY <2>1, <2>2, <2>3, NothingKept
<1>7. CASE \/ ReadPacket \/ DecodePacket \/ EndOfInput \/ DropSender \/ JoinWorker
           \/ Drained \/ Exit \/ UNCHANGED vars
  <2>1. UNCHANGED <<queue, results, pending, next_packet_index, next_output_index>>
        /\ UNCHANGED workerVars
    BY <1>7 DEF ReadPacket, DecodePacket, EndOfInput, DropSender, JoinWorker, Drained, Exit,
       vars, captureVars, outVars
  <2>2. \A s \in Shards : Undone(s)' = Undone(s)
    BY <1>1, <2>1 DEF workerVars, Busy, At
  <2>3. Arrived' = Arrived /\ Waiting' = Waiting
    BY <2>1 DEF Arrived, Waiting
  <2> HIDE DEF Waiting, Arrived, Undone
  <2> QED
    BY <2>1, <2>2, <2>3, NothingKept
<1> QED
  BY <1>2, <1>3, <1>4, <1>5, <1>6, <1>7, CleanWrites DEF Next, CaptureThread, Terminated

LEMMA AnswersKept ==
  ASSUME IInv, capture' = capture, next_packet_index' \in Nat,
         next_packet_index <= next_packet_index', NEW r, Answers(r)
  PROVE  r.index \in Numbers' /\ r.output = Expected(Pkt(r.index)')
<1>1. Numbers \subseteq Numbers'
  BY ChannelsTyped DEF Numbers
<1> QED
  BY <1>1, SamePackets DEF Answers

LEMMA ResultStep ==
  ASSUME IInv, NumbersInv, ReadInv, CommandInv, HandInv, OutputInOrder, [Next]_vars, Clean',
         ResultInv
  PROVE  ResultInv'
<1>1. /\ capture' = capture /\ next_packet_index' \in Nat
      /\ next_packet_index <= next_packet_index'
  <2>1. capture' = capture /\ \/ next_packet_index' = next_packet_index
                              \/ next_packet_index' = next_packet_index + 1
    BY CleanWrites DEF Next, CaptureThread, Terminated, ReadPacket, SendSweep, DecodePacket,
       SubmitPacket, EndOfInput, DropSender, JoinWorker, ReceiveResult, WriteResult, Drained,
       Exit, Worker, TakeCommand, HandleSyn, AcquireFlow, UpdateBytes, UndoBytes,
       HandleFin, ReleaseBytes, SendResult, EvictFlow, FlushFlows, captureSide, captureVars, vars
  <2> QED
    BY <2>1, ChannelsTyped
<1>2. \A r : Answers(r) => r.index \in Numbers' /\ r.output = Expected(Pkt(r.index)')
  BY <1>1, AnswersKept
<1>3. /\ next_output_index \in Nat /\ next_packet_index \in Nat
      /\ out \in Seq(Result) /\ Len(out) \in Nat
  BY DEF IInv, TypeOK, ChannelType, CaptureType
<1>4. CASE UNCHANGED <<results, pending, out, next_output_index>>
  <2>1. next_output_index' <= next_packet_index'
    BY <1>1, <1>3, <1>4 DEF ResultInv
  <2> HIDE DEF Numbers, Pkt
  <2> QED
    BY <1>2, <1>4, <2>1 DEF ResultInv, Answers
<1>5. CASE ReceiveResult
  <2>1. /\ pending' = pending \cup {results[1]} /\ 1 \in 1 .. Len(results)
        /\ \A i \in 1 .. Len(results') :
               i + 1 \in 1 .. Len(results) /\ results'[i] = results[i + 1]
    BY <1>5, Received
  <2>2. UNCHANGED <<out, next_output_index>>
    BY <1>5 DEF ReceiveResult
  <2>3. next_output_index' <= next_packet_index'
    BY <1>1, <1>3, <2>2 DEF ResultInv
  <2>4. /\ \A i \in 1 .. Len(results') : Answers(results'[i])
        /\ \A r \in pending' : Answers(r)
        /\ \A i \in 1 .. Len(out') : Answers(out'[i])
    BY <2>1, <2>2 DEF ResultInv
  <2> HIDE DEF Numbers, Pkt
  <2> QED
    BY <1>2, <2>3, <2>4 DEF ResultInv, Answers
<1>6. CASE WriteResult
  <2>1. PICK r \in Due : /\ pending' = pending \ {r} /\ out' = Append(out, r)
                         /\ next_output_index' = next_output_index + 1
    BY <1>6 DEF WriteResult
  <2>2. r \in pending /\ r.index = next_output_index /\ Answers(r)
    BY <2>1 DEF Due, ResultInv
  <2>3. results' = results
    BY <1>6 DEF WriteResult
  <2>4. next_output_index' <= next_packet_index'
    BY <1>1, <1>3, <2>1, <2>2 DEF Answers, Numbers
  <2>5. \A i \in 1 .. Len(out') : Answers(out'[i])
    <3>1. /\ Len(out') = Len(out) + 1 /\ out'[Len(out) + 1] = r
          /\ \A i \in 1 .. Len(out) : out'[i] = out[i]
      BY <1>3, <2>1
    <3>2. \A i \in 1 .. Len(out') : i \in 1 .. Len(out) \/ i = Len(out) + 1
      BY <1>3, <3>1
    <3> QED
      BY <2>2, <3>1, <3>2 DEF ResultInv
  <2>6. /\ \A i \in 1 .. Len(results') : Answers(results'[i])
        /\ \A q \in pending' : Answers(q)
    BY <2>1, <2>3 DEF ResultInv
  <2> HIDE DEF Numbers, Pkt
  <2> QED
    BY <1>2, <2>4, <2>5, <2>6 DEF ResultInv, Answers
<1>7. ASSUME NEW s \in Shards, SendResult(s) PROVE ResultInv'
  <2>1. /\ wpc[s] = "send" /\ Busy(s) /\ work[s].index \in Undone(s)
        /\ results' = Append(results, [index |-> work[s].index, output |-> output[s],
                                       warnings |-> warnings[s]])
    BY <1>7, PlacesSend DEF NumbersInv
  <2>2. PICK r : r = [index |-> work[s].index, output |-> output[s], warnings |-> warnings[s]]
    OBVIOUS
  <2>3. r.index = work[s].index /\ r.output = output[s] /\ results' = Append(results, r)
    BY <2>1, <2>2
  <2>4. UNCHANGED <<pending, out, next_output_index>>
    BY <1>7 DEF SendResult, captureSide, outVars
  <2>5. output[s] = Expected(Packet(s)) /\ Packet(s) = Pkt(work[s].index)
    BY <2>1 DEF HandInv, AtHand, At, CommandInv, Commands
  <2>6. work[s].index \in Numbers
    BY <1>3, <2>1 DEF NumbersInv, Numbers, Undone
  <2>7. Answers(r)
    BY <2>3, <2>5, <2>6 DEF Answers
  <2>8. \A i \in 1 .. Len(results') : Answers(results'[i])
    <3>1. /\ Len(results') = Len(results) + 1 /\ results'[Len(results) + 1] = r
          /\ \A i \in 1 .. Len(results) : results'[i] = results[i]
      BY <2>3, ChannelsTyped
    <3>2. \A i \in 1 .. Len(results') : i \in 1 .. Len(results) \/ i = Len(results) + 1
      BY <3>1, ChannelsTyped
    <3> QED
      BY <2>7, <3>1, <3>2 DEF ResultInv
  <2>9. /\ \A q \in pending' : Answers(q)
        /\ \A i \in 1 .. Len(out') : Answers(out'[i])
    BY <2>4 DEF ResultInv
  <2>10. next_output_index' <= next_packet_index'
    BY <1>1, <1>3, <2>4 DEF ResultInv
  <2> HIDE DEF Numbers, Pkt
  <2> QED
    BY <1>2, <2>8, <2>9, <2>10 DEF ResultInv, Answers
<1>8. ASSUME NEW s \in Shards, WorkerPasses(s) \/ TakeCommand(s) PROVE ResultInv'
  <2>1. UNCHANGED <<results, pending, out, next_output_index>>
    BY <1>8 DEF WorkerPasses, TakeCommand, HandleSyn, AcquireFlow, UpdateBytes, UndoBytes,
       HandleFin, ReleaseBytes, EvictFlow, FlushFlows, captureSide, outVars
  <2> QED
    BY <1>4, <2>1
<1>9. CASE \/ ReadPacket \/ SendSweep \/ DecodePacket \/ SubmitPacket \/ EndOfInput
           \/ DropSender \/ JoinWorker \/ Drained \/ Exit \/ UNCHANGED vars
  BY <1>4, <1>9 DEF ReadPacket, SendSweep, DecodePacket, SubmitPacket, EndOfInput, DropSender,
     JoinWorker, Drained, Exit, vars, outVars
<1> QED
  BY <1>5, <1>6, <1>7, <1>8, <1>9, CleanWrites
  DEF Next, CaptureThread, Terminated, Worker, WorkerPasses

LEMMA GreatestNumber ==
  ASSUME NEW k \in Nat, NEW T, T \subseteq 0 .. k - 1, T # {}
  PROVE  \E m \in T : \A n \in T : n <= m
<1> DEFINE Rest == {n \in Nat : \E m \in T : n = k - m}
<1>1. \A m \in T : m \in Nat /\ k - m \in Rest
  OBVIOUS
<1>2. Rest \subseteq Nat /\ Rest # {}
  BY <1>1
<1>3. PICK l \in Rest : \A n \in Rest : l <= n
  BY <1>2, LeastNumber
<1>4. PICK m \in T : l = k - m
  OBVIOUS
<1> HIDE DEF Rest
<1>5. \A n \in T : n <= m
  <2> TAKE n \in T
  <2>1. n \in Nat /\ m \in Nat /\ l <= k - n
    BY <1>1, <1>3
  <2> QED
    BY <1>4, <2>1
<1> QED
  BY <1>5

(* In a clean run no flow is found to exceed the total, and one that is    *)
(* removed holds nothing.                                                  *)
LEMMA CleanUndo ==
  ASSUME IInv, Clean', NEW s \in Shards, UndoBytes(s)
  PROVE  FALSE
<1>1. /\ warnings \in [Shards -> Nat] /\ warnings' = [warnings EXCEPT ![s] = @ + 1]
      /\ wpc \in [Shards -> WorkerPc] /\ wpc' = [wpc EXCEPT ![s] = "fin"]
  BY DEF UndoBytes, IInv, TypeOK, WorkerType, ReportType
<1>2. Busy(s)'
  BY <1>1 DEF Busy, At, InPacket
<1>3. warnings'[s] = 0
  BY <1>2 DEF Clean
<1> QED
  BY <1>1, <1>3

LEMMA EmptyRelease ==
  ASSUME BudgetType, NEW s \in Shards, NEW where, NEW f \in Flows, ReleaseFlow(s, f, where),
         flow[f] # NoFlow => ~(flow[f].held > 0)
  PROVE  HeldOf(flow') = HeldOf(flow) /\ HeldOf(flow)[f] = 0
<1>1. /\ flow \in [Flows -> [held : Nat, last_seen : Nat] \cup {NoFlow}]
      /\ flow' = [flow EXCEPT ![f] = NoFlow]
  BY DEF ReleaseFlow, BudgetType
<1>2. HeldOf(flow)[f] = 0
  BY <1>1 DEF HeldOf
<1>3. \A g \in Flows : HeldOf(flow')[g] = HeldOf(flow)[g]
  BY <1>1, <1>2 DEF HeldOf
<1> QED
  BY <1>2, <1>3 DEF HeldOf

LEMMA HeldKept ==
  ASSUME IInv, Clean, Clean', NEW s \in Shards, WorkerPasses(s), ~UpdateBytes(s)
  PROVE  HeldOf(flow') = HeldOf(flow)
<1>1. /\ warnings \in [Shards -> Nat] /\ lost \in [Shards -> Nat] /\ BudgetType
      /\ lost'[s] = 0 /\ lost[s] = 0 /\ WorkerType /\ WorkerOwnsFlow
  BY DEF IInv, TypeOK, ReportType, Clean
<1>2. Busy(s)' = Busy(s)
  BY PassesKeep
<1>3. wpc[s] \in InPacket => Busy(s) /\ warnings[s] = 0 /\ warnings'[s] = 0 /\ Key(s) \in Flows
  BY <1>1, <1>2, OwnedTyped DEF Clean, Busy, At
<1>4. CASE HandleSyn(s) \/ HandleFin(s)
  <2>1. wpc[s] \in InPacket
    BY <1>4 DEF HandleSyn, HandleFin, InPacket
  <2>2. CASE flow' = flow
    BY <2>2
  <2>3. CASE \E where \in {"acquire", "send"} : ReleaseFlow(s, Key(s), where)
    <3>1. warnings' = [warnings EXCEPT ![s] = @ + (IF flow[Key(s)].held > 0 THEN 1 ELSE 0)]
      <4>1. CASE HandleSyn(s)
        <5>1. CASE Packet(s).syn /\ flow[Key(s)] # NoFlow
          BY <4>1, <5>1 DEF HandleSyn
        <5>2. CASE ~(Packet(s).syn /\ flow[Key(s)] # NoFlow)
          <6>1. wpc' = [wpc EXCEPT ![s] = "acquire"] /\ wpc \in [Shards -> WorkerPc]
            BY <1>1, <4>1, <5>2 DEF HandleSyn, WorkerType
          <6> QED
            BY <2>3, <6>1 DEF ReleaseFlow
        <5> QED
          BY <5>1, <5>2
      <4>2. CASE HandleFin(s)
        <5>1. CASE Packet(s).fin
          BY <4>2, <5>1 DEF HandleFin
        <5>2. CASE ~Packet(s).fin
          <6>1. wpc' = [wpc EXCEPT ![s] = "send"] /\ wpc \in [Shards -> WorkerPc]
            BY <1>1, <4>2, <5>2 DEF HandleFin, WorkerType
          <6> QED
            BY <2>3, <6>1 DEF ReleaseFlow
        <5> QED
          BY <5>1, <5>2
      <4> QED
        BY <1>4, <4>1, <4>2
    <3>2. ~(flow[Key(s)].held > 0)
      BY <1>1, <1>3, <2>1, <3>1
    <3> QED
      BY <1>1, <1>3, <2>1, <2>3, <3>2, EmptyRelease
  <2> QED
    BY <1>4, <2>2, <2>3 DEF HandleSyn, HandleFin, sharedVars
<1>5. CASE AcquireFlow(s)
  <2>1. Key(s) \in Flows /\ flow \in [Flows -> [held : Nat, last_seen : Nat] \cup {NoFlow}]
        /\ Packet(s).at \in Nat
    BY <1>1, <1>3, <1>5, OwnedTyped DEF AcquireFlow, InPacket, BudgetType, PacketType
  <2>2. \/ flow' = flow
        \/ /\ flow[Key(s)] = NoFlow
           /\ flow' = [flow EXCEPT ![Key(s)] = [held |-> 0, last_seen |-> Packet(s).at]]
    BY <1>5 DEF AcquireFlow
  <2>3. [held |-> 0, last_seen |-> Packet(s).at] # NoFlow
    BY <2>1
  <2> QED
    BY <2>1, <2>2, <2>3 DEF HeldOf
<1>6. CASE EvictFlow(s) \/ FlushFlows(s)
  <2>1. \/ flow' = flow
        \/ \E f \in Flows : \E where \in {"evict", "flush"} :
              /\ ReleaseFlow(s, f, where)
              /\ lost' = [lost EXCEPT ![s] = @ + (IF flow[f].held > 0 THEN 1 ELSE 0)]
    BY <1>6 DEF EvictFlow, FlushFlows, sharedVars, Idle, Table, Live
  <2>2. ASSUME NEW f \in Flows, NEW where, ReleaseFlow(s, f, where),
               lost' = [lost EXCEPT ![s] = @ + (IF flow[f].held > 0 THEN 1 ELSE 0)]
        PROVE  HeldOf(flow') = HeldOf(flow)
    <3>1. ~(flow[f].held > 0)
      BY <1>1, <2>2
    <3> QED
      BY <1>1, <2>2, <3>1, EmptyRelease
  <2> QED
    BY <2>1, <2>2
<1>7. CASE ReleaseBytes(s)
  BY <1>7 DEF ReleaseBytes
<1> QED
  BY <1>4, <1>5, <1>6, <1>7, CleanUndo DEF WorkerPasses

(* The packets of a flow answered before the one at hand are all earlier   *)
(* ones of the flow.                                                       *)
LEMMA DoneBefore ==
  ASSUME IInv, NumbersInv, ReadInv, CommandInv, NEW s \in Shards, Busy(s)
  PROVE  /\ work[s].index \in Numbers /\ work[s].index \in Nat
         /\ Packet(s) = Pkt(work[s].index) /\ Key(s) \in Flows /\ ShardOf[Key(s)] = s
         /\ Packet(s) \in PacketType
         /\ DoneOf(Key(s)) = EarlierOf(capture, work[s].index)
         /\ \A k \in DoneOf(Key(s)) : k \in Nat /\ k < work[s].index
<1>1. PICK n : n = work[s].index
  OBVIOUS
<1>2. /\ n \in Nat /\ n \in Undone(s) /\ Packet(s) = Pkt(n)
      /\ n < next_packet_index /\ next_packet_index \in Nat
  BY <1>1, PlacesTyped, NumbersTyped DEF Undone, CommandInv, Commands, NumbersInv
<1>3. n \in Numbers /\ \A k \in 0 .. n - 1 : k \in Numbers
  BY <1>2 DEF Numbers
<1>4. Packet(s) \in PacketType /\ Key(s) \in Flows
  BY <1>2, <1>3, NumbersTyped DEF Key
<1>5. ShardOf[Key(s)] = s
  BY DEF Busy, At, IInv, WorkerOwnsFlow, ReleaseRouted
<1>6. Pkt(n).flow = Key(s)
  BY <1>2 DEF Key
<1>7. ASSUME NEW k \in DoneOf(Key(s)) PROVE k \in 0 .. n - 1 /\ Pkt(k).flow = Key(s)
  <2>1. k \in Numbers /\ Pkt(k).flow = Key(s) /\ k \notin Undone(s)
    BY <1>5 DEF DoneOf
  <2>2. k \in Nat
    BY <2>1 DEF Numbers
  <2>3. k # n
    BY <1>2, <2>1
  <2>4. ~(n < k)
    BY <1>2, <1>5, <2>1 DEF CommandInv, Commands
  <2> QED
    BY <1>2, <2>1, <2>2, <2>3, <2>4
<1>8. ASSUME NEW k \in 0 .. n - 1, Pkt(k).flow = Key(s) PROVE k \in DoneOf(Key(s))
  <2>1. k \in Nat /\ k < n
    BY <1>2
  <2>2. \A i \in Queued(s) : n < queue[s][i].index /\ queue[s][i].index \in Nat
    BY <1>1, PlacesTyped DEF NumbersInv, Ordered
  <2>3. k \notin Undone(s)
    BY <1>1, <1>2, <2>1, <2>2 DEF Undone
  <2> QED
    BY <1>3, <1>5, <1>8, <2>3 DEF DoneOf
<1>9. DoneOf(Key(s)) = {k \in 0 .. n - 1 : Pkt(k).flow = Key(s)}
  BY <1>7, <1>8
<1>10. DoneOf(Key(s)) = EarlierOf(capture, n)
  BY <1>6, <1>9 DEF EarlierOf, Pkt
<1> QED
  BY <1>1, <1>2, <1>3, <1>4, <1>5, <1>7, <1>10

(* The flow holds what came before the packet at hand.                     *)
LEMMA PriorIsHeld ==
  ASSUME IInv, NumbersInv, ReadInv, CommandInv, FlowInv, HandInv,
         NEW s \in Shards, wpc[s] = "update"
  PROVE  /\ HeldOf(flow)[Key(s)] = Packet(s).prior
         /\ Packet(s).completes => Packet(s).size > 0
<1>1. Busy(s) /\ At(s, {"acquire", "update"}) /\ ~At(s, {"undo", "fin", "send"})
  BY DEF Busy, At, InPacket
<1>2. PICK n : n = work[s].index
  OBVIOUS
<1>3. /\ n \in Numbers /\ n \in Nat /\ Packet(s) = Pkt(n)
      /\ Key(s) \in Flows /\ ShardOf[Key(s)] = s
      /\ DoneOf(Key(s)) = EarlierOf(capture, n)
  BY <1>1, <1>2, DoneBefore
<1>4. Leaves(Key(s), HeldOf(flow)[Key(s)])
  BY <1>1, <1>3 DEF FlowInv, Updated
<1>5. n \in NumbersOf(capture) /\ capture \in Seq(Packets) /\ CountsPrior(capture)
  BY <1>3, NumbersTyped
<1>6. /\ Pkt(n).completes => Pkt(n).size > 0
      /\ EarlierOf(capture, n) = {} => Pkt(n).prior = 0
      /\ \A m \in EarlierOf(capture, n) :
              (\A l \in EarlierOf(capture, n) : l <= m) =>
                  Pkt(n).prior = IF Pkt(n).syn THEN 0 ELSE Unfinished(Pkt(m))
  BY <1>5, PriorOfNth DEF Pkt
<1>7. Packet(s).syn => HeldOf(flow)[Key(s)] = 0
  BY <1>1 DEF HandInv, AtHand
<1>8. CASE EarlierOf(capture, n) = {}
  BY <1>3, <1>4, <1>6, <1>8 DEF Leaves
<1>9. CASE EarlierOf(capture, n) # {}
  <2>1. EarlierOf(capture, n) \subseteq 0 .. n - 1
    BY DEF EarlierOf
  <2>2. PICK m \in EarlierOf(capture, n) : \A l \in EarlierOf(capture, n) : l <= m
    BY <1>3, <1>9, <2>1, GreatestNumber
  <2>3. HeldOf(flow)[Key(s)] = Unfinished(Pkt(m))
    BY <1>3, <1>4, <2>2 DEF Leaves
  <2>4. Pkt(n).prior = IF Pkt(n).syn THEN 0 ELSE Unfinished(Pkt(m))
    BY <1>6, <2>2
  <2> QED
    BY <1>3, <1>6, <1>7, <2>3, <2>4
<1> QED
  BY <1>3, <1>6, <1>8, <1>9

(* So reassembly counts its bytes right, or there is a warning.            *)
LEMMA CleanUpdate ==
  ASSUME IInv, NumbersInv, ReadInv, CommandInv, FlowInv, HandInv, Clean',
         NEW s \in Shards, UpdateBytes(s)
  PROVE  /\ HeldOf(flow')[Key(s)] = Kept(Packet(s))
         /\ output'[s] = Expected(Packet(s))
         /\ \A f \in Flows \ {Key(s)} : HeldOf(flow')[f] = HeldOf(flow)[f]
<1>1. /\ wpc[s] = "update" /\ WorkerType /\ BudgetType /\ WorkerOwnsFlow /\ ReportType
      /\ flow \in [Flows -> [held : Nat, last_seen : Nat] \cup {NoFlow}]
  BY DEF UpdateBytes, IInv, TypeOK, BudgetType
<1>2. PICK p, h : p = Packet(s) /\ h = flow[Key(s)].held
  OBVIOUS
<1>3. /\ Key(s) \in Flows /\ p \in PacketType /\ flow[Key(s)] # NoFlow /\ h \in Nat
  BY <1>1, <1>2, OwnedTyped DEF InPacket
<1>4. h = p.prior /\ (p.completes => p.size > 0)
  BY <1>1, <1>2, <1>3, PriorIsHeld DEF HeldOf
<1>5. PICK r : r = Reassembled(h, p)
  OBVIOUS
<1>6. r.held \in Nat /\ r.warnings \in Nat
  BY <1>3, <1>5, ReassembledTyped
<1>7. /\ flow' = [flow EXCEPT ![Key(s)] = [held |-> r.held, last_seen |-> p.at]]
      /\ output' = [output EXCEPT ![s] = r.output]
      /\ warnings' = [warnings EXCEPT ![s] = @ + r.warnings]
  BY <1>2, <1>5 DEF UpdateBytes
<1>8. Busy(s)'
  <2>1. wpc'[s] \in {"undo", "fin"}
    BY <1>1 DEF UpdateBytes, WorkerType
  <2> QED
    BY <2>1 DEF Busy, At, InPacket
<1>9. r.warnings = 0
  <2>1. warnings'[s] = 0
    BY <1>8 DEF Clean
  <2>2. warnings'[s] = warnings[s] + r.warnings /\ warnings[s] \in Nat
    BY <1>1, <1>7 DEF ReportType
  <2> QED
    BY <1>6, <2>1, <2>2
<1>10. p.size \in Nat /\ p.prior \in Nat /\ p.at \in Nat /\ p.completes \in BOOLEAN
  BY <1>3 DEF PacketType
<1>11. r.held = Kept(p)
  BY <1>4, <1>5, <1>9, <1>10 DEF Reassembled, Kept
<1>12. r.output = Expected(p)
  BY <1>4, <1>5, <1>9, <1>10 DEF Reassembled, Expected
<1>13. [held |-> r.held, last_seen |-> p.at] # NoFlow
  BY <1>6, <1>10
<1>14. HeldOf(flow')[Key(s)] = r.held
  BY <1>1, <1>3, <1>7, <1>13 DEF HeldOf
<1>15. \A f \in Flows \ {Key(s)} : HeldOf(flow')[f] = HeldOf(flow)[f]
  BY <1>1, <1>3, <1>7 DEF HeldOf
<1>16. output'[s] = r.output
  BY <1>1, <1>7 DEF ReportType
<1> QED
  BY <1>2, <1>11, <1>12, <1>14, <1>15, <1>16

LEMMA HandWorker ==
  ASSUME IInv, NumbersInv, ReadInv, CommandInv, FlowInv, HandInv, Clean, Clean',
         NEW s \in Shards, Worker(s)
  PROVE  AtHand(s)'
<1>1. /\ wpc \in [Shards -> WorkerPc] /\ wnext \in [Shards -> WorkerPc]
      /\ WorkerType /\ BudgetType /\ WorkerOwnsFlow /\ ReportType
      /\ wnext[s] \in {"recv", "acquire", "send", "evict", "flush"}
      /\ AtHand(s)
  BY PlacesTyped DEF IInv, TypeOK, WorkerType, HandInv
<1>2. CASE \/ /\ wpc'[s] \in {"syn", "evict", "recv", "exited", "flush", "undo"}
           \/ /\ wpc'[s] = "release" /\ wnext'[s] \in {"evict", "flush"}
  <2>1. /\ ~At(s, {"acquire", "update"})' /\ ~At(s, {"send"})' /\ wpc'[s] # "fin"
    BY <1>2 DEF At
  <2> QED
    BY <2>1 DEF AtHand
<1>3. wpc[s] \in InPacket => Key(s) \in Flows /\ Packet(s) \in PacketType
  BY <1>1, OwnedTyped
<1>4. CASE HandleSyn(s)
  <2>1. wpc[s] = "syn" /\ output' = output /\ work' = work /\ Key(s) \in Flows
    BY <1>3, <1>4 DEF HandleSyn, InPacket
  <2>2. HeldOf(flow') = HeldOf(flow)
    BY <1>4, HeldKept DEF WorkerPasses, HandleSyn, UpdateBytes
  <2>3. CASE Packet(s).syn /\ flow[Key(s)] # NoFlow
    <3>1. /\ flow' = [flow EXCEPT ![Key(s)] = NoFlow]
          /\ wpc'[s] = "release" /\ wnext'[s] = "acquire"
      BY <1>1, <1>4, <2>3 DEF HandleSyn, ReleaseFlow
    <3>2. HeldOf(flow')[Key(s)] = 0
      BY <1>1, <2>1, <3>1 DEF HeldOf, BudgetType
    <3> QED
      BY <2>1, <3>1, <3>2 DEF AtHand, At, Key, Packet
  <2>4. CASE ~(Packet(s).syn /\ flow[Key(s)] # NoFlow)
    <3>1. wpc'[s] = "acquire"
      BY <1>1, <1>4, <2>4 DEF HandleSyn
    <3>2. Packet(s).syn => HeldOf(flow)[Key(s)] = 0
      BY <2>1, <2>4 DEF HeldOf
    <3> QED
      BY <2>1, <2>2, <3>1, <3>2 DEF AtHand, At, Key, Packet
  <2> QED
    BY <2>3, <2>4
<1>5. CASE AcquireFlow(s)
  <2>1. wpc[s] = "acquire" /\ output' = output /\ work' = work
    BY <1>5 DEF AcquireFlow
  <2>2. HeldOf(flow') = HeldOf(flow)
    BY <1>5, HeldKept DEF WorkerPasses, AcquireFlow, UpdateBytes
  <2>3. Packet(s).syn => HeldOf(flow)[Key(s)] = 0
    BY <1>1, <2>1 DEF AtHand, At
  <2>4. CASE wpc'[s] = "update"
    BY <2>1, <2>2, <2>3, <2>4 DEF AtHand, At, Key, Packet
  <2>5. CASE wpc'[s] = "send"
    <3>1. warnings'[s] = 1
      BY <1>1, <1>5, <2>5 DEF AcquireFlow, ReportType
    <3>2. Busy(s)'
      BY <2>5 DEF Busy, At, InPacket
    <3> QED
      BY <3>1, <3>2 DEF Clean
  <2> QED
    BY <1>1, <1>5, <2>4, <2>5 DEF AcquireFlow
<1>6. CASE UpdateBytes(s)
  <2>1. /\ wpc'[s] = "undo" \/ wpc'[s] = "fin"
        /\ work' = work
    BY <1>1, <1>6 DEF UpdateBytes
  <2>2. CASE wpc'[s] = "fin"
    <3>1. /\ HeldOf(flow')[Key(s)] = Kept(Packet(s)) /\ output'[s] = Expected(Packet(s))
      BY <1>6, CleanUpdate
    <3> QED
      BY <2>1, <2>2, <3>1 DEF AtHand, At, Key, Packet
  <2> QED
    BY <1>2, <2>1, <2>2
<1>7. CASE HandleFin(s)
  <2>1. /\ wpc[s] = "fin" /\ output' = output /\ work' = work
        /\ HeldOf(flow)[Key(s)] = Kept(Packet(s)) /\ output[s] = Expected(Packet(s))
        /\ Key(s) \in Flows
    BY <1>1, <1>3, <1>7 DEF HandleFin, AtHand, InPacket
  <2>2. HeldOf(flow') = HeldOf(flow)
    BY <1>7, HeldKept DEF WorkerPasses, HandleFin, UpdateBytes
  <2>3. /\ wpc'[s] = "send" \/ wpc'[s] = "release"
    BY <1>1, <1>7 DEF HandleFin, ReleaseFlow
  <2>4. HeldOf(flow')[Key(s)] = Unfinished(Packet(s))
    <3>1. CASE Packet(s).fin
      <4>1. flow' = [flow EXCEPT ![Key(s)] = NoFlow]
        BY <1>7, <3>1 DEF HandleFin, ReleaseFlow
      <4>2. HeldOf(flow')[Key(s)] = 0
        BY <1>1, <2>1, <4>1 DEF HeldOf, BudgetType
      <4> QED
        BY <3>1, <4>2 DEF Unfinished
    <3>2. CASE ~Packet(s).fin
      BY <2>1, <2>2, <3>2 DEF Unfinished, Kept
    <3> QED
      BY <3>1, <3>2
  <2> QED
    BY <2>1, <2>3, <2>4, <1>1, <1>7 DEF AtHand, At, Key, Packet, HandleFin, ReleaseFlow
<1>8. CASE ReleaseBytes(s)
  <2>1. /\ wpc[s] = "release" /\ wpc'[s] = wnext[s] /\ wnext' = wnext
        /\ output' = output /\ work' = work /\ flow' = flow
    BY <1>1, <1>8 DEF ReleaseBytes
  <2>2. /\ At(s, {"acquire", "update"})' => At(s, {"acquire", "update"})
        /\ At(s, {"send"})' => At(s, {"send"})
        /\ wpc'[s] # "fin"
    BY <1>1, <2>1 DEF At
  <2> HIDE DEF At
  <2> QED
    BY <1>1, <2>1, <2>2 DEF AtHand, Key, Packet
<1>9. CASE TakeCommand(s) \/ SendResult(s) \/ EvictFlow(s) \/ FlushFlows(s)
  BY <1>1, <1>2, <1>9 DEF TakeCommand, SendResult, EvictFlow, FlushFlows, ReleaseFlow
<1> QED
  BY <1>4, <1>5, <1>6, <1>7, <1>8, <1>9, CleanUndo DEF Worker

LEMMA HandStep ==
  ASSUME IInv, NumbersInv, ReadInv, CommandInv, FlowInv, HandInv, Clean, Clean', [Next]_vars
  PROVE  HandInv'
<1> SUFFICES ASSUME NEW s \in Shards PROVE AtHand(s)'
  BY DEF HandInv
<1>1. ASSUME NEW t \in Shards \ {s}, Worker(t) PROVE AtHand(s)'
  <2>1. /\ work'[s] = work[s] /\ wpc'[s] = wpc[s] /\ wnext'[s] = wnext[s]
        /\ \A f \in Flows : ShardOf[f] = s => flow'[f] = flow[f]
    BY <1>1, WorkerStaysInShard
  <2>2. output'[s] = output[s]
    BY <1>1 DEF Worker, TakeCommand, HandleSyn, AcquireFlow, UpdateBytes, UndoBytes, HandleFin,
       ReleaseBytes, SendResult, EvictFlow, FlushFlows, IInv, TypeOK, ReportType
  <2>3. Busy(s) => Key(s) \in Flows /\ ShardOf[Key(s)] = s
    BY DoneBefore
  <2>4. Busy(s) => HeldOf(flow')[Key(s)] = HeldOf(flow)[Key(s)]
    BY <2>1, <2>3 DEF HeldOf
  <2>5. At(s, {"acquire", "update"}) \/ At(s, {"send"}) \/ wpc[s] = "fin" => Busy(s)
    BY DEF At, Busy, InPacket
  <2>6. AtHand(s) /\ Key(s)' = Key(s) /\ Packet(s)' = Packet(s)
        /\ \A places : At(s, places)' = At(s, places)
    BY <2>1 DEF HandInv, Key, Packet, At
  <2> HIDE DEF At, Busy, Key, Packet
  <2> QED
    BY <2>1, <2>2, <2>4, <2>5, <2>6 DEF AtHand
<1>2. CASE CaptureThread \/ UNCHANGED vars
  <2>1. UNCHANGED <<wpc, wnext, work, output, flow>>
    BY <1>2 DEF CaptureThread, ReadPacket, SendSweep, DecodePacket, SubmitPacket, EndOfInput,
       DropSender, JoinWorker, ReceiveResult, WriteResult, WriteFails, Drained, Exit,
       vars, workerVars, sharedVars
  <2> QED
    BY <2>1 DEF HandInv, AtHand, At, Key, Packet
<1> QED
  BY <1>1, <1>2, HandWorker DEF Next, Terminated

(* The flows whose packets no step answers, and which hold what they held. *)
LEMMA LeavesKept ==
  ASSUME NEW f, DoneOf(f)' = DoneOf(f), capture' = capture,
         HeldOf(flow')[f] = HeldOf(flow)[f], Leaves(f, HeldOf(flow)[f])
  PROVE  Leaves(f, HeldOf(flow)[f])'
<1>1. \A k : Pkt(k)' = Pkt(k)
  BY SamePackets
<1> HIDE DEF DoneOf, HeldOf
<1> QED
  BY <1>1 DEF Leaves

LEMMA DoneKept ==
  ASSUME NEW f, capture' = capture, next_packet_index' = next_packet_index,
         Undone(ShardOf[f])' = Undone(ShardOf[f])
  PROVE  DoneOf(f)' = DoneOf(f)
<1>1. (\A k : Pkt(k)' = Pkt(k)) /\ Numbers' = Numbers
  BY SamePackets DEF Numbers
<1> HIDE DEF Pkt, Numbers, Undone
<1> QED
  BY <1>1 DEF DoneOf

LEMMA FlowSend ==
  ASSUME IInv, NumbersInv, ReadInv, CommandInv, FlowInv, HandInv,
         NEW s \in Shards, SendResult(s), NEW f \in Flows, ShardOf[f] = s
  PROVE  Leaves(f, HeldOf(flow)[f])'
<1>1. /\ Undone(s)' = Undone(s) \ {work[s].index} /\ Busy(s) /\ wpc[s] = "send"
      /\ work[s].index \in Undone(s)
  BY PlacesSend DEF NumbersInv
<1>2. capture' = capture /\ next_packet_index' = next_packet_index /\ flow' = flow
  BY DEF SendResult, captureSide, captureVars, sharedVars
<1>3. (\A k : Pkt(k)' = Pkt(k)) /\ Numbers' = Numbers
  BY <1>2, SamePackets DEF Numbers
<1>4. PICK n : n = work[s].index
  OBVIOUS
<1>5. /\ n \in Numbers /\ n \in Nat /\ Packet(s) = Pkt(n)
      /\ Pkt(n).flow = Key(s)
      /\ \A k \in DoneOf(Key(s)) : k \in Nat /\ k < n
  BY <1>1, <1>4, DoneBefore DEF Key
<1>6. CASE f = Key(s)
  <2>1. HeldOf(flow)[f] = Unfinished(Pkt(n))
    BY <1>1, <1>5, <1>6 DEF HandInv, AtHand, At
  <2>2. DoneOf(f)' = DoneOf(f) \cup {n}
    <3> HIDE DEF Pkt, Numbers, Undone
    <3> QED
      BY <1>1, <1>3, <1>4, <1>5, <1>6 DEF DoneOf
  <2>3. ASSUME NEW k \in DoneOf(f)', \A m \in DoneOf(f)' : m <= k
        PROVE  k = n
    <3>1. n <= k
      BY <2>2, <2>3
    <3>2. CASE k \in DoneOf(f)
      BY <1>5, <1>6, <3>1, <3>2
    <3> QED
      BY <2>2, <3>2
  <2>4. HeldOf(flow)' = HeldOf(flow)
    BY <1>2
  <2> HIDE DEF DoneOf, HeldOf
  <2> QED
    BY <1>3, <2>1, <2>2, <2>3, <2>4 DEF Leaves
<1>7. CASE f # Key(s)
  <2>1. DoneOf(f)' = DoneOf(f)
    <3> HIDE DEF Pkt, Numbers, Undone
    <3> QED
      BY <1>1, <1>3, <1>4, <1>5, <1>7 DEF DoneOf
  <2>2. Leaves(f, HeldOf(flow)[f])
    BY <1>7 DEF FlowInv, Updated
  <2> QED
    BY <1>2, <2>1, <2>2, LeavesKept
<1> QED
  BY <1>6, <1>7

LEMMA FlowStep ==
  ASSUME IInv, NumbersInv, ReadInv, CommandInv, FlowInv, HandInv, Clean, Clean', [Next]_vars
  PROVE  FlowInv'
<1> SUFFICES ASSUME NEW f \in Flows, ~Updated(ShardOf[f], f)'
             PROVE  Leaves(f, HeldOf(flow)[f])'
  BY DEF FlowInv
<1> DEFINE u == ShardOf[f]
<1>0. u \in Shards
  OBVIOUS
<1>1. ASSUME queue'[u] = queue[u], work'[u] = work[u], Busy(u)' = Busy(u),
             capture' = capture, next_packet_index' = next_packet_index,
             HeldOf(flow')[f] = HeldOf(flow)[f], ~Updated(u, f)
      PROVE  Leaves(f, HeldOf(flow)[f])'
  <2>1. Undone(u)' = Undone(u)
    BY <1>0, <1>1, PlacesKept
  <2>2. DoneOf(f)' = DoneOf(f)
    BY <1>1, <2>1, DoneKept
  <2>3. Leaves(f, HeldOf(flow)[f])
    BY <1>1 DEF FlowInv
  <2> QED
    BY <1>1, <2>2, <2>3, LeavesKept
<1>2. ASSUME NEW s \in Shards, Worker(s)
      PROVE  Leaves(f, HeldOf(flow)[f])'
  <2>0. capture' = capture /\ next_packet_index' = next_packet_index
    BY <1>2 DEF Worker, TakeCommand, HandleSyn, AcquireFlow, UpdateBytes, UndoBytes, HandleFin,
       ReleaseBytes, SendResult, EvictFlow, FlushFlows, captureSide, captureVars
  <2>1. CASE s # u
    <3>1. /\ queue'[u] = queue[u] /\ work'[u] = work[u] /\ Busy(u)' = Busy(u)
          /\ \A places : At(u, places)' = At(u, places)
          /\ flow'[f] = flow[f]
      BY <1>0, <1>2, <2>1, OthersKeep, WorkerStaysInShard
    <3>2. HeldOf(flow')[f] = HeldOf(flow)[f]
      BY <3>1 DEF HeldOf
    <3>3. ~Updated(u, f)
      BY <3>1 DEF Updated, Key, Packet
    <3> QED
      BY <1>1, <2>0, <3>1, <3>2, <3>3
  <2>2. CASE s = u /\ SendResult(s)
    BY <2>2, FlowSend
  <2>3. CASE s = u /\ TakeCommand(s)
    <3>1. Undone(u)' = Undone(u) /\ ~Busy(u)
      BY <2>3, PlacesTake DEF NumbersInv
    <3>2. DoneOf(f)' = DoneOf(f)
      BY <2>0, <3>1, DoneKept
    <3>3. ~Updated(u, f)
      BY <3>1 DEF Updated, Busy, At, InPacket
    <3>4. HeldOf(flow')[f] = HeldOf(flow)[f]
      BY <2>3 DEF TakeCommand, sharedVars
    <3>5. Leaves(f, HeldOf(flow)[f])
      BY <3>3 DEF FlowInv
    <3> QED
      BY <2>0, <3>2, <3>4, <3>5, LeavesKept
  <2>4. CASE s = u /\ WorkerPasses(s)
    <3>1. queue' = queue /\ work' = work /\ Busy(s)' = Busy(s)
      BY <2>4, PassesKeep
    <3>2. ~Updated(u, f)
      <4>1. /\ wpc \in [Shards -> WorkerPc] /\ wnext \in [Shards -> WorkerPc]
            /\ wnext[s] \in {"recv", "acquire", "send", "evict", "flush"}
        BY PlacesTyped DEF IInv, TypeOK, WorkerType
      <4>2. At(s, {"undo", "fin", "send"}) => At(s, {"undo", "fin", "send"})'
        <5>1. CASE HandleSyn(s) \/ AcquireFlow(s) \/ UpdateBytes(s) \/ UndoBytes(s)
          BY <4>1, <5>1 DEF HandleSyn, AcquireFlow, UpdateBytes, UndoBytes, At
        <5>2. CASE HandleFin(s)
          BY <4>1, <5>2 DEF HandleFin, ReleaseFlow, At
        <5>3. CASE ReleaseBytes(s)
          BY <4>1, <5>3 DEF ReleaseBytes, At
        <5>4. CASE EvictFlow(s) \/ FlushFlows(s)
          BY <4>1, <5>4 DEF EvictFlow, FlushFlows, At
        <5> QED
          BY <2>4, <5>1, <5>2, <5>3, <5>4 DEF WorkerPasses
      <4> QED
        BY <2>4, <3>1, <4>2 DEF Updated, Key, Packet
    <3>3. HeldOf(flow')[f] = HeldOf(flow)[f]
      <4>1. CASE UpdateBytes(s)
        <5>1. At(s, {"undo", "fin", "send"})'
          BY <4>1 DEF UpdateBytes, At, IInv, TypeOK, WorkerType
        <5>2. f # Key(s)
          BY <2>4, <3>1, <5>1 DEF Updated, Key, Packet
        <5> QED
          BY <4>1, <5>2, CleanUpdate
      <4>2. CASE ~UpdateBytes(s)
        BY <2>4, <4>2, HeldKept
      <4> QED
        BY <4>1, <4>2
    <3> QED
      BY <1>1, <2>0, <2>4, <3>1, <3>2, <3>3
  <2> QED
    BY <1>2, <2>1, <2>2, <2>3, <2>4 DEF Worker, WorkerPasses
<1>3. CASE SubmitPacket
  <2>1. /\ Undone(u)' = Undone(u) \cup (IF u = ShardIndex(Current) THEN {next_packet_index}
                                                                   ELSE {})
        /\ work' = work
    BY <1>0, <1>3, PlacesSubmit DEF NumbersInv
  <2>2. /\ Current = Pkt(next_packet_index) /\ ShardIndex(Current) = ShardOf[Current.flow]
        /\ capture' = capture /\ next_packet_index' = next_packet_index + 1
        /\ next_packet_index \in Nat
    BY <1>3, CurrentIsNext
  <2>3. \A k : Pkt(k)' = Pkt(k)
    BY <2>2, SamePackets
  <2>4. /\ \A k \in Numbers' : k \in Numbers \/ k = next_packet_index
        /\ \A k \in Numbers : k \in Numbers' /\ k # next_packet_index
    BY <2>2 DEF Numbers
  <2>5. DoneOf(f)' = DoneOf(f)
    <3>1. \A k \in DoneOf(f)' : k \in DoneOf(f)
      <4> HIDE DEF Pkt, Numbers, Undone
      <4> QED
        BY <2>1, <2>2, <2>3, <2>4 DEF DoneOf
    <3>2. \A k \in DoneOf(f) : k \in DoneOf(f)'
      <4> HIDE DEF Pkt, Numbers, Undone
      <4> QED
        BY <2>1, <2>2, <2>3, <2>4 DEF DoneOf
    <3> QED
      BY <3>1, <3>2
  <2>6. flow' = flow /\ wpc' = wpc /\ wnext' = wnext
    BY <1>3 DEF SubmitPacket, sharedVars, workerVars
  <2>7. ~Updated(u, f)
    BY <2>1, <2>6 DEF Updated, At, Key, Packet
  <2>8. Leaves(f, HeldOf(flow)[f])
    BY <2>7 DEF FlowInv
  <2> QED
    BY <2>2, <2>5, <2>6, <2>8, LeavesKept
<1>4. CASE SendSweep
  <2>1. Undone(u)' = Undone(u)
    BY <1>0, <1>4, PlacesSweep
  <2>2. /\ capture' = capture /\ next_packet_index' = next_packet_index /\ flow' = flow
        /\ wpc' = wpc /\ wnext' = wnext /\ work' = work
    BY <1>4 DEF SendSweep, sharedVars, workerVars
  <2>3. DoneOf(f)' = DoneOf(f)
    BY <2>1, <2>2, DoneKept
  <2>4. Leaves(f, HeldOf(flow)[f])
    BY <2>2 DEF FlowInv, Updated, At, Key, Packet
  <2> QED
    BY <2>2, <2>3, <2>4, LeavesKept
<1>5. CASE \/ ReadPacket \/ DecodePacket \/ EndOfInput \/ DropSender \/ JoinWorker
           \/ Drained \/ Exit \/ ReceiveResult \/ WriteResult \/ UNCHANGED vars
  <2>1. UNCHANGED <<queue, capture, next_packet_index>> /\ UNCHANGED <<wpc, wnext, work, flow>>
    BY <1>5 DEF ReadPacket, DecodePacket, EndOfInput, DropSender, JoinWorker, Drained,
       Exit, ReceiveResult, WriteResult, vars, captureVars, workerVars, sharedVars
  <2> QED
    BY <1>1, <2>1 DEF Updated, Busy, At, Key, Packet
<1> QED
  BY <1>2, <1>3, <1>4, <1>5, CleanWrites DEF Next, CaptureThread, Terminated

(* At the start there is nothing on its way.                               *)
LEMMA FaithfulInit ==
  ASSUME Init
  PROVE  NumbersInv /\ LeavingInv /\ Faithful
<1>1. \A s \in Shards : ~Busy(s) /\ Queued(s) = {} /\ Undone(s) = {}
  BY DEF Init, Busy, At, InPacket, Queued, Undone
<1>2. Numbers = {} /\ HasRead = 0
  BY DEF Init, Numbers, HasRead, Goes, Past
<1>3. NumbersInv
  BY <1>1 DEF Init, NumbersInv, Ordered
<1>4. LeavingInv
  BY DEF Init, LeavingInv, Goes, AtEnd, At
<1>5. ReadInv
  <2>1. WorksOf(capture, 0) = {}
    BY DEF WorksOf
  <2>2. Cardinality(WorksOf(capture, 0)) = 0
    BY <2>1, FS_EmptySet
  <2> QED
    BY <1>2, <2>2 DEF Init, ReadInv, Goes
<1>6. CommandInv
  BY <1>1 DEF CommandInv, Commands
<1>7. NothingGoes /\ ResultInv
  BY <1>2 DEF Init, NothingGoes, ResultInv
<1>8. FlowInv
  <2>1. \A f \in Flows : DoneOf(f) = {} /\ HeldOf(flow)[f] = 0
    BY <1>2 DEF Init, DoneOf, HeldOf
  <2> QED
    BY <2>1 DEF FlowInv, Leaves
<1>9. HandInv
  BY DEF Init, HandInv, AtHand, At
<1> QED
  BY <1>3, <1>4, <1>5, <1>6, <1>7, <1>8, <1>9 DEF Faithful

LEMMA FaithfulStep ==
  ASSUME IInv, EndInv, OutputInOrder, NumbersInv, LeavingInv, Clean => Faithful, [Next]_vars
  PROVE  (NumbersInv /\ LeavingInv /\ (Clean => Faithful))'
<1>1. NumbersInv' /\ LeavingInv'
  BY NumbersStep, LeavingStep
<1>2. ASSUME Clean' PROVE Faithful'
  <2>1. Clean
    BY <1>2, CleanBefore
  <2>2. ReadInv /\ CommandInv /\ NothingGoes /\ ResultInv /\ FlowInv /\ HandInv
    BY <2>1 DEF Faithful
  <2>3. ReadInv' /\ CommandInv' /\ NothingGoes' /\ ResultInv'
    BY <1>2, <2>2, ReadStep, CommandStep, NothingStep, ResultStep
  <2>4. FlowInv' /\ HandInv'
    BY <1>2, <2>1, <2>2, FlowStep, HandStep
  <2> QED
    BY <2>3, <2>4 DEF Faithful
<1> QED
  BY <1>1, <1>2

LEMMA FaithfulWhileClean ==
  Spec => [](IInv /\ EndInv /\ OutputInOrder /\ NumbersInv /\ LeavingInv /\ (Clean => Faithful))
<1>1. Init => NumbersInv /\ LeavingInv /\ (Clean => Faithful)
  BY FaithfulInit
<1>2. /\ IInv /\ EndInv /\ OutputInOrder /\ NumbersInv /\ LeavingInv /\ (Clean => Faithful)
      /\ [Next]_vars
      => (NumbersInv /\ LeavingInv /\ (Clean => Faithful))'
  BY FaithfulStep
<1> QED
  BY <1>1, <1>2, BytesInvariance, OutputOrder, PTL DEF Spec

(* At the end of a clean run every number has been written.                *)
LEMMA AllWritten ==
  ASSUME IInv, EndInv, OutputInOrder, LeavingInv, Clean => Faithful, cpc = "exit", losses = 0
  PROVE  /\ Faithful /\ HasRead = Len(capture)
         /\ Len(out) = next_packet_index
         /\ \A k \in Numbers : out[k + 1].output = Expected(Pkt(k))
<1>1. \A s \in Shards : wpc[s] = "exited" /\ queue[s] = <<>>
  BY DEF EndInv, LeavingInv, At
<1>2. results = <<>> /\ pending = {} /\ pos = Len(capture)
  BY DEF LeavingInv, AtEnd
<1>3. \A s \in Shards : lost[s] = 0
  <2>1. \A s \in Shards : ~(lost[s] > 0)
    BY DEF LeavingInv, AtEnd
  <2>2. \A s \in Shards : lost[s] \in Nat
    BY DEF IInv, TypeOK, ReportType
  <2> QED
    BY <2>1, <2>2
<1>4. \A s \in Shards : ~Busy(s) /\ Queued(s) = {} /\ Undone(s) = {}
  BY <1>1 DEF Busy, At, InPacket, Queued, Undone
<1>5. Clean
  BY <1>2, <1>3, <1>4 DEF Clean
<1>6. Faithful
  BY <1>5
<1>7. Arrived = {} /\ Waiting = {}
  BY <1>2 DEF Arrived, Waiting
<1>8. \A k \in Numbers : k < next_output_index
  BY <1>4, <1>6, <1>7 DEF Faithful, NothingGoes
<1>9. /\ next_output_index = Len(out) /\ next_output_index <= next_packet_index
      /\ next_packet_index \in Nat /\ next_output_index \in Nat
      /\ \A i \in 1 .. Len(out) : out[i].index = i - 1 /\ Answers(out[i])
  BY <1>6 DEF Faithful, ResultInv, IInv, TypeOK, CaptureType, ChannelType, OutputInOrder
<1>10. Len(out) = next_packet_index
  BY <1>8, <1>9 DEF Numbers
<1>11. ASSUME NEW k \in Numbers PROVE out[k + 1].output = Expected(Pkt(k))
  <2>1. k + 1 \in 1 .. Len(out) /\ (k + 1) - 1 = k
    BY <1>9, <1>10 DEF Numbers
  <2>2. out[k + 1].index = k /\ Answers(out[k + 1])
    BY <1>9, <2>1
  <2> QED
    BY <2>2 DEF Answers
<1>12. HasRead = Len(capture)
  BY <1>2 DEF HasRead, Goes, Past
<1> QED
  BY <1>6, <1>10, <1>11, <1>12

(* The end of the input: success without a loss means that every packet    *)
(* was read and every message written, whole, whatever the threads did.    *)
THEOREM HonestExits == Spec => []HonestExit
<1>1. ASSUME IInv, EndInv, OutputInOrder, LeavingInv, Clean => Faithful PROVE HonestExit
  <2> SUFFICES ASSUME cpc = "exit", losses = 0
               PROVE  /\ Len(out) = Cardinality(Segments(Len(capture)))
                      /\ \A i \in Segments(Len(capture)) :
                            out[Cardinality(Segments(i))].output = Expected(capture[i])
    BY <1>1 DEF HonestExit, Expected
  <2>1. /\ ReadInv /\ HasRead = Len(capture) /\ Len(out) = next_packet_index
        /\ \A k \in Numbers : out[k + 1].output = Expected(Pkt(k))
    BY <1>1, AllWritten DEF Faithful
  <2>2. capture \in Seq(Packets) /\ Len(capture) \in Nat
    BY <1>1, <2>1, NumbersTyped
  <2>3. \A j \in 1 .. Len(capture) : capture[j].decodes_to \in {"work", "nothing"}
    BY <2>1, <2>2 DEF ReadInv, PacketType
  <2>4. ASSUME NEW n \in 0 .. Len(capture) PROVE Segments(n) = WorksOf(capture, n)
    BY <2>2, <2>3 DEF Segments, WorksOf
  <2>5. Len(out) = Cardinality(WorksOf(capture, Len(capture)))
    BY <2>1 DEF ReadInv
  <2>6. ASSUME NEW i \in WorksOf(capture, Len(capture))
        PROVE  out[Cardinality(WorksOf(capture, i))].output = Expected(capture[i])
    <3> DEFINE n == Cardinality(WorksOf(capture, i))
    <3>1. n \in Nat \ {0} /\ Place(capture, n - 1) = i
      BY <2>2, PlaceIs
    <3>2. i \in Nat /\ i <= Len(capture)
      BY <2>2 DEF WorksOf
    <3>3. n <= next_packet_index
      BY <2>1, <2>2, <3>2, WorksGrow DEF ReadInv
    <3>4. n - 1 \in Numbers /\ (n - 1) + 1 = n /\ Pkt(n - 1) = capture[i]
      <4>1. next_packet_index \in Nat
        BY <1>1 DEF IInv, TypeOK, CaptureType
      <4> QED
        BY <3>1, <3>3, <4>1 DEF Numbers, Pkt, NthWork
    <3> HIDE DEF n
    <3>5. out[(n - 1) + 1].output = Expected(Pkt(n - 1))
      BY <2>1, <3>4
    <3>6. out[n].output = Expected(capture[i])
      BY <3>4, <3>5
    <3> QED
      BY <3>6 DEF n
  <2>7. \A i \in WorksOf(capture, Len(capture)) : i \in 0 .. Len(capture)
    BY <2>2 DEF WorksOf
  <2> QED
    BY <2>2, <2>4, <2>5, <2>6, <2>7
<1>2. IInv /\ EndInv /\ OutputInOrder /\ LeavingInv /\ (Clean => Faithful) => HonestExit
  BY <1>1
<1> QED
  BY <1>2, FaithfulWhileClean, PTL
=============================================================================
