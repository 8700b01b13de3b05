------------------------------ MODULE ShardPool -----------------------------
(***************************************************************************)
(* pcap2fix's threads: the capture thread reads packets, numbers them and  *)
(* queues each at the shard its flow hashes to; one worker per shard runs  *)
(* handle_packet_work and sends a result; the capture thread writes the    *)
(* results in the order of the packets.  All workers share two atomic      *)
(* counters (ResourceBudget), and every atomic access is a step.           *)
(*                                                                         *)
(* Payloads are abstracted to sizes: a packet carries `size` bytes of a    *)
(* message of which `prior` bytes came before, and may complete it.  What  *)
(* the bytes are and in which order segments come is FlowReassembly's.     *)
(***************************************************************************)
EXTENDS Integers, Sequences, FiniteSets

CONSTANTS
    Flows,           \* FlowKey
    NShards,         \* available_parallelism()
    ShardOf,         \* FlowShardPool::shard_index: the hash of the key
    Packets,         \* the packets an input may hold
    Captures,        \* the inputs: sequences of packets
    QueueCapacity,   \* of a shard's command queue
    MaxFlows,        \* --max-flows
    MaxTotalBytes,   \* --max-total-bytes
    MaxFlowBytes,    \* --max-flow-bytes
    IdleTimeout,     \* --idle-timeout, 0 disables; same unit as Packets' `at`
    SweepInterval,   \* IDLE_SWEEP_INTERVAL
    WriteMayFail,    \* whether writing to stdout may fail
    NoFlow, NoTime   \* absent from the flow table; last_idle_sweep: None

Shards == 1 .. NShards

PacketType == [flow : Flows, at : Nat, size : Nat, prior : Nat, completes : BOOLEAN,
               syn : BOOLEAN, fin : BOOLEAN, decodes_to : {"work", "nothing", "error"}]

ASSUME PoolAssumption ==
    /\ IsFiniteSet(Flows)
    /\ NShards \in Nat \ {0}
    /\ ShardOf \in [Flows -> Shards]
    /\ Packets \subseteq PacketType
    /\ Captures \subseteq Seq(Packets)
    /\ QueueCapacity \in Nat \ {0}
    /\ MaxFlows \in Nat \ {0}
    /\ MaxTotalBytes \in Nat \ {0}
    /\ MaxFlowBytes \in Nat \ {0}
    /\ IdleTimeout \in Nat
    /\ SweepInterval \in Nat \ {0}
    /\ WriteMayFail \in BOOLEAN
    /\ NoFlow \notin [held : Nat, last_seen : Nat]
    /\ NoTime \notin Nat

VARIABLES
    \* the capture thread
    capture,             \* the input
    pos,                 \* how many of its packets have been read
    cpc, then,           \* where the thread is, and where it goes after draining
    sweeping,            \* the next shard to be told of an idle sweep or joined
    last_idle_sweep,
    next_packet_index,
    losses,              \* CaptureState.losses plus FlowShardPool.losses
    \* FlowShardPool
    queue,               \* queue[s]: the commands waiting for shard s
    closed,              \* shards whose sender has been dropped
    results,             \* the unbounded result channel
    pending,             \* results that came before their turn
    next_output_index,
    out,                 \* the results written
    \* the workers
    wpc, wnext,          \* where worker s is, and where after a release
    work,                \* the command worker s handles
    warnings, output,    \* the result it is making
    owed,                \* bytes of a removed flow not yet taken off the counter
    lost,                \* ShardReport.losses
    \* shared
    flow,                \* flow[f]: the flow's state in its shard's table
    flows,               \* ResourceBudget.flows
    buffered_bytes       \* ResourceBudget.buffered_bytes

captureVars == <<capture, pos, cpc, then, sweeping, last_idle_sweep,
                 next_packet_index, losses>>
outVars     == <<pending, next_output_index, out>>
workerVars  == <<wpc, wnext, work, warnings, output, owed, lost>>
sharedVars  == <<flow, flows, buffered_bytes>>
vars == <<captureVars, queue, closed, results, outVars, workerVars, sharedVars>>

PacketCommand(i, p) == [kind |-> "Packet", index |-> i, packet |-> p, now |-> p.at]
EvictIdle(t) == [kind |-> "EvictIdle", now |-> t]

Live == {f \in Flows : flow[f] # NoFlow}
Table(s) == {f \in Live : ShardOf[f] = s}
Idle(s, now) == {f \in Table(s) : now - flow[f].last_seen >= IdleTimeout}

(* FlowShardPool::shard_index: all packets of a flow go to the same shard. *)
ShardIndexByPacket(p) == 1 + (next_packet_index % NShards)
ShardIndex(p) == ShardOf[p.flow]

Init ==
    /\ capture \in Captures
    /\ pos = 0 /\ cpc = "read" /\ then = "read" /\ sweeping = 1
    /\ last_idle_sweep = NoTime
    /\ next_packet_index = 0 /\ losses = 0
    /\ queue = [s \in Shards |-> <<>>]
    /\ closed = {}
    /\ results = <<>> /\ pending = {} /\ next_output_index = 0 /\ out = <<>>
    /\ wpc = [s \in Shards |-> "recv"]
    /\ wnext = [s \in Shards |-> "recv"]
    /\ work = [s \in Shards |-> EvictIdle(0)]
    /\ warnings = [s \in Shards |-> 0]
    /\ output = [s \in Shards |-> 0]
    /\ owed = [s \in Shards |-> 0]
    /\ lost = [s \in Shards |-> 0]
    /\ flow = [f \in Flows |-> NoFlow]
    /\ flows = 0 /\ buffered_bytes = 0

-----------------------------------------------------------------------------
(* The capture thread: process_capture, handle_packet_block, submit,       *)
(* evict_idle, finish.                                                     *)

Current == capture[pos]

SweepIsDue(t) == /\ IdleTimeout > 0
                 /\ last_idle_sweep = NoTime \/ t - last_idle_sweep >= SweepInterval

DrainThen(where) == cpc' = "drain" /\ then' = where

(* The next packet is read and, if a second has passed, a sweep begins.    *)
ReadPacket ==
    /\ cpc = "read" /\ pos < Len(capture)
    /\ pos' = pos + 1
    /\ IF SweepIsDue(capture[pos + 1].at)
       THEN DrainThen("sweep")
       ELSE cpc' = "decode" /\ UNCHANGED then
    /\ sweeping' = 1
    /\ UNCHANGED <<capture, last_idle_sweep, next_packet_index, losses, queue, closed,
                   results, outVars, workerVars, sharedVars>>

(* evict_idle tells the shards one after the other, waiting for room.      *)
SendSweep ==
    /\ cpc = "sweep"
    /\ Len(queue[sweeping]) < QueueCapacity
    /\ queue' = [queue EXCEPT ![sweeping] = Append(@, EvictIdle(Current.at))]
    /\ sweeping' = sweeping + 1
    /\ IF sweeping = NShards
       THEN last_idle_sweep' = Current.at /\ DrainThen("decode")
       ELSE UNCHANGED <<last_idle_sweep, cpc, then>>
    /\ UNCHANGED <<capture, pos, next_packet_index, losses, closed, results, outVars,
                   workerVars, sharedVars>>

(* A packet that cannot be decoded is a loss; one that is not TCP, of      *)
(* another port or a bare acknowledgement is passed over and gets no index.*)
DecodePacket ==
    /\ cpc = "decode"
    /\ IF Current.decodes_to = "work"
       THEN DrainThen("send") /\ UNCHANGED losses
       ELSE /\ cpc' = "read" /\ UNCHANGED then
            /\ losses' = losses + (IF Current.decodes_to = "error" THEN 1 ELSE 0)
    /\ UNCHANGED <<capture, pos, sweeping, last_idle_sweep, next_packet_index, queue,
                   closed, results, outVars, workerVars, sharedVars>>

(* The bounded queue makes the capture thread wait for a slow shard.       *)
SubmitPacket ==
    LET s == ShardIndex(Current)
    IN  /\ cpc = "send"
        /\ Len(queue[s]) < QueueCapacity
        /\ queue' = [queue EXCEPT ![s] =
                        Append(@, PacketCommand(next_packet_index, Current))]
        /\ next_packet_index' = next_packet_index + 1
        /\ DrainThen("read")
        /\ UNCHANGED <<capture, pos, sweeping, last_idle_sweep, losses, closed, results,
                       outVars, workerVars, sharedVars>>

EndOfInput ==
    /\ cpc = "read" /\ pos = Len(capture)
    /\ DrainThen("join")
    /\ sweeping' = 1
    /\ UNCHANGED <<capture, pos, last_idle_sweep, next_packet_index, losses, queue,
                   closed, results, outVars, workerVars, sharedVars>>

(* finish drops one sender, joins that worker, and goes on to the next.    *)
DropSender ==
    /\ cpc = "join" /\ sweeping \notin closed
    /\ closed' = closed \cup {sweeping}
    /\ UNCHANGED <<captureVars, queue, results, outVars, workerVars, sharedVars>>

JoinOneMore ==
    /\ cpc = "join" /\ sweeping \in closed /\ wpc[sweeping] = "exited"
    /\ losses' = losses + lost[sweeping]
    /\ sweeping' = sweeping + 1
    /\ IF sweeping > NShards THEN DrainThen("end") ELSE UNCHANGED <<cpc, then>>
    /\ UNCHANGED <<capture, pos, last_idle_sweep, next_packet_index, queue, closed,
                   results, outVars, workerVars, sharedVars>>
JoinWorker ==
    /\ cpc = "join" /\ sweeping \in closed /\ wpc[sweeping] = "exited"
    /\ losses' = losses + lost[sweeping]
    /\ sweeping' = sweeping + 1
    /\ IF sweeping = NShards THEN DrainThen("end") ELSE UNCHANGED <<cpc, then>>
    /\ UNCHANGED <<capture, pos, last_idle_sweep, next_packet_index, queue, closed,
                   results, outVars, workerVars, sharedVars>>

(* drain_ready_results and record_result: results are received one by one; *)
(* after each, those whose turn has come are written.                      *)
DueInAnyOrder == {r \in pending : r.index >= next_output_index}
Due == {r \in pending : r.index = next_output_index}

ReceiveResult ==
    /\ cpc = "drain" /\ Due = {} /\ results # <<>>
    /\ pending' = {r \in pending : r.index # Head(results).index} \cup {Head(results)}
    /\ results' = Tail(results)
    /\ UNCHANGED <<captureVars, queue, closed, next_output_index, out, workerVars,
                   sharedVars>>

WriteResult ==
    /\ cpc = "drain"
    /\ \E r \in Due : /\ pending' = pending \ {r}
                      /\ losses' = losses + r.warnings
                      /\ out' = Append(out, r)
                      /\ next_output_index' = next_output_index + 1
    /\ UNCHANGED <<capture, pos, cpc, then, sweeping, last_idle_sweep, next_packet_index,
                   queue, closed, results, workerVars, sharedVars>>

FailureLossBeforeSend == IF then = "send" THEN 1 ELSE 0
FailureLoss == IF then \in {"send", "read"} THEN 1 ELSE 0

(* A failed write ends the drain.  The result is gone and its index stays  *)
(* the next.  In submit the error is a loss, and if the packet has not     *)
(* been queued yet it never is, though its number is used up; anywhere     *)
(* else it ends the program.                                               *)
WriteFails ==
    /\ WriteMayFail
    /\ cpc = "drain"
    /\ \E r \in Due :
          /\ pending' = pending \ {r}
          /\ losses' = losses + r.warnings + FailureLoss
    /\ cpc' = IF then \in {"send", "read"} THEN "read" ELSE "failed"
    /\ next_packet_index' = next_packet_index + (IF then = "send" THEN 1 ELSE 0)
    /\ UNCHANGED <<capture, pos, then, sweeping, last_idle_sweep, queue, closed, results,
                   next_output_index, out, workerVars, sharedVars>>

Drained ==
    /\ cpc = "drain" /\ Due = {} /\ results = <<>>
    /\ cpc' = then
    /\ UNCHANGED <<capture, pos, then, sweeping, last_idle_sweep, next_packet_index,
                   losses, queue, closed, results, outVars, workerVars, sharedVars>>

(* Results left over are an error; flushing stdout may be one, too.        *)
Exit ==
    /\ cpc = "end"
    /\ \/ pending = {} /\ cpc' = "exit"
       \/ (pending # {} \/ WriteMayFail) /\ cpc' = "failed"
    /\ UNCHANGED <<capture, pos, then, sweeping, last_idle_sweep, next_packet_index,
                   losses, queue, closed, results, outVars, workerVars, sharedVars>>

CaptureThread ==
    \/ ReadPacket \/ SendSweep \/ DecodePacket \/ SubmitPacket
    \/ EndOfInput \/ DropSender \/ JoinWorker
    \/ ReceiveResult \/ WriteResult \/ WriteFails \/ Drained \/ Exit
-----------------------------------------------------------------------------
(* The workers: run_flow_shard, handle_packet_work, evict_idle_at,         *)
(* flush_remaining_flow_outputs.                                           *)

captureSide == <<captureVars, closed, outVars>>

Packet(s) == work[s].packet
Key(s)    == Packet(s).flow

(* release_flow subtracts from the flow counter and, in a step of its own, *)
(* the flow's bytes from the other.                                        *)
ReleaseUncounted(s, f, where) ==
    /\ flow' = [flow EXCEPT ![f] = NoFlow]
    /\ owed' = [owed EXCEPT ![s] = flow[f].held]
    /\ wpc' = [wpc EXCEPT ![s] = "release"]
    /\ wnext' = [wnext EXCEPT ![s] = where]
    /\ UNCHANGED <<flows, buffered_bytes>>
ReleaseFlow(s, f, where) ==
    /\ flow' = [flow EXCEPT ![f] = NoFlow]
    /\ flows' = flows - 1
    /\ owed' = [owed EXCEPT ![s] = flow[f].held]
    /\ wpc' = [wpc EXCEPT ![s] = "release"]
    /\ wnext' = [wnext EXCEPT ![s] = where]
    /\ UNCHANGED buffered_bytes

ForgetBytes(s) ==
    /\ wpc[s] = "release"
    /\ owed' = [owed EXCEPT ![s] = 0]
    /\ wpc' = [wpc EXCEPT ![s] = wnext[s]]
    /\ UNCHANGED <<captureSide, queue, results, wnext, work, warnings, output, lost,
                   sharedVars>>
ReleaseBytes(s) ==
    /\ wpc[s] = "release"
    /\ buffered_bytes' = buffered_bytes - owed[s]
    /\ owed' = [owed EXCEPT ![s] = 0]
    /\ wpc' = [wpc EXCEPT ![s] = wnext[s]]
    /\ UNCHANGED <<captureSide, queue, results, wnext, work, warnings, output, lost,
                   flow, flows>>

TakeCommand(s) ==
    /\ wpc[s] = "recv" /\ queue[s] # <<>>
    /\ queue' = [queue EXCEPT ![s] = Tail(@)]
    /\ work' = [work EXCEPT ![s] = Head(queue[s])]
    /\ wpc' = [wpc EXCEPT ![s] = IF Head(queue[s]).kind = "Packet" THEN "syn" ELSE "evict"]
    /\ warnings' = [warnings EXCEPT ![s] = 0]
    /\ output' = [output EXCEPT ![s] = 0]
    /\ UNCHANGED <<captureSide, results, wnext, owed, lost, sharedVars>>

(* A SYN retires an earlier incarnation of the tuple.                      *)
HandleSyn(s) ==
    /\ wpc[s] = "syn"
    /\ IF Packet(s).syn /\ flow[Key(s)] # NoFlow
       THEN /\ ReleaseFlow(s, Key(s), "acquire")
            /\ warnings' = [warnings EXCEPT ![s] =
                              @ + (IF flow[Key(s)].held > 0 THEN 1 ELSE 0)]
       ELSE /\ wpc' = [wpc EXCEPT ![s] = "acquire"]
            /\ UNCHANGED <<wnext, owed, warnings, sharedVars>>
    /\ UNCHANGED <<captureSide, queue, results, work, output, lost>>

MayAcquireOneMore == flows <= MaxFlows
MayAcquire == flows < MaxFlows

(* try_acquire_flow; at the limit the packet is skipped, and the one       *)
(* warning of that replaces any earlier one.                               *)
AcquireFlow(s) ==
    /\ wpc[s] = "acquire"
    /\ \/ /\ flow[Key(s)] = NoFlow /\ MayAcquire
          /\ flow' = [flow EXCEPT ![Key(s)] = [held |-> 0, last_seen |-> Packet(s).at]]
          /\ flows' = flows + 1
          /\ wpc' = [wpc EXCEPT ![s] = "update"]
          /\ UNCHANGED warnings
       \/ /\ flow[Key(s)] = NoFlow /\ ~MayAcquire
          /\ warnings' = [warnings EXCEPT ![s] = 1]
          /\ wpc' = [wpc EXCEPT ![s] = "send"]
          /\ UNCHANGED <<flow, flows>>
       \/ /\ flow[Key(s)] # NoFlow
          /\ wpc' = [wpc EXCEPT ![s] = "update"]
          /\ UNCHANGED <<flow, flows, warnings>>
    /\ UNCHANGED <<captureSide, queue, results, wnext, work, output, owed, lost,
                   buffered_bytes>>

(* What reassembly makes of p: bytes whose beginning was dropped are       *)
(* garbage, a completed message is emitted, too much is an overflow.       *)
Reassembled(held, p) ==
    LET overflow == held + p.size > MaxFlowBytes
        garbage  == held # p.prior
    IN  [held     |-> IF p.size = 0 THEN held
                      ELSE IF overflow \/ garbage \/ p.completes THEN 0
                      ELSE held + p.size,
         output   |-> IF p.size > 0 /\ p.completes /\ ~overflow /\ ~garbage
                      THEN held + p.size ELSE 0,
         warnings |-> IF p.size > 0 /\ overflow THEN 1 ELSE 0]

ExceededBefore(before, after) == after > before /\ buffered_bytes > MaxTotalBytes
ExceedsTotal(before, after) ==
    after > before /\ buffered_bytes + after - before > MaxTotalBytes

(* update_buffered_bytes adds first and compares the sum afterwards.       *)
UpdateBytes(s) ==
    LET p      == Packet(s)
        before == flow[Key(s)].held
        r      == Reassembled(before, p)
    IN  /\ wpc[s] = "update"
        /\ flow' = [flow EXCEPT ![Key(s)] = [held |-> r.held, last_seen |-> p.at]]
        /\ buffered_bytes' = buffered_bytes + r.held - before
        /\ output' = [output EXCEPT ![s] = r.output]
        /\ warnings' = [warnings EXCEPT ![s] = @ + r.warnings]
        /\ wpc' = [wpc EXCEPT ![s] =
                     IF ExceedsTotal(before, r.held) THEN "undo" ELSE "fin"]
        /\ UNCHANGED <<captureSide, queue, results, wnext, work, owed, lost, flows>>

(* Over the total limit the flow's bytes are dropped and taken off again.  *)
UndoBytes(s) ==
    /\ wpc[s] = "undo"
    /\ buffered_bytes' = buffered_bytes - flow[Key(s)].held
    /\ flow' = [flow EXCEPT ![Key(s)].held = 0]
    /\ warnings' = [warnings EXCEPT ![s] = @ + 1]
    /\ wpc' = [wpc EXCEPT ![s] = "fin"]
    /\ UNCHANGED <<captureSide, queue, results, wnext, work, output, owed, lost, flows>>

HandleFin(s) ==
    /\ wpc[s] = "fin"
    /\ IF Packet(s).fin
       THEN /\ ReleaseFlow(s, Key(s), "send")
            /\ warnings' = [warnings EXCEPT ![s] =
                              @ + (IF flow[Key(s)].held > 0 THEN 1 ELSE 0)]
       ELSE /\ wpc' = [wpc EXCEPT ![s] = "send"]
            /\ UNCHANGED <<wnext, owed, warnings, sharedVars>>
    /\ UNCHANGED <<captureSide, queue, results, work, output, lost>>

SendWhenEmpty(s) ==
    /\ wpc[s] = "send" /\ results = <<>>
    /\ results' = <<[index |-> work[s].index, output |-> output[s],
                     warnings |-> warnings[s]]>>
    /\ wpc' = [wpc EXCEPT ![s] = "evict"]
    /\ UNCHANGED <<captureSide, queue, wnext, work, warnings, output, owed, lost,
                   sharedVars>>
SendResult(s) ==
    /\ wpc[s] = "send"
    /\ results' = Append(results, [index |-> work[s].index, output |-> output[s],
                                   warnings |-> warnings[s]])
    /\ wpc' = [wpc EXCEPT ![s] = "evict"]
    /\ UNCHANGED <<captureSide, queue, wnext, work, warnings, output, owed, lost,
                   sharedVars>>

(* evict_idle_at, one flow at a time, in no particular order.              *)
EvictFlow(s) ==
    /\ wpc[s] = "evict"
    /\ \/ /\ IdleTimeout > 0
          /\ \E f \in Idle(s, work[s].now) :
                /\ ReleaseFlow(s, f, "evict")
                /\ lost' = [lost EXCEPT ![s] = @ + (IF flow[f].held > 0 THEN 1 ELSE 0)]
       \/ /\ IdleTimeout = 0 \/ Idle(s, work[s].now) = {}
          /\ wpc' = [wpc EXCEPT ![s] = "recv"]
          /\ UNCHANGED <<wnext, owed, lost, sharedVars>>
    /\ UNCHANGED <<captureSide, queue, results, work, warnings, output>>

(* The sender is gone and the queue empty: what is left is released.       *)
FlushFlows(s) ==
    /\ \/ wpc[s] = "recv" /\ queue[s] = <<>> /\ s \in closed
       \/ wpc[s] = "flush"
    /\ \/ \E f \in Table(s) :
            /\ ReleaseFlow(s, f, "flush")
            /\ lost' = [lost EXCEPT ![s] = @ + (IF flow[f].held > 0 THEN 1 ELSE 0)]
       \/ /\ Table(s) = {}
          /\ wpc' = [wpc EXCEPT ![s] = "exited"]
          /\ UNCHANGED <<wnext, owed, lost, sharedVars>>
    /\ UNCHANGED <<captureSide, queue, results, work, warnings, output>>

Worker(s) ==
    \/ TakeCommand(s) \/ HandleSyn(s) \/ AcquireFlow(s) \/ UpdateBytes(s)
    \/ UndoBytes(s) \/ HandleFin(s) \/ ReleaseBytes(s) \/ SendResult(s)
    \/ EvictFlow(s) \/ FlushFlows(s)

Terminated == cpc \in {"exit", "failed"} /\ UNCHANGED vars

Next == CaptureThread \/ (\E s \in Shards : Worker(s)) \/ Terminated

Spec == Init /\ [][Next]_vars

(* Every thread that can run eventually does.                              *)
Fairness == WF_vars(CaptureThread) /\ \A s \in Shards : WF_vars(Worker(s))

FairSpec == Spec /\ Fairness
-----------------------------------------------------------------------------
Command == [kind : {"Packet"}, index : Nat, packet : Packets, now : Nat]
               \cup [kind : {"EvictIdle"}, now : Nat]
Result  == [index : Nat, output : Nat, warnings : Nat]
WorkerPc == {"recv", "syn", "acquire", "update", "undo", "fin", "send", "evict",
             "flush", "release", "exited"}
InPacket == {"syn", "acquire", "update", "undo", "fin", "send"}

CaptureType ==
    /\ capture \in Captures /\ pos \in 0 .. Len(capture)
    /\ cpc \in {"read", "drain", "sweep", "decode", "send", "join", "end", "exit", "failed"}
    /\ then \in {"read", "sweep", "decode", "send", "join", "end"}
    /\ sweeping \in 1 .. NShards + 1
    /\ last_idle_sweep \in Nat \cup {NoTime}
    /\ next_packet_index \in Nat /\ losses \in Nat

ChannelType ==
    /\ queue \in [Shards -> Seq(Command)]
    /\ closed \in SUBSET Shards
    /\ results \in Seq(Result) /\ pending \in SUBSET Result
    /\ next_output_index \in Nat /\ out \in Seq(Result)

WorkerType ==
    /\ wpc \in [Shards -> WorkerPc] /\ wnext \in [Shards -> WorkerPc]
    /\ work \in [Shards -> Command]

ReportType ==
    /\ warnings \in [Shards -> Nat] /\ output \in [Shards -> Nat]
    /\ lost \in [Shards -> Nat]

BudgetType ==
    /\ flow \in [Flows -> [held : Nat, last_seen : Nat] \cup {NoFlow}]
    /\ owed \in [Shards -> Nat]
    /\ flows \in Int /\ buffered_bytes \in Int

TypeOK == CaptureType /\ ChannelType /\ WorkerType /\ ReportType /\ BudgetType

(* ResourceBudget.flows counts the entries of all shards' flow tables at   *)
(* every moment, so --max-flows bounds them though no table is locked.     *)
FlowsCounted == flows = Cardinality(Live)
FlowLimit    == Cardinality(Live) <= MaxFlows

(* A worker that handles a packet is the only one to touch its flow: the   *)
(* packet's flow hashes to the worker's shard, and between acquiring it    *)
(* and retiring it the flow is in the table ("flow inserted before packet  *)
(* processing", "flow exists until FIN or RST handling").                  *)
WorkerOwnsFlow ==
    \A s \in Shards :
        /\ wpc[s] \in InPacket => work[s].kind = "Packet" /\ ShardOf[Key(s)] = s
        /\ wpc[s] \in {"update", "undo", "fin"} => flow[Key(s)] # NoFlow

(* Results are written in the order of the packets, none twice and none    *)
(* left out in between, whatever order the workers deliver them in.        *)
OutputInOrder ==
    /\ next_output_index = Len(out)
    /\ \A i \in DOMAIN out : out[i].index = i - 1
=============================================================================
