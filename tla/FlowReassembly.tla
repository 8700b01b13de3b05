--------------------------- MODULE FlowReassembly ---------------------------
(***************************************************************************)
(* One direction of a TCP connection as pcap2fix sees it: the packets of   *)
(* the connection are captured in any order, more than once or not at all, *)
(* and segments may overlap.  Each captured packet runs                    *)
(* handle_packet_work; other flows may use up the shared limits; the flow  *)
(* may be evicted as idle; at the end of the capture the shard is flushed. *)
(* The shared counters themselves are the subject of ShardPool.            *)
(***************************************************************************)
EXTENDS FlowState

CONSTANTS
    Sent,        \* Sent[c]: the bytes the peer sends on incarnation c of the tuple
    Isn,         \* Isn[c]: the sequence number of its SYN
    Packets,     \* what it puts on the wire: bytes from+1..to of Sent[conn]
    Copies,      \* bound: how often one packet is captured
    Contended    \* whether other flows compete for the shared limits

ASSUME ConnectionAssumption ==
    /\ 1 \in DOMAIN Sent
    /\ \A c \in DOMAIN Sent : /\ Sent[c] \in Seq(Range(Sent[c]))
                             /\ Isn[c] \in 0 .. SeqSpace - 1
    /\ \A p \in Packets : /\ p.conn \in DOMAIN Sent
                          /\ p.to \in 0 .. Len(Sent[p.conn]) /\ p.from \in 0 .. p.to
                          /\ p.syn \in BOOLEAN /\ p.fin \in BOOLEAN
                          /\ p.syn => p.from = 0
    /\ Copies \in Nat
    /\ Contended \in BOOLEAN

(* No segment is captured half the sequence space or more away from where  *)
(* its flow is: TCP windows are smaller than that.  Here segments come in  *)
(* any order, so it bounds the stream.                                     *)
ASSUME WindowAssumption == \A c \in DOMAIN Sent : Len(Sent[c]) < SeqSpace \div 2

VARIABLES
    conn,        \* the current incarnation
    left,        \* how many more times each packet may be captured
    flow,        \* flows.get(key): the FlowState, or NoFlow
    out,         \* the messages written, in order
    losses,      \* warnings and shard losses
    done,        \* the capture has ended
    from, got    \* history: the offsets followed (see MessageStream)

NoFlow == [next_seq |-> NoSeq]
NotOpen == NoSeq

vars == <<conn, left, flow, out, losses, done, from, got>>

SeqAt(c, offset) == SeqAdd(Isn[c], 1 + offset)

(* sliced_packet_to_work: the SYN occupies the number before the data.     *)
WorkOf(p) ==
    LET rawSeq == IF p.syn THEN Isn[p.conn] ELSE SeqAt(p.conn, p.from)
    IN  [seq |-> IF p.syn THEN SeqAdd(rawSeq, 1) ELSE rawSeq,
         payload |-> SubSeq(Sent[p.conn], p.from + 1, p.to),
         starts_flow |-> p.syn,
         ends_flow   |-> p.fin]

(* sliced_packet_to_work returns no work for a bare acknowledgement.       *)
HasWork(p) == p.from < p.to \/ p.syn \/ p.fin
-----------------------------------------------------------------------------
(* handle_packet_work.  `refused`: the flow limit is reached when the flow *)
(* has to be created.  `exceeded`: the total of all flows is over its      *)
(* limit once this flow has grown.  Both can happen only for the reason.   *)
Held(f) == IF f = NoFlow THEN 0 ELSE BufferedBytes(f)

HandlePacketWork(work, refused, exceeded) ==
    LET reset    == work.starts_flow /\ flow # NoFlow
        resetLoss == IF reset /\ Held(flow) > 0 THEN 1 ELSE 0
        start    == IF reset \/ flow = NoFlow THEN NewFlow ELSE flow
        step     == IF work.payload = <<>>
                    THEN [flow |-> start, emitted |-> <<>>, overflow |-> FALSE]
                    ELSE Reassemble(start, work.seq, work.payload)
        grown    == BufferedBytes(step.flow) > BufferedBytes(start)
        cleared  == grown /\ exceeded
        kept     == IF cleared THEN NewFlow ELSE step.flow
        endLoss  == IF work.ends_flow /\ BufferedBytes(kept) > 0 THEN 1 ELSE 0
    IN  \/ /\ refused /\ (reset \/ flow = NoFlow)
           /\ flow' = NoFlow
           /\ losses' = losses + 1
           /\ UNCHANGED out
        \/ /\ ~refused
           /\ exceeded => grown
           /\ flow' = IF work.ends_flow THEN NoFlow ELSE kept
           /\ out' = out \o step.emitted
           /\ losses' = losses + resetLoss + endLoss
                          + (IF step.overflow THEN 1 ELSE 0)
                          + (IF cleared THEN 1 ELSE 0)

(* The history of what is followed: a flow without a next_seq follows      *)
(* nothing; the first segment after that opens a stretch at its offset.    *)
Follow(p) ==
    LET reopened == from = NotOpen \/ p.syn \/ p.conn # conn
        f == IF reopened THEN p.from ELSE from
    IN  IF flow'.next_seq = NoSeq
        THEN from' = NotOpen /\ got' = {}
        ELSE /\ from' = f
             /\ got' = (IF reopened THEN {} ELSE got)
                         \cup {o \in p.from .. p.to - 1 : o >= f}

-----------------------------------------------------------------------------
Init == /\ conn = 1
        /\ left = [p \in Packets |-> Copies]
        /\ flow = NoFlow
        /\ out = <<>>
        /\ losses = 0
        /\ done = FALSE
        /\ from = NotOpen
        /\ got = {}

(* A packet of the current incarnation is captured, or the SYN of the next.*)
CapturePacket(p) ==
    /\ ~done
    /\ left[p] > 0
    /\ HasWork(p)
    /\ p.conn = conn \/ (p.conn = conn + 1 /\ p.syn)
    /\ left' = [left EXCEPT ![p] = @ - 1]
    /\ conn' = p.conn
    /\ \E refused, exceeded \in (IF Contended THEN BOOLEAN ELSE {FALSE}) :
          HandlePacketWork(WorkOf(p), refused, exceeded)
    /\ Follow(p)
    /\ UNCHANGED done

(* evict_idle_at: capture time has moved idle_timeout past last_seen.      *)
EvictIdle ==
    /\ ~done /\ flow # NoFlow
    /\ flow' = NoFlow
    /\ losses' = losses + (IF BufferedBytes(flow) > 0 THEN 1 ELSE 0)
    /\ from' = NotOpen /\ got' = {}
    /\ UNCHANGED <<conn, left, out, done>>

(* The input ends: flush_remaining_flow_outputs.                           *)
Finish ==
    LET flushed == FlushCompleteMessages(flow.buffer)
        rest    == [flow EXCEPT !.buffer = flushed.buffer]
    IN  /\ ~done
        /\ done' = TRUE
        /\ IF flow = NoFlow
           THEN UNCHANGED <<out, losses>>
           ELSE /\ out' = out \o flushed.emitted
                /\ losses' = losses + (IF BufferedBytes(rest) > 0 THEN 1 ELSE 0)
        /\ flow' = NoFlow
        /\ from' = NotOpen /\ got' = {}
        /\ UNCHANGED <<conn, left>>

Next == (\E p \in Packets : CapturePacket(p)) \/ EvictIdle \/ Finish

Spec == Init /\ [][Next]_vars
-----------------------------------------------------------------------------
TypeOK ==
    /\ conn \in DOMAIN Sent
    /\ left \in [Packets -> 0 .. Copies]
    /\ flow # NoFlow =>
          /\ flow.next_seq \in (0 .. SeqSpace - 1) \cup {NoSeq}
          /\ DOMAIN flow.pending \subseteq 0 .. SeqSpace - 1
    /\ losses \in Nat
    /\ done \in BOOLEAN

(* What the flow does is what MessageStream promises: the messages written *)
(* are those of the gap-free bytes captured since the stretch was opened,  *)
(* each once and in order, whatever the order, overlap and repetition of   *)
(* segments and across sequence wrap-around; and no stretch with captured  *)
(* but unwritten bytes is given up without a loss being counted.           *)
Promise == INSTANCE MessageStream
ImplementsMessageStream == Promise!Spec

(* reassemble_and_emit leaves nothing in `pending` that could be appended: *)
(* every early segment lies strictly ahead of a known gap, so a segment is *)
(* never kept until the end of the capture though its turn has come.       *)
PendingIsAhead ==
    flow # NoFlow =>
        /\ flow.next_seq = NoSeq => flow = NewFlow
        /\ \A s \in DOMAIN flow.pending : SequenceAfter(s, flow.next_seq)

(* --max-flow-bytes bounds what a flow holds between packets, buffer and   *)
(* early segments together.                                                *)
FlowIsBounded ==
    flow # NoFlow =>
        Len(flow.buffer) + SumFunction([s \in DOMAIN flow.pending |-> Len(flow.pending[s])])
            <= MaxFlowBytes

(* --strict, "Exit unsuccessfully if packets or incomplete flows are       *)
(* dropped": when a capture ends without a loss counted, every message all *)
(* of whose bytes were captured has been written.                          *)
StrictMeansNothingDropped ==
    LET captured == {o \in 0 .. Len(Sent[1]) - 1 :
                        \E p \in Packets : left[p] < Copies /\ o \in p.from .. p.to - 1}
    IN  done /\ losses = 0 =>
            \A a, b \in 1 .. Len(Sent[1]) :
                (a - 1 .. b - 1) \subseteq captured /\ IsMessage(Sent[1], a, b)
                    => \E k \in DOMAIN out : out[k] = SubSeq(Sent[1], a, b)
=============================================================================
