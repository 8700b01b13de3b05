----------------------------- MODULE FlowState ------------------------------
(***************************************************************************)
(* The reassembly state of one direction of a TCP connection in pcap2fix   *)
(* (struct FlowState) and the functions that change it when a segment of   *)
(* the flow is processed.  Sequence numbers are modulo SeqSpace (2^32 in   *)
(* the code); payloads are sequences of FixFraming's tokens.               *)
(* last_seen belongs to the eviction clock and is modelled in ShardPool.   *)
(***************************************************************************)
EXTENDS FixFraming, SequencesExt

CONSTANTS SeqSpace,       \* the number of sequence numbers
          NoSeq,          \* next_seq: None
          MaxFlowBytes    \* --max-flow-bytes

ASSUME FlowAssumption ==
    /\ SeqSpace \in Nat /\ SeqSpace > 0 /\ SeqSpace % 2 = 0
    /\ NoSeq \notin Nat
    /\ MaxFlowBytes \in Nat \ {0}

-----------------------------------------------------------------------------
SeqAddUnwrapped(seq, n) == seq + n
SeqAdd(seq, n) == (seq + n) % SeqSpace
SeqSub(a, b)   == (a + SeqSpace - b) % SeqSpace

SequenceAfterUnsigned(sequence, reference) == sequence > reference

(* The signed difference is positive.  Half the space away is after in     *)
(* neither direction: the sign bit of the difference is set both ways.     *)
SequenceAfter(sequence, reference) ==
    SeqSub(sequence, reference) \in 1 .. (SeqSpace \div 2) - 1

NewFlow == [next_seq |-> NoSeq, buffer |-> <<>>, pending |-> <<>>]

BufferOnly(flow) == Len(flow.buffer)
BufferedBytes(flow) ==
    Len(flow.buffer) + SumFunction([s \in DOMAIN flow.pending |-> Len(flow.pending[s])])

Expected(flow, seq) == IF flow.next_seq = NoSeq THEN seq ELSE flow.next_seq

(* The part of the payload from the expected byte on, if there is any.     *)
AppendSegment(flow, seq, payload) ==
    LET expected == Expected(flow, seq)
        overlap  == SeqSub(expected, seq)
        isNew    == \/ seq = expected
                    \/ /\ SequenceAfter(SeqAdd(seq, Len(payload)), expected)
                       /\ overlap < Len(payload)
        fresh    == SubSeq(payload, overlap + 1, Len(payload))
    IN  IF isNew
        THEN [flow EXCEPT !.buffer = @ \o fresh,
                          !.next_seq = SeqAdd(expected, Len(fresh))]
        ELSE flow

(* Of two early segments with the same sequence number the longer is kept. *)
StoreFutureSegment(flow, seq, payload) ==
    IF seq \in DOMAIN flow.pending /\ Len(payload) <= Len(flow.pending[seq])
    THEN flow
    ELSE [flow EXCEPT !.pending =
             [s \in DOMAIN @ \cup {seq} |-> IF s = seq THEN payload ELSE @[s]]]

(* One turn of the drain loop: the pending segment that starts nearest     *)
(* before (or at) the expected byte is taken out and appended.             *)
DrainOne(flow) ==
    LET ready == {s \in DOMAIN flow.pending : ~SequenceAfter(s, flow.next_seq)}
        seq   == CHOOSE s \in ready : \A t \in ready :
                    SeqSub(flow.next_seq, s) <= SeqSub(flow.next_seq, t)
    IN  IF flow.next_seq = NoSeq \/ ready = {}
        THEN flow
        ELSE AppendSegment(
               [flow EXCEPT !.pending = RestrictDomain(@, LAMBDA s : s # seq)],
               seq, flow.pending[seq])

DrainOnce(flow) == DrainOne(flow)

(* Every turn of the loop but the last removes a pending segment.          *)
DrainPendingSegments(flow) ==
    FoldFunction(LAMBDA payload, drained : DrainOne(drained), flow, flow.pending)

(* reassemble_and_emit_with_scratch.                                       *)
Reassemble(flow, seq, payload) ==
    LET stored  == IF SequenceAfter(seq, Expected(flow, seq))
                   THEN StoreFutureSegment(flow, seq, payload)
                   ELSE AppendSegment(flow, seq, payload)
        drained == DrainPendingSegments(stored)
        flushed == FlushCompleteMessages(drained.buffer)
    IN  IF BufferedBytes(drained) > MaxFlowBytes
        THEN [flow |-> NewFlow, emitted |-> <<>>, overflow |-> TRUE]
        ELSE [flow |-> [drained EXCEPT !.buffer = flushed.buffer],
              emitted |-> flushed.emitted, overflow |-> FALSE]
=============================================================================
