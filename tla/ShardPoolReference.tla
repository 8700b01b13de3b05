------------------------- MODULE ShardPoolReference -------------------------
(***************************************************************************)
(* What the threads of ShardPool compute, compared with one thread that    *)
(* handles every packet completely before it reads the next, and the       *)
(* properties of ShardPool that need sums over its state.                  *)
(***************************************************************************)
EXTENDS ShardPool, SequencesExt, FiniteSetsExt

HeldBy(fl, F) == MapThenSumSet(LAMBDA f : fl[f].held, {f \in F : fl[f] # NoFlow})
Stale(fl, F, now) ==
    {f \in F : IdleTimeout > 0 /\ fl[f] # NoFlow /\ now - fl[f].last_seen >= IdleTimeout}
Without(fl, F) == [f \in Flows |-> IF f \in F THEN NoFlow ELSE fl[f]]
LossOf(fl, F) == Cardinality({f \in F : fl[f] # NoFlow /\ fl[f].held > 0})
ShardMates(f) == {g \in Flows : ShardOf[g] = ShardOf[f]}

(* One packet: its result, and the flow table it leaves.                   *)
Handled(fl, p) ==
    LET retired  == IF p.syn THEN {p.flow} ELSE {}
        opened   == Without(fl, retired)
        others   == {f \in Flows \ {p.flow} : fl[f] # NoFlow}
        refused  == opened[p.flow] = NoFlow /\ Cardinality(others) >= MaxFlows
        held     == IF opened[p.flow] = NoFlow THEN 0 ELSE opened[p.flow].held
        r        == Reassembled(held, p)
        exceeded == r.held > held /\ r.held + HeldBy(fl, others) > MaxTotalBytes
        kept     == IF exceeded THEN 0 ELSE r.held
    IN  IF refused
        THEN [flow |-> opened, output |-> 0, warnings |-> 1]
        ELSE [flow |-> [opened EXCEPT ![p.flow] =
                          IF p.fin THEN NoFlow ELSE [held |-> kept, last_seen |-> p.at]],
              output |-> r.output,
              warnings |-> LossOf(fl, retired) + r.warnings + (IF exceeded THEN 1 ELSE 0)
                             + (IF p.fin /\ kept > 0 THEN 1 ELSE 0)]

Sequentially(done, p) ==
    LET sweep  == /\ IdleTimeout > 0
                  /\ \/ done.sweep = NoTime
                     \/ p.at - done.sweep >= SweepInterval
        swept  == IF sweep THEN Stale(done.flow, Flows, p.at) ELSE {}
        fl     == Without(done.flow, swept)
        h      == Handled(fl, p)
        stale  == Stale(h.flow, ShardMates(p.flow), p.at)
        base   == [done EXCEPT !.sweep = IF sweep THEN p.at ELSE @,
                               !.losses = @ + LossOf(done.flow, swept)]
    IN  IF p.decodes_to # "work"
        THEN [base EXCEPT !.flow = fl,
                          !.losses = @ + (IF p.decodes_to = "error" THEN 1 ELSE 0)]
        ELSE [base EXCEPT !.flow = Without(h.flow, stale),
                          !.losses = @ + h.warnings + LossOf(h.flow, stale),
                          !.out = Append(@, [index |-> Len(@), output |-> h.output,
                                             warnings |-> h.warnings])]

RunOf(packets) ==
    FoldLeft(Sequentially,
             [flow |-> [f \in Flows |-> NoFlow], sweep |-> NoTime, losses |-> 0, out |-> <<>>],
             packets)
SequentialRun == RunOf(capture)

(* With the partial messages that are left at the end of the input.        *)
LossesOf(run) == run.losses + LossOf(run.flow, Flows)

(* The input as the workers see it when its last segment is never queued.  *)
LastUnsent(packets) ==
    LET segments == {i \in DOMAIN packets : packets[i].decodes_to = "work"}
    IN  IF segments = {} THEN packets
        ELSE [packets EXCEPT ![Max(segments)].decodes_to = "nothing"]
-----------------------------------------------------------------------------
(* No more flows than --max-flows, and no more bytes of them than all the  *)
(* flow buffers together may hold.                                         *)
LimitsCannotBind ==
    LET segments == SelectSeq(capture, LAMBDA p : p.decodes_to = "work")
        seen     == {segments[i].flow : i \in DOMAIN segments}
        bytes(f) == FoldLeft(LAMBDA n, p : n + (IF p.flow = f THEN p.size ELSE 0), 0, segments)
    IN  /\ Cardinality(seen) <= MaxFlows
        /\ MapThenSumSet(LAMBDA f : Min({bytes(f), MaxFlowBytes}), seen) <= MaxTotalBytes

(* With limits that cannot bind, threads make no difference: what has been *)
(* written is a beginning of what one thread would have written, and when  *)
(* the program ends it is all of it, with the same losses.  A failed write *)
(* ends in success only as the last one: of the whole input, or of what    *)
(* came before the last segment when the failure kept that from its queue. *)
(* It is one loss more than one thread has on what the workers were sent.  *)
SameAsSequential ==
    LimitsCannotBind =>
        /\ IsPrefix(out, SequentialRun.out)
        /\ cpc = "exit" =>
              \/ out = SequentialRun.out /\ losses = LossesOf(SequentialRun)
              \/ \E sent \in {capture, LastUnsent(capture)} :
                    LET run == RunOf(sent)
                    IN  /\ WriteMayFail /\ run.out # <<>>
                        /\ out = Front(run.out) /\ losses = LossesOf(run) + 1

(* README, "Idle eviction uses packet capture timestamps, so offline files *)
(* are processed consistently regardless of playback speed": the messages  *)
(* written for a capture do not depend on how the threads are scheduled.   *)
ConsistentProcessing == cpc = "exit" => out = SequentialRun.out

(* buffered_bytes is what the tables hold and what removed flows held that *)
(* is about to be subtracted; so it never underflows, and when the program *)
(* ends both counters are back at zero.                                    *)
BytesCounted ==
    /\ buffered_bytes = HeldBy(flow, Flows) + MapThenSumSet(LAMBDA s : owed[s], Shards)
    /\ cpc = "exit" => flows = 0 /\ buffered_bytes = 0

(* --max-total-bytes: it is exceeded only while a worker that exceeded it  *)
(* is about to drop its flow's bytes.                                      *)
MemoryBounded ==
    buffered_bytes > MaxTotalBytes => \E s \in Shards : wpc[s] = "undo"

(* What `prior` says of a packet: how many bytes of the message its bytes  *)
(* belong to were in earlier packets of the flow.  No message goes on over *)
(* a SYN or a FIN, and only bytes complete one.                            *)
Unfinished(p) ==
    IF p.fin THEN 0
    ELSE IF p.size = 0 THEN p.prior
    ELSE IF p.completes THEN 0 ELSE p.prior + p.size

CountsPrior(c) ==
    \A j \in {i \in 1 .. Len(c) : c[i].decodes_to = "work"} :
        LET earlier == {i \in 1 .. j - 1 : /\ c[i].decodes_to = "work"
                                          /\ c[i].flow = c[j].flow}
        IN  /\ c[j].completes => c[j].size > 0
            /\ earlier = {} => c[j].prior = 0
            /\ \A i \in earlier :
                  (\A k \in earlier : k <= i) =>
                      c[j].prior = IF c[j].syn THEN 0 ELSE Unfinished(c[i])

ASSUME PriorAssumption == \A c \in Captures : CountsPrior(c)

Segments(n) == {i \in 1 .. n : capture[i].decodes_to # "nothing"}

(* Success without a loss means that every packet was read and every       *)
(* message written, whole: a failed write, a skipped packet, an evicted or *)
(* cut message, or a result that never came cannot end in success under    *)
(* --strict.                                                               *)
HonestExit ==
    cpc = "exit" /\ losses = 0 =>
        /\ Len(out) = Cardinality(Segments(Len(capture)))
        /\ \A i \in Segments(Len(capture)) :
              out[Cardinality(Segments(i))].output =
                  IF capture[i].completes THEN capture[i].prior + capture[i].size ELSE 0

(* The threads never wait for each other in a circle, though a full queue  *)
(* makes the capture thread wait for a worker: the program ends.           *)
Termination == <>(cpc \in {"exit", "failed"})
=============================================================================
