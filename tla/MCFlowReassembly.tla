-------------------------- MODULE MCFlowReassembly --------------------------
(* Two incarnations of one tuple.  The first sends two messages and half a *)
(* third, its sequence numbers wrap inside the first message, and its      *)
(* segments include a retransmission that overlaps three others and one    *)
(* that was cut shorter the first time.                                    *)
EXTENDS FlowReassembly

MCBeginString == <<"8=", "FIX">>
MCBodyLength  == [t \in {"9=0", "9=1"} |-> IF t = "9=0" THEN 0 ELSE 1]

Message(body) == <<"8=", "FIX", "|", "9=1", "|", body, "10=", "|">>

MCSent == << Message("a") \o Message("b") \o <<"8=">>,
             Message("c") >>
MCIsn  == << 56, 20 >>

Segment(c, a, b) == [conn |-> c, from |-> a, to |-> b, syn |-> FALSE, fin |-> FALSE]
Syn(c, b) == [Segment(c, 0, b) EXCEPT !.syn = TRUE]
Fin(c, a, b) == [Segment(c, a, b) EXCEPT !.fin = TRUE]

MCPackets == { Syn(1, 0), Segment(1, 0, 2), Segment(1, 2, 5), Segment(1, 5, 7),
               Segment(1, 5, 9), Segment(1, 3, 12), Segment(1, 9, 16), Fin(1, 16, 17),
               Syn(2, 2), Segment(2, 2, 8), Fin(2, 8, 8) }

(* Two messages in three segments, the handshake included.                 *)
ReorderedSent == << Message("a") \o Message("b") >>
ReorderedPackets == { Syn(1, 0), Segment(1, 0, 8), Segment(1, 8, 12),
                      Segment(1, 12, 16), Fin(1, 16, 16) }
=============================================================================
