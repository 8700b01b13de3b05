--------------------------- MODULE MessageStream ----------------------------
(***************************************************************************)
(* What one flow of pcap2fix promises, without sequence numbers, buffers   *)
(* or limits.  A stretch of a connection's stream is being followed from   *)
(* the offset `from`; `got` are the offsets captured since then.  What the *)
(* gap-free start of the stretch contains has been emitted, no more and no *)
(* less.  A stretch may be given up at any time, but not in silence when   *)
(* it has captured bytes that were not emitted.                            *)
(***************************************************************************)
EXTENDS FixFraming

CONSTANTS Sent,       \* Sent[c] is the stream of connection c
          NotOpen     \* no stretch is being followed

VARIABLES conn,       \* the connection the captured packets belong to
          from, got, out, losses

vars == <<conn, from, got, out, losses>>

(* The end of the gap-free start of a stretch, and the bytes up to it.     *)
Reached(c, f, g) == CHOOSE o \in f .. Len(Sent[c]) :
                        o \notin g /\ \A q \in f .. o - 1 : q \in g

Contents(c, f, g) == SubSeq(Sent[c], f + 1, Reached(c, f, g))

(* Captured, but neither part of a message nor recognisably garbage.       *)
Unfinished(c, f, g) == \/ \E o \in g : o > Reached(c, f, g)
                       \/ ReadWhole(Contents(c, f, g)).open

(* The messages that bytes complete which extend g to h.                   *)
Completed(c, f, g, h) == SubSeq(Messages(Contents(c, f, h)),
                                Len(Messages(Contents(c, f, g))) + 1,
                                Len(Messages(Contents(c, f, h))))

Init == /\ conn = 1
        /\ from = NotOpen
        /\ got = {}
        /\ out = <<>>
        /\ losses = 0

(* Bytes of connection c are captured, into the stretch being followed or  *)
(* into a new one that starts at f; the stretch may end with them.         *)
Capture(c, f, bytes, restarts, ends) ==
    LET before == IF restarts THEN {} ELSE got
        after  == before \cup bytes
        lost   == \/ restarts /\ from # NotOpen /\ Unfinished(conn, from, got)
                  \/ ends /\ Unfinished(c, f, after)
        extra  == Completed(c, f, before, after)
    IN  /\ conn' = c
        /\ from' = IF ends THEN NotOpen ELSE f
        /\ got'  = IF ends THEN {} ELSE after
        /\ losses' >= losses
        /\ lost => losses' > losses
        /\ \/ out' = out \o extra
           \/ ends /\ losses' > losses /\ out' = out

Next ==
    \E ends \in BOOLEAN :
        \/ /\ from # NotOpen
           /\ \E a \in from .. Len(Sent[conn]) : \E b \in a .. Len(Sent[conn]) :
                 Capture(conn, from, a .. b - 1, FALSE, ends)
        \/ \E c \in DOMAIN Sent :
              \E f \in 0 .. Len(Sent[c]) : \E b \in f .. Len(Sent[c]) :
                 Capture(c, f, f .. b - 1, TRUE, ends)

Spec == Init /\ [][Next]_vars
=============================================================================
