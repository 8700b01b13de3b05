---------------------------- MODULE MCShardPool -----------------------------
(* Flows a and c share shard 1, b has shard 2.  Time is in half seconds.   *)
EXTENDS ShardPoolReference

CONSTANTS a, b, c

MCShardOf == (a :> 1 @@ b :> 2 @@ c :> 1)

Whole(f, t, n)  == [flow |-> f, at |-> t, size |-> n, prior |-> 0, completes |-> TRUE,
                    syn |-> FALSE, fin |-> FALSE, decodes_to |-> "work"]
First(f, t, n)  == [Whole(f, t, n) EXCEPT !.completes = FALSE]
Rest(f, t, n, before) == [Whole(f, t, n) EXCEPT !.prior = before]
More(f, t, n, before) == [First(f, t, n) EXCEPT !.prior = before]
Fin(p) == [p EXCEPT !.fin = TRUE]
Syn(p) == [p EXCEPT !.syn = TRUE]
Unreadable(t) == [Whole(a, t, 1) EXCEPT !.decodes_to = "error"]
Ignored(t)    == [Whole(a, t, 1) EXCEPT !.decodes_to = "nothing"]

(* Two flows at a time, three bytes each, five bytes in all.  Captures     *)
(* whose limits cannot bind: idle eviction of a partial message, the same  *)
(* with both flows on one shard, a SYN that resets, a FIN that cuts, one   *)
(* where nothing is lost, and one that ends within a message.              *)
LooseCaptures == {
    << First(a, 0, 2), Whole(b, 1, 1), Rest(a, 2, 1, 2), Unreadable(3), Ignored(4), First(b, 6, 1) >>,
    << First(a, 0, 1), Whole(c, 1, 1), Whole(c, 2, 1), Rest(a, 3, 1, 1) >>,
    << Syn(First(a, 0, 1)), First(b, 0, 2), Syn(Whole(a, 0, 1)), Fin(More(b, 1, 1, 2)),
       Whole(b, 1, 1) >>,
    << Whole(a, 0, 1), First(b, 0, 2), Rest(b, 1, 1, 2) >>,
    << Whole(a, 0, 1), First(b, 0, 2) >> }

(* And captures whose limits bind.                                         *)
TightCaptures == {
    << First(a, 0, 2), First(b, 0, 3), Rest(a, 0, 1, 2), Fin(Rest(b, 1, 1, 3)) >>,
    << Fin(Whole(a, 0, 1)), First(b, 0, 3), Syn(First(c, 0, 3)), Syn(First(c, 2, 1)) >>,
    << Fin(Whole(b, 0, 1)), Ignored(0), Whole(a, 0, 1), Whole(c, 0, 1), Whole(b, 0, 1) >> }

(* Flow a falls idle exactly when flow b, on the other shard, appears.     *)
RaceCaptures == { << Whole(a, 0, 1), Whole(b, 2, 1) >> }

MCCaptures == LooseCaptures \union TightCaptures

MCPackets == UNION {Range(k) : k \in MCCaptures}
RacePackets == UNION {Range(k) : k \in RaceCaptures}
=============================================================================
