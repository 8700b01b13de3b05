----------------------------- MODULE FileOutput -----------------------------
(***************************************************************************)
(* What the output of an invocation promises (README: "independent files   *)
(* are processed concurrently and emitted in argv order"): the blocks of   *)
(* the first source, then those of the second, and so on, whoever decodes  *)
(* them and when.  A source may grow.  Only an interrupt, or a reader that *)
(* has left, cuts one short; an exit code of 0 says that no source failed, *)
(* nobody interrupted the decoding, and nothing is missing that somebody   *)
(* would see.                                                              *)
(***************************************************************************)
EXTENDS SequencesExt, Integers

VARIABLES decodes,      \* whether sources are to be decoded
          promised,     \* source -> the blocks to be shown of it
          printed,      \* the blocks shown
          failed,       \* a source could not be read, or the invocation was refused
          interrupted,  \* somebody asked the program to stop
          left,         \* nobody reads the output any more
          code          \* exit code, or Running

Running == -1
vars == <<decodes, promised, printed, failed, interrupted, left, code>>

(* The beginnings of every source, in the order of the sources.            *)
Cuts ==
    LET blocks  == promised
        lengths == [i \in DOMAIN blocks |-> Len(blocks[i])]
        cuts    == {n \in [DOMAIN blocks -> 0 .. Max({0} \cup Range(lengths))] :
                       \A i \in DOMAIN blocks : n[i] <= lengths[i]}
    IN  {FlattenSeq([i \in DOMAIN blocks |-> SubSeq(blocks[i], 1, n[i])]) : n \in cuts}

Init ==
    /\ printed = << >>
    /\ ~failed /\ ~interrupted /\ ~left
    /\ code = Running

Arrive ==
    /\ DOMAIN promised' = DOMAIN promised
    /\ \A i \in DOMAIN promised : IsPrefix(promised[i], promised'[i])
    /\ UNCHANGED <<decodes, printed, failed, interrupted, left, code>>

Show ==
    /\ IsPrefix(printed, printed')
    /\ IF interrupted \/ left THEN printed' \in Cuts
                              ELSE IsPrefix(printed', FlattenSeq(promised))
    /\ failed => failed'
    /\ UNCHANGED <<decodes, promised, interrupted, left, code>>

Fail == failed' /\ UNCHANGED <<decodes, promised, printed, interrupted, left, code>>
Interrupt == interrupted' /\ UNCHANGED <<decodes, promised, printed, failed, left, code>>
Leave == left' /\ UNCHANGED <<decodes, promised, printed, failed, interrupted, code>>

Exit ==
    /\ code' \in {0, 1, 2, 130}
    /\ code' = 0 => ~failed /\ ~(decodes /\ interrupted) /\ (left \/ printed = FlattenSeq(promised))
    /\ code' = 130 => interrupted
    /\ UNCHANGED <<decodes, promised, printed, failed, interrupted, left>>

Next == code = Running /\ (Arrive \/ Show \/ Fail \/ Interrupt \/ Leave \/ Exit)
Spec == Init /\ [][Next]_vars
=============================================================================
