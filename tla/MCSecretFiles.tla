---------------------------- MODULE MCSecretFiles ---------------------------
(* Four invocations over two directories: one comes to a missing input     *)
(* after two copies, one writes one of the same copies first, and two are  *)
(* refused: beside an existing copy, and for two outputs with one name.    *)
EXTENDS SecretFiles

CONSTANTS r1, r2, r3, r4, v, w

F(t, x) == [tag |-> t, value |-> x]
MCFields == {F(49, v), F(49, w), F(56, v)}
Path(d, b) == [dir |-> d, base |-> b, k |-> 0]
MCDirOf == [d \in {"", ".", "y", "out"} |-> IF d = "." THEN "" ELSE d]

MCExisting == (Path("", "a") :> << F(49, v), F(56, v), F(49, w), F(49, v) >>)
           @@ (Path("", "b") :> << F(49, w) >>)
           @@ (Path("y", "b") :> << F(56, v) >>)
           @@ (Path("y", "c") :> << F(49, w) >>)
           @@ ([Path("y", "b") EXCEPT !.k = 1] :> << >>)

MCInputs == (r1 :> << Path("", "a"), Path("", "b"), Path("", "missing") >>)
         @@ (r2 :> << Path(".", "b"), Path("y", "c") >>)
         @@ (r3 :> << Path("", "a"), Path("y", "b") >>)
         @@ (r4 :> << Path("", "b"), Path("y", "b") >>)
MCSecretDir == (r1 :> None) @@ (r2 :> None) @@ (r3 :> None) @@ (r4 :> "out")

(* fixdecoder --secret-files b ./b                                         *)
TwiceInputs == (r1 :> << Path("", "b"), Path(".", "b") >>)
=============================================================================
