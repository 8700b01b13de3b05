----------------------------- MODULE SecretFiles ----------------------------
(***************************************************************************)
(* fixdecoder --secret-files: one or several invocations write obfuscated  *)
(* copies of their input files.  An invocation first plans the output of   *)
(* every input, then writes them one after the other; every access to the  *)
(* file system is a step, and any of them may fail.                        *)
(*                                                                         *)
(* A path is a directory as it was written, and a name: a base with        *)
(* ".secret" inserted k times.  A file is User's, or the copy <<r, n>> that*)
(* invocation r makes of its n-th input.  A line of a file is one sensitive*)
(* field; what surrounds it is copied unchanged and left out.  Removing a  *)
(* file is taken to succeed.                                               *)
(***************************************************************************)
EXTENDS Integers, Sequences, FiniteSets, TLC, SequencesExt

CONSTANTS
    Runs,        \* the invocations
    Inputs,      \* Inputs[r]: the paths on its command line
    SecretDir,   \* SecretDir[r]: --secret-dir, or None
    DirOf,       \* DirOf[d]: the directory that d denotes
    Existing,    \* the files there are at first: place -> lines
    Fields,      \* the sensitive fields: [tag, value]
    User, None,
    IoMayFail,   \* whether reading, writing or changing permissions may fail
    MayBeKilled  \* whether an invocation may be killed

Place(path) == [path EXCEPT !.dir = DirOf[@]]

(* secret_output_path: ".secret" goes before the extension.                *)
SecretOutputPath(r, path) ==
    [path EXCEPT !.dir = IF SecretDir[r] = None THEN @ ELSE SecretDir[r], !.k = @ + 1]

Copies  == UNION {{r} \X DOMAIN Inputs[r] : r \in Runs}
Input(c)  == Inputs[c[1]][c[2]]
Output(c) == SecretOutputPath(c[1], Input(c))
Places  == DOMAIN Existing \cup UNION {{Place(Input(c)), Place(Output(c))} : c \in Copies}

ASSUME SecretAssumption ==
    /\ \A r \in Runs : /\ Len(Inputs[r]) \in Nat \ {0} /\ DOMAIN Inputs[r] = 1 .. Len(Inputs[r])
                      /\ \A n \in DOMAIN Inputs[r] : Inputs[r][n].k \in Nat
    /\ \A p \in DOMAIN Existing : Existing[p] \in Seq(Fields)
    /\ User # None /\ {User, None} \cap Copies = {}
    /\ \A c, d \in Copies : Place(Input(c)) # Place(Output(d))   \* no copies of copies
    /\ IoMayFail \in BOOLEAN /\ MayBeKilled \in BOOLEAN

VARIABLES
    files,      \* the file at each place, or None
    text,       \* text[c]: the lines of copy c
    granted,    \* the copies that have their input's permissions
    pc, nth,    \* where each invocation is, and at which input
    planned,    \* the outputs it has planned
    aliases     \* its obfuscator: the number of the alias of each field seen

vars == <<files, text, granted, pc, nth, planned, aliases>>

NoAliases == [f \in {} |-> 0]

Init ==
    /\ files = [p \in Places |-> IF p \in DOMAIN Existing THEN User ELSE None]
    /\ text = [c \in Copies |-> <<>>]
    /\ granted = {}
    /\ pc = [r \in Runs |-> "plan"]
    /\ nth = [r \in Runs |-> 1]
    /\ planned = [r \in Runs |-> <<>>]
    /\ aliases = [r \in Runs |-> NoAliases]

Current(r) == <<r, nth[r]>>
OutputPlace(r) == Place(Output(Current(r)))
IsLast(r) == nth[r] = Len(Inputs[r])
Goto(r, where) == pc' = [pc EXCEPT ![r] = where]

-----------------------------------------------------------------------------
(* plan_secret_outputs: an output must not exist, nor be written as the    *)
(* same path as an earlier one.                                            *)
TakenUnchecked(r) == Output(Current(r)) \in Range(planned[r])
Taken(r) == \/ files[OutputPlace(r)] # None
            \/ Output(Current(r)) \in Range(planned[r])

PlanOutput(r) ==
    /\ pc[r] = "plan"
    /\ \/ /\ ~Taken(r)
          /\ planned' = [planned EXCEPT ![r] = Append(@, Output(Current(r)))]
          /\ nth' = [nth EXCEPT ![r] = IF IsLast(r) THEN 1 ELSE @ + 1]
          /\ IF IsLast(r) THEN Goto(r, "open") ELSE UNCHANGED pc
       \/ /\ Taken(r)
          /\ Goto(r, "failed")
          /\ UNCHANGED <<planned, nth>>
    /\ UNCHANGED <<files, text, granted, aliases>>

RemovePlanned(r) ==
    /\ files' = [p \in Places |->
                   IF \E o \in Range(planned[r]) : Place(o) = p THEN None ELSE files[p]]
    /\ Goto(r, "failed")
(* When write_secret_file fails, whatever is at the output path is removed.*)
RemoveOutput(r) ==
    /\ files' = [files EXCEPT ![OutputPlace(r)] = None]
    /\ Goto(r, "failed")

(* Obfuscator::reset, before every file.                                   *)
Reset(r) == aliases' = [aliases EXCEPT ![r] = NoAliases]

OpenInput(r) ==
    /\ pc[r] = "open"
    /\ Reset(r)
    /\ IF files[Place(Input(Current(r)))] = None
       THEN RemoveOutput(r)
       ELSE Goto(r, "create") /\ UNCHANGED files
    /\ UNCHANGED <<text, granted, nth, planned>>

(* OpenOptions::create_new.                                                *)
CreateOutput(r) ==
    /\ pc[r] = "create"
    /\ IF files[OutputPlace(r)] # None
       THEN RemoveOutput(r)
       ELSE /\ files' = [files EXCEPT ![OutputPlace(r)] = Current(r)]
            /\ Goto(r, "copy")
    /\ UNCHANGED <<text, granted, nth, planned, aliases>>

(* Obfuscator::next_alias: the aliases of a tag are numbered as they come. *)
NumberedOverall(known, field) ==
    [f \in DOMAIN known \cup {field} |->
        IF f \in DOMAIN known THEN known[f] ELSE 1 + Cardinality(DOMAIN known)]
WithAlias(known, field) ==
    [f \in DOMAIN known \cup {field} |->
        IF f \in DOMAIN known THEN known[f]
        ELSE 1 + Cardinality({g \in DOMAIN known : g.tag = f.tag})]

Lines(c) == Existing[Place(Input(c))]
AtEnd(r) == Len(text[Current(r)]) = Len(Lines(Current(r)))

(* One line is read, obfuscated and written.                               *)
CopyLine(r) ==
    LET c == Current(r)
        field == Lines(c)[Len(text[c]) + 1]
        known == WithAlias(aliases[r], field)
    IN  /\ pc[r] = "copy" /\ ~AtEnd(r)
        /\ aliases' = [aliases EXCEPT ![r] = known]
        /\ text' = [text EXCEPT ![c] = Append(@, [tag |-> field.tag, alias |-> known[field]])]
        /\ UNCHANGED <<files, granted, pc, nth, planned>>

(* fs::set_permissions goes by the path: it fails if the file is gone, and *)
(* takes effect on whatever file is there.  Then the copy is announced.    *)
NeverGone(r) == FALSE
Gone(r) == files[OutputPlace(r)] = None

SetPermissions(r) ==
    /\ pc[r] = "copy" /\ AtEnd(r)
    /\ \/ /\ Gone(r)
          /\ RemoveOutput(r)
          /\ UNCHANGED <<granted, nth>>
       \/ /\ ~Gone(r)
          /\ granted' = granted \cup {files[OutputPlace(r)]}
          /\ Goto(r, IF IsLast(r) THEN "done" ELSE "open")
          /\ nth' = [nth EXCEPT ![r] = IF IsLast(r) THEN @ ELSE @ + 1]
          /\ UNCHANGED files
    /\ UNCHANGED <<text, planned, aliases>>

IoFails(r) ==
    /\ IoMayFail
    /\ pc[r] \in {"open", "create", "copy"}
    /\ RemoveOutput(r)
    /\ UNCHANGED <<text, granted, nth, planned, aliases>>

(* The signal handler only sets a flag that this mode does not look at, so *)
(* only a signal that cannot be caught, or a crash, ends it midway.        *)
Killed(r) ==
    /\ MayBeKilled
    /\ pc[r] \notin {"done", "failed", "killed"}
    /\ Goto(r, "killed")
    /\ UNCHANGED <<files, text, granted, nth, planned, aliases>>

Next == \E r \in Runs :
            \/ PlanOutput(r) \/ OpenInput(r) \/ CreateOutput(r) \/ CopyLine(r)
            \/ SetPermissions(r) \/ IoFails(r) \/ Killed(r)

Spec == Init /\ [][Next]_vars
-----------------------------------------------------------------------------
Line == [tag : {f.tag : f \in Fields}, alias : Nat]

TypeOK ==
    /\ files \in [Places -> Copies \cup {User, None}]
    /\ text \in [Copies -> Seq(Line)]
    /\ granted \subseteq Copies
    /\ pc \in [Runs -> {"plan", "open", "create", "copy", "done", "failed", "killed"}]
    /\ nth \in [Runs -> Nat] /\ \A r \in Runs : nth[r] \in DOMAIN Inputs[r]
    /\ planned \in [Runs -> Seq({Output(c) : c \in Copies})]
    /\ \A r \in Runs : DOMAIN aliases[r] \subseteq Fields

(* The invocation has planned all its copies, so that it may write this one*)
(* and the copies that it has announced as written.                        *)
Planned(c) == Len(planned[c[1]]) = Len(Inputs[c[1]])
Announced == {c \in Copies : pc[c[1]] = "done" \/ (Planned(c) /\ c[2] < nth[c[1]])}

(* The obfuscation of a whole file, said without a state: equal fields get *)
(* equal aliases, and the aliases of a tag count its different values in   *)
(* the order of their first appearance in this file.                       *)
Obfuscated(lines) ==
    LET values(tag, n) == {lines[m] : m \in {m \in 1 .. n : lines[m].tag = tag}}
        firstAt(n) == CHOOSE m \in 1 .. n : /\ lines[m] = lines[n]
                                            /\ \A q \in 1 .. m - 1 : lines[q] # lines[n]
    IN  [n \in DOMAIN lines |-> [tag |-> lines[n].tag,
                                 alias |-> Cardinality(values(lines[n].tag, firstAt(n)))]]

(* An invocation that ends, with success or with an error, leaves no       *)
(* partial copy behind: what is at an output path is the obfuscation of    *)
(* the whole input, by itself and whatever was obfuscated before, with the *)
(* permissions of the input.                                               *)
NoPartialCopies ==
    \A p \in Places : \A c \in Copies :
        files[p] = c /\ pc[c[1]] \in {"done", "failed"} =>
            /\ Place(Input(c)) \in DOMAIN Existing
            /\ text[c] = Obfuscated(Lines(c))
            /\ c \in granted

(* README, "Existing files are never overwritten", of files that were there*)
(* before: they stay, whoever writes next to them and whatever fails.      *)
UserFilesStay == \A p \in DOMAIN Existing : files[p] = User

Contended(c) == \E d \in Copies \ {c} : Planned(d) /\ Place(Output(d)) = Place(Output(c))
(* "Wrote secret file: ..." is true from then on, if no other copy is to be*)
(* written at the same place: later errors do not undo earlier copies.     *)
AnnouncedCopiesStay ==
    \A c \in Announced : Contended(c) \/ files[Place(Output(c))] = c

(* README, "Existing files are never overwritten": a copy that was         *)
(* announced is not touched again, however the paths were written.         *)
CopiesStay == \A c \in Announced : files[Place(Output(c))] = c
=============================================================================
