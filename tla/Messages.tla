------------------------------ MODULE Messages ------------------------------
(***************************************************************************)
(* Messages as they come from senders who make mistakes: fields left out,  *)
(* written twice, out of order, with a wrong value, a wrong BodyLength or  *)
(* CheckSum.  Each is validated and shown (prettifier.rs                   *)
(* process_with_validation) with the dictionaries of its version.          *)
(***************************************************************************)
EXTENDS MessageGrammar, MessageRendering, SchemaTree

CONSTANTS Versions,      \* what a message is read with
          Dictionaries,  \* version -> its dictionary and those it falls back to
          Overrides,     \* versions that are an override of the one detected
          SessionUsers,  \* versions with the header of the last they fall back to
          Samples,       \* version -> messages without a mistake but for the count and sum
          Values,        \* what a wrong value may be
          MaxMistakes    \* version -> how many a sender makes

VARIABLES version,  \* of the message
          fields,   \* what the sender wrote
          seal,     \* how its BodyLength and CheckSum were computed
          mistakes
vars == <<version, fields, seal, mistakes>>

Lookups == [v \in Versions |->
               [i \in DOMAIN Dictionaries[v] |-> FromDictionary(Dictionaries[v][i])]]

(* BodyLength and CheckSum are computed last.                              *)
Sealed(msg, how) ==
    LET length(i) == CASE how = "length" -> Len(msg) - i
                       [] how = "negative" -> Negative
                       [] OTHER -> Len(msg) - i - 1
        counted == [i \in DOMAIN msg |-> IF msg[i].tag # BodyLength THEN msg[i]
                                         ELSE [msg[i] EXCEPT !.value = length(i)]]
        sum     == SumOf(SubSeq(msg, 1, Len(msg) - 1))
    IN  [counted EXCEPT ![Len(msg)].value = IF how = "sum" THEN (sum + 1) % 256 ELSE sum]
message == Sealed(fields, seal)

(* What --fix, --message, --header and --trailer show of a version.        *)
Trees == [v \in Versions |->
             LET dict == Dictionaries[v][1]
             IN  Tree(IF v \in SessionUsers
                      THEN EnsureSessionComponents(dict, Last(Dictionaries[v])) ELSE dict)]

Init ==
    /\ version \in Versions
    /\ fields \in Samples[version]
    /\ seal = "right"
    /\ mistakes = 0

(* The begin of a message and its CheckSum are what it is found by.        *)
Inner == 2 .. Len(fields) - 1
Mistake(written) ==
    /\ mistakes < MaxMistakes[version]
    /\ mistakes' = mistakes + 1
    /\ fields' = written
    /\ UNCHANGED <<version, seal>>

LeaveOut == \E i \in Inner : Mistake(RemoveAt(fields, i))
WriteTwice == \E i \in Inner : Mistake(InsertAt(fields, i, fields[i]))
Exchange == \E i \in Inner :
    i + 1 \in Inner /\ Mistake([fields EXCEPT ![i] = fields[i + 1], ![i + 1] = fields[i]])
WrongValue == \E i \in Inner, v \in Values :
    v # fields[i].value /\ Mistake([fields EXCEPT ![i].value = v])
WrongSeal ==
    /\ seal = "right"
    /\ mistakes < MaxMistakes[version]
    /\ mistakes' = mistakes + 1
    /\ seal' \in {"length", "negative", "sum"}
    /\ UNCHANGED <<version, fields>>

Next == LeaveOut \/ WriteTwice \/ Exchange \/ WrongValue \/ WrongSeal
Spec == Init /\ [][Next]_vars
-----------------------------------------------------------------------------
Reported == Report(message, Lookups[version], version \in Overrides)
Validated == Prettify(message, Lookups[version], TagErrors(Reported))
Plain == Prettify(message, Lookups[version], {})

Only(lines, what) == SelectSeq(lines, LAMBDA l : l.line = what)
FieldsOnce(lines) == LET shown == Only(lines, "field")
                     IN  /\ Len(shown) = Len(message)
                         /\ \A i \in DOMAIN shown : shown[i].at = i

(* --validate reports a message exactly when it is not well-formed: the    *)
(* passes over duplicates, order, requirements and groups, each with its   *)
(* own idea of where a group ends, together amount to the grammar.         *)
CleanIffWellFormed ==
    (Reported = {}) <=> WellFormed(message, Dictionaries[version], version \in Overrides)

(* Whatever is wrong with a message, each of its fields is shown once and  *)
(* in its place, with a report and without; and each tag with an error has *)
(* a line that shows it.                                                   *)
NothingLost ==
    /\ FieldsOnce(Plain)
    /\ FieldsOnce(Validated)
    /\ \A tag \in TagErrors(Reported) :
           \/ tag \in Tags(message)
           \/ \E i \in DOMAIN Validated : Validated[i].line = "error" /\ Validated[i].tag = tag

(* Of a clean message the entries shown are those the grammar finds, and   *)
(* there is but one way to read it.                                        *)
EntriesOf(lines) ==
    LET shown == Only(lines, "entry")
    IN  [i \in DOMAIN shown |-> Entry(shown[i].at, shown[i].tag, shown[i].number)]
GroupsAgree ==
    Reported = {} =>
        LET read == Readings(message, MessageParts(Dictionaries[version],
                                                   FirstValue(message, MsgType)))
        IN  /\ {r.entries : r \in read} = {EntriesOf(Plain)}
            /\ Only(Plain, "warning") = << >>

(* What --message shows is what --validate goes by: the same fields in the *)
(* same order, in the same groups, the same of them required; but for the  *)
(* header and trailer that a FIX 5.0 version has from the session, and of  *)
(* components that are within themselves perhaps less.                     *)
ShownAsChecked ==
    LET dict == Dictionaries[version][1]
        tree == Trees[version]
        lines(type) == IF version \in SessionUsers THEN RenderNodes(tree.messages[type], 0)
                       ELSE RenderMessage(tree, type)
    IN  \A type \in DOMAIN dict.messages :
            LET checked == LinesOfDef(Lookups[version][1].messages[type])
            IN  IF Acyclic(dict, dict.messages[type]) THEN lines(type) = checked
                ELSE Range(lines(type)) \subseteq Range(checked)

(* README, of --validate: "Checks MsgType, BodyLength, checksum, required  *)
(* fields": a message without a field that is shown as required is not     *)
(* suppressed as clean.                                                    *)
ChecksRequiredFields ==
    \A i \in DOMAIN message :
        message[i].tag = MsgType /\ message[i].value \in DOMAIN Trees[version].messages =>
            \A line \in Range(RenderMessage(Trees[version], message[i].value)) :
                line.required /\ line.depth = 0 =>
                    line.tag \in Tags(message) \/ Reported # {}
=============================================================================
