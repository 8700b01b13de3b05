--------------------------- MODULE MessageGrammar ---------------------------
(***************************************************************************)
(* Which messages are well-formed, by the dictionary itself: a message is  *)
(* its header, body and trailer, in which the fields and groups that the   *)
(* XML lists come once each at most and in that order, the required ones   *)
(* all there; a group is a count and that many entries, read like a body,  *)
(* each beginning with the first field of the group.  Between them,        *)
(* outside of groups, any other field may come, once.                      *)
(*                                                                         *)
(* ReadParts finds all ways to read a text so, where a program would go    *)
(* along it once.                                                          *)
(***************************************************************************)
EXTENDS MessageValidation

RECURSIVE Parts(_, _, _), AllTags(_)
Parts(dict, entries, within) ==
    LET items == Expanded(dict, entries, within)
    IN  [i \in DOMAIN items |->
            LET e == items[i].entry
            IN  [tag |-> e.tag, required |-> e.required, group |-> IsGroup(e),
                 parts |-> IF IsGroup(e) THEN Parts(dict, e.entries, items[i].within)
                                         ELSE << >>]]
AllTags(parts) == UNION {{parts[i].tag} \cup AllTags(parts[i].parts) : i \in DOMAIN parts}

(* A reading up to a field, with the entries of groups found on the way.   *)
Reading(i, entries) == [next |-> i, entries |-> entries]
Entry(i, tag, n) == [at |-> i, tag |-> tag, number |-> n]

RECURSIVE ReadParts(_, _, _, _), ReadPart(_, _, _), ReadEntries(_, _, _, _),
          ReadEntry(_, _, _)
ReadParts(msg, i, parts, others) ==
    IF i <= Len(msg) /\ msg[i].tag \in others THEN ReadParts(msg, i + 1, parts, others)
    ELSE IF parts = << >> THEN {Reading(i, << >>)}
    ELSE (IF Head(parts).required THEN {} ELSE ReadParts(msg, i, Tail(parts), others))
         \cup UNION {{Reading(rest.next, first.entries \o rest.entries) :
                          rest \in ReadParts(msg, first.next, Tail(parts), others)} :
                     first \in ReadPart(msg, i, Head(parts))}
ReadPart(msg, i, part) ==
    IF i > Len(msg) THEN {}
    ELSE IF msg[i].tag # part.tag THEN {}
    ELSE IF ~part.group THEN {Reading(i + 1, << >>)}
    ELSE IF msg[i].value \in 0 .. Len(msg) THEN ReadEntries(msg, i + 1, part, 1 .. msg[i].value)
    ELSE {}
ReadEntry(msg, i, parts) == ReadParts(msg, i, <<[Head(parts) EXCEPT !.required = TRUE]>> \o Tail(parts), {})
ReadEntries(msg, i, part, numbers) ==
    IF numbers = {} THEN {Reading(i, << >>)}
    ELSE IF part.parts = << >> THEN {}
    ELSE UNION {{Reading(rest.next, <<Entry(i, part.tag, Min(numbers))>>
                                        \o entry.entries \o rest.entries) :
                     rest \in ReadEntries(msg, entry.next, part, numbers \ {Min(numbers)})} :
                entry \in ReadEntry(msg, i, part.parts)}

(* The ways to read a whole message of a chain of dictionaries.            *)
MessageParts(dicts, type) ==
    LET first == Min({i \in DOMAIN dicts : type \in DOMAIN dicts[i].messages})
    IN  Parts(dicts[first], Wrapped(dicts[first].messages[type]), {})
Readings(msg, parts) ==
    {r \in ReadParts(msg, 1, parts, Tags(msg) \ AllTags(parts)) : r.next = Len(msg) + 1}

OthersOnce(msg, parts) ==
    \A i, j \in DOMAIN msg :
        i # j /\ msg[i].tag = msg[j].tag => msg[i].tag \in AllTags(parts)

(* A value is one of those listed first in the chain, and of the type that *)
(* is named first.                                                         *)
FieldFits(field, dicts, overridden) ==
    LET knowing == {i \in DOMAIN dicts : field.tag \in DOMAIN dicts[i].fields}
        listing == {i \in knowing : dicts[i].fields[field.tag].values # {}}
    IN  /\ knowing # {}
        /\ overridden => knowing # {1}
        /\ listing # {} => field.value \in dicts[Min(listing)].fields[field.tag].values
        /\ FitsType(field.value, dicts[Min(knowing)].fields[field.tag].type)

(* BodyLength counts the fields up to the CheckSum at the end, and no tag  *)
(* before it ends in its digit.                                            *)
Measured(msg) ==
    \E i \in 1 .. Len(msg) - 2 :
        /\ msg[i] = [tag |-> BodyLength, value |-> Len(msg) - i - 1]
        /\ \A j \in 1 .. i - 1 : ~LooksLikeLength(msg[j].tag)
Summed(msg) ==
    msg[Len(msg)] = [tag |-> CheckSum, value |-> SumOf(SubSeq(msg, 1, Len(msg) - 1))]

WellFormed(msg, dicts, overridden) ==
    /\ \E i \in DOMAIN msg, d \in DOMAIN dicts :
           /\ msg[i].tag = MsgType /\ msg[i].value \in DOMAIN dicts[d].messages
           /\ LET parts == MessageParts(dicts, msg[i].value)
              IN  Readings(msg, parts) # {} /\ OthersOnce(msg, parts)
    /\ \A i \in DOMAIN msg : FieldFits(msg[i], dicts, overridden)
    /\ Measured(msg) /\ Summed(msg)
=============================================================================
