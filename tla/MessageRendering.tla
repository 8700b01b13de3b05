-------------------------- MODULE MessageRendering --------------------------
(***************************************************************************)
(* A message line by line (prettifier.rs prettify_with_report): its fields *)
(* in their order, a heading before each entry of a repeating group, and   *)
(* with --validate the errors of a tag at its fields, or on a line of      *)
(* their own.                                                              *)
(***************************************************************************)
EXTENDS MessageValidation

FieldLine(i) == [line |-> "field", at |-> i, tag |-> NoTag]
EntryLine(i, spec, n) == [line |-> "entry", at |-> i, tag |-> spec.count, number |-> n]
ErrorLine(tag) == [line |-> "error", at |-> 0, tag |-> tag]
WarningLine(spec) == [line |-> "warning", at |-> 0, tag |-> spec.count]

DrawnPast(i) == [next |-> i + 1, lines |-> << >>]   \* mutant: loses what follows
Drawn(i) == [next |-> i, lines |-> << >>]
Under(lines, result) == [result EXCEPT !.lines = lines \o @]

(* The count was not right: the report says so, or a warning.              *)
CountLine(left, spec, reported) ==
    IF left = 0 THEN << >>
    ELSE IF spec.count \in reported THEN <<ErrorLine(spec.count)>> ELSE <<WarningLine(spec)>>

RECURSIVE RenderGroup(_, _, _, _, _), RenderEntries(_, _, _, _, _, _, _),
          RenderEntry(_, _, _, _, _, _, _)
RenderGroup(msg, i, spec, def, reported) ==
    Under(<<FieldLine(i)>>,
          RenderEntries(msg, i + 1, 0, CountOf(msg[i].value), spec, def, reported))

(* An entry begins with the first field of the group; the first one with   *)
(* any field of it, which later is shown for itself.                       *)
RenderEntries(msg, i, entries, left, spec, def, reported) ==
    IF i > Len(msg) \/ left = 0 THEN Under(CountLine(left, spec, reported), Drawn(i))
    ELSE IF msg[i].tag = spec.delim \/ (Owns(def, spec, msg[i].tag) /\ entries = 0)
    THEN LET entry == RenderEntry(msg, i, i, 0, spec, def, reported)
         IN  Under(<<EntryLine(i, spec, entries + 1)>> \o entry.lines,
                   RenderEntries(msg, entry.next, entries + 1, left - 1, spec, def, reported))
    ELSE IF Owns(def, spec, msg[i].tag)
    THEN Under(<<FieldLine(i)>>,
               RenderEntries(msg, i + 1, entries, left, spec, def, reported))
    ELSE Under(CountLine(left, spec, reported), Drawn(i))

RenderEntry(msg, start, i, last, spec, def, reported) ==
    IF i > Len(msg) \/ (msg[i].tag = spec.delim /\ i # start) THEN Drawn(i)
    ELSE LET tag == msg[i].tag
         IN  IF tag \in DOMAIN spec.nested
             THEN LET group == RenderGroup(msg, i, spec.nested[tag], def, reported)
                  IN  Under(group.lines,
                            RenderEntry(msg, start, group.next, last, spec, def, reported))
             ELSE IF tag \in DOMAIN spec.pos
             THEN Under((IF spec.pos[tag] < last /\ tag \in reported
                         THEN <<ErrorLine(tag)>> ELSE << >>) \o <<FieldLine(i)>>,
                        RenderEntry(msg, start, i + 1, spec.pos[tag], spec, def, reported))
             ELSE Drawn(i)

(* The tags of what stands outside of groups are the ones that were seen.  *)
RECURSIVE RenderFrom(_, _, _, _, _)
RenderFrom(msg, i, seen, groups, reported) ==
    IF i > Len(msg) THEN LET unseen == SetToSeq(reported \ seen)
                         IN  [k \in DOMAIN unseen |-> ErrorLine(unseen[k])]
    ELSE LET tag  == msg[i].tag
             part == IF tag \in DOMAIN groups.specs
                     THEN RenderGroup(msg, i, groups.specs[tag], groups.def, reported)
                     ELSE Under(<<FieldLine(i)>>, Drawn(i + 1))
         IN  part.lines \o RenderFrom(msg, part.next, seen \cup {tag}, groups, reported)

(* The definition is the one of the first MsgType of the message.          *)
FirstValue(msg, tag) == msg[Min({i \in DOMAIN msg : msg[i].tag = tag})].value
GroupsOf(msg, chain) ==
    IF MsgType \in Tags(msg) /\ HasDef(chain, FirstValue(msg, MsgType))
    THEN LET def == DefOf(chain, FirstValue(msg, MsgType)) IN [def |-> def, specs |-> def.groups]
    ELSE [def |-> << >>, specs |-> [t \in {} |-> << >>]]

Prettify(msg, chain, reported) == RenderFrom(msg, 1, {}, GroupsOf(msg, chain), reported)
=============================================================================
