------------------------------ MODULE SchemaTree ----------------------------
(***************************************************************************)
(* The messages as --message shows them (schema.rs, display.rs): a tree of *)
(* nodes is built from the dictionary, every component once, and printed.  *)
(* It has the shape of the entries it is built from, with the entries of a *)
(* component in the place of its name.  The headings of components, and    *)
(* the columns of values, are left out.                                    *)
(***************************************************************************)
EXTENDS MessageDefs, TLC

CONSTANT ComponentNames   \* in the order of the alphabet

ComponentNode(name, nodes) == [kind |-> "component", name |-> name, entries |-> nodes]
Built(nodes, cache) == [nodes |-> nodes, cache |-> cache]

(* A component is built when it is first needed, whatever it is needed     *)
(* for; there is nothing of it within itself.                              *)
RECURSIVE BuildComponent(_, _, _, _), BuildNodes(_, _, _, _)
BuildOnce(dict, name, stack, cache) ==   \* mutant: a component for one place only
    IF name \in stack \cup DOMAIN cache \/ name \notin DOMAIN dict.components
    THEN Built(<< >>, cache)
    ELSE LET inner == BuildNodes(dict, dict.components[name], stack \cup {name}, cache)
         IN  Built(<<ComponentNode(name, inner.nodes)>>, (name :> inner.nodes) @@ inner.cache)
BuildComponent(dict, name, stack, cache) ==
    IF name \in DOMAIN cache THEN Built(<<ComponentNode(name, cache[name])>>, cache)
    ELSE IF name \in stack \/ name \notin DOMAIN dict.components THEN Built(<< >>, cache)
    ELSE LET inner == BuildNodes(dict, dict.components[name], stack \cup {name}, cache)
         IN  Built(<<ComponentNode(name, inner.nodes)>>, (name :> inner.nodes) @@ inner.cache)
BuildNodes(dict, entries, stack, cache) ==
    IF entries = << >> THEN Built(<< >>, cache)
    ELSE LET e     == Head(entries)
             inner == IF IsComponent(e) THEN BuildComponent(dict, e.name, stack, cache)
                      ELSE IF IsGroup(e) THEN BuildNodes(dict, e.entries, stack, cache)
                      ELSE Built(IF e.tag \in DOMAIN dict.fields THEN <<e>> ELSE << >>, cache)
             first == IF IsGroup(e) THEN <<Group(e.tag, e.required, inner.nodes)>> ELSE inner.nodes
             rest  == BuildNodes(dict, Tail(entries), stack, inner.cache)
         IN  Built(first \o rest.nodes, rest.cache)

(* A FIX 5.0 dictionary is shown with the session's header and trailer.    *)
EnsureSessionComponents(dict, session) ==
    [dict EXCEPT !.components =
        [c \in DOMAIN @ |-> IF c \in {"Header", "Trailer"} /\ @[c] = << >>
                            THEN session.components[c] ELSE @[c]]]

Tree(dict) ==
    LET cache == FoldLeft(LAMBDA known, name : BuildComponent(dict, name, {}, known).cache,
                          [c \in {} |-> << >>], ComponentNames)
    IN  [components |-> cache,
         messages |-> [type \in DOMAIN dict.messages |->
                          BuildNodes(dict, dict.messages[type], {}, cache).nodes]]

(* The lines of a message: each group is followed by its own, further in.  *)
Line(tag, required, depth) == [tag |-> tag, required |-> required, depth |-> depth]
RECURSIVE RenderNodes(_, _)
RenderNodes(nodes, depth) ==
    FlattenSeq([i \in DOMAIN nodes |->
        LET n == nodes[i]
        IN  IF IsComponent(n) THEN RenderNodes(n.entries, depth)
            ELSE <<Line(n.tag, n.required, depth)>>
                 \o IF IsGroup(n) THEN RenderNodes(n.entries, depth + 1) ELSE << >>])
RenderMessage(tree, type) ==
    RenderNodes(tree.components["Header"], 0) \o RenderNodes(tree.messages[type], 0)
    \o RenderNodes(tree.components["Trailer"], 0)
-----------------------------------------------------------------------------
(* The lines again, from what messages are validated with: the order and   *)
(* the requirements of a definition, and of each of its groups.            *)
RECURSIVE LinesOfSpec(_, _, _, _)
LinesOfSpec(pos, required, groups, depth) ==
    FlattenSeq([p \in 1 .. Max({0} \cup Range(pos)) |->
        IF p \notin Range(pos) THEN << >>
        ELSE LET tag == CHOOSE t \in DOMAIN pos : pos[t] = p
             IN  <<Line(tag, tag \in required, depth)>>
                 \o IF tag \notin DOMAIN groups THEN << >>
                    ELSE LinesOfSpec(groups[tag].pos, groups[tag].required,
                                     groups[tag].nested, depth + 1)])
LinesOfDef(def) == LinesOfSpec(def.pos, def.required, def.groups, 0)

(* Whether entries come to a component that is within itself.              *)
RECURSIVE Reaches(_, _, _)
Reaches(dict, entries, within) ==
    \E i \in DOMAIN entries :
        LET e == entries[i]
        IN  \/ IsGroup(e) /\ Reaches(dict, e.entries, within)
            \/ /\ IsComponent(e)
               /\ \/ e.name \in within
                  \/ /\ e.name \in DOMAIN dict.components
                     /\ Reaches(dict, dict.components[e.name], within \cup {e.name})
Acyclic(dict, entries) == ~Reaches(dict, Wrapped(entries), {})
=============================================================================
