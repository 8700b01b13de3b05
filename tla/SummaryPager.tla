---------------------------- MODULE SummaryPager ----------------------------
(***************************************************************************)
(* The split pager of fixdecoder --summary: when the log has been read,    *)
(* the right pane scrolls over the orders' sections; the left one shows    *)
(* the order at the top line and the counts up to the order at the bottom. *)
(* The loop draws, waits for an event, handles it; the terminal may be     *)
(* resized at any moment, also between a drawing and the key it prompted.  *)
(*                                                                         *)
(* Lines are numbered from 0, as in the code; of a line only the section   *)
(* it belongs to is modelled.  How text is cut and coloured is left out.   *)
(***************************************************************************)
EXTENDS OrderSummary

CONSTANTS
    MinLeftWidth, MinRightWidth, DividerWidth,   \* 28, 48 and 3
    LeftWidthHint,     \* the widest line of the left pane
    TimelineWidth,     \* the widest line of a section
    PlaceholderWidth,  \* of the line shown when there is no section
    FrameLines, RawLines,   \* lines of a section besides its messages
    Sizes,             \* the terminal's sizes: [width, height]
    MaxScrollX,        \* bound: how far the right pane is scrolled sideways
    MaxPaged           \* bound: how many messages the pager's logs hold

ASSUME PagerAssumption ==
    /\ {MinLeftWidth, MinRightWidth, DividerWidth, LeftWidthHint, TimelineWidth,
        PlaceholderWidth, RawLines, MaxScrollX, MaxPaged} \subseteq Nat
    /\ FrameLines \in Nat \ {0}   \* a section has at least its title
    /\ Sizes \subseteq [width : Nat, height : Nat]

VARIABLES
    pager,             \* "off", "draw", "wait" or "quit"
    sections,          \* PagerModel.sections: [lines, terminal, counted]
    promised,          \* history: the messages counted by the log itself
    size,              \* terminal::size()
    scroll_x, scroll_y,
    drawn,             \* the last drawing
    reached, jumped    \* history: lines drawn without a gap; whether lines
                       \* were left out on purpose or unseen

pagerVars == <<pager, sections, promised, size, scroll_x, scroll_y, drawn, reached, jumped>>
allVars == <<vars, pagerVars>>

Plus(a, b)  == a + b
Less(a, b)  == IF a > b THEN a - b ELSE 0      \* saturating_sub
Least(a, b) == IF a < b THEN a ELSE b
Most(a, b)  == IF a > b THEN a ELSE b

-----------------------------------------------------------------------------
(* PagerModel                                                              *)

(* render_record_detail: the frame and the timeline of the order, and the  *)
(* raw messages when it is settled.                                        *)
DetailLines(r) ==
    LET kept == Cardinality(Kept(r.events))
    IN  FrameLines + kept + (IF IsTerminal(r) THEN RawLines + kept ELSE 0)

(* A blank line parts the sections; a placeholder stands for none.         *)
DetailStart(i) == FoldLeft(LAMBDA n, s : n + s.lines + 1, 0, SubSeq(sections, 1, i - 1))
RightLines ==
    IF sections = <<>> THEN 1 ELSE DetailStart(Len(sections)) + Last(sections).lines
MaxRightWidth == IF sections = <<>> THEN PlaceholderWidth ELSE TimelineWidth

LeftWidthOf(hint, right, terminalWidth) ==
    LET available == Less(terminalWidth, DividerWidth)
        cap       == Most(terminalWidth \div 3, MinLeftWidth)
        wanted    == Least(Least(Most(hint, MinLeftWidth), cap), available)
        squeezed  == IF Less(available, wanted) < MinRightWidth /\ available > MinRightWidth
                     THEN available - MinRightWidth ELSE wanted
    IN  Most(Most(squeezed, Less(available, right)), 1)

LeftWidth == LeftWidthOf(LeftWidthHint, MaxRightWidth, size.width)
RightWidth == Less(size.width, LeftWidth + DividerWidth)

MaxHorizontalScroll == Less(MaxRightWidth, RightWidth)
MaxVerticalScroll == Less(RightLines, size.height)

(* The last section that begins at or above a line.                        *)
SectionIndexForLine(line) ==
    FoldLeft(LAMBDA current, i : IF DetailStart(i) <= line THEN i ELSE current,
             1, [i \in DOMAIN sections |-> i])
VisibleAtTop(top) == SectionIndexForLine(top)
VisibleSectionIndex(top) ==
    SectionIndexForLine(Least(top + Less(size.height, 1), Less(RightLines, 1)))

-----------------------------------------------------------------------------
NotDrawn == [small |-> TRUE, size |-> [width |-> 0, height |-> 0], top |-> 0,
             current |-> 0, visible |-> 0]

PagerInit ==
    /\ Init
    /\ pager = "off"
    /\ sections = <<>> /\ promised = <<>>
    /\ size = NotDrawn.size
    /\ scroll_x = 0 /\ scroll_y = 0
    /\ drawn = NotDrawn
    /\ reached = 0 /\ jumped = FALSE

Tracking == pager = "off" /\ Next /\ UNCHANGED pagerVars

(* The log has ended and is not followed: from_content makes the sections  *)
(* of the tracker's records; nothing reads the tracker afterwards.         *)
OpenPager ==
    /\ pager = "off" /\ ~follow /\ in_line = 0 /\ next_sequence <= MaxPaged
    /\ pager' = "draw"
    /\ sections' = [n \in DOMAIN PagedRecords |->
                      [lines    |-> DetailLines(PagedRecords[n]),
                       terminal |-> IsTerminal(PagedRecords[n]),
                       counted  |-> MessagesCounted[n]]]
    /\ promised' = [n \in DOMAIN PagedRecords |->
                      Cardinality({k \in 0 .. PagedRecords[n].last_sequence :
                                      input[k + 1].type # None})]
    /\ orders' = [key \in {} |-> None] /\ aliases' = [id \in {} |-> None]
    /\ completed' = <<>> /\ message_log' = <<>> /\ input' = <<>>
    /\ total_orders' = 0 /\ terminal_orders' = 0 /\ next_sequence' = 0
    /\ size' \in Sizes
    /\ UNCHANGED <<follow, unknown_counter, in_line, printed, scroll_x, scroll_y, drawn, reached, jumped>>

TooSmall ==
    \/ size.width <= DividerWidth + 10 \/ size.height = 0
    \/ LeftWidth < 8 \/ RightWidth < 16

(* render: the scroll position is brought back into what there is to show, *)
(* unless nothing can be shown at all.                                     *)
Render ==
    LET top == Least(scroll_y, MaxVerticalScroll)
    IN  /\ pager = "draw"
        /\ pager' = "wait"
        /\ IF TooSmall
           THEN /\ drawn' = [NotDrawn EXCEPT !.size = size]
                /\ UNCHANGED <<scroll_x, scroll_y, reached>>
           ELSE /\ scroll_x' = Least(scroll_x, MaxHorizontalScroll)
                /\ scroll_y' = top
                /\ drawn' = [small |-> FALSE, size |-> size, top |-> top,
                             current |-> SectionIndexForLine(top),
                             visible |-> VisibleSectionIndex(top)]
                /\ reached' = IF top <= reached /\ ~jumped
                              THEN Most(reached, Least(top + size.height, RightLines))
                              ELSE reached
        /\ UNCHANGED <<vars, sections, promised, size, jumped>>

Scroll(x, y) ==
    /\ scroll_x' = x /\ scroll_y' = y
    /\ pager' = "draw"
    /\ UNCHANGED <<vars, sections, promised, size, drawn>>

(* A key that moves forward means the lines that were drawn, if any were   *)
(* and still are.                                                          *)
Jump     == jumped' = TRUE /\ reached' = 0
Backward == UNCHANGED <<jumped, reached>>
Forward  == IF drawn.small \/ drawn.size # size THEN Jump ELSE Backward

PageStepWhole == size.height + 1
PageStep == Less(size.height, 1)

(* handle_key: by the terminal's size now.                                 *)
Up       == pager = "wait" /\ Scroll(scroll_x, Less(scroll_y, 1)) /\ Backward
Down     == pager = "wait" /\ Scroll(scroll_x, Least(scroll_y + 1, MaxVerticalScroll)) /\ Forward
Left     == pager = "wait" /\ Scroll(Less(scroll_x, 1), scroll_y) /\ Backward
Right    == /\ pager = "wait" /\ scroll_x < MaxScrollX
            /\ Scroll(scroll_x + 1, scroll_y) /\ Backward
PageUp   == pager = "wait" /\ Scroll(scroll_x, Less(scroll_y, PageStep)) /\ Backward
PageDown == /\ pager = "wait"
            /\ Scroll(scroll_x, Least(scroll_y + PageStep, MaxVerticalScroll))
            /\ Forward
Home     == pager = "wait" /\ Scroll(0, 0) /\ Backward
End      == /\ pager = "wait"
            /\ Scroll(scroll_x, MaxVerticalScroll)
            /\ Jump

Quit == /\ pager = "wait"
        /\ pager' = "quit"
        /\ scroll_x' = 0 /\ scroll_y' = 0 /\ drawn' = NotDrawn
        /\ reached' = 0 /\ jumped' = FALSE
        /\ UNCHANGED <<vars, sections, promised, size>>

HandleKey == Up \/ Down \/ Left \/ Right \/ PageUp \/ PageDown \/ Home \/ End \/ Quit

(* A resize event, a mouse event, a key that means nothing.                *)
OtherEvent ==
    /\ pager = "wait" /\ pager' = "draw"
    /\ UNCHANGED <<vars, sections, promised, size, scroll_x, scroll_y, drawn, reached, jumped>>

(* The user resizes the terminal; its event comes later, after the keys    *)
(* pressed before.                                                         *)
ResizeTerminal ==
    /\ pager \in {"draw", "wait"}
    /\ size' \in Sizes \ {size}
    /\ UNCHANGED <<vars, pager, sections, promised, scroll_x, scroll_y, drawn, reached, jumped>>

PagerNext == Tracking \/ OpenPager \/ Render \/ HandleKey \/ OtherEvent \/ ResizeTerminal

PagerSpec == PagerInit /\ [][PagerNext]_allVars
-----------------------------------------------------------------------------
(* The section a line of the right pane belongs to, counted from the top.  *)
OwnerOf(line) ==
    CHOOSE i \in DOMAIN sections :
        /\ line >= FoldLeft(Plus, 0, [j \in 1 .. i - 1 |-> sections[j].lines + 1])
        /\ line <  FoldLeft(Plus, 0, [j \in 1 .. i |-> sections[j].lines + 1])
DrawnLines == drawn.top .. Least(drawn.top + drawn.size.height, RightLines) - 1
Bottom == CHOOSE line \in DrawnLines : \A other \in DrawnLines : other <= line

OnScreen == pager = "wait" /\ ~drawn.small

(* README, "the left pane stays fixed and shows the current order block    *)
(* plus cumulative order/message counts from the start of the file through *)
(* the bottom of the visible right-hand pane": the order is the one at the *)
(* top line; beside it stand all messages of the log up to the last of the *)
(* order at the bottom line, and none that came later.                     *)
CountsThroughBottom ==
    OnScreen /\ sections # <<>> =>
        /\ drawn.current = OwnerOf(drawn.top)
        /\ drawn.visible = OwnerOf(Bottom)
        /\ sections[drawn.visible].counted = promised[OwnerOf(Bottom)]

(* Who reads down from the top, by lines or by pages, with every drawing   *)
(* in view when the next key is pressed, misses no line; and the right     *)
(* pane is never scrolled past the end, however the terminal was resized   *)
(* between a key and the drawing.                                          *)
NothingSkipped ==
    OnScreen =>
        /\ ~jumped => DrawnLines \subseteq 0 .. reached - 1
        /\ drawn.top = 0 \/ drawn.top + drawn.size.height <= RightLines
=============================================================================
