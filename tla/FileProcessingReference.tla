----------------------- MODULE FileProcessingReference ----------------------
(***************************************************************************)
(* What an invocation of FileProcessing should show: the decoding of every *)
(* source written down as a function of its text and of the command line,  *)
(* with the dictionary of each message named by what it is made of.        *)
(***************************************************************************)
EXTENDS FileProcessing

VARIABLE promised  \* what is promised now, a function of the other variables

(* The dictionary of an --xml file has the session dictionary that was     *)
(* there when it was registered.                                           *)
Customs == ToSet(opts.customs)
LastAt(key) == Max({n \in DOMAIN opts.customs : opts.customs[n] = key})
SessionName(key) ==
    IF key \notin SessionUsers THEN "none"
    ELSE IF \E n \in DOMAIN opts.customs :
                /\ opts.customs[n] = SessionKey
                /\ key \in Customs => \E m \in n + 1 .. Len(opts.customs) : opts.customs[m] = key
    THEN "custom" ELSE "embedded"

Plain(key) == <<key, key \in Customs, SessionName(key)>>
NameFor(detected) ==
    LET known == IF detected \in EmbeddedKeys \cup Customs THEN detected ELSE DefaultKey
    IN  IF opts.override \in {NoKey, known} THEN <<Plain(known)>>
        ELSE <<Plain(opts.override), Plain(known)>>

(* The lines of a text up to the first that is no text; those of a source  *)
(* that is followed are cut where reading found its end.                   *)
LineAt(text, j) ==
    LET start == 1 + Max({0} \cup {e \in 1 .. j - 1 : text[e].eol})
    IN  IF (text[j].eol \/ j = Len(text)) /\ ~IsBad(SubSeq(text, 1, j))
        THEN <<SubSeq(text, start, j)>> ELSE << >>
LinesIn(text) == FlattenSeq(Tuple([j \in DOMAIN text |-> LineAt(text, j)]))
LinesRead(i) ==
    IF \/ opts.sources[i].kind = "missing"
       \/ WideGrid /\ opts.sources[i].kind = "file" /\ IsBad(Text(i)) THEN << >>
    ELSE IF opts.follow THEN task[i].lines
    ELSE LinesIn(Text(i))

(* What the last Logon of a session before a message named for it.         *)
LastDefault(before, m) ==
    LET logons == {k \in DOMAIN before : /\ before[k].begin = SessionKey
                                         /\ before[k].default # NoKey
                                         /\ Session(before[k]) = Session(m)}
    IN  IF logons = {} THEN NoKey ELSE before[Max(logons)].default

(* Sources read in sequence share what their Logons said; those read by    *)
(* threads, or into pages, do not.                                         *)
MessagesOf(lines) == FlattenSeq(Tuple([n \in DOMAIN lines |-> MessagesIn(lines[n])]))
Heard(i) ==
    IF Pages \/ Parallel THEN << >>
    ELSE FlattenSeq(Tuple([j \in 1 .. i - 1 |-> MessagesOf(LinesRead(j))]))

(* What is shown of the lines of a source after some messages.             *)
NameAfter(before, m) == NameFor(DetectedKey(m, LastDefault(before, m)))
Named(before, msgs) ==
    Tuple([k \in DOMAIN msgs |->
        [msg |-> msgs[k], with |-> NameAfter(before \o SubSeq(msgs, 1, k - 1), msgs[k])]])
LineShown(i, before, line) == BlocksOf(i, line, Named(before, MessagesIn(line)))
Decoded(i, before, lines) ==
    Announcement(i)
      \o FlattenSeq(Tuple([n \in DOMAIN lines |->
             LineShown(i, before \o MessagesOf(SubSeq(lines, 1, n - 1)), lines[n])]))
AnswerDue(command) ==
    [kind |-> "answer", command |-> command, key |-> SelectedKey, layout |-> opts.layout,
     files |-> [key \in IF command.name = "info" THEN EmbeddedKeys \cup Customs
                                                 ELSE {SelectedKey} |->
                   IF key \in Customs THEN LastAt(key) ELSE 0]]

Promised ==
    IF opts.ends # {} THEN << >>
    ELSE IF opts.commands # << >>
    THEN <<Tuple([n \in DOMAIN opts.commands |-> AnswerDue(opts.commands[n])])>>
    ELSE Tuple([i \in Sources |->
             IF SummaryPager \/ opts.sources[i].kind = "missing" THEN << >>
             ELSE Decoded(i, Heard(i), LinesRead(i))])

(* What is printed of the sources and of the questions: all but the counts *)
(* and the orders.                                                         *)
OfLines(blocks) ==
    FlattenSeq(Tuple([k \in DOMAIN blocks |->
        IF blocks[k].kind \in {"source", "line", "answer"} THEN <<blocks[k]>> ELSE << >>]))
Lines == OfLines(printed)
-----------------------------------------------------------------------------
TypeOK ==
    /\ registered \in 0 .. Len(opts.customs)
    /\ \A i \in Sources :
           /\ arrived[i] \in 0 .. Len(opts.sources[i].pieces)
           /\ task[i].at \in {"waiting", "reading", "resolving", "done"}
           /\ task[i].pos \in 0 .. arrived[i]
           /\ task[i].result \in {"none", "ok", "unopened", "unreadable"}
    /\ \A c \in {Shared} \cup Sources :
           /\ book[c].counts \in [Types -> Nat]
           /\ book[c].defaults \in [Sessions -> EmbeddedKeys \cup {NoKey}]
    /\ emitted \in 0 .. Len(opts.sources)
    /\ \A k \in DOMAIN diagnosed : diagnosed[k] \in Sources
    /\ interrupted \in BOOLEAN /\ left \in BOOLEAN
    /\ stage \in {"options", "load", "answer", "process", "close", "exit"}
    /\ code \in {Running, 0, 1, 2, 130}

(* Next, with the promise: only the lines of a source that is followed     *)
(* change it.                                                              *)
PromisedNext ==
    \/ MainStep /\ UNCHANGED promised
    \/ Interrupt /\ UNCHANGED promised
    \/ QuitPager /\ UNCHANGED promised
    \/ \E i \in Sources :
           \/ TaskStep(i) /\ task'[i].lines = task[i].lines /\ UNCHANGED promised
           \/ TakeLine(i) /\ promised' = IF opts.follow THEN Promised' ELSE promised
           \/ Arrive(i) /\ UNCHANGED promised

PromisedInit == Init /\ promised = Promised
PromisedSpec ==
    /\ PromisedInit
    /\ [][PromisedNext]_<<vars, promised>>
    /\ Fairness

(* Whatever the threads do and in whatever order they finish, the output   *)
(* grows as FileOutput says, source after source, every message with the   *)
(* dictionary the command line and its own session give it, and an exit    *)
(* code of 0 means that it is complete.  Questions about the dictionary    *)
(* are answered in their order, from the last --xml file of a key, and an  *)
(* invocation that is refused shows nothing.                               *)
Output == INSTANCE FileOutput WITH
    decodes  <- opts.ends = {} /\ opts.commands = << >>,
    printed  <- Lines,
    failed   <- \E i \in Sources : task[i].result \in {"unopened", "unreadable"}

ImplementsFileOutput == Output!Spec

(* When the output is closed, the counts are those of the messages that    *)
(* were read, whichever threads read them, none with --nocounts, and with  *)
(* --validate only those of the summary's pager; and there is one          *)
(* diagnosis of each source that could not be opened, and of a standard    *)
(* input that is no text, in the order of the sources.                     *)
CountsDue == opts.count /\ (SummaryPager \/ ~opts.validate)
Read(i) == FlattenSeq(Tuple([n \in DOMAIN task[i].lines |-> MessagesIn(task[i].lines[n])]))
Number(msgs, t) == Cardinality({k \in DOMAIN msgs : msgs[k].type = t})
ShownCounts(t) ==
    LET counted == {k \in DOMAIN printed : printed[k].kind = "counts"}
    IN  IF Pages THEN SumFunctionOnSet([k \in counted |-> printed[k].counts[t]], counted)
        ELSE IF counted = {} THEN 0 ELSE printed[Max(counted)].counts[t]
ToDiagnose ==
    {i \in Sources : \/ task[i].result = "unopened"
                     \/ task[i].result = "unreadable" /\ opts.sources[i].kind = "stdin"}
HonestEnd ==
    stage = "close" =>
        LET all == FlattenSeq(Tuple([i \in Sources |-> Read(i)]))
        IN  /\ left \/ \A t \in Types : ShownCounts(t) = IF CountsDue THEN Number(all, t) ELSE 0
            /\ ToSet(diagnosed) = ToDiagnose
            /\ \A j, k \in DOMAIN diagnosed : j < k => diagnosed[j] < diagnosed[k]

(* The program ends: when it does not follow its sources, and when it is   *)
(* interrupted.                                                            *)
Finishes == (~opts.follow \/ interrupted) ~> (code # Running)

(* README, FIXDECODER_DEFAULT_ARGS: "These defaults are applied before the *)
(* real command line, so later single-value CLI options [...] override the *)
(* environment value."  An invocation with defaults does what one does     *)
(* that has both on its command line, without what is given again, and     *)
(* ends with its options if that one does or the defaults are refused; one *)
(* that asks for help or the version does so whatever the defaults are.    *)
(* The decorations are those of the defaults until --style or --plain says *)
(* otherwise, and --number adds to them.                                   *)
DefaultsComeFirst ==
    stage = "options" =>
        LET given    == opts.asked.given
            defaults == opts.asked.defaults
            one      == Line!OptionsOf(Line!AsOne(opts.asked))
            alone    == Line!OptionsOf([opts.asked EXCEPT !.defaults = << >>])
            before   == Line!OptionsOf([opts.asked EXCEPT !.given = << >>]).style
            same     == DOMAIN opts \ {"asked", "style"}
            says(name) == Line!Explicit(given, name)
        IN  IF \/ Line!Parsed(given) # "parsed"
               \/ \E name \in {"version", "pager-help", "install-ghostty-bindings"} : says(name)
            THEN opts.ends = alone.ends
            ELSE IF Line!BadDefaults(defaults) \/ Line!BadStyle(defaults) THEN opts.ends = {1}
            ELSE /\ \A field \in same : opts[field] = one[field]
                 /\ opts.style = IF says("style") \/ says("plain") THEN alone.style
                                 ELSE IF says("number") THEN before \cup {"numbers"}
                                 ELSE before
=============================================================================
