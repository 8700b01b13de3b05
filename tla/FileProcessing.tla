--------------------------- MODULE FileProcessing ---------------------------
(***************************************************************************)
(* An invocation of fixdecoder (main.rs run, prettifier.rs prettify_files):*)
(* it ends with its options, answers questions about the dictionary, or    *)
(* decodes.  Then the sources of the command line are read line by line,   *)
(* by one thread, by several, or one after the other into pages for the    *)
(* pager; the FIX messages of a line get their dictionaries and are shown, *)
(* validated, counted or handed to the order summary; the counts and the   *)
(* exit code close the output.  With --follow a source may grow while it   *)
(* is read.                                                                *)
(*                                                                         *)
(* A source is a sequence of pieces, each with what it holds and whether a *)
(* line ends with it: a "whole" message, its "head" or its "tail", "plain" *)
(* text, or "bad" bytes that are no text.  Writing to the output does not  *)
(* fail.                                                                   *)
(***************************************************************************)
EXTENDS DictionaryCache, FiniteSets, SequencesExt

CONSTANTS Invocations,  \* the invocations, with the contents of their sources
          Types,        \* message types
          Parties,      \* session parties
          NWorkers      \* threads of the pool

Line == INSTANCE CommandLine
CommandLines == {Line!OptionsOf(asked) : asked \in Invocations}

ASSUME ThreadsAssumption == \A o \in CommandLines : DOMAIN o.sources \subseteq Threads

(* Arguments are a sequence, and those that name files have their sources. *)
(* The Logon of a message that names a version names one there is.         *)
IsMessage(m) ==
    m.default \in EmbeddedKeys \cup {NoKey} /\ m.sender \in Parties /\ m.target \in Parties
IsSource(s) ==
    /\ s.pieces \in Seq(ToSet(s.pieces))
    /\ s.there \in 0 .. Len(s.pieces)
    /\ \A k \in DOMAIN s.pieces :
           s.pieces[k].what \in {"whole", "head"} => IsMessage(s.pieces[k].msg)
ASSUME InvocationsAssumption ==
    \A asked \in Invocations :
        /\ asked \in [given : Seq(ToSet(asked.given)), defaults : Seq(ToSet(asked.defaults)),
                      terminal : BOOLEAN, pager : {asked.pager}, stdin : {asked.stdin}]
        /\ IsSource(asked.stdin)
        /\ \A k \in DOMAIN asked.given :
               asked.given[k].name = "file" => IsSource(asked.given[k].value)

(* No dictionary is none of those that are built or registered.            *)
Schemas == EmbeddedKeys \cup UNION {ToSet(o.customs) : o \in CommandLines}
SessionDicts ==
    {Custom(SessionKey, NoDictionary)}
        \cup {Built(t, SessionKey, NoDictionary) : t \in Threads \cup {Starter}}
ASSUME NoDictionaryAssumption ==
    \A key \in Schemas, t \in Threads \cup {Starter},
       session \in {NoDictionary} \cup SessionDicts :
           NoDictionary \notin {Built(t, key, session), Custom(key, session)}

VARIABLES opts,         \* the options of the invocation
          registered,   \* dictionaries of --xml registered so far
          arrived,      \* source -> its pieces that are there
          task,         \* source -> where its decoding is
          book,         \* context -> counts, session defaults, tracked messages
          buffer,       \* source -> blocks decoded for later
          emitted,      \* buffers written to the output
          printed,      \* blocks of the output
          diagnosed,    \* sources an error message was written for
          interrupted, left, stage, code

fileVars == <<opts, registered, arrived, task, book, buffer, emitted, printed, diagnosed,
              interrupted, left, stage, code>>
vars == <<cacheVars, fileVars>>

Running == -1
Sources == DOMAIN opts.sources
-----------------------------------------------------------------------------
(* How the output is shown, and who decodes it.                            *)
UsesPager == opts.terminal /\ ~opts.follow /\ opts.paging
SummaryPager == opts.summary /\ UsesPager
HasStdin == \E i \in Sources : opts.sources[i].kind = "stdin"
Pages ==
    UsesPager /\ opts.takes_files /\ ~opts.summary /\ Len(opts.sources) > 1 /\ ~HasStdin
Parallel == ~Pages /\ ~opts.follow /\ ~opts.summary /\ Len(opts.sources) > 1 /\ ~HasStdin
WideGrid == opts.nowrap /\ UsesPager /\ "grid" \in opts.style /\ ~opts.validate
LiveStatus == opts.terminal /\ ~UsesPager

Shared == 0
ContextOf(i) == IF Pages \/ Parallel THEN i ELSE Shared

(* The same sequence, as a tuple that TLC computes once.                   *)
Tuple(seq) == seq \o << >>

(* The messages of a text: those written whole, and those of which both    *)
(* parts are there.                                                        *)
Begins(text, j) ==
    \/ text[j].what = "whole"
    \/ text[j].what = "head" /\ j < Len(text) /\ text[j + 1].what = "tail"
MessagesIn(text) ==
    FlattenSeq(Tuple([j \in DOMAIN text |->
        IF Begins(text, j) THEN <<text[j].msg>> ELSE << >>]))
IsBad(text) == \E j \in DOMAIN text : text[j].what = "bad"

(* read_line: up to the end of a line, or of what is there.                *)
Text(i) == SubSeq(opts.sources[i].pieces, 1, arrived[i])
LineEnd(text, from) ==
    Min({j \in from .. Len(text) : text[j].eol \/ j = Len(text)})
CurrentLine(i) == Last(task[i].lines)

(* The schema of a message: the one it names, the one its Logon named for  *)
(* itself, the session's, or FIX50.                                        *)
DetectedKey(m, default) ==
    CASE m.begin # SessionKey -> m.begin
      [] m.begin = SessionKey /\ m.appl # NoKey -> m.appl
      [] m.begin = SessionKey /\ m.appl = NoKey /\ m.default # NoKey -> m.default
      [] OTHER -> IF default # NoKey THEN default ELSE "FIX50"
Session(m) == {m.sender, m.target}
Sessions == {{p, q} : p, q \in Parties}
DefaultOf(defaults, m) == IF m.begin = SessionKey THEN defaults[Session(m)] ELSE NoKey
LearntVersion(defaults, m) ==
    IF m.begin = SessionKey /\ m.default # NoKey
    THEN [defaults EXCEPT ![Session(m)] = "9"] ELSE defaults
Learnt(defaults, m) ==
    IF m.begin = SessionKey /\ m.default # NoKey
    THEN [defaults EXCEPT ![Session(m)] = m.default] ELSE defaults
-----------------------------------------------------------------------------
NewBook == [counts |-> [t \in Types |-> 0], dirty |-> FALSE,
            defaults |-> [s \in Sessions |-> NoKey], tracked |-> << >>]
NewTask == [at |-> "waiting", pos |-> 0, lines |-> << >>, dicts |-> << >>, result |-> "none"]

Init ==
    /\ CacheInit
    /\ opts \in CommandLines
    /\ registered = 0
    /\ arrived = [i \in Sources |-> opts.sources[i].there]
    /\ task = [i \in Sources |-> NewTask]
    /\ book = [c \in {Shared} \cup Sources |-> NewBook]
    /\ buffer = [i \in Sources |-> << >>]
    /\ emitted = 0
    /\ printed = << >> /\ diagnosed = << >>
    /\ interrupted = FALSE /\ left = FALSE
    /\ stage = "options" /\ code = Running

(* The names of a dictionary and of what it falls back to.                 *)
PlainName(d) == <<d.key, d.custom,
                  IF d.fallback = NoDictionary THEN "none"
                  ELSE IF d.fallback.custom THEN "custom" ELSE "embedded">>
Name(d) == IF IsMerged(d) THEN <<PlainName(d.primary), PlainName(d.fallback)>>
                          ELSE <<PlainName(d)>>

Announcement(i) == <<[kind |-> "source", source |-> i]>>
LineBlock(i, text, shown) ==
    <<[kind |-> "line", source |-> i, text |-> text, shown |-> shown]>>

(* What is shown of a line: everything, or nothing for the summary; with   *)
(* --validate the invalid messages, if it has any, the summary or not.     *)
BlocksOf(i, text, shown) ==
    IF opts.validate
    THEN LET invalid == FlattenSeq(Tuple([k \in DOMAIN shown |->
                            IF shown[k].msg.clean THEN << >> ELSE <<shown[k]>>]))
         IN  IF invalid = << >> THEN << >> ELSE LineBlock(i, text, invalid)
    ELSE IF opts.summary THEN << >> ELSE LineBlock(i, text, shown)

Counting == opts.count /\ ~opts.validate
Counted(counts, msgs) ==
    [t \in Types |-> counts[t] + Cardinality({k \in DOMAIN msgs : msgs[k].type = t})]
LineCounted(b, msgs) ==
    [b EXCEPT !.counts = IF Counting THEN Counted(@, msgs) ELSE @,
              !.dirty = @ \/ (Counting /\ \E k \in DOMAIN msgs : msgs[k].type \in Types),
              !.tracked = IF opts.summary THEN @ \o msgs ELSE @]
CountsBlock(b) ==
    IF opts.count /\ b.dirty THEN <<[kind |-> "counts", counts |-> b.counts]>> ELSE << >>

(* The summary's pager counts the messages of the order summary's own log, *)
(* which holds all of them, also those that are validated.                 *)
FromTheLog(b) ==
    [b EXCEPT !.counts = Counted([t \in Types |-> 0], b.tracked),
              !.dirty = \E k \in DOMAIN b.tracked : b.tracked[k].type \in Types]
ClosingBook == IF SummaryPager THEN FromTheLog(book[Shared]) ELSE book[Shared]

(* The summary's pager shows none of what is written while reading.        *)
WriteAtOnce(i, blocks) == printed' = printed \o blocks /\ UNCHANGED buffer
Write(i, blocks) ==
    IF Pages \/ Parallel
    THEN /\ buffer' = [buffer EXCEPT ![i] = @ \o blocks]
         /\ UNCHANGED printed
    ELSE /\ printed' = IF SummaryPager \/ left THEN printed ELSE printed \o blocks
         /\ UNCHANGED buffer

Diagnose(i) == diagnosed' = IF Parallel THEN diagnosed ELSE Append(diagnosed, i)

Finished(i, result) == task' = [task EXCEPT ![i].at = "done", ![i].result = result]
-----------------------------------------------------------------------------
Ends(codes) == stage' = "exit" /\ code' \in codes
Goes(to) == stage' = to /\ UNCHANGED code

ReadOptions ==
    /\ stage = "options"
    /\ IF opts.ends # {} THEN Ends(opts.ends) ELSE Goes("load")
    /\ UNCHANGED <<cacheVars, opts, registered, arrived, task, book, buffer, emitted,
                   printed, diagnosed, interrupted, left>>

(* The next dictionary of --xml; one that cannot be read ends the program. *)
Register ==
    /\ stage = "load"
    /\ registered < Len(opts.customs)
    /\ IF opts.customs[registered + 1] = "no dictionary"
       THEN Ends({1}) /\ UNCHANGED <<cacheVars, registered>>
       ELSE /\ RegisterDictionary(opts.customs[registered + 1])
            /\ registered' = registered + 1
            /\ UNCHANGED <<stage, code>>
    /\ UNCHANGED <<opts, arrived, task, book, buffer, emitted, printed, diagnosed,
                   interrupted, left>>

(* An override nobody knows ends the program.                              *)
Begin ==
    /\ stage = "load"
    /\ registered = Len(opts.customs)
    /\ IF opts.override \notin {NoKey} \cup EmbeddedKeys \cup ToSet(opts.customs) THEN Ends({1})
       ELSE IF opts.commands = << >> THEN Goes("process") ELSE Goes("answer")
    /\ UNCHANGED <<cacheVars, opts, registered, arrived, task, book, buffer, emitted,
                   printed, diagnosed, interrupted, left>>

(* The files of the dictionaries of --xml, the later of two for a key; 0   *)
(* for a key whose dictionary is built in.                                 *)
LoadedFrom(customs) ==
    LET loaded[n \in 0 .. Len(customs)] ==
            IF n = 0 THEN [key \in {} |-> 0] ELSE With(loaded[n - 1], customs[n], n)
    IN  loaded[Len(customs)]
FileOf(key) ==
    LET files == LoadedFrom(opts.customs) IN IF key \in DOMAIN files THEN files[key] ELSE 0
SelectedKey == IF opts.override = NoKey THEN DefaultKey ELSE opts.override
AllKeys == EmbeddedKeys \cup ToSet(opts.customs)

(* --info lists the dictionaries and marks the selected one; the other     *)
(* questions are asked of that one.                                        *)
Listing == [key \in AllKeys |-> FileOf(key)]
AnswerTo(command) ==
    [kind |-> "answer", command |-> command, key |-> SelectedKey, layout |-> opts.layout,
     files |-> IF command.name = "info" THEN Listing ELSE [key \in {SelectedKey} |-> FileOf(key)]]

(* One answer after the other; a tag that is no number ends the program.   *)
Answer ==
    /\ stage = "answer"
    /\ LET n == Len(printed) + 1
       IN  IF n > Len(opts.commands) THEN Ends({0}) /\ UNCHANGED printed
           ELSE IF opts.commands[n] = [name |-> "tag", query |-> "no number"]
           THEN Ends({1}) /\ UNCHANGED printed
           ELSE printed' = Append(printed, AnswerTo(opts.commands[n])) /\ UNCHANGED <<stage, code>>
    /\ UNCHANGED <<cacheVars, opts, registered, arrived, task, book, buffer, emitted,
                   diagnosed, interrupted, left>>

MayOpen(i) ==
    IF Parallel
    THEN Cardinality({j \in Sources : task[j].at \in {"reading", "resolving"}}) < NWorkers
    ELSE \A j \in Sources : j < i => task[j].at = "done"

(* A source is announced; a wide grid reads all of it first for its width. *)
OpenSource(i) ==
    /\ stage = "process" /\ task[i].at = "waiting" /\ MayOpen(i)
    /\ IF opts.sources[i].kind = "missing"
       THEN /\ Finished(i, "unopened")
            /\ Diagnose(i)
            /\ UNCHANGED <<buffer, printed>>
       ELSE /\ Write(i, Announcement(i))
            /\ IF WideGrid /\ opts.sources[i].kind = "file" /\ IsBad(Text(i))
               THEN Finished(i, "unreadable")
               ELSE task' = [task EXCEPT ![i].at = "reading"]
            /\ UNCHANGED diagnosed
    /\ UNCHANGED <<cacheVars, opts, registered, arrived, book, emitted, interrupted, left, stage,
                   code>>

(* The next line, or what is there of it.  One that is no text ends the    *)
(* source, or is skipped when following.                                   *)
TakeLine(i) ==
    LET text == Text(i)
        end  == LineEnd(text, task[i].pos + 1)
        line == SubSeq(text, task[i].pos + 1, end)
    IN  /\ task[i].at = "reading" /\ ~interrupted /\ task[i].pos < arrived[i]
        /\ IF IsBad(line) /\ ~opts.follow
           THEN /\ Finished(i, "unreadable")
                /\ IF opts.sources[i].kind = "stdin" THEN Diagnose(i) ELSE UNCHANGED diagnosed
           ELSE /\ task' = [task EXCEPT ![i].pos = end,
                       ![i].at = IF IsBad(line) THEN "reading" ELSE "resolving",
                       ![i].lines = IF IsBad(line) THEN @ ELSE Append(@, line)]
                /\ UNCHANGED diagnosed
        /\ UNCHANGED <<cacheVars, opts, registered, arrived, book, buffer, emitted, printed,
                       interrupted, left, stage, code>>

(* The dictionary of the next message of the line, and what a Logon says   *)
(* about the messages after it.                                            *)
Unresolved(i) == task[i].at = "resolving"
                 /\ Len(task[i].dicts) < Len(MessagesIn(CurrentLine(i)))
NextMessage(i) == MessagesIn(CurrentLine(i))[Len(task[i].dicts) + 1]

AskDictionary(i) ==
    /\ Unresolved(i)
    /\ Resolve(i, opts.override,
               DetectedKey(NextMessage(i),
                           DefaultOf(book[ContextOf(i)].defaults, NextMessage(i))))
    /\ UNCHANGED <<lookups, combos, fileVars>>

FindDictionary(i) == CacheStep(i) /\ UNCHANGED fileVars

TakeDictionary(i) ==
    /\ call[i].at = "answered"
    /\ call' = [call EXCEPT ![i] = Idle]
    /\ task' = [task EXCEPT ![i].dicts = Append(@, call[i].found)]
    /\ book' = [book EXCEPT ![ContextOf(i)].defaults = Learnt(@, NextMessage(i))]
    /\ UNCHANGED <<lookups, combos, opts, registered, arrived, buffer, emitted, printed,
                   diagnosed, interrupted, left, stage, code>>

(* All messages of the line are resolved: they are shown, counted, and     *)
(* tracked.                                                                *)
FinishLine(i) ==
    LET msgs  == MessagesIn(CurrentLine(i))
        shown == [k \in DOMAIN msgs |-> [msg |-> msgs[k], with |-> Name(task[i].dicts[k])]]
    IN  /\ task[i].at = "resolving" /\ Len(task[i].dicts) = Len(msgs)
        /\ Write(i, BlocksOf(i, CurrentLine(i), shown))
        /\ book' = [book EXCEPT ![ContextOf(i)] = LineCounted(@, msgs)]
        /\ task' = [task EXCEPT ![i].at = "reading", ![i].dicts = << >>]
        /\ UNCHANGED <<cacheVars, opts, registered, arrived, emitted, diagnosed, interrupted,
                       left, stage, code>>

(* With a terminal, following shows the counts whenever it has read all    *)
(* there is.                                                               *)
LiveCounts(i) ==
    /\ task[i].at = "reading" /\ ~interrupted /\ task[i].pos = arrived[i]
    /\ opts.follow /\ LiveStatus /\ book[Shared].dirty
    /\ Write(i, CountsBlock(book[Shared]))
    /\ book' = [book EXCEPT ![Shared].dirty = FALSE]
    /\ UNCHANGED <<cacheVars, opts, registered, arrived, task, emitted, diagnosed,
                   interrupted, left, stage, code>>

EndSourceAtEnd(i) ==
    /\ task[i].at = "reading" /\ task[i].pos = arrived[i] /\ (interrupted \/ ~opts.follow)
    /\ Finished(i, "ok")
    /\ UNCHANGED <<cacheVars, opts, registered, arrived, book, buffer, emitted, printed,
                   diagnosed, interrupted, left, stage, code>>

(* The end of a source, or an interrupt.                                   *)
EndSource(i) ==
    /\ task[i].at = "reading"
    /\ interrupted \/ (task[i].pos = arrived[i] /\ ~opts.follow)
    /\ Finished(i, "ok")
    /\ UNCHANGED <<cacheVars, opts, registered, arrived, book, buffer, emitted, printed,
                   diagnosed, interrupted, left, stage, code>>
-----------------------------------------------------------------------------
AllDone == \A i \in Sources : task[i].at = "done"

LastCounts(a, b) == [a EXCEPT !.counts = b.counts, !.dirty = b.dirty]
MergedCounts(a, b) == [a EXCEPT !.counts = [t \in Types |-> @[t] + b.counts[t]],
                                !.dirty = @ \/ b.dirty]

(* What the threads decoded is written in the order of the command line.   *)
EmitFile ==
    LET i == emitted + 1
    IN  /\ stage = "process" /\ Parallel /\ AllDone /\ i \in Sources
        /\ printed' = IF left THEN printed ELSE printed \o buffer[i]
        /\ diagnosed' = IF task[i].result = "unopened" THEN Append(diagnosed, i) ELSE diagnosed
        /\ book' = [book EXCEPT ![Shared] = MergedCounts(@, book[i])]
        /\ emitted' = i
        /\ UNCHANGED <<cacheVars, opts, registered, arrived, task, buffer, interrupted, left,
                       stage, code>>

(* The pages are shown, each with its counts; or the orders and the counts *)
(* of all sources close the output.                                        *)
Close ==
    /\ stage = "process" /\ AllDone
    /\ Parallel => emitted = Len(opts.sources)
    /\ stage' = "close"
    /\ printed' =
          IF left THEN printed
          ELSE IF Pages
          THEN FlattenSeq([i \in Sources |-> buffer[i] \o CountsBlock(book[i])])
          ELSE printed \o (IF opts.summary THEN <<[kind |-> "orders",
                                                   tracked |-> book[Shared].tracked]>>
                                           ELSE << >>)
                       \o CountsBlock(ClosingBook)
    /\ UNCHANGED <<cacheVars, opts, registered, arrived, task, book, buffer, emitted,
                   diagnosed, interrupted, left, code>>

(* The exit code: the pager's failure, the interrupt, a source's failure.  *)
Exit ==
    /\ stage = "close"
    /\ \E pager_ok \in {TRUE} \cup (IF UsesPager THEN {FALSE} ELSE {}) :
           code' = IF ~pager_ok THEN 1
                   ELSE IF interrupted THEN 130
                   ELSE IF \A i \in Sources : task[i].result = "ok" THEN 0 ELSE 1
    /\ stage' = "exit"
    /\ UNCHANGED <<cacheVars, opts, registered, arrived, task, book, buffer, emitted, printed,
                   diagnosed, interrupted, left>>

Interrupt ==
    /\ stage # "exit" /\ ~interrupted
    /\ interrupted' = TRUE
    /\ UNCHANGED <<cacheVars, opts, registered, arrived, task, book, buffer, emitted, printed,
                   diagnosed, left, stage, code>>

(* The user quits the pager that is being written to; what else is written *)
(* is dropped without an error.                                            *)
QuitPager ==
    /\ UsesPager /\ ~Pages /\ ~SummaryPager /\ stage = "process" /\ ~left
    /\ left' = TRUE
    /\ UNCHANGED <<cacheVars, opts, registered, arrived, task, book, buffer, emitted, printed,
                   diagnosed, interrupted, stage, code>>

(* Somebody writes to a source that is followed.                           *)
Arrive(i) ==
    /\ opts.follow /\ stage = "process"
    /\ arrived[i] < Len(opts.sources[i].pieces)
    /\ arrived' = [arrived EXCEPT ![i] = @ + 1]
    /\ UNCHANGED <<cacheVars, opts, registered, task, book, buffer, emitted, printed,
                   diagnosed, interrupted, left, stage, code>>

TaskStep(i) == \/ OpenSource(i)
               \/ TakeLine(i)
               \/ AskDictionary(i)
               \/ FindDictionary(i)
               \/ TakeDictionary(i)
               \/ FinishLine(i)
               \/ LiveCounts(i)
               \/ EndSource(i)
MainStep == ReadOptions \/ Register \/ Begin \/ Answer \/ EmitFile \/ Close \/ Exit

Next == \/ MainStep
        \/ \E i \in Sources : TaskStep(i) \/ Arrive(i)
        \/ Interrupt
        \/ QuitPager

Spec == Init /\ [][Next]_vars

(* The program goes on: main, and every thread of the pool.                *)
Fairness == /\ WF_vars(MainStep)
            /\ \A i \in Threads : WF_vars(i \in Sources /\ TaskStep(i))
=============================================================================
