---------------------- MODULE FileProcessingInvariants ----------------------
(***************************************************************************)
(* What the proofs about the program need to say of its states: the        *)
(* inductive invariants of the dictionaries' cache (CacheInv), the types   *)
(* (TypeInv), the counts and their diagnoses (HonestInv), and of the       *)
(* output: where the program is (StageInv), whose dictionary each message  *)
(* gets (NamesInv, DefaultsInv, WordsInv), what has been read (ReadInv,    *)
(* OpenedInv) and what has been written of it (WriteInv, Answering).       *)
(***************************************************************************)
EXTENDS FileProcessingReference

WholeDict(dict) == ~IsMerged(dict) /\ Current(dict)
CallSteps == {"idle", "combo", "look", "session", "insertSession", "insert", "merge", "answered"}
Getting == {"look", "session", "insertSession", "insert"}

(* The cache: whole dictionaries at their keys, with the session's.        *)
LookupsOK ==
    \A k \in DOMAIN lookups :
        /\ lookups[k].key = k
        /\ ~IsMerged(lookups[k])
        /\ lookups[k].by \in Threads =>
               /\ k \in SessionUsers => SessionKey \in DOMAIN lookups
               /\ lookups[k].fallback = IF k \in SessionUsers THEN lookups[SessionKey]
                                                              ELSE NoDictionary

CombosOK == \A p \in DOMAIN combos : Current(combos[p])

(* What a thread remembers is still so when it goes on.                    *)
RemembersSession(c) ==
    /\ c.at \in {"session", "insertSession"} => c.key \in SessionUsers
    /\ c.at = "insert" => /\ c.key \in SessionUsers => SessionKey \in DOMAIN lookups
                          /\ c.found = IF c.key \in SessionUsers THEN lookups[SessionKey]
                                                                 ELSE NoDictionary

CallOK(c) ==
    /\ c \in [at : CallSteps, goal : {"none", "override", "fallback", "detected"},
              key : {c.key}, override : {c.override}, detected : {c.detected},
              primary : {c.primary}, found : {c.found}]
    /\ c.at \in Getting => c.goal # "none"
    /\ c.goal = "fallback" => c.primary # NoDictionary
    /\ c.primary # NoDictionary => WholeDict(c.primary)
    /\ c.found # NoDictionary => Current(c.found)
    /\ c.at # "answered" /\ c.found # NoDictionary => WholeDict(c.found)
    /\ c.at = "merge" => /\ c.primary # NoDictionary /\ c.found # NoDictionary
                         /\ c.primary # c.found
    /\ RemembersSession(c)

CacheInv ==
    /\ LookupsOK
    /\ CombosOK
    /\ DOMAIN call = Threads
    /\ \A t \in Threads : CallOK(call[t])

(* A cache that only grows: nothing that was current ceases to be so.      *)
Grows ==
    \A k \in DOMAIN lookups : k \in DOMAIN lookups' /\ lookups'[k] = lookups[k]

-----------------------------------------------------------------------------
(* The program: nobody asks for a dictionary while they are registered,    *)
(* because no source is being read.                                        *)
Unread == \A i \in Sources : task[i].at = "waiting"
Loading == stage \in {"options", "load"}

ProgramInv ==
    /\ opts \in CommandLines
    /\ Loading => Unread
    /\ Loading /\ CacheInv => Fresh

-----------------------------------------------------------------------------
(* What an invocation is made of: its options, its sources, their pieces,  *)
(* and the messages in them.                                               *)
AllSources == UNION {ToSet(o.sources) : o \in CommandLines}
Pieces == UNION {ToSet(s.pieces) : s \in AllSources}
Msgs == {p.msg : p \in {q \in Pieces : q.what \in {"whole", "head"}}}

-----------------------------------------------------------------------------
(* The types of the program's state.  A task that resolves has a line and  *)
(* not too many dictionaries for it, and only then does its thread look    *)
(* for one.                                                                *)
Places == {"waiting", "reading", "resolving", "done"}
Results == {"none", "ok", "unopened", "unreadable"}

TaskOK(t, most) ==
    /\ t \in [at : Places, pos : 0 .. most, lines : Seq(Seq(Pieces)),
              dicts : Seq(ToSet(t.dicts)), result : Results]
    /\ t.at = "resolving" => /\ t.lines # << >>
                             /\ Len(t.dicts) <= Len(MessagesIn(Last(t.lines)))
    /\ t.at # "resolving" => t.dicts = << >>
    /\ t.at = "waiting" => t = NewTask
    /\ t.at = "done" <=> t.result # "none"

Tasks ==
    /\ DOMAIN arrived = Sources /\ DOMAIN task = Sources
    /\ \A i \in Sources : /\ arrived[i] \in 0 .. Len(opts.sources[i].pieces)
                          /\ TaskOK(task[i], arrived[i])
                          /\ call[i].at # "idle" => Unresolved(i)

BookOK(b) ==
    b \in [counts : [Types -> Nat], dirty : BOOLEAN, tracked : Seq(Msgs),
           defaults : [Sessions -> EmbeddedKeys \cup {NoKey}]]

Books ==
    /\ DOMAIN book = {Shared} \cup Sources
    /\ \A c \in {Shared} \cup Sources : BookOK(book[c])

Scalars ==
    /\ registered \in 0 .. Len(opts.customs)
    /\ emitted \in 0 .. Len(opts.sources)
    /\ diagnosed \in Seq(Sources)
    /\ interrupted \in BOOLEAN /\ left \in BOOLEAN
    /\ stage \in {"options", "load", "answer", "process", "close", "exit"}
    /\ code \in {Running, 0, 1, 2, 130}

TypeInv == opts \in CommandLines /\ Tasks /\ Books /\ Scalars

Pending(t) == t.at = "resolving" /\ Len(t.dicts) < Len(MessagesIn(Last(t.lines)))

-----------------------------------------------------------------------------
(* What has been counted of a task: the messages of its lines, but not yet *)
(* those of the line that is being resolved.                               *)
LinesDone(t) == IF t.at = "resolving" THEN Len(t.lines) - 1 ELSE Len(t.lines)
Told(t) == FlattenSeq([n \in 1 .. LinesDone(t) |-> MessagesIn(t.lines[n])])

(* Sources are opened in their order unless threads read them; what the    *)
(* threads decoded is emitted when all have ended, and so is the output    *)
(* closed.  Only a pager that shows the output as it grows can be left.    *)
InOrder ==
    /\ ~Parallel => \A i, j \in Sources : j < i /\ task[i].at # "waiting" => task[j].at = "done"
    /\ emitted > 0 => AllDone
    /\ stage = "close" => AllDone /\ (Parallel => emitted = Len(opts.sources))
    /\ left => UsesPager /\ ~Pages /\ ~SummaryPager

DiagnosedSoFar ==
    /\ ToSet(diagnosed) = {i \in ToDiagnose : Parallel => i <= emitted}
    /\ \A j, k \in DOMAIN diagnosed : j < k => diagnosed[j] < diagnosed[k]

NoCounts(b) == ~b.dirty => \A t \in Types : b.counts[t] = 0
Tally(t) == [i \in Sources |-> Number(Told(task[i]), t)]
Summed == IF Parallel THEN 1 .. emitted ELSE Sources

BooksAgree ==
    /\ ~Counting => \A c \in {Shared} \cup Sources :
                        ~book[c].dirty /\ \A t \in Types : book[c].counts[t] = 0
    /\ \A i \in Sources : NoCounts(book[i])
    /\ Counting => \A t \in Types :
           /\ Pages \/ Parallel => \A i \in Sources :
                                      book[i].counts[t] = Number(Told(task[i]), t)
           /\ ~Pages => book[Shared].counts[t] = SumFunctionOnSet(Tally(t), Summed)

(* The summary's log holds the messages that were told.                    *)
TrackedAgrees ==
    opts.summary => \A t \in Types :
        Number(book[Shared].tracked, t) = SumFunctionOnSet(Tally(t), Sources)

CountsAt(blocks) == {k \in DOMAIN blocks : blocks[k].kind = "counts"}

LastShown(blocks, t) ==
    IF CountsAt(blocks) = {} THEN 0 ELSE blocks[Max(CountsAt(blocks))].counts[t]

Blocks(s) == s \in Seq(ToSet(s))
PlainBlocks(s) == Blocks(s) /\ CountsAt(s) = {}
Buffers == DOMAIN buffer = Sources /\ \A i \in Sources : PlainBlocks(buffer[i])

Tells ==
    /\ ~Pages /\ ~book[Shared].dirty =>
           \A t \in Types : LastShown(printed, t) = book[Shared].counts[t]
    /\ SummaryPager => \A t \in Types : LastShown(printed, t) = 0

ShownSoFar ==
    /\ Buffers /\ Blocks(printed)
    /\ stage \notin {"close", "exit"} => Tells
    /\ stage = "close" /\ ~left =>
           \A t \in Types :
               ShownCounts(t) = IF CountsDue THEN SumFunctionOnSet(Tally(t), Sources) ELSE 0

HonestInv == InOrder /\ DiagnosedSoFar /\ BooksAgree /\ TrackedAgrees /\ ShownSoFar

(* How many messages of a type there are, as a sum over the messages.      *)
Is(S, t) == [m \in S |-> IF m.type = t THEN 1 ELSE 0]

-----------------------------------------------------------------------------
(* What the counts of a sequence of blocks add up to.                      *)
Shows(B, t) == [b \in B |-> IF b.kind = "counts" THEN b.counts[t] ELSE 0]
Countable(B, t) == \A b \in B : b.kind = "counts" => b.counts[t] \in Nat

(* The page of a source shows the counts of its book, and no others.       *)
PageBlocks ==
    {b \in UNION {ToSet(buffer[i]) : i \in Sources} : b.kind # "counts"}
      \cup {[kind |-> "counts", counts |-> c] : c \in [Types -> Nat]}

Page(i) == buffer[i] \o CountsBlock(book[i])

-----------------------------------------------------------------------------
(* The end of the output shows the counts of all sources.                  *)
ClosedWell(blocks) ==
    \A t \in Types :
        (IF Pages THEN SumFunctionOnSet([k \in CountsAt(blocks) |-> blocks[k].counts[t]],
                                        CountsAt(blocks))
                  ELSE LastShown(blocks, t))
           = IF CountsDue THEN SumFunctionOnSet(Tally(t), Sources) ELSE 0

(* The values of a name, one argument after the other.                     *)
ValueOf(a, name) == IF a.name = name THEN <<a.value>> ELSE << >>

-----------------------------------------------------------------------------
(* No name is given twice, but those that may be.                          *)
Once(args) ==
    \A j, k \in DOMAIN args : args[j].name = args[k].name =>
        j = k \/ args[j].name \in Line!Repeated

KeptOf(d, given) ==
    LET rest == Line!Remaining(d, given)
    IN  /\ \A k \in DOMAIN rest : /\ Line!Stays(given, rest[k].name)
                                  /\ \E j \in DOMAIN d : d[j] = rest[k]
        /\ \A j \in DOMAIN d : Line!Stays(given, d[j].name) =>
               \E k \in DOMAIN rest : rest[k] = d[j]
        /\ Once(d) => Once(rest)
        /\ Line!Values(rest, "xml") = Line!Values(d, "xml")

-----------------------------------------------------------------------------
(* What clap accepts: known names, each but a few once, and no help.       *)
Accepted(args) ==
    /\ Once(args)
    /\ \A k \in DOMAIN args :
           /\ args[k].name \in Line!Flags \cup Line!Single \cup Line!Repeated
           /\ args[k].name # "help"

(* What the environment and the command line say as one.                   *)
Joined(asked) == Line!Remaining(asked.defaults, asked.given) \o asked.given

Fit(asked) ==
    /\ asked.given \in Seq(ToSet(asked.given)) /\ asked.defaults \in Seq(ToSet(asked.defaults))
    /\ Accepted(asked.given) /\ Accepted(asked.defaults)
    /\ ~Line!Explicit(asked.given, "pager-help")

-----------------------------------------------------------------------------
(* What ends an invocation ends it just as well when all is on its command *)
(* line, unless it is the defaults that are refused.                       *)
Proper(asked) ==
    /\ Fit(asked)
    /\ ~Line!Explicit(asked.given, "version")
    /\ ~Line!Explicit(asked.given, "install-ghostty-bindings")
    /\ ~Line!BadDefaults(asked.defaults) /\ ~Line!BadStyle(asked.defaults)

-----------------------------------------------------------------------------
(* What a dictionary is made of follows from the --xml files registered    *)
(* before it was built, the first n of them.                               *)
RegisteredIn(customs, n, k) == \E a \in 1 .. n : customs[a] = k

SessionIn(customs, n, k) ==
    \E a \in 1 .. n : /\ customs[a] = SessionKey
                      /\ RegisteredIn(customs, n, k) => \E b \in a + 1 .. n : customs[b] = k

IsNamed(dict, k, customs, n) ==
    /\ dict # NoDictionary /\ dict.key = k /\ ~IsMerged(dict)
    /\ dict.custom \in BOOLEAN /\ (dict.custom <=> RegisteredIn(customs, n, k))
    /\ k \notin SessionUsers => dict.fallback = NoDictionary
    /\ k \in SessionUsers => /\ dict.fallback \in SessionDicts
                             /\ dict.fallback.custom <=> SessionIn(customs, n, k)

NamedOf(map, customs, n) ==
    /\ \A k \in DOMAIN map : /\ IsNamed(map[k], k, customs, n)
                             /\ k \in EmbeddedKeys \/ RegisteredIn(customs, n, k)
    /\ SessionKey \in DOMAIN map => map[SessionKey] \in SessionDicts
    /\ \A a \in 1 .. n : customs[a] \in DOMAIN map

-----------------------------------------------------------------------------
(* How far the program is: what it has read of its command line, and that  *)
(* its sources are read in one stage.                                      *)
Known == {NoKey} \cup EmbeddedKeys \cup ToSet(opts.customs)

StageInv ==
    /\ stage # "options" /\ stage # "exit" => opts.ends = {}
    /\ stage \in {"answer", "process", "close"} =>
           registered = Len(opts.customs) /\ opts.override \in Known
    /\ stage = "answer" => opts.commands # << >>
    /\ stage \in {"process", "close"} => opts.commands = << >>
    /\ stage \in {"options", "load", "answer"} => Unread /\ ~left /\ emitted = 0
    /\ stage \in {"options", "load"} => printed = << >>
    /\ stage # "process" => \A i \in Sources : task[i].at \in {"waiting", "done"}
    /\ stage = "exit" <=> code # Running

-----------------------------------------------------------------------------
(* The dictionaries in the cache are made of what they should be.          *)
CustomsSoFar(k) == RegisteredIn(opts.customs, registered, k)

LookupsNamed ==
    /\ NamedOf(lookups, opts.customs, registered)
    /\ Loading => \A k \in DOMAIN lookups : CustomsSoFar(k) \/ k = SessionKey

-----------------------------------------------------------------------------
(* What a call is about to answer: the dictionary of its message.          *)
KnownKey(k) == IF k \in EmbeddedKeys \cup Customs THEN k ELSE DefaultKey

CallNamed(c) ==
    c.at # "idle" =>
        /\ c.override = opts.override
        /\ c.at \in Getting =>
               /\ c.goal = "override" => c.key = opts.override /\ opts.override # NoKey
               /\ c.goal = "detected" => opts.override = NoKey
               /\ c.goal = "fallback" => opts.override # NoKey /\ c.primary.key = opts.override
               /\ c.goal # "override" => KnownKey(c.key) = KnownKey(c.detected)
        /\ c.at = "combo" => opts.override # NoKey
        /\ c.at \in {"session", "insertSession", "insert"} => c.key \in EmbeddedKeys
        /\ c.at = "merge" => /\ opts.override # NoKey
                             /\ c.primary.key = opts.override
                             /\ c.found.key = KnownKey(c.detected)
        /\ c.at = "answered" => Name(c.found) = NameFor(c.detected)

CombosNamed == \A p \in DOMAIN combos : Name(combos[p]) = NameFor(p[2])
NamesInv == LookupsNamed /\ CombosNamed /\ \A t \in Threads : CallNamed(call[t])

-----------------------------------------------------------------------------
(* What the Logons of some messages named for a session: the last of them  *)
(* counts.                                                                 *)
Names(m, s) == m.begin = SessionKey /\ m.default # NoKey /\ Session(m) = s

DefaultFor(msgs, s) ==
    LET logons == {k \in DOMAIN msgs : Names(msgs[k], s)}
    IN  IF logons = {} THEN NoKey ELSE msgs[Max(logons)].default

(* The defaults of a book are those of the messages it has heard.          *)
BookTells(defaults, msgs) == \A s \in Sessions : defaults[s] = DefaultFor(msgs, s)

-----------------------------------------------------------------------------
(* What a task has said: the lines it has finished, and of the one it is   *)
(* at the messages that have their dictionaries.                           *)
SpokenOf(t) ==
    IF t.at = "resolving" THEN Told(t) \o SubSeq(MessagesIn(Last(t.lines)), 1, Len(t.dicts))
    ELSE Told(t)

AllSpoken == FlattenSeq([i \in Sources |-> SpokenOf(task[i])])

Before(i) ==
    IF Pages \/ Parallel THEN << >> ELSE FlattenSeq([j \in 1 .. i - 1 |-> Told(task[j])])

DefaultsInv ==
    /\ Pages \/ Parallel => \A i \in Sources : BookTells(book[i].defaults, SpokenOf(task[i]))
    /\ ~Pages /\ ~Parallel => BookTells(book[Shared].defaults, AllSpoken)

-----------------------------------------------------------------------------
(* The names of the dictionaries of a line, and the schema that is asked   *)
(* for, are those of what was said before.                                 *)
NextOf(t) == MessagesIn(Last(t.lines))[Len(t.dicts) + 1]

AskedOf(c, t, before) ==
    c.at # "idle" =>
        c.detected = DetectedKey(NextOf(t), LastDefault(before \o SpokenOf(t), NextOf(t)))

NamedUpTo(msgs, dicts, n, before) ==
    \A k \in 1 .. n : Name(dicts[k]) = NameAfter(before \o SubSeq(msgs, 1, k - 1), msgs[k])

DictsOf(t, before) ==
    t.at = "resolving" =>
        NamedUpTo(MessagesIn(Last(t.lines)), t.dicts, Len(t.dicts), before \o Told(t))

AskedInv == \A i \in Sources : AskedOf(call[i], task[i], Before(i))
DictsInv == \A i \in Sources : DictsOf(task[i], Before(i))
WordsInv == AskedInv /\ DictsInv

-----------------------------------------------------------------------------
(* The lines of the beginning of a text.                                   *)
LinesUpTo(text, n) == FlattenSeq([j \in 1 .. n |-> LineAt(text, j)])

Boundary(text, n) ==
    /\ n \in 0 .. Len(text)
    /\ n > 0 => text[n].eol \/ n = Len(text)
    /\ \A j \in 1 .. n : text[j].what # "bad"

-----------------------------------------------------------------------------
(* What has been read of the sources.                                      *)
Skipped(i) ==
    \/ opts.sources[i].kind = "missing"
    \/ WideGrid /\ opts.sources[i].kind = "file" /\ IsBad(Text(i))

ReadUpTo(text, t) == Boundary(text, t.pos) /\ t.lines = LinesUpTo(text, t.pos)
ReadAsGiven == ~opts.follow => \A i \in Sources : ReadUpTo(Text(i), task[i])

ReadUnlessSkipped ==
    \A i \in Sources : Skipped(i) => task[i].at \in {"waiting", "done"} /\ task[i].lines = << >>

ReadToTheEnd ==
    ~interrupted => \A i \in Sources : task[i].at = "done" => task[i].lines = LinesRead(i)

ReadInOrder ==
    ~Pages /\ ~Parallel =>
        \A i \in Sources : task[i].lines # << >> =>
            \A j \in 1 .. i - 1 : task[j].lines = LinesRead(j)

ReadInv == ReadAsGiven /\ ReadUnlessSkipped /\ ReadToTheEnd /\ ReadInOrder

-----------------------------------------------------------------------------
(* What is left of some blocks when the counts and the orders are left     *)
(* out.                                                                    *)
OfSources(b) == b.kind \in {"source", "line", "answer"}
Kept(b) == IF OfSources(b) THEN <<b>> ELSE << >>

-----------------------------------------------------------------------------
(* The blocks that are shown of the sources.                               *)
NamesGiven == {NameAfter(b, m) : b \in Seq(Msgs), m \in Msgs}
Showns == [msg : Msgs, with : NamesGiven]
SourceBlocks == [kind : {"source"}, source : Sources]

LineBlocks == [kind : {"line"}, source : Sources, text : Seq(Pieces),
               shown : Seq(Showns)]

Bits == SourceBlocks \cup LineBlocks

MessagesShown(i, before, lines) ==
    [n \in 1 .. Len(lines) |->
        LineShown(i, before \o MessagesOf(SubSeq(lines, 1, n - 1)), lines[n])]

-----------------------------------------------------------------------------
(* What has been written of a source: its announcement and the lines it    *)
(* has finished.                                                           *)
DoneLines(t) == SubSeq(t.lines, 1, LinesDone(t))

ShownOf(i, t, before) ==
    IF t.at = "waiting" \/ t.result = "unopened" THEN << >> ELSE Decoded(i, before, DoneLines(t))

Shown(i) == ShownOf(i, task[i], Before(i))

(* What is shown of a source after a step.                                 *)
BeforesTyped == \A i \in Sources : Before(i) \in Seq(Msgs)

(* What a step of a task writes is what is shown more of its source, but   *)
(* for counts, which only sources read in sequence write.                  *)
Writes(i, w) ==
    /\ Blocks(w)
    /\ Write(i, w) \/ (w = << >> /\ UNCHANGED <<buffer, printed>>)

-----------------------------------------------------------------------------
(* What the output shows of the sources at every moment.                   *)
AllShown == FlattenSeq([i \in Sources |-> Shown(i)])
ShownByThreads == FlattenSeq([i \in 1 .. emitted |-> Shown(i)])

Due ==
    IF SummaryPager \/ (Pages /\ stage # "close") THEN << >>
    ELSE IF Parallel THEN ShownByThreads ELSE AllShown

Writing == stage \in {"options", "load", "process", "close"} /\ ~left
Buffered == Pages \/ Parallel => \A i \in Sources : buffer[i] = Shown(i)
WriteInv == Buffered /\ (Writing => Lines = Due)

(* A source that cannot be opened is one that is missing.                  *)
OpenedInv ==
    \A i \in Sources : task[i].at # "waiting" =>
        (task[i].result = "unopened" <=> opts.sources[i].kind = "missing")

-----------------------------------------------------------------------------
(* What is due of a source, and that sources read in sequence hear the     *)
(* messages that were shown before them.                                   *)
DueOf(i) ==
    IF SummaryPager \/ opts.sources[i].kind = "missing" THEN << >>
    ELSE Decoded(i, Heard(i), LinesRead(i))

-----------------------------------------------------------------------------
(* What is on the output of every source, and what is due of every source. *)
Out(i) ==
    IF SummaryPager \/ (Pages /\ stage # "close") \/ (Parallel /\ i > emitted) THEN << >>
    ELSE Shown(i)

Outs == [i \in Sources |-> Out(i)]
Dues == [i \in Sources |-> DueOf(i)]

(* What is due of a source after a step.                                   *)
ReadsTyped == \A i \in Sources : LinesRead(i) \in Seq(Seq(Pieces)) /\ Heard(i) \in Seq(Msgs)

Decoding == opts.ends = {} /\ opts.commands = << >>
DuesPromised == Promised = Dues
KeepsPromise == promised = Promised

-----------------------------------------------------------------------------
(* While sources are decoded and somebody reads, the output is a beginning *)
(* of what is promised, or of every source when it is interrupted.         *)
Fits ==
    /\ interrupted => Lines \in Output!Cuts
    /\ ~interrupted => Output!IsPrefix(Lines, Output!FlattenSeq(promised))

OutputFits == stage \in {"process", "close"} /\ ~left => Fits

-----------------------------------------------------------------------------
(* The files of the dictionaries of --xml: for each key the last that      *)
(* defines it.                                                             *)
KeysOf(customs, n) == {key \in ToSet(customs) : \E m \in 1 .. n : customs[m] = key}
LastOf(customs, n, key) == Max({m \in 1 .. n : customs[m] = key})
FilesOf(customs, n) == [key \in KeysOf(customs, n) |-> LastOf(customs, n, key)]

LoadRule(customs, g) ==
    [n \in 0 .. Len(customs) |->
        IF n = 0 THEN [key \in {} |-> 0] ELSE With(g[n - 1], customs[n], n)]

Answers == [n \in 1 .. Len(opts.commands) |-> AnswerDue(opts.commands[n])]
Replies == {AnswerDue(opts.commands[n]) : n \in DOMAIN opts.commands}

-----------------------------------------------------------------------------
(* The questions are answered in their order.                              *)
Answering ==
    stage = "answer" => /\ Len(printed) \in 0 .. Len(opts.commands)
                        /\ printed = SubSeq(Answers, 1, Len(printed))

(* The answers so far begin what is promised.                              *)
AnswersFit == stage = "answer" =>
    /\ Fits /\ printed \in Seq(Replies) /\ Lines = printed
    /\ Len(printed) = Len(opts.commands) => Lines = Output!FlattenSeq(promised)

(* The steps of FileOutput.                                                *)
Failed == \E i \in Sources : task[i].result \in {"unopened", "unreadable"}

(* Every step is one of FileOutput, or changes nothing of it.              *)
Maps == [Output!Next]_(Output!vars)
=============================================================================
