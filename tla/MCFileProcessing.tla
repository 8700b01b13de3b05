-------------------------- MODULE MCFileProcessing --------------------------
(***************************************************************************)
(* Invocations for FileProcessing: files decoded by two threads that race  *)
(* for the same dictionaries, sources read in sequence, pages, summaries,  *)
(* --validate, --follow, and files that are missing or are no text.        *)
(***************************************************************************)
EXTENDS FileProcessingReference

CONSTANTS None, Order, Admin, Us, Them

TypesDef == {Order, Admin}
PartiesDef == {Us, Them}

Message(begin, appl, default, from, to, type, clean) ==
    [begin |-> begin, appl |-> appl, default |-> default, sender |-> from, target |-> to,
     type |-> type, clean |-> clean]
Old      == Message("FIX44", None, None, Us, Them, Order, TRUE)
Strange  == Message("FIX99", None, None, Us, Them, Order, FALSE)
Logon    == Message("FIXT11", None, "FIX50SP2", Us, Them, Admin, TRUE)
Newer    == Message("FIXT11", "FIX50", None, Us, Them, None, TRUE)
Reply    == Message("FIXT11", None, None, Them, Us, Order, FALSE)

Piece(what, msg, eol) == [what |-> what, msg |-> msg, eol |-> eol]
Whole(m)  == Piece("whole", m, TRUE)
Beside(m) == Piece("whole", m, FALSE)
PlainText == Piece("plain", None, TRUE)
Bad       == Piece("bad", None, TRUE)
HeadOf(m) == Piece("head", m, FALSE)
TailOf(m) == Piece("tail", m, TRUE)

File(pieces)  == [kind |-> "file", pieces |-> pieces, there |-> Len(pieces)]
Stdin(pieces) == [kind |-> "stdin", pieces |-> pieces, there |-> Len(pieces)]
Missing       == [kind |-> "missing", pieces |-> << >>, there |-> 0]
Growing(pieces, there) == [kind |-> "file", pieces |-> pieces, there |-> there]

(* Invocations: their sources, arguments, and defaults.                    *)
Arg(name, value) == [name |-> name, value |-> value]
On(name) == Arg(name, None)
Call(sources, args) ==
    [given |-> args \o [n \in DOMAIN sources |-> Arg("file", sources[n])], defaults |-> << >>,
     terminal |-> FALSE, pager |-> None, stdin |-> Stdin(<<Whole(Strange), Bad>>)]
AtTerminal(sources, args) == [Call(sources, args) EXCEPT !.terminal = TRUE]
WithDefaults(defaults, asked) == [asked EXCEPT !.defaults = defaults]

Threaded == {
    Call(<<File(<<Whole(Logon)>>), Missing, File(<<Whole(Reply)>>)>>, << >>),
    Call(<<File(<<Whole(Logon), Whole(Reply)>>), File(<<Whole(Reply), Bad>>)>>,
         <<On("validate"), Arg("xml", "FIX50"), Arg("xml", "FIXT11")>>),
    WithDefaults(<<Arg("fix", "FIX50"), Arg("xml", "FIXT11")>>,
        Call(<<File(<<Whole(Old)>>), File(<<Whole(Newer)>>)>>, << >>)),
    AtTerminal(<<File(<<Whole(Old)>>), File(<<Whole(Strange)>>)>>,
        <<Arg("fix", "FIX44"), Arg("pager", "shell command")>>),
    Call(<<File(<<Whole(Newer)>>), File(<<Whole(Reply)>>), File(<<Bad>>)>>, <<On("nocounts")>>)}

InSequence == {
    Call(<<File(<<Beside(Logon), Whole(Reply), PlainText>>), Stdin(<<Whole(Reply), Bad>>)>>, << >>),
    Call(<<File(<<Whole(Old), Whole(Reply)>>), File(<<Whole(Strange)>>)>>, <<On("summary")>>),
    WithDefaults(<<On("summary")>>, AtTerminal(<< >>, <<On("validate")>>)),
    AtTerminal(<<File(<<Whole(Old), PlainText, Beside(Old)>>)>>, << >>),
    AtTerminal(<<File(<<Whole(Logon), Whole(Old)>>), File(<<Whole(Reply), Bad>>)>>,
        <<On("nowrap")>>),
    AtTerminal(<<File(<<Whole(Old), Bad>>)>>, <<On("nowrap"), On("plain")>>)}

Followed == {
    AtTerminal(<<Growing(<<Whole(Logon), Whole(Reply), Bad, Whole(Old)>>, 1), File(<<Whole(Old)>>)>>,
        <<On("follow")>>),
    Call(<<Growing(<<HeadOf(Old), TailOf(Old), Whole(Reply)>>, 1)>>, <<On("follow")>>),
    Call(<<File(<<HeadOf(Old), TailOf(Old)>>)>>, << >>)}

(* What may be said on the command line over the same or other defaults.   *)
Givens == {
    << >>, <<On("help")>>, <<On("unknown"), On("help")>>, <<On("version")>>, <<On("pager-help")>>,
    <<Arg("install-ghostty-bindings", "auto")>>, <<Arg("fix", "FIX44")>>,
    <<Arg("fix", "FIX44"), Arg("fix", "FIX50")>>, <<Arg("fix", "FIX4X"), On("info")>>,
    <<Arg("xml", "FIX44"), On("info"), Arg("message", "true")>>, <<Arg("xml", "no dictionary")>>,
    <<Arg("tag", "no number"), Arg("component", "true")>>, <<Arg("component", "")>>,
    <<Arg("paging", "no"), Arg("colour", "auto"), On("follow")>>, <<Arg("paging", "")>>,
    <<Arg("style", <<"full", "plain", "header">>), On("number")>>, <<On("number")>>,
    <<On("plain"), On("number")>>, <<Arg("style", << >>)>>, <<Arg("delimiter", "long")>>,
    <<Arg("pager", "command")>>, <<Arg("pager", "no program")>>,
    <<On("secret-files")>>, <<On("secret-files"), On("summary")>>, <<Arg("secret-dir", "dir")>>}
DefaultsOf == {
    <<On("unknown")>>, <<On("version")>>, <<Arg("fix", "FIX50"), Arg("xml", "FIX44"), On("number")>>,
    <<Arg("paging", "never"), Arg("style", <<"grid">>)>>, <<Arg("style", <<"sparkling">>), On("info")>>,
    <<On("plain"), On("pager-help"), Arg("message", "NewOrderSingle"), Arg("tag", "44")>>,
    <<Arg("secret-dir", "dir"), Arg("pager", "shell command"), Arg("colour", "no")>>}
Layered == {WithDefaults(d, Call(<<Missing>>, g)) : d \in DefaultsOf, g \in Givens}
             \cup {Call(<< >>, <<On("secret-files")>>)}

InvocationsDef == Threaded \cup InSequence \cup Followed \cup Layered
=============================================================================
