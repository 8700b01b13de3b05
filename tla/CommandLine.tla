---------------------------- MODULE CommandLine ----------------------------
(***************************************************************************)
(* The options of an invocation (main.rs parse_cli_options): those given   *)
(* on the command line, laid over those of FIXDECODER_DEFAULT_ARGS, what   *)
(* of them is refused, and what the invocation is to do.                   *)
(*                                                                         *)
(* An argument is a name and a value; the value of --fix is a schema key,  *)
(* of --xml the key of the dictionary in the file, of a file a source, of  *)
(* --style the sequence of its words, of --pager and PAGER the kind of the *)
(* command.  An argument nobody knows stands for all that clap, or the     *)
(* shell syntax of the defaults, refuses.                                  *)
(* What clap finds after the first file is another file: options of which  *)
(* `given' speaks stand before the files.                                  *)
(***************************************************************************)
EXTENDS Integers, SequencesExt

CONSTANT NoKey  \* no value

Flags == {"column", "verbose", "header", "trailer", "info", "validate", "secret",
          "secret-files", "summary", "nocounts", "nowrap", "follow", "plain", "number",
          "pager-help", "version", "help"}
Single == {"fix", "message", "component", "tag", "colour", "secret-dir", "delimiter",
           "style", "paging", "pager", "install-ghostty-bindings"}
Repeated == {"xml", "file"}
Asked == {"message", "component", "tag"}

(* clap reads from left to right: help ends it, and so does an argument    *)
(* that is unknown or may not be repeated.                                 *)
Offends(args, k) ==
    /\ args[k].name \notin Repeated
    /\ args[k].name \in Flags \cup Single => \E j \in 1 .. k - 1 : args[j].name = args[k].name
Parsed(args) ==
    LET ends == {k \in DOMAIN args : args[k].name = "help" \/ Offends(args, k)}
    IN  IF ends = {} THEN "parsed" ELSE IF Offends(args, Min(ends)) THEN "error" ELSE "help"

Explicit(args, name) == \E k \in DOMAIN args : args[k].name = name
Values(args, name) ==
    FlattenSeq([k \in DOMAIN args |-> IF args[k].name = name THEN <<args[k].value>> ELSE << >>])
GetOne(args, name) ==
    IF Explicit(args, name) THEN args[Min({k \in DOMAIN args : args[k].name = name})].value
    ELSE IF name = "fix" THEN "FIX44" ELSE NoKey
-----------------------------------------------------------------------------
(* The command line over the defaults.                                     *)
SelectedAnyway(given, defaults, name) ==
    IF GetOne(given, name) # NoKey THEN GetOne(given, name) ELSE GetOne(defaults, name)
Selected(given, defaults, name) ==
    IF Explicit(given, name) THEN GetOne(given, name)
    ELSE IF Explicit(defaults, name) THEN GetOne(defaults, name) ELSE NoKey
Merged(given, defaults, name) == Values(defaults, name) \o Values(given, name)
Set(given, defaults, name) == Explicit(given, name) \/ Explicit(defaults, name)

(* --message and the like without a value stand for all there are.         *)
Query(given, defaults, name) ==
    LET value == Selected(given, defaults, name) IN IF value = "true" THEN "all" ELSE value

(* The decorations of lines.                                               *)
Full == {"numbers", "header", "grid"}
StyleWords == Full \cup {"plain", "full"}
StyleOf(words) ==
    LET last == Max({0} \cup {k \in DOMAIN words : words[k] \in {"plain", "full"}})
        base == IF last # 0 /\ words[last] = "full" THEN Full ELSE {}
    IN  base \cup {words[k] : k \in last + 1 .. Len(words)}
Restyled(style, args) ==
    LET styled == IF Explicit(args, "style") THEN StyleOf(GetOne(args, "style")) ELSE style
    IN  IF Explicit(args, "plain") THEN {}
        ELSE IF Explicit(args, "number") THEN styled \cup {"numbers"} ELSE styled
DefaultStyle(terminal) == IF terminal THEN {"header", "grid"} ELSE {}
BadStyle(args) ==
    /\ Explicit(args, "style")
    /\ LET words == GetOne(args, "style")
       IN  words = << >> \/ \E k \in DOMAIN words : words[k] \notin StyleWords

(* Values that are refused, when they are the ones selected.               *)
BadPaging(given, defaults) ==
    Selected(given, defaults, "paging") \notin {NoKey, "auto", "no", "yes"}
BadColour(given, defaults) ==
    Selected(given, defaults, "colour") \notin {NoKey, "", "auto", "no", "yes"}
BadDelimiter(given, defaults) ==
    Selected(given, defaults, "delimiter") \notin {NoKey, "character", "code"}
BadQuery(given, defaults) == \E name \in Asked : Selected(given, defaults, name) = ""

(* --pager: a path must lead to a program, and quotes must match.          *)
BadPager(given, defaults) == Selected(given, defaults, "pager") \in {"no program", "unquoted"}

(* --secret-files goes with files and with little else.                    *)
Conflict(given, defaults) ==
    IF Set(given, defaults, "secret-files")
    THEN LET files == Values(given, "file")
         IN  \/ files = << >>
             \/ \E k \in DOMAIN files : files[k].kind = "stdin"
             \/ \E name \in Asked \cup {"info", "validate", "summary", "follow", "nocounts"} :
                    Set(given, defaults, name)
    ELSE Set(given, defaults, "secret-dir")

BadDefaults(defaults) ==
    \/ Parsed(defaults) # "parsed"
    \/ \E name \in {"file", "version", "install-ghostty-bindings"} : Explicit(defaults, name)

(* The exit codes of an invocation that ends with its options; those of    *)
(* the installer and of --secret-files depend on the files they write.     *)
EndsWith(given, defaults) ==
    CASE Parsed(given) = "error" -> {2}
      [] Parsed(given) = "help" -> {0}
      [] Parsed(given) = "parsed" ->
             IF Explicit(given, "version") \/ Explicit(given, "pager-help") THEN {0}
             ELSE IF Explicit(given, "install-ghostty-bindings") THEN {0, 1}
             ELSE IF \/ BadDefaults(defaults) \/ BadStyle(defaults) \/ BadStyle(given)
                     \/ BadPaging(given, defaults) \/ BadColour(given, defaults)
                     \/ BadDelimiter(given, defaults) \/ BadQuery(given, defaults)
                     \/ BadPager(given, defaults) \/ Conflict(given, defaults) THEN {1}
             ELSE IF Set(given, defaults, "secret-files") THEN {0, 1} ELSE {}

(* The questions about the dictionary, in the order they are answered.     *)
Commands(given, defaults) ==
    LET asks(name, query) == IF query = NoKey THEN << >> ELSE <<[name |-> name, query |-> query]>>
    IN  asks("info", IF Set(given, defaults, "info") THEN "all" ELSE NoKey)
          \o asks("message", Query(given, defaults, "message"))
          \o asks("tag", Query(given, defaults, "tag"))
          \o asks("component", Query(given, defaults, "component"))

(* Several files go into the pages of a pager that is a plain command:     *)
(* the one given, that of PAGER, less, or cat.                             *)
PagerCommand(explicit, variable) ==
    IF explicit \notin {NoKey, "blank"} THEN explicit
    ELSE IF variable \notin {NoKey, "blank"} THEN variable ELSE "command"
TakesFiles(command) == command \in {"command", "no program"}

(* What an invocation is to do: its arguments, those of the environment,   *)
(* whether it writes to a terminal, PAGER, and its standard input.         *)
OptionsOf(asked) ==
    LET given == asked.given
        defaults == asked.defaults
        has(name) == Set(given, defaults, name)
        files == Values(given, "file")
    IN  [asked |-> asked, ends |-> EndsWith(given, defaults),
         sources |-> IF files = << >> THEN <<asked.stdin>> ELSE files,
         override |-> Selected(given, defaults, "fix"),
         customs |-> Merged(given, defaults, "xml"),
         commands |-> Commands(given, defaults),
         layout |-> {name \in {"column", "verbose", "header", "trailer"} : has(name)},
         style |-> Restyled(Restyled(DefaultStyle(asked.terminal), defaults), given),
         colour |-> Selected(given, defaults, "colour"),
         follow |-> has("follow"), validate |-> has("validate"), secret |-> has("secret"),
         summary |-> has("summary"), count |-> ~has("nocounts"), nowrap |-> has("nowrap"),
         paging |-> Selected(given, defaults, "paging") # "no",
         takes_files |-> TakesFiles(PagerCommand(Selected(given, defaults, "pager"),
                                                 asked.pager)),
         terminal |-> asked.terminal]
-----------------------------------------------------------------------------
(* Defaults and command line as one: what is given takes the place of the  *)
(* default, and --xml adds to it.                                          *)
Stays(given, name) == name # "pager-help" /\ (name = "xml" \/ ~Explicit(given, name))
Remaining(defaults, given) ==
    FlattenSeq([k \in DOMAIN defaults |->
        IF Stays(given, defaults[k].name) THEN <<defaults[k]>> ELSE << >>])
AsOne(asked) ==
    [asked EXCEPT !.defaults = << >>, !.given = Remaining(asked.defaults, asked.given) \o @]
=============================================================================
