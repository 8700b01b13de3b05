-------------------------- MODULE DictionaryCache ---------------------------
(***************************************************************************)
(* The dictionaries that all threads share (tag_lookup.rs): one of each    *)
(* schema, built from the embedded XML by the first thread that needs it   *)
(* unless --xml registered another, and one of each pair of an override    *)
(* (--fix) and the schema a message is in, the second filling the gaps of  *)
(* the first.  A dictionary is built without the lock, so two threads may  *)
(* build the same one, and all must go on with the one that was stored.    *)
(***************************************************************************)
EXTENDS Integers

CONSTANTS Threads,
          Starter,       \* the thread that registers dictionaries, before the others run
          NoKey,         \* no schema key
          NoDictionary   \* no dictionary

ASSUME CacheAssumption == Starter \notin Threads

VARIABLES lookups,  \* schema key -> its dictionary, of those there are
          combos,   \* <<override, detected>> -> the merged dictionary
          call      \* thread -> the resolution it is in

cacheVars == <<lookups, combos, call>>

EmbeddedKeys == {"FIX27", "FIX30", "FIX40", "FIX41", "FIX42", "FIX43", "FIX44",
                 "FIX50", "FIX50SP1", "FIX50SP2", "FIXT11"}
SessionUsers == {"FIX50", "FIX50SP1", "FIX50SP2"}
SessionKey == "FIXT11"
DefaultKey == "FIX44"

(* Two dictionaries of one key differ in who built them, and from what.    *)
Built(thread, key, session) ==
    [key |-> key, custom |-> FALSE, by |-> thread, fallback |-> session]
Custom(key, session) == [Built(Starter, key, session) EXCEPT !.custom = TRUE]
Merged(thread, primary, fallback) ==
    [key |-> primary.key, by |-> thread, primary |-> primary, fallback |-> fallback]

With(map, key, dict) ==
    [k \in DOMAIN map \cup {key} |-> IF k = key THEN dict ELSE map[k]]
StoredAnyway(key, dict) == With(lookups, key, dict)
Stored(key, dict) == IF key \in DOMAIN lookups THEN lookups ELSE With(lookups, key, dict)

Idle == [at |-> "idle", goal |-> "none", key |-> NoKey, override |-> NoKey,
         detected |-> NoKey, primary |-> NoDictionary, found |-> NoDictionary]

CacheInit ==
    /\ lookups = [k \in {} |-> NoDictionary]
    /\ combos = [k \in {} |-> NoDictionary]
    /\ call = [t \in Threads |-> Idle]
-----------------------------------------------------------------------------
(* The dictionary of an XML file takes the place of the one there is, and  *)
(* of every pair with it.  One that needs the session dictionary gets the  *)
(* one there is now.                                                       *)
RegisterDictionary(key) ==
    LET session == Stored(SessionKey, Built(Starter, SessionKey, NoDictionary))
        base    == IF key \in SessionUsers THEN session ELSE lookups
        inner   == IF key \in SessionUsers THEN session[SessionKey] ELSE NoDictionary
    IN  /\ lookups' = With(base, key, Custom(key, inner))
        /\ combos' = [p \in {q \in DOMAIN combos : key \notin {q[1], q[2]}} |-> combos[p]]
        /\ UNCHANGED call

(* A resolution begins with the pair, or with the detected schema.         *)
Resolve(t, override, detected) ==
    /\ call[t].at = "idle"
    /\ call' = [call EXCEPT ![t] =
           IF override # NoKey
           THEN [Idle EXCEPT !.at = "combo", !.override = override, !.detected = detected]
           ELSE [Idle EXCEPT !.at = "look", !.goal = "detected", !.key = detected,
                             !.detected = detected]]

Asking(c, goal, key) == [c EXCEPT !.at = "look", !.goal = goal, !.key = key]
Answered(c, dict) == [c EXCEPT !.at = "answered", !.found = dict]

(* A dictionary, or none, was got for the goal of a call.  An override     *)
(* without a dictionary is ignored with a warning; a schema without one    *)
(* is read as FIX44.                                                       *)
Got(c, dict) ==
    CASE c.goal = "override" /\ dict = NoDictionary -> Asking(c, "detected", c.detected)
      [] c.goal = "override" /\ dict # NoDictionary ->
             Asking([c EXCEPT !.primary = dict], "fallback", c.detected)
      [] c.goal # "override" /\ dict = NoDictionary -> Asking(c, c.goal, DefaultKey)
      [] c.goal = "detected" /\ dict # NoDictionary -> Answered(c, dict)
      [] c.goal = "fallback" /\ dict # NoDictionary ->
             IF c.primary = dict THEN Answered(c, dict)
                                 ELSE [c EXCEPT !.at = "merge", !.found = dict]

LookCombo(t) ==
    LET c    == call[t]
        pair == <<c.override, c.detected>>
    IN  /\ c.at = "combo"
        /\ call' = [call EXCEPT ![t] = IF pair \in DOMAIN combos
                                       THEN Answered(c, combos[pair])
                                       ELSE Asking(c, "override", c.override)]
        /\ UNCHANGED <<lookups, combos>>

(* What get_dictionary does under the read lock: the dictionary there is,  *)
(* nothing for an unknown key, or a build that first needs the session's.  *)
Look(t) ==
    LET c == call[t]
    IN  /\ c.at = "look"
        /\ call' = [call EXCEPT ![t] =
               IF c.key \in DOMAIN lookups THEN Got(c, lookups[c.key])
               ELSE IF c.key \notin EmbeddedKeys THEN Got(c, NoDictionary)
               ELSE IF c.key \in SessionUsers THEN [c EXCEPT !.at = "session"]
               ELSE [c EXCEPT !.at = "insert", !.found = NoDictionary]]
        /\ UNCHANGED <<lookups, combos>>

LookSession(t) ==
    LET c == call[t]
    IN  /\ c.at = "session"
        /\ call' = [call EXCEPT ![t] =
               IF SessionKey \in DOMAIN lookups
               THEN [c EXCEPT !.at = "insert", !.found = lookups[SessionKey]]
               ELSE [c EXCEPT !.at = "insertSession"]]
        /\ UNCHANGED <<lookups, combos>>

InsertSession(t) ==
    LET c == call[t]
    IN  /\ c.at = "insertSession"
        /\ lookups' = Stored(SessionKey, Built(t, SessionKey, NoDictionary))
        /\ call' = [call EXCEPT ![t] = [c EXCEPT !.at = "insert",
                                                 !.found = lookups'[SessionKey]]]
        /\ UNCHANGED combos

(* Under the write lock: the dictionary just built is stored, unless       *)
(* another was stored meanwhile, which is then the one to use.             *)
Insert(t) ==
    LET c == call[t]
    IN  /\ c.at = "insert"
        /\ lookups' = Stored(c.key, Built(t, c.key, c.found))
        /\ call' = [call EXCEPT ![t] = Got(c, lookups'[c.key])]
        /\ UNCHANGED combos

StoreCombo(t) ==
    LET c    == call[t]
        dict == Merged(t, c.primary, c.found)
    IN  /\ c.at = "merge"
        /\ combos' = With(combos, <<c.override, c.detected>>, dict)
        /\ call' = [call EXCEPT ![t] = Answered(c, dict)]
        /\ UNCHANGED lookups

CacheStep(t) == \/ LookCombo(t)
                \/ Look(t)
                \/ LookSession(t)
                \/ InsertSession(t)
                \/ Insert(t)
                \/ StoreCombo(t)

(* Dictionaries are registered before a thread has asked for one.          *)
Fresh ==
    /\ \A t \in Threads : call[t] = Idle
    /\ \A k \in DOMAIN lookups : lookups[k].by = Starter
    /\ DOMAIN combos = {}

CacheNext ==
    \/ Fresh /\ \E key : RegisterDictionary(key)
    \/ \E t \in Threads :
           \/ CacheStep(t)
           \/ (\E o, d : Resolve(t, o, d)) /\ UNCHANGED <<lookups, combos>>
           \/ call' = [call EXCEPT ![t] = Idle] /\ UNCHANGED <<lookups, combos>>

CacheSpec == CacheInit /\ [][CacheNext]_cacheVars
-----------------------------------------------------------------------------
IsMerged(dict) == "primary" \in DOMAIN dict

(* A dictionary that is the one of its key now; of a merged one, both      *)
(* parts are, and differ.                                                  *)
Current(dict) ==
    IF IsMerged(dict)
    THEN /\ dict.primary # dict.fallback
         /\ \A part \in {dict.primary, dict.fallback} :
                part.key \in DOMAIN lookups /\ part = lookups[part.key]
    ELSE dict.key \in DOMAIN lookups /\ dict = lookups[dict.key]

(* However the threads race to build them, they all decode with the same   *)
(* dictionary of a schema, the one of --xml where there is one, and no     *)
(* dictionary is merged with itself.  A thread that went on with its own   *)
(* build would not see that two of them are the same.                      *)
OneDictionary ==
    /\ \A p \in DOMAIN combos : Current(combos[p])
    /\ \A t \in Threads :
           LET c == call[t]
           IN  /\ c.primary # NoDictionary => Current(c.primary)
               /\ c.found # NoDictionary => Current(c.found)
    /\ \A k \in DOMAIN lookups :
           /\ lookups[k].key = k
           /\ lookups[k].by \in Threads =>
                  lookups[k].fallback = IF k \in SessionUsers THEN lookups[SessionKey]
                                                              ELSE NoDictionary
=============================================================================
