------------------------ MODULE FileProcessingProofs ------------------------
(***************************************************************************)
(* A schema has one dictionary, whatever the threads do: first of the      *)
(* cache alone (CacheSpec), then of the program that uses it, each step of *)
(* which is one of the cache or leaves it alone.  Then the types of the    *)
(* program's state; that the counts it shows at its end are those of what  *)
(* it decoded; that the command line comes before the defaults of the      *)
(* environment; and that the output grows as FileOutput says.              *)
(***************************************************************************)
EXTENDS FileProcessingInvariants, Induction

LEMMA BuiltIsPlain ==
  ASSUME NEW t, NEW k, NEW s
  PROVE  /\ Built(t, k, s).key = k /\ Built(t, k, s).by = t /\ Built(t, k, s).fallback = s
         /\ ~IsMerged(Built(t, k, s))
         /\ Custom(k, s).key = k /\ Custom(k, s).by = Starter
         /\ ~IsMerged(Custom(k, s))
BY DEF Built, Custom, IsMerged

LEMMA IdleOK == CallOK(Idle) /\ CallOK(Idle)'
BY DEF CallOK, Idle, CallSteps, Getting, RemembersSession

(* The invariant implies what is promised.                                 *)
LEMMA InvariantSuffices == CacheInv => OneDictionary
BY DEF CacheInv, LookupsOK, CombosOK, CallOK, WholeDict, OneDictionary

LEMMA CurrentStays ==
  ASSUME Grows, NEW dict, Current(dict)
  PROVE  Current(dict)'
BY DEF Grows, Current, IsMerged

LEMMA CallStays ==
  ASSUME Grows, NEW c, CallOK(c)
  PROVE  CallOK(c)'
<1>1. \A d : Current(d) => Current(d)'
  BY CurrentStays
<1>2. \A d : WholeDict(d) => WholeDict(d)'
  BY <1>1 DEF WholeDict, IsMerged
<1>3. RemembersSession(c) => RemembersSession(c)'
  BY DEF RemembersSession, Grows
<1> QED
  BY <1>1, <1>2, <1>3 DEF CallOK

(* Storing a dictionary that is new in the cache, or was there already.    *)
LEMMA StoringGrows ==
  ASSUME NEW key, NEW dict, lookups' = Stored(key, dict)
  PROVE  /\ Grows
         /\ key \in DOMAIN lookups'
         /\ DOMAIN lookups' = DOMAIN lookups \cup {key}
         /\ key \notin DOMAIN lookups => lookups'[key] = dict
BY DEF Stored, With, Grows

(* What a thread does with what it got, now or in the next state.          *)
LEMMA WholeInCache ==
  ASSUME LookupsOK, NEW k \in DOMAIN lookups
  PROVE  WholeDict(lookups[k])
BY DEF LookupsOK, WholeDict, Current

LEMMA GotOK ==
  ASSUME NEW c, CallOK(c)', c.at \in Getting,
         NEW dict, dict = NoDictionary \/ WholeDict(dict)'
  PROVE  CallOK(Got(c, dict))'
<1> DEFINE known == dict # NoDictionary
<1> USE DEF CallOK, Asking, Answered, CallSteps, Getting, RemembersSession
<1>1. CASE c.goal = "override" /\ ~known
  <2>1. Got(c, dict) = Asking(c, "detected", c.detected)
    BY <1>1 DEF Got
  <2> QED BY <2>1
<1>2. CASE c.goal = "override" /\ known
  <2>1. Got(c, dict) = Asking([c EXCEPT !.primary = dict], "fallback", c.detected)
    BY <1>2 DEF Got
  <2> QED BY <2>1, <1>2
<1>3. CASE c.goal # "override" /\ ~known
  <2>1. Got(c, dict) = Asking(c, c.goal, DefaultKey)
    BY <1>3 DEF Got
  <2> QED BY <2>1
<1>4. CASE c.goal = "detected" /\ known
  <2>1. Got(c, dict) = Answered(c, dict)
    BY <1>4 DEF Got
  <2> QED BY <2>1, <1>4 DEF WholeDict
<1>5. CASE c.goal = "fallback" /\ known
  <2>1. Got(c, dict) = IF c.primary = dict THEN Answered(c, dict)
                       ELSE [c EXCEPT !.at = "merge", !.found = dict]
    BY <1>5 DEF Got
  <2>2. CASE c.primary = dict
    BY <2>1, <2>2, <1>5 DEF WholeDict
  <2>3. CASE c.primary # dict
    BY <2>1, <2>3, <1>5 DEF WholeDict
  <2> QED BY <2>2, <2>3
<1> QED BY <1>1, <1>2, <1>3, <1>4, <1>5

(* A step of one thread, by what it leaves in the cache and in its call.   *)
LEMMA ThreadStep ==
  ASSUME CacheInv, Grows, LookupsOK', CombosOK', NEW t \in Threads, NEW c, CallOK(c)',
         call' = [call EXCEPT ![t] = c]
  PROVE  CacheInv'
<1>1. DOMAIN call' = Threads
  BY DEF CacheInv
<1>2. ASSUME NEW u \in Threads PROVE CallOK(call[u])'
  <2>1. PICK d : d = call'[u]
    OBVIOUS
  <2>2. CallOK(d)'
    <3>1. CASE u = t
      BY <2>1, <3>1 DEF CacheInv
    <3>2. CASE u # t
      <4>1. d = call[u] /\ CallOK(call[u])
        BY <2>1, <3>2 DEF CacheInv
      <4> QED BY <4>1, CallStays
    <3> QED BY <3>1, <3>2
  <2> QED BY <2>1, <2>2
<1> QED BY <1>1, <1>2 DEF CacheInv

LEMMA UnchangedGrows == UNCHANGED lookups => Grows
BY DEF Grows

(* A dictionary built with the session's that is stored is stored.         *)
LEMMA StoredIsOK ==
  ASSUME LookupsOK, NEW t, NEW key, NEW session,
         key \in SessionUsers => SessionKey \in DOMAIN lookups,
         session = IF key \in SessionUsers THEN lookups[SessionKey] ELSE NoDictionary,
         lookups' = Stored(key, Built(t, key, session))
  PROVE  LookupsOK'
<1> DEFINE dict == Built(t, key, session)
<1>1. dict.key = key /\ dict.fallback = session /\ ~IsMerged(dict)
  BY BuiltIsPlain
<1>2. Grows /\ key \in DOMAIN lookups' /\ DOMAIN lookups' = DOMAIN lookups \cup {key}
      /\ (key \notin DOMAIN lookups => lookups'[key] = dict)
  BY StoringGrows
<1> HIDE DEF dict
<1>3. ASSUME NEW k \in DOMAIN lookups'
      PROVE  /\ lookups'[k].key = k
             /\ ~IsMerged(lookups'[k])
             /\ lookups'[k].by \in Threads =>
                    /\ k \in SessionUsers => SessionKey \in DOMAIN lookups'
                    /\ lookups'[k].fallback = IF k \in SessionUsers THEN lookups'[SessionKey]
                                                                     ELSE NoDictionary
  <2>1. CASE k \in DOMAIN lookups
    BY <1>2, <2>1 DEF LookupsOK, Grows
  <2>2. CASE k \notin DOMAIN lookups
    <3>1. k = key /\ lookups'[k] = dict
      BY <1>2, <2>2
    <3> QED BY <1>1, <1>2, <3>1 DEF Grows
  <2> QED BY <2>1, <2>2
<1> QED BY <1>3 DEF LookupsOK, IsMerged

LEMMA CombosStay ==
  ASSUME CombosOK, Grows, UNCHANGED combos
  PROVE  CombosOK'
BY CurrentStays DEF CombosOK

LEMMA LookupsStay ==
  ASSUME LookupsOK, UNCHANGED lookups
  PROVE  LookupsOK'
BY DEF LookupsOK, IsMerged

(* The steps of a thread, one lemma for each kind of step.                 *)
LEMMA ReadingStep ==
  ASSUME CacheInv, UNCHANGED <<lookups, combos>>, NEW t \in Threads, NEW c, CallOK(c)',
         call' = [call EXCEPT ![t] = c]
  PROVE  CacheInv'
<1>1. Grows
  BY UnchangedGrows
<1>2. LookupsOK' /\ CombosOK'
  BY <1>1, LookupsStay, CombosStay DEF CacheInv
<1> QED BY <1>1, <1>2, ThreadStep

LEMMA LookComboKeeps ==
  ASSUME CacheInv, NEW t \in Threads, LookCombo(t)
  PROVE  CacheInv'
<1>1. PICK c : c = call[t]
  OBVIOUS
<1>2. Grows /\ c.at = "combo"
  BY <1>1, UnchangedGrows DEF LookCombo
<1>3. CallOK(c)'
  BY <1>1, <1>2, CallStays DEF CacheInv
<1> DEFINE pair == <<c.override, c.detected>>
<1>4. CallOK(Asking(c, "override", c.override))'
  BY <1>2, <1>3 DEF CallOK, Asking, CallSteps, Getting, RemembersSession
<1>5. ASSUME pair \in DOMAIN combos
      PROVE  CallOK(Answered(c, combos[pair]))'
  <2>1. PICK d : d = combos[pair]
    OBVIOUS
  <2>2. Current(d)'
    <3>1. Current(d)
      BY <1>5, <2>1 DEF CacheInv, CombosOK
    <3> QED BY <1>2, <3>1, CurrentStays
  <2>3. combos' = combos
    BY DEF LookCombo
  <2>4. CallOK(Answered(c, d))'
    BY <1>3, <2>2 DEF CallOK, Answered, CallSteps, Getting, RemembersSession
  <2> QED BY <2>1, <2>3, <2>4
<1>6. PICK d : d = IF pair \in DOMAIN combos THEN Answered(c, combos[pair])
                                             ELSE Asking(c, "override", c.override)
  OBVIOUS
<1>7. CallOK(d)'
  <2>1. combos' = combos
    BY DEF LookCombo
  <2> QED BY <1>4, <1>5, <1>6, <2>1
<1>8. call' = [call EXCEPT ![t] = d] /\ UNCHANGED <<lookups, combos>>
  BY <1>1, <1>6 DEF LookCombo
<1> QED BY <1>7, <1>8, ReadingStep

LEMMA LookKeeps ==
  ASSUME CacheInv, NEW t \in Threads, Look(t)
  PROVE  CacheInv'
<1>1. PICK c : c = call[t]
  OBVIOUS
<1>2. Grows /\ c.at = "look"
  BY <1>1, UnchangedGrows DEF Look
<1>3. CallOK(c)'
  BY <1>1, <1>2, CallStays DEF CacheInv
<1>4. PICK d : d = IF c.key \in DOMAIN lookups THEN Got(c, lookups[c.key])
                   ELSE IF c.key \notin EmbeddedKeys THEN Got(c, NoDictionary)
                   ELSE IF c.key \in SessionUsers THEN [c EXCEPT !.at = "session"]
                   ELSE [c EXCEPT !.at = "insert", !.found = NoDictionary]
  OBVIOUS
<1>5. CallOK(d)'
  <2>1. CASE c.key \in DOMAIN lookups
    <3>1. PICK dict : dict = lookups[c.key]
      OBVIOUS
    <3>2. lookups' = lookups /\ WholeDict(dict)
      BY <2>1, <3>1, WholeInCache DEF Look, CacheInv
    <3>3. WholeDict(dict)'
      BY <1>2, <3>2, CurrentStays DEF WholeDict, IsMerged
    <3>4. CallOK(Got(c, dict))'
      BY <1>2, <1>3, <3>3, GotOK DEF Getting
    <3> QED BY <1>4, <2>1, <3>1, <3>4
  <2>2. CASE c.key \notin DOMAIN lookups /\ c.key \notin EmbeddedKeys
    BY <1>2, <1>3, <1>4, <2>2, GotOK DEF Getting
  <2>3. CASE c.key \notin DOMAIN lookups /\ c.key \in EmbeddedKeys /\ c.key \in SessionUsers
    BY <1>2, <1>3, <1>4, <2>3 DEF CallOK, CallSteps, Getting, RemembersSession
  <2>4. CASE c.key \notin DOMAIN lookups /\ c.key \in EmbeddedKeys /\ c.key \notin SessionUsers
    BY <1>2, <1>3, <1>4, <2>4 DEF CallOK, CallSteps, Getting, RemembersSession
  <2> QED BY <2>1, <2>2, <2>3, <2>4
<1>6. call' = [call EXCEPT ![t] = d] /\ UNCHANGED <<lookups, combos>>
  BY <1>1, <1>4 DEF Look
<1> QED BY <1>5, <1>6, ReadingStep

LEMMA LookSessionKeeps ==
  ASSUME CacheInv, NEW t \in Threads, LookSession(t)
  PROVE  CacheInv'
<1>1. PICK c : c = call[t]
  OBVIOUS
<1>2. Grows /\ c.at = "session" /\ lookups' = lookups
  BY <1>1, UnchangedGrows DEF LookSession
<1>3. CallOK(c)'
  BY <1>1, <1>2, CallStays DEF CacheInv
<1>4. PICK d : d = IF SessionKey \in DOMAIN lookups
                   THEN [c EXCEPT !.at = "insert", !.found = lookups[SessionKey]]
                   ELSE [c EXCEPT !.at = "insertSession"]
  OBVIOUS
<1>5. CallOK(d)'
  <2>1. CASE SessionKey \in DOMAIN lookups
    <3>1. PICK dict : dict = lookups[SessionKey]
      OBVIOUS
    <3>2. WholeDict(dict)
      BY <2>1, <3>1, WholeInCache DEF CacheInv
    <3>3. WholeDict(dict)'
      BY <1>2, <3>2, CurrentStays DEF WholeDict, IsMerged
    <3>4. c.key \in SessionUsers
      BY <1>2, <1>3 DEF CallOK, RemembersSession
    <3>5. d = [c EXCEPT !.at = "insert", !.found = dict]
      BY <1>4, <2>1, <3>1
    <3> QED BY <1>2, <1>3, <2>1, <3>1, <3>3, <3>4, <3>5
            DEF CallOK, WholeDict, CallSteps, Getting, RemembersSession
  <2>2. CASE SessionKey \notin DOMAIN lookups
    BY <1>2, <1>3, <1>4, <2>2 DEF CallOK, CallSteps, Getting, RemembersSession
  <2> QED BY <2>1, <2>2
<1>6. call' = [call EXCEPT ![t] = d] /\ UNCHANGED <<lookups, combos>>
  BY <1>1, <1>4 DEF LookSession
<1> QED BY <1>5, <1>6, ReadingStep

LEMMA InsertSessionKeeps ==
  ASSUME CacheInv, NEW t \in Threads, InsertSession(t)
  PROVE  CacheInv'
<1>1. PICK c : c = call[t]
  OBVIOUS
<1>2. lookups' = Stored(SessionKey, Built(t, SessionKey, NoDictionary)) /\ combos' = combos
  BY DEF InsertSession
<1>3. Grows /\ SessionKey \in DOMAIN lookups'
  BY <1>2, StoringGrows
<1>4. LookupsOK'
  <2>1. SessionKey \notin SessionUsers
    BY DEF SessionKey, SessionUsers
  <2> QED BY <1>2, <2>1, StoredIsOK DEF CacheInv
<1>5. CombosOK'
  BY <1>2, <1>3, CombosStay DEF CacheInv
<1>6. c.at = "insertSession" /\ CallOK(c)'
  BY <1>1, <1>3, CallStays DEF CacheInv, InsertSession
<1>7. PICK dict : dict = lookups'[SessionKey]
  OBVIOUS
<1>8. WholeDict(dict)'
  BY <1>3, <1>4, <1>7 DEF LookupsOK, WholeDict, Current, IsMerged
<1>9. CallOK([c EXCEPT !.at = "insert", !.found = dict])'
  BY <1>3, <1>6, <1>7, <1>8 DEF CallOK, WholeDict, CallSteps, Getting, RemembersSession
<1>10. call' = [call EXCEPT ![t] = [c EXCEPT !.at = "insert", !.found = dict]]
  BY <1>1, <1>7 DEF InsertSession
<1> QED BY <1>3, <1>4, <1>5, <1>9, <1>10, ThreadStep

LEMMA InsertKeeps ==
  ASSUME CacheInv, NEW t \in Threads, Insert(t)
  PROVE  CacheInv'
<1>1. PICK c : c = call[t]
  OBVIOUS
<1>2. lookups' = Stored(c.key, Built(t, c.key, c.found)) /\ combos' = combos
  BY <1>1 DEF Insert
<1>3. Grows /\ c.key \in DOMAIN lookups'
  BY <1>2, StoringGrows
<1>4. c.at = "insert" /\ CallOK(c) /\ CallOK(c)'
  BY <1>1, <1>3, CallStays DEF CacheInv, Insert
<1>5. LookupsOK'
  <2>1. /\ c.key \in SessionUsers => SessionKey \in DOMAIN lookups
        /\ c.found = IF c.key \in SessionUsers THEN lookups[SessionKey] ELSE NoDictionary
    BY <1>4 DEF CallOK, RemembersSession
  <2> QED BY <1>2, <2>1, StoredIsOK DEF CacheInv
<1>6. CombosOK'
  BY <1>2, <1>3, CombosStay DEF CacheInv
<1>7. PICK dict : dict = lookups'[c.key]
  OBVIOUS
<1>8. WholeDict(dict)'
  BY <1>3, <1>5, <1>7 DEF LookupsOK, WholeDict, Current, IsMerged
<1>9. CallOK(Got(c, dict))'
  BY <1>4, <1>8, GotOK DEF Getting
<1>10. PICK d : d = Got(c, dict)
  OBVIOUS
<1>11. call' = [call EXCEPT ![t] = d]
  BY <1>1, <1>7, <1>10 DEF Insert
<1> QED BY <1>3, <1>5, <1>6, <1>9, <1>10, <1>11, ThreadStep

LEMMA StoreComboKeeps ==
  ASSUME CacheInv, NEW t \in Threads, StoreCombo(t)
  PROVE  CacheInv'
<1>1. PICK c : c = call[t]
  OBVIOUS
<1>2. PICK dict : dict = Merged(t, c.primary, c.found)
  OBVIOUS
<1>3. /\ c.at = "merge" /\ lookups' = lookups
      /\ combos' = With(combos, <<c.override, c.detected>>, dict)
      /\ call' = [call EXCEPT ![t] = Answered(c, dict)]
  BY <1>1, <1>2 DEF StoreCombo
<1>4. Grows /\ LookupsOK'
  BY <1>3, UnchangedGrows, LookupsStay DEF CacheInv
<1>5. CallOK(c) /\ CallOK(c)'
  BY <1>1, <1>4, CallStays DEF CacheInv
<1>6. Current(dict)
  <2>1. IsMerged(dict) /\ dict.primary = c.primary /\ dict.fallback = c.found
    BY <1>2 DEF Merged, IsMerged
  <2>2. WholeDict(c.primary) /\ WholeDict(c.found) /\ c.primary # c.found
    BY <1>3, <1>5 DEF CallOK
  <2> QED BY <2>1, <2>2 DEF Current, WholeDict
<1>7. Current(dict)'
  BY <1>4, <1>6, CurrentStays
<1>8. CombosOK'
  <2>1. ASSUME NEW p \in DOMAIN combos' PROVE Current(combos[p])'
    <3>1. PICK d : d = combos'[p]
      OBVIOUS
    <3>2. d = dict \/ Current(d)
      BY <1>3, <2>1, <3>1 DEF With, CacheInv, CombosOK
    <3>3. Current(d)'
      BY <1>4, <1>7, <3>2, CurrentStays
    <3> QED BY <3>1, <3>3
  <2> QED BY <2>1 DEF CombosOK
<1>9. CallOK(Answered(c, dict))'
  BY <1>5, <1>7 DEF CallOK, Answered, CallSteps, Getting, RemembersSession
<1>10. PICK d : d = Answered(c, dict)
  OBVIOUS
<1> QED BY <1>3, <1>4, <1>8, <1>9, <1>10, ThreadStep

LEMMA RegisterKeeps ==
  ASSUME Fresh, CacheInv, NEW key, RegisterDictionary(key)
  PROVE  CacheInv' /\ Fresh'
<1> DEFINE session == Stored(SessionKey, Built(Starter, SessionKey, NoDictionary))
           base    == IF key \in SessionUsers THEN session ELSE lookups
           inner   == IF key \in SessionUsers THEN session[SessionKey] ELSE NoDictionary
<1>1. /\ lookups' = With(base, key, Custom(key, inner))
      /\ combos' = [p \in {q \in DOMAIN combos : key \notin {q[1], q[2]}} |-> combos[p]]
      /\ call' = call
  BY DEF RegisterDictionary
<1>2. DOMAIN combos' = {} /\ CombosOK'
  BY <1>1 DEF Fresh, CombosOK
<1>3. \A k \in DOMAIN lookups : lookups[k].key = k /\ ~IsMerged(lookups[k]) /\ lookups[k].by = Starter
  BY DEF CacheInv, LookupsOK, Fresh
<1>4. \A k \in DOMAIN session : session[k].key = k /\ ~IsMerged(session[k]) /\ session[k].by = Starter
  BY <1>3, BuiltIsPlain DEF Stored, With
<1>5. \A k \in DOMAIN base : base[k].key = k /\ ~IsMerged(base[k]) /\ base[k].by = Starter
  BY <1>3, <1>4
<1>6. \A k \in DOMAIN lookups' :
         lookups'[k].key = k /\ ~IsMerged(lookups'[k]) /\ lookups'[k].by = Starter
  <2> HIDE DEF base, inner
  <2> QED BY <1>1, <1>5, BuiltIsPlain DEF With
<1>7. LookupsOK'
  BY <1>6, CacheAssumption DEF LookupsOK, IsMerged
<1>8. \A t \in Threads : call'[t] = Idle
  BY <1>1 DEF Fresh
<1>9. ASSUME NEW t \in Threads PROVE CallOK(call[t])'
  BY <1>8, IdleOK
<1>10. DOMAIN call' = Threads
  BY <1>1 DEF CacheInv
<1> QED BY <1>2, <1>6, <1>7, <1>8, <1>9, <1>10 DEF CacheInv, Fresh

LEMMA ResolveKeeps ==
  ASSUME CacheInv, NEW t \in Threads, NEW override, NEW detected,
         Resolve(t, override, detected), UNCHANGED <<lookups, combos>>
  PROVE  CacheInv'
<1>1. PICK c : c = IF override # NoKey
           THEN [Idle EXCEPT !.at = "combo", !.override = override, !.detected = detected]
           ELSE [Idle EXCEPT !.at = "look", !.goal = "detected", !.key = detected,
                             !.detected = detected]
  OBVIOUS
<1>2. CallOK(c)'
  BY <1>1 DEF CallOK, Idle, CallSteps, Getting, RemembersSession
<1>3. call' = [call EXCEPT ![t] = c]
  BY <1>1 DEF Resolve
<1> QED BY <1>2, <1>3, ReadingStep

LEMMA CacheStepKeeps ==
  ASSUME CacheInv, NEW t \in Threads, CacheStep(t)
  PROVE  CacheInv'
BY LookComboKeeps, LookKeeps, LookSessionKeeps, InsertSessionKeeps, InsertKeeps, StoreComboKeeps
   DEF CacheStep

LEMMA CacheInitOK == CacheInit => CacheInv
<1> SUFFICES ASSUME CacheInit PROVE CacheInv
  OBVIOUS
<1>1. \A t \in Threads : CallOK(call[t])
  BY IdleOK DEF CacheInit
<1> QED BY <1>1 DEF CacheInit, CacheInv, LookupsOK, CombosOK

LEMMA CacheNextKeeps == CacheInv /\ [CacheNext]_cacheVars => CacheInv'
<1> SUFFICES ASSUME CacheInv, [CacheNext]_cacheVars PROVE CacheInv'
  OBVIOUS
<1>1. CASE Fresh /\ \E key : RegisterDictionary(key)
  BY <1>1, RegisterKeeps
<1>2. ASSUME NEW t \in Threads, CacheStep(t) PROVE CacheInv'
  BY <1>2, CacheStepKeeps
<1>3. ASSUME NEW t \in Threads, \E o, d : Resolve(t, o, d), UNCHANGED <<lookups, combos>>
      PROVE CacheInv'
  BY <1>3, ResolveKeeps
<1>4. ASSUME NEW t \in Threads, call' = [call EXCEPT ![t] = Idle], UNCHANGED <<lookups, combos>>
      PROVE CacheInv'
  BY <1>4, IdleOK, ReadingStep
<1>5. CASE UNCHANGED cacheVars
  <2>1. Grows /\ LookupsOK' /\ CombosOK' /\ DOMAIN call' = Threads
    BY <1>5, UnchangedGrows, LookupsStay, CombosStay DEF cacheVars, CacheInv
  <2>2. ASSUME NEW t \in Threads PROVE CallOK(call[t])'
    <3>1. PICK c : c = call[t]
      OBVIOUS
    <3>2. CallOK(c)' /\ call' = call
      BY <1>5, <2>1, <3>1, CallStays DEF CacheInv, cacheVars
    <3> QED BY <3>1, <3>2
  <2> QED BY <2>1, <2>2 DEF CacheInv
<1> QED BY <1>1, <1>2, <1>3, <1>4, <1>5 DEF CacheNext

(* A cache that is used as it is meant to be has one dictionary of a       *)
(* schema.                                                                 *)
THEOREM CacheIsConsistent == CacheSpec => []OneDictionary
<1>1. CacheSpec => []CacheInv
  BY CacheInitOK, CacheNextKeeps, PTL DEF CacheSpec
<1> QED BY <1>1, InvariantSuffices, PTL

-----------------------------------------------------------------------------
LEMMA ProgramInitOK == Init => ProgramInv
BY DEF Init, CacheInit, ProgramInv, Unread, Fresh, NewTask

(* Each step is one of the cache, or leaves it alone.                      *)
LEMMA StepUsesCache ==
  ASSUME ProgramInv, CacheInv, [Next]_vars
  PROVE  [CacheNext]_cacheVars
<1> USE DEF cacheVars
<1>0. Sources \subseteq Threads
  BY ThreadsAssumption DEF ProgramInv, Sources
<1>1. ASSUME Register PROVE [CacheNext]_cacheVars
  <2>1. CASE UNCHANGED cacheVars
    BY <2>1
  <2>2. CASE \E key : RegisterDictionary(key)
    BY <1>1, <2>2 DEF Register, CacheNext, ProgramInv, Loading
  <2> QED BY <1>1, <2>1, <2>2 DEF Register
<1>2. ASSUME ReadOptions \/ Begin \/ Answer \/ EmitFile \/ Close \/ Exit \/ Interrupt \/ QuitPager
      PROVE  UNCHANGED cacheVars
  BY <1>2 DEF ReadOptions, Begin, Answer, EmitFile, Close, Exit, Interrupt, QuitPager
<1>3. ASSUME NEW i \in Sources, TaskStep(i) \/ Arrive(i)
      PROVE  [CacheNext]_cacheVars
  <2>1. CASE OpenSource(i) \/ TakeLine(i) \/ FinishLine(i) \/ LiveCounts(i) \/ EndSource(i)
             \/ Arrive(i)
    BY <2>1 DEF OpenSource, TakeLine, FinishLine, LiveCounts, EndSource, Arrive
  <2>2. CASE AskDictionary(i)
    BY <1>0, <2>2 DEF AskDictionary, CacheNext
  <2>3. CASE FindDictionary(i)
    BY <1>0, <2>3 DEF FindDictionary, CacheNext
  <2>4. CASE TakeDictionary(i)
    BY <1>0, <2>4 DEF TakeDictionary, CacheNext
  <2> QED BY <1>3, <2>1, <2>2, <2>3, <2>4 DEF TaskStep
<1>4. CASE UNCHANGED vars
  BY <1>4 DEF vars
<1> QED BY <1>1, <1>2, <1>3, <1>4 DEF Next, MainStep

LEMMA ProgramStepOK ==
  ASSUME ProgramInv, CacheInv, [Next]_vars
  PROVE  ProgramInv'
<1>1. opts' = opts
  BY DEF Next, vars, fileVars, MainStep, TaskStep, ReadOptions, Register, Begin, Answer,
         EmitFile, Close, Exit, Interrupt, QuitPager, OpenSource, TakeLine, AskDictionary, FindDictionary,
         TakeDictionary, FinishLine, LiveCounts, EndSource, Arrive
<1>2. CASE ~Loading'
  BY <1>1, <1>2 DEF ProgramInv
<1>3. CASE Loading'
  <2>1. Loading
    BY <1>3 DEF Next, vars, fileVars, MainStep, TaskStep, ReadOptions, Register, Begin, Answer,
         EmitFile, Close, Exit, Ends, Goes, Loading, Interrupt, QuitPager, OpenSource, TakeLine, AskDictionary, FindDictionary,
         TakeDictionary, FinishLine, LiveCounts, EndSource, Arrive
  <2>2. Unread /\ Fresh
    BY <2>1 DEF ProgramInv
  <2>3. CASE Register
    <3>1. Fresh'
      BY <1>3, <2>2, <2>3, RegisterKeeps DEF Register, Ends, Loading
    <3> QED BY <1>1, <2>2, <2>3, <3>1 DEF Register, ProgramInv, Unread, Sources
  <2>4. UNCHANGED <<cacheVars, task>> \/ Register
    <3>1. ~ \E i \in Sources : TaskStep(i)
      <4> SUFFICES ASSUME NEW i \in Sources, TaskStep(i) PROVE FALSE
        OBVIOUS
      <4>1. task[i].at = "waiting" /\ call[i] = Idle
        BY <2>2, ThreadsAssumption DEF Unread, Fresh, ProgramInv, Sources
      <4>2. call[i].at = "idle"
        BY <4>1 DEF Idle
      <4> QED BY <2>1, <4>1, <4>2 DEF Loading, TaskStep, OpenSource, TakeLine,
              AskDictionary, Unresolved, FindDictionary, CacheStep, LookCombo, Look, LookSession,
              InsertSession, Insert, StoreCombo, TakeDictionary, FinishLine, LiveCounts,
              EndSource
    <3> QED BY <2>1, <3>1, <1>3 DEF Next, MainStep, ReadOptions, Begin, Answer, EmitFile, Close,
            Exit, Ends, Goes, Loading, Interrupt, QuitPager, Arrive, vars, fileVars
  <2>5. CASE UNCHANGED <<cacheVars, task>>
    BY <1>1, <2>2, <2>5 DEF ProgramInv, Unread, Sources, Fresh, cacheVars
  <2> QED BY <2>3, <2>4, <2>5
<1> QED BY <1>2, <1>3

(* However the threads of the program race for their dictionaries, and     *)
(* whatever was registered: it uses the cache as it is meant to be used,   *)
(* and a schema has one dictionary.                                        *)
THEOREM UsesTheCache == Spec => CacheSpec
<1> DEFINE Both == ProgramInv /\ CacheInv
<1>1. Init => Both /\ CacheInit
  BY ProgramInitOK, CacheInitOK DEF Init
<1>2. Both /\ [Next]_vars => Both' /\ [CacheNext]_cacheVars
  BY StepUsesCache, ProgramStepOK, CacheNextKeeps
<1> HIDE DEF Both
<1> QED BY <1>1, <1>2, PTL DEF Spec, CacheSpec

THEOREM SameDictionary == Spec => []OneDictionary
BY UsesTheCache, CacheIsConsistent

LEMMA TupleIs ==
  ASSUME NEW S, NEW s \in Seq(S)
  PROVE  Tuple(s) = s
BY ConcatEmptySeq DEF Tuple

(* CommandLine has the operators of sequences under names of its own.      *)
LEMMA LineFlattens ==
  ASSUME NEW seqs
  PROVE  Line!FlattenSeq(seqs) = FlattenSeq(seqs)
BY DEF Line!FlattenSeq, FlattenSeq

(* The values of an option, and what is kept of a sequence in general.     *)
LEMMA ValuesTyped ==
  ASSUME NEW A, NEW args \in Seq(A), NEW name, NEW S,
         \A k \in DOMAIN args : args[k].name = name => args[k].value \in S
  PROVE  Line!Values(args, name) \in Seq(S)
<1> DEFINE seqs == [k \in DOMAIN args |->
                       IF args[k].name = name THEN <<args[k].value>> ELSE << >>]
<1>1. DOMAIN args = 1 .. Len(args) /\ Len(args) \in Nat
  OBVIOUS
<1>2. \A k \in DOMAIN args :
         (IF args[k].name = name THEN <<args[k].value>> ELSE << >>) \in Seq(S)
  OBVIOUS
<1>3. seqs \in Seq(Seq(S))
  BY <1>1, <1>2
<1>4. FlattenSeq(seqs) \in Seq(S)
  <2> HIDE DEF seqs
  <2> QED
    BY <1>3, FlattenTyped
<1> QED
  BY <1>4, LineFlattens DEF Line!Values

LEMMA EndsTyped ==
  ASSUME NEW given, NEW defaults
  PROVE  Line!EndsWith(given, defaults) \subseteq {0, 1, 2}
<1>1. Line!Parsed(given) \in {"error", "help", "parsed"}
  BY DEF Line!Parsed
<1>2. CASE Line!Parsed(given) = "error"
  BY <1>2 DEF Line!EndsWith
<1>3. CASE Line!Parsed(given) = "help"
  BY <1>3 DEF Line!EndsWith
<1>4. CASE Line!Parsed(given) = "parsed"
  BY <1>4 DEF Line!EndsWith
<1> QED
  BY <1>1, <1>2, <1>3, <1>4

LEMMA OptionsTyped ==
  ASSUME NEW o \in CommandLines
  PROVE  /\ o.ends \subseteq {0, 1, 2}
         /\ \E S : o.sources \in Seq(S) /\ \A s \in S : IsSource(s)
         /\ \E S : o.customs \in Seq(S)
<1>1. PICK asked \in Invocations : o = Line!OptionsOf(asked)
  BY DEF CommandLines
<1>2. /\ asked.given \in Seq(ToSet(asked.given))
      /\ asked.defaults \in Seq(ToSet(asked.defaults))
      /\ IsSource(asked.stdin)
      /\ \A k \in DOMAIN asked.given :
             asked.given[k].name = "file" => IsSource(asked.given[k].value)
  BY InvocationsAssumption
<1>3. o.ends \subseteq {0, 1, 2}
  BY <1>1, EndsTyped DEF Line!OptionsOf
<1>4. \E S : o.sources \in Seq(S) /\ \A s \in S : IsSource(s)
  <2> DEFINE S == {s \in {asked.given[k].value : k \in DOMAIN asked.given} \cup {asked.stdin} :
                      IsSource(s)}
  <2>1. Line!Values(asked.given, "file") \in Seq(S)
    <3>1. \A k \in DOMAIN asked.given :
             asked.given[k].name = "file" => asked.given[k].value \in S
      BY <1>2
    <3> HIDE DEF S
    <3> QED
      BY <1>2, <3>1, ValuesTyped
  <2>2. <<asked.stdin>> \in Seq(S)
    BY <1>2
  <2>3. o.sources \in {Line!Values(asked.given, "file"), <<asked.stdin>>}
    BY <1>1 DEF Line!OptionsOf
  <2>4. \A s \in S : IsSource(s)
    OBVIOUS
  <2> HIDE DEF S
  <2> QED
    BY <2>1, <2>2, <2>3, <2>4
<1>5. \E S : o.customs \in Seq(S)
  <2> DEFINE S == {asked.given[k].value : k \in DOMAIN asked.given}
                    \cup {asked.defaults[k].value : k \in DOMAIN asked.defaults}
  <2>1. \A k \in DOMAIN asked.given : asked.given[k].value \in S
    OBVIOUS
  <2>2. \A k \in DOMAIN asked.defaults : asked.defaults[k].value \in S
    OBVIOUS
  <2> HIDE DEF S
  <2>3. /\ Line!Values(asked.given, "xml") \in Seq(S)
        /\ Line!Values(asked.defaults, "xml") \in Seq(S)
    BY <1>2, <2>1, <2>2, ValuesTyped
  <2>4. o.customs = Line!Values(asked.defaults, "xml") \o Line!Values(asked.given, "xml")
    BY <1>1 DEF Line!OptionsOf, Line!Merged
  <2> QED
    BY <2>3, <2>4
<1> QED
  BY <1>3, <1>4, <1>5

LEMMA SourcesTyped ==
  ASSUME NEW o \in CommandLines
  PROVE  /\ o.sources \in Seq(AllSources)
         /\ DOMAIN o.sources = 1 .. Len(o.sources) /\ Len(o.sources) \in Nat
         /\ \A i \in DOMAIN o.sources :
                /\ IsSource(o.sources[i])
                /\ o.sources[i].pieces \in Seq(Pieces)
<1>1. PICK S : o.sources \in Seq(S) /\ \A s \in S : IsSource(s)
  BY OptionsTyped
<1>2. ToSet(o.sources) \subseteq AllSources
  BY DEF AllSources
<1>3. o.sources \in Seq(AllSources)
  BY <1>1, <1>2 DEF ToSet
<1>4. ASSUME NEW i \in DOMAIN o.sources
      PROVE  IsSource(o.sources[i]) /\ o.sources[i].pieces \in Seq(Pieces)
  <2>1. IsSource(o.sources[i])
    BY <1>1
  <2>2. o.sources[i] \in AllSources
    BY <1>3
  <2>3. ToSet(o.sources[i].pieces) \subseteq Pieces
    BY <2>2 DEF Pieces
  <2>4. o.sources[i].pieces \in Seq(ToSet(o.sources[i].pieces))
    BY <2>1 DEF IsSource
  <2> QED
    BY <2>1, <2>3, <2>4, SeqMonotonic
<1> QED
  BY <1>3, <1>4

LEMMA MsgsAreMessages == \A m \in Msgs : IsMessage(m)
<1> SUFFICES ASSUME NEW p \in Pieces, p.what \in {"whole", "head"} PROVE IsMessage(p.msg)
  BY DEF Msgs
<1>1. PICK s \in AllSources : p \in ToSet(s.pieces)
  BY DEF Pieces
<1>2. PICK o \in CommandLines : s \in ToSet(o.sources)
  BY DEF AllSources
<1>3. PICK i \in DOMAIN o.sources : s = o.sources[i]
  BY <1>2 DEF ToSet
<1>4. PICK k \in DOMAIN s.pieces : p = s.pieces[k]
  BY <1>1 DEF ToSet
<1> QED
  BY <1>3, <1>4, SourcesTyped DEF IsSource

(* The messages of a text are a sequence of messages.                      *)
LEMMA MessagesTyped ==
  ASSUME NEW text \in Seq(Pieces)
  PROVE  MessagesIn(text) \in Seq(Msgs)
<1> DEFINE seqs == [j \in DOMAIN text |-> IF Begins(text, j) THEN <<text[j].msg>> ELSE << >>]
<1>1. DOMAIN text = 1 .. Len(text) /\ Len(text) \in Nat
  OBVIOUS
<1>2. \A j \in DOMAIN text : (IF Begins(text, j) THEN <<text[j].msg>> ELSE << >>) \in Seq(Msgs)
  <2> SUFFICES ASSUME NEW j \in DOMAIN text, Begins(text, j) PROVE text[j].msg \in Msgs
    OBVIOUS
  <2>1. text[j] \in Pieces /\ text[j].what \in {"whole", "head"}
    BY DEF Begins
  <2> QED
    BY <2>1 DEF Msgs
<1>3. seqs \in Seq(Seq(Msgs))
  BY <1>1, <1>2
<1>4. FlattenSeq(Tuple(seqs)) \in Seq(Msgs)
  <2> HIDE DEF seqs
  <2> QED
    BY <1>3, FlattenTyped, TupleIs
<1> QED
  BY <1>4 DEF MessagesIn

LEMMA TypeInvSuffices == TypeInv => TypeOK
BY DEF TypeInv, TypeOK, Tasks, TaskOK, Books, BookOK, Scalars, Places, Results

(* What the options are, and the texts that are read.                      *)
LEMMA SourcesAre ==
  ASSUME opts \in CommandLines
  PROVE  /\ Sources = 1 .. Len(opts.sources) /\ Len(opts.sources) \in Nat
         /\ Sources \subseteq Threads
         /\ Len(opts.customs) \in Nat
         /\ \A i \in Sources : opts.sources[i].pieces \in Seq(Pieces)
         /\ \A i \in Sources : opts.sources[i].there \in 0 .. Len(opts.sources[i].pieces)
<1>1. PICK S : opts.customs \in Seq(S)
  BY OptionsTyped
<1> QED
  BY <1>1, SourcesTyped, ThreadsAssumption DEF Sources, IsSource

LEMMA TextTyped ==
  ASSUME TypeInv, NEW i \in Sources
  PROVE  /\ Text(i) \in Seq(Pieces) /\ Len(Text(i)) = arrived[i] /\ arrived[i] \in Nat
         /\ \A j \in 1 .. arrived[i] : Text(i)[j] = opts.sources[i].pieces[j]
BY SourcesAre DEF TypeInv, Tasks, Text

LEMMA LineEndIs ==
  ASSUME NEW text \in Seq(Pieces), NEW from \in 1 .. Len(text)
  PROVE  /\ LineEnd(text, from) \in from .. Len(text)
         /\ text[LineEnd(text, from)].eol \/ LineEnd(text, from) = Len(text)
         /\ \A j \in from .. LineEnd(text, from) - 1 : ~text[j].eol /\ j # Len(text)
<1> DEFINE S == {j \in from .. Len(text) : text[j].eol \/ j = Len(text)}
<1>1. S \subseteq Nat /\ Len(text) \in S
  OBVIOUS
<1>2. LineEnd(text, from) = Min(S)
  BY DEF LineEnd
<1>3. Min(S) \in S /\ \A n \in S : Min(S) <= n
  <2> HIDE DEF S
  <2> QED
    BY <1>1, MinIs
<1> HIDE DEF S
<1>4. PICK e : e = LineEnd(text, from) /\ e \in S /\ \A n \in S : e <= n
  BY <1>2, <1>3
<1>5. ASSUME NEW j \in from .. e - 1 PROVE ~text[j].eol /\ j # Len(text)
  <2>1. e \in from .. Len(text)
    BY <1>4 DEF S
  <2>2. j \in from .. Len(text) /\ ~(e <= j)
    BY <2>1
  <2>3. j \notin S
    BY <1>4, <2>2
  <2> QED
    BY <2>2, <2>3 DEF S
<1> QED
  BY <1>4, <1>5 DEF S

(* The line that is being resolved.                                        *)
LEMMA CurrentTyped ==
  ASSUME TypeInv, NEW i \in Sources, task[i].at = "resolving"
  PROVE  /\ CurrentLine(i) \in Seq(Pieces)
         /\ MessagesIn(CurrentLine(i)) \in Seq(Msgs)
         /\ Len(task[i].dicts) \in 0 .. Len(MessagesIn(CurrentLine(i)))
<1>1. /\ task[i].lines \in Seq(Seq(Pieces)) /\ task[i].lines # << >>
      /\ task[i].dicts \in Seq(ToSet(task[i].dicts))
      /\ Len(task[i].dicts) <= Len(MessagesIn(Last(task[i].lines)))
  BY DEF TypeInv, Tasks, TaskOK
<1>2. CurrentLine(i) \in Seq(Pieces)
  BY <1>1 DEF CurrentLine, Last
<1>3. MessagesIn(CurrentLine(i)) \in Seq(Msgs)
  BY <1>2, MessagesTyped
<1> QED
  BY <1>1, <1>2, <1>3 DEF CurrentLine

LEMMA NextTyped ==
  ASSUME TypeInv, NEW i \in Sources, Unresolved(i)
  PROVE  /\ NextMessage(i) \in Msgs
         /\ IsMessage(NextMessage(i))
         /\ NextMessage(i) = MessagesIn(CurrentLine(i))[Len(task[i].dicts) + 1]
BY CurrentTyped, MsgsAreMessages DEF Unresolved, NextMessage

(* How many messages of a type there are.                                  *)
LEMMA NumberTyped ==
  ASSUME NEW S, NEW msgs \in Seq(S), NEW t
  PROVE  Number(msgs, t) \in Nat
<1>1. IsFiniteSet(DOMAIN msgs)
  <2>1. DOMAIN msgs = 1 .. Len(msgs) /\ Len(msgs) \in Nat
    OBVIOUS
  <2> QED
    BY <2>1, FS_Interval
<1>2. {k \in DOMAIN msgs : msgs[k].type = t} \subseteq DOMAIN msgs
  OBVIOUS
<1> QED
  BY <1>1, <1>2, FS_Subset, FS_CardinalityType DEF Number

LEMMA ContextIs ==
  ASSUME opts \in CommandLines, NEW i \in Sources
  PROVE  ContextOf(i) \in {Shared} \cup Sources
BY DEF ContextOf

-----------------------------------------------------------------------------
LEMMA UnresolvedIsPending ==
  ASSUME NEW i \in Sources
  PROVE  Unresolved(i) <=> Pending(task[i])
BY DEF Unresolved, Pending, CurrentLine

LEMMA OptsStay == [Next]_vars => opts' = opts
BY DEF Next, vars, fileVars, MainStep, TaskStep, ReadOptions, Register, Begin, Answer,
       EmitFile, Close, Exit, Interrupt, QuitPager, OpenSource, TakeLine, AskDictionary,
       FindDictionary, TakeDictionary, FinishLine, LiveCounts, EndSource, Arrive

(* One task changes.                                                       *)
LEMMA TaskChanges ==
  ASSUME TypeInv, UNCHANGED <<opts, arrived>>, NEW i \in Sources, NEW t,
         task' = [task EXCEPT ![i] = t], TaskOK(t, arrived[i]),
         \A j \in Sources \ {i} : call'[j] = call[j],
         call'[i].at # "idle" => Pending(t)
  PROVE  Tasks' /\ Sources' = Sources
<1>1. Sources' = Sources
  BY DEF Sources
<1>2. DOMAIN arrived' = Sources /\ DOMAIN task' = Sources
  BY DEF TypeInv, Tasks
<1>3. ASSUME NEW j \in Sources
      PROVE  /\ arrived'[j] \in 0 .. Len(opts'.sources[j].pieces)
             /\ TaskOK(task'[j], arrived'[j])
             /\ call'[j].at # "idle" => Unresolved(j)'
  <2>1. Unresolved(j)' <=> Pending(task'[j])
    BY DEF Unresolved, Pending, CurrentLine
  <2>2. CASE j = i
    <3>1. task'[j] = t
      BY <2>2 DEF TypeInv, Tasks
    <3> QED
      BY <2>1, <2>2, <3>1 DEF TypeInv, Tasks
  <2>3. CASE j # i
    <3>1. task'[j] = task[j] /\ call'[j] = call[j]
      BY <2>3 DEF TypeInv, Tasks
    <3> QED
      BY <2>1, <3>1, UnresolvedIsPending DEF TypeInv, Tasks
  <2> QED
    BY <2>2, <2>3
<1> QED
  BY <1>1, <1>2, <1>3 DEF Tasks, TaskOK

(* No task changes.                                                        *)
LEMMA TasksStay ==
  ASSUME TypeInv, UNCHANGED <<opts, arrived, task>>,
         \A j \in Sources : call'[j].at # "idle" => Unresolved(j)
  PROVE  Tasks' /\ Sources' = Sources
BY DEF TypeInv, Tasks, Sources, Unresolved, CurrentLine, TaskOK

LEMMA BookChanges ==
  ASSUME TypeInv, UNCHANGED opts, NEW c \in {Shared} \cup Sources, NEW b, BookOK(b),
         book' = [book EXCEPT ![c] = b]
  PROVE  Books'
<1>1. Sources' = Sources
  BY DEF Sources
<1>2. \A d \in {Shared} \cup Sources : BookOK(book'[d])
  BY DEF TypeInv, Books
<1> QED
  BY <1>1, <1>2 DEF TypeInv, Books, BookOK

LEMMA BooksStay ==
  ASSUME TypeInv, UNCHANGED <<opts, book>>
  PROVE  Books'
BY DEF TypeInv, Books, BookOK, Sources

(* The steps, one lemma for each kind.                                     *)
LEMMA TypeInvInit == Init => TypeInv
<1> SUFFICES ASSUME Init PROVE TypeInv
  OBVIOUS
<1>1. opts \in CommandLines
  BY DEF Init
<1>2. \A i \in Sources : call[i] = Idle
  BY <1>1, SourcesAre DEF Init, CacheInit
<1>3. TaskOK(NewTask, 0) /\ \A n \in Nat : TaskOK(NewTask, n)
  BY DEF TaskOK, NewTask, Places, Results
<1>4. Tasks
  <2>1. DOMAIN arrived = Sources /\ DOMAIN task = Sources
    BY DEF Init
  <2>2. ASSUME NEW i \in Sources
        PROVE  /\ arrived[i] \in 0 .. Len(opts.sources[i].pieces)
               /\ TaskOK(task[i], arrived[i])
               /\ call[i].at # "idle" => Unresolved(i)
    <3>1. arrived[i] \in 0 .. Len(opts.sources[i].pieces)
      BY <1>1, SourcesAre DEF Init
    <3>2. arrived[i] \in Nat /\ task[i] = NewTask
      BY <1>1, <3>1, SourcesAre DEF Init
    <3>3. call[i].at = "idle"
      BY <1>2 DEF Idle
    <3> QED
      BY <1>3, <3>1, <3>2, <3>3
  <2> QED
    BY <2>1, <2>2 DEF Tasks
<1>5. Books
  BY DEF Init, Books, BookOK, NewBook
<1>6. Scalars
  <2>1. Len(opts.customs) \in Nat /\ Len(opts.sources) \in Nat
    BY <1>1, SourcesAre
  <2>2. /\ registered = 0 /\ emitted = 0 /\ diagnosed = << >>
        /\ interrupted = FALSE /\ left = FALSE /\ stage = "options" /\ code = Running
    BY DEF Init
  <2>3. << >> \in Seq(Sources)
    OBVIOUS
  <2>4. interrupted \in BOOLEAN /\ left \in BOOLEAN
    BY <2>2, Zenon
  <2>5. registered \in 0 .. Len(opts.customs) /\ emitted \in 0 .. Len(opts.sources)
    BY <2>1, <2>2
  <2> QED
    BY <2>2, <2>3, <2>4, <2>5 DEF Scalars, Running
<1> QED
  BY <1>1, <1>4, <1>5, <1>6 DEF TypeInv

(* Steps of main that leave the tasks alone.                               *)
LEMMA MainKeepsTypes ==
  ASSUME TypeInv, ReadOptions \/ Begin \/ Answer \/ Close \/ Exit \/ Interrupt \/ QuitPager
  PROVE  TypeInv'
<1>1. UNCHANGED <<opts, arrived, task, call, book, registered, emitted, diagnosed>>
  BY DEF ReadOptions, Begin, Answer, Close, Exit, Interrupt, QuitPager, cacheVars
<1>2. Tasks' /\ Books'
  <2>1. \A j \in Sources : call'[j].at # "idle" => Unresolved(j)
    BY <1>1 DEF TypeInv, Tasks
  <2> QED
    BY <1>1, <2>1, TasksStay, BooksStay
<1>3. opts.ends \subseteq {0, 1, 2}
  BY OptionsTyped DEF TypeInv
<1>4. Scalars'
  <2>1. registered \in 0 .. Len(opts.customs) /\ emitted \in 0 .. Len(opts.sources)
        /\ diagnosed \in Seq(Sources) /\ Sources' = Sources
    BY <1>1 DEF TypeInv, Scalars, Sources
  <2>2. /\ interrupted' \in BOOLEAN /\ left' \in BOOLEAN
        /\ stage' \in {"options", "load", "answer", "process", "close", "exit"}
        /\ code' \in {Running, 0, 1, 2, 130}
    <3> USE DEF TypeInv, Scalars
    <3>1. CASE ReadOptions
      BY <1>3, <3>1 DEF ReadOptions, Ends, Goes
    <3>2. CASE Begin
      BY <3>2 DEF Begin, Ends, Goes
    <3>3. CASE Answer
      BY <3>3 DEF Answer, Ends
    <3>4. CASE Close
      BY <3>4 DEF Close
    <3>5. CASE Exit
      BY <3>5 DEF Exit
    <3>6. CASE Interrupt
      BY <3>6 DEF Interrupt
    <3>7. CASE QuitPager
      BY <3>7 DEF QuitPager
    <3> QED
      BY <3>1, <3>2, <3>3, <3>4, <3>5, <3>6, <3>7
  <2> QED
    BY <1>1, <2>1, <2>2 DEF Scalars
<1> QED
  BY <1>1, <1>2, <1>4 DEF TypeInv

LEMMA RegisterKeepsTypes ==
  ASSUME TypeInv, Register
  PROVE  TypeInv'
<1>1. /\ UNCHANGED <<opts, arrived, task, call, book, emitted, diagnosed, interrupted, left>>
      /\ registered' \in {registered, registered + 1} /\ registered < Len(opts.customs)
      /\ stage' \in {stage, "exit"} /\ code' \in {code, 1}
  BY DEF Register, RegisterDictionary, Ends, cacheVars
<1>2. Tasks' /\ Books'
  <2>1. \A j \in Sources : call'[j].at # "idle" => Unresolved(j)
    BY <1>1 DEF TypeInv, Tasks
  <2> QED
    BY <1>1, <2>1, TasksStay, BooksStay
<1>3. Scalars'
  <2>1. Len(opts.customs) \in Nat /\ Sources' = Sources
    BY <1>1, SourcesAre DEF TypeInv, Sources
  <2> QED
    BY <1>1, <2>1 DEF TypeInv, Scalars
<1> QED
  BY <1>1, <1>2, <1>3 DEF TypeInv

LEMMA EmitKeepsTypes ==
  ASSUME TypeInv, EmitFile
  PROVE  TypeInv'
<1> DEFINE i == emitted + 1
<1>1. /\ UNCHANGED <<opts, arrived, task, call, registered, interrupted, left, stage, code>>
      /\ i \in Sources /\ emitted' = i
      /\ diagnosed' \in {diagnosed, Append(diagnosed, i)}
      /\ book' = [book EXCEPT ![Shared] = MergedCounts(@, book[i])]
  BY DEF EmitFile, cacheVars
<1> HIDE DEF i
<1>2. Tasks'
  <2>1. \A j \in Sources : call'[j].at # "idle" => Unresolved(j)
    BY <1>1 DEF TypeInv, Tasks
  <2> QED
    BY <1>1, <2>1, TasksStay
<1>3. Books'
  <2>1. BookOK(book[Shared]) /\ BookOK(book[i]) /\ Shared \in DOMAIN book
    BY <1>1 DEF TypeInv, Books
  <2>2. BookOK(MergedCounts(book[Shared], book[i]))
    <3> DEFINE sum == [t \in Types |-> book[Shared].counts[t] + book[i].counts[t]]
    <3>1. sum \in [Types -> Nat]
      BY <2>1 DEF BookOK
    <3>2. MergedCounts(book[Shared], book[i])
             = [book[Shared] EXCEPT !.counts = sum, !.dirty = book[Shared].dirty \/ book[i].dirty]
      BY <2>1 DEF MergedCounts, BookOK
    <3> HIDE DEF sum
    <3> QED
      BY <2>1, <3>1, <3>2 DEF BookOK
  <2>3. book' = [book EXCEPT ![Shared] = MergedCounts(book[Shared], book[i])]
    BY <1>1
  <2> QED
    BY <1>1, <2>2, <2>3, BookChanges
<1>4. Scalars'
  <2>1. Sources' = Sources /\ Sources = 1 .. Len(opts.sources)
    BY <1>1, SourcesAre DEF TypeInv, Sources
  <2>2. diagnosed' \in Seq(Sources)
    BY <1>1 DEF TypeInv, Scalars
  <2> QED
    BY <1>1, <2>1, <2>2 DEF TypeInv, Scalars
<1> QED
  BY <1>1, <1>2, <1>3, <1>4 DEF TypeInv

LEMMA ArriveKeepsTypes ==
  ASSUME TypeInv, NEW i \in Sources, Arrive(i)
  PROVE  TypeInv'
<1>1. /\ UNCHANGED <<opts, task, call, book, registered, emitted, diagnosed, interrupted, left,
                     stage, code>>
      /\ arrived' = [arrived EXCEPT ![i] = @ + 1]
      /\ arrived[i] < Len(opts.sources[i].pieces)
  BY DEF Arrive, cacheVars
<1>2. Tasks'
  <2>1. Sources' = Sources /\ DOMAIN arrived' = Sources /\ DOMAIN task' = Sources
    BY <1>1 DEF TypeInv, Tasks, Sources
  <2>2. ASSUME NEW j \in Sources
        PROVE  /\ arrived'[j] \in 0 .. Len(opts.sources[j].pieces)
               /\ TaskOK(task[j], arrived'[j])
               /\ call[j].at # "idle" => Unresolved(j)
    <3>1. Len(opts.sources[j].pieces) \in Nat /\ arrived[j] \in 0 .. Len(opts.sources[j].pieces)
      BY SourcesAre DEF TypeInv, Tasks
    <3>2. arrived'[j] \in 0 .. Len(opts.sources[j].pieces) /\ arrived[j] <= arrived'[j]
      BY <1>1, <3>1 DEF TypeInv, Tasks
    <3>3. TaskOK(task[j], arrived[j]) /\ (call[j].at # "idle" => Unresolved(j))
      BY DEF TypeInv, Tasks
    <3> QED
      BY <3>1, <3>2, <3>3 DEF TaskOK
  <2> QED
    BY <1>1, <2>1, <2>2 DEF Tasks, Unresolved, CurrentLine, TaskOK
<1>3. Books'
  BY <1>1, BooksStay
<1>4. Scalars'
  BY <1>1 DEF TypeInv, Scalars, Sources
<1> QED
  BY <1>1, <1>2, <1>3, <1>4 DEF TypeInv

LEMMA FinishedIs ==
  ASSUME NEW i \in DOMAIN task, NEW result, Finished(i, result)
  PROVE  task' = [task EXCEPT ![i] = [task[i] EXCEPT !.at = "done", !.result = result]]
BY DEF Finished

LEMMA DoneOK ==
  ASSUME NEW t, NEW most, TaskOK(t, most), t.at \in {"waiting", "reading"},
         NEW result \in Results \ {"none"}
  PROVE  TaskOK([t EXCEPT !.at = "done", !.result = result], most)
BY DEF TaskOK, Places

LEMMA ScalarsOfSteps ==
  ASSUME TypeInv, NEW i \in Sources, diagnosed' \in {diagnosed, Append(diagnosed, i)},
         UNCHANGED <<opts, registered, emitted, interrupted, left, stage, code>>
  PROVE  Scalars'
<1>1. diagnosed' \in Seq(Sources) /\ Sources' = Sources
  <2>1. diagnosed \in Seq(Sources)
    BY DEF TypeInv, Scalars
  <2>2. Append(diagnosed, i) \in Seq(Sources)
    BY <2>1
  <2> QED
    BY <2>1, <2>2 DEF Sources
<1> QED
  BY <1>1 DEF TypeInv, Scalars

(* A step in which one task changes, and no thread asks for a dictionary.  *)
LEMMA QuietStep ==
  ASSUME TypeInv, NEW i \in Sources, NEW t, TaskOK(t, arrived[i]),
         task' = [task EXCEPT ![i] = t], ~Unresolved(i),
         diagnosed' \in {diagnosed, Append(diagnosed, i)},
         UNCHANGED <<opts, arrived, call, registered, emitted, interrupted, left, stage, code>>,
         Books'
  PROVE  TypeInv'
<1>1. call[i].at = "idle"
  BY DEF TypeInv, Tasks
<1>2. Tasks'
  BY <1>1, TaskChanges
<1>3. Scalars'
  BY ScalarsOfSteps
<1> QED
  BY <1>2, <1>3 DEF TypeInv

LEMMA OpenKeepsTypes ==
  ASSUME TypeInv, NEW i \in Sources, OpenSource(i)
  PROVE  TypeInv'
<1>1. /\ UNCHANGED <<opts, arrived, call, book, registered, emitted, interrupted, left, stage,
                     code>>
      /\ diagnosed' \in {diagnosed, Append(diagnosed, i)}
      /\ task[i].at = "waiting"
  BY DEF OpenSource, Diagnose, cacheVars
<1>2. i \in DOMAIN task /\ TaskOK(task[i], arrived[i]) /\ ~Unresolved(i)
  BY <1>1 DEF TypeInv, Tasks, Unresolved
<1>3. PICK t : TaskOK(t, arrived[i]) /\ task' = [task EXCEPT ![i] = t]
  <2>1. CASE Finished(i, "unopened")
    BY <1>1, <1>2, <2>1, FinishedIs, DoneOK DEF Results
  <2>2. CASE Finished(i, "unreadable")
    BY <1>1, <1>2, <2>2, FinishedIs, DoneOK DEF Results
  <2>3. CASE task' = [task EXCEPT ![i].at = "reading"]
    <3>1. task' = [task EXCEPT ![i] = [task[i] EXCEPT !.at = "reading"]]
      BY <1>2, <2>3
    <3>2. TaskOK([task[i] EXCEPT !.at = "reading"], arrived[i])
      BY <1>1, <1>2 DEF TaskOK, Places, NewTask
    <3> QED
      BY <3>1, <3>2
  <2> QED
    BY <2>1, <2>2, <2>3 DEF OpenSource
<1>4. Books'
  BY <1>1, BooksStay
<1> QED
  BY <1>1, <1>2, <1>3, <1>4, QuietStep

LEMMA EndKeepsTypes ==
  ASSUME TypeInv, NEW i \in Sources, EndSource(i)
  PROVE  TypeInv'
<1>1. /\ UNCHANGED <<opts, arrived, call, book, registered, emitted, interrupted, left, stage,
                     code, diagnosed>>
      /\ task[i].at = "reading" /\ Finished(i, "ok")
  BY DEF EndSource, cacheVars
<1>2. i \in DOMAIN task /\ TaskOK(task[i], arrived[i]) /\ ~Unresolved(i)
  BY <1>1 DEF TypeInv, Tasks, Unresolved
<1>3. PICK t : TaskOK(t, arrived[i]) /\ task' = [task EXCEPT ![i] = t]
  BY <1>1, <1>2, FinishedIs, DoneOK DEF Results
<1>4. Books'
  BY <1>1, BooksStay
<1> QED
  BY <1>1, <1>2, <1>3, <1>4, QuietStep

(* The line that is read next.                                             *)
LEMMA LineTaken ==
  ASSUME TypeInv, NEW i \in Sources, task[i].pos < arrived[i]
  PROVE  /\ LineEnd(Text(i), task[i].pos + 1) \in task[i].pos + 1 .. arrived[i]
         /\ SubSeq(Text(i), task[i].pos + 1, LineEnd(Text(i), task[i].pos + 1)) \in Seq(Pieces)
<1>1. Text(i) \in Seq(Pieces) /\ Len(Text(i)) = arrived[i] /\ arrived[i] \in Nat
  BY TextTyped
<1>2. task[i].pos + 1 \in 1 .. Len(Text(i))
  BY <1>1 DEF TypeInv, Tasks, TaskOK
<1>3. LineEnd(Text(i), task[i].pos + 1) \in task[i].pos + 1 .. arrived[i]
  BY <1>1, <1>2, LineEndIs
<1> QED
  BY <1>1, <1>2, <1>3

LEMMA TakenOK ==
  ASSUME NEW most, NEW t, TaskOK(t, most), t.at = "reading",
         NEW line \in Seq(Pieces), NEW end \in 0 .. most
  PROVE  /\ TaskOK([t EXCEPT !.pos = end], most)
         /\ TaskOK([t EXCEPT !.pos = end, !.at = "resolving", !.lines = Append(@, line)], most)
<1>1. TaskOK([t EXCEPT !.pos = end], most)
  BY DEF TaskOK
<1> DEFINE u == [t EXCEPT !.pos = end, !.at = "resolving", !.lines = Append(@, line)]
<1>2. /\ t.lines \in Seq(Seq(Pieces)) /\ t.dicts = << >> /\ t.result = "none"
      /\ t \in [at : Places, pos : 0 .. most, lines : Seq(Seq(Pieces)),
                dicts : Seq(ToSet(t.dicts)), result : Results]
  BY DEF TaskOK
<1>3. u \in [at : Places, pos : 0 .. most, lines : Seq(Seq(Pieces)),
             dicts : Seq(ToSet(u.dicts)), result : Results]
  <2>1. u.dicts = t.dicts
    BY <1>2
  <2>2. Append(t.lines, line) \in Seq(Seq(Pieces)) /\ "resolving" \in Places
    BY <1>2 DEF Places
  <2>3. u \in [at : Places, pos : 0 .. most, lines : Seq(Seq(Pieces)),
               dicts : Seq(ToSet(t.dicts)), result : Results]
    BY <1>2, <2>2, TaskUpdated
  <2> HIDE DEF u
  <2> QED
    BY <2>1, <2>3
<1>4. /\ u.at = "resolving" /\ u.lines = Append(t.lines, line) /\ u.dicts = << >>
      /\ u.result = "none"
  BY <1>2
<1>5. u.lines # << >> /\ Last(u.lines) = line
  BY <1>2, <1>4, LastIs
<1>6. Len(MessagesIn(line)) \in Nat
  BY MessagesTyped
<1> HIDE DEF u
<1>7. TaskOK(u, most)
  BY <1>3, <1>4, <1>5, <1>6 DEF TaskOK
<1> QED
  BY <1>1, <1>7 DEF u

LEMMA TakeLineKeepsTypes ==
  ASSUME TypeInv, NEW i \in Sources, TakeLine(i)
  PROVE  TypeInv'
<1> DEFINE end  == LineEnd(Text(i), task[i].pos + 1)
           line == SubSeq(Text(i), task[i].pos + 1, end)
<1>1. /\ UNCHANGED <<opts, arrived, call, book, registered, emitted, interrupted, left, stage,
                     code>>
      /\ diagnosed' \in {diagnosed, Append(diagnosed, i)}
      /\ task[i].at = "reading" /\ task[i].pos < arrived[i]
      /\ \/ Finished(i, "unreadable")
         \/ task' = [task EXCEPT ![i].pos = end,
                       ![i].at = IF IsBad(line) THEN "reading" ELSE "resolving",
                       ![i].lines = IF IsBad(line) THEN @ ELSE Append(@, line)]
  BY DEF TakeLine, Diagnose, cacheVars
<1>2. i \in DOMAIN task /\ TaskOK(task[i], arrived[i]) /\ ~Unresolved(i)
  BY <1>1 DEF TypeInv, Tasks, Unresolved
<1>3. end \in 0 .. arrived[i] /\ line \in Seq(Pieces)
  <2>1. task[i].pos \in Nat /\ arrived[i] \in Nat
    BY <1>2, TextTyped DEF TaskOK
  <2> QED
    BY <1>1, <2>1, LineTaken
<1> HIDE DEF end, line
<1>4. PICK t : TaskOK(t, arrived[i]) /\ task' = [task EXCEPT ![i] = t]
  <2>1. CASE Finished(i, "unreadable")
    BY <1>1, <1>2, <2>1, FinishedIs, DoneOK DEF Results
  <2>2. CASE ~Finished(i, "unreadable") /\ IsBad(line)
    <3>1. task' = [task EXCEPT ![i] = [task[i] EXCEPT !.pos = end, !.at = "reading",
                                                      !.lines = task[i].lines]]
      BY <1>1, <1>2, <2>2
    <3>2. [task[i] EXCEPT !.pos = end, !.at = "reading", !.lines = task[i].lines]
             = [task[i] EXCEPT !.pos = end]
      BY <1>1, <1>2 DEF TaskOK
    <3> QED
      BY <1>1, <1>2, <1>3, <3>1, <3>2, TakenOK
  <2>3. CASE ~Finished(i, "unreadable") /\ ~IsBad(line)
    <3>1. task' = [task EXCEPT ![i] = [task[i] EXCEPT !.pos = end, !.at = "resolving",
                                                      !.lines = Append(@, line)]]
      BY <1>1, <1>2, <2>3
    <3> QED
      BY <1>1, <1>2, <1>3, <3>1, TakenOK
  <2> QED
    BY <2>1, <2>2, <2>3
<1>5. Books'
  BY <1>1, BooksStay
<1> QED
  BY <1>1, <1>2, <1>4, <1>5, QuietStep

-----------------------------------------------------------------------------
(* A step in which no task changes, while the thread of one, which has a   *)
(* message to find a dictionary for, goes on.                              *)
LEMMA LookingStep ==
  ASSUME TypeInv, NEW i \in Sources, Unresolved(i), \A j \in Sources \ {i} : call'[j] = call[j],
         UNCHANGED fileVars
  PROVE  TypeInv'
<1>1. UNCHANGED <<opts, arrived, task, book>> /\ Scalars'
  BY DEF fileVars, TypeInv, Scalars, Sources
<1>2. Tasks'
  <2>1. \A j \in Sources : call'[j].at # "idle" => Unresolved(j)
    BY DEF TypeInv, Tasks
  <2> QED
    BY <1>1, <2>1, TasksStay
<1>3. Books'
  BY <1>1, BooksStay
<1> QED
  BY <1>1, <1>2, <1>3 DEF TypeInv

LEMMA CallsOfThreads ==
  ASSUME TypeInv, CacheInv, NEW i \in Sources
  PROVE  i \in DOMAIN call /\ \A j \in Sources : j \in DOMAIN call
BY SourcesAre DEF TypeInv, CacheInv

LEMMA AskKeepsTypes ==
  ASSUME TypeInv, CacheInv, NEW i \in Sources, AskDictionary(i)
  PROVE  TypeInv'
<1>1. Unresolved(i) /\ UNCHANGED fileVars
  BY DEF AskDictionary
<1>2. \A j \in Sources \ {i} : call'[j] = call[j]
  BY CallsOfThreads DEF AskDictionary, Resolve
<1> QED
  BY <1>1, <1>2, LookingStep

LEMMA StepOfOneCall ==
  ASSUME NEW i, CacheStep(i)
  PROVE  /\ call[i].at # "idle" /\ call[i].at # "answered"
         /\ \E c : call' = [call EXCEPT ![i] = c]
BY DEF CacheStep, LookCombo, Look, LookSession, InsertSession, Insert, StoreCombo

LEMMA FindKeepsTypes ==
  ASSUME TypeInv, CacheInv, NEW i \in Sources, FindDictionary(i)
  PROVE  TypeInv'
<1>1. CacheStep(i) /\ UNCHANGED fileVars
  BY DEF FindDictionary
<1>2. PICK c : call' = [call EXCEPT ![i] = c]
  BY <1>1, StepOfOneCall
<1>3. Unresolved(i)
  BY <1>1, StepOfOneCall DEF TypeInv, Tasks
<1>4. \A j \in Sources \ {i} : call'[j] = call[j]
  BY <1>2, CallsOfThreads
<1> QED
  BY <1>1, <1>3, <1>4, LookingStep

LEMMA LearntTyped ==
  ASSUME NEW m \in Msgs, NEW defaults \in [Sessions -> EmbeddedKeys \cup {NoKey}]
  PROVE  Learnt(defaults, m) \in [Sessions -> EmbeddedKeys \cup {NoKey}]
BY MsgsAreMessages DEF Learnt, IsMessage

LEMMA TakeDictionaryKeepsTypes ==
  ASSUME TypeInv, CacheInv, NEW i \in Sources, TakeDictionary(i)
  PROVE  TypeInv'
<1>1. /\ UNCHANGED <<opts, registered, arrived, emitted, diagnosed, interrupted, left, stage, code>>
      /\ call[i].at = "answered" /\ call' = [call EXCEPT ![i] = Idle]
      /\ task' = [task EXCEPT ![i].dicts = Append(@, call[i].found)]
      /\ book' = [book EXCEPT ![ContextOf(i)].defaults = Learnt(@, NextMessage(i))]
  BY DEF TakeDictionary
<1>2. Unresolved(i) /\ TaskOK(task[i], arrived[i]) /\ i \in DOMAIN task
  BY <1>1 DEF TypeInv, Tasks
<1> DEFINE ds == Append(task[i].dicts, call[i].found)
           t  == [task[i] EXCEPT !.at = "resolving", !.dicts = ds]
<1>3. task' = [task EXCEPT ![i] = t]
  <2>1. task[i].at = "resolving"
        /\ [task[i] EXCEPT !.at = "resolving", !.dicts = ds] = [task[i] EXCEPT !.dicts = ds]
    BY <1>2 DEF Unresolved, TaskOK
  <2>2. task' = [task EXCEPT ![i] = [task[i] EXCEPT !.dicts = ds]]
    BY <1>1, <1>2
  <2> QED
    BY <2>1, <2>2
<1>4. TaskOK(t, arrived[i])
  <2>1. task[i] \in [at : Places, pos : 0 .. arrived[i], lines : Seq(Seq(Pieces)),
                     dicts : Seq(ToSet(task[i].dicts)), result : Results]
    BY <1>2 DEF TaskOK
  <2>2. ds \in Seq(ToSet(ds)) /\ Len(ds) = Len(task[i].dicts) + 1
    BY <2>1, AppendInToSet
  <2>3. "resolving" \in Places
    BY DEF Places
  <2>4. t.dicts = ds /\ t.at = "resolving" /\ t.lines = task[i].lines /\ t.result = task[i].result
    BY <2>1
  <2>5. t \in [at : Places, pos : 0 .. arrived[i], lines : Seq(Seq(Pieces)),
               dicts : Seq(ToSet(ds)), result : Results]
    BY <2>1, <2>2, <2>3, DictsUpdated
  <2>6. Len(ds) <= Len(MessagesIn(Last(task[i].lines)))
    <3>1. /\ Len(task[i].dicts) \in 0 .. Len(MessagesIn(CurrentLine(i)))
          /\ MessagesIn(CurrentLine(i)) \in Seq(Msgs)
      BY <1>2, CurrentTyped DEF Unresolved
    <3> QED
      BY <1>2, <2>2, <3>1 DEF Unresolved, CurrentLine
  <2>7. task[i].lines # << >> /\ task[i].result = "none"
    BY <1>2 DEF Unresolved, TaskOK
  <2> HIDE DEF t, ds
  <2> QED
    BY <2>4, <2>5, <2>6, <2>7 DEF TaskOK
<1>5. call'[i].at = "idle" /\ \A j \in Sources \ {i} : call'[j] = call[j]
  BY <1>1, CallsOfThreads DEF Idle
<1> HIDE DEF t, ds
<1>6. Tasks'
  BY <1>1, <1>3, <1>4, <1>5, TaskChanges
<1>7. Books'
  <2>1. PICK c : c = ContextOf(i) /\ c \in {Shared} \cup Sources
    BY ContextIs DEF TypeInv
  <2>2. BookOK(book[c]) /\ c \in DOMAIN book
    BY <2>1 DEF TypeInv, Books
  <2>3. PICK m \in Msgs : m = NextMessage(i)
    BY <1>2, NextTyped
  <2> DEFINE b == [book[c] EXCEPT !.defaults = Learnt(book[c].defaults, m)]
  <2>4. book' = [book EXCEPT ![c] = b]
    BY <1>1, <2>1, <2>2, <2>3
  <2>5. Learnt(book[c].defaults, m) \in [Sessions -> EmbeddedKeys \cup {NoKey}]
    BY <2>2, LearntTyped DEF BookOK
  <2>6. BookOK(b)
    BY <2>2, <2>5 DEF BookOK
  <2> HIDE DEF b
  <2> QED
    BY <1>1, <2>1, <2>4, <2>6, BookChanges
<1>8. Scalars'
  BY <1>1, ScalarsOfSteps
<1> QED
  BY <1>1, <1>6, <1>7, <1>8 DEF TypeInv

LEMMA CountedTyped ==
  ASSUME NEW counts \in [Types -> Nat], NEW msgs \in Seq(Msgs)
  PROVE  /\ Counted(counts, msgs) \in [Types -> Nat]
         /\ \A t \in Types : Counted(counts, msgs)[t] = counts[t] + Number(msgs, t)
<1>1. \A t \in Types : Number(msgs, t) \in Nat
  BY NumberTyped
<1>2. Counted(counts, msgs) = [t \in Types |-> counts[t] + Number(msgs, t)]
  BY DEF Counted, Number
<1> QED
  BY <1>1, <1>2

LEMMA FinishKeepsTypes ==
  ASSUME TypeInv, NEW i \in Sources, FinishLine(i)
  PROVE  TypeInv'
<1>1. PICK msgs : msgs = MessagesIn(CurrentLine(i))
  OBVIOUS
<1>2. /\ UNCHANGED <<opts, arrived, call, registered, emitted, diagnosed, interrupted, left, stage,
                     code>>
      /\ task[i].at = "resolving" /\ Len(task[i].dicts) = Len(msgs)
      /\ book' = [book EXCEPT ![ContextOf(i)] = LineCounted(@, msgs)]
      /\ task' = [task EXCEPT ![i].at = "reading", ![i].dicts = << >>]
  <2>1. book' = [book EXCEPT ![ContextOf(i)] = LineCounted(@, MessagesIn(CurrentLine(i)))]
    BY DEF FinishLine
  <2>2. Len(task[i].dicts) = Len(MessagesIn(CurrentLine(i)))
    BY DEF FinishLine
  <2> QED
    BY <1>1, <2>1, <2>2 DEF FinishLine, cacheVars
<1>3. TaskOK(task[i], arrived[i]) /\ i \in DOMAIN task
  BY DEF TypeInv, Tasks
<1>4. msgs \in Seq(Msgs) /\ ~Unresolved(i)
  BY <1>1, <1>2, CurrentTyped DEF Unresolved
<1> DEFINE t == [task[i] EXCEPT !.at = "reading", !.dicts = << >>]
<1>5. task' = [task EXCEPT ![i] = t]
  BY <1>2, <1>3
<1>6. TaskOK(t, arrived[i])
  <2>1. task[i] \in [at : Places, pos : 0 .. arrived[i], lines : Seq(Seq(Pieces)),
                     dicts : Seq(ToSet(task[i].dicts)), result : Results]
    BY <1>3 DEF TaskOK
  <2>2. t.dicts = << >> /\ t.at = "reading" /\ t.result = task[i].result /\ task[i].result = "none"
    BY <1>2, <1>3, <2>1 DEF TaskOK
  <2>3. << >> \in Seq(ToSet(<< >>)) /\ "reading" \in Places
    BY DEF Places
  <2>4. t \in [at : Places, pos : 0 .. arrived[i], lines : Seq(Seq(Pieces)),
               dicts : Seq(ToSet(<< >>)), result : Results]
    BY <2>1, <2>3, DictsUpdated
  <2> HIDE DEF t
  <2> QED
    BY <2>2, <2>4 DEF TaskOK
<1> HIDE DEF t
<1>7. Books'
  <2>1. PICK c : c = ContextOf(i) /\ c \in {Shared} \cup Sources
    BY ContextIs DEF TypeInv
  <2>2. BookOK(book[c]) /\ c \in DOMAIN book
    BY <2>1 DEF TypeInv, Books
  <2>3. PICK b : b = LineCounted(book[c], msgs)
    OBVIOUS
  <2>4. book' = [book EXCEPT ![c] = b]
    BY <1>2, <2>1, <2>2, <2>3
  <2>5. PICK cs \in [Types -> Nat] :
           cs = IF Counting THEN Counted(book[c].counts, msgs) ELSE book[c].counts
    BY <1>4, <2>2, CountedTyped DEF BookOK
  <2>6. PICK ts \in Seq(Msgs) :
           ts = IF opts.summary THEN book[c].tracked \o msgs ELSE book[c].tracked
    <3>1. book[c].tracked \in Seq(Msgs)
      BY <2>2 DEF BookOK
    <3>2. book[c].tracked \o msgs \in Seq(Msgs)
      BY <1>4, <3>1, ConcatProperties
    <3> QED
      BY <3>1, <3>2
  <2>7. PICK d \in BOOLEAN :
           d = (book[c].dirty \/ (Counting /\ \E k \in DOMAIN msgs : msgs[k].type \in Types))
    OBVIOUS
  <2>8. b = [book[c] EXCEPT !.counts = cs, !.dirty = d, !.tracked = ts]
    BY <2>2, <2>3, <2>5, <2>6, <2>7 DEF LineCounted
  <2>9. BookOK(b)
    BY <2>2, <2>8, BookUpdated DEF BookOK
  <2> QED
    BY <1>2, <2>1, <2>4, <2>9, BookChanges
<1> QED
  BY <1>2, <1>4, <1>5, <1>6, <1>7, QuietStep

LEMMA LiveKeepsTypes ==
  ASSUME TypeInv, NEW i \in Sources, LiveCounts(i)
  PROVE  TypeInv'
<1>1. /\ UNCHANGED <<opts, arrived, task, call, registered, emitted, diagnosed, interrupted, left,
                     stage, code>>
      /\ book' = [book EXCEPT ![Shared].dirty = FALSE]
  BY DEF LiveCounts, cacheVars
<1>2. Tasks'
  <2>1. \A j \in Sources : call'[j].at # "idle" => Unresolved(j)
    BY <1>1 DEF TypeInv, Tasks
  <2> QED
    BY <1>1, <2>1, TasksStay
<1>3. Books'
  <2>1. BookOK(book[Shared]) /\ Shared \in DOMAIN book
    BY DEF TypeInv, Books
  <2>2. book' = [book EXCEPT ![Shared] = [book[Shared] EXCEPT !.dirty = FALSE]]
    BY <1>1, <2>1
  <2>3. BookOK([book[Shared] EXCEPT !.dirty = FALSE])
    BY <2>1 DEF BookOK
  <2> QED
    BY <1>1, <2>2, <2>3, BookChanges
<1>4. Scalars'
  BY <1>1, ScalarsOfSteps
<1> QED
  BY <1>1, <1>2, <1>3, <1>4 DEF TypeInv

LEMMA TypeInvKept == TypeInv /\ CacheInv /\ [Next]_vars => TypeInv'
<1> SUFFICES ASSUME TypeInv, CacheInv, [Next]_vars PROVE TypeInv'
  OBVIOUS
<1>1. CASE MainStep
  BY <1>1, MainKeepsTypes, RegisterKeepsTypes, EmitKeepsTypes DEF MainStep
<1>2. ASSUME NEW i \in Sources, TaskStep(i) PROVE TypeInv'
  BY <1>2, OpenKeepsTypes, TakeLineKeepsTypes, AskKeepsTypes, FindKeepsTypes,
     TakeDictionaryKeepsTypes, FinishKeepsTypes, LiveKeepsTypes, EndKeepsTypes DEF TaskStep
<1>3. CASE Interrupt \/ QuitPager
  BY <1>3, MainKeepsTypes
<1>4. ASSUME NEW i \in Sources, Arrive(i) PROVE TypeInv'
  BY <1>4, ArriveKeepsTypes
<1>5. CASE UNCHANGED vars
  <2>1. UNCHANGED <<opts, arrived, task, call, book>> /\ Scalars'
    BY <1>5 DEF vars, fileVars, cacheVars, TypeInv, Scalars, Sources
  <2>2. \A j \in Sources : call'[j].at # "idle" => Unresolved(j)
    BY <2>1 DEF TypeInv, Tasks
  <2> QED
    BY <2>1, <2>2, TasksStay, BooksStay DEF TypeInv
<1> QED
  BY <1>1, <1>2, <1>3, <1>4, <1>5 DEF Next

(* Every part of the program's state keeps its type: positions stay within *)
(* what has arrived, counts are numbers, what a Logon says is a dictionary *)
(* there is, and the program ends with a code it may end with.             *)
THEOREM FileTypes == Spec => []TypeOK
<1> DEFINE Both == TypeInv /\ CacheInv
<1>1. Init => Both
  BY TypeInvInit, CacheInitOK DEF Init
<1>2. Both /\ [CacheNext]_cacheVars /\ [Next]_vars => Both'
  BY TypeInvKept, CacheNextKeeps
<1>3. Both => TypeOK
  BY TypeInvSuffices
<1>4. Spec => [][CacheNext]_cacheVars
  BY UsesTheCache, PTL DEF CacheSpec
<1> HIDE DEF Both
<1> QED
  BY <1>1, <1>2, <1>3, <1>4, PTL DEF Spec

LEMMA NumberNone ==
  ASSUME NEW t
  PROVE  Number(<< >>, t) = 0
<1>1. {k \in DOMAIN << >> : << >>[k].type = t} = {}
  OBVIOUS
<1> QED
  BY <1>1, FS_EmptySet DEF Number

LEMMA NumberAppend ==
  ASSUME NEW S, NEW msgs \in Seq(S), NEW m \in S, NEW t
  PROVE  Number(Append(msgs, m), t) = Number(msgs, t) + (IF m.type = t THEN 1 ELSE 0)
<1> DEFINE old == {k \in DOMAIN msgs : msgs[k].type = t}
           new == {k \in DOMAIN Append(msgs, m) : Append(msgs, m)[k].type = t}
           n   == Len(msgs) + 1
<1>1. Number(msgs, t) = Cardinality(old) /\ Number(Append(msgs, m), t) = Cardinality(new)
  BY DEF Number
<1>2. new = (IF m.type = t THEN old \cup {n} ELSE old) /\ n \notin old
  <2>1. /\ DOMAIN msgs = 1 .. Len(msgs) /\ DOMAIN Append(msgs, m) = 1 .. n /\ Len(msgs) \in Nat
        /\ Append(msgs, m)[n] = m
        /\ \A k \in 1 .. Len(msgs) : Append(msgs, m)[k] = msgs[k]
    OBVIOUS
  <2>2. \A k \in 1 .. n : k = n \/ k \in 1 .. Len(msgs)
    BY <2>1
  <2>3. n \in 1 .. n /\ n \notin 1 .. Len(msgs) /\ 1 .. Len(msgs) \subseteq 1 .. n
    BY <2>1
  <2> HIDE DEF n
  <2> QED
    BY <2>1, <2>2, <2>3
<1>3. IsFiniteSet(old) /\ Cardinality(old) \in Nat
  <2>1. DOMAIN msgs = 1 .. Len(msgs) /\ Len(msgs) \in Nat /\ old \subseteq DOMAIN msgs
    OBVIOUS
  <2>2. IsFiniteSet(DOMAIN msgs)
    BY <2>1, FS_Interval
  <2> HIDE DEF old
  <2> QED
    BY <2>1, <2>2, FS_Subset, FS_CardinalityType
<1> HIDE DEF old, new, n
<1>4. Cardinality(old \cup {n}) = Cardinality(old) + 1
  BY <1>2, <1>3, FS_AddElement
<1> QED
  BY <1>1, <1>2, <1>3, <1>4

LEMMA NumberIsWeight ==
  ASSUME NEW S, NEW msgs \in Seq(S), NEW t
  PROVE  /\ Number(msgs, t) = Weight(msgs, Is(S, t))
         /\ Is(S, t) \in [S -> Nat]
<1> DEFINE C == {s \in Seq(S) : Number(s, t) = Weight(s, Is(S, t))}
<1>1. Is(S, t) \in [S -> Nat] /\ \A m \in S : Is(S, t)[m] = IF m.type = t THEN 1 ELSE 0
  BY DEF Is
<1>2. << >> \in C
  <2>1. << >> \in Seq(S)
    OBVIOUS
  <2> QED
    BY <1>1, <2>1, NumberNone, WeightTyped
<1>3. ASSUME NEW s \in Seq(S), NEW m \in S, s \in C PROVE Append(s, m) \in C
  <2>1. Weight(Append(s, m), Is(S, t)) = Weight(s, Is(S, t)) + Is(S, t)[m]
    BY <1>1, WeightAppend
  <2>2. Number(Append(s, m), t) = Number(s, t) + (IF m.type = t THEN 1 ELSE 0)
    BY NumberAppend
  <2>3. Append(s, m) \in Seq(S)
    OBVIOUS
  <2> QED
    BY <1>1, <1>3, <2>1, <2>2, <2>3, Zenon
<1> HIDE DEF C
<1>4. \A s \in Seq(S) : s \in C
  BY <1>2, <1>3, SeqInduction
<1> QED
  BY <1>1, <1>4 DEF C

LEMMA NumberConcat ==
  ASSUME NEW S, NEW a \in Seq(S), NEW b \in Seq(S), NEW t
  PROVE  Number(a \o b, t) = Number(a, t) + Number(b, t)
<1>1. a \o b \in Seq(S)
  OBVIOUS
<1>2. PICK w \in [S -> Nat] : w = Is(S, t)
  BY NumberIsWeight
<1>3. Weight(a \o b, w) = Weight(a, w) + Weight(b, w)
  BY WeightConcat
<1>4. /\ Number(a \o b, t) = Weight(a \o b, w)
      /\ Number(a, t) = Weight(a, w) /\ Number(b, t) = Weight(b, w)
  BY <1>1, <1>2, NumberIsWeight
<1> QED
  BY <1>3, <1>4, Zenon

LEMMA NumberOfFlatten ==
  ASSUME NEW S, NEW seqs \in Seq(Seq(S)), NEW t
  PROVE  Number(FlattenSeq(seqs), t)
            = SumFunctionOnSet([i \in DOMAIN seqs |-> Number(seqs[i], t)], DOMAIN seqs)
<1>1. FlattenSeq(seqs) \in Seq(S)
  BY FlattenTyped
<1>2. PICK w \in [S -> Nat] : w = Is(S, t)
  BY NumberIsWeight
<1>3. Weight(FlattenSeq(seqs), w)
         = SumFunctionOnSet([i \in DOMAIN seqs |-> Weight(seqs[i], w)], DOMAIN seqs)
  BY WeightOfFlatten
<1>4. Number(FlattenSeq(seqs), t) = Weight(FlattenSeq(seqs), w)
  BY <1>1, <1>2, NumberIsWeight
<1>5. [i \in DOMAIN seqs |-> Weight(seqs[i], w)] = [i \in DOMAIN seqs |-> Number(seqs[i], t)]
  <2>1. \A i \in DOMAIN seqs : Weight(seqs[i], w) = Number(seqs[i], t)
    <3> SUFFICES ASSUME NEW i \in DOMAIN seqs PROVE Weight(seqs[i], w) = Number(seqs[i], t)
      OBVIOUS
    <3>1. seqs[i] \in Seq(S)
      OBVIOUS
    <3> QED
      BY <1>2, <3>1, NumberIsWeight
  <2> QED
    BY <2>1
<1> QED
  BY <1>3, <1>4, <1>5, Zenon

(* What has been counted of a task grows by the line that is finished.     *)
LEMMA ToldIs ==
  ASSUME NEW lines \in Seq(Seq(Pieces)), NEW n \in 0 .. Len(lines)
  PROVE  /\ [k \in 1 .. n |-> MessagesIn(lines[k])] \in Seq(Seq(Msgs))
         /\ FlattenSeq([k \in 1 .. n |-> MessagesIn(lines[k])]) \in Seq(Msgs)
<1>1. \A k \in 1 .. n : MessagesIn(lines[k]) \in Seq(Msgs)
  <2> SUFFICES ASSUME NEW k \in 1 .. n PROVE MessagesIn(lines[k]) \in Seq(Msgs)
    OBVIOUS
  <2>1. lines[k] \in Seq(Pieces)
    OBVIOUS
  <2> QED
    BY <2>1, MessagesTyped
<1>2. [k \in 1 .. n |-> MessagesIn(lines[k])] \in Seq(Seq(Msgs))
  BY <1>1
<1> QED
  BY <1>2, FlattenTyped

LEMMA ToldGrows ==
  ASSUME NEW lines \in Seq(Seq(Pieces)), NEW n \in 1 .. Len(lines)
  PROVE  FlattenSeq([k \in 1 .. n |-> MessagesIn(lines[k])])
            = FlattenSeq([k \in 1 .. n - 1 |-> MessagesIn(lines[k])]) \o MessagesIn(lines[n])
<1> DEFINE a == [k \in 1 .. n - 1 |-> MessagesIn(lines[k])]
           b == [k \in 1 .. n |-> MessagesIn(lines[k])]
<1>1. n - 1 \in 0 .. Len(lines) /\ n \in 0 .. Len(lines)
  OBVIOUS
<1>2. a \in Seq(Seq(Msgs)) /\ b \in Seq(Seq(Msgs)) /\ MessagesIn(lines[n]) \in Seq(Msgs)
  <2>1. lines[n] \in Seq(Pieces)
    OBVIOUS
  <2> HIDE DEF a, b
  <2>2. a \in Seq(Seq(Msgs)) /\ b \in Seq(Seq(Msgs))
    BY <1>1, ToldIs DEF a, b
  <2> QED
    BY <2>1, <2>2, MessagesTyped
<1>3. b = Append(a, MessagesIn(lines[n]))
  <2>1. Len(a) = n - 1 /\ Len(b) = n /\ \A k \in 1 .. n - 1 : a[k] = b[k]
    OBVIOUS
  <2>2. b[n] = MessagesIn(lines[n])
    OBVIOUS
  <2> HIDE DEF a, b
  <2> QED
    BY <1>2, <2>1, <2>2
<1> HIDE DEF a, b
<1>4. FlattenSeq(Append(a, MessagesIn(lines[n]))) = FlattenSeq(a) \o MessagesIn(lines[n])
  BY <1>2, FlattenAppend
<1> QED
  BY <1>3, <1>4 DEF a, b

-----------------------------------------------------------------------------
(* What a step of one task does to the tasks.                              *)
LEMMA TaskMoves ==
  ASSUME TypeInv, NEW i \in Sources, TaskStep(i)
  PROVE  /\ UNCHANGED <<opts, arrived, emitted, left, stage, registered, interrupted, code>>
         /\ \A j \in Sources \ {i} : task'[j] = task[j]
         /\ task[i].at # "done" /\ task'[i].at # "waiting" /\ DOMAIN task' = Sources
         /\ task[i].at = "waiting" => stage = "process" /\ MayOpen(i)
<1> DEFINE Goal ==
         /\ UNCHANGED <<opts, arrived, emitted, left, stage, registered, interrupted, code>>
         /\ \A j \in Sources \ {i} : task'[j] = task[j]
         /\ task[i].at # "done" /\ task'[i].at # "waiting" /\ DOMAIN task' = Sources
         /\ task[i].at = "waiting" => stage = "process" /\ MayOpen(i)
<1>1. DOMAIN task = Sources /\ TaskOK(task[i], arrived[i])
      /\ (call[i].at # "idle" => task[i].at = "resolving")
  BY DEF TypeInv, Tasks, Unresolved
<1>2. CASE OpenSource(i)
  BY <1>1, <1>2 DEF OpenSource, Finished, TaskOK
<1>3. CASE TakeLine(i)
  BY <1>1, <1>3 DEF TakeLine, Finished, TaskOK
<1>4. CASE AskDictionary(i)
  BY <1>1, <1>4 DEF AskDictionary, Unresolved, fileVars
<1>5. CASE FindDictionary(i)
  <2>1. call[i].at # "idle" /\ UNCHANGED fileVars
    BY <1>5, StepOfOneCall DEF FindDictionary
  <2> QED
    BY <1>1, <2>1 DEF fileVars
<1>6. CASE TakeDictionary(i)
  BY <1>1, <1>6 DEF TakeDictionary, TaskOK
<1>7. CASE FinishLine(i)
  BY <1>1, <1>7 DEF FinishLine, TaskOK
<1>8. CASE LiveCounts(i)
  BY <1>1, <1>8 DEF LiveCounts
<1>9. CASE EndSource(i)
  BY <1>1, <1>9 DEF EndSource, Finished, TaskOK
<1> QED
  BY <1>2, <1>3, <1>4, <1>5, <1>6, <1>7, <1>8, <1>9 DEF TaskStep

(* What depends on the options alone stays.                                *)
LEMMA ShapeStays ==
  ASSUME UNCHANGED opts
  PROVE  /\ Sources' = Sources /\ (Pages' <=> Pages) /\ (Parallel' <=> Parallel)
         /\ (Counting' <=> Counting) /\ (UsesPager' <=> UsesPager)
         /\ (SummaryPager' <=> SummaryPager) /\ (CountsDue' <=> CountsDue)
         /\ \A i \in Sources : ContextOf(i)' = ContextOf(i)
BY DEF Sources, Pages, Parallel, Counting, CountsDue, UsesPager, SummaryPager, ContextOf, HasStdin

LEMMA OrderOfTaskStep ==
  ASSUME TypeInv, InOrder, NEW i \in Sources, TaskStep(i)
  PROVE  InOrder' /\ ~AllDone /\ (Parallel => ~(emitted > 0)) /\ stage # "close"
<1>1. /\ UNCHANGED <<opts, emitted, left, stage>>
      /\ \A j \in Sources \ {i} : task'[j] = task[j]
      /\ task[i].at # "done" /\ task'[i].at # "waiting"
      /\ task[i].at = "waiting" => MayOpen(i)
  BY TaskMoves
<1>2. /\ Sources' = Sources /\ (Pages' <=> Pages) /\ (Parallel' <=> Parallel)
      /\ (UsesPager' <=> UsesPager) /\ (SummaryPager' <=> SummaryPager)
  BY <1>1, ShapeStays
<1>3. ~AllDone /\ ~(emitted > 0) /\ stage # "close"
  BY <1>1 DEF InOrder, AllDone
<1>4. ASSUME ~Parallel, NEW k \in Sources, NEW j \in Sources, j < k, task'[k].at # "waiting"
      PROVE  task'[j].at = "done"
  <2>1. k \in Int /\ j \in Int /\ i \in Int
    BY SourcesAre DEF TypeInv
  <2>2. CASE k = i
    <3>1. task[j].at = "done"
      <4>1. CASE task[i].at = "waiting"
        BY <1>1, <1>4, <2>2, <4>1 DEF MayOpen
      <4>2. CASE task[i].at # "waiting"
        BY <1>4, <2>2, <4>2 DEF InOrder
      <4> QED
        BY <4>1, <4>2
    <3>2. j # i
      BY <1>4, <2>1, <2>2
    <3> QED
      BY <1>1, <3>1, <3>2
  <2>3. CASE k # i
    <3>1. task[j].at = "done"
      BY <1>1, <1>4, <2>3 DEF InOrder
    <3> QED
      BY <1>1, <3>1
  <2> QED
    BY <2>2, <2>3
<1> QED
  BY <1>1, <1>2, <1>3, <1>4 DEF InOrder

LEMMA OrderKept ==
  ASSUME TypeInv, InOrder, [Next]_vars
  PROVE  InOrder'
<1>1. Sources' = Sources /\ (Pages' <=> Pages) /\ (Parallel' <=> Parallel)
      /\ (UsesPager' <=> UsesPager) /\ (SummaryPager' <=> SummaryPager) /\ opts' = opts
  BY OptsStay, ShapeStays
<1>2. CASE ReadOptions \/ Register \/ Begin \/ Answer \/ Exit
  <2>1. UNCHANGED <<task, emitted, left>> /\ stage' # "close"
    BY <1>2, OptionsTyped DEF ReadOptions, Register, Begin, Answer, Exit, Ends, Goes, InOrder
  <2> QED
    BY <1>1, <2>1 DEF InOrder, AllDone
<1>3. CASE EmitFile
  BY <1>1, <1>3 DEF EmitFile, InOrder, AllDone
<1>4. CASE Close
  BY <1>1, <1>4 DEF Close, InOrder, AllDone
<1>5. CASE Interrupt
  BY <1>1, <1>5 DEF Interrupt, InOrder, AllDone
<1>6. CASE QuitPager
  BY <1>1, <1>6 DEF QuitPager, InOrder, AllDone
<1>7. ASSUME NEW i \in Sources, Arrive(i) PROVE InOrder'
  BY <1>1, <1>7 DEF Arrive, InOrder, AllDone
<1>8. ASSUME NEW i \in Sources, TaskStep(i) PROVE InOrder'
  BY <1>8, OrderOfTaskStep
<1>9. CASE UNCHANGED vars
  BY <1>1, <1>9 DEF vars, fileVars, InOrder, AllDone
<1> QED
  BY <1>2, <1>3, <1>4, <1>5, <1>6, <1>7, <1>8, <1>9 DEF Next, MainStep

LEMMA DiagnosesTyped ==
  ASSUME TypeInv
  PROVE  diagnosed \in Seq(Nat) /\ Sources \subseteq Nat /\ 0 \notin Sources
<1>1. Sources \subseteq Nat /\ 0 \notin Sources
  BY SourcesAre DEF TypeInv
<1>2. diagnosed \in Seq(Sources)
  BY DEF TypeInv, Scalars
<1> QED
  BY <1>1, <1>2, SeqMonotonic

LEMMA ToDiagnoseIs ==
  ASSUME TypeInv
  PROVE  \A j \in ToDiagnose : j \in Sources /\ task[j].at = "done"
BY DEF ToDiagnose, TypeInv, Tasks, TaskOK

(* What a step of one task does to the diagnoses.                          *)
LEMMA TaskDiagnoses ==
  ASSUME TypeInv, NEW i \in Sources, TaskStep(i)
  PROVE  \/ diagnosed' = diagnosed /\ (ToDiagnose' = ToDiagnose \/ Parallel)
         \/ ~Parallel /\ diagnosed' = Append(diagnosed, i) /\ ToDiagnose' = ToDiagnose \cup {i}
<1>1. opts' = opts /\ Sources' = Sources /\ \A j \in Sources \ {i} : task'[j] = task[j]
  BY TaskMoves, ShapeStays
<1>2. DOMAIN task = Sources /\ TaskOK(task[i], arrived[i])
      /\ (call[i].at # "idle" => task[i].at = "resolving")
  BY DEF TypeInv, Tasks, Unresolved
<1>3. PICK r : r = task'[i].result
  OBVIOUS
<1>4. r = task[i].result => ToDiagnose' = ToDiagnose
  BY <1>1, <1>3 DEF ToDiagnose
<1>5. task[i].result = "none" /\ ~(r = "unopened")
         /\ ~(r = "unreadable" /\ opts.sources[i].kind = "stdin") => ToDiagnose' = ToDiagnose
  BY <1>1, <1>3 DEF ToDiagnose
<1>6. task[i].result = "none"
         /\ (r = "unopened" \/ (r = "unreadable" /\ opts.sources[i].kind = "stdin"))
         => ToDiagnose' = ToDiagnose \cup {i}
  BY <1>1, <1>3 DEF ToDiagnose
<1>7. CASE OpenSource(i)
  <2>1. task[i].result = "none"
    BY <1>2, <1>7 DEF OpenSource, TaskOK
  <2>2. CASE opts.sources[i].kind = "missing"
    <3>1. r = "unopened" /\ Diagnose(i)
      BY <1>2, <1>3, <1>7, <2>2 DEF OpenSource, Finished, TaskOK
    <3>2. ToDiagnose' = ToDiagnose \cup {i}
      BY <1>6, <2>1, <3>1
    <3>3. CASE Parallel
      BY <3>1, <3>3 DEF Diagnose
    <3>4. CASE ~Parallel
      BY <3>1, <3>2, <3>4 DEF Diagnose
    <3> QED
      BY <3>3, <3>4
  <2>3. CASE opts.sources[i].kind # "missing"
    <3>1. diagnosed' = diagnosed
      BY <1>7, <2>3 DEF OpenSource
    <3>2. r = "none" \/ (r = "unreadable" /\ opts.sources[i].kind = "file")
      BY <1>2, <1>3, <1>7, <2>1, <2>3 DEF OpenSource, Finished, TaskOK
    <3> QED
      BY <1>5, <2>1, <3>1, <3>2
  <2> QED
    BY <2>2, <2>3
<1>8. CASE TakeLine(i)
  <2>1. task[i].result = "none"
    BY <1>2, <1>8 DEF TakeLine, TaskOK
  <2>2. \/ r = "none" /\ diagnosed' = diagnosed
        \/ /\ r = "unreadable"
           /\ IF opts.sources[i].kind = "stdin" THEN Diagnose(i) ELSE diagnosed' = diagnosed
    BY <1>2, <1>3, <1>8, <2>1 DEF TakeLine, Finished, TaskOK
  <2> QED
    BY <1>5, <1>6, <2>1, <2>2 DEF Diagnose
<1>9. CASE EndSource(i)
  <2>1. task[i].result = "none" /\ r = "ok" /\ diagnosed' = diagnosed
    BY <1>2, <1>3, <1>9 DEF EndSource, Finished, TaskOK
  <2> QED
    BY <1>5, <2>1
<1>10. CASE AskDictionary(i) \/ FindDictionary(i) \/ LiveCounts(i)
  BY <1>3, <1>4, <1>10 DEF AskDictionary, FindDictionary, LiveCounts, fileVars
<1>11. CASE TakeDictionary(i) \/ FinishLine(i)
  <2>1. r = task[i].result /\ diagnosed' = diagnosed
    BY <1>2, <1>3, <1>11 DEF TakeDictionary, FinishLine, TaskOK
  <2> QED
    BY <1>4, <2>1
<1> QED
  BY <1>7, <1>8, <1>9, <1>10, <1>11 DEF TaskStep

LEMMA DiagnosesOfTaskStep ==
  ASSUME TypeInv, InOrder, DiagnosedSoFar, NEW i \in Sources, TaskStep(i)
  PROVE  DiagnosedSoFar'
<1>1. opts' = opts /\ Sources' = Sources /\ (Parallel' <=> Parallel) /\ emitted' = emitted
  BY TaskMoves, ShapeStays
<1>2. CASE Parallel
  <2>1. emitted = 0
    BY <1>2, OrderOfTaskStep DEF TypeInv, Scalars
  <2>2. diagnosed' = diagnosed
    BY <1>2, TaskDiagnoses
  <2>3. \A j \in Sources : ~(j <= emitted)
    BY <2>1, SourcesAre DEF TypeInv
  <2>4. ToDiagnose \subseteq Sources /\ ToDiagnose' \subseteq Sources
    BY <1>1 DEF ToDiagnose
  <2> QED
    BY <1>1, <1>2, <2>2, <2>3, <2>4 DEF DiagnosedSoFar, ToSet
<1>3. CASE ~Parallel
  <2>1. CASE diagnosed' = diagnosed /\ ToDiagnose' = ToDiagnose
    BY <1>1, <1>3, <2>1 DEF DiagnosedSoFar, ToSet
  <2>2. CASE diagnosed' = Append(diagnosed, i) /\ ToDiagnose' = ToDiagnose \cup {i}
    <3>1. ToSet(diagnosed) = ToDiagnose /\ Rising(diagnosed)
      BY <1>3 DEF DiagnosedSoFar, Rising
    <3>2. ASSUME NEW j \in ToDiagnose PROVE j < i
      <4>1. j \in Sources /\ task[j].at = "done" /\ task[i].at # "done"
        BY ToDiagnoseIs, TaskMoves
      <4>2. ~(i < j)
        BY <1>3, <4>1 DEF InOrder
      <4>3. i \in Nat /\ j \in Nat
        BY <4>1, DiagnosesTyped
      <4> QED
        BY <4>1, <4>2, <4>3
    <3>3. ToSet(diagnosed') = ToDiagnose' /\ Rising(diagnosed')
      BY <2>2, <3>1, <3>2, OneMore, DiagnosesTyped
    <3> QED
      BY <1>1, <1>3, <3>3 DEF DiagnosedSoFar, Rising, ToSet
  <2> QED
    BY <1>3, <2>1, <2>2, TaskDiagnoses
<1> QED
  BY <1>2, <1>3

LEMMA DiagnosesOfEmit ==
  ASSUME TypeInv, InOrder, DiagnosedSoFar, EmitFile
  PROVE  DiagnosedSoFar'
<1>1. /\ opts' = opts /\ task' = task /\ Parallel /\ emitted' = emitted + 1
      /\ emitted + 1 \in Sources
      /\ diagnosed' = IF task[emitted + 1].result = "unopened" THEN Append(diagnosed, emitted + 1)
                                                               ELSE diagnosed
  BY DEF EmitFile
<1>2. Sources' = Sources /\ Parallel' /\ ToDiagnose' = ToDiagnose
  BY <1>1, ShapeStays DEF ToDiagnose
<1>3. PICK i \in Nat : i = emitted + 1 /\ i \in Sources
  BY <1>1, DiagnosesTyped
<1>4. i \in ToDiagnose <=> task[i].result = "unopened"
  BY <1>1, <1>3 DEF ToDiagnose, Parallel, HasStdin
<1>5. ToDiagnose \subseteq Nat /\ emitted \in Nat
  BY ToDiagnoseIs, DiagnosesTyped DEF TypeInv, Scalars
<1>6. PICK before : before = {j \in ToDiagnose : j <= emitted}
  OBVIOUS
<1>7. {j \in ToDiagnose : j <= i} = IF i \in ToDiagnose THEN before \cup {i} ELSE before
  <2>1. \A j \in ToDiagnose : j <= i <=> (j <= emitted \/ j = i)
    BY <1>3, <1>5
  <2> QED
    BY <1>6, <2>1, Zenon
<1>8. ToSet(diagnosed) = before /\ Rising(diagnosed)
  BY <1>1, <1>6 DEF DiagnosedSoFar, Rising
<1>9. ToSet(diagnosed') = {j \in ToDiagnose : j <= i} /\ Rising(diagnosed')
  <2>1. \A j \in before : j < i
    <3> SUFFICES ASSUME NEW j \in before PROVE j < i
      OBVIOUS
    <3>1. j \in Nat /\ j <= emitted
      BY <1>5, <1>6
    <3> QED
      BY <1>3, <1>5, <3>1
  <2>2. CASE task[i].result = "unopened"
    <3>1. ToSet(Append(diagnosed, i)) = before \cup {i} /\ Rising(Append(diagnosed, i))
      BY <1>8, <2>1, OneMore, DiagnosesTyped
    <3> QED
      BY <1>1, <1>3, <1>4, <1>7, <2>2, <3>1
  <2>3. CASE task[i].result # "unopened"
    BY <1>1, <1>3, <1>4, <1>7, <1>8, <2>3
  <2> QED
    BY <2>2, <2>3
<1>10. {j \in ToDiagnose : Parallel => j <= i} = {j \in ToDiagnose : j <= i}
  BY <1>1
<1> QED
  BY <1>1, <1>2, <1>3, <1>9 DEF DiagnosedSoFar, Rising, ToSet

LEMMA DiagnosesKept ==
  ASSUME TypeInv, InOrder, DiagnosedSoFar, [Next]_vars
  PROVE  DiagnosedSoFar'
<1>1. opts' = opts /\ Sources' = Sources /\ (Parallel' <=> Parallel)
  BY OptsStay, ShapeStays
<1>2. CASE UNCHANGED <<task, diagnosed, emitted>>
  <2>1. ToDiagnose' = ToDiagnose
    BY <1>1, <1>2 DEF ToDiagnose
  <2> QED
    BY <1>1, <1>2, <2>1 DEF DiagnosedSoFar, ToSet
<1>3. CASE ReadOptions \/ Register \/ Begin \/ Answer \/ Close \/ Exit \/ Interrupt \/ QuitPager
  BY <1>2, <1>3 DEF ReadOptions, Register, Begin, Answer, Close, Exit, Interrupt, QuitPager
<1>4. CASE EmitFile
  BY <1>4, DiagnosesOfEmit
<1>5. ASSUME NEW i \in Sources, Arrive(i) PROVE DiagnosedSoFar'
  BY <1>2, <1>5 DEF Arrive
<1>6. ASSUME NEW i \in Sources, TaskStep(i) PROVE DiagnosedSoFar'
  BY <1>6, DiagnosesOfTaskStep
<1>7. CASE UNCHANGED vars
  BY <1>2, <1>7 DEF vars, fileVars
<1> QED
  BY <1>3, <1>4, <1>5, <1>6, <1>7 DEF Next, MainStep

-----------------------------------------------------------------------------
(* What has been counted of a task in a step of it.                        *)
LEMMA ToldSame ==
  ASSUME NEW t, NEW u, LinesDone(u) = LinesDone(t),
         \A k \in 1 .. LinesDone(t) : u.lines[k] = t.lines[k]
  PROVE  Told(u) = Told(t)
<1>1. \A k \in 1 .. LinesDone(t) : MessagesIn(u.lines[k]) = MessagesIn(t.lines[k])
  OBVIOUS
<1>2. [k \in 1 .. LinesDone(t) |-> MessagesIn(u.lines[k])]
         = [k \in 1 .. LinesDone(t) |-> MessagesIn(t.lines[k])]
  BY <1>1
<1> QED
  BY <1>2 DEF Told

LEMMA ToldTyped ==
  ASSUME NEW t, NEW most, TaskOK(t, most)
  PROVE  Told(t) \in Seq(Msgs) /\ LinesDone(t) \in 0 .. Len(t.lines)
<1>1. t.lines \in Seq(Seq(Pieces)) /\ (t.at = "resolving" => t.lines # << >>)
  BY DEF TaskOK
<1>2. LinesDone(t) \in 0 .. Len(t.lines)
  BY <1>1 DEF LinesDone
<1> QED
  BY <1>1, <1>2, ToldIs DEF Told

LEMMA ToldOfFinish ==
  ASSUME TypeInv, NEW i \in Sources, FinishLine(i)
  PROVE  Told(task'[i]) = Told(task[i]) \o MessagesIn(CurrentLine(i))
<1>1. DOMAIN task = Sources /\ TaskOK(task[i], arrived[i])
  BY DEF TypeInv, Tasks
<1>2. PICK lines \in Seq(Seq(Pieces)) : lines = task[i].lines /\ lines # << >>
  BY <1>1 DEF TaskOK, FinishLine
<1>3. PICK n \in 1 .. Len(lines) : n = Len(lines) /\ CurrentLine(i) = lines[n]
  BY <1>2 DEF CurrentLine, Last
<1>4. /\ task[i].at = "resolving" /\ task'[i].at = "reading" /\ task'[i].lines = lines
  BY <1>1, <1>2 DEF FinishLine, TaskOK
<1>5. LinesDone(task[i]) = n - 1 /\ LinesDone(task'[i]) = n
  BY <1>2, <1>3, <1>4 DEF LinesDone
<1>6. /\ Told(task[i]) = FlattenSeq([k \in 1 .. n - 1 |-> MessagesIn(lines[k])])
      /\ Told(task'[i]) = FlattenSeq([k \in 1 .. n |-> MessagesIn(lines[k])])
  BY <1>2, <1>4, <1>5 DEF Told
<1> QED
  BY <1>3, <1>6, ToldGrows

LEMMA ToldOtherwise ==
  ASSUME TypeInv, NEW i \in Sources, TaskStep(i), ~FinishLine(i)
  PROVE  Told(task'[i]) = Told(task[i])
<1>1. DOMAIN task = Sources /\ TaskOK(task[i], arrived[i])
      /\ (call[i].at # "idle" => task[i].at = "resolving")
  BY DEF TypeInv, Tasks, Unresolved
<1>2. PICK lines \in Seq(Seq(Pieces)) : lines = task[i].lines
  BY <1>1 DEF TaskOK
<1>3. CASE task'[i].lines = lines
           /\ (task'[i].at = "resolving" <=> task[i].at = "resolving")
  <2>1. LinesDone(task'[i]) = LinesDone(task[i])
    BY <1>2, <1>3 DEF LinesDone
  <2> QED
    BY <1>2, <1>3, <2>1, ToldSame
<1>4. CASE OpenSource(i)
  BY <1>1, <1>2, <1>3, <1>4 DEF OpenSource, Finished, TaskOK
<1>5. CASE TakeLine(i)
  <2>1. task[i].at = "reading"
    BY <1>5 DEF TakeLine
  <2>2. CASE task'[i].at # "resolving"
    <3>1. task'[i].lines = lines
      BY <1>1, <1>2, <1>5, <2>2 DEF TakeLine, Finished, TaskOK
    <3> QED
      BY <1>3, <2>1, <2>2, <3>1
  <2>3. CASE task'[i].at = "resolving"
    <3>1. PICK line : task'[i].lines = Append(lines, line)
      BY <1>1, <1>2, <1>5, <2>3 DEF TakeLine, Finished, TaskOK
    <3>2. /\ Len(Append(lines, line)) - 1 = Len(lines) /\ Len(lines) \in Nat
          /\ \A k \in 1 .. Len(lines) : Append(lines, line)[k] = lines[k]
      OBVIOUS
    <3>3. LinesDone(task[i]) = Len(lines) /\ LinesDone(task'[i]) = Len(lines)
      BY <1>2, <2>1, <2>3, <3>1, <3>2 DEF LinesDone
    <3> QED
      BY <1>2, <3>1, <3>2, <3>3, ToldSame
  <2> QED
    BY <2>2, <2>3
<1>6. CASE AskDictionary(i) \/ FindDictionary(i) \/ LiveCounts(i)
  BY <1>2, <1>3, <1>6 DEF AskDictionary, FindDictionary, LiveCounts, fileVars
<1>7. CASE TakeDictionary(i)
  BY <1>1, <1>2, <1>3, <1>7 DEF TakeDictionary, TaskOK
<1>8. CASE EndSource(i)
  BY <1>1, <1>2, <1>3, <1>8 DEF EndSource, Finished, TaskOK
<1> QED
  BY <1>4, <1>5, <1>6, <1>7, <1>8 DEF TaskStep

(* The number of messages told of a task, and of several.                  *)
LEMMA TallyTyped ==
  ASSUME TypeInv, NEW t
  PROVE  /\ Tally(t) \in [Sources -> Nat]
         /\ IsFiniteSet(Sources)
<1>1. ASSUME NEW i \in Sources PROVE Number(Told(task[i]), t) \in Nat
  <2>1. Told(task[i]) \in Seq(Msgs)
    BY ToldTyped DEF TypeInv, Tasks
  <2> QED
    BY <2>1, NumberTyped
<1>2. IsFiniteSet(Sources)
  BY SourcesAre, FS_Interval DEF TypeInv
<1> QED
  BY <1>1, <1>2 DEF Tally

(* Steps that neither count nor finish a line.                             *)
LEMMA TallyStays ==
  ASSUME UNCHANGED opts, \A i \in Sources : Told(task'[i]) = Told(task[i]), NEW t
  PROVE  Tally(t)' = Tally(t)
<1>1. Sources' = Sources
  BY ShapeStays
<1>2. [i \in Sources |-> Number(Told(task'[i]), t)] = [i \in Sources |-> Number(Told(task[i]), t)]
  OBVIOUS
<1> QED
  BY <1>1, <1>2 DEF Tally

LEMMA BooksAgreeStay ==
  ASSUME TypeInv, BooksAgree, UNCHANGED <<opts, emitted>>,
         \A i \in Sources : Told(task'[i]) = Told(task[i]),
         \A c \in {Shared} \cup Sources : book'[c].counts = book[c].counts,
         \A i \in Sources : book'[i].dirty = book[i].dirty,
         book'[Shared].dirty => book[Shared].dirty
  PROVE  BooksAgree'
<1>1. /\ Sources' = Sources /\ (Pages' <=> Pages) /\ (Parallel' <=> Parallel)
      /\ (Counting' <=> Counting)
  BY ShapeStays
<1>2. Summed' = Summed
  BY <1>1 DEF Summed
<1>3. ~Counting => \A c \in {Shared} \cup Sources :
                      ~book'[c].dirty /\ \A t \in Types : book'[c].counts[t] = 0
  BY DEF BooksAgree
<1>4. \A i \in Sources : ~book'[i].dirty => \A t \in Types : book'[i].counts[t] = 0
  BY DEF BooksAgree, NoCounts
<1>5. ASSUME Counting, NEW t \in Types
      PROVE  /\ Pages \/ Parallel => \A i \in Sources :
                                        book'[i].counts[t] = Number(Told(task'[i]), t)
             /\ ~Pages => book'[Shared].counts[t] = SumFunctionOnSet(Tally(t)', Summed')
  <2>1. Pages \/ Parallel => \A i \in Sources : book'[i].counts[t] = Number(Told(task'[i]), t)
    BY <1>5 DEF BooksAgree
  <2>2. ~Pages => book[Shared].counts[t] = SumFunctionOnSet(Tally(t), Summed)
    BY <1>5 DEF BooksAgree
  <2>3. Tally(t)' = Tally(t)
    BY TallyStays
  <2>4. book'[Shared].counts[t] = book[Shared].counts[t]
    OBVIOUS
  <2> QED
    BY <1>2, <2>1, <2>2, <2>3, <2>4
<1> QED
  BY <1>1, <1>3, <1>4, <1>5 DEF BooksAgree, NoCounts

(* The finish of a line.                                                   *)
LEMMA LineCountedIs ==
  ASSUME NEW b, BookOK(b), NEW msgs \in Seq(Msgs)
  PROVE  LET new == LineCounted(b, msgs)
         IN  /\ ~Counting => new.counts = b.counts /\ (~b.dirty => ~new.dirty)
             /\ Counting => \A t \in Types : /\ new.counts[t] = b.counts[t] + Number(msgs, t)
                                             /\ ~new.dirty => ~b.dirty /\ Number(msgs, t) = 0
<1> DEFINE new == LineCounted(b, msgs)
<1>1. /\ new.counts = IF Counting THEN Counted(b.counts, msgs) ELSE b.counts
      /\ new.dirty <=> (b.dirty \/ (Counting /\ \E k \in DOMAIN msgs : msgs[k].type \in Types))
  BY DEF LineCounted, BookOK
<1>2. \A t \in Types : Counted(b.counts, msgs)[t] = b.counts[t] + Number(msgs, t)
  BY CountedTyped DEF BookOK
<1>3. ASSUME Counting, ~new.dirty, NEW t \in Types PROVE Number(msgs, t) = 0
  <2>1. {k \in DOMAIN msgs : msgs[k].type = t} = {}
    BY <1>1, <1>3
  <2> QED
    BY <2>1, FS_EmptySet DEF Number
<1> HIDE DEF new
<1>4. ~Counting => new.counts = b.counts /\ (~b.dirty => ~new.dirty)
  BY <1>1
<1>5. Counting => \A t \in Types : /\ new.counts[t] = b.counts[t] + Number(msgs, t)
                                   /\ ~new.dirty => ~b.dirty /\ Number(msgs, t) = 0
  BY <1>1, <1>2, <1>3
<1> QED
  BY <1>4, <1>5 DEF new

LEMMA TallyGrows ==
  ASSUME TypeInv, NEW i \in Sources, FinishLine(i), NEW t, NEW msgs,
         msgs = MessagesIn(CurrentLine(i))
  PROVE  /\ Number(Told(task'[i]), t) = Number(Told(task[i]), t) + Number(msgs, t)
         /\ SumFunctionOnSet(Tally(t)', Sources)
               = SumFunctionOnSet(Tally(t), Sources) + Number(msgs, t)
<1>1. msgs \in Seq(Msgs)
  BY CurrentTyped DEF FinishLine
<1>2. TaskStep(i) /\ Sources' = Sources /\ \A j \in Sources \ {i} : task'[j] = task[j]
  BY TaskMoves, ShapeStays DEF TaskStep
<1>3. Told(task'[i]) = Told(task[i]) \o msgs /\ Told(task[i]) \in Seq(Msgs)
  BY ToldOfFinish, ToldTyped DEF TypeInv, Tasks
<1>4. Number(Told(task'[i]), t) = Number(Told(task[i]), t) + Number(msgs, t)
  BY <1>1, <1>3, NumberConcat
<1>5. Tally(t) \in [Sources -> Nat] /\ IsFiniteSet(Sources)
  BY TallyTyped
<1>6. Tally(t)' = [Tally(t) EXCEPT ![i] = Tally(t)[i] + Number(msgs, t)]
  <2>1. \A j \in Sources : Number(Told(task'[j]), t)
           = IF j = i THEN Number(Told(task[i]), t) + Number(msgs, t)
                      ELSE Number(Told(task[j]), t)
    BY <1>2, <1>4
  <2> QED
    BY <1>2, <2>1 DEF Tally
<1>7. Number(msgs, t) \in Nat
  BY <1>1, NumberTyped
<1>8. PICK f, g, S : f = Tally(t) /\ g = Tally(t)' /\ S = Sources
  OBVIOUS
<1>9. /\ \A y \in S : f[y] \in Nat /\ g[y] \in Nat
      /\ i \in S /\ \A y \in S \ {i} : g[y] = f[y]
      /\ g[i] = f[i] + Number(msgs, t)
  BY <1>5, <1>6, <1>7, <1>8
<1>10. SumFunctionOnSet(g, S) = SumFunctionOnSet(f, S) - f[i] + g[i]
  BY <1>5, <1>8, <1>9, SumChangesAt
<1>11. PICK x \in Nat, y \in Nat, z \in Nat :
          x = SumFunctionOnSet(f, S) /\ y = f[i] /\ z = Number(msgs, t)
  BY <1>5, <1>7, <1>8, <1>9, SumOverSet
<1>12. SumFunctionOnSet(g, S) = x - y + (y + z)
  BY <1>9, <1>10, <1>11, Zenon
<1>13. x - y + (y + z) = x + z
  BY <1>11
<1> QED
  BY <1>4, <1>8, <1>11, <1>12, <1>13, Zenon

LEMMA BooksOfFinish ==
  ASSUME TypeInv, InOrder, BooksAgree, NEW i \in Sources, FinishLine(i)
  PROVE  BooksAgree'
<1>1. PICK msgs : msgs = MessagesIn(CurrentLine(i))
  OBVIOUS
<1>2. msgs \in Seq(Msgs)
  BY <1>1, CurrentTyped DEF FinishLine
<1>3. TaskStep(i) /\ UNCHANGED <<opts, emitted>> /\ Sources' = Sources /\ (Pages' <=> Pages)
      /\ (Parallel' <=> Parallel) /\ (Counting' <=> Counting)
      /\ \A j \in Sources \ {i} : task'[j] = task[j]
  BY TaskMoves, ShapeStays DEF TaskStep
<1>5. PICK c \in {Shared} \cup Sources : c = ContextOf(i)
  BY ContextIs DEF TypeInv
<1>6. BookOK(book[c]) /\ c \in DOMAIN book
  BY DEF TypeInv, Books
<1>7. PICK new : new = LineCounted(book[c], msgs)
  OBVIOUS
<1>8. book' = [book EXCEPT ![c] = new]
  <2>1. book' = [book EXCEPT ![ContextOf(i)] = LineCounted(@, MessagesIn(CurrentLine(i)))]
    BY DEF FinishLine
  <2> QED
    BY <1>1, <1>5, <1>7, <2>1
<1>9. book'[c] = new /\ \A d \in ({Shared} \cup Sources) \ {c} : book'[d] = book[d]
  BY <1>6, <1>8 DEF TypeInv, Books
<1>10. /\ ~Counting => new.counts = book[c].counts /\ (~book[c].dirty => ~new.dirty)
       /\ Counting => \A t \in Types : /\ new.counts[t] = book[c].counts[t] + Number(msgs, t)
                                       /\ ~new.dirty => ~book[c].dirty /\ Number(msgs, t) = 0
  BY <1>2, <1>6, <1>7, LineCountedIs
<1>11. ~Counting => \A d \in {Shared} \cup Sources :
                       ~book'[d].dirty /\ \A t \in Types : book'[d].counts[t] = 0
  <2> SUFFICES ASSUME ~Counting, NEW d \in {Shared} \cup Sources
               PROVE  ~book'[d].dirty /\ \A t \in Types : book'[d].counts[t] = 0
    OBVIOUS
  <2>1. ~book[d].dirty /\ \A t \in Types : book[d].counts[t] = 0
    BY DEF BooksAgree
  <2> QED
    BY <1>9, <1>10, <2>1
<1>12. ASSUME NEW j \in Sources, ~book'[j].dirty, NEW t \in Types PROVE book'[j].counts[t] = 0
  <2>1. ~book[j].dirty => book[j].counts[t] = 0
    BY DEF BooksAgree, NoCounts
  <2>2. CASE j # c
    BY <1>9, <1>12, <2>1, <2>2
  <2>3. CASE j = c /\ ~Counting
    BY <1>11, <2>3
  <2>4. CASE j = c /\ Counting
    <3>1. ~book[c].dirty /\ Number(msgs, t) = 0 /\ new.counts[t] = book[c].counts[t] + Number(msgs, t)
      BY <1>9, <1>10, <1>12, <2>4
    <3> QED
      BY <1>9, <2>1, <2>4, <3>1
  <2> QED
    BY <2>2, <2>3, <2>4
<1>13. ASSUME NEW t
       PROVE  Number(Told(task'[i]), t) = Number(Told(task[i]), t) + Number(msgs, t)
  BY <1>1, TallyGrows
<1>14. ASSUME Counting, NEW t \in Types, Pages \/ Parallel, NEW j \in Sources
       PROVE  book'[j].counts[t] = Number(Told(task'[j]), t)
  <2>1. c = i
    BY <1>5, <1>14 DEF ContextOf
  <2>2. book[j].counts[t] = Number(Told(task[j]), t)
    BY <1>14 DEF BooksAgree
  <2>3. CASE j = i
    <3>1. book'[i].counts[t] = book[i].counts[t] + Number(msgs, t)
      BY <1>9, <1>10, <1>14, <2>1
    <3> QED
      BY <1>13, <2>2, <2>3, <3>1
  <2>4. CASE j # i
    BY <1>3, <1>9, <2>1, <2>2, <2>4
  <2> QED
    BY <2>3, <2>4
<1>15. ASSUME Counting, NEW t \in Types, ~Pages
       PROVE  book'[Shared].counts[t] = SumFunctionOnSet(Tally(t)', Summed')
  <2>1. Summed' = Summed
    BY <1>3 DEF Summed
  <2>2. book[Shared].counts[t] = SumFunctionOnSet(Tally(t), Summed)
    BY <1>15 DEF BooksAgree
  <2>3. CASE Parallel
    <3>1. Summed = {}
      BY <2>3, OrderOfTaskStep, <1>3 DEF TypeInv, Scalars, Summed
    <3>2. SumFunctionOnSet(Tally(t), {}) = 0 /\ SumFunctionOnSet(Tally(t)', {}) = 0
      BY SumOfNone
    <3>3. book'[Shared] = book[Shared]
      <4>1. c = i /\ 0 \notin Sources
        BY <1>5, <2>3, DiagnosesTyped DEF ContextOf
      <4> QED
        BY <1>9, <4>1 DEF Shared
    <3> QED
      BY <2>1, <2>2, <3>1, <3>2, <3>3
  <2>4. CASE ~Parallel
    <3>1. c = Shared
      BY <1>5, <1>15, <2>4 DEF ContextOf
    <3>2. book'[Shared].counts[t] = book[Shared].counts[t] + Number(msgs, t)
      BY <1>9, <1>10, <1>15, <3>1
    <3>3. SumFunctionOnSet(Tally(t)', Sources) = SumFunctionOnSet(Tally(t), Sources) + Number(msgs, t)
      BY <1>1, TallyGrows
    <3>4. Summed = Sources
      BY <2>4 DEF Summed
    <3> QED
      BY <2>1, <2>2, <3>2, <3>3, <3>4
  <2> QED
    BY <2>3, <2>4
<1> QED
  BY <1>3, <1>11, <1>12, <1>14, <1>15 DEF BooksAgree, NoCounts

-----------------------------------------------------------------------------
LEMMA BooksOfEmit ==
  ASSUME TypeInv, BooksAgree, EmitFile
  PROVE  BooksAgree'
<1>1. PICK i : i = emitted + 1
  OBVIOUS
<1>2. /\ UNCHANGED <<opts, task>> /\ Parallel /\ i \in Sources /\ emitted' = i
      /\ book' = [book EXCEPT ![Shared] = MergedCounts(@, book[i])]
  BY <1>1 DEF EmitFile
<1>3. /\ Sources' = Sources /\ (Pages' <=> Pages) /\ Parallel' /\ (Counting' <=> Counting)
      /\ ~Pages
  BY <1>2, ShapeStays DEF Parallel
<1>4. /\ i \in Nat /\ emitted \in Nat /\ 0 \notin Sources
      /\ Sources = 1 .. Len(opts.sources) /\ Len(opts.sources) \in Nat
  BY <1>2, SourcesAre DEF TypeInv, Scalars
<1>5. \A c \in {Shared} \cup Sources : BookOK(book[c]) /\ c \in DOMAIN book
  BY DEF TypeInv, Books
<1>6. /\ \A j \in Sources : book'[j] = book[j]
      /\ book'[Shared] = MergedCounts(book[Shared], book[i])
  BY <1>2, <1>4, <1>5 DEF Shared
<1>7. PICK a, b, new : a = book[Shared] /\ b = book[i] /\ new = MergedCounts(a, b)
  OBVIOUS
<1>8. new.dirty = (a.dirty \/ b.dirty)
      /\ \A t \in Types : new.counts[t] = a.counts[t] + b.counts[t]
  BY <1>2, <1>5, <1>7 DEF MergedCounts, BookOK
<1>9. ~Counting => \A c \in {Shared} \cup Sources :
                      ~book'[c].dirty /\ \A t \in Types : book'[c].counts[t] = 0
  <2> SUFFICES ASSUME ~Counting
               PROVE  \A c \in {Shared} \cup Sources :
                         ~book'[c].dirty /\ \A t \in Types : book'[c].counts[t] = 0
    OBVIOUS
  <2>1. \A c \in {Shared} \cup Sources :
           ~book[c].dirty /\ \A t \in Types : book[c].counts[t] = 0
    BY DEF BooksAgree
  <2>2. ~new.dirty /\ \A t \in Types : new.counts[t] = 0
    <3>1. ~a.dirty /\ ~b.dirty /\ \A t \in Types : a.counts[t] = 0 /\ b.counts[t] = 0
      BY <1>2, <1>7, <2>1
    <3>2. 0 + 0 = 0
      OBVIOUS
    <3> QED
      BY <1>8, <3>1, <3>2, Zenon
  <2> QED
    BY <1>6, <1>7, <2>1, <2>2
<1>10. \A j \in Sources : ~book'[j].dirty => \A t \in Types : book'[j].counts[t] = 0
  BY <1>6 DEF BooksAgree, NoCounts
<1>11. ASSUME Counting, NEW t \in Types
       PROVE  /\ \A j \in Sources : book'[j].counts[t] = Number(Told(task'[j]), t)
              /\ book'[Shared].counts[t] = SumFunctionOnSet(Tally(t)', Summed')
  <2>1. \A j \in Sources : book[j].counts[t] = Number(Told(task[j]), t)
    BY <1>2, <1>11 DEF BooksAgree
  <2>2. PICK f \in [Sources -> Nat] : f = Tally(t) /\ f = Tally(t)'
    BY <1>2, TallyTyped, TallyStays
  <2>3. a.counts[t] = SumFunctionOnSet(f, 1 .. emitted) /\ f[i] = b.counts[t]
    BY <1>2, <1>3, <1>7, <1>11, <2>1, <2>2 DEF BooksAgree, Summed, Tally
  <2>4. PICK S : S = 1 .. i /\ S \ {i} = 1 .. emitted /\ i \in S
    BY <1>1, <1>4
  <2>5. IsFiniteSet(S) /\ \A x \in S : f[x] \in Nat
    <3>1. S \subseteq Sources
      BY <1>2, <1>4, <2>4
    <3>2. IsFiniteSet(1 .. i)
      BY <1>4, FS_Interval
    <3> QED
      BY <2>4, <3>1, <3>2
  <2>6. SumFunctionOnSet(f, S) = f[i] + SumFunctionOnSet(f, S \ {i})
    BY <2>4, <2>5, SumOverSet
  <2>7. a.counts[t] \in Nat /\ b.counts[t] \in Nat
    BY <1>2, <1>5, <1>7 DEF BookOK
  <2>8. SumFunctionOnSet(f, S) = b.counts[t] + a.counts[t]
    BY <2>3, <2>4, <2>6
  <2>9. Summed' = S
    BY <1>2, <1>3, <2>4 DEF Summed
  <2>10. new.counts[t] = b.counts[t] + a.counts[t]
    BY <1>8, <2>7
  <2> QED
    BY <1>2, <1>6, <1>7, <2>1, <2>2, <2>8, <2>9, <2>10
<1> QED
  BY <1>3, <1>9, <1>10, <1>11 DEF BooksAgree, NoCounts

LEMMA QuietSteps ==
  ASSUME [Next]_vars, ~EmitFile, \A i \in Sources : ~TaskStep(i)
  PROVE  UNCHANGED <<task, book, emitted>>
<1>1. CASE ReadOptions \/ Begin \/ Close \/ Exit
  BY <1>1 DEF ReadOptions, Begin, Close, Exit
<1>2. CASE Register \/ Answer
  BY <1>2, Zenon DEF Register, Answer
<1>3. CASE Interrupt \/ QuitPager \/ (\E i \in Sources : Arrive(i)) \/ UNCHANGED vars
  BY <1>3 DEF Interrupt, QuitPager, Arrive, vars, fileVars
<1> QED
  BY <1>1, <1>2, <1>3 DEF Next, MainStep

LEMMA BooksKept ==
  ASSUME TypeInv, InOrder, BooksAgree, [Next]_vars
  PROVE  BooksAgree'
<1>1. opts' = opts /\ Sources' = Sources
  BY OptsStay, ShapeStays
<1>2. CASE UNCHANGED <<task, book, emitted>>
  BY <1>1, <1>2, BooksAgreeStay
<1>3. CASE ~EmitFile /\ \A i \in Sources : ~TaskStep(i)
  BY <1>2, <1>3, QuietSteps
<1>4. CASE EmitFile
  BY <1>4, BooksOfEmit
<1>6. ASSUME NEW i \in Sources, TaskStep(i) PROVE BooksAgree'
  <2>1. emitted' = emitted /\ \A j \in Sources \ {i} : task'[j] = task[j]
    BY <1>6, TaskMoves
  <2>2. \A c \in {Shared} \cup Sources : BookOK(book[c]) /\ c \in DOMAIN book
    BY DEF TypeInv, Books
  <2>3. 0 \notin Sources
    BY DiagnosesTyped
  <2>4. CASE FinishLine(i)
    BY <2>4, BooksOfFinish
  <2>5. CASE ~FinishLine(i)
    <3>1. \A j \in Sources : Told(task'[j]) = Told(task[j])
      BY <1>6, <2>1, <2>5, ToldOtherwise
    <3>2. CASE book' = book
      BY <1>1, <2>1, <3>1, <3>2, BooksAgreeStay
    <3>3. CASE TakeDictionary(i)
      <4>1. \A c \in {Shared} \cup Sources :
               book'[c].counts = book[c].counts /\ book'[c].dirty = book[c].dirty
        BY <2>2, <3>3 DEF TakeDictionary, BookOK
      <4> QED
        BY <1>1, <2>1, <3>1, <4>1, BooksAgreeStay
    <3>4. CASE LiveCounts(i)
      <4>1. /\ \A c \in {Shared} \cup Sources : book'[c].counts = book[c].counts
            /\ \A j \in Sources : book'[j] = book[j]
            /\ ~book'[Shared].dirty
        BY <2>2, <2>3, <3>4 DEF LiveCounts, BookOK, Shared
      <4> QED
        BY <1>1, <2>1, <3>1, <4>1, BooksAgreeStay
    <3> QED
      BY <1>6, <2>5, <3>2, <3>3, <3>4 DEF TaskStep, OpenSource, TakeLine, AskDictionary,
         FindDictionary, EndSource, fileVars
  <2> QED
    BY <2>4, <2>5
<1> QED
  BY <1>3, <1>4, <1>6

(* The summary's log grows by what is told.                                *)
LEMMA TrackedKept ==
  ASSUME TypeInv, TrackedAgrees, [Next]_vars
  PROVE  TrackedAgrees'
<1>1. UNCHANGED opts /\ Sources' = Sources /\ (Parallel => ~opts.summary) /\ BookOK(book[Shared])
      /\ Shared \in DOMAIN book
  BY OptsStay, ShapeStays DEF Parallel, TypeInv, Books
<1>2. ASSUME book'[Shared].tracked = book[Shared].tracked,
             \A i \in Sources : Told(task'[i]) = Told(task[i])
      PROVE  TrackedAgrees'
  BY <1>1, <1>2, TallyStays DEF TrackedAgrees
<1>3. CASE ~EmitFile /\ \A i \in Sources : ~TaskStep(i)
  BY <1>2, <1>3, QuietSteps
<1>4. CASE EmitFile
  BY <1>1, <1>4 DEF EmitFile, TrackedAgrees
<1>5. ASSUME NEW i \in Sources, TaskStep(i) PROVE TrackedAgrees'
  <2>1. CASE FinishLine(i)
    <3> SUFFICES ASSUME opts.summary, NEW t \in Types
                 PROVE  Number(book'[Shared].tracked, t) = SumFunctionOnSet(Tally(t)', Sources)
      BY <1>1 DEF TrackedAgrees
    <3>1. PICK msgs \in Seq(Msgs) : msgs = MessagesIn(CurrentLine(i))
      BY <2>1, CurrentTyped DEF FinishLine
    <3>2. book'[Shared].tracked = book[Shared].tracked \o msgs
      <4>1. ContextOf(i) = Shared
        BY DEF ContextOf, Pages, Parallel
      <4>2. PICK b, new : b = book[Shared] /\ new = LineCounted(b, msgs)
        OBVIOUS
      <4>3. book' = [book EXCEPT ![Shared] = new]
        BY <2>1, <3>1, <4>1, <4>2 DEF FinishLine
      <4>4. new.tracked = b.tracked \o msgs
        BY <1>1, <4>2 DEF LineCounted, BookOK
      <4> QED
        BY <1>1, <4>2, <4>3, <4>4
    <3>3. Number(book'[Shared].tracked, t) = Number(book[Shared].tracked, t) + Number(msgs, t)
      BY <1>1, <3>2, NumberConcat DEF BookOK
    <3>4. SumFunctionOnSet(Tally(t)', Sources) = SumFunctionOnSet(Tally(t), Sources) + Number(msgs, t)
      BY <2>1, <3>1, TallyGrows
    <3> QED
      BY <3>3, <3>4 DEF TrackedAgrees
  <2>2. CASE ~FinishLine(i)
    <3>1. \A j \in Sources : Told(task'[j]) = Told(task[j])
      BY <1>5, <2>2, TaskMoves, ToldOtherwise
    <3>2. book'[Shared].tracked = book[Shared].tracked
      <4>1. CASE TakeDictionary(i) \/ LiveCounts(i)
        BY <1>1, <4>1 DEF TakeDictionary, LiveCounts, BookOK
      <4>2. CASE OpenSource(i) \/ TakeLine(i) \/ AskDictionary(i) \/ FindDictionary(i) \/ EndSource(i)
        BY <4>2 DEF OpenSource, TakeLine, AskDictionary, FindDictionary, EndSource, fileVars
      <4> QED
        BY <1>5, <2>2, <4>1, <4>2 DEF TaskStep
    <3> QED
      BY <1>2, <3>1, <3>2
  <2> QED
    BY <2>1, <2>2
<1> QED
  BY <1>3, <1>4, <1>5

(* Blocks that are no counts, and what they leave shown.                   *)
LEMMA BlocksTogether ==
  ASSUME NEW a, Blocks(a), NEW b, Blocks(b)
  PROVE  /\ Blocks(a \o b)
         /\ \E S : a \in Seq(S) /\ b \in Seq(S) /\ a \o b \in Seq(S)
<1>1. PICK S : S = ToSet(a) \cup ToSet(b)
  OBVIOUS
<1>2. a \in Seq(S) /\ b \in Seq(S)
  BY <1>1, SeqMonotonic DEF Blocks
<1>3. a \o b \in Seq(S)
  BY <1>2, ConcatProperties
<1> QED
  BY <1>2, <1>3, InSeqOfElements DEF Blocks

LEMMA CountsOfBoth ==
  ASSUME NEW S, NEW a \in Seq(S), NEW b \in Seq(S)
  PROVE  /\ CountsAt(a \o b) = CountsAt(a) \cup {Len(a) + k : k \in CountsAt(b)}
         /\ CountsAt(a) \subseteq 1 .. Len(a)
         /\ \A k \in 1 .. Len(a) : (a \o b)[k] = a[k]
         /\ \A k \in 1 .. Len(b) : (a \o b)[Len(a) + k] = b[k]
<1>1. PICK c : c = a \o b
  OBVIOUS
<1>2. /\ DOMAIN a = 1 .. Len(a) /\ DOMAIN b = 1 .. Len(b) /\ DOMAIN c = 1 .. Len(a) + Len(b)
      /\ Len(a) \in Nat /\ Len(b) \in Nat
      /\ \A k \in 1 .. Len(a) : c[k] = a[k]
      /\ \A k \in 1 .. Len(b) : c[Len(a) + k] = b[k]
  BY <1>1
<1>3. \A k \in 1 .. Len(a) + Len(b) :
         k \in 1 .. Len(a) \/ (k - Len(a) \in 1 .. Len(b) /\ k = Len(a) + (k - Len(a)))
  BY <1>2
<1>4. CountsAt(c) = CountsAt(a) \cup {Len(a) + k : k \in CountsAt(b)}
  <2>1. \A k \in CountsAt(c) : k \in CountsAt(a) \/ k - Len(a) \in CountsAt(b)
    BY <1>2, <1>3 DEF CountsAt
  <2>2. \A k \in CountsAt(c) : k = Len(a) + (k - Len(a))
    BY <1>2 DEF CountsAt
  <2>3. \A k \in CountsAt(a) : k \in CountsAt(c)
    BY <1>2 DEF CountsAt
  <2>4. \A k \in CountsAt(b) : Len(a) + k \in CountsAt(c)
    BY <1>2 DEF CountsAt
  <2> QED
    BY <2>1, <2>2, <2>3, <2>4
<1> QED
  BY <1>1, <1>2, <1>4 DEF CountsAt

LEMMA PlainTogether ==
  ASSUME NEW a, Blocks(a), NEW b, PlainBlocks(b), NEW t
  PROVE  /\ LastShown(a \o b, t) = LastShown(a, t)
         /\ PlainBlocks(a) => PlainBlocks(a \o b)
<1>1. PICK S : a \in Seq(S) /\ b \in Seq(S)
  BY BlocksTogether DEF PlainBlocks
<1>2. CountsAt(a \o b) = CountsAt(a) /\ CountsAt(a) \subseteq 1 .. Len(a) /\ Len(a) \in Nat
      /\ \A k \in 1 .. Len(a) : (a \o b)[k] = a[k]
  <2>1. CountsAt(a \o b) = CountsAt(a) \cup {Len(a) + k : k \in CountsAt(b)}
        /\ CountsAt(a) \subseteq 1 .. Len(a)
        /\ \A k \in 1 .. Len(a) : (a \o b)[k] = a[k]
    BY <1>1, CountsOfBoth
  <2>2. {Len(a) + k : k \in CountsAt(b)} = {}
    BY DEF PlainBlocks
  <2>3. Len(a) \in Nat
    BY <1>1
  <2> QED
    BY <2>1, <2>2, <2>3
<1>3. Blocks(a \o b)
  BY BlocksTogether DEF PlainBlocks
<1>4. CountsAt(a) # {} => Max(CountsAt(a)) \in 1 .. Len(a)
  <2>1. CountsAt(a) \subseteq 0 .. Len(a)
    BY <1>2
  <2> QED
    BY <1>2, <2>1, MaxIs
<1> QED
  BY <1>2, <1>3, <1>4 DEF LastShown, PlainBlocks

LEMMA CountsLast ==
  ASSUME NEW a, Blocks(a), NEW c, c.kind = "counts", NEW t
  PROVE  LastShown(a \o <<c>>, t) = c.counts[t]
<1>1. Blocks(<<c>>)
  BY DEF Blocks, ToSet
<1>2. PICK S : a \in Seq(S) /\ <<c>> \in Seq(S)
  BY <1>1, BlocksTogether
<1>3. PICK n \in Nat : n = Len(a) + 1
  BY <1>2
<1>4. CountsAt(<<c>>) = {1}
  BY DEF CountsAt
<1>5. /\ CountsAt(a \o <<c>>) = CountsAt(a) \cup {n}
      /\ CountsAt(a) \subseteq 1 .. Len(a) /\ (a \o <<c>>)[n] = c
  <2>1. /\ CountsAt(a \o <<c>>) = CountsAt(a) \cup {Len(a) + k : k \in {1}}
        /\ CountsAt(a) \subseteq 1 .. Len(a)
        /\ (a \o <<c>>)[Len(a) + 1] = c
    <3>1. PICK b \in Seq(S) : b = <<c>>
      BY <1>2
    <3>2. /\ CountsAt(a \o b) = CountsAt(a) \cup {Len(a) + k : k \in CountsAt(b)}
          /\ CountsAt(a) \subseteq 1 .. Len(a)
          /\ \A k \in 1 .. Len(b) : (a \o b)[Len(a) + k] = b[k]
      BY <1>2, CountsOfBoth
    <3>3. 1 \in 1 .. Len(b) /\ b[1] = c
      BY <3>1
    <3> QED
      BY <1>4, <3>1, <3>2, <3>3
  <2> QED
    BY <1>3, <2>1
<1>6. Max(CountsAt(a) \cup {n}) = n
  <2>1. CountsAt(a) \cup {n} \subseteq 0 .. n /\ n \in CountsAt(a) \cup {n}
    BY <1>2, <1>3, <1>5
  <2>2. PICK m : m = Max(CountsAt(a) \cup {n})
    OBVIOUS
  <2>3. m \in 0 .. n /\ n <= m
    BY <2>1, <2>2, MaxIs
  <2> QED
    BY <1>3, <2>2, <2>3
<1> QED
  BY <1>5, <1>6 DEF LastShown

(* What is written of a source while it is read are no counts.             *)
LEMMA PlainNone == PlainBlocks(<< >>)
BY DEF PlainBlocks, Blocks, ToSet, CountsAt

LEMMA PlainOne ==
  ASSUME NEW c, c.kind # "counts"
  PROVE  PlainBlocks(<<c>>)
BY DEF PlainBlocks, Blocks, ToSet, CountsAt

LEMMA PlainOfLine ==
  ASSUME NEW i, NEW text, NEW shown
  PROVE  PlainBlocks(BlocksOf(i, text, shown)) /\ PlainBlocks(Announcement(i))
<1>1. PlainBlocks(Announcement(i))
  BY PlainOne DEF Announcement
<1>2. ASSUME NEW some PROVE PlainBlocks(LineBlock(i, text, some))
  BY PlainOne DEF LineBlock
<1>3. \/ BlocksOf(i, text, shown) = << >>
      \/ \E some : BlocksOf(i, text, shown) = LineBlock(i, text, some)
  BY Zenon DEF BlocksOf
<1> QED
  BY <1>1, <1>2, <1>3, PlainNone

(* Writing such blocks.                                                    *)
LEMMA PlainWrite ==
  ASSUME UNCHANGED opts, NEW i \in Sources, NEW blocks, PlainBlocks(blocks), Write(i, blocks),
         Buffers, Blocks(printed)
  PROVE  /\ Buffers' /\ Blocks(printed')
         /\ \A t : LastShown(printed', t) = LastShown(printed, t)
<1>1. Sources' = Sources
  BY ShapeStays
<1>2. Buffers'
  <2>1. CASE buffer' = buffer
    BY <1>1, <2>1 DEF Buffers
  <2>2. CASE buffer' = [buffer EXCEPT ![i] = @ \o blocks]
    <3>1. PlainBlocks(buffer[i] \o blocks)
      BY PlainTogether DEF Buffers, PlainBlocks
    <3>2. \A j \in Sources : PlainBlocks(buffer'[j])
      BY <2>2, <3>1 DEF Buffers
    <3> QED
      BY <1>1, <2>2, <3>2 DEF Buffers
  <2> QED
    BY <2>1, <2>2 DEF Write
<1>3. printed' = printed \/ printed' = printed \o blocks
  BY DEF Write
<1>4. Blocks(printed \o blocks) /\ \A t : LastShown(printed \o blocks, t) = LastShown(printed, t)
  BY BlocksTogether, PlainTogether DEF PlainBlocks
<1> QED
  BY <1>2, <1>3, <1>4

(* Nothing is shown, and nothing is counted.                               *)
LEMMA ShownStays ==
  ASSUME ShownSoFar, UNCHANGED <<opts, printed, buffer, left, stage>>, stage # "close",
         book'[Shared].dirty = book[Shared].dirty, book'[Shared].counts = book[Shared].counts
  PROVE  ShownSoFar'
<1>1. Sources' = Sources /\ (Pages' <=> Pages) /\ (SummaryPager' <=> SummaryPager)
  BY ShapeStays
<1> QED
  BY <1>1 DEF ShownSoFar, Tells, Buffers, Blocks, PlainBlocks, LastShown, CountsAt

LEMMA ShownOfMain ==
  ASSUME ShownSoFar, ReadOptions \/ Register \/ Begin \/ Exit \/ Interrupt \/ QuitPager,
         [Next]_vars
  PROVE  ShownSoFar'
<1>1. opts' = opts /\ UNCHANGED <<printed, buffer, book, task>>
  BY OptsStay DEF ReadOptions, Register, Begin, Exit, Interrupt, QuitPager
<1>2. Sources' = Sources /\ (Pages' <=> Pages) /\ (SummaryPager' <=> SummaryPager)
      /\ (CountsDue' <=> CountsDue)
  BY <1>1, ShapeStays
<1>3. Buffers' /\ Blocks(printed')
  BY <1>1, <1>2 DEF ShownSoFar, Buffers, Blocks, PlainBlocks, CountsAt
<1>4. stage' \notin {"close", "exit"} => stage \notin {"close", "exit"}
  BY DEF ReadOptions, Register, Begin, Exit, Interrupt, QuitPager, Ends, Goes
<1>5. Tells => Tells'
  BY <1>1, <1>2 DEF Tells, LastShown, CountsAt
<1>6. stage' = "close" => stage = "close" /\ left' = left
  BY DEF ReadOptions, Register, Begin, Exit, Interrupt, QuitPager, Ends, Goes
<1>7. \A t \in Types : ShownCounts(t)' = ShownCounts(t) /\ Tally(t)' = Tally(t)
  BY <1>1, <1>2 DEF ShownCounts, Tally
<1> QED
  BY <1>2, <1>3, <1>4, <1>5, <1>6, <1>7 DEF ShownSoFar

LEMMA ShownOfAnswer ==
  ASSUME ShownSoFar, Answer
  PROVE  ShownSoFar'
<1>1. /\ UNCHANGED <<opts, buffer, book>> /\ stage = "answer" /\ stage' \in {"answer", "exit"}
      /\ \/ printed' = printed
         \/ \E c : printed' = Append(printed, c) /\ c.kind = "answer"
  <2>1. \A command : AnswerTo(command).kind = "answer"
    BY DEF AnswerTo
  <2> QED
    BY <2>1 DEF Answer, Ends
<1>2. Sources' = Sources /\ (Pages' <=> Pages) /\ (SummaryPager' <=> SummaryPager)
  BY <1>1, ShapeStays
<1>3. Blocks(printed') /\ \A t : LastShown(printed', t) = LastShown(printed, t)
  <2>1. Blocks(printed)
    BY DEF ShownSoFar
  <2>2. CASE printed' = printed
    BY <2>1, <2>2
  <2>3. ASSUME NEW c, printed' = Append(printed, c), c.kind = "answer"
        PROVE  Blocks(printed') /\ \A t : LastShown(printed', t) = LastShown(printed, t)
    <3>1. PlainBlocks(<<c>>)
      BY <2>3, PlainOne
    <3>2. printed' = printed \o <<c>>
      BY <2>1, <2>3, AppendIsConcat DEF Blocks
    <3> QED
      BY <2>1, <3>1, <3>2, PlainTogether, BlocksTogether DEF PlainBlocks
  <2> QED
    BY <1>1, <2>2, <2>3
<1>4. Buffers'
  BY <1>1, <1>2 DEF ShownSoFar, Buffers, Blocks, PlainBlocks, CountsAt
<1>5. Tells => Tells'
  BY <1>1, <1>2, <1>3 DEF Tells
<1> QED
  BY <1>1, <1>3, <1>4, <1>5 DEF ShownSoFar

(* A line is shown, and counted: the last counts are not those of the book *)
(* any more if it has messages to count.                                   *)
LEMMA ShownOfFinish ==
  ASSUME TypeInv, InOrder, ShownSoFar, NEW i \in Sources, FinishLine(i)
  PROVE  ShownSoFar'
<1>1. PICK msgs \in Seq(Msgs) : msgs = MessagesIn(CurrentLine(i))
  BY CurrentTyped DEF FinishLine
<1>2. TaskStep(i) /\ UNCHANGED <<opts, left, stage>> /\ stage # "close"
  BY OrderOfTaskStep, TaskMoves DEF TaskStep
<1>3. Sources' = Sources /\ (Pages' <=> Pages) /\ (SummaryPager' <=> SummaryPager)
  BY <1>2, ShapeStays
<1>4. Buffers' /\ Blocks(printed') /\ \A t : LastShown(printed', t) = LastShown(printed, t)
  <2>1. PICK blocks : PlainBlocks(blocks) /\ Write(i, blocks)
    BY PlainOfLine DEF FinishLine
  <2> QED
    BY <1>2, <2>1, PlainWrite DEF ShownSoFar
<1>5. PICK c \in {Shared} \cup Sources : c = ContextOf(i)
  BY ContextIs DEF TypeInv
<1>6. book' = [book EXCEPT ![c] = LineCounted(@, msgs)]
  BY <1>1, <1>5 DEF FinishLine
<1>7. BookOK(book[c]) /\ BookOK(book[Shared]) /\ DOMAIN book = {Shared} \cup Sources
  BY DEF TypeInv, Books
<1>8. ~book'[Shared].dirty =>
         ~book[Shared].dirty /\ \A t \in Types : book'[Shared].counts[t] = book[Shared].counts[t]
  <2>1. CASE c # Shared
    <3>1. book'[Shared] = book[Shared]
      BY <1>6, <1>7, <2>1
    <3> QED
      BY <3>1
  <2>2. CASE c = Shared
    <3>1. PICK new : new = LineCounted(book[c], msgs)
      OBVIOUS
    <3>2. book'[Shared] = new
      BY <1>6, <1>7, <2>2, <3>1
    <3>3. /\ ~Counting => new.counts = book[c].counts /\ (~book[c].dirty => ~new.dirty)
          /\ Counting => \A t \in Types : /\ new.counts[t] = book[c].counts[t] + Number(msgs, t)
                                          /\ ~new.dirty => ~book[c].dirty /\ Number(msgs, t) = 0
      BY <1>7, <3>1, LineCountedIs
    <3>4. ~new.dirty => ~book[c].dirty
      BY <1>7, <3>1 DEF LineCounted, BookOK
    <3>5. ASSUME ~new.dirty, NEW t \in Types PROVE new.counts[t] = book[c].counts[t]
      <4>1. CASE Counting
        <5>1. new.counts[t] = book[c].counts[t] + 0 /\ book[c].counts[t] \in Nat
          BY <1>7, <3>3, <3>5, <4>1 DEF BookOK
        <5> QED
          BY <5>1
      <4>2. CASE ~Counting
        BY <3>3, <4>2
      <4> QED
        BY <4>1, <4>2
    <3> QED
      BY <2>2, <3>2, <3>4, <3>5
  <2> QED
    BY <2>1, <2>2
<1>9. Tells => Tells'
  BY <1>3, <1>4, <1>8 DEF Tells
<1> QED
  BY <1>2, <1>4, <1>9 DEF ShownSoFar

LEMMA ShownOfLive ==
  ASSUME TypeInv, InOrder, BooksAgree, ShownSoFar, NEW i \in Sources, LiveCounts(i)
  PROVE  ShownSoFar'
<1>1. TaskStep(i) /\ UNCHANGED <<opts, left, stage>> /\ stage # "close"
  BY OrderOfTaskStep, TaskMoves DEF TaskStep
<1>2. Sources' = Sources /\ (Pages' <=> Pages) /\ (SummaryPager' <=> SummaryPager)
  BY <1>1, ShapeStays
<1>3. ~UsesPager /\ ~Pages /\ ~Parallel /\ ~SummaryPager /\ ~left
  BY DEF LiveCounts, LiveStatus, Pages, Parallel, SummaryPager, InOrder
<1>4. book[Shared].dirty /\ opts.count
  <2>1. book[Shared].dirty
    BY DEF LiveCounts
  <2> QED
    BY <2>1 DEF BooksAgree, Counting
<1>5. PICK b : b = book[Shared]
  OBVIOUS
<1>6. printed' = printed \o <<[kind |-> "counts", counts |-> b.counts]>> /\ buffer' = buffer
  BY <1>3, <1>4, <1>5 DEF LiveCounts, Write, CountsBlock
<1>7. book'[Shared].counts = b.counts
  BY <1>5 DEF LiveCounts, TypeInv, Books, BookOK
<1>8. PICK c : c = [kind |-> "counts", counts |-> b.counts]
  OBVIOUS
<1>9. \A t : LastShown(printed', t) = b.counts[t]
  BY <1>6, <1>8, CountsLast DEF ShownSoFar
<1>10. Blocks(printed')
  <2>1. Blocks(<<c>>) /\ Blocks(printed)
    BY DEF Blocks, ToSet, ShownSoFar
  <2> QED
    BY <1>6, <1>8, <2>1, BlocksTogether
<1>11. Buffers'
  BY <1>2, <1>6 DEF ShownSoFar, Buffers
<1> QED
  BY <1>1, <1>2, <1>3, <1>7, <1>9, <1>10, <1>11 DEF ShownSoFar, Tells

LEMMA ShownOfTaskStep ==
  ASSUME TypeInv, InOrder, BooksAgree, ShownSoFar, NEW i \in Sources, TaskStep(i)
  PROVE  ShownSoFar'
<1>1. UNCHANGED <<opts, left, stage>> /\ stage # "close"
  BY OrderOfTaskStep, TaskMoves
<1>2. Sources' = Sources /\ (Pages' <=> Pages) /\ (SummaryPager' <=> SummaryPager)
  BY <1>1, ShapeStays
<1>3. CASE OpenSource(i)
  <2>1. book' = book
    BY <1>3 DEF OpenSource
  <2>2. Buffers' /\ Blocks(printed') /\ \A t : LastShown(printed', t) = LastShown(printed, t)
    <3>1. CASE Write(i, Announcement(i))
      BY <1>1, <3>1, PlainOfLine, PlainWrite DEF ShownSoFar
    <3>2. CASE UNCHANGED <<buffer, printed>>
      BY <1>2, <3>2 DEF ShownSoFar, Buffers
    <3> QED
      BY <1>3, <3>1, <3>2 DEF OpenSource
  <2>3. Tells => Tells'
    BY <1>2, <2>1, <2>2 DEF Tells
  <2> QED
    BY <1>1, <2>2, <2>3 DEF ShownSoFar
<1>4. CASE TakeLine(i) \/ AskDictionary(i) \/ FindDictionary(i) \/ EndSource(i)
  <2>1. UNCHANGED <<printed, buffer, book>>
    BY <1>4 DEF TakeLine, AskDictionary, FindDictionary, EndSource, fileVars
  <2> QED
    BY <1>1, <2>1, ShownStays
<1>5. CASE TakeDictionary(i)
  <2>1. UNCHANGED <<printed, buffer>>
    BY <1>5 DEF TakeDictionary
  <2>2. BookOK(book[Shared]) /\ Shared \in DOMAIN book
    BY DEF TypeInv, Books
  <2>3. book'[Shared].dirty = book[Shared].dirty /\ book'[Shared].counts = book[Shared].counts
    BY <1>5, <2>2 DEF TakeDictionary, BookOK
  <2> QED
    BY <1>1, <2>1, <2>3, ShownStays
<1> QED
  BY <1>3, <1>4, <1>5, ShownOfFinish, ShownOfLive DEF TaskStep

-----------------------------------------------------------------------------
LEMMA ShownOfEmit ==
  ASSUME TypeInv, BooksAgree, ShownSoFar, EmitFile
  PROVE  ShownSoFar'
<1>1. PICK i : i = emitted + 1
  OBVIOUS
<1>2. /\ UNCHANGED <<opts, task, buffer, left, stage>> /\ i \in Sources /\ stage = "process"
      /\ book' = [book EXCEPT ![Shared] = MergedCounts(@, book[i])]
      /\ printed' = IF left THEN printed ELSE printed \o buffer[i]
  BY <1>1 DEF EmitFile
<1>3. Sources' = Sources /\ (Pages' <=> Pages) /\ (SummaryPager' <=> SummaryPager)
  BY <1>2, ShapeStays
<1>4. Buffers'
  BY <1>2, <1>3 DEF ShownSoFar, Buffers
<1>5. Blocks(printed') /\ \A t : LastShown(printed', t) = LastShown(printed, t)
  <2>1. Blocks(printed) /\ PlainBlocks(buffer[i])
    BY <1>2 DEF ShownSoFar, Buffers
  <2>2. /\ Blocks(printed \o buffer[i])
        /\ \A t : LastShown(printed \o buffer[i], t) = LastShown(printed, t)
    BY <2>1, BlocksTogether, PlainTogether DEF PlainBlocks
  <2> QED
    BY <1>2, <2>1, <2>2
<1>6. PICK a, b, new : a = book[Shared] /\ b = book[i] /\ new = MergedCounts(a, b)
  OBVIOUS
<1>7. BookOK(a) /\ BookOK(b) /\ Shared \in DOMAIN book
  BY <1>2, <1>6 DEF TypeInv, Books
<1>8. book'[Shared] = new
  BY <1>2, <1>6, <1>7
<1>9. new.dirty = (a.dirty \/ b.dirty)
      /\ \A t \in Types : new.counts[t] = a.counts[t] + b.counts[t]
  BY <1>6, <1>7 DEF MergedCounts, BookOK
<1>10. ASSUME ~new.dirty, NEW t \in Types PROVE ~a.dirty /\ new.counts[t] = a.counts[t]
  <2>1. ~a.dirty /\ ~b.dirty
    BY <1>9, <1>10
  <2>2. b.counts[t] = 0
    BY <1>2, <1>6, <2>1 DEF BooksAgree, NoCounts
  <2>3. a.counts[t] \in Nat
    BY <1>7 DEF BookOK
  <2> QED
    BY <1>9, <2>1, <2>2, <2>3
<1>11. Tells => Tells'
  <2> SUFFICES ASSUME Tells, ~Pages, ~new.dirty, NEW t \in Types
               PROVE  LastShown(printed', t) = new.counts[t]
    BY <1>3, <1>5, <1>8 DEF Tells
  <2>1. ~a.dirty /\ new.counts[t] = a.counts[t]
    BY <1>10
  <2>2. LastShown(printed, t) = a.counts[t]
    BY <1>6, <2>1 DEF Tells
  <2> QED
    BY <1>5, <2>1, <2>2
<1> QED
  BY <1>2, <1>4, <1>5, <1>11 DEF ShownSoFar

LEMMA CountsAddUp ==
  ASSUME NEW t, NEW B, Countable(B, t), NEW s \in Seq(B)
  PROVE  /\ Shows(B, t) \in [B -> Nat]
         /\ SumFunctionOnSet([k \in CountsAt(s) |-> s[k].counts[t]], CountsAt(s))
               = Weight(s, Shows(B, t))
<1>1. Shows(B, t) \in [B -> Nat]
  BY DEF Shows, Countable
<1> DEFINE f == [k \in DOMAIN s |-> Shows(B, t)[s[k]]]
           g == [k \in CountsAt(s) |-> s[k].counts[t]]
<1>2. IsFiniteSet(DOMAIN s) /\ CountsAt(s) \in SUBSET DOMAIN s
  <2>1. DOMAIN s = 1 .. Len(s) /\ Len(s) \in Nat
    OBVIOUS
  <2> QED
    BY <2>1, FS_Interval DEF CountsAt
<1>3. \A k \in DOMAIN s : s[k] \in B /\ f[k] \in Nat
  BY <1>1
<1>4. \A k \in CountsAt(s) : f[k] = g[k]
  <2> SUFFICES ASSUME NEW k \in CountsAt(s) PROVE f[k] = s[k].counts[t]
    OBVIOUS
  <2>1. k \in DOMAIN s /\ s[k] \in B /\ s[k].kind = "counts"
    BY <1>3 DEF CountsAt
  <2> QED
    BY <2>1 DEF Shows
<1>5. \A k \in (DOMAIN s) \ CountsAt(s) : f[k] = 0
  <2> SUFFICES ASSUME NEW k \in DOMAIN s, k \notin CountsAt(s) PROVE f[k] = 0
    OBVIOUS
  <2>1. s[k] \in B /\ s[k].kind # "counts"
    BY <1>3 DEF CountsAt
  <2> QED
    BY <2>1 DEF Shows
<1>6. Weight(s, Shows(B, t)) = SumFunctionOnSet(f, DOMAIN s)
  BY DEF Weight
<1> HIDE DEF f, g
<1>7. SumFunctionOnSet(f, DOMAIN s) = SumFunctionOnSet(f, CountsAt(s))
  BY <1>2, <1>3, <1>5, SumOnSupport
<1>8. SumFunctionOnSet(f, CountsAt(s)) = SumFunctionOnSet(g, CountsAt(s))
  <2>1. IsFiniteSet(CountsAt(s))
    BY <1>2, FS_Subset
  <2>2. \A k \in CountsAt(s) : f[k] \in Nat /\ f[k] = g[k]
    BY <1>2, <1>3, <1>4
  <2> QED
    BY <2>1, <2>2, SumOfAgreeing
<1> QED
  BY <1>1, <1>6, <1>7, <1>8 DEF g

LEMMA PlainWeighsNothing ==
  ASSUME NEW t, NEW B, Countable(B, t), NEW s \in Seq(B), CountsAt(s) = {}
  PROVE  Weight(s, Shows(B, t)) = 0
<1>1. SumFunctionOnSet([k \in CountsAt(s) |-> s[k].counts[t]], CountsAt(s))
         = Weight(s, Shows(B, t))
  BY CountsAddUp
<1> QED
  BY <1>1, SumOfNone

LEMMA CountsWeigh ==
  ASSUME NEW t, NEW B, Countable(B, t), NEW c \in B, c.kind = "counts"
  PROVE  Weight(<<c>>, Shows(B, t)) = c.counts[t] /\ Weight(<< >>, Shows(B, t)) = 0
<1>1. Shows(B, t) \in [B -> Nat] /\ << >> \in Seq(B)
  BY DEF Shows, Countable
<1>2. Weight(<< >>, Shows(B, t)) = 0
  BY <1>1, WeightTyped
<1>3. Weight(Append(<< >>, c), Shows(B, t)) = Weight(<< >>, Shows(B, t)) + Shows(B, t)[c]
  BY <1>1, WeightAppend
<1>4. Shows(B, t)[c] = c.counts[t] /\ c.counts[t] \in Nat
  BY DEF Shows, Countable
<1>5. Append(<< >>, c) = <<c>>
  OBVIOUS
<1> QED
  BY <1>2, <1>3, <1>4, <1>5

LEMMA PageTyped ==
  ASSUME TypeInv, Buffers, NEW i \in Sources
  PROVE  /\ buffer[i] \in Seq(PageBlocks) /\ CountsBlock(book[i]) \in Seq(PageBlocks)
         /\ Page(i) \in Seq(PageBlocks)
<1>1. buffer[i] \in Seq(ToSet(buffer[i])) /\ CountsAt(buffer[i]) = {}
  BY DEF Buffers, PlainBlocks, Blocks
<1>2. \A b \in ToSet(buffer[i]) : b \in PageBlocks
  BY <1>1 DEF PageBlocks, CountsAt, ToSet
<1>3. buffer[i] \in Seq(PageBlocks)
  BY <1>1, <1>2, SeqMonotonic
<1>4. [kind |-> "counts", counts |-> book[i].counts] \in PageBlocks
  BY DEF TypeInv, Books, BookOK, PageBlocks
<1>5. CountsBlock(book[i]) \in Seq(PageBlocks)
  BY <1>4 DEF CountsBlock
<1> QED
  BY <1>3, <1>5, ConcatProperties DEF Page

LEMMA PageShows ==
  ASSUME TypeInv, BooksAgree, Buffers, NEW i \in Sources, NEW t \in Types
  PROVE  /\ Countable(PageBlocks, t) /\ Page(i) \in Seq(PageBlocks)
         /\ Weight(Page(i), Shows(PageBlocks, t)) = book[i].counts[t]
<1>1. Countable(PageBlocks, t)
  BY DEF Countable, PageBlocks
<1>2. buffer[i] \in Seq(PageBlocks) /\ Page(i) \in Seq(PageBlocks)
  BY PageTyped
<1>3. PICK b : b = book[i] /\ BookOK(b)
  BY DEF TypeInv, Books
<1>4. PICK c \in PageBlocks : c = [kind |-> "counts", counts |-> b.counts]
  BY <1>3 DEF BookOK, PageBlocks
<1>5. CountsBlock(b) = (IF opts.count /\ b.dirty THEN <<c>> ELSE << >>)
  BY <1>4 DEF CountsBlock
<1>6. CountsBlock(b) \in Seq(PageBlocks)
  BY <1>3, PageTyped
<1>7. PICK w \in [PageBlocks -> Nat] : w = Shows(PageBlocks, t)
  BY <1>1 DEF Shows, Countable
<1>8. Weight(Page(i), w) = Weight(buffer[i], w) + Weight(CountsBlock(b), w)
  BY <1>2, <1>3, <1>6, WeightConcat DEF Page
<1>9. Weight(buffer[i], w) = 0
  <2>1. CountsAt(buffer[i]) = {}
    BY DEF Buffers, PlainBlocks
  <2> QED
    BY <1>1, <1>2, <1>7, <2>1, PlainWeighsNothing
<1>10. Weight(CountsBlock(b), w) = b.counts[t]
  <2>1. Weight(<<c>>, w) = b.counts[t] /\ Weight(<< >>, w) = 0
    BY <1>1, <1>4, <1>7, CountsWeigh
  <2>2. CASE opts.count /\ b.dirty
    BY <1>5, <2>1, <2>2
  <2>3. CASE ~(opts.count /\ b.dirty)
    <3>1. ~b.dirty
      BY <1>3, <2>3 DEF BooksAgree, Counting
    <3>2. b.counts[t] = 0
      BY <1>3, <3>1 DEF BooksAgree, NoCounts
    <3> QED
      BY <1>5, <2>1, <2>3, <3>2
  <2> QED
    BY <2>2, <2>3
<1>11. b.counts[t] \in Nat
  BY <1>3 DEF BookOK
<1> QED
  BY <1>1, <1>2, <1>3, <1>7, <1>8, <1>9, <1>10, <1>11

LEMMA PagesCloseWell ==
  ASSUME TypeInv, BooksAgree, Buffers, Pages
  PROVE  /\ ClosedWell(FlattenSeq([i \in Sources |-> Page(i)]))
         /\ Blocks(FlattenSeq([i \in Sources |-> Page(i)]))
<1> DEFINE pages == [i \in Sources |-> Page(i)]
<1>1. Sources = 1 .. Len(opts.sources) /\ Len(opts.sources) \in Nat /\ IsFiniteSet(Sources)
  BY SourcesAre, FS_Interval DEF TypeInv
<1>2. \A i \in Sources : Page(i) \in Seq(PageBlocks)
  BY PageTyped
<1>3. pages \in Seq(Seq(PageBlocks)) /\ DOMAIN pages = Sources
  BY <1>1, <1>2
<1>4. FlattenSeq(pages) \in Seq(PageBlocks)
  <2> HIDE DEF pages
  <2> QED
    BY <1>3, FlattenTyped
<1>5. ASSUME NEW t \in Types
      PROVE  SumFunctionOnSet([k \in CountsAt(FlattenSeq(pages)) |->
                                  FlattenSeq(pages)[k].counts[t]], CountsAt(FlattenSeq(pages)))
                = IF Counting THEN SumFunctionOnSet(Tally(t), Sources) ELSE 0
  <2>1. Countable(PageBlocks, t)
    BY DEF Countable, PageBlocks
  <2>2. PICK w \in [PageBlocks -> Nat] : w = Shows(PageBlocks, t)
    BY <2>1 DEF Shows, Countable
  <2>3. SumFunctionOnSet([k \in CountsAt(FlattenSeq(pages)) |->
                             FlattenSeq(pages)[k].counts[t]], CountsAt(FlattenSeq(pages)))
           = Weight(FlattenSeq(pages), w)
    <3> HIDE DEF pages
    <3> QED
      BY <1>4, <2>1, <2>2, CountsAddUp
  <2>4. Weight(FlattenSeq(pages), w)
           = SumFunctionOnSet([i \in DOMAIN pages |-> Weight(pages[i], w)], DOMAIN pages)
    <3> HIDE DEF pages
    <3> QED
      BY <1>3, WeightOfFlatten
  <2>5. PICK f : f = [i \in Sources |-> book[i].counts[t]]
    OBVIOUS
  <2>6. [i \in DOMAIN pages |-> Weight(pages[i], w)] = f
    <3>1. ASSUME NEW i \in Sources PROVE Weight(pages[i], w) = book[i].counts[t]
      BY <2>2, PageShows
    <3> QED
      BY <1>3, <2>5, <3>1
  <2>7. Weight(FlattenSeq(pages), w) = SumFunctionOnSet(f, Sources)
    BY <1>3, <2>4, <2>6
  <2>8. CASE Counting
    <3>1. \A i \in Sources : f[i] = Tally(t)[i]
      BY <2>5, <2>8 DEF BooksAgree, Tally
    <3>2. \A i \in Sources : f[i] \in Nat
      BY <2>5 DEF TypeInv, Books, BookOK
    <3>3. SumFunctionOnSet(f, Sources) = SumFunctionOnSet(Tally(t), Sources)
      BY <1>1, <3>1, <3>2, SumOfAgreeing
    <3> QED
      BY <2>3, <2>7, <2>8, <3>3
  <2>9. CASE ~Counting
    <3>1. \A i \in Sources : f[i] = 0
      BY <2>5, <2>9 DEF BooksAgree
    <3>2. SumFunctionOnSet(f, Sources) = 0
      BY <1>1, <3>1, SumOfZeros
    <3> QED
      BY <2>3, <2>7, <2>9, <3>2
  <2> QED
    BY <2>8, <2>9
<1> HIDE DEF pages
<1>6. Blocks(FlattenSeq(pages))
  BY <1>4, InSeqOfElements DEF Blocks
<1> QED
  BY <1>5, <1>6 DEF ClosedWell, CountsDue, Counting, SummaryPager, Pages, pages

LEMMA FromTheLogIs ==
  ASSUME NEW b, BookOK(b), NEW t \in Types
  PROVE  /\ FromTheLog(b).counts[t] = Number(b.tracked, t)
         /\ ~FromTheLog(b).dirty => Number(b.tracked, t) = 0
<1>1. b.tracked \in Seq(Msgs) /\ [u \in Types |-> 0] \in [Types -> Nat]
  BY DEF BookOK
<1>2. Counted([u \in Types |-> 0], b.tracked)[t] = 0 + Number(b.tracked, t)
  BY <1>1, CountedTyped
<1>3. Number(b.tracked, t) \in Nat
  BY <1>1, NumberTyped
<1>4. {k \in DOMAIN b.tracked : b.tracked[k].type = t} = {} => Number(b.tracked, t) = 0
  BY FS_EmptySet DEF Number
<1> QED
  BY <1>2, <1>3, <1>4 DEF FromTheLog, BookOK

LEMMA OthersCloseWell ==
  ASSUME TypeInv, InOrder, BooksAgree, TrackedAgrees, ShownSoFar, ~Pages, stage = "process",
         AllDone, Parallel => emitted = Len(opts.sources), NEW orders, PlainBlocks(orders)
  PROVE  /\ ClosedWell(printed \o orders \o CountsBlock(ClosingBook))
         /\ Blocks(printed \o orders \o CountsBlock(ClosingBook))
<1>1. Summed = Sources
  BY SourcesAre DEF TypeInv, Summed
<1>2. PICK b : b = ClosingBook
  OBVIOUS
<1>3. BookOK(book[Shared])
  BY DEF TypeInv, Books
<1>4. PICK before : before = printed \o orders
  OBVIOUS
<1>5. Blocks(before) /\ \A t : LastShown(before, t) = LastShown(printed, t)
  BY <1>4, BlocksTogether, PlainTogether DEF ShownSoFar, PlainBlocks
<1>6. PICK c : c = [kind |-> "counts", counts |-> b.counts]
  OBVIOUS
<1>7. CountsBlock(b) = (IF opts.count /\ b.dirty THEN <<c>> ELSE << >>)
  BY <1>6 DEF CountsBlock
<1>8. Blocks(CountsBlock(b))
  <2>1. Blocks(<<c>>) /\ Blocks(<< >>)
    BY DEF Blocks, ToSet
  <2> QED
    BY <1>7, <2>1
<1>9. Blocks(before \o CountsBlock(b))
  BY <1>5, <1>8, BlocksTogether
<1>10. ASSUME NEW t \in Types
       PROVE  LastShown(before \o CountsBlock(b), t)
                 = IF opts.count /\ b.dirty THEN b.counts[t] ELSE LastShown(printed, t)
  <2>1. LastShown(before \o <<c>>, t) = c.counts[t]
    BY <1>5, <1>6, CountsLast
  <2>2. LastShown(before \o << >>, t) = LastShown(before, t)
    BY <1>5, PlainNone, PlainTogether
  <2> QED
    BY <1>5, <1>6, <1>7, <2>1, <2>2
<1>11. ASSUME NEW t \in Types
       PROVE  (IF opts.count /\ b.dirty THEN b.counts[t] ELSE LastShown(printed, t))
                 = IF CountsDue THEN SumFunctionOnSet(Tally(t), Sources) ELSE 0
  <2>1. Tells
    BY DEF ShownSoFar
  <2>2. CASE SummaryPager
    <3>1. LastShown(printed, t) = 0 /\ (CountsDue <=> opts.count)
      BY <2>1, <2>2 DEF Tells, CountsDue
    <3>2. b.counts[t] = SumFunctionOnSet(Tally(t), Sources)
          /\ (~b.dirty => SumFunctionOnSet(Tally(t), Sources) = 0)
      BY <1>2, <1>3, <2>2, FromTheLogIs DEF ClosingBook, TrackedAgrees, SummaryPager
    <3> QED
      BY <3>1, <3>2
  <2>3. CASE ~SummaryPager
    <3>1. b = book[Shared] /\ (CountsDue <=> Counting)
      BY <1>2, <2>3 DEF ClosingBook, CountsDue, Counting
    <3>2. b.counts[t] = IF Counting THEN SumFunctionOnSet(Tally(t), Sources) ELSE 0
      BY <1>1, <3>1 DEF BooksAgree
    <3>3. ~b.dirty => LastShown(printed, t) = b.counts[t]
      BY <2>1, <3>1 DEF Tells
    <3>4. b.dirty => opts.count
      BY <3>1 DEF BooksAgree, Counting
    <3> QED
      BY <3>1, <3>2, <3>3, <3>4
  <2> QED
    BY <2>2, <2>3
<1> QED
  BY <1>2, <1>4, <1>9, <1>10, <1>11 DEF ClosedWell

LEMMA ShownOfClose ==
  ASSUME TypeInv, InOrder, BooksAgree, TrackedAgrees, ShownSoFar, Close
  PROVE  ShownSoFar'
<1>1. /\ UNCHANGED <<opts, task, buffer, left>> /\ stage = "process" /\ stage' = "close"
      /\ AllDone /\ (Parallel => emitted = Len(opts.sources))
  BY DEF Close
<1>2. Sources' = Sources /\ (Pages' <=> Pages) /\ (CountsDue' <=> CountsDue)
  BY <1>1, ShapeStays
<1>3. Buffers'
  BY <1>1, <1>2 DEF ShownSoFar, Buffers
<1>4. Blocks(printed') /\ (~left => ClosedWell(printed'))
  <2>1. CASE left
    BY <2>1 DEF Close, ShownSoFar
  <2>2. CASE ~left /\ Pages
    <3>1. printed' = FlattenSeq([i \in Sources |-> Page(i)])
      BY <2>2 DEF Close, Page
    <3> QED
      BY <2>2, <3>1, PagesCloseWell DEF ShownSoFar
  <2>3. CASE ~left /\ ~Pages
    <3>1. PICK orders : /\ PlainBlocks(orders)
                        /\ printed' = printed \o orders \o CountsBlock(ClosingBook)
      <4> DEFINE orders == IF opts.summary
                           THEN <<[kind |-> "orders", tracked |-> book[Shared].tracked]>>
                           ELSE << >>
      <4>1. PlainBlocks(orders)
        BY PlainOne, PlainNone
      <4>2. printed' = printed \o orders \o CountsBlock(ClosingBook)
        BY <2>3 DEF Close
      <4> QED
        BY <4>1, <4>2
    <3> QED
      BY <1>1, <2>3, <3>1, OthersCloseWell
  <2> QED
    BY <2>1, <2>2, <2>3
<1>5. \A t \in Types : Tally(t)' = Tally(t)
  BY <1>1, <1>2 DEF Tally
<1>6. ~left' => \A t \in Types :
         ShownCounts(t)' = IF CountsDue THEN SumFunctionOnSet(Tally(t), Sources) ELSE 0
  BY <1>1, <1>2, <1>4 DEF ClosedWell, ShownCounts, CountsAt, LastShown
<1> QED
  BY <1>1, <1>2, <1>3, <1>4, <1>5, <1>6 DEF ShownSoFar

LEMMA ShownKept ==
  ASSUME TypeInv, InOrder, BooksAgree, TrackedAgrees, ShownSoFar, [Next]_vars
  PROVE  ShownSoFar'
<1>1. CASE ReadOptions \/ Register \/ Begin \/ Exit \/ Interrupt \/ QuitPager
  BY <1>1, ShownOfMain
<1>2. CASE Answer \/ EmitFile \/ Close
  BY <1>2, ShownOfAnswer, ShownOfEmit, ShownOfClose
<1>3. ASSUME NEW i \in Sources, TaskStep(i) PROVE ShownSoFar'
  BY <1>3, ShownOfTaskStep
<1>4. ASSUME NEW i \in Sources, Arrive(i) PROVE ShownSoFar'
  <2>1. UNCHANGED <<opts, printed, buffer, left, stage, book>> /\ stage # "close"
    BY <1>4 DEF Arrive
  <2> QED
    BY <2>1, ShownStays
<1>5. CASE UNCHANGED vars
  <2>1. UNCHANGED <<opts, printed, buffer, left, stage, book, task>>
    BY <1>5 DEF vars, fileVars
  <2>2. CASE stage # "close"
    BY <2>1, <2>2, ShownStays
  <2>3. CASE stage = "close"
    <3>1. Sources' = Sources /\ (Pages' <=> Pages) /\ (CountsDue' <=> CountsDue)
      BY <2>1, ShapeStays
    <3>2. \A t \in Types : ShownCounts(t)' = ShownCounts(t) /\ Tally(t)' = Tally(t)
      BY <2>1, <3>1 DEF ShownCounts, Tally
    <3> QED
      BY <2>1, <2>3, <3>1, <3>2 DEF ShownSoFar, Buffers
  <2> QED
    BY <2>2, <2>3
<1> QED
  BY <1>1, <1>2, <1>3, <1>4, <1>5 DEF Next, MainStep

LEMMA HonestInvInit == Init /\ TypeInv => HonestInv
<1> SUFFICES ASSUME Init, TypeInv PROVE HonestInv
  OBVIOUS
<1>1. /\ emitted = 0 /\ diagnosed = << >> /\ printed = << >> /\ left = FALSE /\ stage = "options"
      /\ task = [i \in Sources |-> NewTask] /\ buffer = [i \in Sources |-> << >>]
      /\ book = [c \in {Shared} \cup Sources |-> NewBook]
  BY DEF Init
<1>2. InOrder
  BY <1>1 DEF InOrder, NewTask
<1>3. DiagnosedSoFar
  BY <1>1 DEF DiagnosedSoFar, ToDiagnose, NewTask, ToSet
<1>4. \A i \in Sources : Told(task[i]) = << >>
  <2>1. Told(NewTask) = FlattenSeq([n \in 1 .. 0 |-> MessagesIn(NewTask.lines[n])])
    BY DEF Told, LinesDone, NewTask
  <2>2. [n \in 1 .. 0 |-> MessagesIn(NewTask.lines[n])] = << >>
    OBVIOUS
  <2> QED
    BY <1>1, <2>1, <2>2, FlattenNone
<1>5. ASSUME NEW t
      PROVE  SumFunctionOnSet(Tally(t), Summed) = 0 /\ SumFunctionOnSet(Tally(t), Sources) = 0
  <2>1. IsFiniteSet(Sources) /\ \A i \in Sources : Tally(t)[i] = 0
    BY <1>4, NumberNone, TallyTyped DEF Tally
  <2>2. Summed = Sources \/ Summed = {}
    BY <1>1 DEF Summed
  <2> QED
    BY <2>1, <2>2, SumOfZeros, SumOfNone
<1>7. BooksAgree
  <2>1. \A c \in {Shared} \cup Sources :
           ~book[c].dirty /\ \A t \in Types : book[c].counts[t] = 0
    BY <1>1 DEF NewBook
  <2>2. \A t \in Types : \A i \in Sources : Number(Told(task[i]), t) = 0
    BY <1>4, NumberNone
  <2> QED
    BY <1>4, <1>5, <2>1, <2>2 DEF BooksAgree, NoCounts
<1>6. TrackedAgrees
  BY <1>1, <1>5, NumberNone DEF TrackedAgrees, NewBook
<1>8. ShownSoFar
  <2>1. Buffers /\ Blocks(printed)
    BY <1>1, PlainNone DEF Buffers, PlainBlocks
  <2>2. \A t \in Types : LastShown(printed, t) = 0 /\ book[Shared].counts[t] = 0
    BY <1>1 DEF LastShown, CountsAt, NewBook
  <2> QED
    BY <1>1, <2>1, <2>2 DEF ShownSoFar, Tells
<1> QED
  BY <1>2, <1>3, <1>6, <1>7, <1>8 DEF HonestInv

(* At the end of a source nothing is left of it to count.                  *)
LEMMA HonestInvSuffices == TypeInv /\ HonestInv => HonestEnd
<1> SUFFICES ASSUME TypeInv, InOrder, DiagnosedSoFar, ShownSoFar, stage = "close"
             PROVE  HonestEnd
  BY DEF HonestInv, HonestEnd
<1>1. \A i \in Sources : task[i].at = "done" /\ task[i].lines \in Seq(Seq(Pieces))
  BY DEF InOrder, AllDone, TypeInv, Tasks, TaskOK
<1>2. ASSUME NEW i \in Sources PROVE Read(i) = Told(task[i]) /\ Read(i) \in Seq(Msgs)
  <2>1. PICK lines \in Seq(Seq(Pieces)) : lines = task[i].lines
    BY <1>1
  <2>2. LinesDone(task[i]) = Len(lines) /\ DOMAIN lines = 1 .. Len(lines)
    BY <1>1, <2>1 DEF LinesDone
  <2>3. [n \in 1 .. Len(lines) |-> MessagesIn(lines[n])] \in Seq(Seq(Msgs))
    <3>1. Len(lines) \in 0 .. Len(lines)
      OBVIOUS
    <3> QED
      BY <3>1, ToldIs
  <2>4. Tuple([n \in 1 .. Len(lines) |-> MessagesIn(lines[n])])
           = [n \in 1 .. Len(lines) |-> MessagesIn(lines[n])]
    BY <2>3, TupleIs
  <2>5. Read(i) = Told(task[i])
    BY <2>1, <2>2, <2>4, Zenon DEF Read, Told
  <2>6. Told(task[i]) \in Seq(Msgs)
    BY ToldTyped DEF TypeInv, Tasks
  <2> QED
    BY <2>5, <2>6
<1> DEFINE reads == [i \in Sources |-> Read(i)]
           all   == FlattenSeq(Tuple(reads))
<1>3. reads \in Seq(Seq(Msgs)) /\ DOMAIN reads = Sources
  BY <1>2, SourcesAre DEF TypeInv
<1>4. all = FlattenSeq(reads)
  <2> HIDE DEF reads
  <2> QED
    BY <1>3, TupleIs
<1>5. ASSUME NEW t \in Types PROVE Number(all, t) = SumFunctionOnSet(Tally(t), Sources)
  <2>1. Number(FlattenSeq(reads), t)
           = SumFunctionOnSet([i \in DOMAIN reads |-> Number(reads[i], t)], DOMAIN reads)
    <3> HIDE DEF reads
    <3> QED
      BY <1>3, NumberOfFlatten
  <2>2. [i \in DOMAIN reads |-> Number(reads[i], t)] = Tally(t)
    BY <1>2, <1>3 DEF Tally
  <2> QED
    BY <1>3, <1>4, <2>1, <2>2
<1>6. left \/ \A t \in Types : ShownCounts(t) = IF CountsDue THEN Number(all, t) ELSE 0
  <2> HIDE DEF all
  <2> QED
    BY <1>5 DEF ShownSoFar
<1>7. ToSet(diagnosed) = ToDiagnose
  <2>1. \A i \in ToDiagnose : Parallel => i <= emitted
    BY SourcesAre, ToDiagnoseIs DEF TypeInv, InOrder
  <2> QED
    BY <2>1 DEF DiagnosedSoFar
<1> QED
  BY <1>6, <1>7 DEF HonestEnd, DiagnosedSoFar

(* When the output is closed, the counts it shows are those of all the     *)
(* messages that were read, by whichever threads and in whatever order,    *)
(* and every source that could not be opened, and a standard input that is *)
(* no text, is diagnosed once, in the order of the sources.                *)
THEOREM HonestCounts == Spec => []HonestEnd
<1> DEFINE All == TypeInv /\ CacheInv /\ HonestInv
<1>1. Init => All
  BY TypeInvInit, CacheInitOK, HonestInvInit DEF Init
<1>2. All /\ [CacheNext]_cacheVars /\ [Next]_vars => All'
  BY TypeInvKept, CacheNextKeeps, OrderKept, DiagnosesKept, BooksKept, TrackedKept, ShownKept DEF HonestInv
<1>3. All => HonestEnd
  BY HonestInvSuffices
<1>4. Spec => [][CacheNext]_cacheVars
  BY UsesTheCache, PTL DEF CacheSpec
<1> HIDE DEF All
<1> QED
  BY <1>1, <1>2, <1>3, <1>4, PTL DEF Spec

-----------------------------------------------------------------------------
(* The defaults that remain beside the command line: those that stay, in   *)
(* their order.                                                            *)
LEMMA RemainingAppend ==
  ASSUME NEW S, NEW d \in Seq(S), NEW x \in S, NEW given
  PROVE  /\ Line!Remaining(d, given) \in Seq(S)
         /\ Line!Remaining(Append(d, x), given)
              = Line!Remaining(d, given)
                  \o (IF Line!Stays(given, x.name) THEN <<x>> ELSE << >>)
<1> DEFINE part(a) == IF Line!Stays(given, a.name) THEN <<a>> ELSE << >>
           of(s) == [k \in DOMAIN s |-> part(s[k])]
<1>1. \A a \in S : part(a) \in Seq(S)
  OBVIOUS
<1>2. \A s \in Seq(S) : of(s) \in Seq(Seq(S))
  <2>1. TAKE s \in Seq(S)
  <2>2. \A k \in 1 .. Len(s) : of(s)[k] \in Seq(S)
    BY <1>1
  <2>3. DOMAIN s = 1 .. Len(s) /\ Len(s) \in Nat
    OBVIOUS
  <2> HIDE DEF part
  <2> QED
    BY <2>2, <2>3
<1>3. of(Append(d, x)) = Append(of(d), part(x))
  <2>1. Append(d, x) \in Seq(S) /\ Len(Append(d, x)) = Len(d) + 1
    OBVIOUS
  <2>2. of(d) \in Seq(Seq(S)) /\ Len(of(d)) = Len(d) /\ part(x) \in Seq(S)
    BY <1>1, <1>2
  <2> HIDE DEF part
  <2> QED
    BY <2>1, <2>2
<1>4. Line!Remaining(d, given) = FlattenSeq(of(d))
  BY LineFlattens DEF Line!Remaining
<1>5. Line!Remaining(Append(d, x), given) = FlattenSeq(of(Append(d, x)))
  BY LineFlattens DEF Line!Remaining
<1>6. of(d) \in Seq(Seq(S)) /\ part(x) \in Seq(S)
  BY <1>1, <1>2
<1> HIDE DEF of
<1>7. /\ FlattenSeq(of(d)) \in Seq(S)
      /\ FlattenSeq(Append(of(d), part(x))) = FlattenSeq(of(d)) \o part(x)
  <2> HIDE DEF part
  <2> QED
    BY <1>6, FlattenAppend
<1> QED
  BY <1>3, <1>4, <1>5, <1>7, Zenon

LEMMA ValuesAppend ==
  ASSUME NEW S, NEW d \in Seq(S), NEW x \in S, NEW name
  PROVE  Line!Values(Append(d, x), name) = Line!Values(d, name) \o ValueOf(x, name)
<1> DEFINE T == {a.value : a \in S}
           part(a) == IF a.name = name THEN <<a.value>> ELSE << >>
           of(s) == [k \in DOMAIN s |-> part(s[k])]
<1>1. \A a \in S : part(a) \in Seq(T)
  <2>1. TAKE a \in S
  <2>2. a.value \in T
    OBVIOUS
  <2> HIDE DEF T
  <2> QED
    BY <2>2
<1> HIDE DEF T
<1>2. \A s \in Seq(S) : of(s) \in Seq(Seq(T))
  <2>1. TAKE s \in Seq(S)
  <2>2. \A k \in 1 .. Len(s) : of(s)[k] \in Seq(T)
    BY <1>1
  <2>3. DOMAIN s = 1 .. Len(s) /\ Len(s) \in Nat
    OBVIOUS
  <2> HIDE DEF part
  <2> QED
    BY <2>2, <2>3
<1>3. of(Append(d, x)) = Append(of(d), part(x))
  <2>1. Append(d, x) \in Seq(S) /\ Len(Append(d, x)) = Len(d) + 1
    OBVIOUS
  <2>2. of(d) \in Seq(Seq(T)) /\ Len(of(d)) = Len(d) /\ part(x) \in Seq(T)
    BY <1>1, <1>2
  <2> HIDE DEF part
  <2> QED
    BY <2>1, <2>2
<1>4. Line!Values(d, name) = FlattenSeq(of(d))
  BY LineFlattens DEF Line!Values
<1>5. Line!Values(Append(d, x), name) = FlattenSeq(of(Append(d, x)))
  BY LineFlattens DEF Line!Values
<1>6. of(d) \in Seq(Seq(T)) /\ part(x) \in Seq(T)
  BY <1>1, <1>2
<1> HIDE DEF of
<1>7. /\ FlattenSeq(of(d)) \in Seq(T)
      /\ FlattenSeq(Append(of(d), part(x))) = FlattenSeq(of(d)) \o part(x)
  <2> HIDE DEF part
  <2> QED
    BY <1>6, FlattenAppend
<1> QED
  BY <1>3, <1>4, <1>5, <1>7, Zenon DEF T, ValueOf

LEMMA ValuesNone ==
  ASSUME NEW S, NEW d \in Seq(S), NEW name, ~Line!Explicit(d, name)
  PROVE  Line!Values(d, name) = << >>
<1> DEFINE seqs == [k \in DOMAIN d |-> IF d[k].name = name THEN <<d[k].value>> ELSE << >>]
<1>1. DOMAIN d = 1 .. Len(d) /\ Len(d) \in Nat /\ \A k \in DOMAIN d : d[k].name # name
  BY DEF Line!Explicit
<1>2. seqs \in Seq({<< >>})
  BY <1>1
<1> HIDE DEF seqs
<1>3. FlattenSeq(seqs) = << >>
  BY <1>2, FlattenEmpties
<1> QED
  BY <1>3, LineFlattens DEF Line!Values, seqs

LEMMA ValuesConcat ==
  ASSUME NEW S, NEW a \in Seq(S), NEW b \in Seq(S), NEW name
  PROVE  Line!Values(a \o b, name) = Line!Values(a, name) \o Line!Values(b, name)
<1> DEFINE T == {x.value : x \in S}
           V(s) == Line!Values(s, name)
           part(x) == ValueOf(x, name)
           C == {s \in Seq(S) : V(a \o s) = V(a) \o V(s)}
<1>1. \A s \in Seq(S), x \in S : V(Append(s, x)) = V(s) \o part(x)
  BY ValuesAppend
<1>2. \A s \in Seq(S) : V(s) \in Seq(T)
  <2>1. TAKE s \in Seq(S)
  <2>2. \A k \in DOMAIN s : s[k].name = name => s[k].value \in T
    OBVIOUS
  <2> HIDE DEF T
  <2> QED
    BY <2>2, ValuesTyped
<1>4. \A x \in S : part(x) \in Seq(T)
  <2>1. ASSUME NEW x \in S PROVE part(x) \in Seq(T)
    <3>1. x.value \in T
      OBVIOUS
    <3> HIDE DEF T
    <3> QED
      BY <3>1 DEF ValueOf
  <2> QED
    BY <2>1
<1>5. V(<< >>) = << >>
  <2>1. << >> \in Seq(S) /\ ~Line!Explicit(<< >>, name)
    BY DEF Line!Explicit
  <2> QED
    BY <2>1, ValuesNone
<1> HIDE DEF V, part, T
<1>6. << >> \in C
  <2>1. a \o << >> = a /\ << >> \in Seq(S)
    OBVIOUS
  <2>2. V(a) \o << >> = V(a)
    BY <1>2
  <2>3. V(a \o << >>) = V(a) \o V(<< >>)
    BY <1>5, <2>1, <2>2, Zenon
  <2> QED
    BY <2>1, <2>3
<1>7. ASSUME NEW s \in Seq(S), NEW x \in S, s \in C PROVE Append(s, x) \in C
  <2>1. a \o s \in Seq(S) /\ a \o Append(s, x) = Append(a \o s, x) /\ Append(s, x) \in Seq(S)
    OBVIOUS
  <2>2. V(a \o Append(s, x)) = V(a \o s) \o part(x)
    BY <1>1, <2>1
  <2>3. V(a \o s) = V(a) \o V(s) /\ V(Append(s, x)) = V(s) \o part(x)
    BY <1>1, <1>7
  <2>4. (V(a) \o V(s)) \o part(x) = V(a) \o (V(s) \o part(x))
    <3>1. PICK p \in Seq(T), q \in Seq(T), r \in Seq(T) : p = V(a) /\ q = V(s) /\ r = part(x)
      BY <1>2, <1>4
    <3>2. p \o (q \o r) = (p \o q) \o r
      BY ConcatThree
    <3> QED
      BY <3>1, <3>2, Zenon
  <2>5. V(a \o Append(s, x)) = V(a) \o V(Append(s, x))
    BY <2>2, <2>3, <2>4, Zenon
  <2> QED
    BY <2>1, <2>5
<1> HIDE DEF C
<1>8. \A s \in Seq(S) : s \in C
  BY <1>6, <1>7, SeqInduction
<1> QED
  BY <1>8 DEF C, V

LEMMA KeptAppend ==
  ASSUME NEW S, NEW d \in Seq(S), NEW x \in S, NEW given, KeptOf(d, given)
  PROVE  KeptOf(Append(d, x), given)
<1> DEFINE rest == Line!Remaining(d, given)
           next == Line!Remaining(Append(d, x), given)
<1>1. /\ rest \in Seq(S)
      /\ next = rest \o (IF Line!Stays(given, x.name) THEN <<x>> ELSE << >>)
  BY RemainingAppend
<1>2. PICK e : e = Append(d, x)
  OBVIOUS
<1>3. /\ DOMAIN d \subseteq DOMAIN e /\ Len(d) + 1 \in DOMAIN e
      /\ \A k \in DOMAIN d : e[k] = d[k] /\ k # Len(d) + 1
      /\ e[Len(d) + 1] = x
      /\ \A k \in DOMAIN e : k \in DOMAIN d \/ k = Len(d) + 1
  BY <1>2, OneMoreIn
<1>4. /\ \A k \in DOMAIN rest : /\ Line!Stays(given, rest[k].name)
                                /\ \E j \in DOMAIN d : d[j] = rest[k]
      /\ \A j \in DOMAIN d : Line!Stays(given, d[j].name) =>
             \E k \in DOMAIN rest : rest[k] = d[j]
      /\ Once(d) => Once(rest)
      /\ Line!Values(rest, "xml") = Line!Values(d, "xml")
  BY DEF KeptOf
<1>5. Once(e) => Once(d)
  BY <1>3 DEF Once
<1>6. Line!Values(e, "xml") = Line!Values(d, "xml") \o ValueOf(x, "xml")
  BY <1>2, ValuesAppend, Zenon
<1> HIDE DEF rest, next
<1>7. CASE ~Line!Stays(given, x.name)
  <2>1. next = rest
    BY <1>1, <1>7
  <2>2. x.name # "xml"
    BY <1>7 DEF Line!Stays
  <2>3. Line!Values(d, "xml") \in Seq({b.value : b \in S})
    <3>1. \A a \in S : a.name = "xml" => a.value \in {b.value : b \in S}
      OBVIOUS
    <3> QED
      BY <3>1, ValuesTyped
  <2>4. Line!Values(e, "xml") = Line!Values(d, "xml")
    BY <1>6, <2>2, <2>3 DEF ValueOf
  <2>5. /\ \A k \in DOMAIN next : /\ Line!Stays(given, next[k].name)
                                  /\ \E j \in DOMAIN e : e[j] = next[k]
        /\ \A j \in DOMAIN e : Line!Stays(given, e[j].name) =>
               \E k \in DOMAIN next : next[k] = e[j]
    BY <1>3, <1>4, <1>7, <2>1
  <2>6. Line!Values(next, "xml") = Line!Values(e, "xml")
    BY <1>4, <2>1, <2>4
  <2> QED
    BY <1>2, <1>4, <1>5, <2>1, <2>5, <2>6 DEF KeptOf, next
<1>8. CASE Line!Stays(given, x.name)
  <2>1. next = Append(rest, x)
    <3>1. next = rest \o <<x>>
      BY <1>1, <1>8
    <3> QED
      BY <1>1, <3>1, AppendIsConcat
  <2>2. /\ DOMAIN rest \subseteq DOMAIN next /\ Len(rest) + 1 \in DOMAIN next
        /\ \A k \in DOMAIN rest : next[k] = rest[k] /\ k # Len(rest) + 1
        /\ next[Len(rest) + 1] = x
        /\ \A k \in DOMAIN next : k \in DOMAIN rest \/ k = Len(rest) + 1
    BY <1>1, <2>1, OneMoreIn
  <2>3. \A k \in DOMAIN next : /\ Line!Stays(given, next[k].name)
                               /\ \E j \in DOMAIN e : e[j] = next[k]
    BY <1>3, <1>4, <1>8, <2>2
  <2>4. \A j \in DOMAIN e : Line!Stays(given, e[j].name) =>
            \E k \in DOMAIN next : next[k] = e[j]
    BY <1>3, <1>4, <1>8, <2>2
  <2>5. ASSUME Once(e) PROVE Once(next)
    <3>1. Once(rest)
      BY <1>4, <1>5, <2>5
    <3>2. \A k \in DOMAIN rest : rest[k].name = x.name => x.name \in Line!Repeated
      <4>1. ASSUME NEW k \in DOMAIN rest, rest[k].name = x.name PROVE x.name \in Line!Repeated
        <5>1. PICK j \in DOMAIN d : d[j] = rest[k]
          BY <1>4
        <5>2. e[j].name = e[Len(d) + 1].name /\ j # Len(d) + 1 /\ j \in DOMAIN e
          BY <1>3, <4>1, <5>1
        <5> QED
          BY <1>3, <2>5, <5>2 DEF Once
      <4> QED
        BY <4>1
    <3> QED
      BY <2>2, <3>1, <3>2 DEF Once
  <2>6. Line!Values(next, "xml") = Line!Values(e, "xml")
    <3>1. Line!Values(Append(rest, x), "xml") = Line!Values(rest, "xml") \o ValueOf(x, "xml")
      BY <1>1, ValuesAppend, Zenon
    <3> QED
      BY <1>4, <1>6, <2>1, <3>1, Zenon
  <2> QED
    BY <1>2, <2>3, <2>4, <2>5, <2>6 DEF KeptOf, next
<1> QED
  BY <1>7, <1>8

LEMMA RemainsAre ==
  ASSUME NEW S, NEW d \in Seq(S), NEW given
  PROVE  Line!Remaining(d, given) \in Seq(S) /\ KeptOf(d, given)
<1> DEFINE C == {s \in Seq(S) : Line!Remaining(s, given) \in Seq(S) /\ KeptOf(s, given)}
<1>1. << >> \in C
  <2>1. Line!Remaining(<< >>, given) = << >>
    <3>1. Line!Remaining(<< >>, given) = FlattenSeq(<< >>)
      BY LineFlattens DEF Line!Remaining
    <3> QED
      BY <3>1, FlattenNone
  <2>2. << >> \in Seq(S) /\ DOMAIN << >> = {}
    OBVIOUS
  <2> QED
    BY <2>1, <2>2 DEF KeptOf, Once
<1>2. ASSUME NEW s \in Seq(S), NEW x \in S, s \in C PROVE Append(s, x) \in C
  <2>1. Append(s, x) \in Seq(S)
    OBVIOUS
  <2>2. KeptOf(Append(s, x), given)
    BY <1>2, KeptAppend
  <2>3. Line!Remaining(Append(s, x), given) \in Seq(S)
    <3>1. PICK e \in Seq(S) : e = Append(s, x)
      BY <2>1
    <3> QED
      BY <3>1, RemainingAppend
  <2> QED
    BY <2>1, <2>2, <2>3
<1> HIDE DEF C
<1>3. \A s \in Seq(S) : s \in C
  BY <1>1, <1>2, SeqInduction
<1> QED
  BY <1>3 DEF C

LEMMA ParsedIsAccepted ==
  ASSUME NEW S, NEW args \in Seq(S)
  PROVE  Line!Parsed(args) = "parsed" <=> Accepted(args)
<1> DEFINE ends == {k \in DOMAIN args : args[k].name = "help" \/ Line!Offends(args, k)}
<1>1. DOMAIN args \subseteq Nat
  OBVIOUS
<1>2. Line!Parsed(args) = "parsed" <=> ends = {}
  BY DEF Line!Parsed
<1>3. ASSUME ends = {} PROVE Accepted(args)
  <2>1. \A k \in DOMAIN args : args[k].name # "help" /\ ~Line!Offends(args, k)
    BY <1>3
  <2>2. \A k \in DOMAIN args :
           /\ args[k].name \in Line!Flags \cup Line!Single \cup Line!Repeated
           /\ args[k].name \notin Line!Repeated =>
                  \A j \in 1 .. k - 1 : args[j].name # args[k].name
    BY <2>1 DEF Line!Offends
  <2>3. ASSUME NEW j \in DOMAIN args, NEW k \in DOMAIN args, args[j].name = args[k].name,
               args[j].name \notin Line!Repeated, j # k
        PROVE  FALSE
    <3>1. j \in 1 .. k - 1 \/ k \in 1 .. j - 1
      BY <2>3
    <3> QED
      BY <2>2, <2>3, <3>1
  <2> QED
    BY <2>1, <2>2, <2>3 DEF Accepted, Once
<1>4. ASSUME Accepted(args) PROVE ends = {}
  <2>1. ASSUME NEW k \in DOMAIN args, args[k].name = "help" \/ Line!Offends(args, k)
        PROVE  FALSE
    <3>1. args[k].name # "help"
      BY <1>4 DEF Accepted
    <3>2. /\ args[k].name \notin Line!Repeated
          /\ args[k].name \in Line!Flags \cup Line!Single
          /\ \E j \in 1 .. k - 1 : args[j].name = args[k].name
      BY <1>4, <2>1, <3>1 DEF Accepted, Line!Offends
    <3>3. PICK j \in 1 .. k - 1 : args[j].name = args[k].name
      BY <3>2
    <3>4. j \in DOMAIN args /\ j # k
      OBVIOUS
    <3> QED
      BY <1>4, <3>2, <3>3, <3>4 DEF Accepted, Once
  <2> QED
    BY <2>1
<1> QED
  BY <1>2, <1>3, <1>4

(* An argument that is given once has its value.                           *)
LEMMA GetOneIs ==
  ASSUME NEW S, NEW args \in Seq(S), Accepted(args), NEW k \in DOMAIN args,
         args[k].name \notin Line!Repeated
  PROVE  Line!GetOne(args, args[k].name) = args[k].value
<1>1. {j \in DOMAIN args : args[j].name = args[k].name} = {k}
  BY DEF Accepted, Once
<1>2. Line!Min({k}) = k
  <2>1. k <= k
    BY k \in 1 .. Len(args)
  <2> QED
    BY <2>1 DEF Line!Min
<1> QED
  BY <1>1, <1>2 DEF Line!GetOne, Line!Explicit

LEMMA JoinedIs ==
  ASSUME NEW asked, Fit(asked)
  PROVE  /\ Joined(asked) \in Seq(ToSet(asked.given) \cup ToSet(asked.defaults))
         /\ Accepted(Joined(asked))
         /\ \A k \in DOMAIN asked.given :
                \E j \in DOMAIN Joined(asked) : Joined(asked)[j] = asked.given[k]
         /\ \A k \in DOMAIN asked.defaults :
                Line!Stays(asked.given, asked.defaults[k].name) =>
                    \E j \in DOMAIN Joined(asked) : Joined(asked)[j] = asked.defaults[k]
         /\ \A j \in DOMAIN Joined(asked) :
                \/ \E k \in DOMAIN asked.given : Joined(asked)[j] = asked.given[k]
                \/ \E k \in DOMAIN asked.defaults :
                       /\ Joined(asked)[j] = asked.defaults[k]
                       /\ Line!Stays(asked.given, asked.defaults[k].name)
<1>1. PICK S : S = ToSet(asked.given) \cup ToSet(asked.defaults)
  OBVIOUS
<1>2. asked.given \in Seq(S) /\ asked.defaults \in Seq(S)
  <2>1. PICK A, B : A = ToSet(asked.given) /\ B = ToSet(asked.defaults)
    OBVIOUS
  <2> QED
    BY <1>1, <2>1 DEF Fit
<1>3. PICK given \in Seq(S) : given = asked.given
  BY <1>2
<1>4. PICK defaults \in Seq(S) : defaults = asked.defaults
  BY <1>2
<1>5. PICK rest \in Seq(S) :
         /\ rest = Line!Remaining(defaults, given)
         /\ \A k \in DOMAIN rest : /\ Line!Stays(given, rest[k].name)
                                   /\ \E j \in DOMAIN defaults : defaults[j] = rest[k]
         /\ \A j \in DOMAIN defaults : Line!Stays(given, defaults[j].name) =>
                \E k \in DOMAIN rest : rest[k] = defaults[j]
         /\ Once(defaults) => Once(rest)
  BY RemainsAre DEF KeptOf
<1>6. PICK one : one = rest \o given
  OBVIOUS
<1>7. /\ one \in Seq(S)
      /\ \A k \in DOMAIN one : \/ k \in DOMAIN rest /\ one[k] = rest[k]
                               \/ \E j \in DOMAIN given : k = Len(rest) + j /\ one[k] = given[j]
      /\ \A k \in DOMAIN rest : k \in DOMAIN one /\ one[k] = rest[k]
      /\ \A j \in DOMAIN given : Len(rest) + j \in DOMAIN one /\ one[Len(rest) + j] = given[j]
  BY <1>6, JoinedElements
<1>8. Joined(asked) = one
  BY <1>3, <1>4, <1>5, <1>6 DEF Joined
<1>9. Accepted(given) /\ Accepted(defaults) /\ Once(rest)
  BY <1>3, <1>4, <1>5 DEF Fit, Accepted
<1>10. ASSUME NEW k \in DOMAIN one
      PROVE  /\ one[k].name \in Line!Flags \cup Line!Single \cup Line!Repeated
             /\ one[k].name # "help"
  <2>1. (\E j \in DOMAIN given : one[k] = given[j]) \/ \E j \in DOMAIN defaults : one[k] = defaults[j]
    <3>1. CASE k \in DOMAIN rest /\ one[k] = rest[k]
      BY <1>5, <3>1
    <3>2. CASE \E j \in DOMAIN given : k = Len(rest) + j /\ one[k] = given[j]
      BY <3>2
    <3> QED
      BY <1>7, <3>1, <3>2
  <2> QED
    BY <1>9, <2>1 DEF Accepted
<1>11. ASSUME NEW j \in DOMAIN rest, NEW k \in DOMAIN given, rest[j].name = given[k].name
      PROVE  rest[j].name \in Line!Repeated
  BY <1>5, <1>11 DEF Line!Stays, Line!Explicit, Line!Repeated
<1>12. ASSUME NEW j \in DOMAIN one, NEW k \in DOMAIN one, one[j].name = one[k].name,
             one[j].name \notin Line!Repeated
      PROVE  j = k
  <2>1. CASE j \in DOMAIN rest /\ one[j] = rest[j] /\ k \in DOMAIN rest /\ one[k] = rest[k]
    BY <1>9, <1>12, <2>1 DEF Once
  <2>2. CASE /\ j \in DOMAIN rest /\ one[j] = rest[j]
             /\ \E n \in DOMAIN given : k = Len(rest) + n /\ one[k] = given[n]
    BY <1>11, <1>12, <2>2
  <2>3. CASE /\ k \in DOMAIN rest /\ one[k] = rest[k]
             /\ \E n \in DOMAIN given : j = Len(rest) + n /\ one[j] = given[n]
    BY <1>11, <1>12, <2>3
  <2>4. CASE /\ \E n \in DOMAIN given : j = Len(rest) + n /\ one[j] = given[n]
             /\ \E n \in DOMAIN given : k = Len(rest) + n /\ one[k] = given[n]
    <3>1. PICK m \in DOMAIN given : j = Len(rest) + m /\ one[j] = given[m]
      BY <2>4
    <3>2. PICK n \in DOMAIN given : k = Len(rest) + n /\ one[k] = given[n]
      BY <2>4
    <3>3. m = n
      BY <1>9, <1>12, <3>1, <3>2 DEF Accepted, Once
    <3> QED
      BY <3>1, <3>2, <3>3
  <2> QED
    BY <1>7, <2>1, <2>2, <2>3, <2>4
<1>13. Accepted(one)
  BY <1>10, <1>12 DEF Accepted, Once
<1>14. \A k \in DOMAIN given : \E j \in DOMAIN one : one[j] = given[k]
  BY <1>7
<1>15. \A k \in DOMAIN defaults : Line!Stays(given, defaults[k].name) =>
           \E j \in DOMAIN one : one[j] = defaults[k]
  BY <1>5, <1>7
<1>16. ASSUME NEW j \in DOMAIN one
       PROVE  \/ \E k \in DOMAIN given : one[j] = given[k]
              \/ \E k \in DOMAIN defaults :
                     one[j] = defaults[k] /\ Line!Stays(given, defaults[k].name)
  <2>1. CASE j \in DOMAIN rest /\ one[j] = rest[j]
    BY <1>5, <2>1
  <2>2. CASE \E k \in DOMAIN given : j = Len(rest) + k /\ one[j] = given[k]
    BY <2>2
  <2> QED
    BY <1>7, <2>1, <2>2
<1> QED
  BY <1>1, <1>3, <1>4, <1>7, <1>8, <1>13, <1>14, <1>15, <1>16

-----------------------------------------------------------------------------
(* What the joined arguments say is what both say.                         *)
LEMMA SaidByEither ==
  ASSUME NEW asked, Fit(asked), NEW name, name # "pager-help"
  PROVE  Line!Explicit(Joined(asked), name)
           <=> Line!Explicit(asked.given, name) \/ Line!Explicit(asked.defaults, name)
<1>1. ASSUME Line!Explicit(asked.given, name) PROVE Line!Explicit(Joined(asked), name)
  <2>1. PICK k \in DOMAIN asked.given : asked.given[k].name = name
    BY <1>1 DEF Line!Explicit
  <2>2. \E j \in DOMAIN Joined(asked) : Joined(asked)[j] = asked.given[k]
    BY JoinedIs
  <2> QED
    BY <2>1, <2>2 DEF Line!Explicit
<1>2. ASSUME Line!Explicit(asked.defaults, name), ~Line!Explicit(asked.given, name)
      PROVE  Line!Explicit(Joined(asked), name)
  <2>1. PICK k \in DOMAIN asked.defaults : asked.defaults[k].name = name
    BY <1>2 DEF Line!Explicit
  <2>2. Line!Stays(asked.given, asked.defaults[k].name)
    BY <1>2, <2>1 DEF Line!Stays
  <2>3. \E j \in DOMAIN Joined(asked) : Joined(asked)[j] = asked.defaults[k]
    BY <2>2, JoinedIs
  <2> QED
    BY <2>1, <2>3 DEF Line!Explicit
<1>3. ASSUME Line!Explicit(Joined(asked), name)
      PROVE  Line!Explicit(asked.given, name) \/ Line!Explicit(asked.defaults, name)
  <2>1. PICK j \in DOMAIN Joined(asked) : Joined(asked)[j].name = name
    BY <1>3 DEF Line!Explicit
  <2>2. \/ \E k \in DOMAIN asked.given : Joined(asked)[j] = asked.given[k]
        \/ \E k \in DOMAIN asked.defaults : Joined(asked)[j] = asked.defaults[k]
    BY JoinedIs
  <2> QED
    BY <2>1, <2>2 DEF Line!Explicit
<1> QED
  BY <1>1, <1>2, <1>3

LEMMA NothingSaid ==
  ASSUME NEW name
  PROVE  ~Line!Explicit(<< >>, name)
BY DEF Line!Explicit

LEMMA SetByEither ==
  ASSUME NEW asked, Fit(asked), NEW name, name # "pager-help"
  PROVE  Line!Set(asked.given, asked.defaults, name) <=> Line!Set(Joined(asked), << >>, name)
BY SaidByEither, NothingSaid DEF Line!Set

LEMMA OneOfEither ==
  ASSUME NEW asked, Fit(asked), NEW name, name # "pager-help", name \notin Line!Repeated
  PROVE  /\ Line!Explicit(asked.given, name) =>
                Line!GetOne(Joined(asked), name) = Line!GetOne(asked.given, name)
         /\ Line!Explicit(asked.defaults, name) /\ ~Line!Explicit(asked.given, name) =>
                Line!GetOne(Joined(asked), name) = Line!GetOne(asked.defaults, name)
<1>1. PICK A, B, C : /\ asked.given \in Seq(A) /\ asked.defaults \in Seq(B)
                     /\ Joined(asked) \in Seq(C)
  BY JoinedIs DEF Fit
<1>2. Accepted(asked.given) /\ Accepted(asked.defaults) /\ Accepted(Joined(asked))
  BY JoinedIs DEF Fit
<1>3. ASSUME Line!Explicit(asked.given, name)
      PROVE  Line!GetOne(Joined(asked), name) = Line!GetOne(asked.given, name)
  <2>1. PICK k \in DOMAIN asked.given : asked.given[k].name = name
    BY <1>3 DEF Line!Explicit
  <2>2. PICK j \in DOMAIN Joined(asked) : Joined(asked)[j] = asked.given[k]
    BY JoinedIs
  <2>3. Line!GetOne(asked.given, asked.given[k].name) = asked.given[k].value
    BY <1>1, <1>2, <2>1, GetOneIs
  <2>4. Line!GetOne(Joined(asked), Joined(asked)[j].name) = Joined(asked)[j].value
    BY <1>1, <1>2, <2>1, <2>2, GetOneIs
  <2> QED
    BY <2>1, <2>2, <2>3, <2>4
<1>4. ASSUME Line!Explicit(asked.defaults, name), ~Line!Explicit(asked.given, name)
      PROVE  Line!GetOne(Joined(asked), name) = Line!GetOne(asked.defaults, name)
  <2>1. PICK k \in DOMAIN asked.defaults : asked.defaults[k].name = name
    BY <1>4 DEF Line!Explicit
  <2>2. Line!Stays(asked.given, asked.defaults[k].name)
    BY <1>4, <2>1 DEF Line!Stays
  <2>3. PICK j \in DOMAIN Joined(asked) : Joined(asked)[j] = asked.defaults[k]
    BY <2>2, JoinedIs
  <2>4. Line!GetOne(asked.defaults, asked.defaults[k].name) = asked.defaults[k].value
    BY <1>1, <1>2, <2>1, GetOneIs
  <2>5. Line!GetOne(Joined(asked), Joined(asked)[j].name) = Joined(asked)[j].value
    BY <1>1, <1>2, <2>1, <2>3, GetOneIs
  <2> QED
    BY <2>1, <2>3, <2>4, <2>5
<1> QED
  BY <1>3, <1>4

LEMMA SelectedByEither ==
  ASSUME NEW asked, Fit(asked), NEW name, name # "pager-help", name \notin Line!Repeated
  PROVE  Line!Selected(Joined(asked), << >>, name)
           = Line!Selected(asked.given, asked.defaults, name)
<1>1. CASE Line!Explicit(asked.given, name)
  BY <1>1, OneOfEither, SaidByEither DEF Line!Selected
<1>2. CASE Line!Explicit(asked.defaults, name) /\ ~Line!Explicit(asked.given, name)
  BY <1>2, OneOfEither, SaidByEither DEF Line!Selected
<1>3. CASE ~Line!Explicit(asked.defaults, name) /\ ~Line!Explicit(asked.given, name)
  BY <1>3, SaidByEither, NothingSaid DEF Line!Selected
<1> QED
  BY <1>1, <1>2, <1>3

LEMMA ValuesOfBoth ==
  ASSUME NEW asked, Fit(asked)
  PROVE  /\ Line!Merged(Joined(asked), << >>, "xml")
              = Line!Merged(asked.given, asked.defaults, "xml")
         /\ ~Line!Explicit(asked.defaults, "file") =>
                Line!Values(Joined(asked), "file") = Line!Values(asked.given, "file")
<1>1. PICK S : S = ToSet(asked.given) \cup ToSet(asked.defaults)
  OBVIOUS
<1>2. asked.given \in Seq(S) /\ asked.defaults \in Seq(S)
  <2>1. PICK A, B : A = ToSet(asked.given) /\ B = ToSet(asked.defaults)
    OBVIOUS
  <2> QED
    BY <1>1, <2>1 DEF Fit
<1>3. PICK rest \in Seq(S) :
         /\ rest = Line!Remaining(asked.defaults, asked.given)
         /\ \A k \in DOMAIN rest : \E j \in DOMAIN asked.defaults : asked.defaults[j] = rest[k]
         /\ Line!Values(rest, "xml") = Line!Values(asked.defaults, "xml")
  BY <1>2, RemainsAre DEF KeptOf
<1>4. PICK T : T = {x.value : x \in S}
  OBVIOUS
<1>5. ASSUME NEW s \in Seq(S), NEW name PROVE Line!Values(s, name) \in Seq(T)
  <2>1. \A k \in DOMAIN s : s[k].name = name => s[k].value \in T
    BY <1>4
  <2> QED
    BY <2>1, ValuesTyped
<1>6. ASSUME NEW name
      PROVE  Line!Values(Joined(asked), name)
               = Line!Values(rest, name) \o Line!Values(asked.given, name)
  <2>1. Joined(asked) = rest \o asked.given
    BY <1>3 DEF Joined
  <2>2. Line!Values(rest \o asked.given, name)
           = Line!Values(rest, name) \o Line!Values(asked.given, name)
    BY <1>2, ValuesConcat
  <2> QED
    BY <2>1, <2>2
<1>7. ASSUME NEW v \in Seq(T) PROVE v \o << >> = v /\ << >> \o v = v
  OBVIOUS
<1>8. Line!Values(<< >>, "xml") = << >>
  <2>1. << >> \in Seq(S)
    OBVIOUS
  <2> QED
    BY <2>1, NothingSaid, ValuesNone
<1>9. Line!Merged(Joined(asked), << >>, "xml") = Line!Merged(asked.given, asked.defaults, "xml")
  <2>1. PICK v \in Seq(T) : v = Line!Values(Joined(asked), "xml")
    <3>1. Line!Values(Joined(asked), "xml") \in Seq(T)
      <4>1. rest \o asked.given \in Seq(S)
        BY <1>2
      <4> QED
        BY <1>3, <1>5, <4>1 DEF Joined
    <3> QED
      BY <3>1
  <2>2. Line!Values(<< >>, "xml") \o v = v
    BY <1>7, <1>8
  <2>3. v = Line!Values(asked.defaults, "xml") \o Line!Values(asked.given, "xml")
    BY <1>3, <1>6, <2>1
  <2> QED
    BY <2>1, <2>2, <2>3, Zenon DEF Line!Merged
<1>10. ASSUME ~Line!Explicit(asked.defaults, "file")
       PROVE  Line!Values(Joined(asked), "file") = Line!Values(asked.given, "file")
  <2>1. ~Line!Explicit(rest, "file")
    BY <1>3, <1>10 DEF Line!Explicit
  <2>2. Line!Values(rest, "file") = << >>
    BY <2>1, ValuesNone
  <2>3. PICK v \in Seq(T) : v = Line!Values(asked.given, "file")
    BY <1>2, <1>5
  <2>4. << >> \o v = v
    BY <1>7
  <2>5. Line!Values(Joined(asked), "file") = << >> \o v
    BY <1>6, <2>2, <2>3
  <2> QED
    BY <2>3, <2>4, <2>5, Zenon
<1> QED
  BY <1>9, <1>10

LEMMA BadByEither ==
  ASSUME NEW asked, Proper(asked)
  PROVE  /\ Line!BadPaging(asked.given, asked.defaults) <=> Line!BadPaging(Joined(asked), << >>)
         /\ Line!BadColour(asked.given, asked.defaults) <=> Line!BadColour(Joined(asked), << >>)
         /\ Line!BadDelimiter(asked.given, asked.defaults)
              <=> Line!BadDelimiter(Joined(asked), << >>)
         /\ Line!BadQuery(asked.given, asked.defaults) <=> Line!BadQuery(Joined(asked), << >>)
         /\ Line!BadPager(asked.given, asked.defaults) <=> Line!BadPager(Joined(asked), << >>)
         /\ Line!Conflict(asked.given, asked.defaults) <=> Line!Conflict(Joined(asked), << >>)
<1>1. \A name : name # "pager-help" /\ name \notin Line!Repeated =>
          Line!Selected(Joined(asked), << >>, name)
            = Line!Selected(asked.given, asked.defaults, name)
  BY SelectedByEither DEF Proper
<1>2. \A name \in {"paging", "colour", "delimiter", "message", "component", "tag", "pager"} :
          Line!Selected(Joined(asked), << >>, name)
            = Line!Selected(asked.given, asked.defaults, name)
  BY <1>1 DEF Line!Repeated
<1>3. \A name \in {"secret-files", "secret-dir", "info", "validate", "summary", "follow",
                   "nocounts", "message", "component", "tag"} :
          Line!Set(asked.given, asked.defaults, name) <=> Line!Set(Joined(asked), << >>, name)
  <2>1. \A name : name # "pager-help" =>
          (Line!Set(asked.given, asked.defaults, name) <=> Line!Set(Joined(asked), << >>, name))
    BY SetByEither DEF Proper
  <2> QED
    BY <2>1
<1>4. Line!Values(Joined(asked), "file") = Line!Values(asked.given, "file")
  BY ValuesOfBoth DEF Proper, Line!BadDefaults
<1>5. Line!BadPaging(asked.given, asked.defaults) <=> Line!BadPaging(Joined(asked), << >>)
  BY <1>2 DEF Line!BadPaging
<1>6. Line!BadColour(asked.given, asked.defaults) <=> Line!BadColour(Joined(asked), << >>)
  BY <1>2 DEF Line!BadColour
<1>7. Line!BadDelimiter(asked.given, asked.defaults) <=> Line!BadDelimiter(Joined(asked), << >>)
  BY <1>2 DEF Line!BadDelimiter
<1>8. Line!BadQuery(asked.given, asked.defaults) <=> Line!BadQuery(Joined(asked), << >>)
  BY <1>2 DEF Line!BadQuery, Line!Asked
<1>9. Line!BadPager(asked.given, asked.defaults) <=> Line!BadPager(Joined(asked), << >>)
  BY <1>2 DEF Line!BadPager
<1>10. Line!Conflict(asked.given, asked.defaults) <=> Line!Conflict(Joined(asked), << >>)
  BY <1>3, <1>4 DEF Line!Conflict, Line!Asked
<1> QED
  BY <1>5, <1>6, <1>7, <1>8, <1>9, <1>10

LEMMA BadStyleByEither ==
  ASSUME NEW asked, Proper(asked)
  PROVE  Line!BadStyle(Joined(asked)) <=> Line!BadStyle(asked.given)
<1>1. "style" # "pager-help" /\ "style" \notin Line!Repeated /\ Fit(asked)
  BY DEF Line!Repeated, Proper
<1>2. CASE Line!Explicit(asked.given, "style")
  <2>1. Line!GetOne(Joined(asked), "style") = Line!GetOne(asked.given, "style")
    BY <1>1, <1>2, OneOfEither
  <2>2. Line!Explicit(Joined(asked), "style")
    BY <1>1, <1>2, SaidByEither
  <2> QED
    BY <1>2, <2>1, <2>2 DEF Line!BadStyle
<1>3. CASE Line!Explicit(asked.defaults, "style") /\ ~Line!Explicit(asked.given, "style")
  <2>1. Line!GetOne(Joined(asked), "style") = Line!GetOne(asked.defaults, "style")
    BY <1>1, <1>3, OneOfEither
  <2>2. Line!BadStyle(Joined(asked)) => Line!BadStyle(asked.defaults)
    BY <1>3, <2>1 DEF Line!BadStyle
  <2> QED
    BY <1>3, <2>2 DEF Line!BadStyle, Proper
<1>4. CASE ~Line!Explicit(asked.defaults, "style") /\ ~Line!Explicit(asked.given, "style")
  BY <1>1, <1>4, SaidByEither DEF Line!BadStyle
<1> QED
  BY <1>2, <1>3, <1>4

LEMMA EndsByEither ==
  ASSUME NEW asked, Proper(asked)
  PROVE  Line!EndsWith(Joined(asked), << >>) = Line!EndsWith(asked.given, asked.defaults)
<1>1. Line!Parsed(asked.given) = "parsed" /\ Line!Parsed(Joined(asked)) = "parsed"
  <2>1. PICK A : A = ToSet(asked.given)
    OBVIOUS
  <2>2. asked.given \in Seq(A) /\ Accepted(asked.given)
    BY <2>1 DEF Proper, Fit
  <2>3. PICK B : Joined(asked) \in Seq(B)
    BY JoinedIs DEF Proper
  <2>4. Accepted(Joined(asked))
    BY JoinedIs DEF Proper
  <2> QED
    BY <2>2, <2>3, <2>4, ParsedIsAccepted
<1>2. /\ ~Line!Explicit(asked.given, "version") /\ ~Line!Explicit(asked.given, "pager-help")
      /\ ~Line!Explicit(asked.given, "install-ghostty-bindings")
      /\ ~Line!Explicit(asked.defaults, "version")
      /\ ~Line!Explicit(asked.defaults, "install-ghostty-bindings")
  BY DEF Proper, Fit, Line!BadDefaults
<1>3. /\ ~Line!Explicit(Joined(asked), "version")
      /\ ~Line!Explicit(Joined(asked), "install-ghostty-bindings")
  BY <1>2, SaidByEither DEF Proper
<1>4. ~Line!Explicit(Joined(asked), "pager-help")
  <2>1. ASSUME NEW j \in DOMAIN Joined(asked), Joined(asked)[j].name = "pager-help" PROVE FALSE
    <3>1. \/ \E k \in DOMAIN asked.given : Joined(asked)[j] = asked.given[k]
          \/ \E k \in DOMAIN asked.defaults :
                 /\ Joined(asked)[j] = asked.defaults[k]
                 /\ Line!Stays(asked.given, asked.defaults[k].name)
      BY JoinedIs DEF Proper
    <3> QED
      BY <1>2, <2>1, <3>1 DEF Line!Explicit, Line!Stays
  <2> QED
    BY <2>1 DEF Line!Explicit
<1>5. ~Line!BadDefaults(<< >>) /\ ~Line!BadStyle(<< >>)
  <2>1. Line!Parsed(<< >>) = "parsed"
    <3>1. << >> \in Seq({}) /\ Accepted(<< >>)
      BY DEF Accepted, Once
    <3> QED
      BY <3>1, ParsedIsAccepted
  <2> QED
    BY <2>1, NothingSaid DEF Line!BadDefaults, Line!BadStyle
<1>6. ~Line!BadDefaults(asked.defaults) /\ ~Line!BadStyle(asked.defaults)
  BY DEF Proper
<1>7. Line!Set(asked.given, asked.defaults, "secret-files")
        <=> Line!Set(Joined(asked), << >>, "secret-files")
  BY SetByEither DEF Proper
<1> QED
  BY <1>1, <1>2, <1>3, <1>4, <1>5, <1>6, <1>7, BadByEither, BadStyleByEither DEF Line!EndsWith

-----------------------------------------------------------------------------
(* The options of both, and of one that has all on its command line.       *)
LEMMA OneIs ==
  ASSUME NEW asked \in Invocations
  PROVE  /\ Line!AsOne(asked).given = Joined(asked) /\ Line!AsOne(asked).defaults = << >>
         /\ Line!AsOne(asked).terminal = asked.terminal
         /\ Line!AsOne(asked).pager = asked.pager /\ Line!AsOne(asked).stdin = asked.stdin
<1>1. PICK G, D, P, I :
         asked \in [given : G, defaults : D, terminal : BOOLEAN, pager : P, stdin : I]
  BY InvocationsAssumption
<1>2. PICK r : r = Line!Remaining(asked.defaults, asked.given) \o asked.given
  OBVIOUS
<1>3. Line!AsOne(asked) = [asked EXCEPT !.defaults = << >>, !.given = r]
  BY <1>1, <1>2 DEF Line!AsOne
<1> QED
  BY <1>1, <1>2, <1>3 DEF Joined

LEMMA OptionsByEither ==
  ASSUME NEW asked \in Invocations, Proper(asked), NEW o, o = Line!OptionsOf(asked)
  PROVE  \A field \in DOMAIN o \ {"asked", "style"} :
             o[field] = Line!OptionsOf(Line!AsOne(asked))[field]
<1> DEFINE given == asked.given
           defaults == asked.defaults
           all == Joined(asked)
           one == Line!OptionsOf(Line!AsOne(asked))
<1>1. Fit(asked)
  BY DEF Proper
<1>2. \A name : name # "pager-help" =>
          (Line!Set(given, defaults, name) <=> Line!Set(all, << >>, name))
  BY <1>1, SetByEither
<1>3. \A name : name # "pager-help" /\ name \notin Line!Repeated =>
          Line!Selected(all, << >>, name) = Line!Selected(given, defaults, name)
  BY <1>1, SelectedByEither
<1>4. Line!AsOne(asked).given = all /\ Line!AsOne(asked).defaults = << >>
      /\ Line!AsOne(asked).terminal = asked.terminal
      /\ Line!AsOne(asked).pager = asked.pager /\ Line!AsOne(asked).stdin = asked.stdin
  BY OneIs
<1>5. o.ends = one.ends
  BY <1>4, EndsByEither DEF Line!OptionsOf
<1>6. o.sources = one.sources
  <2>1. Line!Values(all, "file") = Line!Values(given, "file")
    BY <1>1, ValuesOfBoth DEF Proper, Line!BadDefaults
  <2> QED
    BY <1>4, <2>1 DEF Line!OptionsOf
<1>7. o.customs = one.customs
  <2>1. Line!Merged(all, << >>, "xml") = Line!Merged(given, defaults, "xml")
    BY <1>1, ValuesOfBoth
  <2> QED
    BY <1>4, <2>1 DEF Line!OptionsOf
<1>8. \A name \in {"fix", "message", "tag", "component", "colour", "paging", "pager"} :
          Line!Selected(all, << >>, name) = Line!Selected(given, defaults, name)
  BY <1>3 DEF Line!Repeated
<1>9. \A name \in {"info", "column", "verbose", "header", "trailer", "follow", "validate",
                   "secret", "summary", "nocounts", "nowrap"} :
          Line!Set(given, defaults, name) <=> Line!Set(all, << >>, name)
  BY <1>2
<1>10. o.override = one.override /\ o.colour = one.colour /\ o.paging = one.paging
       /\ o.takes_files = one.takes_files /\ o.terminal = one.terminal
  BY <1>4, <1>8 DEF Line!OptionsOf
<1>11. o.commands = one.commands
  <2>1. Line!Commands(all, << >>) = Line!Commands(given, defaults)
    <3>1. \A name \in {"message", "tag", "component"} :
              Line!Query(all, << >>, name) = Line!Query(given, defaults, name)
      BY <1>8 DEF Line!Query
    <3>2. Line!Set(given, defaults, "info") <=> Line!Set(all, << >>, "info")
      BY <1>9
    <3> HIDE DEF given, defaults, all
    <3> QED
      BY <3>1, <3>2 DEF Line!Commands
  <2> QED
    BY <1>4, <2>1 DEF Line!OptionsOf
<1>12. o.layout = one.layout
  <2>1. {name \in {"column", "verbose", "header", "trailer"} : Line!Set(given, defaults, name)}
          = {name \in {"column", "verbose", "header", "trailer"} : Line!Set(all, << >>, name)}
    BY <1>9
  <2> QED
    BY <1>4, <2>1 DEF Line!OptionsOf
<1>13. o.follow = one.follow /\ o.validate = one.validate /\ o.secret = one.secret
       /\ o.summary = one.summary /\ o.count = one.count /\ o.nowrap = one.nowrap
  <2>1. ASSUME NEW name \in {"follow", "validate", "secret", "summary", "nocounts", "nowrap"}
        PROVE  Line!Set(given, defaults, name) = Line!Set(all, << >>, name)
    <3>1. Line!Set(given, defaults, name) \in BOOLEAN /\ Line!Set(all, << >>, name) \in BOOLEAN
      BY DEF Line!Set, Line!Explicit
    <3>2. Line!Set(given, defaults, name) <=> Line!Set(all, << >>, name)
      BY <1>9
    <3> HIDE DEF given, defaults, all
    <3> QED
      BY <3>1, <3>2
  <2>2. /\ o.follow = Line!Set(given, defaults, "follow")
        /\ o.validate = Line!Set(given, defaults, "validate")
        /\ o.secret = Line!Set(given, defaults, "secret")
        /\ o.summary = Line!Set(given, defaults, "summary")
        /\ o.count = ~Line!Set(given, defaults, "nocounts")
        /\ o.nowrap = Line!Set(given, defaults, "nowrap")
    BY DEF Line!OptionsOf
  <2>3. PICK x : x = Line!AsOne(asked)
    OBVIOUS
  <2>4. /\ one.follow = Line!Set(x.given, x.defaults, "follow")
        /\ one.validate = Line!Set(x.given, x.defaults, "validate")
        /\ one.secret = Line!Set(x.given, x.defaults, "secret")
        /\ one.summary = Line!Set(x.given, x.defaults, "summary")
        /\ one.count = ~Line!Set(x.given, x.defaults, "nocounts")
        /\ one.nowrap = Line!Set(x.given, x.defaults, "nowrap")
    BY <2>3 DEF Line!OptionsOf
  <2>5. x.given = all /\ x.defaults = << >>
    BY <1>4, <2>3
  <2> HIDE DEF given, defaults, all, one
  <2> QED
    BY <2>1, <2>2, <2>4, <2>5
<1>14. DOMAIN o \ {"asked", "style"}
         = {"ends", "sources", "override", "customs", "commands", "layout", "colour", "follow",
            "validate", "secret", "summary", "count", "nowrap", "paging", "takes_files",
            "terminal"}
  BY DEF Line!OptionsOf
<1> HIDE DEF one
<1>15. \A field \in DOMAIN o \ {"asked", "style"} : o[field] = one[field]
  BY <1>5, <1>6, <1>7, <1>10, <1>11, <1>12, <1>13, <1>14
<1> QED
  BY <1>15 DEF one

(* The decorations: the command line's words if it has any, and --number   *)
(* on top of those of the defaults.                                        *)
LEMMA StyleOfBoth ==
  ASSUME NEW asked \in Invocations
  PROVE  LET says(name) == Line!Explicit(asked.given, name)
             alone  == Line!OptionsOf([asked EXCEPT !.defaults = << >>]).style
             before == Line!OptionsOf([asked EXCEPT !.given = << >>]).style
         IN  Line!OptionsOf(asked).style
               = IF says("style") \/ says("plain") THEN alone
                 ELSE IF says("number") THEN before \cup {"numbers"} ELSE before
<1>1. PICK G, D, P, I :
         asked \in [given : G, defaults : D, terminal : BOOLEAN, pager : P, stdin : I]
  BY InvocationsAssumption
<1>2. PICK x : x = [asked EXCEPT !.defaults = << >>]
  OBVIOUS
<1>3. PICK y : y = [asked EXCEPT !.given = << >>]
  OBVIOUS
<1>4. /\ x.given = asked.given /\ x.defaults = << >> /\ x.terminal = asked.terminal
      /\ y.given = << >> /\ y.defaults = asked.defaults /\ y.terminal = asked.terminal
  BY <1>1, <1>2, <1>3
<1>5. PICK plain : plain = Line!DefaultStyle(asked.terminal)
  OBVIOUS
<1>6. Line!OptionsOf(asked).style = Line!Restyled(Line!Restyled(plain, asked.defaults), asked.given)
  BY <1>5 DEF Line!OptionsOf
<1>7. Line!OptionsOf(x).style = Line!Restyled(Line!Restyled(plain, << >>), asked.given)
  BY <1>4, <1>5 DEF Line!OptionsOf
<1>8. Line!OptionsOf(y).style = Line!Restyled(Line!Restyled(plain, asked.defaults), << >>)
  BY <1>4, <1>5 DEF Line!OptionsOf
<1>9. \A style : Line!Restyled(style, << >>) = style
  BY NothingSaid DEF Line!Restyled
<1>10. \A style, other : Line!Explicit(asked.given, "style") \/ Line!Explicit(asked.given, "plain")
           => Line!Restyled(style, asked.given) = Line!Restyled(other, asked.given)
  BY DEF Line!Restyled
<1>11. \A style : ~Line!Explicit(asked.given, "style") /\ ~Line!Explicit(asked.given, "plain")
           => Line!Restyled(style, asked.given)
                = IF Line!Explicit(asked.given, "number") THEN style \cup {"numbers"} ELSE style
  BY DEF Line!Restyled
<1> QED
  BY <1>2, <1>3, <1>6, <1>7, <1>8, <1>9, <1>10, <1>11

LEMMA DefaultsFirst == opts \in CommandLines => DefaultsComeFirst
<1> SUFFICES ASSUME opts \in CommandLines PROVE DefaultsComeFirst
  OBVIOUS
<1>1. PICK asked \in Invocations : opts = Line!OptionsOf(asked)
  BY DEF CommandLines
<1>2. opts.asked = asked
  BY <1>1 DEF Line!OptionsOf
<1> DEFINE given == asked.given
           defaults == asked.defaults
           alone == Line!OptionsOf([asked EXCEPT !.defaults = << >>])
           one == Line!OptionsOf(Line!AsOne(asked))
           before == Line!OptionsOf([asked EXCEPT !.given = << >>]).style
           says(name) == Line!Explicit(given, name)
           first == \/ Line!Parsed(given) # "parsed"
                    \/ \E name \in {"version", "pager-help", "install-ghostty-bindings"} :
                           says(name)
           refused == Line!BadDefaults(defaults) \/ Line!BadStyle(defaults)
<1>3. opts.ends = Line!EndsWith(given, defaults)
  BY <1>1 DEF Line!OptionsOf
<1>4. CASE first
  <2>1. PICK G, D, P, I :
           asked \in [given : G, defaults : D, terminal : BOOLEAN, pager : P, stdin : I]
    BY InvocationsAssumption
  <2>2. PICK x : x = [asked EXCEPT !.defaults = << >>]
    OBVIOUS
  <2>3. x.given = given /\ x.defaults = << >>
    BY <2>1, <2>2
  <2>4. alone.ends = Line!EndsWith(given, << >>)
    BY <2>2, <2>3 DEF Line!OptionsOf
  <2>5. Line!Parsed(given) \in {"error", "help", "parsed"}
    BY DEF Line!Parsed
  <2>6. Line!EndsWith(given, << >>) = Line!EndsWith(given, defaults)
    <3> HIDE DEF given, defaults
    <3>1. CASE Line!Parsed(given) = "error"
      BY <3>1 DEF Line!EndsWith
    <3>2. CASE Line!Parsed(given) = "help"
      BY <3>2 DEF Line!EndsWith
    <3>3. CASE Line!Parsed(given) = "parsed"
      BY <1>4, <3>3 DEF Line!EndsWith
    <3> QED
      BY <2>5, <3>1, <3>2, <3>3
  <2>7. opts.ends = alone.ends
    BY <1>3, <2>4, <2>6
  <2> QED
    BY <1>2, <1>4, <2>7 DEF DefaultsComeFirst
<1>5. CASE ~first /\ refused
  <2>1. opts.ends = {1}
    BY <1>3, <1>5 DEF Line!EndsWith
  <2> QED
    BY <1>2, <1>5, <2>1 DEF DefaultsComeFirst
<1>6. CASE ~first /\ ~refused
  <2>1. given \in Seq(ToSet(given)) /\ defaults \in Seq(ToSet(defaults))
    <3>1. PICK G, D, P, I : /\ G = Seq(ToSet(given)) /\ D = Seq(ToSet(defaults))
             /\ asked \in [given : G, defaults : D, terminal : BOOLEAN, pager : P, stdin : I]
      BY InvocationsAssumption
    <3> QED
      BY <3>1
  <2>2. Accepted(given) /\ Accepted(defaults)
    <3>1. Line!Parsed(given) = "parsed" /\ Line!Parsed(defaults) = "parsed"
      BY <1>6 DEF Line!BadDefaults
    <3>2. PICK A, B : A = ToSet(given) /\ B = ToSet(defaults)
      OBVIOUS
    <3>3. given \in Seq(A) /\ defaults \in Seq(B)
      BY <2>1, <3>2
    <3> HIDE DEF given, defaults
    <3> QED
      BY <3>1, <3>3, ParsedIsAccepted
  <2>3. Proper(asked)
    BY <1>6, <2>1, <2>2 DEF Proper, Fit
  <2>4. \A field \in DOMAIN opts \ {"asked", "style"} : opts[field] = one[field]
    BY <1>1, <2>3, OptionsByEither
  <2>5. opts.style = IF says("style") \/ says("plain") THEN alone.style
                     ELSE IF says("number") THEN before \cup {"numbers"} ELSE before
    BY <1>1, StyleOfBoth
  <2> HIDE DEF one, alone, before
  <2> QED
    BY <1>2, <1>6, <2>4, <2>5 DEF DefaultsComeFirst, one, alone, before
<1> QED
  BY <1>4, <1>5, <1>6

(* An invocation with defaults of the environment has the options of one   *)
(* that has both on its command line, whatever the arguments are and       *)
(* however many.                                                           *)
THEOREM DefaultsAreOverridden == Spec => []DefaultsComeFirst
<1>1. Init => TypeInv /\ CacheInv
  BY TypeInvInit, CacheInitOK DEF Init
<1>2. TypeInv /\ CacheInv /\ [CacheNext]_cacheVars /\ [Next]_vars => TypeInv' /\ CacheInv'
  BY TypeInvKept, CacheNextKeeps
<1>3. TypeInv => DefaultsComeFirst
  BY DefaultsFirst DEF TypeInv
<1>4. Spec => [][CacheNext]_cacheVars
  BY UsesTheCache, PTL DEF CacheSpec
<1> QED
  BY <1>1, <1>2, <1>3, <1>4, PTL DEF Spec

LEMMA DictionariesAre ==
  ASSUME NEW t \in Threads \cup {Starter}, NEW k \in Schemas,
         NEW s \in {NoDictionary} \cup SessionDicts
  PROVE  /\ Built(t, k, s) # NoDictionary /\ ~Built(t, k, s).custom
         /\ Built(t, k, s).custom \in BOOLEAN
         /\ Built(t, k, s).key = k /\ Built(t, k, s).fallback = s /\ ~IsMerged(Built(t, k, s))
         /\ Custom(k, s) # NoDictionary /\ Custom(k, s).custom
         /\ Custom(k, s).custom \in BOOLEAN
         /\ Custom(k, s).key = k /\ Custom(k, s).fallback = s /\ ~IsMerged(Custom(k, s))
<1>1. NoDictionary \notin {Built(t, k, s), Custom(k, s)}
  BY NoDictionaryAssumption
<1> QED
  BY <1>1 DEF Built, Custom, IsMerged

LEMMA SessionDictsAre ==
  /\ SessionKey \in Schemas /\ SessionKey \notin SessionUsers
  /\ Custom(SessionKey, NoDictionary) \in SessionDicts
  /\ \A t \in Threads \cup {Starter} : Built(t, SessionKey, NoDictionary) \in SessionDicts
  /\ \A s \in SessionDicts : s # NoDictionary /\ s.custom \in BOOLEAN
<1>1. SessionKey \in Schemas /\ SessionKey \notin SessionUsers
  BY DEF SessionKey, Schemas, EmbeddedKeys, SessionUsers
<1>2. ASSUME NEW s \in SessionDicts PROVE s # NoDictionary /\ s.custom \in BOOLEAN
  <2>1. CASE s = Custom(SessionKey, NoDictionary)
    BY <1>1, <2>1, DictionariesAre
  <2>2. ASSUME NEW t \in Threads \cup {Starter}, s = Built(t, SessionKey, NoDictionary)
        PROVE  s # NoDictionary /\ s.custom \in BOOLEAN
    BY <1>1, <2>2, DictionariesAre
  <2> QED
    BY <1>2, <2>1, <2>2 DEF SessionDicts
<1> QED
  BY <1>1, <1>2 DEF SessionDicts

(* A dictionary that is built when it is first asked for.                  *)
LEMMA BuildingNames ==
  ASSUME NEW map, NEW customs, NEW n \in Nat, NamedOf(map, customs, n),
         NEW t \in Threads \cup {Starter}, NEW k \in EmbeddedKeys, k \notin DOMAIN map,
         NEW s, s = IF k \in SessionUsers THEN map[SessionKey] ELSE NoDictionary,
         k \in SessionUsers => SessionKey \in DOMAIN map
  PROVE  NamedOf(With(map, k, Built(t, k, s)), customs, n)
<1> DEFINE dict == Built(t, k, s)
           new  == With(map, k, dict)
<1>1. k \in Schemas /\ s \in {NoDictionary} \cup SessionDicts
  BY DEF Schemas, NamedOf
<1>2. /\ dict # NoDictionary /\ ~dict.custom /\ dict.custom \in BOOLEAN
      /\ dict.key = k /\ dict.fallback = s /\ ~IsMerged(dict)
  BY <1>1, DictionariesAre
<1>3. ~RegisteredIn(customs, n, k)
  BY DEF NamedOf, RegisteredIn
<1>4. k \in SessionUsers => (s.custom <=> SessionIn(customs, n, k))
  <2>1. SUFFICES ASSUME k \in SessionUsers PROVE s.custom <=> SessionIn(customs, n, k)
    OBVIOUS
  <2>2. s.custom <=> RegisteredIn(customs, n, SessionKey)
    BY <2>1 DEF NamedOf, IsNamed
  <2> QED
    BY <1>3, <2>2 DEF SessionIn, RegisteredIn
<1>5. IsNamed(dict, k, customs, n)
  <2> HIDE DEF dict
  <2> QED
    BY <1>1, <1>2, <1>3, <1>4 DEF IsNamed, NamedOf
<1>6. k = SessionKey => dict \in SessionDicts
  BY SessionDictsAre
<1>7. /\ DOMAIN new = DOMAIN map \cup {k} /\ new[k] = dict
      /\ \A j \in DOMAIN map : new[j] = map[j]
  BY DEF With
<1> HIDE DEF new, dict
<1> QED
  BY <1>5, <1>6, <1>7 DEF NamedOf, new, dict

(* A dictionary that is registered takes the place of the one there is.    *)
LEMMA RegisteringNames ==
  ASSUME NEW map, NEW customs, NEW n \in Nat, NamedOf(map, customs, n),
         NEW k \in Schemas, k = customs[n + 1],
         k \in SessionUsers => SessionKey \in DOMAIN map,
         \A j \in DOMAIN map : RegisteredIn(customs, n, j) \/ j = SessionKey,
         NEW s, s = IF k \in SessionUsers THEN map[SessionKey] ELSE NoDictionary
  PROVE  /\ NamedOf(With(map, k, Custom(k, s)), customs, n + 1)
         /\ \A j \in DOMAIN With(map, k, Custom(k, s)) :
                RegisteredIn(customs, n + 1, j) \/ j = SessionKey
<1> DEFINE dict == Custom(k, s)
           new  == With(map, k, dict)
<1>1. s \in {NoDictionary} \cup SessionDicts
  BY DEF NamedOf
<1>2. /\ dict # NoDictionary /\ dict.custom /\ dict.custom \in BOOLEAN
      /\ dict.key = k /\ dict.fallback = s /\ ~IsMerged(dict)
  BY <1>1, DictionariesAre
<1>3. \A a : a \in 1 .. n + 1 <=> a \in 1 .. n \/ a = n + 1
  OBVIOUS
<1>4. \A a \in 1 .. n : \A b : b \in a + 1 .. n + 1 <=> b \in a + 1 .. n \/ b = n + 1
  OBVIOUS
<1>5. RegisteredIn(customs, n + 1, k)
  BY <1>3 DEF RegisteredIn
<1>6. \A j : j # k => (RegisteredIn(customs, n + 1, j) <=> RegisteredIn(customs, n, j))
  BY <1>3 DEF RegisteredIn
<1>7. k \in SessionUsers => (s.custom <=> SessionIn(customs, n + 1, k))
  <2>1. SUFFICES ASSUME k \in SessionUsers PROVE s.custom <=> SessionIn(customs, n + 1, k)
    OBVIOUS
  <2>2. s.custom <=> RegisteredIn(customs, n, SessionKey)
    BY <2>1 DEF NamedOf, IsNamed
  <2>3. k # SessionKey
    BY <2>1, SessionDictsAre
  <2> QED
    BY <1>3, <1>4, <1>5, <2>2, <2>3 DEF SessionIn, RegisteredIn
<1>8. \A j \in SessionUsers \ {k} : 
         RegisteredIn(customs, n, j) => (SessionIn(customs, n + 1, j) <=> SessionIn(customs, n, j))
  <2>1. SUFFICES ASSUME NEW j \in SessionUsers \ {k}, RegisteredIn(customs, n, j)
                 PROVE  SessionIn(customs, n + 1, j) <=> SessionIn(customs, n, j)
    OBVIOUS
  <2>2. RegisteredIn(customs, n + 1, j)
    BY <1>6, <2>1
  <2>3. ASSUME SessionIn(customs, n + 1, j) PROVE SessionIn(customs, n, j)
    <3>1. PICK a \in 1 .. n + 1 : /\ customs[a] = SessionKey
                                  /\ \E b \in a + 1 .. n + 1 : customs[b] = j
      BY <2>2, <2>3 DEF SessionIn
    <3>2. PICK b \in a + 1 .. n + 1 : customs[b] = j
      BY <3>1
    <3>3. b # n + 1 /\ a \in Int /\ b \in Int
      BY <2>1, <3>2
    <3>4. a \in 1 .. n /\ b \in a + 1 .. n
      BY <3>3
    <3> QED
      BY <3>1, <3>2, <3>4 DEF SessionIn
  <2>4. ASSUME SessionIn(customs, n, j) PROVE SessionIn(customs, n + 1, j)
    <3>1. PICK a \in 1 .. n : customs[a] = SessionKey /\ \E b \in a + 1 .. n : customs[b] = j
      BY <2>1, <2>4 DEF SessionIn
    <3> QED
      BY <1>3, <1>4, <3>1 DEF SessionIn
  <2> QED
    BY <2>3, <2>4
<1>9. IsNamed(dict, k, customs, n + 1)
  <2> HIDE DEF dict
  <2> QED
    BY <1>1, <1>2, <1>5, <1>7 DEF IsNamed, NamedOf
<1>10. k = SessionKey => dict \in SessionDicts
  BY SessionDictsAre
<1>11. /\ DOMAIN new = DOMAIN map \cup {k} /\ new[k] = dict
       /\ \A j \in DOMAIN map \ {k} : new[j] = map[j]
  BY DEF With
<1>12. ASSUME NEW j \in DOMAIN map \ {k} PROVE IsNamed(map[j], j, customs, n + 1)
  <2>1. IsNamed(map[j], j, customs, n)
    BY DEF NamedOf
  <2>2. RegisteredIn(customs, n, j) \/ j \notin SessionUsers
    BY SessionDictsAre
  <2> QED
    BY <1>6, <1>8, <2>1, <2>2 DEF IsNamed
<1> HIDE DEF new, dict
<1>13. \A a \in 1 .. n + 1 : customs[a] \in DOMAIN new
  BY <1>3, <1>11 DEF NamedOf
<1>14. \A j \in DOMAIN new : j \in EmbeddedKeys \/ RegisteredIn(customs, n + 1, j)
  BY <1>5, <1>6, <1>11 DEF NamedOf
<1>15. SessionKey \in DOMAIN new => new[SessionKey] \in SessionDicts
  BY <1>10, <1>11 DEF NamedOf
<1>16. NamedOf(new, customs, n + 1)
  BY <1>9, <1>11, <1>12, <1>13, <1>14, <1>15 DEF NamedOf
<1>17. \A j \in DOMAIN new : RegisteredIn(customs, n + 1, j) \/ j = SessionKey
  BY <1>5, <1>6, <1>11
<1> QED
  BY <1>16, <1>17 DEF new, dict

-----------------------------------------------------------------------------
LEMMA StageInvInit == Init => StageInv
BY DEF Init, StageInv, Unread, NewTask, Sources, Running

LEMMA InProcess ==
  ASSUME TypeInv, StageInv, NEW i \in Sources, TaskStep(i)
  PROVE  stage = "process" /\ code = Running
<1>1. task[i].at # "done" /\ (task[i].at = "waiting" => stage = "process")
  BY TaskMoves
<1>2. stage = "process"
  BY <1>1 DEF StageInv
<1> QED
  BY <1>2 DEF StageInv

LEMMA StageKept == TypeInv /\ StageInv /\ [Next]_vars => StageInv'
<1> SUFFICES ASSUME TypeInv, StageInv, [Next]_vars PROVE StageInv'
  OBVIOUS
<1> USE DEF Running
<1>0. opts' = opts /\ Sources' = Sources /\ Known' = Known
  BY OptsStay DEF Sources, Known
<1>1. CASE ReadOptions
  <2>1. opts.ends \subseteq {0, 1, 2}
    BY OptionsTyped DEF TypeInv
  <2>2. UNCHANGED <<registered, task, left, emitted, printed>> /\ stage = "options"
    BY <1>1 DEF ReadOptions
  <2>3. CASE opts.ends # {}
    BY <1>0, <1>1, <2>1, <2>2, <2>3 DEF ReadOptions, Ends, StageInv, Unread
  <2>4. CASE opts.ends = {}
    BY <1>0, <1>1, <2>2, <2>4 DEF ReadOptions, Goes, StageInv, Unread
  <2> QED
    BY <2>3, <2>4
<1>2. CASE Register
  <2>1. UNCHANGED <<task, left, emitted, printed>> /\ stage = "load"
        /\ (UNCHANGED <<stage, code>> \/ Ends({1}))
    BY <1>2 DEF Register
  <2> QED
    BY <1>0, <2>1 DEF StageInv, Unread, Ends
<1>3. CASE Begin
  <2>1. UNCHANGED <<task, left, emitted, printed, registered>> /\ stage = "load"
        /\ registered = Len(opts.customs)
        /\ \/ Ends({1})
           \/ opts.override \in Known /\ opts.commands = << >> /\ Goes("process")
           \/ opts.override \in Known /\ opts.commands # << >> /\ Goes("answer")
    BY <1>3 DEF Begin, Known
  <2> QED
    BY <1>0, <2>1 DEF StageInv, Unread, Ends, Goes
<1>4. CASE Answer
  <2>1. UNCHANGED <<task, left, emitted, registered>> /\ stage = "answer"
        /\ (UNCHANGED <<stage, code>> \/ Ends({0}) \/ Ends({1}))
    BY <1>4 DEF Answer
  <2> QED
    BY <1>0, <2>1 DEF StageInv, Unread, Ends
<1>5. CASE EmitFile
  <2>1. UNCHANGED <<task, left, registered, stage, code>> /\ stage = "process"
    BY <1>5 DEF EmitFile
  <2> QED
    BY <1>0, <2>1 DEF StageInv, Unread
<1>6. CASE Close
  <2>1. UNCHANGED <<task, left, registered, code>> /\ stage = "process" /\ stage' = "close"
        /\ AllDone
    BY <1>6 DEF Close
  <2> QED
    BY <1>0, <2>1 DEF StageInv, Unread, AllDone
<1>7. CASE Exit
  <2>1. UNCHANGED <<task, left, registered>> /\ stage = "close" /\ stage' = "exit"
        /\ code' \in {0, 1, 130}
    BY <1>7 DEF Exit
  <2> QED
    BY <1>0, <2>1 DEF StageInv
<1>8. CASE Interrupt \/ UNCHANGED vars
  <2>1. UNCHANGED <<task, left, registered, stage, code, emitted, printed>>
    BY <1>8 DEF Interrupt, vars, fileVars
  <2> QED
    BY <1>0, <2>1 DEF StageInv, Unread
<1>9. CASE QuitPager
  <2>1. UNCHANGED <<task, registered, stage, code, emitted, printed>> /\ stage = "process"
    BY <1>9 DEF QuitPager
  <2> QED
    BY <1>0, <2>1 DEF StageInv, Unread
<1>10. ASSUME NEW i \in Sources, Arrive(i) PROVE StageInv'
  <2>1. UNCHANGED <<task, left, registered, stage, code, emitted, printed>>
    BY <1>10 DEF Arrive
  <2> QED
    BY <1>0, <2>1 DEF StageInv, Unread
<1>11. ASSUME NEW i \in Sources, TaskStep(i) PROVE StageInv'
  <2>1. UNCHANGED <<left, registered, stage, code, emitted>> /\ stage = "process"
    BY <1>11, TaskMoves, InProcess
  <2> QED
    BY <1>0, <2>1 DEF StageInv, Unread
<1> QED
  BY <1>1, <1>2, <1>3, <1>4, <1>5, <1>6, <1>7, <1>8, <1>9, <1>10, <1>11 DEF Next, MainStep

LEMMA CustomsTyped ==
  ASSUME opts \in CommandLines, NEW n \in 1 .. Len(opts.customs)
  PROVE  opts.customs[n] \in Schemas /\ opts.customs[n] \in ToSet(opts.customs)
<1>1. PICK S : opts.customs \in Seq(S)
  BY OptionsTyped
<1>2. opts.customs[n] \in ToSet(opts.customs)
  BY <1>1 DEF ToSet
<1> QED
  BY <1>2 DEF Schemas

LEMMA LookupsNamedInit == Init /\ TypeInv => LookupsNamed
<1> SUFFICES ASSUME Init, TypeInv PROVE LookupsNamed
  OBVIOUS
<1>1. registered = 0 /\ DOMAIN lookups = {} /\ 1 .. 0 = {}
  BY DEF Init, CacheInit
<1> QED
  BY <1>1 DEF LookupsNamed, NamedOf

LEMMA NamesOfRegister ==
  ASSUME TypeInv, LookupsNamed, Register
  PROVE  LookupsNamed'
<1>1. opts' = opts /\ stage = "load" /\ Loading
  BY DEF Register, Loading
<1>2. CASE UNCHANGED <<lookups, registered>>
  BY <1>1, <1>2 DEF LookupsNamed, Loading, CustomsSoFar
<1>3. CASE /\ RegisterDictionary(opts.customs[registered + 1])
           /\ registered' = registered + 1 /\ stage' = stage
  <2>1. PICK customs, n, k : customs = opts.customs /\ n = registered /\ k = customs[n + 1]
    OBVIOUS
  <2>2. n \in Nat /\ k \in Schemas
    <3>1. registered \in Nat /\ registered + 1 \in 1 .. Len(opts.customs)
      <4>1. registered < Len(opts.customs) /\ Len(opts.customs) \in Nat
        BY SourcesAre DEF TypeInv, Register
      <4>2. registered \in 0 .. Len(opts.customs)
        BY DEF TypeInv, Scalars
      <4> QED
        BY <4>1, <4>2
    <3> QED
      BY <2>1, <3>1, CustomsTyped DEF TypeInv
  <2> DEFINE built   == Built(Starter, SessionKey, NoDictionary)
             session == Stored(SessionKey, built)
             base    == IF k \in SessionUsers THEN session ELSE lookups
             inner   == IF k \in SessionUsers THEN session[SessionKey] ELSE NoDictionary
  <2>3. lookups' = With(base, k, Custom(k, inner))
    BY <1>3, <2>1 DEF RegisterDictionary
  <2>4. /\ NamedOf(lookups, customs, n)
        /\ \A j \in DOMAIN lookups : RegisteredIn(customs, n, j) \/ j = SessionKey
    BY <1>1, <2>1 DEF LookupsNamed, CustomsSoFar
  <2>5. /\ NamedOf(session, customs, n) /\ SessionKey \in DOMAIN session
        /\ \A j \in DOMAIN session : RegisteredIn(customs, n, j) \/ j = SessionKey
    <3>1. CASE SessionKey \in DOMAIN lookups
      BY <2>4, <3>1 DEF Stored
    <3>2. CASE SessionKey \notin DOMAIN lookups
      <4>1. session = With(lookups, SessionKey, built)
        BY <3>2 DEF Stored
      <4>2. SessionKey \in EmbeddedKeys /\ SessionKey \notin SessionUsers
        BY DEF SessionKey, EmbeddedKeys, SessionUsers
      <4>3. NamedOf(With(lookups, SessionKey, built), customs, n)
        BY <2>2, <2>4, <3>2, <4>2, BuildingNames
      <4>4. DOMAIN session = DOMAIN lookups \cup {SessionKey}
        BY <4>1 DEF With
      <4> HIDE DEF session, built
      <4> QED
        BY <2>4, <4>1, <4>3, <4>4
    <3> QED
      BY <3>1, <3>2
  <2> HIDE DEF session
  <2>6. /\ NamedOf(base, customs, n) /\ (k \in SessionUsers => SessionKey \in DOMAIN base)
        /\ \A j \in DOMAIN base : RegisteredIn(customs, n, j) \/ j = SessionKey
        /\ inner = IF k \in SessionUsers THEN base[SessionKey] ELSE NoDictionary
    BY <2>4, <2>5
  <2> HIDE DEF base, inner
  <2>7. /\ NamedOf(With(base, k, Custom(k, inner)), customs, n + 1)
        /\ \A j \in DOMAIN With(base, k, Custom(k, inner)) :
               RegisteredIn(customs, n + 1, j) \/ j = SessionKey
    BY <2>1, <2>2, <2>6, RegisteringNames
  <2> QED
    BY <1>1, <1>3, <2>1, <2>3, <2>7 DEF LookupsNamed, CustomsSoFar
<1> QED
  BY <1>2, <1>3 DEF Register, cacheVars

LEMMA StoringNames ==
  ASSUME NEW map, NEW customs, NEW n \in Nat, NamedOf(map, customs, n),
         NEW t \in Threads, NEW k \in EmbeddedKeys,
         NEW s, s = IF k \in SessionUsers THEN map[SessionKey] ELSE NoDictionary,
         k \in SessionUsers => SessionKey \in DOMAIN map,
         map = lookups
  PROVE  NamedOf(Stored(k, Built(t, k, s)), customs, n)
<1>1. CASE k \in DOMAIN lookups
  BY <1>1 DEF Stored
<1>2. CASE k \notin DOMAIN lookups
  <2>1. NamedOf(With(map, k, Built(t, k, s)), customs, n)
    BY <1>2, BuildingNames
  <2> QED
    BY <1>2, <2>1 DEF Stored
<1> QED
  BY <1>1, <1>2

(* What a thread's step does to the dictionaries there are.                *)
LEMMA NamesOfCacheStep ==
  ASSUME TypeInv, CacheInv, LookupsNamed, ~Loading, NEW t \in Threads, CacheStep(t),
         call[t].at \in {"session", "insertSession", "insert"} => call[t].key \in EmbeddedKeys,
         UNCHANGED fileVars
  PROVE  LookupsNamed'
<1>0. opts' = opts /\ registered' = registered /\ stage' = stage /\ registered \in Nat
  <2>1. registered \in 0 .. Len(opts.customs) /\ Len(opts.customs) \in Nat
    BY SourcesAre DEF TypeInv, Scalars
  <2> QED
    BY <2>1 DEF fileVars
<1>1. CASE lookups' = lookups
  BY <1>0, <1>1 DEF LookupsNamed, Loading, CustomsSoFar
<1>2. PICK map, customs, n : map = lookups /\ customs = opts.customs /\ n = registered
  OBVIOUS
<1>3. NamedOf(map, customs, n)
  BY <1>2 DEF LookupsNamed
<1>4. SessionKey \in EmbeddedKeys /\ SessionKey \notin SessionUsers
  BY DEF SessionKey, EmbeddedKeys, SessionUsers
<1>5. CASE InsertSession(t)
  <2>1. lookups' = Stored(SessionKey, Built(t, SessionKey, NoDictionary))
    BY <1>5 DEF InsertSession
  <2>2. NamedOf(Stored(SessionKey, Built(t, SessionKey, NoDictionary)), customs, n)
    BY <1>0, <1>2, <1>3, <1>4, StoringNames
  <2> QED
    BY <1>0, <1>2, <2>1, <2>2 DEF LookupsNamed, Loading
<1>6. CASE Insert(t)
  <2>1. PICK c : c = call[t]
    OBVIOUS
  <2>2. lookups' = Stored(c.key, Built(t, c.key, c.found)) /\ c.at = "insert"
    BY <1>6, <2>1 DEF Insert
  <2>3. /\ c.key \in SessionUsers => SessionKey \in DOMAIN map
        /\ c.found = IF c.key \in SessionUsers THEN map[SessionKey] ELSE NoDictionary
    BY <1>2, <2>1, <2>2 DEF CacheInv, CallOK, RemembersSession
  <2>4. c.key \in EmbeddedKeys
    BY <2>1, <2>2
  <2>5. NamedOf(Stored(c.key, Built(t, c.key, c.found)), customs, n)
    BY <1>0, <1>2, <1>3, <2>3, <2>4, StoringNames
  <2> QED
    BY <1>0, <1>2, <2>2, <2>5 DEF LookupsNamed, Loading
<1> QED
  BY <1>1, <1>5, <1>6 DEF CacheStep, LookCombo, Look, LookSession, StoreCombo

LEMMA CustomsAre ==
  ASSUME opts \in CommandLines
  PROVE  /\ DOMAIN opts.customs = 1 .. Len(opts.customs) /\ Len(opts.customs) \in Nat
         /\ \A k : k \in Customs <=> RegisteredIn(opts.customs, Len(opts.customs), k)
<1>1. PICK S : opts.customs \in Seq(S)
  BY OptionsTyped
<1>2. DOMAIN opts.customs = 1 .. Len(opts.customs) /\ Len(opts.customs) \in Nat
  BY <1>1
<1> QED
  BY <1>2 DEF Customs, ToSet, RegisteredIn

LEMMA NameForIs ==
  ASSUME NEW detected
  PROVE  NameFor(detected) = IF opts.override \in {NoKey, KnownKey(detected)}
                             THEN <<Plain(KnownKey(detected))>>
                             ELSE <<Plain(opts.override), Plain(KnownKey(detected))>>
BY DEF NameFor, KnownKey

LEMMA PlainIs ==
  ASSUME opts \in CommandLines, NEW dict, NEW k,
         IsNamed(dict, k, opts.customs, Len(opts.customs))
  PROVE  PlainName(dict) = Plain(k) /\ Name(dict) = <<Plain(k)>> /\ dict # NoDictionary
<1>1. dict.key = k /\ dict.custom \in BOOLEAN /\ (dict.custom <=> k \in Customs)
      /\ ~IsMerged(dict) /\ dict # NoDictionary
  BY CustomsAre DEF IsNamed
<1>2. dict.custom = (k \in Customs)
  <2>1. (k \in Customs) \in BOOLEAN
    OBVIOUS
  <2> QED
    BY <1>1, <2>1
<1>3. SessionName(k) = IF dict.fallback = NoDictionary THEN "none"
                       ELSE IF dict.fallback.custom THEN "custom" ELSE "embedded"
  <2>1. CASE k \notin SessionUsers
    BY <2>1 DEF SessionName, IsNamed
  <2>2. CASE k \in SessionUsers
    <3>1. dict.fallback # NoDictionary
          /\ (dict.fallback.custom <=> SessionIn(opts.customs, Len(opts.customs), k))
      BY <2>2, SessionDictsAre DEF IsNamed
    <3>2. SessionIn(opts.customs, Len(opts.customs), k)
            <=> \E n \in DOMAIN opts.customs :
                    /\ opts.customs[n] = SessionKey
                    /\ k \in Customs => \E m \in n + 1 .. Len(opts.customs) : opts.customs[m] = k
      BY CustomsAre DEF SessionIn
    <3> QED
      BY <2>2, <3>1, <3>2 DEF SessionName
  <2> QED
    BY <2>1, <2>2
<1>4. PlainName(dict) = Plain(k)
  BY <1>1, <1>2, <1>3, Zenon DEF PlainName, Plain
<1> QED
  BY <1>1, <1>4 DEF Name

LEMMA KnownKeyIs ==
  ASSUME NEW k
  PROVE  /\ KnownKey(DefaultKey) = DefaultKey
         /\ k \in EmbeddedKeys \cup Customs => KnownKey(k) = k
         /\ k \notin EmbeddedKeys \cup Customs => KnownKey(k) = DefaultKey
BY DEF KnownKey

LEMMA GotNamed ==
  ASSUME opts \in CommandLines, NEW c, CallOK(c), CallNamed(c), c.at \in Getting,
         NEW dict, IsNamed(dict, c.key, opts.customs, Len(opts.customs)),
         c.key \in EmbeddedKeys \cup Customs,
         c.primary # NoDictionary /\ dict.key = c.primary.key => dict = c.primary
  PROVE  CallNamed(Got(c, dict))
<1>1. dict # NoDictionary /\ Name(dict) = <<Plain(c.key)>> /\ dict.key = c.key
  BY PlainIs DEF IsNamed
<1>2. c \in [at : CallSteps, goal : {"none", "override", "fallback", "detected"},
             key : {c.key}, override : {c.override}, detected : {c.detected},
             primary : {c.primary}, found : {c.found}]
      /\ c.goal # "none" /\ (c.goal = "fallback" => c.primary # NoDictionary)
  BY DEF CallOK
<1>3. c.at # "idle" /\ c.override = opts.override
      /\ (c.goal = "override" => c.key = opts.override /\ opts.override # NoKey)
      /\ (c.goal = "detected" => opts.override = NoKey)
      /\ (c.goal = "fallback" => opts.override # NoKey /\ c.primary.key = opts.override)
      /\ (c.goal # "override" => KnownKey(c.key) = KnownKey(c.detected))
  BY DEF CallNamed, Getting
<1>4. KnownKey(c.key) = c.key
  BY KnownKeyIs
<1>5. CASE c.goal = "override"
  <2>1. PICK d : d = Asking([c EXCEPT !.primary = dict], "fallback", c.detected)
    OBVIOUS
  <2>2. Got(c, dict) = d
    BY <1>1, <1>5, <2>1 DEF Got
  <2>3. /\ d.at = "look" /\ d.override = opts.override /\ d.goal = "fallback"
        /\ d.key = c.detected /\ d.detected = c.detected /\ d.primary = dict
    BY <1>2, <1>3, <2>1 DEF Asking
  <2> QED
    BY <1>1, <1>3, <1>5, <2>2, <2>3 DEF CallNamed
<1>6. CASE c.goal = "detected"
  <2>1. PICK d : d = Answered(c, dict)
    OBVIOUS
  <2>2. Got(c, dict) = d
    BY <1>1, <1>6, <2>1 DEF Got
  <2>3. /\ d.at = "answered" /\ d.override = opts.override
        /\ d.detected = c.detected /\ d.found = dict
    BY <1>2, <1>3, <2>1 DEF Answered
  <2>4. NameFor(c.detected) = <<Plain(c.key)>>
    BY <1>3, <1>4, <1>6, NameForIs
  <2> QED
    BY <1>1, <2>2, <2>3, <2>4 DEF CallNamed, Getting
<1>7. CASE c.goal = "fallback" /\ c.primary = dict
  <2>1. PICK d : d = Answered(c, dict)
    OBVIOUS
  <2>2. Got(c, dict) = d
    BY <1>1, <1>7, <2>1 DEF Got
  <2>3. /\ d.at = "answered" /\ d.override = opts.override
        /\ d.detected = c.detected /\ d.found = dict
    BY <1>2, <1>3, <2>1 DEF Answered
  <2>4. NameFor(c.detected) = <<Plain(c.key)>>
    BY <1>1, <1>3, <1>4, <1>7, NameForIs
  <2> QED
    BY <1>1, <2>2, <2>3, <2>4 DEF CallNamed, Getting
<1>8. CASE c.goal = "fallback" /\ c.primary # dict
  <2>1. PICK d : d = [c EXCEPT !.at = "merge", !.found = dict]
    OBVIOUS
  <2>2. Got(c, dict) = d
    BY <1>1, <1>8, <2>1 DEF Got
  <2>3. /\ d.at = "merge" /\ d.override = opts.override
        /\ d.detected = c.detected /\ d.found = dict /\ d.primary = c.primary
    BY <1>2, <1>3, <2>1
  <2> QED
    BY <1>1, <1>3, <1>4, <1>8, <2>2, <2>3 DEF CallNamed, Getting
<1> QED
  BY <1>2, <1>5, <1>6, <1>7, <1>8

LEMMA GotNothingNamed ==
  ASSUME NEW c, CallOK(c), CallNamed(c), c.at \in Getting, opts.override \in Known,
         c.key \notin EmbeddedKeys \cup Customs
  PROVE  CallNamed(Got(c, NoDictionary))
<1>1. c \in [at : CallSteps, goal : {"none", "override", "fallback", "detected"},
             key : {c.key}, override : {c.override}, detected : {c.detected},
             primary : {c.primary}, found : {c.found}]
      /\ c.goal # "none"
  BY DEF CallOK
<1>2. c.at # "idle" /\ c.override = opts.override /\ c.goal # "override"
      /\ (c.goal = "detected" => opts.override = NoKey)
      /\ (c.goal = "fallback" => opts.override # NoKey /\ c.primary.key = opts.override)
      /\ KnownKey(c.key) = KnownKey(c.detected)
  BY DEF CallNamed, Getting, Known, Customs
<1>3. PICK d : d = Asking(c, c.goal, DefaultKey)
  OBVIOUS
<1>4. Got(c, NoDictionary) = d
  BY <1>2, <1>3 DEF Got
<1>5. /\ d.at = "look" /\ d.override = opts.override /\ d.goal = c.goal
      /\ d.key = DefaultKey /\ d.detected = c.detected /\ d.primary = c.primary
  BY <1>1, <1>2, <1>3 DEF Asking
<1>6. KnownKey(DefaultKey) = KnownKey(c.detected)
  BY <1>2, KnownKeyIs
<1> QED
  BY <1>2, <1>4, <1>5, <1>6 DEF CallNamed

(* What a dictionary is called does not change while the program runs.     *)
LEMMA NamesStay ==
  ASSUME UNCHANGED opts, NEW c
  PROVE  /\ CallNamed(c)' <=> CallNamed(c)
         /\ NameFor(c)' = NameFor(c)
BY DEF CallNamed, NameFor, Plain, SessionName, Customs, KnownKey, Name, IsMerged, PlainName

LEMMA CombosNamedStay ==
  ASSUME UNCHANGED opts, CombosNamed, DOMAIN combos' \subseteq DOMAIN combos,
         \A p \in DOMAIN combos' : combos'[p] = combos[p]
  PROVE  CombosNamed'
<1>1. \A d : NameFor(d)' = NameFor(d)
  BY NamesStay
<1>2. ASSUME NEW p \in DOMAIN combos' PROVE Name(combos'[p]) = NameFor(p[2])'
  BY <1>1 DEF CombosNamed
<1> QED
  BY <1>2 DEF CombosNamed, Name, IsMerged, PlainName

LEMMA CallsNamedChange ==
  ASSUME UNCHANGED opts, CacheInv, \A u \in Threads : CallNamed(call[u]),
         NEW t \in Threads, NEW c, CallNamed(c), call' = [call EXCEPT ![t] = c]
  PROVE  \A u \in Threads : CallNamed(call[u])'
<1>1. DOMAIN call = Threads
  BY DEF CacheInv
<1>2. ASSUME NEW u \in Threads PROVE CallNamed(call[u])'
  <2>1. PICK d : d = call'[u]
    OBVIOUS
  <2>2. CallNamed(d)
    BY <1>1, <2>1
  <2>3. CallNamed(d)'
    BY <2>2, NamesStay
  <2> QED
    BY <2>1, <2>3
<1> QED
  BY <1>2

LEMMA LookupIs ==
  ASSUME TypeInv, StageInv, LookupsNamed, stage = "process", NEW k \in DOMAIN lookups
  PROVE  /\ IsNamed(lookups[k], k, opts.customs, Len(opts.customs))
         /\ k \in EmbeddedKeys \cup Customs
BY CustomsAre DEF TypeInv, StageInv, LookupsNamed, NamedOf

LEMMA NamesOfLookCombo ==
  ASSUME TypeInv, CacheInv, StageInv, NamesInv, stage = "process", NEW t \in Threads, LookCombo(t)
  PROVE  \E c : call' = [call EXCEPT ![t] = c] /\ CallNamed(c)
<1>1. PICK c : c = call[t]
  OBVIOUS
<1>2. CallNamed(c) /\ CallOK(c) /\ c.at = "combo"
  BY <1>1 DEF NamesInv, CacheInv, LookCombo
<1>3. c \in [at : CallSteps, goal : {"none", "override", "fallback", "detected"},
             key : {c.key}, override : {c.override}, detected : {c.detected},
             primary : {c.primary}, found : {c.found}]
      /\ c.override = opts.override /\ opts.override # NoKey
  BY <1>2 DEF CallOK, CallNamed
<1>4. PICK pair : pair = <<c.override, c.detected>>
  OBVIOUS
<1>5. CASE pair \in DOMAIN combos
  <2>1. PICK d : d = Answered(c, combos[pair])
    OBVIOUS
  <2>2. call' = [call EXCEPT ![t] = d]
    BY <1>1, <1>4, <1>5, <2>1 DEF LookCombo
  <2>3. Name(combos[pair]) = NameFor(c.detected)
    BY <1>4, <1>5 DEF NamesInv, CombosNamed
  <2>4. /\ d.at = "answered" /\ d.override = opts.override
        /\ d.detected = c.detected /\ d.found = combos[pair]
    BY <1>3, <2>1 DEF Answered
  <2> QED
    BY <2>2, <2>3, <2>4 DEF CallNamed, Getting
<1>6. CASE pair \notin DOMAIN combos
  <2>1. PICK d : d = Asking(c, "override", c.override)
    OBVIOUS
  <2>2. call' = [call EXCEPT ![t] = d]
    BY <1>1, <1>4, <1>6, <2>1 DEF LookCombo
  <2>3. /\ d.at = "look" /\ d.override = opts.override
        /\ d.goal = "override" /\ d.key = opts.override
    BY <1>3, <2>1 DEF Asking
  <2> QED
    BY <1>3, <2>2, <2>3 DEF CallNamed
<1> QED
  BY <1>5, <1>6

LEMMA NamesOfLook ==
  ASSUME TypeInv, CacheInv, StageInv, NamesInv, stage = "process", NEW t \in Threads, Look(t)
  PROVE  \E c : call' = [call EXCEPT ![t] = c] /\ CallNamed(c)
<1>1. PICK c : c = call[t]
  OBVIOUS
<1>2. CallNamed(c) /\ CallOK(c) /\ c.at = "look" /\ c.at \in Getting
  BY <1>1 DEF NamesInv, CacheInv, Look, Getting
<1>3. c \in [at : CallSteps, goal : {"none", "override", "fallback", "detected"},
             key : {c.key}, override : {c.override}, detected : {c.detected},
             primary : {c.primary}, found : {c.found}]
  BY <1>2 DEF CallOK
<1>4. LookupsNamed /\ LookupsOK
  BY DEF NamesInv, CacheInv
<1>5. CASE c.key \in DOMAIN lookups
  <2>1. PICK dict : dict = lookups[c.key]
    OBVIOUS
  <2>2. IsNamed(dict, c.key, opts.customs, Len(opts.customs)) /\ c.key \in EmbeddedKeys \cup Customs
    BY <1>4, <1>5, <2>1, LookupIs
  <2>3. c.primary # NoDictionary /\ dict.key = c.primary.key => dict = c.primary
    BY <1>2, <1>4, <1>5, <2>1 DEF CallOK, WholeDict, Current, LookupsOK
  <2>4. PICK d : d = Got(c, dict)
    OBVIOUS
  <2>5. CallNamed(d)
    BY <1>2, <2>2, <2>3, <2>4, GotNamed DEF TypeInv
  <2>6. call' = [call EXCEPT ![t] = d]
    BY <1>1, <1>5, <2>1, <2>4 DEF Look
  <2> QED
    BY <2>5, <2>6
<1>6. CASE c.key \notin DOMAIN lookups /\ c.key \notin EmbeddedKeys
  <2>1. c.key \notin Customs
    <3>1. \A a \in 1 .. Len(opts.customs) : opts.customs[a] \in DOMAIN lookups
      BY <1>4 DEF LookupsNamed, NamedOf, StageInv
    <3> QED
      BY <1>6, <3>1, CustomsAre DEF TypeInv, RegisteredIn
  <2>2. opts.override \in Known
    BY DEF StageInv
  <2>3. PICK d : d = Got(c, NoDictionary)
    OBVIOUS
  <2>4. CallNamed(d)
    BY <1>2, <1>6, <2>1, <2>2, <2>3, GotNothingNamed
  <2>5. call' = [call EXCEPT ![t] = d]
    BY <1>1, <1>6, <2>3 DEF Look
  <2> QED
    BY <2>4, <2>5
<1>7. CASE c.key \notin DOMAIN lookups /\ c.key \in EmbeddedKeys
  <2>1. PICK d : d = IF c.key \in SessionUsers THEN [c EXCEPT !.at = "session"]
                     ELSE [c EXCEPT !.at = "insert", !.found = NoDictionary]
    OBVIOUS
  <2>2. call' = [call EXCEPT ![t] = d]
    BY <1>1, <1>7, <2>1 DEF Look
  <2>3. /\ d.at \in {"session", "insert"} /\ d.override = c.override /\ d.goal = c.goal
        /\ d.key = c.key /\ d.detected = c.detected /\ d.primary = c.primary
    BY <1>3, <2>1
  <2>4. CallNamed(d)
    BY <1>2, <1>7, <2>3 DEF CallNamed, Getting
  <2> QED
    BY <2>2, <2>4
<1> QED
  BY <1>5, <1>6, <1>7

LEMMA NamesOfSession ==
  ASSUME CacheInv, NamesInv, NEW t \in Threads, LookSession(t) \/ InsertSession(t)
  PROVE  \E c : call' = [call EXCEPT ![t] = c] /\ CallNamed(c)
<1>1. PICK c : c = call[t]
  OBVIOUS
<1>2. CallNamed(c) /\ CallOK(c) /\ c.at \in {"session", "insertSession"}
  BY <1>1 DEF NamesInv, CacheInv, LookSession, InsertSession
<1>3. c \in [at : CallSteps, goal : {"none", "override", "fallback", "detected"},
             key : {c.key}, override : {c.override}, detected : {c.detected},
             primary : {c.primary}, found : {c.found}]
  BY <1>2 DEF CallOK
<1>4. PICK d, f : /\ call' = [call EXCEPT ![t] = d]
                  /\ \/ d = [c EXCEPT !.at = "insert", !.found = f]
                     \/ d = [c EXCEPT !.at = "insertSession"]
  BY <1>1 DEF LookSession, InsertSession
<1>5. /\ d.at \in {"insert", "insertSession"} /\ d.override = c.override /\ d.goal = c.goal
      /\ d.key = c.key /\ d.detected = c.detected /\ d.primary = c.primary
  BY <1>3, <1>4
<1>6. CallNamed(d)
  BY <1>2, <1>5 DEF CallNamed, Getting
<1> QED
  BY <1>4, <1>6

LEMMA NamesOfInsert ==
  ASSUME TypeInv, CacheInv, CacheInv', StageInv, NamesInv, LookupsNamed', stage = "process",
         UNCHANGED fileVars, NEW t \in Threads, Insert(t)
  PROVE  \E c : call' = [call EXCEPT ![t] = c] /\ CallNamed(c)
<1>1. PICK c : c = call[t]
  OBVIOUS
<1>2. CallNamed(c) /\ CallOK(c) /\ c.at = "insert" /\ c.at \in Getting
  BY <1>1 DEF NamesInv, CacheInv, Insert, Getting
<1>3. lookups' = Stored(c.key, Built(t, c.key, c.found))
  BY <1>1 DEF Insert
<1>4. Grows /\ c.key \in DOMAIN lookups'
  BY <1>3, StoringGrows
<1>5. PICK dict : dict = lookups'[c.key]
  OBVIOUS
<1>6. IsNamed(dict, c.key, opts.customs, Len(opts.customs)) /\ c.key \in EmbeddedKeys
  <2>1. c.key \in EmbeddedKeys
    BY <1>2 DEF CallNamed
  <2>2. opts' = opts /\ registered' = Len(opts.customs)
    BY DEF StageInv, fileVars
  <2>3. NamedOf(lookups', opts.customs, Len(opts.customs))
    BY <2>2 DEF LookupsNamed
  <2> QED
    BY <1>4, <1>5, <2>1, <2>3 DEF NamedOf
<1>7. c.primary # NoDictionary /\ dict.key = c.primary.key => dict = c.primary
  <2>1. SUFFICES ASSUME c.primary # NoDictionary, dict.key = c.primary.key PROVE dict = c.primary
    OBVIOUS
  <2>2. c.primary.key \in DOMAIN lookups /\ c.primary = lookups[c.primary.key]
    BY <1>2, <2>1 DEF CallOK, WholeDict, Current
  <2>3. dict.key = c.key
    BY <1>6 DEF IsNamed
  <2> QED
    BY <1>4, <1>5, <2>1, <2>2, <2>3 DEF Grows
<1>8. PICK d : d = Got(c, dict)
  OBVIOUS
<1>9. CallNamed(d)
  BY <1>2, <1>6, <1>7, <1>8, GotNamed DEF TypeInv
<1>10. call' = [call EXCEPT ![t] = d]
  BY <1>1, <1>5, <1>8 DEF Insert
<1> QED
  BY <1>9, <1>10

LEMMA NamesOfStoreCombo ==
  ASSUME TypeInv, CacheInv, StageInv, NamesInv, stage = "process", UNCHANGED fileVars,
         NEW t \in Threads, StoreCombo(t)
  PROVE  /\ \E c : call' = [call EXCEPT ![t] = c] /\ CallNamed(c)
         /\ CombosNamed'
<1>1. PICK c : c = call[t]
  OBVIOUS
<1>2. CallNamed(c) /\ CallOK(c) /\ c.at = "merge"
  BY <1>1 DEF NamesInv, CacheInv, StoreCombo
<1>3. c \in [at : CallSteps, goal : {"none", "override", "fallback", "detected"},
             key : {c.key}, override : {c.override}, detected : {c.detected},
             primary : {c.primary}, found : {c.found}]
      /\ opts.override # NoKey /\ c.override = opts.override
      /\ c.primary.key = opts.override /\ c.found.key = KnownKey(c.detected)
      /\ c.primary # c.found /\ WholeDict(c.primary) /\ WholeDict(c.found)
  BY <1>2 DEF CallOK, CallNamed
<1>4. PICK dict : dict = Merged(t, c.primary, c.found)
  OBVIOUS
<1>5. /\ c.primary.key \in DOMAIN lookups /\ c.primary = lookups[c.primary.key]
      /\ c.found.key \in DOMAIN lookups /\ c.found = lookups[c.found.key]
  BY <1>3 DEF WholeDict, Current
<1>6. PlainName(c.primary) = Plain(opts.override) /\ PlainName(c.found) = Plain(KnownKey(c.detected))
  <2>1. \A k \in DOMAIN lookups : PlainName(lookups[k]) = Plain(k)
    BY LookupIs, PlainIs DEF NamesInv, TypeInv
  <2> QED
    BY <1>3, <1>5, <2>1
<1>7. Name(dict) = <<Plain(opts.override), Plain(KnownKey(c.detected))>>
  <2>1. IsMerged(dict) /\ dict.primary = c.primary /\ dict.fallback = c.found
    BY <1>4 DEF Merged, IsMerged
  <2> QED
    BY <1>6, <2>1 DEF Name
<1>8. Name(dict) = NameFor(c.detected)
  <2>1. opts.override # KnownKey(c.detected)
    BY <1>3, <1>5
  <2> QED
    BY <1>3, <1>7, <2>1, NameForIs
<1>9. PICK d : d = Answered(c, dict)
  OBVIOUS
<1>10. /\ call' = [call EXCEPT ![t] = d]
       /\ combos' = With(combos, <<c.override, c.detected>>, dict)
  BY <1>1, <1>4, <1>9 DEF StoreCombo
<1>11. CallNamed(d)
  <2>1. /\ d.at = "answered" /\ d.override = opts.override
        /\ d.detected = c.detected /\ d.found = dict
    BY <1>3, <1>9 DEF Answered
  <2> QED
    BY <1>8, <2>1 DEF CallNamed, Getting
<1>12. CombosNamed'
  <2>1. \A x : NameFor(x)' = NameFor(x)
    BY NamesStay DEF fileVars
  <2>2. ASSUME NEW p \in DOMAIN combos' PROVE Name(combos'[p]) = NameFor(p[2])'
    <3>1. CASE p = <<c.override, c.detected>>
      <4>1. combos'[p] = dict /\ p[2] = c.detected
        BY <1>10, <3>1 DEF With
      <4> QED
        BY <1>8, <2>1, <4>1
    <3>2. CASE p # <<c.override, c.detected>>
      <4>1. p \in DOMAIN combos /\ combos'[p] = combos[p]
        BY <1>10, <2>2, <3>2 DEF With
      <4> QED
        BY <2>1, <4>1 DEF NamesInv, CombosNamed
    <3> QED
      BY <3>1, <3>2
  <2> QED
    BY <2>2 DEF CombosNamed, Name, IsMerged, PlainName
<1> QED
  BY <1>10, <1>11, <1>12

LEMMA NamesOfThread ==
  ASSUME TypeInv, CacheInv, CacheInv', StageInv, NamesInv, stage = "process", UNCHANGED fileVars,
         NEW t \in Threads, CacheStep(t)
  PROVE  NamesInv'
<1>1. opts' = opts
  BY DEF fileVars
<1>2. LookupsNamed'
  <2>1. call[t].at \in {"session", "insertSession", "insert"} => call[t].key \in EmbeddedKeys
    BY DEF NamesInv, CallNamed
  <2> QED
    BY <2>1, NamesOfCacheStep DEF NamesInv, Loading
<1>3. (\E c : call' = [call EXCEPT ![t] = c] /\ CallNamed(c))
      /\ (combos' = combos \/ CombosNamed')
  <2>1. CASE LookCombo(t)
    BY <2>1, NamesOfLookCombo DEF LookCombo
  <2>2. CASE Look(t)
    BY <2>2, NamesOfLook DEF Look
  <2>3. CASE LookSession(t) \/ InsertSession(t)
    BY <2>3, NamesOfSession DEF LookSession, InsertSession
  <2>4. CASE Insert(t)
    BY <1>2, <2>4, NamesOfInsert DEF Insert
  <2>5. CASE StoreCombo(t)
    BY <2>5, NamesOfStoreCombo
  <2> QED
    BY <2>1, <2>2, <2>3, <2>4, <2>5 DEF CacheStep
<1>4. CombosNamed'
  BY <1>1, <1>3, CombosNamedStay DEF NamesInv
<1>5. \A u \in Threads : CallNamed(call[u])'
  BY <1>1, <1>3, CallsNamedChange DEF NamesInv
<1> QED
  BY <1>2, <1>4, <1>5 DEF NamesInv

LEMMA NamesOfAsk ==
  ASSUME TypeInv, CacheInv, NamesInv, NEW i \in Threads, NEW detected,
         Resolve(i, opts.override, detected), UNCHANGED opts
  PROVE  \A u \in Threads : CallNamed(call[u])'
<1>1. PICK d : d = IF opts.override # NoKey
           THEN [Idle EXCEPT !.at = "combo", !.override = opts.override, !.detected = detected]
           ELSE [Idle EXCEPT !.at = "look", !.goal = "detected", !.key = detected,
                             !.detected = detected]
  OBVIOUS
<1>2. CallNamed(d)
  BY <1>1 DEF CallNamed, Idle, Getting
<1>3. call' = [call EXCEPT ![i] = d]
  BY <1>1 DEF Resolve
<1> QED
  BY <1>2, <1>3, CallsNamedChange DEF NamesInv

LEMMA NamesInit == Init /\ TypeInv => NamesInv
<1> SUFFICES ASSUME Init, TypeInv PROVE NamesInv
  OBVIOUS
<1>1. CombosNamed
  BY DEF Init, CacheInit, CombosNamed
<1>2. \A t \in Threads : CallNamed(call[t])
  BY DEF Init, CacheInit, CallNamed, Idle
<1> QED
  BY <1>1, <1>2, LookupsNamedInit DEF NamesInv

LEMMA NamesOfQuiet ==
  ASSUME NamesInv, UNCHANGED <<opts, cacheVars, registered>>, Loading' => Loading
  PROVE  NamesInv'
<1>1. LookupsNamed'
  BY DEF NamesInv, LookupsNamed, CustomsSoFar, cacheVars
<1>2. CombosNamed'
  BY CombosNamedStay DEF NamesInv, cacheVars
<1>3. \A u \in Threads : CallNamed(call[u])'
  <2>1. \A c : CallNamed(c)' <=> CallNamed(c)
    BY NamesStay
  <2>2. ASSUME NEW u \in Threads PROVE CallNamed(call[u])'
    <3>1. PICK d : d = call[u]
      OBVIOUS
    <3>2. d = call'[u] /\ CallNamed(d)
      BY <3>1 DEF NamesInv, cacheVars
    <3>3. CallNamed(d)'
      BY <2>1, <3>2
    <3> QED
      BY <3>2, <3>3
  <2> QED
    BY <2>2
<1> QED
  BY <1>1, <1>2, <1>3 DEF NamesInv

LEMMA NamesKept ==
  ASSUME TypeInv, CacheInv, CacheInv', StageInv, NamesInv, [Next]_vars
  PROVE  NamesInv'
<1>0. opts' = opts /\ Sources \subseteq Threads
  BY OptsStay, SourcesAre DEF TypeInv
<1>1. CASE Register
  <2>1. LookupsNamed'
    BY <1>1, NamesOfRegister DEF NamesInv
  <2>2. call' = call /\ DOMAIN combos' \subseteq DOMAIN combos
        /\ \A p \in DOMAIN combos' : combos'[p] = combos[p]
    BY <1>1 DEF Register, RegisterDictionary, cacheVars
  <2>3. CombosNamed'
    BY <1>0, <2>2, CombosNamedStay DEF NamesInv
  <2>4. \A u \in Threads : CallNamed(call[u])'
    <3>1. ASSUME NEW u \in Threads PROVE CallNamed(call[u])'
      <4>1. PICK d : d = call[u]
        OBVIOUS
      <4>2. d = call'[u] /\ CallNamed(d)
        BY <2>2, <4>1 DEF NamesInv
      <4>3. CallNamed(d)'
        BY <1>0, <4>2, NamesStay
      <4> QED
        BY <4>2, <4>3
    <3> QED
      BY <3>1
  <2> QED
    BY <2>1, <2>3, <2>4 DEF NamesInv
<1>2. CASE UNCHANGED <<cacheVars, registered>> /\ (Loading' => Loading)
  BY <1>0, <1>2, NamesOfQuiet
<1>3. ASSUME NEW i \in Sources, TaskStep(i) PROVE NamesInv'
  <2>1. UNCHANGED <<registered, stage>> /\ stage = "process"
    BY <1>3, TaskMoves, InProcess
  <2>2. CASE FindDictionary(i)
    BY <1>0, <2>1, <2>2, NamesOfThread DEF FindDictionary
  <2>3. CASE UNCHANGED <<lookups, combos>> /\ \A u \in Threads : CallNamed(call[u])'
    <3>1. LookupsNamed'
      BY <1>0, <2>1, <2>3 DEF NamesInv, LookupsNamed, CustomsSoFar, Loading
    <3>2. CombosNamed'
      BY <1>0, <2>3, CombosNamedStay DEF NamesInv
    <3> QED
      BY <2>3, <3>1, <3>2 DEF NamesInv
  <2>4. CASE AskDictionary(i)
    <3>1. \A u \in Threads : CallNamed(call[u])'
      BY <1>0, <2>4, NamesOfAsk DEF AskDictionary
    <3> QED
      BY <2>3, <2>4, <3>1 DEF AskDictionary
  <2>5. CASE TakeDictionary(i)
    <3>1. call' = [call EXCEPT ![i] = Idle] /\ CallNamed(Idle)
      BY <2>5 DEF TakeDictionary, CallNamed, Idle
    <3>2. \A u \in Threads : CallNamed(call[u])'
      BY <1>0, <3>1, CallsNamedChange DEF NamesInv
    <3> QED
      BY <2>3, <2>5, <3>2 DEF TakeDictionary
  <2>6. CASE UNCHANGED cacheVars
    BY <1>0, <2>1, <2>6, NamesOfQuiet DEF Loading
  <2> QED
    BY <1>3, <2>2, <2>4, <2>5, <2>6 DEF TaskStep, OpenSource, TakeLine, FinishLine, LiveCounts, EndSource
<1>4. ASSUME ReadOptions \/ Begin \/ Answer \/ EmitFile \/ Close \/ Exit \/ Interrupt \/ QuitPager
             \/ UNCHANGED vars \/ \E i \in Sources : Arrive(i)
      PROVE  UNCHANGED <<cacheVars, registered>> /\ (Loading' => Loading)
  <2> USE DEF Loading
  <2>1. CASE ReadOptions \/ Begin
    BY <2>1 DEF ReadOptions, Begin, Ends, Goes
  <2>2. CASE Answer \/ EmitFile \/ Close \/ Exit
    BY <2>2 DEF Answer, EmitFile, Close, Exit, Ends
  <2>3. CASE Interrupt \/ QuitPager \/ UNCHANGED vars \/ \E i \in Sources : Arrive(i)
    BY <2>3 DEF Interrupt, QuitPager, vars, fileVars, Arrive
  <2> QED
    BY <1>4, <2>1, <2>2, <2>3
<1> QED
  BY <1>1, <1>2, <1>3, <1>4 DEF Next, MainStep

-----------------------------------------------------------------------------
LEMMA LastDefaultIs ==
  ASSUME NEW before, NEW m
  PROVE  LastDefault(before, m) = DefaultFor(before, Session(m))
<1>1. {k \in DOMAIN before : /\ before[k].begin = SessionKey
                             /\ before[k].default # NoKey
                             /\ Session(before[k]) = Session(m)}
        = {k \in DOMAIN before : Names(before[k], Session(m))}
  BY DEF Names
<1> QED
  BY <1>1 DEF LastDefault, DefaultFor

LEMMA DefaultAppend ==
  ASSUME NEW S, NEW msgs \in Seq(S), NEW m \in S, NEW s
  PROVE  DefaultFor(Append(msgs, m), s) = IF Names(m, s) THEN m.default ELSE DefaultFor(msgs, s)
<1> DEFINE n   == Len(msgs) + 1
           old == {k \in DOMAIN msgs : Names(msgs[k], s)}
           new == {k \in DOMAIN Append(msgs, m) : Names(Append(msgs, m)[k], s)}
<1>1. /\ DOMAIN msgs = 1 .. Len(msgs) /\ DOMAIN Append(msgs, m) = 1 .. n /\ Len(msgs) \in Nat
      /\ Append(msgs, m)[n] = m /\ n \in Nat
      /\ \A k \in 1 .. Len(msgs) : Append(msgs, m)[k] = msgs[k]
  OBVIOUS
<1>2. \A k \in 1 .. n : k <= n /\ (k = n \/ k \in 1 .. Len(msgs))
  BY <1>1
<1>3. n \in 1 .. n /\ n \notin 1 .. Len(msgs) /\ 1 .. Len(msgs) \subseteq 1 .. n
  BY <1>1
<1> HIDE DEF n
<1>4. new = IF Names(m, s) THEN old \cup {n} ELSE old
  BY <1>1, <1>2, <1>3
<1>5. old \subseteq 0 .. Len(msgs) /\ new \subseteq 0 .. n
  BY <1>1
<1>6. DefaultFor(Append(msgs, m), s) = IF new = {} THEN NoKey ELSE Append(msgs, m)[Max(new)].default
  BY DEF DefaultFor
<1>7. DefaultFor(msgs, s) = IF old = {} THEN NoKey ELSE msgs[Max(old)].default
  BY DEF DefaultFor
<1>8. old \subseteq 1 .. Len(msgs) /\ new \subseteq 1 .. n
  BY <1>1
<1> HIDE DEF old, new
<1>9. CASE Names(m, s)
  <2>1. n \in new /\ \A k \in new : k <= n
    BY <1>2, <1>4, <1>8, <1>9
  <2>2. Max(new) = n
    BY <1>1, <1>5, <2>1, MaxUnique
  <2> QED
    BY <1>1, <1>6, <1>9, <2>1, <2>2
<1>10. CASE ~Names(m, s) /\ old # {}
  <2>1. Max(old) \in old
    BY <1>1, <1>5, <1>10, MaxIs
  <2>2. Append(msgs, m)[Max(old)] = msgs[Max(old)]
    BY <1>1, <1>8, <2>1
  <2> QED
    BY <1>4, <1>6, <1>7, <1>10, <2>2
<1>11. CASE ~Names(m, s) /\ old = {}
  BY <1>4, <1>6, <1>7, <1>11
<1> QED
  BY <1>9, <1>10, <1>11

LEMMA DefaultNone ==
  ASSUME NEW s
  PROVE  DefaultFor(<< >>, s) = NoKey
<1>1. {k \in DOMAIN << >> : Names(<< >>[k], s)} = {}
  OBVIOUS
<1> QED
  BY <1>1 DEF DefaultFor

LEMMA LearntTells ==
  ASSUME NEW defaults \in [Sessions -> EmbeddedKeys \cup {NoKey}], NEW msgs \in Seq(Msgs),
         BookTells(defaults, msgs), NEW m \in Msgs
  PROVE  BookTells(Learnt(defaults, m), Append(msgs, m))
<1>1. SUFFICES ASSUME NEW s \in Sessions
               PROVE  Learnt(defaults, m)[s] = DefaultFor(Append(msgs, m), s)
  BY DEF BookTells
<1>2. DefaultFor(Append(msgs, m), s) = IF Names(m, s) THEN m.default ELSE DefaultFor(msgs, s)
  BY DefaultAppend
<1>3. Learnt(defaults, m)[s] = IF Names(m, s) THEN m.default ELSE defaults[s]
  <2>1. CASE m.begin = SessionKey /\ m.default # NoKey
    BY <2>1 DEF Learnt, Names
  <2>2. CASE ~(m.begin = SessionKey /\ m.default # NoKey)
    BY <2>2 DEF Learnt, Names
  <2> QED
    BY <2>1, <2>2
<1> QED
  BY <1>2, <1>3 DEF BookTells

(* The schema of a message is found with the defaults of a book as it      *)
(* would be with the messages.                                             *)
LEMMA DetectedIs ==
  ASSUME NEW defaults, NEW msgs, BookTells(defaults, msgs), NEW m, IsMessage(m)
  PROVE  DetectedKey(m, DefaultOf(defaults, m)) = DetectedKey(m, LastDefault(msgs, m))
<1>1. CASE m.begin # SessionKey
  BY <1>1 DEF DetectedKey
<1>2. CASE m.begin = SessionKey
  <2>1. Session(m) \in Sessions
    BY DEF IsMessage, Session, Sessions
  <2>2. DefaultOf(defaults, m) = LastDefault(msgs, m)
    BY <1>2, <2>1, LastDefaultIs DEF DefaultOf, BookTells
  <2> QED
    BY <2>2
<1> QED
  BY <1>1, <1>2

LEMMA SpokenTyped ==
  ASSUME NEW t, NEW most, TaskOK(t, most)
  PROVE  SpokenOf(t) \in Seq(Msgs)
<1>1. Told(t) \in Seq(Msgs)
  BY ToldTyped
<1>2. CASE t.at = "resolving"
  <2>1. t.lines \in Seq(Seq(Pieces)) /\ t.lines # << >>
    BY <1>2 DEF TaskOK
  <2>2. Last(t.lines) \in Seq(Pieces)
    BY <2>1 DEF Last
  <2>3. MessagesIn(Last(t.lines)) \in Seq(Msgs)
    BY <2>2, MessagesTyped
  <2>4. t.dicts \in Seq(ToSet(t.dicts)) /\ Len(t.dicts) <= Len(MessagesIn(Last(t.lines)))
    BY <1>2 DEF TaskOK
  <2>5. Len(t.dicts) \in Nat
    BY <2>4
  <2>6. SubSeq(MessagesIn(Last(t.lines)), 1, Len(t.dicts)) \in Seq(Msgs)
    BY <2>3, <2>4, <2>5
  <2> QED
    BY <1>1, <1>2, <2>6 DEF SpokenOf
<1> QED
  BY <1>1, <1>2 DEF SpokenOf

LEMMA NothingSpoken ==
  /\ Told(NewTask) = << >> /\ SpokenOf(NewTask) = << >> /\ NewTask.at # "resolving"
<1>1. LinesDone(NewTask) = 0 /\ NewTask.at # "resolving"
  BY DEF LinesDone, NewTask
<1>2. [n \in 1 .. 0 |-> MessagesIn(NewTask.lines[n])] = << >>
  OBVIOUS
<1>3. Told(NewTask) = << >>
  BY <1>1, <1>2, FlattenNone DEF Told
<1> QED
  BY <1>1, <1>3 DEF SpokenOf

LEMMA SpokenSeqs ==
  ASSUME TypeInv
  PROVE  /\ [i \in Sources |-> SpokenOf(task[i])] \in Seq(Seq(Msgs))
         /\ Len([i \in Sources |-> SpokenOf(task[i])]) = Len(opts.sources)
<1>1. Sources = 1 .. Len(opts.sources) /\ Len(opts.sources) \in Nat
  BY SourcesAre DEF TypeInv
<1>2. \A i \in Sources : SpokenOf(task[i]) \in Seq(Msgs)
  BY SpokenTyped DEF TypeInv, Tasks
<1> QED
  BY <1>1, <1>2

(* What was said before a source, and by it, is all that was said while it *)
(* is decoded.                                                             *)
LEMMA AllSpokenIs ==
  ASSUME TypeInv, InOrder, ~Pages, ~Parallel, NEW i \in Sources,
         task[i].at \in {"reading", "resolving"}
  PROVE  AllSpoken = Before(i) \o SpokenOf(task[i])
<1> DEFINE all == [j \in Sources |-> SpokenOf(task[j])]
<1>1. /\ Sources = 1 .. Len(opts.sources) /\ Len(opts.sources) \in Nat
      /\ all \in Seq(Seq(Msgs)) /\ Len(all) = Len(opts.sources)
  BY SourcesAre, SpokenSeqs DEF TypeInv
<1>2. ASSUME NEW j \in 1 .. i - 1 PROVE j \in Sources /\ all[j] = Told(task[j])
  <2>1. j \in Sources /\ j < i
    BY <1>1
  <2>2. task[j].at = "done"
    BY <2>1 DEF InOrder
  <2> QED
    BY <2>1, <2>2 DEF SpokenOf
<1>3. ASSUME NEW j \in i + 1 .. Len(all) PROVE all[j] = << >>
  <2>1. j \in Sources /\ i < j
    BY <1>1
  <2>2. task[j].at = "waiting"
    BY <2>1 DEF InOrder
  <2>3. task[j] = NewTask
    BY <2>1, <2>2 DEF TypeInv, Tasks, TaskOK
  <2> QED
    BY <2>1, <2>3, NothingSpoken
<1>4. i \in 1 .. Len(all) /\ all[i] = SpokenOf(task[i])
  BY <1>1
<1>5. AllSpoken = FlattenSeq(all)
  BY DEF AllSpoken
<1> HIDE DEF all
<1>6. SubSeq(all, 1, i - 1) = [j \in 1 .. i - 1 |-> Told(task[j])]
  BY <1>1, <1>2, <1>4
<1>7. SubSeq(all, i + 1, Len(all)) \in Seq({<< >>})
  BY <1>1, <1>3, <1>4
<1>8. FlattenSeq(SubSeq(all, i + 1, Len(all))) = << >>
  BY <1>7, FlattenEmpties
<1>9. FlattenSeq(SubSeq(all, 1, i - 1)) = Before(i)
  BY <1>6 DEF Before
<1>10. AllSpoken = Before(i) \o SpokenOf(task[i]) \o << >>
  BY <1>1, <1>4, <1>5, <1>8, <1>9, FlattenSplit
<1>11. Before(i) \in Seq(Msgs)
  <2>1. SubSeq(all, 1, i - 1) \in Seq(Seq(Msgs))
    BY <1>1, <1>4
  <2> QED
    BY <1>9, <2>1, FlattenTyped
<1>12. SpokenOf(task[i]) \in Seq(Msgs)
  BY <1>1, <1>4
<1>13. Before(i) \o SpokenOf(task[i]) \in Seq(Msgs)
  BY <1>11, <1>12, ConcatProperties
<1> QED
  BY <1>10, <1>13, ConcatEmptySeq

LEMMA BeforeTyped ==
  ASSUME TypeInv, NEW i \in Sources
  PROVE  Before(i) \in Seq(Msgs)
<1>1. CASE Pages \/ Parallel
  BY <1>1 DEF Before
<1>2. CASE ~Pages /\ ~Parallel
  <2>1. ASSUME NEW j \in 1 .. i - 1 PROVE Told(task[j]) \in Seq(Msgs)
    <3>1. j \in Sources
      BY SourcesAre DEF TypeInv
    <3> QED
      BY <3>1, ToldTyped DEF TypeInv, Tasks
  <2>2. i \in Nat
    BY SourcesAre DEF TypeInv
  <2>3. [j \in 1 .. i - 1 |-> Told(task[j])] \in Seq(Seq(Msgs))
    <3>1. i - 1 \in Nat
      BY <2>2, SourcesAre DEF TypeInv
    <3> QED
      BY <2>1, <3>1
  <2> QED
    BY <1>2, <2>3, FlattenTyped DEF Before
<1> QED
  BY <1>1, <1>2

(* The book of a source being decoded tells what was said up to here.      *)
LEMMA HearingIs ==
  ASSUME TypeInv, InOrder, DefaultsInv, NEW i \in Sources,
         task[i].at \in {"reading", "resolving"}
  PROVE  BookTells(book[ContextOf(i)].defaults, Before(i) \o SpokenOf(task[i]))
<1>1. CASE Pages \/ Parallel
  <2>1. Before(i) = << >> /\ SpokenOf(task[i]) \in Seq(Msgs) /\ ContextOf(i) = i
    BY <1>1, SpokenTyped DEF Before, TypeInv, Tasks, ContextOf
  <2>2. Before(i) \o SpokenOf(task[i]) = SpokenOf(task[i])
    BY <2>1, ConcatEmptySeq
  <2> QED
    BY <1>1, <2>1, <2>2 DEF DefaultsInv
<1>2. CASE ~Pages /\ ~Parallel
  BY <1>2, AllSpokenIs DEF DefaultsInv, ContextOf
<1> QED
  BY <1>1, <1>2

(* Only with the dictionary of the next message something new is said.     *)
LEMMA SpokenSame ==
  ASSUME NEW t, NEW u, Told(u) = Told(t), u.dicts = t.dicts,
         u.at = "resolving" <=> t.at = "resolving",
         t.at = "resolving" => u.lines = t.lines
  PROVE  SpokenOf(u) = SpokenOf(t)
BY DEF SpokenOf

LEMMA NothingOfTheLine ==
  ASSUME NEW t, NEW most, TaskOK(t, most), t.dicts = << >>
  PROVE  SpokenOf(t) = Told(t)
<1>1. Told(t) \in Seq(Msgs)
  BY ToldTyped
<1>2. CASE t.at = "resolving"
  <2>1. MessagesIn(Last(t.lines)) \in Seq(Msgs)
    <3>1. Last(t.lines) \in Seq(Pieces)
      BY <1>2 DEF TaskOK, Last
    <3> QED
      BY <3>1, MessagesTyped
  <2>2. SubSeq(MessagesIn(Last(t.lines)), 1, 0) = << >> /\ Len(t.dicts) = 0
    BY <2>1
  <2> QED
    BY <1>1, <1>2, <2>2, ConcatEmptySeq DEF SpokenOf
<1> QED
  BY <1>2 DEF SpokenOf

LEMMA SpokenOfFinish ==
  ASSUME TypeInv, NEW i \in Sources, FinishLine(i)
  PROVE  SpokenOf(task'[i]) = SpokenOf(task[i])
<1>1. Told(task'[i]) = Told(task[i]) \o MessagesIn(CurrentLine(i))
  BY ToldOfFinish
<1>2. task[i].at = "resolving" /\ task'[i].at = "reading"
      /\ Len(task[i].dicts) = Len(MessagesIn(CurrentLine(i)))
  <2>1. DOMAIN task = Sources /\ TaskOK(task[i], arrived[i])
    BY DEF TypeInv, Tasks
  <2> QED
    BY <2>1 DEF FinishLine, TaskOK
<1>3. MessagesIn(CurrentLine(i)) \in Seq(Msgs)
  BY <1>2, CurrentTyped
<1>4. SubSeq(MessagesIn(CurrentLine(i)), 1, Len(task[i].dicts)) = MessagesIn(CurrentLine(i))
  BY <1>2, <1>3
<1> QED
  BY <1>1, <1>2, <1>4 DEF SpokenOf, CurrentLine

LEMMA SpokenStays ==
  ASSUME TypeInv, TypeInv', NEW i \in Sources, TaskStep(i), ~TakeDictionary(i)
  PROVE  SpokenOf(task'[i]) = SpokenOf(task[i])
<1>1. DOMAIN task = Sources /\ TaskOK(task[i], arrived[i]) /\ TaskOK(task'[i], arrived'[i])
      /\ (call[i].at # "idle" => task[i].at = "resolving")
  <2>1. Sources' = Sources
    BY TaskMoves, ShapeStays
  <2> QED
    BY <2>1 DEF TypeInv, Tasks, Unresolved
<1>2. CASE FinishLine(i)
  BY <1>2, SpokenOfFinish
<1>3. CASE ~FinishLine(i)
  <2>1. Told(task'[i]) = Told(task[i])
    BY <1>3, ToldOtherwise
  <2>2. CASE OpenSource(i) \/ TakeLine(i) \/ EndSource(i)
    <3>1. task[i].at # "resolving"
      BY <2>2 DEF OpenSource, TakeLine, EndSource
    <3>2. task'[i].dicts = task[i].dicts /\ task[i].dicts = << >>
      BY <1>1, <2>2, <3>1, SMTT(60) DEF OpenSource, TakeLine, EndSource, Finished, TaskOK
    <3>3. SpokenOf(task'[i]) = Told(task'[i])
      BY <1>1, <3>2, NothingOfTheLine
    <3> QED
      BY <2>1, <3>1, <3>3 DEF SpokenOf
  <2>3. CASE AskDictionary(i) \/ FindDictionary(i) \/ LiveCounts(i)
    BY <2>3 DEF AskDictionary, FindDictionary, LiveCounts, fileVars
  <2> QED
    BY <1>3, <2>2, <2>3 DEF TaskStep
<1> QED
  BY <1>2, <1>3

LEMMA SpokenGrows ==
  ASSUME TypeInv, NEW i \in Sources, TakeDictionary(i)
  PROVE  /\ SpokenOf(task'[i]) = Append(SpokenOf(task[i]), NextMessage(i))
         /\ task[i].at = "resolving" /\ task'[i].lines = task[i].lines
         /\ task'[i].dicts = Append(task[i].dicts, call[i].found)
         /\ task'[i].at = task[i].at
<1>1. DOMAIN task = Sources /\ TaskOK(task[i], arrived[i]) /\ Unresolved(i)
  BY DEF TypeInv, Tasks, TakeDictionary
<1>2. /\ task[i].at = "resolving" /\ task'[i].at = "resolving" /\ task'[i].lines = task[i].lines
      /\ task'[i].dicts = Append(task[i].dicts, call[i].found)
  BY <1>1 DEF TakeDictionary, TaskOK, Unresolved
<1>3. Told(task'[i]) = Told(task[i])
  <2>1. TaskStep(i)
    BY DEF TaskStep
  <2>2. FinishLine(i) => task'[i].at = "reading"
    BY <1>1 DEF FinishLine, TaskOK
  <2> QED
    BY <1>2, <2>1, <2>2, ToldOtherwise
<1>4. PICK msgs, n : msgs = MessagesIn(CurrentLine(i)) /\ n = Len(task[i].dicts)
  OBVIOUS
<1>5. msgs \in Seq(Msgs) /\ n \in 0 .. Len(msgs) /\ NextMessage(i) = msgs[n + 1] /\ n < Len(msgs)
  BY <1>1, <1>2, <1>4, CurrentTyped, NextTyped DEF Unresolved
<1>6. Len(task'[i].dicts) = n + 1
  <2>1. task[i].dicts \in Seq(ToSet(task[i].dicts))
    BY <1>1 DEF TaskOK
  <2> QED
    BY <1>2, <1>4, <2>1
<1>7. SubSeq(msgs, 1, n + 1) = Append(SubSeq(msgs, 1, n), msgs[n + 1])
      /\ SubSeq(msgs, 1, n) \in Seq(Msgs) /\ msgs[n + 1] \in Msgs
  BY <1>5
<1>8. /\ SpokenOf(task[i]) = Told(task[i]) \o SubSeq(msgs, 1, n)
      /\ SpokenOf(task'[i]) = Told(task[i]) \o SubSeq(msgs, 1, n + 1)
  BY <1>2, <1>3, <1>4, <1>6 DEF SpokenOf, CurrentLine
<1>9. PICK told \in Seq(Msgs) : told = Told(task[i])
  BY <1>1, ToldTyped
<1>10. PICK a \in Seq(Msgs), m \in Msgs : a = SubSeq(msgs, 1, n) /\ m = msgs[n + 1]
  BY <1>7
<1>11. told \o Append(a, m) = Append(told \o a, m)
  BY AppendLater
<1> QED
  BY <1>2, <1>5, <1>7, <1>8, <1>9, <1>10, <1>11

-----------------------------------------------------------------------------
LEMMA DefaultsInvInit == Init /\ TypeInv => DefaultsInv
<1> SUFFICES ASSUME Init, TypeInv PROVE DefaultsInv
  OBVIOUS
<1>1. \A i \in Sources : SpokenOf(task[i]) = << >>
  BY NothingSpoken DEF Init, Sources
<1>2. AllSpoken = << >>
  <2>1. Sources = 1 .. Len(opts.sources) /\ Len(opts.sources) \in Nat
    BY SourcesAre DEF TypeInv
  <2>2. [i \in Sources |-> SpokenOf(task[i])] \in Seq({<< >>})
    BY <1>1, <2>1
  <2> QED
    BY <2>2, FlattenEmpties DEF AllSpoken
<1>3. \A c \in {Shared} \cup Sources : BookTells(book[c].defaults, << >>)
  BY DefaultNone DEF Init, NewBook, BookTells, Sources
<1> QED
  BY <1>1, <1>2, <1>3 DEF DefaultsInv

(* Steps that name nothing leave the defaults as they are.                 *)
LEMMA DefaultsSame ==
  ASSUME TypeInv, DefaultsInv, UNCHANGED opts,
         \A c \in {Shared} \cup Sources : book'[c].defaults = book[c].defaults,
         \A i \in Sources : SpokenOf(task'[i]) = SpokenOf(task[i])
  PROVE  DefaultsInv'
<1>1. Sources' = Sources /\ (Pages' <=> Pages) /\ (Parallel' <=> Parallel)
  BY ShapeStays
<1>2. [i \in Sources |-> SpokenOf(task[i])] = [i \in Sources |-> SpokenOf(task'[i])]
  OBVIOUS
<1>3. AllSpoken' = AllSpoken
  BY <1>1, <1>2 DEF AllSpoken
<1>4. Shared \in {Shared} \cup Sources /\ Sources \subseteq {Shared} \cup Sources /\ Shared' = Shared
  BY DEF Shared
<1>5. Sessions' = Sessions
  BY DEF Sessions
<1>6. CASE Pages \/ Parallel
  <2>1. ~(~Pages' /\ ~Parallel')
    BY <1>1, <1>6
  <2>2. ASSUME NEW i \in Sources
        PROVE  BookTells(book'[i].defaults, SpokenOf(task'[i]))
    BY <1>4, <1>6 DEF DefaultsInv, BookTells
  <2> QED
    BY <1>1, <1>6, <2>1, <2>2 DEF DefaultsInv, BookTells
<1>7. CASE ~Pages /\ ~Parallel
  BY <1>1, <1>3, <1>4, <1>7 DEF DefaultsInv, BookTells
<1> QED
  BY <1>6, <1>7

(* All that is said grows by a message when its dictionary is taken.       *)
LEMMA AllSpokenGrows ==
  ASSUME TypeInv, TypeInv', InOrder, ~Pages, ~Parallel, NEW i \in Sources, TakeDictionary(i)
  PROVE  AllSpoken' = Append(AllSpoken, NextMessage(i))
<1> DEFINE old == [j \in Sources |-> SpokenOf(task[j])]
           new == [j \in Sources |-> SpokenOf(task'[j])]
<1>1. TaskStep(i)
  BY DEF TaskStep
<1>2. Sources = 1 .. Len(opts.sources) /\ Len(opts.sources) \in Nat /\ Sources' = Sources
  BY <1>1, SourcesAre, TaskMoves, ShapeStays DEF TypeInv
<1>3. \A j \in Sources : SpokenOf(task[j]) \in Seq(Msgs) /\ SpokenOf(task'[j]) \in Seq(Msgs)
  <2>1. ASSUME NEW j \in Sources PROVE TaskOK(task[j], arrived[j]) /\ TaskOK(task'[j], arrived'[j])
    BY <1>2 DEF TypeInv, Tasks
  <2> QED
    BY <2>1, SpokenTyped
<1>4. old \in Seq(Seq(Msgs)) /\ new \in Seq(Seq(Msgs)) /\ Len(old) = Len(new) /\ i \in 1 .. Len(old)
  BY <1>2, <1>3
<1>5. task[i].at = "resolving" /\ SpokenOf(task'[i]) = Append(SpokenOf(task[i]), NextMessage(i))
      /\ NextMessage(i) \in Msgs
  <2>1. Unresolved(i)
    BY DEF TakeDictionary, TypeInv, Tasks
  <2> QED
    BY <2>1, SpokenGrows, NextTyped
<1>6. SpokenOf(task'[i]) = SpokenOf(task[i]) \o <<NextMessage(i)>>
  BY <1>3, <1>5
<1>7. \A j \in Sources \ {i} : SpokenOf(task'[j]) = SpokenOf(task[j])
  BY <1>1, TaskMoves
<1>8. ASSUME NEW j \in Sources, j > i PROVE SpokenOf(task[j]) = << >>
  <2>1. task[j].at = "waiting"
    BY <1>2, <1>5, <1>8 DEF InOrder
  <2>2. task[j] = NewTask
    BY <2>1 DEF TypeInv, Tasks, TaskOK
  <2> QED
    BY <2>2, NothingSpoken
<1>9. LastGrows(old, new, i, <<NextMessage(i)>>)
  <2>1. Len(old) = Len(opts.sources)
    BY <1>2
  <2>2. /\ \A j \in Sources : old[j] = SpokenOf(task[j]) /\ new[j] = SpokenOf(task'[j])
        /\ 1 .. Len(old) = Sources
    BY <1>2, <2>1
  <2> HIDE DEF old, new
  <2>3. new[i] = old[i] \o <<NextMessage(i)>>
    BY <1>6, <2>2
  <2>4. \A j \in 1 .. Len(old) : j # i => new[j] = old[j]
    BY <1>7, <2>2
  <2>5. \A j \in 1 .. Len(old) : j > i => old[j] = << >>
    BY <1>8, <2>2
  <2>6. Len(old) \in Nat /\ Len(new) = Len(old) /\ i \in 1 .. Len(old)
    BY <1>4
  <2>7. \A j \in 1 .. i - 1 : new[j] = old[j]
    BY <2>4, <2>6
  <2>8. \A j \in i + 1 .. Len(old) : old[j] = << >> /\ new[j] = << >>
    BY <2>4, <2>5, <2>6
  <2> QED
    BY <2>3, <2>6, <2>7, <2>8, Zenon DEF LastGrows
<1>10. FlattenSeq(new) = FlattenSeq(old) \o <<NextMessage(i)>> /\ FlattenSeq(old) \in Seq(Msgs)
  <2>1. <<NextMessage(i)>> \in Seq(Msgs)
    BY <1>5
  <2> HIDE DEF old, new
  <2> QED
    <3>1. FlattenSeq(old) \in Seq(Msgs)
      BY <1>4, FlattenTyped
    <3>2. \A x \in Seq(Msgs) : LastGrows(old, new, i, x) => FlattenSeq(new) = FlattenSeq(old) \o x
      BY <1>4, FlattenGrows
    <3> QED
      BY <1>9, <2>1, <3>1, <3>2
<1>11. AllSpoken = FlattenSeq(old) /\ AllSpoken' = FlattenSeq(new)
  BY <1>2 DEF AllSpoken
<1> HIDE DEF old, new
<1> QED
  BY <1>5, <1>10, <1>11

LEMMA DefaultsLearnt ==
  ASSUME TypeInv, TypeInv', InOrder, DefaultsInv, NEW i \in Sources, TakeDictionary(i)
  PROVE  DefaultsInv'
<1>1. TaskStep(i) /\ UNCHANGED opts
  BY TaskMoves DEF TaskStep
<1>2. Sources' = Sources /\ (Pages' <=> Pages) /\ (Parallel' <=> Parallel)
  BY <1>1, ShapeStays
<1>3. ContextOf(i) \in {Shared} \cup Sources /\ DOMAIN book = {Shared} \cup Sources
      /\ \A c \in {Shared} \cup Sources : BookOK(book[c])
  BY ContextIs DEF TypeInv, Books
<1>4. /\ book'[ContextOf(i)].defaults = Learnt(book[ContextOf(i)].defaults, NextMessage(i))
      /\ \A c \in {Shared} \cup Sources : c # ContextOf(i) => book'[c] = book[c]
  BY <1>3 DEF TakeDictionary, BookOK
<1>5. SpokenOf(task'[i]) = Append(SpokenOf(task[i]), NextMessage(i)) /\ NextMessage(i) \in Msgs
  <2>1. Unresolved(i)
    BY DEF TakeDictionary, TypeInv, Tasks
  <2> QED
    BY <2>1, SpokenGrows, NextTyped
<1>6. \A j \in Sources \ {i} : SpokenOf(task'[j]) = SpokenOf(task[j])
  BY <1>1, TaskMoves
<1>7. book[ContextOf(i)].defaults \in [Sessions -> EmbeddedKeys \cup {NoKey}]
  BY <1>3 DEF BookOK
<1>8. CASE Pages \/ Parallel
  <2>1. ContextOf(i) = i
    BY <1>8 DEF ContextOf
  <2>2. SpokenOf(task[i]) \in Seq(Msgs)
    BY SpokenTyped DEF TypeInv, Tasks
  <2>3. BookTells(book'[i].defaults, SpokenOf(task'[i]))
    BY <1>4, <1>5, <1>7, <1>8, <2>1, <2>2, LearntTells DEF DefaultsInv
  <2>4. ASSUME NEW j \in Sources \ {i} PROVE BookTells(book'[j].defaults, SpokenOf(task'[j]))
    BY <1>4, <1>6, <1>8, <2>1 DEF DefaultsInv
  <2>5. \A j \in Sources : BookTells(book'[j].defaults, SpokenOf(task'[j]))
    BY <2>3, <2>4
  <2> QED
    BY <1>2, <1>8, <2>5 DEF DefaultsInv, BookTells
<1>9. CASE ~Pages /\ ~Parallel
  <2>1. ContextOf(i) = Shared
    BY <1>9 DEF ContextOf
  <2>2. AllSpoken' = Append(AllSpoken, NextMessage(i))
    BY <1>9, AllSpokenGrows
  <2>3. AllSpoken \in Seq(Msgs)
    BY SpokenSeqs, FlattenTyped DEF AllSpoken
  <2>4. BookTells(book'[Shared].defaults, AllSpoken')
    BY <1>4, <1>5, <1>7, <1>9, <2>1, <2>2, <2>3, LearntTells DEF DefaultsInv
  <2> QED
    BY <1>2, <1>9, <2>4 DEF DefaultsInv, BookTells, Shared
<1> QED
  BY <1>8, <1>9

LEMMA DefaultsKept ==
  ASSUME TypeInv, TypeInv', InOrder, DefaultsInv, [Next]_vars
  PROVE  DefaultsInv'
<1>1. UNCHANGED opts /\ DOMAIN book = {Shared} \cup Sources
      /\ \A c \in {Shared} \cup Sources : BookOK(book[c])
  BY OptsStay DEF TypeInv, Books
<1>2. CASE UNCHANGED <<book, task>>
  BY <1>1, <1>2, DefaultsSame
<1>3. CASE EmitFile
  <2>1. UNCHANGED task
    BY <1>3 DEF EmitFile
  <2>2. \A c \in {Shared} \cup Sources : book'[c].defaults = book[c].defaults
    BY <1>1, <1>3 DEF EmitFile, MergedCounts, BookOK
  <2> QED
    BY <1>1, <2>1, <2>2, DefaultsSame
<1>4. ASSUME NEW i \in Sources, TaskStep(i), ~TakeDictionary(i) PROVE DefaultsInv'
  <2>1. SpokenOf(task'[i]) = SpokenOf(task[i])
    BY <1>4, SpokenStays
  <2>2. \A j \in Sources : SpokenOf(task'[j]) = SpokenOf(task[j])
    BY <1>4, <2>1, TaskMoves
  <2>3. \A c \in {Shared} \cup Sources : book'[c].defaults = book[c].defaults
    <3>1. CASE FinishLine(i)
      BY <1>1, <3>1 DEF FinishLine, LineCounted, BookOK
    <3>2. CASE LiveCounts(i)
      BY <1>1, <3>2 DEF LiveCounts, BookOK
    <3>3. CASE UNCHANGED book
      BY <3>3
    <3> QED
      BY <1>4, <3>1, <3>2, <3>3 DEF TaskStep, OpenSource, TakeLine, AskDictionary,
         FindDictionary, EndSource, fileVars
  <2> QED
    BY <1>1, <2>2, <2>3, DefaultsSame
<1>5. ASSUME NEW i \in Sources, TakeDictionary(i) PROVE DefaultsInv'
  BY <1>5, DefaultsLearnt
<1>6. CASE ~EmitFile /\ \A i \in Sources : ~TaskStep(i)
  BY <1>2, <1>6, QuietSteps
<1> QED
  BY <1>3, <1>4, <1>5, <1>6

LEMMA NameForStays ==
  ASSUME UNCHANGED opts, NEW CONSTANT d
  PROVE  NameFor(d)' = NameFor(d)
BY DEF NameFor, Plain, Customs, SessionName

LEMMA NameAfterStays ==
  ASSUME UNCHANGED opts, NEW CONSTANT b, NEW CONSTANT m
  PROVE  NameAfter(b, m)' = NameAfter(b, m)
<1>1. PICK d : d = DetectedKey(m, LastDefault(b, m))
  OBVIOUS
<1>2. NameFor(d)' = NameFor(d)
  BY NameForStays
<1> QED
  BY <1>1, <1>2 DEF NameAfter

LEMMA DictsStay ==
  ASSUME UNCHANGED opts, NEW CONSTANT t, NEW CONSTANT b
  PROVE  DictsOf(t, b)' <=> DictsOf(t, b)
<1>1. \A c, m : NameAfter(c, m)' = NameAfter(c, m)
  BY NameAfterStays
<1> QED
  BY <1>1 DEF DictsOf, NamedUpTo

LEMMA WordsInvInit == Init /\ TypeInv => WordsInv
<1> SUFFICES ASSUME Init, TypeInv PROVE WordsInv
  OBVIOUS
<1>1. ASSUME NEW i \in Sources PROVE call[i].at = "idle" /\ task[i].at = "waiting"
  <2>1. i \in Threads
    BY SourcesAre DEF TypeInv
  <2> QED
    BY <2>1 DEF Init, CacheInit, Idle, NewTask, Sources
<1> QED
  BY <1>1 DEF WordsInv, AskedInv, DictsInv, AskedOf, DictsOf

(* What was said before a source that has been opened does not change.     *)
LEMMA BeforeStays ==
  ASSUME TypeInv, TypeInv', InOrder, [Next]_vars, NEW i \in Sources, task[i].at # "waiting"
  PROVE  Before(i)' = Before(i)
<1>1. UNCHANGED opts
  BY OptsStay
<1>2. (Pages' <=> Pages) /\ (Parallel' <=> Parallel) /\ Sources' = Sources
      /\ Sources = 1 .. Len(opts.sources) /\ Len(opts.sources) \in Nat
  BY <1>1, ShapeStays, SourcesAre DEF TypeInv
<1>3. CASE Pages \/ Parallel
  BY <1>2, <1>3 DEF Before
<1>4. CASE ~Pages /\ ~Parallel
  <2>1. ASSUME NEW j \in 1 .. i - 1 PROVE task'[j] = task[j]
    <3>1. j \in Sources /\ j < i
      BY <1>2
    <3>2. task[j].at = "done"
      BY <1>4, <3>1 DEF InOrder
    <3>3. ASSUME NEW k \in Sources, TaskStep(k) PROVE task'[j] = task[j]
      BY <3>1, <3>2, <3>3, TaskMoves
    <3>4. CASE EmitFile
      BY <3>4 DEF EmitFile
    <3>5. CASE ~EmitFile /\ \A k \in Sources : ~TaskStep(k)
      BY <3>5, QuietSteps
    <3> QED
      BY <3>3, <3>4, <3>5
  <2>2. [j \in 1 .. i - 1 |-> Told(task'[j])] = [j \in 1 .. i - 1 |-> Told(task[j])]
    BY <2>1
  <2> QED
    BY <1>2, <1>4, <2>2 DEF Before
<1> QED
  BY <1>3, <1>4

(* What a thread does for its call keeps the schema the call is for.       *)
LEMMA DetectedStays ==
  ASSUME CacheInv, NEW t \in Threads, CacheStep(t)
  PROVE  /\ call'[t].detected = call[t].detected /\ call[t].at # "idle"
         /\ \A u \in Threads : u # t => call'[u] = call[u]
<1>1. /\ DOMAIN call = Threads /\ CallOK(call[t])
  BY DEF CacheInv
<1>2. ASSUME call[t].at \in Getting, NEW d PROVE Got(call[t], d).detected = call[t].detected
  <2>1. PICK c : c = call[t]
    OBVIOUS
  <2>2. /\ c \in [at : CallSteps, goal : {"none", "override", "fallback", "detected"},
                  key : {c.key}, override : {c.override}, detected : {c.detected},
                  primary : {c.primary}, found : {c.found}]
        /\ c.goal \in {"override", "fallback", "detected"}
    BY <1>1, <1>2, <2>1 DEF CallOK
  <2>3. /\ Asking(c, "detected", c.detected).detected = c.detected
        /\ Asking(c, c.goal, DefaultKey).detected = c.detected
    BY <2>2 DEF Asking
  <2>4. Answered(c, d).detected = c.detected
    BY <2>2 DEF Answered
  <2>5. Asking([c EXCEPT !.primary = d], "fallback", c.detected).detected = c.detected
    BY <2>2 DEF Asking
  <2>6. [c EXCEPT !.at = "merge", !.found = d].detected = c.detected
    BY <2>2
  <2>7. CASE c.goal = "override"
    <3>1. d = NoDictionary => Got(c, d) = Asking(c, "detected", c.detected)
      BY <2>7 DEF Got
    <3>2. d # NoDictionary =>
              Got(c, d) = Asking([c EXCEPT !.primary = d], "fallback", c.detected)
      BY <2>7 DEF Got
    <3> QED
      BY <2>1, <2>3, <2>5, <3>1, <3>2, Zenon
  <2>8. CASE c.goal = "fallback"
    <3>1. d = NoDictionary => Got(c, d) = Asking(c, c.goal, DefaultKey)
      BY <2>8 DEF Got
    <3>2. d # NoDictionary => \/ Got(c, d) = Answered(c, d)
                              \/ Got(c, d) = [c EXCEPT !.at = "merge", !.found = d]
      BY <2>8 DEF Got
    <3> QED
      BY <2>1, <2>3, <2>4, <2>6, <3>1, <3>2, Zenon
  <2>9. CASE c.goal = "detected"
    <3>1. d = NoDictionary => Got(c, d) = Asking(c, c.goal, DefaultKey)
      BY <2>9 DEF Got
    <3>2. d # NoDictionary => Got(c, d) = Answered(c, d)
      BY <2>9 DEF Got
    <3> QED
      BY <2>1, <2>3, <2>4, <3>1, <3>2, Zenon
  <2> QED
    BY <2>1, <2>2, <2>7, <2>8, <2>9
<1>3. CASE LookCombo(t)
  BY <1>1, <1>3 DEF LookCombo, Answered, Asking, CallOK
<1>4. CASE Look(t)
  BY <1>1, <1>2, <1>4 DEF Look, CallOK, Getting
<1>5. CASE LookSession(t) \/ InsertSession(t)
  BY <1>1, <1>5 DEF LookSession, InsertSession, CallOK
<1>6. CASE Insert(t)
  BY <1>1, <1>2, <1>6 DEF Insert, Getting
<1>7. CASE StoreCombo(t)
  BY <1>1, <1>7 DEF StoreCombo, Answered, CallOK
<1> QED
  BY <1>3, <1>4, <1>5, <1>6, <1>7 DEF CacheStep

-----------------------------------------------------------------------------
LEMMA AskedRightly ==
  ASSUME TypeInv, TypeInv', CacheInv, InOrder, DefaultsInv, NEW i \in Sources, AskDictionary(i)
  PROVE  AskedOf(call'[i], task[i], Before(i))
<1>1. Unresolved(i) /\ task[i].at = "resolving" /\ DOMAIN call = Threads /\ i \in Threads
  BY SourcesAre DEF AskDictionary, Unresolved, CacheInv, TypeInv
<1>2. NextMessage(i) = NextOf(task[i]) /\ IsMessage(NextMessage(i))
  BY <1>1, NextTyped DEF NextOf, CurrentLine
<1>3. PICK d : d = book[ContextOf(i)].defaults
  OBVIOUS
<1>4. PICK before : before = Before(i) \o SpokenOf(task[i])
  OBVIOUS
<1>5. BookTells(d, before)
  BY <1>1, <1>3, <1>4, HearingIs
<1>6. PICK m : m = NextMessage(i)
  OBVIOUS
<1>7. DetectedKey(m, DefaultOf(d, m)) = DetectedKey(m, LastDefault(before, m))
  BY <1>2, <1>5, <1>6, DetectedIs
<1>8. call'[i].detected = DetectedKey(m, DefaultOf(d, m))
  <2>1. PICK key : key = DetectedKey(m, DefaultOf(d, m))
    OBVIOUS
  <2>2. Resolve(i, opts.override, key)
    BY <1>3, <1>6, <2>1 DEF AskDictionary
  <2>3. call'[i].detected = key
    BY <1>1, <2>2 DEF Resolve, Idle
  <2> QED
    BY <2>1, <2>3
<1> QED
  BY <1>2, <1>4, <1>6, <1>7, <1>8 DEF AskedOf

(* A dictionary that is taken has the name that is due.                    *)
LEMMA TakenRightly ==
  ASSUME TypeInv, TypeInv', CacheInv, InOrder, NamesInv, WordsInv, NEW i \in Sources,
         TakeDictionary(i)
  PROVE  DictsOf(task'[i], Before(i))
<1>1. /\ Unresolved(i) /\ task[i].at = "resolving" /\ i \in Threads
      /\ call[i].at = "answered" /\ CallNamed(call[i])
  BY SourcesAre DEF TakeDictionary, TypeInv, Tasks, Unresolved, NamesInv
<1>2. PICK t : t = task[i]
  OBVIOUS
<1>3. PICK u : u = task'[i]
  OBVIOUS
<1>4. PICK found : found = call[i].found
  OBVIOUS
<1>5. /\ u.lines = t.lines /\ u.dicts = Append(t.dicts, found) /\ t.at = "resolving"
      /\ u.at = "resolving"
  BY <1>1, <1>2, <1>3, <1>4, SpokenGrows
<1>6. PICK msgs : msgs = MessagesIn(Last(t.lines))
  OBVIOUS
<1>7. PICK n : n = Len(t.dicts)
  OBVIOUS
<1>8. /\ t.dicts \in Seq(ToSet(t.dicts)) /\ n \in Nat /\ msgs \in Seq(Msgs) /\ n < Len(msgs)
      /\ Len(msgs) \in Nat
  BY <1>1, <1>2, <1>6, <1>7, CurrentTyped DEF TypeInv, Tasks, TaskOK, CurrentLine, Unresolved
<1>9. Len(u.dicts) = n + 1 /\ u.dicts[n + 1] = found /\ \A k \in 1 .. n : u.dicts[k] = t.dicts[k]
  BY <1>5, <1>7, <1>8
<1>10. PICK before \in Seq(Msgs) : before = Before(i)
  BY BeforeTyped
<1>11. PICK told \in Seq(Msgs) : told = Told(t)
  BY <1>2, ToldTyped DEF TypeInv, Tasks
<1>12. Told(u) = told
  <2>1. TaskStep(i) /\ ~FinishLine(i)
    <3>1. task[i] \in [at : Places, pos : 0 .. arrived[i], lines : Seq(Seq(Pieces)),
                       dicts : Seq(ToSet(task[i].dicts)), result : Results]
          /\ DOMAIN task = Sources
      BY DEF TypeInv, Tasks, TaskOK
    <3>2. FinishLine(i) => task'[i].at = "reading"
      BY <3>1 DEF FinishLine
    <3> QED
      BY <1>3, <1>5, <3>2 DEF TaskStep
  <2> QED
    BY <1>2, <1>3, <1>11, <2>1, ToldOtherwise
<1>13. PICK all \in Seq(Msgs) : all = before \o told
  BY <1>10, <1>11, ConcatProperties
<1>14. NamedUpTo(msgs, t.dicts, n, all)
  BY <1>2, <1>5, <1>6, <1>7, <1>10, <1>11, <1>13 DEF WordsInv, DictsInv, DictsOf
<1>15. before \o SpokenOf(t) = all \o SubSeq(msgs, 1, n)
  <2>1. SpokenOf(t) = told \o SubSeq(msgs, 1, n)
    BY <1>5, <1>6, <1>7, <1>11 DEF SpokenOf
  <2>2. SubSeq(msgs, 1, n) \in Seq(Msgs)
    BY <1>8
  <2> QED
    <3>1. PICK c \in Seq(Msgs) : c = SubSeq(msgs, 1, n)
      BY <2>2
    <3>2. PICK two : two = SpokenOf(t)
      OBVIOUS
    <3>3. two = told \o c /\ all = before \o told
      BY <1>13, <2>1, <3>1, <3>2
    <3>4. before \o two = all \o c
      BY <3>3, ConcatShift
    <3> QED
      BY <3>1, <3>2, <3>4
<1>16. Name(found) = NameAfter(all \o SubSeq(msgs, 1, n), msgs[n + 1])
  <2>1. call[i].detected = DetectedKey(msgs[n + 1], LastDefault(all \o SubSeq(msgs, 1, n), msgs[n + 1]))
    BY <1>1, <1>2, <1>6, <1>7, <1>10, <1>15 DEF WordsInv, AskedInv, AskedOf, NextOf
  <2>2. Name(found) = NameFor(call[i].detected)
    BY <1>1, <1>4 DEF CallNamed
  <2> QED
    BY <2>1, <2>2 DEF NameAfter
<1>17. n + 1 - 1 = n
  BY <1>8
<1>18. NamedUpTo(msgs, u.dicts, n + 1, all)
  <2>1. ASSUME NEW k \in 1 .. n + 1
        PROVE  Name(u.dicts[k]) = NameAfter(all \o SubSeq(msgs, 1, k - 1), msgs[k])
    <3>1. CASE k \in 1 .. n
      BY <1>9, <1>14, <3>1 DEF NamedUpTo
    <3>2. CASE k = n + 1
      <4>0. k - 1 = n
        BY <1>8, <3>2
      <4>1. SubSeq(msgs, 1, k - 1) = SubSeq(msgs, 1, n)
        BY <4>0
      <4>2. u.dicts[k] = found /\ msgs[k] = msgs[n + 1]
        BY <1>9, <3>2
      <4> QED
        BY <1>16, <4>1, <4>2, Zenon
    <3> QED
      BY <1>8, <3>1, <3>2
  <2> QED
    BY <2>1 DEF NamedUpTo
<1> QED
  BY <1>3, <1>5, <1>6, <1>9, <1>10, <1>11, <1>12, <1>13, <1>18 DEF DictsOf

(* A step of another thread, or of none, leaves the call of a thread and   *)
(* its task alone.                                                         *)
LEMMA OthersStay ==
  ASSUME TypeInv, CacheInv, [Next]_vars, NEW i \in Sources, ~TaskStep(i)
  PROVE  task'[i] = task[i] /\ call'[i] = call[i]
<1>1. i \in Threads /\ Sources \subseteq Threads /\ DOMAIN call = Threads
  BY SourcesAre DEF TypeInv, CacheInv
<1>2. ASSUME NEW j \in Sources, TaskStep(j) PROVE task'[i] = task[i] /\ call'[i] = call[i]
  <2>1. j # i /\ j \in Threads /\ task'[i] = task[i]
    BY <1>1, <1>2, TaskMoves
  <2>2. CASE FindDictionary(j)
    BY <1>1, <2>1, <2>2, DetectedStays DEF FindDictionary
  <2>3. CASE AskDictionary(j)
    BY <1>1, <2>1, <2>3 DEF AskDictionary, Resolve
  <2>4. CASE TakeDictionary(j)
    BY <1>1, <2>1, <2>4 DEF TakeDictionary
  <2>5. CASE UNCHANGED cacheVars
    BY <2>1, <2>5 DEF cacheVars
  <2> QED
    BY <1>2, <2>1, <2>2, <2>3, <2>4, <2>5
       DEF TaskStep, OpenSource, TakeLine, FinishLine, LiveCounts, EndSource
<1>3. CASE Register
  BY <1>3 DEF Register, RegisterDictionary, cacheVars
<1>4. CASE ReadOptions \/ Begin \/ Answer \/ EmitFile \/ Close \/ Exit
  BY <1>4 DEF ReadOptions, Begin, Answer, EmitFile, Close, Exit, cacheVars
<1>5. CASE Interrupt \/ QuitPager \/ UNCHANGED vars
  BY <1>5 DEF Interrupt, QuitPager, vars, fileVars, cacheVars
<1>6. ASSUME NEW j \in Sources, Arrive(j) PROVE task'[i] = task[i] /\ call'[i] = call[i]
  BY <1>6 DEF Arrive, cacheVars
<1> QED
  BY <1>2, <1>3, <1>4, <1>5, <1>6 DEF Next, MainStep

LEMMA WordsOfTask ==
  ASSUME TypeInv, TypeInv', CacheInv, InOrder, DefaultsInv, NamesInv, WordsInv, [Next]_vars,
         NEW i \in Sources
  PROVE  AskedOf(call'[i], task'[i], Before(i)) /\ DictsOf(task'[i], Before(i))
<1>1. /\ TaskOK(task[i], arrived[i]) /\ TaskOK(task'[i], arrived'[i]) /\ DOMAIN task = Sources
      /\ call[i].at # "idle" => task[i].at = "resolving"
      /\ call'[i].at # "idle" => task'[i].at = "resolving"
  <2>1. Sources' = Sources
    BY OptsStay DEF Sources
  <2> QED
    BY <2>1 DEF TypeInv, Tasks, Unresolved
<1>2. CASE task'[i].at # "resolving"
  BY <1>1, <1>2 DEF AskedOf, DictsOf
<1>3. CASE task'[i] = task[i] /\ call'[i].detected = call[i].detected
           /\ (call'[i].at # "idle" => call[i].at # "idle")
  BY <1>3 DEF WordsInv, AskedInv, DictsInv, AskedOf
<1>4. CASE TakeLine(i)
  <2>1. task[i].at = "reading" /\ UNCHANGED cacheVars /\ task[i].dicts = << >>
    BY <1>1, <1>4 DEF TakeLine, TaskOK
  <2>2. task'[i].dicts = << >> /\ call'[i].at = "idle"
    <3>1. call'[i].at = "idle"
      BY <1>1, <2>1 DEF cacheVars
    <3>2. PICK line, end :
              \/ task' = [task EXCEPT ![i].at = "done", ![i].result = "unreadable"]
              \/ task' = [task EXCEPT ![i].pos = end,
                       ![i].at = IF IsBad(line) THEN "reading" ELSE "resolving",
                       ![i].lines = IF IsBad(line) THEN @ ELSE Append(@, line)]
      BY <1>4 DEF TakeLine, Finished
    <3>3. task[i] \in [at : Places, pos : 0 .. arrived[i], lines : Seq(Seq(Pieces)),
                       dicts : Seq(ToSet(task[i].dicts)), result : Results]
      BY <1>1 DEF TaskOK
    <3>4. task'[i].dicts = task[i].dicts
      BY <1>1, <3>2, <3>3
    <3> QED
      BY <2>1, <3>1, <3>4
  <2>3. 1 .. Len(task'[i].dicts) = {}
    BY <2>2
  <2> QED
    BY <2>2, <2>3 DEF AskedOf, DictsOf, NamedUpTo
<1>5. CASE AskDictionary(i)
  <2>1. task' = task
    BY <1>5 DEF AskDictionary, fileVars
  <2> QED
    BY <1>5, <2>1, AskedRightly DEF WordsInv, DictsInv
<1>6. CASE FindDictionary(i)
  <2>1. task' = task /\ CacheStep(i) /\ i \in Threads
    BY <1>6, SourcesAre DEF FindDictionary, fileVars, TypeInv
  <2> QED
    BY <1>3, <2>1, DetectedStays
<1>7. CASE TakeDictionary(i)
  <2>1. call'[i].at = "idle"
    <3>1. i \in Threads /\ DOMAIN call = Threads
      BY SourcesAre DEF TypeInv, CacheInv
    <3> QED
      BY <1>7, <3>1 DEF TakeDictionary, Idle
  <2> QED
    BY <1>7, <2>1, TakenRightly DEF AskedOf
<1>8. CASE OpenSource(i) \/ FinishLine(i) \/ EndSource(i)
  <2>1. task'[i].at # "resolving"
    BY <1>1, <1>8 DEF OpenSource, FinishLine, EndSource, Finished, TaskOK
  <2> QED
    BY <1>2, <2>1
<1>9. CASE LiveCounts(i)
  BY <1>3, <1>9 DEF LiveCounts, cacheVars
<1>10. CASE ~TaskStep(i)
  BY <1>3, <1>10, OthersStay
<1> QED
  BY <1>4, <1>5, <1>6, <1>7, <1>8, <1>9, <1>10 DEF TaskStep

LEMMA WordsKept ==
  ASSUME TypeInv, TypeInv', CacheInv, InOrder, DefaultsInv, NamesInv, WordsInv, [Next]_vars
  PROVE  WordsInv'
<1>1. opts' = opts /\ Sources' = Sources
  BY OptsStay DEF Sources
<1>2. ASSUME NEW i \in Sources
      PROVE  AskedOf(call[i], task[i], Before(i))' /\ DictsOf(task[i], Before(i))'
  <2>1. CASE task[i].at # "waiting"
    <3>1. PICK b : b = Before(i)
      OBVIOUS
    <3>2. b = Before(i)'
      BY <2>1, <3>1, BeforeStays
    <3>3. PICK t : t = task'[i]
      OBVIOUS
    <3>4. DictsOf(t, b)
      BY <3>1, <3>3, WordsOfTask
    <3>5. DictsOf(t, b)'
      BY <1>1, <3>4, DictsStay
    <3>6. DictsOf(task[i], Before(i))'
      BY <3>2, <3>3, <3>5
    <3>7. AskedOf(call'[i], task'[i], b)
      BY <3>1, WordsOfTask
    <3> QED
      BY <3>2, <3>6, <3>7 DEF AskedOf
  <2>2. CASE task[i].at = "waiting"
    <3>1. task'[i].at # "resolving"
      <4>1. CASE TaskStep(i)
        <5>1. OpenSource(i)
          <6>1. call[i].at = "idle"
            BY <2>2 DEF TypeInv, Tasks, Unresolved
          <6>2. ~CacheStep(i)
            BY <6>1 DEF CacheStep, LookCombo, Look, LookSession, InsertSession, Insert, StoreCombo
          <6> QED
            BY <2>2, <4>1, <6>1, <6>2 DEF TaskStep, TakeLine, AskDictionary, FindDictionary, TakeDictionary,
               FinishLine, LiveCounts, EndSource, Unresolved
        <5>2. DOMAIN task = Sources
          BY DEF TypeInv, Tasks
        <5>3. TaskOK(task[i], arrived[i])
          BY DEF TypeInv, Tasks
        <5> QED
          BY <5>1, <5>2, <5>3 DEF OpenSource, Finished, TaskOK
      <4>2. CASE ~TaskStep(i)
        BY <2>2, <4>2, OthersStay
      <4> QED
        BY <4>1, <4>2
    <3>2. call'[i].at = "idle"
      BY <1>1, <3>1 DEF TypeInv, Tasks, Unresolved
    <3> QED
      BY <3>1, <3>2 DEF AskedOf, DictsOf
  <2> QED
    BY <2>1, <2>2
<1> QED
  BY <1>1, <1>2 DEF WordsInv, AskedInv, DictsInv

LEMMA BadIs ==
  ASSUME NEW text \in Seq(Pieces), NEW m \in 1 .. Len(text), NEW n \in m .. Len(text)
  PROVE  IsBad(SubSeq(text, m, n)) <=> \E j \in m .. n : text[j].what = "bad"
<1>1. Len(text) \in Nat /\ m \in Nat /\ n \in Nat
  OBVIOUS
<1>2. SubSeq(text, m, n) \in Seq(Pieces) /\ Len(SubSeq(text, m, n)) = n - m + 1
      /\ \A k \in 1 .. n - m + 1 : SubSeq(text, m, n)[k] = text[m + k - 1]
  BY <1>1
<1>3. DOMAIN SubSeq(text, m, n) = 1 .. n - m + 1
  BY <1>2
<1>4. ASSUME NEW k \in 1 .. n - m + 1, SubSeq(text, m, n)[k].what = "bad"
      PROVE  \E j \in m .. n : text[j].what = "bad"
  <2>1. m + k - 1 \in m .. n
    BY <1>1
  <2> QED
    BY <1>2, <1>4, <2>1
<1>5. ASSUME NEW j \in m .. n, text[j].what = "bad"
      PROVE  \E k \in 1 .. n - m + 1 : SubSeq(text, m, n)[k].what = "bad"
  <2>1. j - m + 1 \in 1 .. n - m + 1 /\ m + (j - m + 1) - 1 = j
    BY <1>1
  <2>2. SubSeq(text, m, n)[j - m + 1] = text[j]
    BY <1>2, <2>1
  <2> QED
    BY <1>5, <2>1, <2>2
<1> QED
  BY <1>3, <1>4, <1>5 DEF IsBad

LEMMA LineAtIs ==
  ASSUME NEW text \in Seq(Pieces), NEW j \in 1 .. Len(text)
  PROVE  /\ LineAt(text, j) \in Seq(Seq(Pieces))
         /\ ~(text[j].eol \/ j = Len(text)) => LineAt(text, j) = << >>
         /\ (\E k \in 1 .. j : text[k].what = "bad") => LineAt(text, j) = << >>
         /\ \A start \in 0 .. j - 1 :
                /\ text[j].eol \/ j = Len(text)
                /\ \A k \in 1 .. j : text[k].what # "bad"
                /\ start > 0 => text[start].eol
                /\ \A k \in start + 1 .. j - 1 : ~text[k].eol
                => LineAt(text, j) = <<SubSeq(text, start + 1, j)>>
<1>1. Len(text) \in Nat /\ j \in Nat /\ j <= Len(text) /\ 1 <= j
  OBVIOUS
<1>2. PICK S : S = {0} \cup {e \in 1 .. j - 1 : text[e].eol}
  OBVIOUS
<1>3. S \subseteq 0 .. j - 1 /\ S # {} /\ j - 1 \in Nat
  BY <1>1, <1>2
<1>4. Max(S) \in S /\ Max(S) \in 0 .. j - 1
  BY <1>3, MaxIs
<1>5. IsBad(SubSeq(text, 1, j)) <=> \E k \in 1 .. j : text[k].what = "bad"
  BY <1>1, BadIs
<1>6. LineAt(text, j) = IF (text[j].eol \/ j = Len(text)) /\ ~IsBad(SubSeq(text, 1, j))
                        THEN <<SubSeq(text, 1 + Max(S), j)>> ELSE << >>
  BY <1>2 DEF LineAt
<1>7. SubSeq(text, 1 + Max(S), j) \in Seq(Pieces)
  <2>1. 1 + Max(S) \in 1 .. j
    BY <1>1, <1>4
  <2> HIDE DEF Max
  <2> QED
    BY <1>1, <2>1
<1>8. ASSUME NEW start \in 0 .. j - 1,
             start > 0 => text[start].eol,
             \A k \in start + 1 .. j - 1 : ~text[k].eol
      PROVE  Max(S) = start
  <2>1. start \in S
    BY <1>1, <1>2, <1>8
  <2>2. ASSUME NEW k \in S PROVE k <= start
    <3>1. k \in 0 .. j - 1 /\ (k = 0 \/ text[k].eol)
      BY <1>2, <1>3
    <3> QED
      BY <1>1, <1>8, <3>1
  <2> QED
    BY <1>3, <2>1, <2>2, MaxUnique
<1> HIDE DEF Max
<1>9. LineAt(text, j) \in Seq(Seq(Pieces))
  BY <1>6, <1>7
<1>10. ASSUME NEW start \in 0 .. j - 1,
              text[j].eol \/ j = Len(text),
              \A k \in 1 .. j : text[k].what # "bad",
              start > 0 => text[start].eol,
              \A k \in start + 1 .. j - 1 : ~text[k].eol
       PROVE  LineAt(text, j) = <<SubSeq(text, start + 1, j)>>
  <2>1. Max(S) = start /\ 1 + start = start + 1
    BY <1>1, <1>8, <1>10
  <2>2. LineAt(text, j) = <<SubSeq(text, 1 + Max(S), j)>>
    BY <1>5, <1>6, <1>10
  <2> QED
    BY <2>1, <2>2
<1> QED
  BY <1>5, <1>6, <1>9, <1>10

LEMMA LinesUpToIs ==
  ASSUME NEW text \in Seq(Pieces)
  PROVE  /\ LinesUpTo(text, 0) = << >>
         /\ LinesUpTo(text, Len(text)) = LinesIn(text)
         /\ \A n \in 0 .. Len(text) :
                /\ LinesUpTo(text, n) \in Seq(Seq(Pieces))
                /\ n < Len(text) =>
                       LinesUpTo(text, n + 1) = LinesUpTo(text, n) \o LineAt(text, n + 1)
<1> DEFINE all == [j \in 1 .. Len(text) |-> LineAt(text, j)]
<1>1. Len(text) \in Nat /\ DOMAIN text = 1 .. Len(text)
  OBVIOUS
<1>2. \A j \in 1 .. Len(text) : LineAt(text, j) \in Seq(Seq(Pieces))
  BY LineAtIs
<1>3. all \in Seq(Seq(Seq(Pieces))) /\ Len(all) = Len(text)
  BY <1>1, <1>2
<1>4. \A j \in 1 .. Len(text) : all[j] = LineAt(text, j)
  OBVIOUS
<1>5. LinesIn(text) = FlattenSeq(all) /\ LinesUpTo(text, Len(text)) = FlattenSeq(all)
  <2>1. Tuple(all) = all
    BY <1>3, TupleIs
  <2>2. [j \in DOMAIN text |-> LineAt(text, j)] = all
    BY <1>1
  <2> QED
    BY <2>1, <2>2 DEF LinesIn, LinesUpTo
<1> HIDE DEF all
<1>6. ASSUME NEW n \in 0 .. Len(text)
      PROVE  LinesUpTo(text, n) = FlattenSeq(SubSeq(all, 1, n))
  <2>1. SubSeq(all, 1, n) = [j \in 1 .. n |-> LineAt(text, j)]
    BY <1>1, <1>3, <1>4
  <2> QED
    BY <2>1 DEF LinesUpTo
<1>7. LinesUpTo(text, 0) = << >>
  <2>1. SubSeq(all, 1, 0) = << >>
    BY <1>3
  <2>2. 0 \in 0 .. Len(text)
    BY <1>1
  <2>3. LinesUpTo(text, 0) = FlattenSeq(SubSeq(all, 1, 0))
    BY <1>6, <2>2
  <2> QED
    BY <2>1, <2>3, FlattenNone
<1>8. ASSUME NEW n \in 0 .. Len(text)
      PROVE  /\ LinesUpTo(text, n) \in Seq(Seq(Pieces))
             /\ n < Len(text) =>
                    LinesUpTo(text, n + 1) = LinesUpTo(text, n) \o LineAt(text, n + 1)
  <2>1. FlattenSeq(SubSeq(all, 1, n)) \in Seq(Seq(Pieces))
    BY <1>3, FlattenFirst
  <2>2. n < Len(text) => FlattenSeq(SubSeq(all, 1, n + 1)) = FlattenSeq(SubSeq(all, 1, n)) \o all[n + 1]
    BY <1>3, FlattenFirst
  <2>3. n < Len(text) => n + 1 \in 0 .. Len(text) /\ n + 1 \in 1 .. Len(text)
    BY <1>1
  <2> QED
    BY <1>4, <1>6, <2>1, <2>2, <2>3
<1> QED
  BY <1>5, <1>7, <1>8

(* No line ends between two places: the lines up to them are the same.     *)
LEMMA NoLineBetween ==
  ASSUME NEW text \in Seq(Pieces), NEW m \in 0 .. Len(text), NEW n \in m .. Len(text),
         \A j \in m + 1 .. n : LineAt(text, j) = << >>
  PROVE  LinesUpTo(text, n) = LinesUpTo(text, m)
<1> DEFINE P == {k \in Nat : m + k <= n => LinesUpTo(text, m + k) = LinesUpTo(text, m)}
<1>1. Len(text) \in Nat /\ m \in Nat /\ n \in Nat /\ m <= n
  OBVIOUS
<1>2. 0 \in P
  BY <1>1
<1>3. ASSUME NEW k \in Nat, k \in P PROVE k + 1 \in P
  <2>1. CASE m + (k + 1) <= n
    <3>1. m + k \in 0 .. Len(text) /\ m + k < Len(text) /\ m + (k + 1) = (m + k) + 1
          /\ (m + k) + 1 \in m + 1 .. n /\ m + k <= n
      BY <1>1, <2>1
    <3>2. LinesUpTo(text, (m + k) + 1) = LinesUpTo(text, m + k) \o << >>
      BY <3>1, LinesUpToIs
    <3>3. LinesUpTo(text, m + k) \in Seq(Seq(Pieces))
      BY <3>1, LinesUpToIs
    <3>4. LinesUpTo(text, m + k) = LinesUpTo(text, m)
      BY <1>3, <3>1
    <3>5. LinesUpTo(text, m + (k + 1)) = LinesUpTo(text, m)
      BY <3>1, <3>2, <3>3, <3>4, ConcatEmptySeq
    <3> QED
      BY <3>5
  <2>2. CASE ~(m + (k + 1) <= n)
    BY <2>2
  <2> QED
    BY <2>1, <2>2
<1>4. \A k \in Nat : k \in P
  <2> HIDE DEF P
  <2> QED
    BY <1>2, <1>3, UpwardInduction
<1>5. n - m \in Nat /\ m + (n - m) = n
  BY <1>1
<1>6. LinesUpTo(text, m + (n - m)) = LinesUpTo(text, m)
  BY <1>1, <1>4, <1>5
<1> QED
  BY <1>5, <1>6

(* Where a reader is, the next line is the next of the lines of the text;  *)
(* one that is no text is the end of them.                                 *)
LEMMA NextLine ==
  ASSUME NEW text \in Seq(Pieces), NEW pos \in 0 .. Len(text) - 1, Boundary(text, pos),
         NEW end, end = LineEnd(text, pos + 1), NEW line, line = SubSeq(text, pos + 1, end)
  PROVE  /\ IsBad(line) => LinesIn(text) = LinesUpTo(text, pos)
         /\ ~IsBad(line) => /\ LinesUpTo(text, end) = Append(LinesUpTo(text, pos), line)
                            /\ Boundary(text, end)
<1>1. Len(text) \in Nat /\ pos \in Nat /\ pos < Len(text) /\ pos + 1 \in 1 .. Len(text)
  OBVIOUS
<1>2. /\ end \in pos + 1 .. Len(text) /\ end \in Nat
      /\ text[end].eol \/ end = Len(text)
      /\ \A j \in pos + 1 .. end - 1 : ~text[j].eol /\ j # Len(text)
  <2>1. PICK from \in 1 .. Len(text) : from = pos + 1
    BY <1>1
  <2>2. /\ LineEnd(text, from) \in from .. Len(text)
        /\ text[LineEnd(text, from)].eol \/ LineEnd(text, from) = Len(text)
        /\ \A j \in from .. LineEnd(text, from) - 1 : ~text[j].eol /\ j # Len(text)
    BY LineEndIs
  <2>3. end = LineEnd(text, from)
    BY <2>1
  <2> QED
    BY <1>1, <2>1, <2>2, <2>3
<1>3. IsBad(line) <=> \E j \in pos + 1 .. end : text[j].what = "bad"
  BY <1>1, <1>2, BadIs
<1>4. \A j \in pos + 1 .. end - 1 : LineAt(text, j) = << >>
  <2>1. ASSUME NEW j \in pos + 1 .. end - 1 PROVE LineAt(text, j) = << >>
    <3>1. j \in 1 .. Len(text) /\ ~(text[j].eol \/ j = Len(text))
      BY <1>1, <1>2
    <3> QED
      BY <3>1, LineAtIs
  <2> QED
    BY <2>1
<1>5. LinesUpTo(text, end - 1) = LinesUpTo(text, pos)
  <2>1. end - 1 \in pos .. Len(text)
    BY <1>1, <1>2
  <2> QED
    BY <1>1, <1>4, <2>1, NoLineBetween
<1>6. CASE IsBad(line)
  <2>1. PICK b \in pos + 1 .. end : text[b].what = "bad"
    BY <1>3, <1>6
  <2>2. ASSUME NEW j \in pos + 1 .. Len(text) PROVE LineAt(text, j) = << >>
    <3>1. CASE j < end
      BY <1>1, <1>2, <1>4, <3>1
    <3>2. CASE ~(j < end)
      <4>1. b \in 1 .. j /\ j \in 1 .. Len(text)
        BY <1>1, <1>2, <3>2
      <4> QED
        BY <2>1, <4>1, LineAtIs
    <3> QED
      BY <3>1, <3>2
  <2>3. LinesUpTo(text, Len(text)) = LinesUpTo(text, pos)
    BY <1>1, <2>2, NoLineBetween
  <2> QED
    BY <1>6, <2>3, LinesUpToIs
<1>7. CASE ~IsBad(line)
  <2>1. \A k \in 1 .. end : text[k].what # "bad"
    BY <1>1, <1>2, <1>3, <1>7 DEF Boundary
  <2>2. pos > 0 => text[pos].eol
    BY <1>1 DEF Boundary
  <2>3. LineAt(text, end) = <<line>>
    <3>1. end \in 1 .. Len(text) /\ pos \in 0 .. end - 1
      BY <1>1, <1>2
    <3> QED
      BY <1>2, <2>1, <2>2, <3>1, LineAtIs
  <2>4. LinesUpTo(text, end) = LinesUpTo(text, pos) \o <<line>>
    <3>1. end - 1 \in 0 .. Len(text) /\ end - 1 < Len(text) /\ end - 1 + 1 = end
      BY <1>1, <1>2
    <3> QED
      BY <1>5, <2>3, <3>1, LinesUpToIs
  <2>5. LinesUpTo(text, pos) \in Seq(Seq(Pieces)) /\ line \in Seq(Pieces)
    <3>1. pos \in 0 .. Len(text) /\ pos + 1 \in 1 .. Len(text) /\ end \in 1 .. Len(text)
      BY <1>1, <1>2
    <3> QED
      BY <3>1, LinesUpToIs
  <2>6. LinesUpTo(text, pos) \o <<line>> = Append(LinesUpTo(text, pos), line)
    BY <2>5, AppendIsConcat
  <2>7. Boundary(text, end)
    BY <1>1, <1>2, <2>1 DEF Boundary
  <2> QED
    BY <1>7, <2>4, <2>6, <2>7
<1> QED
  BY <1>6, <1>7

LEMMA LinesTogether ==
  \A a, f, x \in Seq(Seq(Pieces)) : a \o (f \o x) = (a \o f) \o x
BY ConcatThree

LEMMA LinesBegin ==
  ASSUME NEW text \in Seq(Pieces), NEW n \in 0 .. Len(text)
  PROVE  \E rest \in Seq(Seq(Pieces)) : LinesIn(text) = LinesUpTo(text, n) \o rest
<1> DEFINE P == {k \in Nat : n + k <= Len(text) =>
                    \E rest \in Seq(Seq(Pieces)) : LinesUpTo(text, n + k) = LinesUpTo(text, n) \o rest}
<1>1. Len(text) \in Nat /\ n \in Nat /\ n <= Len(text)
  OBVIOUS
<1>2. LinesUpTo(text, n) \in Seq(Seq(Pieces))
  BY LinesUpToIs
<1>3. 0 \in P
  <2>1. LinesUpTo(text, n + 0) = LinesUpTo(text, n) \o << >> /\ << >> \in Seq(Seq(Pieces))
    BY <1>1, <1>2, ConcatEmptySeq
  <2> QED
    BY <2>1
<1>4. ASSUME NEW k \in Nat, k \in P PROVE k + 1 \in P
  <2>1. CASE n + (k + 1) <= Len(text)
    <3>1. /\ n + k \in 0 .. Len(text) /\ n + k < Len(text) /\ n + (k + 1) = (n + k) + 1
          /\ (n + k) + 1 \in 1 .. Len(text) /\ n + k <= Len(text)
      BY <1>1, <2>1
    <3>2. PICK rest \in Seq(Seq(Pieces)) : LinesUpTo(text, n + k) = LinesUpTo(text, n) \o rest
      BY <1>4, <3>1
    <3>3. PICK x \in Seq(Seq(Pieces)) : x = LineAt(text, (n + k) + 1)
      BY <3>1, LineAtIs
    <3>4. LinesUpTo(text, (n + k) + 1) = LinesUpTo(text, n + k) \o x
      BY <3>1, <3>3, LinesUpToIs
    <3>9. PICK a \in Seq(Seq(Pieces)) : a = LinesUpTo(text, n)
      BY <1>2
    <3>5. PICK two \in Seq(Seq(Pieces)) : two = rest \o x
      BY ConcatProperties
    <3>6. PICK one : one = LinesUpTo(text, n + k)
      OBVIOUS
    <3>10. one = a \o rest
      BY <3>2, <3>6, <3>9
    <3>7. a \o two = one \o x
      <4>1. a \o (rest \o x) = (a \o rest) \o x
        BY LinesTogether, Zenon
      <4> QED
        BY <3>5, <3>10, <4>1, Zenon
    <3>8. LinesUpTo(text, n + (k + 1)) = LinesUpTo(text, n) \o two
      BY <3>1, <3>4, <3>6, <3>7, <3>9
    <3>12. \E z \in Seq(Seq(Pieces)) : LinesUpTo(text, n + (k + 1)) = LinesUpTo(text, n) \o z
      BY <3>5, <3>8
    <3>13. k + 1 \in Nat
      OBVIOUS
    <3> QED
      BY <3>12, <3>13
  <2>2. CASE ~(n + (k + 1) <= Len(text))
    BY <2>2
  <2> QED
    BY <2>1, <2>2
<1>5. \A k \in Nat : k \in P
  <2> HIDE DEF P
  <2> QED
    BY <1>3, <1>4, UpwardInduction
<1>6. Len(text) - n \in Nat /\ n + (Len(text) - n) = Len(text)
  BY <1>1
<1>7. \E rest \in Seq(Seq(Pieces)) : LinesUpTo(text, n + (Len(text) - n)) = LinesUpTo(text, n) \o rest
  <2>1. PICK k \in Nat : k = Len(text) - n
    BY <1>6
  <2>4. n + k <= Len(text)
    BY <1>1, <2>1
  <2>5. k \in P
    BY <1>5
  <2>2. k \in P /\ n + k <= Len(text)
    BY <2>4, <2>5
  <2>3. \E rest \in Seq(Seq(Pieces)) : LinesUpTo(text, n + k) = LinesUpTo(text, n) \o rest
    BY <2>2
  <2> QED
    BY <2>1, <2>3
<1> QED
  BY <1>6, <1>7, LinesUpToIs

-----------------------------------------------------------------------------
LEMMA LinesReadIs ==
  ASSUME NEW i
  PROVE  LinesRead(i) = IF Skipped(i) THEN << >>
                        ELSE IF opts.follow THEN task[i].lines ELSE LinesIn(Text(i))
BY DEF LinesRead, Skipped

LEMMA ReadInvInit == Init /\ TypeInv => ReadInv
<1> SUFFICES ASSUME Init, TypeInv PROVE ReadInv
  OBVIOUS
<1>1. ASSUME NEW i \in Sources
      PROVE  task[i].at = "waiting" /\ task[i].lines = << >> /\ task[i].pos = 0
  BY DEF Init, NewTask, Sources
<1>2. ASSUME NEW i \in Sources PROVE ReadUpTo(Text(i), task[i])
  <2>1. Text(i) \in Seq(Pieces) /\ Len(Text(i)) \in Nat
    BY TextTyped
  <2>2. Boundary(Text(i), 0)
    BY <2>1 DEF Boundary
  <2> QED
    BY <1>1, <2>1, <2>2, LinesUpToIs DEF ReadUpTo
<1> QED
  BY <1>1, <1>2 DEF ReadInv, ReadAsGiven, ReadUnlessSkipped, ReadToTheEnd, ReadInOrder

(* The texts do not change, unless the sources are followed.               *)
LEMMA TextsStay ==
  ASSUME TypeInv, [Next]_vars
  PROVE  /\ opts' = opts /\ Sources' = Sources
         /\ \A i \in Sources : Skipped(i)' <=> Skipped(i)
         /\ ~opts.follow => \A i \in Sources : Text(i)' = Text(i)
<1>1. opts' = opts /\ Sources' = Sources
  BY OptsStay DEF Sources
<1>2. ~opts.follow => arrived' = arrived
  <2>1. ASSUME NEW i \in Sources, TaskStep(i) PROVE arrived' = arrived
    BY <2>1, TaskMoves
  <2>2. CASE MainStep
    BY <2>2 DEF MainStep, ReadOptions, Register, Begin, Answer, EmitFile, Close, Exit
  <2>3. CASE Interrupt \/ QuitPager \/ UNCHANGED vars
    BY <2>3 DEF Interrupt, QuitPager, vars, fileVars
  <2>4. ASSUME NEW i \in Sources, Arrive(i) PROVE opts.follow
    BY <2>4 DEF Arrive
  <2> QED
    BY <2>1, <2>2, <2>3, <2>4 DEF Next
<1>3. ~opts.follow => \A i \in Sources : Text(i)' = Text(i)
  BY <1>1, <1>2 DEF Text
<1>4. WideGrid' <=> WideGrid
  BY <1>1 DEF WideGrid, UsesPager
<1>5. opts.follow => ~WideGrid
  BY DEF WideGrid, UsesPager
<1>6. ASSUME NEW i \in Sources PROVE Skipped(i)' <=> Skipped(i)
  BY <1>1, <1>3, <1>4, <1>5 DEF Skipped
<1> QED
  BY <1>1, <1>3, <1>6

LEMMA LinesReadStays ==
  ASSUME TypeInv, [Next]_vars, NEW i \in Sources, task'[i].lines = task[i].lines \/ ~opts.follow
  PROVE  LinesRead(i)' = LinesRead(i)
<1>1. /\ opts' = opts /\ (Skipped(i)' <=> Skipped(i))
      /\ ~opts.follow => Text(i)' = Text(i)
  BY TextsStay
<1>2. CASE ~opts.follow
  BY <1>1, <1>2 DEF LinesRead, Skipped
<1>3. CASE opts.follow
  BY <1>1, <1>3 DEF LinesRead, Skipped
<1> QED
  BY <1>2, <1>3

(* What a step of a task does with its lines.                              *)
LEMMA LinesMove ==
  ASSUME TypeInv, NEW i \in Sources, TaskStep(i)
  PROVE  \/ task'[i].lines = task[i].lines /\ task'[i].pos = task[i].pos
         \/ TakeLine(i)
<1>1. /\ DOMAIN task = Sources
      /\ task[i] \in [at : Places, pos : 0 .. arrived[i], lines : Seq(Seq(Pieces)),
                      dicts : Seq(ToSet(task[i].dicts)), result : Results]
  BY DEF TypeInv, Tasks, TaskOK
<1>2. CASE OpenSource(i)
  BY <1>1, <1>2 DEF OpenSource, Finished
<1>3. CASE EndSource(i)
  BY <1>1, <1>3 DEF EndSource, Finished
<1>4. CASE FinishLine(i)
  BY <1>1, <1>4 DEF FinishLine
<1>5. CASE TakeDictionary(i)
  BY <1>1, <1>5 DEF TakeDictionary
<1>6. CASE AskDictionary(i) \/ FindDictionary(i) \/ LiveCounts(i)
  BY <1>6 DEF AskDictionary, FindDictionary, LiveCounts, fileVars
<1> QED
  BY <1>2, <1>3, <1>4, <1>5, <1>6 DEF TaskStep

LEMMA TakeLineDoes ==
  ASSUME TypeInv, NEW i \in Sources, TakeLine(i),
         NEW end, end = LineEnd(Text(i), task[i].pos + 1),
         NEW line, line = SubSeq(Text(i), task[i].pos + 1, end)
  PROVE  /\ task[i].at = "reading" /\ ~interrupted /\ task[i].pos < arrived[i]
         /\ line \in Seq(Pieces)
         /\ IsBad(line) /\ ~opts.follow =>
                /\ task'[i].lines = task[i].lines /\ task'[i].pos = task[i].pos
                /\ task'[i].at = "done" /\ task'[i].result = "unreadable"
         /\ IsBad(line) /\ opts.follow =>
                /\ task'[i].lines = task[i].lines /\ task'[i].pos = end
                /\ task'[i].at = "reading" /\ task'[i].result = task[i].result
         /\ ~IsBad(line) =>
                /\ task'[i].lines = Append(task[i].lines, line) /\ task'[i].pos = end
                /\ task'[i].at = "resolving" /\ task'[i].result = task[i].result
<1>1. /\ DOMAIN task = Sources
      /\ task[i] \in [at : Places, pos : 0 .. arrived[i], lines : Seq(Seq(Pieces)),
                      dicts : Seq(ToSet(task[i].dicts)), result : Results]
  BY DEF TypeInv, Tasks, TaskOK
<1>2. task[i].at = "reading" /\ ~interrupted /\ task[i].pos < arrived[i]
  BY DEF TakeLine
<1>3. line \in Seq(Pieces)
  BY <1>2, LineTaken
<1>4. IsBad(line) /\ ~opts.follow =>
          task' = [task EXCEPT ![i].at = "done", ![i].result = "unreadable"]
  BY DEF TakeLine, Finished
<1>5. ~(IsBad(line) /\ ~opts.follow) =>
          task' = [task EXCEPT ![i].pos = end,
                      ![i].at = IF IsBad(line) THEN "reading" ELSE "resolving",
                      ![i].lines = IF IsBad(line) THEN @ ELSE Append(@, line)]
  BY DEF TakeLine
<1>6. IsBad(line) /\ ~opts.follow =>
          /\ task'[i].lines = task[i].lines /\ task'[i].pos = task[i].pos
          /\ task'[i].at = "done" /\ task'[i].result = "unreadable"
  BY <1>1, <1>4
<1>7. ~(IsBad(line) /\ ~opts.follow) =>
          /\ task'[i].pos = end /\ task'[i].result = task[i].result
          /\ task'[i].at = IF IsBad(line) THEN "reading" ELSE "resolving"
          /\ task'[i].lines = IF IsBad(line) THEN task[i].lines ELSE Append(task[i].lines, line)
  BY <1>1, <1>5
<1> QED
  BY <1>2, <1>3, <1>6, <1>7

LEMMA TakeLineAppends ==
  ASSUME TypeInv, NEW i \in Sources, TakeLine(i)
  PROVE  \/ task'[i].lines = task[i].lines
         \/ \E line \in Seq(Pieces) : task'[i].lines = Append(task[i].lines, line)
<1>1. PICK end, line : /\ end = LineEnd(Text(i), task[i].pos + 1)
                       /\ line = SubSeq(Text(i), task[i].pos + 1, end)
  OBVIOUS
<1>2. /\ line \in Seq(Pieces)
      /\ IsBad(line) /\ ~opts.follow => task'[i].lines = task[i].lines
      /\ IsBad(line) /\ opts.follow => task'[i].lines = task[i].lines
      /\ ~IsBad(line) => task'[i].lines = Append(task[i].lines, line)
  BY <1>1, TakeLineDoes
<1> QED
  BY <1>2, Zenon

LEMMA InterruptStays ==
  ASSUME TypeInv, [Next]_vars
  PROVE  interrupted => interrupted'
<1>1. CASE MainStep
  BY <1>1 DEF MainStep, ReadOptions, Register, Begin, Answer, EmitFile, Close, Exit
<1>2. CASE Interrupt \/ QuitPager \/ UNCHANGED vars
  BY <1>2 DEF Interrupt, QuitPager, vars, fileVars
<1>3. ASSUME NEW j \in Sources, Arrive(j) PROVE UNCHANGED interrupted
  BY <1>3 DEF Arrive
<1>4. ASSUME NEW j \in Sources, TaskStep(j) PROVE UNCHANGED interrupted
  BY <1>4, TaskMoves
<1> QED
  BY <1>1, <1>2, <1>3, <1>4 DEF Next

LEMMA ReadKeptQuiet ==
  ASSUME TypeInv, ReadInv, [Next]_vars, task' = task
  PROVE  ReadInv'
<1>1. /\ opts' = opts /\ Sources' = Sources /\ \A i \in Sources : Skipped(i)' <=> Skipped(i)
      /\ ~opts.follow => \A i \in Sources : Text(i)' = Text(i)
  BY TextsStay
<1>2. \A i \in Sources : LinesRead(i)' = LinesRead(i)
  BY LinesReadStays
<1>3. interrupted => interrupted'
  BY InterruptStays
<1>4. (Pages' <=> Pages) /\ (Parallel' <=> Parallel) /\ Sources = 1 .. Len(opts.sources)
      /\ Len(opts.sources) \in Nat
  BY <1>1, ShapeStays, SourcesAre DEF TypeInv
<1>5. ReadAsGiven'
  BY <1>1 DEF ReadInv, ReadAsGiven
<1>6. ReadUnlessSkipped'
  BY <1>1 DEF ReadInv, ReadUnlessSkipped
<1>7. ReadToTheEnd'
  BY <1>1, <1>2, <1>3 DEF ReadInv, ReadToTheEnd
<1>8. ReadInOrder'
  <2>1. ASSUME NEW i \in Sources, NEW j \in 1 .. i - 1 PROVE j \in Sources
    BY <1>4
  <2> QED
    BY <1>1, <1>2, <1>4, <2>1 DEF ReadInv, ReadInOrder
<1> QED
  BY <1>5, <1>6, <1>7, <1>8 DEF ReadInv

LEMMA ReadKeptAsGiven ==
  ASSUME TypeInv, ReadInv, NEW i \in Sources, TaskStep(i), ~opts.follow
  PROVE  ReadUpTo(Text(i), task'[i])
<1>1. Boundary(Text(i), task[i].pos) /\ task[i].lines = LinesUpTo(Text(i), task[i].pos)
  BY DEF ReadInv, ReadAsGiven, ReadUpTo
<1>2. CASE task'[i].lines = task[i].lines /\ task'[i].pos = task[i].pos
  BY <1>1, <1>2 DEF ReadUpTo
<1>3. CASE TakeLine(i)
  <2>1. PICK text, pos, end, line :
            /\ text \in Seq(Pieces) /\ text = Text(i) /\ pos = task[i].pos
            /\ end = LineEnd(text, pos + 1) /\ line = SubSeq(text, pos + 1, end)
    BY TextTyped
  <2>2. pos < arrived[i] /\ pos \in 0 .. Len(text) - 1
    <3>1. pos < arrived[i] /\ arrived[i] = Len(text) /\ pos \in 0 .. arrived[i]
      BY <1>3, <2>1, TextTyped DEF TakeLine, TypeInv, Tasks, TaskOK
    <3>2. arrived[i] \in Nat
      BY TextTyped
    <3> QED
      BY <3>1, <3>2
  <2>6. pos \in 0 .. Len(text) - 1 /\ Boundary(text, pos)
    BY <1>1, <2>1, <2>2
  <2>3. ~IsBad(line) => LinesUpTo(text, end) = Append(LinesUpTo(text, pos), line) /\ Boundary(text, end)
    <3>1. end = LineEnd(text, pos + 1) /\ line = SubSeq(text, pos + 1, end) /\ text \in Seq(Pieces)
      BY <2>1
    <3>2. /\ IsBad(line) => LinesIn(text) = LinesUpTo(text, pos)
          /\ ~IsBad(line) => /\ LinesUpTo(text, end) = Append(LinesUpTo(text, pos), line)
                             /\ Boundary(text, end)
      BY <2>6, <3>1, NextLine, ZenonT(60)
    <3> QED
      BY <3>2
  <2>4. IsBad(line) => task'[i].lines = task[i].lines /\ task'[i].pos = task[i].pos
    BY <1>3, <2>1, TakeLineDoes
  <2>5. ~IsBad(line) => task'[i].lines = Append(task[i].lines, line) /\ task'[i].pos = end
    <3>1. end = LineEnd(Text(i), task[i].pos + 1) /\ line = SubSeq(Text(i), task[i].pos + 1, end)
      BY <2>1
    <3> QED
      BY <1>3, <3>1, TakeLineDoes
  <2> QED
    BY <1>1, <1>2, <2>1, <2>3, <2>4, <2>5 DEF ReadUpTo
<1> QED
  BY <1>2, <1>3, LinesMove

(* A source that is left before an interrupt has been read to its end.     *)
LEMMA ReadKeptToTheEnd ==
  ASSUME TypeInv, ReadInv, NEW i \in Sources, TaskStep(i), ~interrupted, task'[i].at = "done"
  PROVE  task'[i].lines = LinesRead(i) \/ opts.follow
<1>1. SUFFICES ASSUME ~opts.follow PROVE task'[i].lines = LinesRead(i)
  OBVIOUS
<1>2. /\ DOMAIN task = Sources
      /\ task[i] \in [at : Places, pos : 0 .. arrived[i], lines : Seq(Seq(Pieces)),
                      dicts : Seq(ToSet(task[i].dicts)), result : Results]
  BY DEF TypeInv, Tasks, TaskOK
<1>3. Boundary(Text(i), task[i].pos) /\ task[i].lines = LinesUpTo(Text(i), task[i].pos)
  BY <1>1 DEF ReadInv, ReadAsGiven, ReadUpTo
<1>4. task[i].at # "done"
  BY TaskMoves
<1>5. Text(i) \in Seq(Pieces) /\ Len(Text(i)) = arrived[i] /\ arrived[i] \in Nat
  BY TextTyped
<1>6. CASE OpenSource(i)
  <2>1. Skipped(i) /\ task'[i].lines = task[i].lines
    <3>1. task'[i].lines = task[i].lines
      BY <1>2, <1>6 DEF OpenSource, Finished
    <3>2. task' = [task EXCEPT ![i].at = "reading"] => task'[i].at = "reading"
      BY <1>2
    <3> QED
      BY <1>6, <3>1, <3>2 DEF OpenSource, Skipped
  <2>2. task[i].lines = << >>
    BY <2>1 DEF ReadInv, ReadUnlessSkipped
  <2> QED
    BY <2>1, <2>2, LinesReadIs
<1>7. CASE TakeLine(i)
  <2>1. PICK text, pos, end, line :
            /\ text \in Seq(Pieces) /\ text = Text(i) /\ pos = task[i].pos
            /\ end = LineEnd(text, pos + 1) /\ line = SubSeq(text, pos + 1, end)
    BY <1>5
  <2>2. pos \in 0 .. Len(text) - 1
    BY <1>2, <1>5, <1>7, <2>1 DEF TakeLine
  <2>3. IsBad(line) => LinesIn(text) = LinesUpTo(text, pos)
    BY <1>3, <2>1, <2>2, NextLine
  <2>4. IsBad(line) /\ task'[i].lines = task[i].lines
    BY <1>1, <1>7, <2>1, TakeLineDoes
  <2>5. ~Skipped(i)
    <3>1. task[i].at = "reading"
      BY <1>7 DEF TakeLine
    <3> QED
      BY <3>1 DEF ReadInv, ReadUnlessSkipped
  <2> QED
    BY <1>1, <1>3, <2>1, <2>3, <2>4, <2>5, LinesReadIs
<1>8. CASE EndSource(i)
  <2>1. task[i].pos = Len(Text(i)) /\ task[i].at = "reading" /\ task'[i].lines = task[i].lines
    <3>1. task'[i].lines = task[i].lines
      BY <1>2, <1>8 DEF EndSource, Finished
    <3> QED
      BY <1>5, <1>8, <3>1 DEF EndSource
  <2>2. ~Skipped(i)
    BY <2>1 DEF ReadInv, ReadUnlessSkipped
  <2>3. task[i].lines = LinesIn(Text(i))
    BY <1>3, <1>5, <2>1, LinesUpToIs
  <2> QED
    BY <1>1, <2>1, <2>2, <2>3, LinesReadIs
<1>9. CASE FinishLine(i) \/ TakeDictionary(i)
  <2>1. task'[i].at # "done"
    BY <1>2, <1>4, <1>9 DEF FinishLine, TakeDictionary
  <2> QED
    BY <2>1
<1>10. CASE AskDictionary(i) \/ FindDictionary(i) \/ LiveCounts(i)
  BY <1>4, <1>10 DEF AskDictionary, FindDictionary, LiveCounts, fileVars
<1> QED
  BY <1>6, <1>7, <1>8, <1>9, <1>10 DEF TaskStep

LEMMA ReadKeptByTask ==
  ASSUME TypeInv, TypeInv', ReadInv, InOrder, [Next]_vars, NEW i \in Sources, TaskStep(i)
  PROVE  ReadInv'
<1>1. /\ opts' = opts /\ Sources' = Sources /\ \A j \in Sources : Skipped(j)' <=> Skipped(j)
      /\ ~opts.follow => \A j \in Sources : Text(j)' = Text(j)
  BY TextsStay
<1>2. /\ \A j \in Sources \ {i} : task'[j] = task[j]
      /\ interrupted' = interrupted /\ task[i].at # "done" /\ DOMAIN task' = Sources
  BY TaskMoves
<1>3. (Pages' <=> Pages) /\ (Parallel' <=> Parallel) /\ Sources = 1 .. Len(opts.sources)
      /\ Len(opts.sources) \in Nat
  BY <1>1, ShapeStays, SourcesAre DEF TypeInv
<1>4. \A j \in Sources \ {i} : LinesRead(j)' = LinesRead(j)
  BY <1>2, LinesReadStays
<1>5. TakeLine(i) => task[i].at = "reading"
  BY DEF TakeLine
<1>6. ReadAsGiven'
  <2>1. ASSUME ~opts.follow, NEW j \in Sources PROVE ReadUpTo(Text(j)', task'[j])
    <3>1. ReadUpTo(Text(j), task'[j])
      BY <1>2, <2>1, ReadKeptAsGiven DEF ReadInv, ReadAsGiven
    <3> QED
      BY <1>1, <2>1, <3>1
  <2> QED
    BY <1>1, <2>1 DEF ReadAsGiven, ReadUpTo
<1>7. ReadUnlessSkipped'
  <2>1. ASSUME NEW j \in Sources, Skipped(j)
        PROVE  task'[j].at \in {"waiting", "done"} /\ task'[j].lines = << >>
    <3>1. task[j].at \in {"waiting", "done"} /\ task[j].lines = << >>
      BY <2>1 DEF ReadInv, ReadUnlessSkipped
    <3>2. CASE j = i
      <4>1. task'[i].lines = task[i].lines
        BY <1>5, <3>1, <3>2, LinesMove
      <4>2. OpenSource(i)
        <5>1. ~Unresolved(i) /\ call[i].at = "idle"
          BY <3>1, <3>2 DEF TypeInv, Tasks, Unresolved
        <5>2. ~CacheStep(i)
          BY <5>1 DEF CacheStep, LookCombo, Look, LookSession, InsertSession, Insert, StoreCombo
        <5> QED
          BY <3>1, <3>2, <5>1, <5>2 DEF TaskStep, TakeLine, AskDictionary, FindDictionary,
             TakeDictionary, FinishLine, LiveCounts, EndSource
      <4>3. task'[i].at = "done"
        <5>1. DOMAIN task = Sources /\ task[i] \in [at : Places, pos : 0 .. arrived[i],
                  lines : Seq(Seq(Pieces)), dicts : Seq(ToSet(task[i].dicts)), result : Results]
          BY DEF TypeInv, Tasks, TaskOK
        <5>2. task' = [task EXCEPT ![i].at = "done", ![i].result = "unopened"]
              \/ task' = [task EXCEPT ![i].at = "done", ![i].result = "unreadable"]
          BY <2>1, <3>2, <4>2 DEF OpenSource, Finished, Skipped
        <5> QED
          BY <5>1, <5>2
      <4> QED
        BY <3>1, <3>2, <4>1, <4>3
    <3>3. CASE j # i
      BY <1>2, <3>1, <3>3
    <3> QED
      BY <3>2, <3>3
  <2> QED
    BY <1>1, <2>1 DEF ReadUnlessSkipped
<1>8. ReadToTheEnd'
  <2>1. ASSUME ~interrupted, NEW j \in Sources, task'[j].at = "done"
        PROVE  task'[j].lines = LinesRead(j)'
    <3>1. CASE j # i
      BY <1>2, <1>4, <2>1, <3>1 DEF ReadInv, ReadToTheEnd
    <3>2. CASE j = i /\ ~opts.follow
      <4>1. LinesRead(i)' = LinesRead(i)
        BY <3>2, LinesReadStays
      <4> QED
        BY <2>1, <3>2, <4>1, ReadKeptToTheEnd
    <3>3. CASE j = i /\ opts.follow
      <4>1. LinesRead(i)' = IF Skipped(i)' THEN << >> ELSE task'[i].lines
        BY <1>1, <3>3 DEF LinesRead, Skipped
      <4>2. Skipped(i)' => task'[i].lines = << >>
        BY <1>1, <1>7 DEF ReadUnlessSkipped
      <4> QED
        BY <3>3, <4>1, <4>2
    <3> QED
      BY <3>1, <3>2, <3>3
  <2> QED
    BY <1>1, <1>2, <2>1 DEF ReadToTheEnd
<1>9. ReadInOrder'
  <2>1. ASSUME ~Pages, ~Parallel, NEW k \in Sources, task'[k].lines # << >>, NEW j \in 1 .. k - 1
        PROVE  task'[j].lines = LinesRead(j)'
    <3>1. j \in Sources /\ j < k
      BY <1>3
    <3>2. CASE j = i
      <4>1. task'[k] = task[k] /\ task[k].lines # << >>
        BY <1>2, <2>1, <3>1, <3>2
      <4>2. task[k].at # "waiting"
        BY <4>1 DEF TypeInv, Tasks, TaskOK, NewTask
      <4> QED
        BY <1>2, <2>1, <3>1, <3>2, <4>2 DEF InOrder
    <3>3. CASE j # i /\ task[k].lines # << >>
      <4>1. task[j].lines = LinesRead(j)
        BY <2>1, <3>3 DEF ReadInv, ReadInOrder
      <4> QED
        BY <1>2, <1>4, <3>1, <3>3, <4>1
    <3>4. CASE j # i /\ task[k].lines = << >>
      <4>1. k = i /\ TakeLine(i)
        BY <1>2, <2>1, <3>4, LinesMove
      <4>2. task[i].at = "reading" /\ ~interrupted
        BY <4>1 DEF TakeLine
      <4>3. task[j].at = "done"
        BY <2>1, <3>1, <4>1, <4>2 DEF InOrder
      <4>4. task[j].lines = LinesRead(j)
        BY <3>1, <4>2, <4>3 DEF ReadInv, ReadToTheEnd
      <4> QED
        BY <1>2, <1>4, <3>1, <3>4, <4>4
    <3> QED
      BY <3>2, <3>3, <3>4
  <2> QED
    BY <1>1, <1>3, <2>1 DEF ReadInOrder
<1> QED
  BY <1>6, <1>7, <1>8, <1>9 DEF ReadInv

LEMMA ReadKept ==
  ASSUME TypeInv, TypeInv', ReadInv, InOrder, [Next]_vars
  PROVE  ReadInv'
<1>1. CASE \E i \in Sources : TaskStep(i)
  BY <1>1, ReadKeptByTask
<1>2. CASE ~ \E i \in Sources : TaskStep(i)
  <2>1. task' = task
    <3>1. CASE EmitFile
      BY <3>1 DEF EmitFile
    <3> QED
      BY <1>2, <3>1, QuietSteps
  <2> QED
    BY <2>1, ReadKeptQuiet
<1> QED
  BY <1>1, <1>2

-----------------------------------------------------------------------------
LEMMA OfLinesIs ==
  ASSUME NEW S, NEW s \in Seq(S)
  PROVE  /\ [k \in 1 .. Len(s) |-> Kept(s[k])] \in Seq(Seq(S))
         /\ OfLines(s) = FlattenSeq([k \in 1 .. Len(s) |-> Kept(s[k])])
         /\ OfLines(s) \in Seq(S)
<1> DEFINE kept == [k \in 1 .. Len(s) |-> Kept(s[k])]
<1>1. Len(s) \in Nat /\ DOMAIN s = 1 .. Len(s) /\ \A k \in 1 .. Len(s) : s[k] \in S
  OBVIOUS
<1>2. \A k \in 1 .. Len(s) : Kept(s[k]) \in Seq(S)
  <2>1. << >> \in Seq(S) /\ \A b \in S : <<b>> \in Seq(S)
    OBVIOUS
  <2> QED
    BY <1>1, <2>1 DEF Kept
<1>3. kept \in Seq(Seq(S))
  BY <1>1, <1>2
<1>4. [k \in DOMAIN s |-> IF s[k].kind \in {"source", "line", "answer"} THEN <<s[k]>> ELSE << >>]
        = kept
  BY <1>1 DEF Kept, OfSources
<1>5. Tuple(kept) = kept
  BY <1>3, TupleIs
<1>6. OfLines(s) = FlattenSeq(kept)
  BY <1>4, <1>5 DEF OfLines
<1> HIDE DEF kept
<1>7. FlattenSeq(kept) \in Seq(S)
  BY <1>3, FlattenTyped
<1> QED
  BY <1>3, <1>6, <1>7 DEF kept

LEMMA OfLinesTogether ==
  ASSUME NEW S, NEW a \in Seq(S), NEW b \in Seq(S)
  PROVE  OfLines(a \o b) = OfLines(a) \o OfLines(b)
<1>1. PICK ab : ab = a \o b
  OBVIOUS
<1>2. /\ ab \in Seq(S) /\ Len(ab) = Len(a) + Len(b) /\ Len(a) \in Nat /\ Len(b) \in Nat
      /\ \A k \in 1 .. Len(a) : ab[k] = a[k]
      /\ \A k \in 1 .. Len(b) : ab[Len(a) + k] = b[k]
  <2>1. /\ a \o b \in Seq(S) /\ Len(a \o b) = Len(a) + Len(b)
        /\ \A k \in 1 .. Len(a) : (a \o b)[k] = a[k]
        /\ \A k \in 1 .. Len(b) : (a \o b)[Len(a) + k] = b[k]
    OBVIOUS
  <2> QED
    BY <1>1, <2>1
<1>3. PICK ka \in Seq(Seq(S)) : ka = [k \in 1 .. Len(a) |-> Kept(a[k])] /\ OfLines(a) = FlattenSeq(ka)
  BY OfLinesIs
<1>4. PICK kb \in Seq(Seq(S)) : kb = [k \in 1 .. Len(b) |-> Kept(b[k])] /\ OfLines(b) = FlattenSeq(kb)
  BY OfLinesIs
<1>5. PICK kab \in Seq(Seq(S)) :
          kab = [k \in 1 .. Len(ab) |-> Kept(ab[k])] /\ OfLines(ab) = FlattenSeq(kab)
  BY <1>2, OfLinesIs
<1>6. Len(ka) = Len(a) /\ Len(kb) = Len(b) /\ Len(kab) = Len(a) + Len(b)
  BY <1>2, <1>3, <1>4, <1>5
<1>7. kab = ka \o kb
  <2>1. \A k \in 1 .. Len(ka) : kab[k] = ka[k]
    BY <1>2, <1>3, <1>5, <1>6
  <2>2. \A k \in 1 .. Len(kb) : kab[Len(ka) + k] = kb[k]
    BY <1>2, <1>4, <1>5, <1>6
  <2>3. Len(kab) = Len(ka) + Len(kb)
    BY <1>6
  <2> QED
    BY <2>1, <2>2, <2>3, ConcatIs, Zenon
<1>8. FlattenSeq(kab) = FlattenSeq(ka) \o FlattenSeq(kb)
  BY <1>7, FlattenConcat
<1> QED
  BY <1>1, <1>3, <1>4, <1>5, <1>8

LEMMA OfLinesAll ==
  ASSUME NEW S, NEW s \in Seq(S)
  PROVE  /\ (\A k \in 1 .. Len(s) : OfSources(s[k])) => OfLines(s) = s
         /\ (\A k \in 1 .. Len(s) : ~OfSources(s[k])) => OfLines(s) = << >>
<1> DEFINE C == {x \in Seq(S) : (\A k \in 1 .. Len(x) : OfSources(x[k])) => OfLines(x) = x}
<1>1. OfLines(<< >>) = << >>
  <2>0. << >> \in Seq(S)
    OBVIOUS
  <2>1. PICK none \in Seq(S) : none = << >>
    BY <2>0
  <2>2. Len(none) = 0 /\ 1 .. 0 = {}
    BY <2>1
  <2>3. [k \in 1 .. Len(none) |-> Kept(none[k])] = << >>
    BY <2>2
  <2>4. OfLines(none) = FlattenSeq([k \in 1 .. Len(none) |-> Kept(none[k])])
    BY OfLinesIs
  <2> QED
    BY <2>1, <2>3, <2>4, FlattenNone
<1>2. << >> \in C
  BY <1>1
<1>3. ASSUME NEW x \in Seq(S), NEW e \in S, x \in C PROVE Append(x, e) \in C
  <2>0. Append(x, e) \in Seq(S)
    BY AppendProperties
  <2>1. PICK y \in Seq(S) : y = Append(x, e)
    BY <2>0
  <2>2. /\ Len(y) = Len(x) + 1 /\ y[Len(x) + 1] = e /\ \A k \in 1 .. Len(x) : y[k] = x[k]
        /\ Len(x) \in Nat
    BY <2>1
  <2>3. ASSUME \A k \in 1 .. Len(y) : OfSources(y[k]) PROVE OfLines(y) = y
    <3>1. \A k \in 1 .. Len(x) : OfSources(x[k])
      BY <2>2, <2>3
    <3>2. OfSources(e)
      <4>1. Len(x) + 1 \in 1 .. Len(y)
        BY <2>2
      <4> QED
        BY <2>2, <2>3, <4>1
    <3>3. OfLines(x) = x
      BY <1>3, <3>1
    <3>4. <<e>> \in Seq(S) /\ Len(<<e>>) = 1 /\ <<e>>[1] = e
      OBVIOUS
    <3>5. OfLines(<<e>>) = <<e>>
      <4>1. [k \in 1 .. Len(<<e>>) |-> Kept(<<e>>[k])] = <<Kept(<<e>>[1])>>
        BY <3>4
      <4>2. Kept(<<e>>[1]) = <<e>>
        BY <3>2, <3>4 DEF Kept
      <4>3. FlattenSeq(<<Kept(<<e>>[1])>>) = <<e>>
        BY <3>4, <4>2, FlattenOne
      <4> QED
        BY <3>4, <4>1, <4>3, OfLinesIs
    <3>6. y = x \o <<e>>
      BY <2>1, AppendIsConcat
    <3>7. OfLines(x \o <<e>>) = OfLines(x) \o OfLines(<<e>>)
      BY <3>4, OfLinesTogether
    <3> QED
      BY <3>3, <3>5, <3>6, <3>7, Zenon
  <2> QED
    BY <2>1, <2>3
<1>4. \A x \in Seq(S) : x \in C
  <2> HIDE DEF C
  <2> QED
    BY <1>2, <1>3, SeqInduction
<1>5. ASSUME \A k \in 1 .. Len(s) : ~OfSources(s[k]) PROVE OfLines(s) = << >>
  <2>1. [k \in 1 .. Len(s) |-> Kept(s[k])] \in Seq({<< >>})
    <3>1. Len(s) \in Nat /\ \A k \in 1 .. Len(s) : Kept(s[k]) = << >>
      BY <1>5 DEF Kept
    <3> QED
      BY <3>1
  <2> QED
    BY <2>1, OfLinesIs, FlattenEmpties
<1> QED
  BY <1>4, <1>5

LEMMA BitsAreOfSources == \A b \in Bits : OfSources(b)
BY DEF Bits, SourceBlocks, LineBlocks, OfSources

LEMMA MessagesOfIs ==
  ASSUME NEW lines \in Seq(Seq(Pieces))
  PROVE  /\ MessagesOf(lines) = FlattenSeq([n \in 1 .. Len(lines) |-> MessagesIn(lines[n])])
         /\ MessagesOf(lines) \in Seq(Msgs)
<1>1. Len(lines) \in Nat /\ DOMAIN lines = 1 .. Len(lines)
  OBVIOUS
<1>2. /\ [k \in 1 .. Len(lines) |-> MessagesIn(lines[k])] \in Seq(Seq(Msgs))
      /\ FlattenSeq([k \in 1 .. Len(lines) |-> MessagesIn(lines[k])]) \in Seq(Msgs)
  <2>1. Len(lines) \in 0 .. Len(lines)
    BY <1>1
  <2> QED
    BY <2>1, ToldIs
<1>3. Tuple([n \in DOMAIN lines |-> MessagesIn(lines[n])])
        = [n \in 1 .. Len(lines) |-> MessagesIn(lines[n])]
  BY <1>1, <1>2, TupleIs
<1> QED
  BY <1>2, <1>3 DEF MessagesOf

LEMMA NamedIs ==
  ASSUME NEW before \in Seq(Msgs), NEW msgs \in Seq(Msgs)
  PROVE  /\ Named(before, msgs) \in Seq(Showns)
         /\ Named(before, msgs) =
                [k \in DOMAIN msgs |->
                    [msg |-> msgs[k], with |-> NameAfter(before \o SubSeq(msgs, 1, k - 1), msgs[k])]]
<1> DEFINE n(k) == NameAfter(before \o SubSeq(msgs, 1, k - 1), msgs[k])
           seq == [k \in DOMAIN msgs |-> [msg |-> msgs[k], with |-> n(k)]]
<1>1. Len(msgs) \in Nat /\ DOMAIN msgs = 1 .. Len(msgs)
  OBVIOUS
<1>2. ASSUME NEW k \in 1 .. Len(msgs) PROVE msgs[k] \in Msgs /\ n(k) \in NamesGiven
  <2>1. SubSeq(msgs, 1, k - 1) \in Seq(Msgs) /\ msgs[k] \in Msgs
    BY <1>1
  <2>2. before \o SubSeq(msgs, 1, k - 1) \in Seq(Msgs)
    BY <2>1, ConcatProperties
  <2>3. \A b \in Seq(Msgs), m \in Msgs : NameAfter(b, m) \in NamesGiven
    BY DEF NamesGiven
  <2> QED
    BY <2>1, <2>2, <2>3
<1> HIDE DEF n
<1>3. \A k \in 1 .. Len(msgs) : [msg |-> msgs[k], with |-> n(k)] \in Showns
  BY <1>2 DEF Showns
<1>4. seq \in Seq(Showns)
  BY <1>1, <1>3
<1>5. Tuple(seq) = seq
  BY <1>4, TupleIs
<1> USE DEF n
<1>6. Named(before, msgs) = Tuple(seq)
  BY DEF Named
<1> QED
  BY <1>4, <1>5, <1>6

LEMMA BlocksOfTyped ==
  ASSUME NEW i \in Sources, NEW text \in Seq(Pieces), NEW shown \in Seq(Showns)
  PROVE  BlocksOf(i, text, shown) \in Seq(Bits)
<1>1. ASSUME NEW some \in Seq(Showns) PROVE LineBlock(i, text, some) \in Seq(Bits)
  BY DEF LineBlock, Bits, LineBlocks
<1>2. << >> \in Seq(Bits)
  OBVIOUS
<1>3. PICK clean : clean = [k \in DOMAIN shown |->
                              IF shown[k].msg.clean THEN << >> ELSE <<shown[k]>>]
  OBVIOUS
<1>4. clean \in Seq(Seq(Showns))
  <2>1. DOMAIN shown = 1 .. Len(shown) /\ Len(shown) \in Nat
        /\ \A k \in 1 .. Len(shown) : shown[k] \in Showns
    OBVIOUS
  <2>2. << >> \in Seq(Showns) /\ \A s \in Showns : <<s>> \in Seq(Showns)
    OBVIOUS
  <2>3. \A k \in 1 .. Len(shown) : clean[k] \in Seq(Showns)
    BY <1>3, <2>1, <2>2
  <2> QED
    BY <1>3, <2>1, <2>3
<1>5. FlattenSeq(Tuple(clean)) \in Seq(Showns)
  BY <1>4, TupleIs, FlattenTyped
<1> QED
  BY <1>1, <1>2, <1>3, <1>5 DEF BlocksOf

LEMMA LineShownTyped ==
  ASSUME NEW i \in Sources, NEW before \in Seq(Msgs), NEW line \in Seq(Pieces)
  PROVE  LineShown(i, before, line) \in Seq(Bits)
BY MessagesTyped, NamedIs, BlocksOfTyped DEF LineShown

LEMMA DecodedIs ==
  ASSUME NEW i \in Sources, NEW before \in Seq(Msgs), NEW lines \in Seq(Seq(Pieces))
  PROVE  /\ MessagesShown(i, before, lines) \in Seq(Seq(Bits))
         /\ Len(MessagesShown(i, before, lines)) = Len(lines)
         /\ Announcement(i) \in Seq(Bits)
         /\ Decoded(i, before, lines) =
                Announcement(i) \o FlattenSeq(MessagesShown(i, before, lines))
         /\ FlattenSeq(MessagesShown(i, before, lines)) \in Seq(Bits)
         /\ Decoded(i, before, lines) \in Seq(Bits)
<1>1. Len(lines) \in Nat /\ DOMAIN lines = 1 .. Len(lines)
  OBVIOUS
<1>2. ASSUME NEW n \in 1 .. Len(lines)
      PROVE  LineShown(i, before \o MessagesOf(SubSeq(lines, 1, n - 1)), lines[n]) \in Seq(Bits)
  <2>1. SubSeq(lines, 1, n - 1) \in Seq(Seq(Pieces)) /\ lines[n] \in Seq(Pieces)
    BY <1>1
  <2>2. MessagesOf(SubSeq(lines, 1, n - 1)) \in Seq(Msgs)
    BY <2>1, MessagesOfIs
  <2>3. before \o MessagesOf(SubSeq(lines, 1, n - 1)) \in Seq(Msgs)
    BY <2>2, ConcatProperties
  <2> QED
    BY <2>1, <2>3, LineShownTyped
<1>3. MessagesShown(i, before, lines) \in Seq(Seq(Bits)) /\ Len(MessagesShown(i, before, lines)) = Len(lines)
  BY <1>1, <1>2 DEF MessagesShown
<1>4. Announcement(i) \in Seq(Bits)
  BY DEF Announcement, Bits, SourceBlocks
<1>5. FlattenSeq(MessagesShown(i, before, lines)) \in Seq(Bits)
  BY <1>3, FlattenTyped
<1>6. Tuple(MessagesShown(i, before, lines)) = MessagesShown(i, before, lines)
  BY <1>3, TupleIs
<1>7. Decoded(i, before, lines) = Announcement(i) \o FlattenSeq(MessagesShown(i, before, lines))
  <2>1. [n \in DOMAIN lines |->
            LineShown(i, before \o MessagesOf(SubSeq(lines, 1, n - 1)), lines[n])]
          = MessagesShown(i, before, lines)
    BY <1>1 DEF MessagesShown
  <2> QED
    BY <1>6, <2>1 DEF Decoded
<1>8. Decoded(i, before, lines) \in Seq(Bits)
  BY <1>4, <1>5, <1>7, ConcatProperties
<1> QED
  BY <1>3, <1>4, <1>5, <1>7, <1>8

LEMMA DecodedNone ==
  ASSUME NEW i \in Sources, NEW before \in Seq(Msgs)
  PROVE  Decoded(i, before, << >>) = Announcement(i)
<1>0. << >> \in Seq(Seq(Pieces))
  OBVIOUS
<1>1. PICK none \in Seq(Seq(Pieces)) : none = << >>
  BY <1>0
<1>2. MessagesShown(i, before, none) = << >>
  <2>1. MessagesShown(i, before, none) \in Seq(Seq(Bits))
        /\ Len(MessagesShown(i, before, none)) = Len(none) /\ Len(none) = 0
    BY <1>1, DecodedIs
  <2> QED
    BY <2>1
<1>3. Decoded(i, before, none) = Announcement(i) \o << >> /\ Announcement(i) \in Seq(Bits)
  BY <1>2, DecodedIs, FlattenNone
<1> QED
  BY <1>1, <1>3, ConcatEmptySeq

LEMMA BitsTogether == \A a, f, x \in Seq(Bits) : a \o (f \o x) = (a \o f) \o x
BY ConcatThree

(* What is shown of more lines begins with what is shown of some.          *)
LEMMA DecodedMore ==
  ASSUME NEW i \in Sources, NEW before \in Seq(Msgs), NEW lines \in Seq(Seq(Pieces)),
         NEW rest \in Seq(Seq(Pieces))
  PROVE  \E x \in Seq(Bits) : Decoded(i, before, lines \o rest) = Decoded(i, before, lines) \o x
<1>1. PICK all : all = lines \o rest
  OBVIOUS
<1>2. /\ all \in Seq(Seq(Pieces)) /\ Len(all) = Len(lines) + Len(rest)
      /\ Len(lines) \in Nat /\ Len(rest) \in Nat /\ Len(lines) \in 0 .. Len(all)
      /\ \A k \in 1 .. Len(lines) : all[k] = lines[k]
  <2>1. /\ lines \o rest \in Seq(Seq(Pieces)) /\ Len(lines \o rest) = Len(lines) + Len(rest)
        /\ \A k \in 1 .. Len(lines) : (lines \o rest)[k] = lines[k]
        /\ Len(lines) \in Nat /\ Len(rest) \in Nat
    OBVIOUS
  <2> QED
    BY <1>1, <2>1
<1>3. PICK g \in Seq(Seq(Bits)) : g = MessagesShown(i, before, lines)
  BY DecodedIs
<1>4. PICK h \in Seq(Seq(Bits)) : h = MessagesShown(i, before, all)
  BY <1>2, DecodedIs
<1>5. Len(g) = Len(lines) /\ Len(h) = Len(all)
  BY <1>2, <1>3, <1>4, DecodedIs
<1>6. \A n \in 1 .. Len(lines) : h[n] = g[n]
  <2>1. ASSUME NEW n \in 1 .. Len(lines) PROVE h[n] = g[n]
    <3>1. SubSeq(all, 1, n - 1) = SubSeq(lines, 1, n - 1)
      BY <1>2
    <3>2. all[n] = lines[n] /\ n \in 1 .. Len(all)
      BY <1>2
    <3>3. g[n] = LineShown(i, before \o MessagesOf(SubSeq(lines, 1, n - 1)), lines[n])
      BY <1>3 DEF MessagesShown
    <3>4. h[n] = LineShown(i, before \o MessagesOf(SubSeq(all, 1, n - 1)), all[n])
      BY <1>4, <3>2 DEF MessagesShown
    <3> QED
      BY <3>1, <3>2, <3>3, <3>4
  <2> QED
    BY <2>1
<1>7. PICK r \in Seq(Seq(Bits)) : h = g \o r
  <2>1. Len(g) <= Len(h) /\ \A k \in 1 .. Len(g) : h[k] = g[k]
    BY <1>2, <1>5, <1>6
  <2> QED
    BY <2>1, BeginsWith, Zenon
<1>8. PICK a \in Seq(Bits), f \in Seq(Bits), x \in Seq(Bits) :
          a = Announcement(i) /\ f = FlattenSeq(g) /\ x = FlattenSeq(r)
  BY DecodedIs, FlattenTyped
<1>10. FlattenSeq(h) = f \o x
  BY <1>7, <1>8, FlattenConcat
<1>11. Decoded(i, before, lines) = a \o f
  BY <1>3, <1>8, DecodedIs
<1>12. Decoded(i, before, all) = a \o (f \o x)
  BY <1>2, <1>4, <1>8, <1>10, DecodedIs
<1>13. a \o (f \o x) = (a \o f) \o x
  BY BitsTogether, Zenon
<1> QED
  BY <1>1, <1>8, <1>11, <1>12, <1>13

LEMMA DecodedAppend ==
  ASSUME NEW i \in Sources, NEW before \in Seq(Msgs), NEW lines \in Seq(Seq(Pieces)),
         NEW line \in Seq(Pieces)
  PROVE  Decoded(i, before, Append(lines, line)) =
             Decoded(i, before, lines) \o LineShown(i, before \o MessagesOf(lines), line)
<1>1. PICK all \in Seq(Seq(Pieces)) : all = Append(lines, line)
  <2>1. Append(lines, line) \in Seq(Seq(Pieces))
    BY AppendProperties
  <2> QED
    BY <2>1
<1>2. /\ Len(all) = Len(lines) + 1 /\ Len(lines) \in Nat /\ all[Len(lines) + 1] = line
      /\ \A k \in 1 .. Len(lines) : all[k] = lines[k]
  BY <1>1
<1>3. PICK g \in Seq(Seq(Bits)) : g = MessagesShown(i, before, lines)
  BY DecodedIs
<1>4. PICK h \in Seq(Seq(Bits)) : h = MessagesShown(i, before, all)
  BY DecodedIs
<1>5. Len(g) = Len(lines) /\ Len(h) = Len(lines) + 1
  BY <1>2, <1>3, <1>4, DecodedIs
<1>6. PICK e \in Seq(Bits) : e = LineShown(i, before \o MessagesOf(lines), line)
  <2>1. before \o MessagesOf(lines) \in Seq(Msgs)
    BY MessagesOfIs, ConcatProperties
  <2> QED
    BY <2>1, LineShownTyped
<1>7. \A n \in 1 .. Len(lines) : h[n] = g[n]
  <2>1. ASSUME NEW n \in 1 .. Len(lines) PROVE h[n] = g[n]
    <3>1. SubSeq(all, 1, n - 1) = SubSeq(lines, 1, n - 1)
      BY <1>2
    <3>2. all[n] = lines[n] /\ n \in 1 .. Len(all)
      BY <1>2, SMTT(30)
    <3>3. g[n] = LineShown(i, before \o MessagesOf(SubSeq(lines, 1, n - 1)), lines[n])
      BY <1>3 DEF MessagesShown
    <3>4. h[n] = LineShown(i, before \o MessagesOf(SubSeq(all, 1, n - 1)), all[n])
      BY <1>4, <3>2 DEF MessagesShown
    <3> QED
      BY <3>1, <3>2, <3>3, <3>4
  <2> QED
    BY <2>1
<1>8. h[Len(lines) + 1] = e
  <2>1. SubSeq(all, 1, Len(lines)) = lines
    BY <1>2
  <2>2. PICK n \in 1 .. Len(all) : n = Len(lines) + 1 /\ n - 1 = Len(lines)
    BY <1>2
  <2>3. h[n] = LineShown(i, before \o MessagesOf(SubSeq(all, 1, n - 1)), all[n])
    BY <1>4 DEF MessagesShown
  <2>4. SubSeq(all, 1, n - 1) = lines /\ all[n] = line
    BY <1>2, <2>1, <2>2
  <2> QED
    BY <1>6, <2>2, <2>3, <2>4
<1>9. h = Append(g, e)
  BY <1>2, <1>5, <1>7, <1>8, AppendIs
<1>10. PICK a \in Seq(Bits), f \in Seq(Bits) : a = Announcement(i) /\ f = FlattenSeq(g)
  BY DecodedIs, FlattenTyped
<1>12. FlattenSeq(h) = f \o e
  BY <1>9, <1>10, FlattenAppend
<1>13. Decoded(i, before, lines) = a \o f
  BY <1>3, <1>10, DecodedIs
<1>14. Decoded(i, before, all) = a \o (f \o e)
  BY <1>4, <1>10, <1>12, DecodedIs
<1>15. a \o (f \o e) = (a \o f) \o e
  BY BitsTogether, Zenon
<1> QED
  BY <1>1, <1>6, <1>13, <1>14, <1>15

(* What is shown of some lines does not change with the program's state.   *)
LEMMA NamedStays ==
  ASSUME UNCHANGED opts, NEW CONSTANT b, NEW CONSTANT msgs
  PROVE  Named(b, msgs)' = Named(b, msgs)
<1>1. \A c, m : NameAfter(c, m)' = NameAfter(c, m)
  BY NameAfterStays
<1>2. [k \in DOMAIN msgs |-> [msg |-> msgs[k],
                              with |-> NameAfter(b \o SubSeq(msgs, 1, k - 1), msgs[k])']]
        = [k \in DOMAIN msgs |-> [msg |-> msgs[k],
                                  with |-> NameAfter(b \o SubSeq(msgs, 1, k - 1), msgs[k])]]
  BY <1>1
<1> QED
  BY <1>2 DEF Named, Tuple

LEMMA LineShownStays ==
  ASSUME UNCHANGED opts, NEW CONSTANT i, NEW CONSTANT b, NEW CONSTANT line
  PROVE  LineShown(i, b, line)' = LineShown(i, b, line)
<1>1. PICK msgs : msgs = MessagesIn(line)
  OBVIOUS
<1>2. PICK named : named = Named(b, msgs)
  OBVIOUS
<1>3. Named(b, msgs)' = named
  BY <1>2, NamedStays
<1>4. BlocksOf(i, line, named)' = BlocksOf(i, line, named)
  BY DEF BlocksOf
<1> QED
  BY <1>1, <1>2, <1>3, <1>4 DEF LineShown

LEMMA DecodedStays ==
  ASSUME UNCHANGED opts, NEW CONSTANT i, NEW CONSTANT b, NEW CONSTANT lines
  PROVE  Decoded(i, b, lines)' = Decoded(i, b, lines)
<1>1. \A c, line : LineShown(i, c, line)' = LineShown(i, c, line)
  BY LineShownStays
<1>2. [n \in DOMAIN lines |->
          LineShown(i, b \o MessagesOf(SubSeq(lines, 1, n - 1)), lines[n])']
        = [n \in DOMAIN lines |->
              LineShown(i, b \o MessagesOf(SubSeq(lines, 1, n - 1)), lines[n])]
  BY <1>1
<1> QED
  BY <1>2 DEF Decoded, Tuple

-----------------------------------------------------------------------------
LEMMA ShownOfStays ==
  ASSUME UNCHANGED opts, NEW CONSTANT i, NEW CONSTANT t, NEW CONSTANT b
  PROVE  ShownOf(i, t, b)' = ShownOf(i, t, b)
<1>1. PICK lines : lines = DoneLines(t)
  OBVIOUS
<1>2. Decoded(i, b, lines)' = Decoded(i, b, lines)
  BY DecodedStays
<1> QED
  BY <1>1, <1>2 DEF ShownOf

LEMMA DoneLinesTyped ==
  ASSUME NEW t, NEW most, TaskOK(t, most)
  PROVE  /\ DoneLines(t) \in Seq(Seq(Pieces))
         /\ Told(t) = MessagesOf(DoneLines(t))
         /\ t.at # "resolving" => DoneLines(t) = t.lines
<1>1. t.lines \in Seq(Seq(Pieces)) /\ LinesDone(t) \in 0 .. Len(t.lines)
  BY ToldTyped DEF TaskOK
<1>0. PICK lines \in Seq(Seq(Pieces)) : lines = t.lines
  BY <1>1
<1>2. PICK n \in 0 .. Len(lines) : n = LinesDone(t)
  BY <1>0, <1>1
<1>3. PICK done : done = SubSeq(lines, 1, n)
  OBVIOUS
<1>4. done \in Seq(Seq(Pieces)) /\ Len(done) = n /\ \A k \in 1 .. n : done[k] = lines[k]
  BY <1>3
<1>5. [k \in 1 .. Len(done) |-> MessagesIn(done[k])] = [k \in 1 .. n |-> MessagesIn(lines[k])]
  BY <1>4
<1>6. MessagesOf(done) = FlattenSeq([k \in 1 .. Len(done) |-> MessagesIn(done[k])])
  BY <1>4, MessagesOfIs
<1>7. Told(t) = FlattenSeq([k \in 1 .. n |-> MessagesIn(lines[k])])
  BY <1>0, <1>2 DEF Told
<1>8. n = Len(lines) => done = lines
  BY <1>3
<1> QED
  BY <1>0, <1>2, <1>3, <1>4, <1>5, <1>6, <1>7, <1>8 DEF DoneLines, LinesDone

LEMMA ShownTyped ==
  ASSUME TypeInv, NEW i \in Sources
  PROVE  Shown(i) \in Seq(Bits)
<1>1. DoneLines(task[i]) \in Seq(Seq(Pieces))
  BY DoneLinesTyped DEF TypeInv, Tasks
<1>2. Before(i) \in Seq(Msgs)
  BY BeforeTyped
<1>3. << >> \in Seq(Bits)
  OBVIOUS
<1> QED
  BY <1>1, <1>2, <1>3, DecodedIs DEF Shown, ShownOf

(* A source that is opened is announced.                                   *)
LEMMA OpenShows ==
  ASSUME TypeInv, NEW i \in Sources, OpenSource(i), NEW before \in Seq(Msgs)
  PROVE  /\ ShownOf(i, task[i], before) = << >>
         /\ ShownOf(i, task'[i], before) =
                IF opts.sources[i].kind = "missing" THEN << >> ELSE Announcement(i)
         /\ task'[i].result # "none" => task'[i].result \in {"unopened", "unreadable"}
         /\ opts.sources[i].kind = "missing" => task'[i].result = "unopened"
<1>1. /\ DOMAIN task = Sources /\ task[i] = NewTask
  BY DEF TypeInv, Tasks, TaskOK, OpenSource
<1>2. \/ /\ opts.sources[i].kind = "missing"
         /\ task' = [task EXCEPT ![i].at = "done", ![i].result = "unopened"]
      \/ /\ opts.sources[i].kind # "missing"
         /\ \/ task' = [task EXCEPT ![i].at = "done", ![i].result = "unreadable"]
            \/ task' = [task EXCEPT ![i].at = "reading"]
  BY DEF OpenSource, Finished
<1>3. task'[i].lines = << >> /\ task'[i].at \in {"reading", "done"}
      /\ IF opts.sources[i].kind = "missing" THEN task'[i].result = "unopened"
                                             ELSE task'[i].result \in {"none", "unreadable"}
  BY <1>1, <1>2 DEF NewTask
<1>4. DoneLines(task'[i]) = << >>
  <2>1. LinesDone(task'[i]) = 0
    BY <1>3 DEF LinesDone
  <2> QED
    BY <1>3, <2>1 DEF DoneLines
<1>5. Decoded(i, before, << >>) = Announcement(i)
  BY DecodedNone
<1>6. ShownOf(i, task[i], before) = << >>
  BY <1>1 DEF ShownOf, NewTask
<1> QED
  BY <1>3, <1>4, <1>5, <1>6 DEF ShownOf

(* A line that is finished is shown as it should be.                       *)
LEMMA FinishShows ==
  ASSUME TypeInv, WordsInv, NEW i \in Sources, FinishLine(i),
         NEW msgs, msgs = MessagesIn(CurrentLine(i)),
         NEW shown, shown = [k \in DOMAIN msgs |-> [msg |-> msgs[k], with |-> Name(task[i].dicts[k])]]
  PROVE  /\ ShownOf(i, task'[i], Before(i)) =
                ShownOf(i, task[i], Before(i)) \o BlocksOf(i, CurrentLine(i), shown)
         /\ BlocksOf(i, CurrentLine(i), shown) \in Seq(Bits)
<1>1. PICK t : t = task[i]
  OBVIOUS
<1>2. PICK u : u = task'[i]
  OBVIOUS
<1>3. /\ t \in [at : Places, pos : 0 .. arrived[i], lines : Seq(Seq(Pieces)),
                dicts : Seq(ToSet(t.dicts)), result : Results]
      /\ DOMAIN task = Sources /\ TaskOK(t, arrived[i])
      /\ t.at = "resolving" /\ Len(t.dicts) = Len(msgs) /\ t.lines # << >>
  BY <1>1 DEF TypeInv, Tasks, TaskOK, FinishLine
<1>4. u.at = "reading" /\ u.lines = t.lines /\ u.result = t.result
  BY <1>1, <1>2, <1>3 DEF FinishLine
<1>5. t.result # "unopened"
  BY <1>1, <1>3 DEF TaskOK
<1>6. PICK before \in Seq(Msgs) : before = Before(i)
  BY BeforeTyped
<1>7. PICK line \in Seq(Pieces) : line = CurrentLine(i)
  BY <1>1, <1>3, CurrentTyped
<1>8. PICK done \in Seq(Seq(Pieces)) : done = DoneLines(t)
  BY <1>3, DoneLinesTyped
<1>9. DoneLines(u) = Append(done, line)
  <2>1. LinesDone(u) = Len(t.lines) /\ LinesDone(t) = Len(t.lines) - 1 /\ Len(t.lines) \in Nat
        /\ Len(t.lines) # 0
    BY <1>3, <1>4 DEF LinesDone
  <2>2. SubSeq(t.lines, 1, Len(t.lines)) = Append(SubSeq(t.lines, 1, Len(t.lines) - 1), t.lines[Len(t.lines)])
    BY <1>3, WithoutLast
  <2>3. line = t.lines[Len(t.lines)]
    BY <1>1, <1>7 DEF CurrentLine, Last
  <2> QED
    BY <1>4, <1>8, <2>1, <2>2, <2>3 DEF DoneLines
<1>10. Told(t) = MessagesOf(done) /\ MessagesOf(done) \in Seq(Msgs)
  BY <1>3, <1>8, DoneLinesTyped, MessagesOfIs
<1>11. msgs \in Seq(Msgs)
  BY <1>7, MessagesTyped
<1>12. PICK all \in Seq(Msgs) : all = before \o MessagesOf(done)
  BY <1>10, ConcatProperties
<1>13. NamedUpTo(msgs, t.dicts, Len(msgs), all)
  BY <1>1, <1>3, <1>6, <1>7, <1>10, <1>12 DEF WordsInv, DictsInv, DictsOf, CurrentLine
<1>14. shown = Named(all, msgs) /\ shown \in Seq(Showns)
  <2>1. DOMAIN msgs = 1 .. Len(msgs)
    BY <1>11
  <2>2. \A k \in DOMAIN msgs : Name(t.dicts[k]) = NameAfter(all \o SubSeq(msgs, 1, k - 1), msgs[k])
    BY <1>13, <2>1 DEF NamedUpTo
  <2>3. shown = [k \in DOMAIN msgs |->
                    [msg |-> msgs[k], with |-> NameAfter(all \o SubSeq(msgs, 1, k - 1), msgs[k])]]
    BY <1>1, <2>2
  <2>4. /\ Named(all, msgs) \in Seq(Showns)
        /\ Named(all, msgs) =
               [k \in DOMAIN msgs |->
                   [msg |-> msgs[k], with |-> NameAfter(all \o SubSeq(msgs, 1, k - 1), msgs[k])]]
    BY <1>11, NamedIs
  <2> QED
    BY <2>3, <2>4, Zenon
<1>15. BlocksOf(i, line, shown) = LineShown(i, all, line)
  BY <1>7, <1>14 DEF LineShown
<1>16. Decoded(i, before, Append(done, line)) = Decoded(i, before, done) \o LineShown(i, all, line)
  BY <1>12, DecodedAppend
<1>17. BlocksOf(i, line, shown) \in Seq(Bits)
  BY <1>14, BlocksOfTyped
<1>18. ShownOf(i, t, before) = Decoded(i, before, done)
       /\ ShownOf(i, u, before) = Decoded(i, before, Append(done, line))
  BY <1>3, <1>4, <1>5, <1>8, <1>9 DEF ShownOf
<1> QED
  BY <1>1, <1>2, <1>6, <1>7, <1>15, <1>16, <1>17, <1>18

(* A step of a task that is neither opened nor finishes a line shows       *)
(* nothing of it.                                                          *)
LEMMA DoneSame ==
  ASSUME NEW t, NEW u, NEW S, t.lines \in Seq(S),
         \/ u.lines = t.lines /\ (u.at = "resolving" <=> t.at = "resolving")
         \/ /\ t.at # "resolving" /\ u.at = "resolving"
            /\ \E line \in S : u.lines = Append(t.lines, line)
  PROVE  DoneLines(u) = DoneLines(t)
<1>1. PICK lines \in Seq(S) : lines = t.lines
  OBVIOUS
<1>2. CASE u.lines = t.lines /\ (u.at = "resolving" <=> t.at = "resolving")
  BY <1>2 DEF DoneLines, LinesDone
<1>3. CASE t.at # "resolving" /\ u.at = "resolving"
           /\ \E line \in S : u.lines = Append(t.lines, line)
  <2>1. PICK line \in S : u.lines = Append(lines, line)
    BY <1>1, <1>3
  <2>2. /\ Len(Append(lines, line)) - 1 = Len(lines)
        /\ SubSeq(Append(lines, line), 1, Len(lines)) = lines
        /\ SubSeq(lines, 1, Len(lines)) = lines
    OBVIOUS
  <2>3. LinesDone(t) = Len(lines) /\ LinesDone(u) = Len(lines)
    BY <1>1, <1>3, <2>1, <2>2 DEF LinesDone
  <2> QED
    BY <1>1, <2>1, <2>2, <2>3 DEF DoneLines
<1> QED
  BY <1>2, <1>3

LEMMA ShownOtherwise ==
  ASSUME TypeInv, TypeInv', NEW i \in Sources, TaskStep(i), ~OpenSource(i), ~FinishLine(i)
  PROVE  /\ DoneLines(task'[i]) = DoneLines(task[i])
         /\ task[i].at # "waiting" /\ task'[i].at # "waiting"
         /\ task[i].result # "unopened" /\ task'[i].result # "unopened"
<1>1. /\ DOMAIN task = Sources /\ TaskOK(task[i], arrived[i])
      /\ (call[i].at # "idle" => task[i].at = "resolving")
      /\ task'[i].at # "waiting" /\ task[i].at # "done"
  BY TaskMoves DEF TypeInv, Tasks, Unresolved
<1>2. task[i].result = "none" /\ task[i].lines \in Seq(Seq(Pieces))
  BY <1>1 DEF TaskOK, Results
<1>3. CASE TakeLine(i)
  <2>1. PICK line : line = SubSeq(Text(i), task[i].pos + 1, LineEnd(Text(i), task[i].pos + 1))
    OBVIOUS
  <2>2. /\ task[i].at = "reading" /\ line \in Seq(Pieces)
        /\ IsBad(line) /\ ~opts.follow =>
               /\ task'[i].lines = task[i].lines
               /\ task'[i].at = "done" /\ task'[i].result = "unreadable"
        /\ IsBad(line) /\ opts.follow =>
               /\ task'[i].lines = task[i].lines
               /\ task'[i].at = "reading" /\ task'[i].result = task[i].result
        /\ ~IsBad(line) =>
               /\ task'[i].lines = Append(task[i].lines, line)
               /\ task'[i].at = "resolving" /\ task'[i].result = task[i].result
    <3>1. PICK end : end = LineEnd(Text(i), task[i].pos + 1)
      OBVIOUS
    <3>2. line = SubSeq(Text(i), task[i].pos + 1, end)
      BY <2>1, <3>1
    <3> QED
      BY <1>3, <3>1, <3>2, TakeLineDoes
  <2>3. DoneLines(task'[i]) = DoneLines(task[i])
    BY <1>2, <2>2, DoneSame
  <2> QED
    BY <1>1, <1>2, <2>2, <2>3
<1>4. CASE ~TakeLine(i)
  <2>1. /\ task'[i].lines = task[i].lines /\ (task'[i].at = "resolving" <=> task[i].at = "resolving")
        /\ task[i].at # "waiting" /\ task'[i].result \in {task[i].result, "ok"}
    <3>1. CASE AskDictionary(i) \/ FindDictionary(i) \/ LiveCounts(i)
      <4>1. task' = task
        BY <3>1 DEF AskDictionary, FindDictionary, LiveCounts, fileVars
      <4>2. task[i].at # "waiting"
        <5>1. CASE FindDictionary(i)
          <6>1. call[i].at # "idle"
            BY <5>1, StepOfOneCall DEF FindDictionary
          <6> QED
            BY <1>1, <6>1
        <5> QED
          BY <3>1, <5>1 DEF AskDictionary, LiveCounts, Unresolved
      <4> QED
        BY <4>1, <4>2
    <3>2. CASE TakeDictionary(i)
      BY <1>1, <3>2 DEF TakeDictionary, TaskOK
    <3>3. CASE EndSource(i)
      BY <1>1, <3>3 DEF EndSource, Finished, TaskOK
    <3> QED
      BY <1>4, <3>1, <3>2, <3>3 DEF TaskStep
  <2>2. DoneLines(task'[i]) = DoneLines(task[i])
    BY <1>2, <2>1, DoneSame
  <2> QED
    BY <1>1, <1>2, <2>1, <2>2
<1> QED
  BY <1>3, <1>4

LEMMA BeforesAre == TypeInv => BeforesTyped
BY BeforeTyped DEF BeforesTyped

LEMMA ShownAfter ==
  ASSUME TypeInv, TypeInv', InOrder, [Next]_vars, NEW i \in Sources
  PROVE  /\ Shown(i)' = ShownOf(i, task'[i], Before(i)')
         /\ Before(i)' \in Seq(Msgs)
         /\ task'[i] = task[i] => Shown(i)' = Shown(i)
         /\ task[i].at # "waiting" => Shown(i)' = ShownOf(i, task'[i], Before(i))
<1>1. UNCHANGED opts /\ i \in Sources'
  BY OptsStay DEF Sources
<1>2. BeforesTyped'
  BY BeforesAre, PTL
<1>3. Before(i)' \in Seq(Msgs)
  BY <1>1, <1>2 DEF BeforesTyped
<1>4. PICK t : t = task'[i]
  OBVIOUS
<1>5. PICK b : b = Before(i)'
  OBVIOUS
<1>6. Shown(i)' = ShownOf(i, t, b)'
  BY <1>4, <1>5 DEF Shown
<1>7. ShownOf(i, t, b)' = ShownOf(i, t, b)
  BY <1>1, ShownOfStays
<1>8. task[i].at # "waiting" => b = Before(i)
  BY <1>5, BeforeStays
<1>9. task'[i] = task[i] => Shown(i)' = Shown(i)
  BY <1>4, <1>6, <1>7, <1>8 DEF Shown, ShownOf
<1> QED
  BY <1>3, <1>4, <1>5, <1>6, <1>7, <1>8, <1>9

LEMMA BitsWritten ==
  ASSUME NEW x \in Seq(Bits)
  PROVE  Blocks(x) /\ OfLines(x) = x
<1>1. \A k \in 1 .. Len(x) : OfSources(x[k])
  BY BitsAreOfSources
<1> QED
  BY <1>1, OfLinesAll, InSeqOfElements DEF Blocks

(* Counts are none of the lines.                                           *)
LEMMA CountsAreNoLines ==
  ASSUME NEW b
  PROVE  Blocks(CountsBlock(b)) /\ OfLines(CountsBlock(b)) = << >>
         /\ CountsBlock(b) \in Seq({[kind |-> "counts", counts |-> b.counts]})
<1>1. PICK c : c = [kind |-> "counts", counts |-> b.counts]
  OBVIOUS
<1>2. PICK w \in Seq({c}) : w = CountsBlock(b)
  <2>1. CountsBlock(b) = <<c>> \/ CountsBlock(b) = << >>
    BY <1>1 DEF CountsBlock
  <2>2. <<c>> \in Seq({c}) /\ << >> \in Seq({c})
    OBVIOUS
  <2> QED
    BY <2>1, <2>2
<1>3. \A k \in 1 .. Len(w) : ~OfSources(w[k])
  <2>1. \A k \in 1 .. Len(w) : w[k] = c
    OBVIOUS
  <2>2. c.kind = "counts"
    BY <1>1
  <2> QED
    BY <2>1, <2>2 DEF OfSources
<1>4. OfLines(w) = << >> /\ Blocks(w)
  BY <1>3, OfLinesAll, InSeqOfElements DEF Blocks
<1> QED
  BY <1>1, <1>2, <1>4

LEMMA TaskWrites ==
  ASSUME TypeInv, TypeInv', InOrder, WordsInv, [Next]_vars, NEW i \in Sources, TaskStep(i)
  PROVE  \E x, w : /\ x \in Seq(Bits) /\ Shown(i)' = Shown(i) \o x
                   /\ Writes(i, w) /\ OfLines(w) = x
                   /\ Pages \/ Parallel => w = x
<1> DEFINE Goal == \E x, w : /\ x \in Seq(Bits) /\ Shown(i)' = Shown(i) \o x
                             /\ Writes(i, w) /\ OfLines(w) = x
                             /\ Pages \/ Parallel => w = x
<1>1. Shown(i) \in Seq(Bits) /\ << >> \in Seq(Bits)
  BY ShownTyped
<1>2. PICK before \in Seq(Msgs) : before = Before(i)'
  BY ShownAfter
<1>3. /\ Shown(i)' = ShownOf(i, task'[i], before)
      /\ task[i].at # "waiting" => Shown(i)' = ShownOf(i, task'[i], Before(i))
  BY <1>2, ShownAfter
<1>4. ASSUME NEW x \in Seq(Bits), Shown(i)' = Shown(i) \o x,
             Write(i, x) \/ (x = << >> /\ UNCHANGED <<buffer, printed>>)
      PROVE  Goal
  BY <1>4, BitsWritten DEF Writes
<1>5. Shown(i) \o << >> = Shown(i)
  BY <1>1
<1>6. CASE OpenSource(i)
  <2>1. task[i].at = "waiting"
    BY <1>6 DEF OpenSource
  <2>2. Shown(i) = << >>
    BY <2>1 DEF Shown, ShownOf
  <2>3. Shown(i)' = IF opts.sources[i].kind = "missing" THEN << >> ELSE Announcement(i)
    BY <1>3, <1>6, OpenShows
  <2>4. Announcement(i) \in Seq(Bits)
    <3>1. << >> \in Seq(Seq(Pieces))
      OBVIOUS
    <3> QED
      BY <1>2, <3>1, DecodedIs
  <2>5. CASE opts.sources[i].kind = "missing"
    <3>1. UNCHANGED <<buffer, printed>>
      BY <1>6, <2>5 DEF OpenSource
    <3> QED
      BY <1>1, <1>4, <1>5, <2>2, <2>3, <2>5, <3>1
  <2>6. CASE opts.sources[i].kind # "missing"
    <3>1. Write(i, Announcement(i))
      BY <1>6, <2>6 DEF OpenSource
    <3>2. << >> \o Announcement(i) = Announcement(i)
      BY <2>4
    <3> QED
      BY <1>4, <2>2, <2>3, <2>4, <2>6, <3>1, <3>2
  <2> QED
    BY <2>5, <2>6
<1>7. CASE FinishLine(i)
  <2>1. PICK msgs : msgs = MessagesIn(CurrentLine(i))
    OBVIOUS
  <2>2. PICK shown : shown = [k \in DOMAIN msgs |-> [msg |-> msgs[k], with |-> Name(task[i].dicts[k])]]
    OBVIOUS
  <2>3. /\ ShownOf(i, task'[i], Before(i)) =
               ShownOf(i, task[i], Before(i)) \o BlocksOf(i, CurrentLine(i), shown)
        /\ BlocksOf(i, CurrentLine(i), shown) \in Seq(Bits)
    BY <1>7, <2>1, <2>2, FinishShows
  <2>4. Write(i, BlocksOf(i, CurrentLine(i), shown)) /\ task[i].at # "waiting"
    BY <1>7, <2>1, <2>2 DEF FinishLine
  <2>5. Shown(i)' = Shown(i) \o BlocksOf(i, CurrentLine(i), shown)
    BY <1>3, <2>3, <2>4 DEF Shown
  <2> QED
    BY <1>4, <2>3, <2>4, <2>5
<1>8. CASE ~OpenSource(i) /\ ~FinishLine(i)
  <2>1. Shown(i)' = Shown(i)
    BY <1>3, <1>8, ShownOtherwise DEF Shown, ShownOf
  <2>2. CASE LiveCounts(i)
    <3>1. PICK w : w = CountsBlock(book[Shared])
      OBVIOUS
    <3>2. Blocks(w) /\ OfLines(w) = << >>
      BY <3>1, CountsAreNoLines
    <3>3. Write(i, w) /\ ~Pages /\ ~Parallel
      BY <2>2, <3>1 DEF LiveCounts, Pages, Parallel, UsesPager
    <3> QED
      BY <1>1, <1>5, <2>1, <3>2, <3>3 DEF Writes
  <2>3. CASE ~LiveCounts(i)
    <3>1. UNCHANGED <<buffer, printed>>
      BY <1>8, <2>3 DEF TaskStep, TakeLine, AskDictionary, FindDictionary, TakeDictionary,
                        EndSource, fileVars
    <3> QED
      BY <1>1, <1>4, <1>5, <2>1, <3>1
  <2> QED
    BY <2>2, <2>3
<1> QED
  BY <1>6, <1>7, <1>8

LEMMA OfLinesFlatten ==
  ASSUME NEW S, NEW ss \in Seq(Seq(S))
  PROVE  OfLines(FlattenSeq(ss)) = FlattenSeq([k \in 1 .. Len(ss) |-> OfLines(ss[k])])
<1> DEFINE Each(x) == [k \in 1 .. Len(x) |-> OfLines(x[k])]
           C == {x \in Seq(Seq(S)) : OfLines(FlattenSeq(x)) = FlattenSeq(Each(x))}
<1>1. << >> \in C
  <2>1. Each(<< >>) = << >>
    OBVIOUS
  <2>2. << >> \in Seq(S) /\ << >> \in Seq(Seq(S)) /\ \A k \in 1 .. Len(<< >>) : OfSources(<< >>[k])
    OBVIOUS
  <2>3. OfLines(<< >>) = << >>
    BY <2>2, OfLinesAll
  <2> QED
    BY <2>1, <2>2, <2>3, FlattenNone
<1>2. ASSUME NEW x \in Seq(Seq(S)), NEW s \in Seq(S), x \in C PROVE Append(x, s) \in C
  <2>1. FlattenSeq(x) \in Seq(S) /\ FlattenSeq(Append(x, s)) = FlattenSeq(x) \o s
    BY FlattenAppend
  <2>2. OfLines(FlattenSeq(x) \o s) = OfLines(FlattenSeq(x)) \o OfLines(s)
    BY <2>1, OfLinesTogether
  <2>3. \A k \in 1 .. Len(x) : OfLines(x[k]) \in Seq(S)
    <3>1. ASSUME NEW k \in 1 .. Len(x) PROVE OfLines(x[k]) \in Seq(S)
      <4>1. x[k] \in Seq(S)
        OBVIOUS
      <4> QED
        BY <4>1, OfLinesIs
    <3> QED
      BY <3>1
  <2>4. PICK ex \in Seq(Seq(S)) : ex = Each(x)
    <3>1. Each(x) \in Seq(Seq(S))
      BY <2>3
    <3> QED
      BY <3>1
  <2>8. PICK o \in Seq(S) : o = OfLines(s)
    BY OfLinesIs
  <2>5. Each(Append(x, s)) = Append(ex, o)
    <3>1. PICK y \in Seq(Seq(S)) : y = Append(x, s)
      BY AppendProperties
    <3>2. Len(y) = Len(x) + 1 /\ Len(x) \in Nat /\ y[Len(x) + 1] = s
          /\ \A k \in 1 .. Len(x) : y[k] = x[k]
      BY <3>1
    <3>3. Len(ex) = Len(x) /\ \A k \in 1 .. Len(x) : ex[k] = OfLines(x[k])
      BY <2>4
    <3>4. PICK z \in Seq(Seq(S)) : z = Append(ex, o)
      BY AppendProperties
    <3>5. Len(z) = Len(x) + 1 /\ z[Len(x) + 1] = o /\ \A k \in 1 .. Len(x) : z[k] = ex[k]
      BY <3>3, <3>4
    <3>6. ASSUME NEW k \in 1 .. Len(y) PROVE OfLines(y[k]) = z[k]
      <4>1. CASE k = Len(x) + 1
        BY <2>8, <3>2, <3>5, <4>1
      <4>2. CASE k # Len(x) + 1
        <5>1. k \in 1 .. Len(x)
          BY <3>2, <4>2
        <5> QED
          BY <3>2, <3>3, <3>5, <5>1
      <4> QED
        BY <4>1, <4>2
    <3>7. Each(y) = [k \in 1 .. Len(y) |-> z[k]]
      BY <3>6
    <3>8. z = [k \in 1 .. Len(y) |-> z[k]]
      BY <3>2, <3>5
    <3> HIDE DEF Each
    <3> QED
      BY <3>1, <3>4, <3>7, <3>8
  <2> HIDE DEF Each
  <2>6. FlattenSeq(Append(ex, o)) = FlattenSeq(ex) \o o
    BY FlattenAppend
  <2>7. Append(x, s) \in Seq(Seq(S))
    BY AppendProperties
  <2> QED
    BY <1>2, <2>1, <2>2, <2>4, <2>5, <2>6, <2>7, <2>8, Zenon
<1> HIDE DEF C
<1>3. \A x \in Seq(Seq(S)) : x \in C
  BY <1>1, <1>2, SeqInduction
<1> QED
  BY <1>3 DEF C

-----------------------------------------------------------------------------
LEMMA WriteInvInit == Init /\ TypeInv => WriteInv
<1> SUFFICES ASSUME Init, TypeInv PROVE WriteInv
  OBVIOUS
<1>1. \A i \in Sources : Shown(i) = << >> /\ buffer[i] = << >>
  BY DEF Init, Shown, ShownOf, NewTask, Sources
<1>2. Sources = 1 .. Len(opts.sources) /\ Len(opts.sources) \in Nat
  BY SourcesAre DEF TypeInv
<1>3. [i \in Sources |-> Shown(i)] \in Seq({<< >>})
  BY <1>1, <1>2
<1>4. AllShown = << >>
  BY <1>3, FlattenEmpties DEF AllShown
<1>5. ShownByThreads = << >>
  <2>1. [i \in 1 .. emitted |-> Shown(i)] = << >>
    BY DEF Init
  <2> QED
    BY <2>1, FlattenNone DEF ShownByThreads
<1>6. Lines = << >>
  <2>1. << >> \in Seq(Bits)
    OBVIOUS
  <2>2. OfLines(<< >>) = << >>
    BY <2>1, BitsWritten
  <2> QED
    BY <2>2 DEF Init, Lines
<1> QED
  BY <1>1, <1>4, <1>5, <1>6 DEF WriteInv, Buffered, Due

(* A step that leaves the tasks, and what they wrote, alone.               *)
LEMMA AllShownStays ==
  ASSUME TypeInv, TypeInv', InOrder, [Next]_vars, task' = task, emitted' = emitted
  PROVE  /\ \A i \in Sources : Shown(i)' = Shown(i)
         /\ AllShown' = AllShown /\ ShownByThreads' = ShownByThreads /\ Sources' = Sources
<1>1. \A i \in Sources : Shown(i)' = Shown(i)
  BY ShownAfter
<1>2. Sources' = Sources /\ 1 .. emitted \subseteq Sources
  BY OptsStay, SourcesAre DEF Sources, TypeInv, Scalars
<1>3. [i \in Sources |-> Shown(i)]' = [i \in Sources |-> Shown(i)]
  BY <1>1, <1>2
<1>4. [i \in 1 .. emitted |-> Shown(i)]' = [i \in 1 .. emitted |-> Shown(i)]
  BY <1>1, <1>2
<1> QED
  BY <1>1, <1>2, <1>3, <1>4 DEF AllShown, ShownByThreads

LEMMA ShownSeqs ==
  ASSUME TypeInv
  PROVE  /\ [i \in Sources |-> Shown(i)] \in Seq(Seq(Bits))
         /\ Len([i \in Sources |-> Shown(i)]) = Len(opts.sources)
         /\ AllShown \in Seq(Bits)
<1>1. Sources = 1 .. Len(opts.sources) /\ Len(opts.sources) \in Nat
  BY SourcesAre DEF TypeInv
<1>2. [i \in Sources |-> Shown(i)] \in Seq(Seq(Bits))
  BY <1>1, ShownTyped
<1>3. PICK s \in Seq(Seq(Bits)) : s = [i \in Sources |-> Shown(i)]
  BY <1>2
<1>4. AllShown \in Seq(Bits)
  BY <1>3, FlattenTyped DEF AllShown
<1> QED
  BY <1>1, <1>2, <1>4

(* When sources are read in sequence, what is shown grows at its end.      *)
LEMMA AllShownGrows ==
  ASSUME TypeInv, TypeInv', InOrder, [Next]_vars, ~Parallel, NEW i \in Sources, TaskStep(i),
         NEW x \in Seq(Bits), Shown(i)' = Shown(i) \o x
  PROVE  AllShown' = AllShown \o x
<1> DEFINE old == [j \in Sources |-> Shown(j)]
           new == [j \in Sources |-> Shown(j)']
<1>1. Sources = 1 .. Len(opts.sources) /\ Len(opts.sources) \in Nat /\ Sources' = Sources
  BY OptsStay, SourcesAre DEF TypeInv, Sources
<1>2. ASSUME NEW j \in Sources, j # i PROVE Shown(j)' = Shown(j)
  <2>1. task'[j] = task[j]
    BY <1>2, TaskMoves
  <2> QED
    BY <2>1, ShownAfter
<1>3. ASSUME NEW j \in Sources, j > i PROVE Shown(j) = << >>
  <2>1. task[i].at # "done"
    BY TaskMoves
  <2>2. task[j].at = "waiting"
    BY <1>1, <1>3, <2>1 DEF InOrder
  <2> QED
    BY <2>2 DEF Shown, ShownOf
<1>4. \A j \in Sources : Shown(j) \in Seq(Bits) /\ Shown(j)' \in Seq(Bits)
  <2>1. \A j \in Sources : Shown(j) \in Seq(Bits)
    BY ShownTyped
  <2>2. Shown(i)' \in Seq(Bits)
    BY <2>1, ConcatProperties
  <2> QED
    BY <1>2, <2>1, <2>2
<1>5. old \in Seq(Seq(Bits)) /\ new \in Seq(Seq(Bits)) /\ Len(old) = Len(new) /\ i \in 1 .. Len(old)
      /\ 1 .. Len(old) = Sources
  BY <1>1, <1>4
<1>6. \A j \in Sources : old[j] = Shown(j) /\ new[j] = Shown(j)'
  OBVIOUS
<1>7. AllShown = FlattenSeq(old) /\ AllShown' = FlattenSeq(new)
  BY <1>1 DEF AllShown
<1> HIDE DEF old, new
<1>8. LastGrows(old, new, i, x)
  <2>1. \A j \in 1 .. Len(old) : j # i => new[j] = old[j]
    BY <1>2, <1>5, <1>6
  <2>2. \A j \in 1 .. Len(old) : j > i => old[j] = << >>
    BY <1>3, <1>5, <1>6
  <2>3. new[i] = old[i] \o x
    BY <1>6
  <2> QED
    BY <1>5, <2>1, <2>2, <2>3 DEF LastGrows
<1>9. FlattenSeq(new) = FlattenSeq(old) \o x
  BY <1>5, <1>8, FlattenGrows
<1> QED
  BY <1>7, <1>9

LEMMA WriteKeptByTask ==
  ASSUME TypeInv, TypeInv', InOrder, StageInv, ShownSoFar, WordsInv, WriteInv, [Next]_vars,
         NEW i \in Sources, TaskStep(i)
  PROVE  WriteInv'
<1>1. PICK x, w : /\ x \in Seq(Bits) /\ Shown(i)' = Shown(i) \o x
                  /\ Writes(i, w) /\ OfLines(w) = x
                  /\ Pages \/ Parallel => w = x
  BY TaskWrites
<1>2. /\ UNCHANGED <<opts, emitted, left, stage>> /\ stage = "process"
      /\ \A j \in Sources \ {i} : task'[j] = task[j]
      /\ (Parallel => ~(emitted > 0)) /\ emitted \in Nat
  BY TaskMoves, InProcess, OrderOfTaskStep, SourcesAre DEF TypeInv, Scalars
<1>3. /\ Sources' = Sources /\ (Pages' <=> Pages) /\ (Parallel' <=> Parallel)
      /\ (SummaryPager' <=> SummaryPager)
  BY <1>2, ShapeStays
<1>4. \A j \in Sources \ {i} : Shown(j)' = Shown(j)
  BY <1>2, ShownAfter
<1>5. /\ Shown(i) \o << >> = Shown(i) /\ OfLines(<< >>) = << >>
      /\ DOMAIN buffer = Sources
  <2>1. Shown(i) \in Seq(Bits) /\ << >> \in Seq(Bits)
    BY ShownTyped
  <2>2. OfLines(<< >>) = << >>
    BY <2>1, BitsWritten
  <2>3. Shown(i) \o << >> = Shown(i)
    BY <2>1, ConcatEmptySeq
  <2> QED
    BY <2>2, <2>3 DEF ShownSoFar, Buffers
<1>6. Buffered'
  <2>1. CASE Pages \/ Parallel
    <3>1. buffer'[i] = Shown(i)' /\ \A j \in Sources \ {i} : buffer'[j] = buffer[j]
      BY <1>1, <1>5, <2>1 DEF Writes, Write, WriteInv, Buffered
    <3>2. \A j \in Sources : buffer'[j] = Shown(j)'
      BY <1>4, <2>1, <3>1 DEF WriteInv, Buffered
    <3> QED
      BY <1>3, <3>2 DEF Buffered
  <2>2. CASE ~(Pages \/ Parallel)
    BY <1>3, <2>2 DEF Buffered
  <2> QED
    BY <2>1, <2>2
<1>7. ASSUME ~left PROVE Lines' = Due'
  <2>0. Lines = Due
    BY <1>2, <1>7 DEF WriteInv, Writing
  <2>1. CASE Pages \/ SummaryPager
    <3>1. printed' = printed
      BY <1>1, <2>1 DEF Writes, Write
    <3> QED
      BY <1>2, <1>3, <2>0, <2>1, <3>1 DEF Lines, Due
  <2>2. CASE Parallel
    <3>1. printed' = printed /\ ~Pages /\ ~SummaryPager
      BY <1>1, <2>2 DEF Writes, Write, Parallel, SummaryPager
    <3>2. emitted = 0 /\ 1 .. 0 = {} /\ emitted' = 0
      BY <1>2, <2>2
    <3>3. ShownByThreads = FlattenSeq(<< >>)
      BY <3>2 DEF ShownByThreads
    <3>4. ShownByThreads' = FlattenSeq(<< >>)
      BY <3>2 DEF ShownByThreads
    <3> QED
      BY <1>3, <2>0, <2>2, <3>1, <3>3, <3>4 DEF Lines, Due
  <2>3. CASE ~Pages /\ ~SummaryPager /\ ~Parallel
    <3>1. Lines' = Lines \o x
      <4>1. PICK S : printed \in Seq(S) /\ w \in Seq(S)
        BY <1>1, BlocksTogether DEF Writes, ShownSoFar
      <4>2. CASE printed' = printed \o w
        <5>1. OfLines(printed \o w) = OfLines(printed) \o OfLines(w)
          BY <4>1, OfLinesTogether
        <5> QED
          BY <1>1, <4>2, <5>1 DEF Lines
      <4>3. CASE w = << >> /\ printed' = printed
        <5>1. x = << >>
          BY <1>1, <1>5, <4>3
        <5>2. OfLines(printed) \in Seq(S)
          BY <4>1, OfLinesIs
        <5>3. OfLines(printed) \o << >> = OfLines(printed)
          BY <5>2, ConcatEmptySeq
        <5> QED
          BY <4>3, <5>1, <5>3 DEF Lines
      <4> QED
        BY <1>1, <1>7, <2>3, <4>2, <4>3 DEF Writes, Write
    <3>2. AllShown' = AllShown \o x
      BY <1>1, <2>3, AllShownGrows
    <3> QED
      BY <1>3, <2>0, <2>3, <3>1, <3>2 DEF Due
  <2> QED
    BY <2>1, <2>2, <2>3
<1> QED
  BY <1>2, <1>6, <1>7 DEF WriteInv, Writing

(* The next file that threads have read is shown.                          *)
LEMMA WriteKeptByEmit ==
  ASSUME TypeInv, TypeInv', InOrder, ShownSoFar, WriteInv, [Next]_vars, EmitFile
  PROVE  WriteInv'
<1>1. /\ UNCHANGED <<opts, task, buffer, left, stage>> /\ stage = "process" /\ Parallel
      /\ emitted' = emitted + 1 /\ emitted + 1 \in Sources
      /\ printed' = IF left THEN printed ELSE printed \o buffer[emitted + 1]
  BY DEF EmitFile
<1>2. /\ Sources' = Sources /\ (Pages' <=> Pages) /\ (Parallel' <=> Parallel)
      /\ (SummaryPager' <=> SummaryPager)
  BY <1>1, ShapeStays
<1>3. \A i \in Sources : Shown(i)' = Shown(i)
  BY <1>1, ShownAfter
<1>4. Buffered'
  BY <1>1, <1>2, <1>3 DEF WriteInv, Buffered
<1>5. ~Pages /\ ~SummaryPager
  BY <1>1 DEF Parallel, SummaryPager
<1>6. buffer[emitted + 1] = Shown(emitted + 1) /\ Shown(emitted + 1) \in Seq(Bits)
  BY <1>1, ShownTyped DEF WriteInv, Buffered
<1>7. ASSUME ~left PROVE Lines' = ShownByThreads'
  <2>1. Lines = ShownByThreads
    BY <1>1, <1>5, <1>7 DEF WriteInv, Writing, Due
  <2>2. Lines' = Lines \o Shown(emitted + 1)
    <3>1. PICK S : printed \in Seq(S) /\ buffer[emitted + 1] \in Seq(S)
      BY <1>1, BlocksTogether DEF ShownSoFar, Buffers, PlainBlocks
    <3>2. OfLines(printed \o buffer[emitted + 1]) = OfLines(printed) \o OfLines(buffer[emitted + 1])
      BY <3>1, OfLinesTogether
    <3>3. OfLines(buffer[emitted + 1]) = buffer[emitted + 1]
      BY <1>6, BitsWritten
    <3> QED
      BY <1>1, <1>6, <1>7, <3>2, <3>3 DEF Lines
  <2>3. ShownByThreads' = ShownByThreads \o Shown(emitted + 1)
    <3>1. emitted \in Nat /\ Sources = 1 .. Len(opts.sources) /\ Len(opts.sources) \in Nat
      BY SourcesAre DEF TypeInv, Scalars
    <3>2. PICK n \in Nat : n = emitted
      BY <3>1
    <3>3. 1 .. n \subseteq Sources /\ n + 1 \in Sources /\ 1 .. n + 1 \subseteq Sources
      BY <1>1, <3>1, <3>2
    <3>4. PICK s \in Seq(Seq(Bits)) : s = [i \in 1 .. n |-> Shown(i)]
      <4>1. \A i \in 1 .. n : Shown(i) \in Seq(Bits)
        BY <3>3, ShownTyped
      <4>2. [i \in 1 .. n |-> Shown(i)] \in Seq(Seq(Bits))
        BY <4>1
      <4> QED
        BY <4>2
    <3>5. PICK x \in Seq(Bits) : x = Shown(n + 1)
      BY <1>6, <3>2
    <3>6. [i \in 1 .. n + 1 |-> Shown(i)] = Append(s, x)
      BY <3>4, <3>5
    <3>7. ShownByThreads' = FlattenSeq([i \in 1 .. n + 1 |-> Shown(i)])
      <4>1. [i \in 1 .. emitted |-> Shown(i)]' = [i \in 1 .. n + 1 |-> Shown(i)]
        BY <1>1, <1>3, <3>2, <3>3
      <4> QED
        BY <4>1 DEF ShownByThreads
    <3>8. FlattenSeq(Append(s, x)) = FlattenSeq(s) \o x
      BY FlattenAppend
    <3> QED
      BY <3>2, <3>4, <3>5, <3>6, <3>7, <3>8 DEF ShownByThreads
  <2> QED
    BY <2>1, <2>2, <2>3
<1> QED
  BY <1>1, <1>2, <1>4, <1>5, <1>7 DEF WriteInv, Writing, Due

(* The pages show every source; what else is closed shows no more of them. *)
LEMMA PagesShowAll ==
  ASSUME TypeInv, WriteInv, Pages
  PROVE  OfLines(FlattenSeq([i \in Sources |-> buffer[i] \o CountsBlock(book[i])])) = AllShown
<1> DEFINE S == Bits \cup {[kind |-> "counts", counts |-> book[i].counts] : i \in Sources}
           pages == [i \in Sources |-> buffer[i] \o CountsBlock(book[i])]
<1>1. Sources = 1 .. Len(opts.sources) /\ Len(opts.sources) \in Nat
  BY SourcesAre DEF TypeInv
<1>2. ASSUME NEW i \in Sources
      PROVE  /\ buffer[i] \o CountsBlock(book[i]) \in Seq(S)
             /\ OfLines(buffer[i] \o CountsBlock(book[i])) = Shown(i)
  <2>1. PICK a \in Seq(Bits) : a = buffer[i] /\ a = Shown(i)
    BY ShownTyped DEF WriteInv, Buffered
  <2>2. PICK c : c = [kind |-> "counts", counts |-> book[i].counts]
    OBVIOUS
  <2>3. PICK w \in Seq({c}) : w = CountsBlock(book[i]) /\ OfLines(w) = << >>
    BY <2>2, CountsAreNoLines
  <2>4. Bits \subseteq S /\ {c} \subseteq S
    BY <2>2
  <2> HIDE DEF S
  <2>5. a \in Seq(S) /\ w \in Seq(S)
    BY <2>4, SeqMonotonic
  <2>6. a \o w \in Seq(S)
    BY <2>5, ConcatProperties
  <2>7. OfLines(a \o w) = OfLines(a) \o OfLines(w)
    BY <2>5, OfLinesTogether
  <2>8. OfLines(a) = a
    BY BitsWritten
  <2>9. a \o << >> = a
    BY ConcatEmptySeq
  <2> QED
    BY <2>1, <2>3, <2>6, <2>7, <2>8, <2>9
<1>3. pages \in Seq(Seq(S)) /\ Len(pages) = Len(opts.sources) /\ \A i \in Sources : OfLines(pages[i]) = Shown(i)
  <2> HIDE DEF S
  <2>1. DOMAIN pages = 1 .. Len(opts.sources) /\ \A i \in Sources : pages[i] = buffer[i] \o CountsBlock(book[i])
    BY <1>1
  <2>2. \A i \in Sources : pages[i] \in Seq(S) /\ OfLines(pages[i]) = Shown(i)
    BY <1>2, <2>1
  <2>3. pages = [i \in 1 .. Len(opts.sources) |-> pages[i]]
    BY <1>1
  <2> HIDE DEF pages
  <2>4. pages \in Seq(Seq(S))
    BY <1>1, <2>2, <2>3
  <2> QED
    BY <1>1, <2>1, <2>2, <2>4
<1> HIDE DEF S, pages
<1>4. OfLines(FlattenSeq(pages)) = FlattenSeq([k \in 1 .. Len(pages) |-> OfLines(pages[k])])
  BY <1>3, OfLinesFlatten
<1>5. [k \in 1 .. Len(pages) |-> OfLines(pages[k])] = [i \in Sources |-> Shown(i)]
  BY <1>1, <1>3
<1> QED
  BY <1>4, <1>5 DEF AllShown, pages

LEMMA WriteKeptByClose ==
  ASSUME TypeInv, TypeInv', InOrder, ShownSoFar, WriteInv, [Next]_vars, Close
  PROVE  WriteInv'
<1>1. /\ UNCHANGED <<opts, task, buffer, left, emitted>> /\ stage = "process" /\ stage' = "close"
  BY DEF Close
<1>2. /\ (Pages' <=> Pages) /\ (Parallel' <=> Parallel) /\ (SummaryPager' <=> SummaryPager)
  BY <1>1, ShapeStays
<1>3. /\ \A i \in Sources : Shown(i)' = Shown(i)
      /\ AllShown' = AllShown /\ ShownByThreads' = ShownByThreads /\ Sources' = Sources
  BY <1>1, AllShownStays
<1>4. Buffered'
  BY <1>1, <1>2, <1>3 DEF WriteInv, Buffered
<1>5. ASSUME ~left PROVE Lines' = Due'
  <2>1. Lines = Due
    BY <1>1, <1>5 DEF WriteInv, Writing
  <2>2. CASE Pages
    <3>1. printed' = FlattenSeq([i \in Sources |-> buffer[i] \o CountsBlock(book[i])])
      BY <1>5, <2>2 DEF Close
    <3>2. Lines' = AllShown
      BY <2>2, <3>1, PagesShowAll DEF Lines
    <3>3. ~SummaryPager /\ ~Parallel
      BY <2>2 DEF Pages, SummaryPager, Parallel
    <3> QED
      BY <1>1, <1>2, <1>3, <2>2, <3>2, <3>3 DEF Due
  <2>3. CASE ~Pages
    <3>1. PICK o, w : /\ printed' = printed \o o \o w /\ w = CountsBlock(ClosingBook)
                      /\ \/ o = << >>
                         \/ o = <<[kind |-> "orders", tracked |-> book[Shared].tracked]>>
      BY <1>5, <2>3 DEF Close
    <3>2. Blocks(o) /\ OfLines(o) = << >>
      <4>1. PICK c : c = [kind |-> "orders", tracked |-> book[Shared].tracked]
        OBVIOUS
      <4>2. PICK s \in Seq({c}) : s = o
        <5>1. <<c>> \in Seq({c}) /\ << >> \in Seq({c})
          OBVIOUS
        <5> QED
          BY <3>1, <4>1, <5>1
      <4>3. \A k \in 1 .. Len(s) : ~OfSources(s[k])
        <5>1. \A k \in 1 .. Len(s) : s[k] = c
          OBVIOUS
        <5>2. c.kind = "orders"
          BY <4>1
        <5> QED
          BY <5>1, <5>2 DEF OfSources
      <4>4. OfLines(s) = << >> /\ Blocks(s)
        BY <4>3, OfLinesAll, InSeqOfElements DEF Blocks
      <4> QED
        BY <4>2, <4>4
    <3>3. Blocks(w) /\ OfLines(w) = << >>
      BY <3>1, CountsAreNoLines
    <3>4. ASSUME NEW a, Blocks(a), NEW b, Blocks(b), OfLines(b) = << >>
          PROVE  Blocks(a \o b) /\ OfLines(a \o b) = OfLines(a)
      <4>1. PICK S : a \in Seq(S) /\ b \in Seq(S)
        BY <3>4, BlocksTogether
      <4>2. OfLines(a \o b) = OfLines(a) \o OfLines(b)
        BY <4>1, OfLinesTogether
      <4>3. OfLines(a) \in Seq(S)
        BY <4>1, OfLinesIs
      <4>4. OfLines(a) \o << >> = OfLines(a)
        BY <4>3, ConcatEmptySeq
      <4>5. Blocks(a \o b)
        BY <3>4, BlocksTogether
      <4> QED
        BY <3>4, <4>2, <4>4, <4>5
    <3>5. PICK one : one = printed \o o /\ Blocks(one) /\ OfLines(one) = Lines
      BY <3>2, <3>4 DEF ShownSoFar, Lines
    <3>6. OfLines(one \o w) = OfLines(one)
      BY <3>3, <3>4, <3>5
    <3>7. Lines' = Lines
      BY <3>1, <3>5, <3>6 DEF Lines
    <3> QED
      BY <1>2, <1>3, <2>1, <2>3, <3>7 DEF Due
  <2> QED
    BY <2>2, <2>3
<1> QED
  BY <1>1, <1>4, <1>5 DEF WriteInv, Writing

LEMMA WriteKeptQuiet ==
  ASSUME TypeInv, TypeInv', InOrder, WriteInv, [Next]_vars,
         UNCHANGED <<task, buffer, printed, emitted>>, left' = left \/ left',
         stage' = stage \/ stage \in {"options", "load"} \/ stage' = "exit", stage' # "close" \/ stage = "close"
  PROVE  WriteInv'
<1>1. UNCHANGED opts
  BY OptsStay
<1>2. /\ (Pages' <=> Pages) /\ (Parallel' <=> Parallel) /\ (SummaryPager' <=> SummaryPager)
  BY <1>1, ShapeStays
<1>3. /\ \A i \in Sources : Shown(i)' = Shown(i)
      /\ AllShown' = AllShown /\ ShownByThreads' = ShownByThreads /\ Sources' = Sources
  BY AllShownStays
<1>4. Buffered'
  BY <1>2, <1>3 DEF WriteInv, Buffered
<1>5. Lines' = Lines
  BY DEF Lines
<1>6. Writing' => Writing /\ (stage' = "close" <=> stage = "close")
  BY DEF Writing
<1> QED
  BY <1>2, <1>3, <1>4, <1>5, <1>6 DEF WriteInv, Due

LEMMA WriteKept ==
  ASSUME TypeInv, TypeInv', InOrder, StageInv, ShownSoFar, WordsInv, WriteInv, [Next]_vars
  PROVE  WriteInv'
<1>1. CASE ReadOptions \/ Register \/ Begin
  <2>1. UNCHANGED <<task, buffer, printed, emitted, left>> /\ stage' # "close"
        /\ stage \in {"options", "load"}
    BY <1>1 DEF ReadOptions, Register, Begin, Ends, Goes
  <2> QED
    BY <2>1, WriteKeptQuiet
<1>2. CASE Answer
  <2>1. UNCHANGED <<opts, task, buffer, emitted, left>> /\ ~Writing'
    BY <1>2 DEF Answer, Ends, Writing
  <2>2. (Pages' <=> Pages) /\ (Parallel' <=> Parallel) /\ Sources' = Sources
        /\ \A i \in Sources : Shown(i)' = Shown(i)
    BY <2>1, ShapeStays, AllShownStays
  <2> QED
    BY <2>1, <2>2 DEF WriteInv, Buffered
<1>3. CASE Exit
  <2>1. UNCHANGED <<task, buffer, printed, emitted, left>> /\ stage' = "exit"
    BY <1>3 DEF Exit
  <2> QED
    BY <2>1, WriteKeptQuiet
<1>4. CASE Interrupt \/ UNCHANGED vars
  <2>1. UNCHANGED <<task, buffer, printed, emitted, left, stage>>
    BY <1>4 DEF Interrupt, vars, fileVars
  <2> QED
    BY <2>1, WriteKeptQuiet
<1>5. CASE QuitPager
  <2>1. UNCHANGED <<task, buffer, printed, emitted, stage>> /\ left'
    BY <1>5 DEF QuitPager
  <2> QED
    BY <2>1, WriteKeptQuiet
<1>6. ASSUME NEW i \in Sources, Arrive(i) PROVE WriteInv'
  <2>1. UNCHANGED <<task, buffer, printed, emitted, stage, left>>
    BY <1>6 DEF Arrive
  <2> QED
    BY <2>1, WriteKeptQuiet
<1> QED
  BY <1>1, <1>2, <1>3, <1>4, <1>5, <1>6, WriteKeptByTask, WriteKeptByEmit, WriteKeptByClose
     DEF Next, MainStep

-----------------------------------------------------------------------------
(* FileOutput has the operators of sequences under names of its own.       *)
LEMMA OutputFlattens ==
  ASSUME NEW seqs
  PROVE  Output!FlattenSeq(seqs) = FlattenSeq(seqs)
BY DEF Output!FlattenSeq, FlattenSeq

(* What begins with a sequence.                                            *)
LEMMA PrefixIs ==
  ASSUME NEW S, NEW a \in Seq(S), NEW r \in Seq(S)
  PROVE  Output!IsPrefix(a, a \o r)
<1>1. PICK t \in Seq(S) : t = a \o r
  BY ConcatProperties
<1>2. Len(t) = Len(a) + Len(r) /\ Len(a) \in Nat /\ Len(r) \in Nat /\ \A k \in 1 .. Len(a) : t[k] = a[k]
  <2>1. Len(a \o r) = Len(a) + Len(r) /\ \A k \in 1 .. Len(a) : (a \o r)[k] = a[k]
    OBVIOUS
  <2> QED
    BY <1>1, <2>1
<1>3. SubSeq(t, 1, Len(a)) = a /\ SubSeq(a, 1, Len(a)) = a
  BY <1>2
<1> QED
  BY <1>1, <1>2, <1>3 DEF Output!IsPrefix

LEMMA PrefixSame ==
  ASSUME NEW S, NEW a \in Seq(S)
  PROVE  Output!IsPrefix(a, a)
BY DEF Output!IsPrefix

LEMMA OutputMaxIs ==
  ASSUME NEW s \in Seq(Nat)
  PROVE  \A k \in 1 .. Len(s) : s[k] <= Output!Max({0} \cup Output!Range(s))
<1>1. PICK m \in Nat : \A k \in 1 .. Len(s) : s[k] <= m
  BY SeqBounded
<1>2. PICK T : T = {0} \cup Output!Range(s)
  OBVIOUS
<1>3. T \subseteq 0 .. m /\ T # {} /\ \A k \in 1 .. Len(s) : s[k] \in T
  BY <1>1, <1>2 DEF Output!Range
<1>4. \A k \in T : k <= Max(T)
  BY <1>3, MaxIs
<1>5. Output!Max(T) = Max(T)
  BY DEF Output!Max, Max
<1> QED
  BY <1>2, <1>3, <1>4, <1>5

(* The beginnings of what is promised of every source are a cut.           *)
LEMMA BegunIsCut ==
  ASSUME NEW S, NEW a \in Seq(Seq(S)), promised \in Seq(Seq(S)), Begun(a, promised, S)
  PROVE  FlattenSeq(a) \in Output!Cuts
<1> DEFINE lengths == [i \in DOMAIN promised |-> Len(promised[i])]
           most == Output!Max({0} \cup Output!Range(lengths))
           n == [i \in DOMAIN promised |-> Len(a[i])]
           cut == [i \in DOMAIN promised |-> SubSeq(promised[i], 1, n[i])]
<1>1. DOMAIN promised = 1 .. Len(promised) /\ Len(promised) \in Nat /\ Len(a) = Len(promised)
      /\ DOMAIN a = 1 .. Len(promised)
  BY DEF Begun
<1>2. lengths \in Seq(Nat) /\ Len(lengths) = Len(promised)
  <2>1. \A i \in 1 .. Len(promised) : promised[i] \in Seq(S)
    BY <1>1
  <2> QED
    BY <1>1, <2>1
<1>3. ASSUME NEW i \in DOMAIN promised
      PROVE  Len(a[i]) \in Nat /\ Len(a[i]) <= Len(promised[i])
             /\ SubSeq(promised[i], 1, Len(a[i])) = a[i] /\ Len(promised[i]) <= most
  <2>1. PICK x \in Seq(S), y \in Seq(S) : x = a[i] /\ y = promised[i]
    BY <1>1
  <2>2. PICK r \in Seq(S) : y = x \o r
    BY <1>1, <2>1 DEF Begun
  <2>3. Len(x) \in Nat /\ Len(y) \in Nat /\ Len(x) <= Len(y) /\ SubSeq(y, 1, Len(x)) = x
    BY <2>2
  <2>4. lengths[i] <= most /\ lengths[i] = Len(promised[i])
    <3>1. \A k \in 1 .. Len(lengths) : lengths[k] <= most
      BY <1>2, OutputMaxIs
    <3> QED
      BY <1>1, <1>2, <3>1
  <2> HIDE DEF lengths, most
  <2> QED
    BY <2>1, <2>3, <2>4
<1>4. most \in Int
  <2>1. PICK T : T = {0} \cup Output!Range(lengths)
    OBVIOUS
  <2>2. T \subseteq Nat /\ 0 \in T
    BY <1>2, <2>1 DEF Output!Range
  <2>3. PICK m \in Nat : \A k \in T : k <= m
    <3>1. PICK m \in Nat : \A k \in 1 .. Len(lengths) : lengths[k] <= m
      BY <1>2, SeqBounded
    <3>2. DOMAIN lengths = 1 .. Len(lengths)
      BY <1>2
    <3> HIDE DEF lengths
    <3>3. \A k \in T : k <= m
      BY <2>1, <3>1, <3>2 DEF Output!Range
    <3> QED
      BY <3>3
  <2>4. Max(T) \in T
    <3>1. T \subseteq 0 .. m /\ T # {}
      BY <2>2, <2>3
    <3> HIDE DEF lengths
    <3> QED
      BY <3>1, MaxIs
  <2>5. Output!Max(T) = Max(T)
    BY DEF Output!Max, Max
  <2> HIDE DEF lengths
  <2> QED
    BY <2>1, <2>2, <2>4, <2>5
<1>5. n \in [DOMAIN promised -> 0 .. most] /\ \A i \in DOMAIN promised : n[i] <= lengths[i]
  <2>1. \A i \in DOMAIN promised : lengths[i] = Len(promised[i]) /\ Len(promised[i]) \in Nat
    BY <1>1
  <2> HIDE DEF most, lengths
  <2> QED
    BY <1>3, <1>4, <2>1
<1>6. cut = a
  <2>1. a = [i \in 1 .. Len(promised) |-> a[i]]
    BY <1>1
  <2>2. \A i \in 1 .. Len(promised) : SubSeq(promised[i], 1, n[i]) = a[i]
    BY <1>1, <1>3
  <2> HIDE DEF n
  <2> QED
    BY <1>1, <2>1, <2>2
<1>7. Output!FlattenSeq(cut) \in Output!Cuts
  <2> HIDE DEF n
  <2> QED
    BY <1>5, Zenon DEF Output!Cuts
<1> QED
  BY <1>6, <1>7, OutputFlattens

LEMMA BegunIsPrefix ==
  ASSUME NEW S, NEW a \in Seq(Seq(S)), promised \in Seq(Seq(S)), Begun(a, promised, S),
         InTurn(a, promised)
  PROVE  Output!IsPrefix(FlattenSeq(a), Output!FlattenSeq(promised))
<1>1. PICK r \in Seq(S) : FlattenSeq(promised) = FlattenSeq(a) \o r
  BY BegunInTurn
<1>2. FlattenSeq(a) \in Seq(S)
  BY FlattenTyped
<1> QED
  BY <1>1, <1>2, PrefixIs, OutputFlattens

LEMMA OpenedInvInit == Init => OpenedInv
BY DEF Init, OpenedInv, NewTask

LEMMA OpenedKept ==
  ASSUME TypeInv, TypeInv', CacheInv, OpenedInv, [Next]_vars
  PROVE  OpenedInv'
<1>1. opts' = opts /\ Sources' = Sources
  BY TextsStay
<1>2. ASSUME NEW i \in Sources, task'[i].at # "waiting"
      PROVE  task'[i].result = "unopened" <=> opts.sources[i].kind = "missing"
  <2>1. CASE ~TaskStep(i)
    BY <1>2, <2>1, OthersStay DEF OpenedInv
  <2>2. CASE OpenSource(i)
    <3>1. task[i].at = "waiting" /\ TaskOK(task[i], arrived[i]) /\ DOMAIN task = Sources
      BY <2>2 DEF OpenSource, TypeInv, Tasks
    <3>2. task[i] = NewTask
      BY <3>1 DEF TaskOK
    <3>3. task[i].result = "none" /\ task[i] \in [at : {"waiting"}, pos : {0}, lines : {<< >>},
                                                  dicts : {<< >>}, result : {"none"}]
      BY <3>2 DEF NewTask
    <3>4. CASE opts.sources[i].kind = "missing"
      BY <2>2, <3>1, <3>3, <3>4 DEF OpenSource, Finished
    <3>5. CASE opts.sources[i].kind # "missing"
      <4>1. task'[i].result \in {"unreadable", "none"}
        BY <2>2, <3>1, <3>3, <3>5 DEF OpenSource, Finished
      <4> QED
        BY <3>5, <4>1
    <3> QED
      BY <3>4, <3>5
  <2>3. CASE TaskStep(i) /\ ~OpenSource(i) /\ ~FinishLine(i)
    <3>1. task[i].at # "waiting" /\ task[i].result # "unopened" /\ task'[i].result # "unopened"
      BY <2>3, ShownOtherwise
    <3> QED
      BY <3>1 DEF OpenedInv
  <2>4. CASE FinishLine(i)
    <3>1. TaskOK(task[i], arrived[i]) /\ DOMAIN task = Sources
      BY DEF TypeInv, Tasks
    <3>2. task[i].at # "waiting" /\ task'[i].result = task[i].result
      BY <2>4, <3>1 DEF FinishLine, TaskOK
    <3> QED
      BY <3>2 DEF OpenedInv
  <2> QED
    BY <2>1, <2>2, <2>3, <2>4
<1> QED
  BY <1>1, <1>2 DEF OpenedInv

LEMMA LinesReadTyped ==
  ASSUME TypeInv, NEW i \in Sources
  PROVE  LinesRead(i) \in Seq(Seq(Pieces))
<1>1. Text(i) \in Seq(Pieces) /\ << >> \in Seq(Seq(Pieces))
  BY TextTyped
<1>2. LinesIn(Text(i)) \in Seq(Seq(Pieces))
  <2>1. PICK text \in Seq(Pieces) : text = Text(i)
    BY <1>1
  <2>2. Len(text) \in 0 .. Len(text)
    OBVIOUS
  <2> QED
    BY <2>1, <2>2, LinesUpToIs
<1>3. task[i].lines \in Seq(Seq(Pieces))
  BY DEF TypeInv, Tasks, TaskOK
<1> QED
  BY <1>1, <1>2, <1>3, LinesReadIs

LEMMA HeardTyped ==
  ASSUME TypeInv, NEW i \in Sources
  PROVE  Heard(i) \in Seq(Msgs)
<1>1. CASE Pages \/ Parallel
  BY <1>1 DEF Heard
<1>2. CASE ~Pages /\ ~Parallel
  <2>1. i \in Nat /\ \A j \in 1 .. i - 1 : j \in Sources
    BY SourcesAre DEF TypeInv
  <2>2. \A j \in 1 .. i - 1 : MessagesOf(LinesRead(j)) \in Seq(Msgs)
    BY <2>1, LinesReadTyped, MessagesOfIs
  <2>3. [j \in 1 .. i - 1 |-> MessagesOf(LinesRead(j))] \in Seq(Seq(Msgs))
    BY <2>1, <2>2
  <2>4. Tuple([j \in 1 .. i - 1 |-> MessagesOf(LinesRead(j))])
          = [j \in 1 .. i - 1 |-> MessagesOf(LinesRead(j))]
    BY <2>3, TupleIs
  <2> QED
    BY <1>2, <2>3, <2>4, FlattenTyped DEF Heard
<1> QED
  BY <1>1, <1>2

LEMMA DueTyped ==
  ASSUME TypeInv, NEW i \in Sources
  PROVE  DueOf(i) \in Seq(Bits)
<1>1. Decoded(i, Heard(i), LinesRead(i)) \in Seq(Bits)
  BY LinesReadTyped, HeardTyped, DecodedIs
<1> QED
  BY <1>1 DEF DueOf

LEMMA HeardIs ==
  ASSUME TypeInv, InOrder, ReadInv, NEW i \in Sources, task[i].lines # << >>
  PROVE  Before(i) = Heard(i)
<1>1. CASE Pages \/ Parallel
  BY <1>1 DEF Before, Heard
<1>2. CASE ~Pages /\ ~Parallel
  <2>1. i \in Nat /\ \A j \in 1 .. i - 1 : j \in Sources /\ j < i
    BY SourcesAre DEF TypeInv
  <2>2. task[i].at # "waiting"
    BY DEF TypeInv, Tasks, TaskOK, NewTask
  <2>3. ASSUME NEW j \in 1 .. i - 1
        PROVE  Told(task[j]) = MessagesOf(LinesRead(j)) /\ MessagesOf(LinesRead(j)) \in Seq(Msgs)
    <3>1. task[j].at = "done" /\ TaskOK(task[j], arrived[j]) /\ j \in Sources
      BY <1>2, <2>1, <2>2 DEF InOrder, TypeInv, Tasks
    <3>2. Told(task[j]) = MessagesOf(task[j].lines)
      BY <3>1, DoneLinesTyped
    <3>3. task[j].lines = LinesRead(j)
      BY <1>2 DEF ReadInv, ReadInOrder
    <3> QED
      BY <3>1, <3>2, <3>3, LinesReadTyped, MessagesOfIs
  <2>4. [j \in 1 .. i - 1 |-> MessagesOf(LinesRead(j))] \in Seq(Seq(Msgs))
    BY <2>1, <2>3
  <2>5. Tuple([j \in 1 .. i - 1 |-> MessagesOf(LinesRead(j))])
          = [j \in 1 .. i - 1 |-> MessagesOf(LinesRead(j))]
    BY <2>4, TupleIs
  <2>6. [j \in 1 .. i - 1 |-> MessagesOf(LinesRead(j))] = [j \in 1 .. i - 1 |-> Told(task[j])]
    BY <2>3
  <2> QED
    BY <1>2, <2>5, <2>6 DEF Before, Heard
<1> QED
  BY <1>1, <1>2

(* What has been read of a source begins what is to be read of it.         *)
LEMMA ReadBegins ==
  ASSUME TypeInv, ReadInv, NEW i \in Sources
  PROVE  \E rest \in Seq(Seq(Pieces)) : LinesRead(i) = task[i].lines \o rest
<1>1. task[i].lines \in Seq(Seq(Pieces)) /\ << >> \in Seq(Seq(Pieces))
  BY DEF TypeInv, Tasks, TaskOK
<1>2. PICK lines \in Seq(Seq(Pieces)) : lines = task[i].lines
  BY <1>1
<1>3. lines \o << >> = lines
  BY <1>2, ConcatEmptySeq
<1>4. CASE Skipped(i)
  <2>1. LinesRead(i) = lines
    BY <1>2, <1>4, LinesReadIs DEF ReadInv, ReadUnlessSkipped
  <2> QED
    BY <1>1, <1>2, <1>3, <2>1
<1>5. CASE ~Skipped(i) /\ opts.follow
  <2>1. LinesRead(i) = lines
    BY <1>2, <1>5, LinesReadIs
  <2> QED
    BY <1>1, <1>2, <1>3, <2>1
<1>6. CASE ~Skipped(i) /\ ~opts.follow
  <2>1. PICK text \in Seq(Pieces) : text = Text(i)
    BY TextTyped
  <2>2. PICK n \in 0 .. Len(text) : n = task[i].pos /\ lines = LinesUpTo(text, n)
    BY <1>2, <1>6, <2>1 DEF ReadInv, ReadAsGiven, ReadUpTo, Boundary
  <2>3. PICK rest \in Seq(Seq(Pieces)) : LinesIn(text) = LinesUpTo(text, n) \o rest
    BY LinesBegin
  <2>4. LinesRead(i) = LinesIn(text)
    BY <1>6, <2>1, LinesReadIs
  <2> QED
    BY <1>2, <2>2, <2>3, <2>4
<1> QED
  BY <1>4, <1>5, <1>6

LEMMA DoneBegins ==
  ASSUME NEW t, NEW most, TaskOK(t, most)
  PROVE  \E rest \in Seq(Seq(Pieces)) : t.lines = DoneLines(t) \o rest
<1>1. PICK lines \in Seq(Seq(Pieces)) : lines = t.lines
  BY DEF TaskOK
<1>2. LinesDone(t) \in 0 .. Len(lines)
  BY <1>1, ToldTyped
<1>3. PICK n \in 0 .. Len(lines) : n = LinesDone(t)
  BY <1>2
<1>4. lines = SubSeq(lines, 1, n) \o SubSeq(lines, n + 1, Len(lines))
  BY CutInTwo
<1>5. SubSeq(lines, n + 1, Len(lines)) \in Seq(Seq(Pieces))
  BY <1>3
<1> QED
  BY <1>1, <1>3, <1>4, <1>5 DEF DoneLines

(* What is shown of a source begins what is due of it, and is all of it    *)
(* when the source has been read to its end.                               *)
LEMMA ShownBegins ==
  ASSUME TypeInv, InOrder, ReadInv, OpenedInv, ~SummaryPager, NEW i \in Sources
  PROVE  \E x \in Seq(Bits) : DueOf(i) = Shown(i) \o x
<1>1. DueOf(i) \in Seq(Bits)
  BY DueTyped
<1>2. CASE task[i].at = "waiting" \/ task[i].result = "unopened"
  <2>1. Shown(i) = << >>
    BY <1>2 DEF Shown, ShownOf
  <2>2. << >> \o DueOf(i) = DueOf(i)
    BY <1>1, ConcatEmptySeq
  <2> QED
    BY <1>1, <2>1, <2>2
<1>3. CASE task[i].at # "waiting" /\ task[i].result # "unopened"
  <2>1. opts.sources[i].kind # "missing"
    BY <1>3 DEF OpenedInv
  <2>2. TaskOK(task[i], arrived[i]) /\ Before(i) \in Seq(Msgs) /\ Heard(i) \in Seq(Msgs)
    BY BeforeTyped, HeardTyped DEF TypeInv, Tasks
  <2>3. PICK done \in Seq(Seq(Pieces)) : done = DoneLines(task[i])
    BY <2>2, DoneLinesTyped
  <2>4. PICK r \in Seq(Seq(Pieces)) : task[i].lines = done \o r
    BY <2>2, <2>3, DoneBegins
  <2>5. PICK s \in Seq(Seq(Pieces)) : LinesRead(i) = task[i].lines \o s
    BY ReadBegins
  <2>6. PICK rest \in Seq(Seq(Pieces)) : rest = r \o s
    BY ConcatProperties
  <2>7. LinesRead(i) = done \o rest
    <3>1. done \o (r \o s) = (done \o r) \o s
      BY LinesTogether, Zenon
    <3> QED
      BY <2>4, <2>5, <2>6, <3>1, Zenon
  <2>8. Decoded(i, Before(i), done) = Decoded(i, Heard(i), done)
    <3>1. CASE done = << >>
      BY <2>2, <3>1, DecodedNone
    <3>2. CASE done # << >>
      <4>1. task[i].lines # << >>
        BY <2>4, <3>2, ConcatProperties
      <4> QED
        BY <4>1, HeardIs
    <3> QED
      BY <3>1, <3>2
  <2>9. PICK x \in Seq(Bits) : Decoded(i, Heard(i), done \o rest) = Decoded(i, Heard(i), done) \o x
    BY <2>2, DecodedMore
  <2>10. DueOf(i) = Decoded(i, Heard(i), done \o rest)
    BY <2>1, <2>7 DEF DueOf
  <2>11. Shown(i) = Decoded(i, Before(i), done)
    BY <1>3, <2>3 DEF Shown, ShownOf
  <2> QED
    BY <2>8, <2>9, <2>10, <2>11, Zenon
<1> QED
  BY <1>2, <1>3

LEMMA ShownWhole ==
  ASSUME TypeInv, InOrder, ReadInv, OpenedInv, ~SummaryPager, ~interrupted, NEW i \in Sources,
         task[i].at = "done"
  PROVE  Shown(i) = DueOf(i)
<1>1. CASE task[i].result = "unopened"
  BY <1>1 DEF Shown, ShownOf, DueOf, OpenedInv
<1>2. CASE task[i].result # "unopened"
  <2>1. opts.sources[i].kind # "missing"
    BY <1>2 DEF OpenedInv
  <2>2. TaskOK(task[i], arrived[i]) /\ Before(i) \in Seq(Msgs) /\ Heard(i) \in Seq(Msgs)
    BY BeforeTyped, HeardTyped DEF TypeInv, Tasks
  <2>3. DoneLines(task[i]) = LinesRead(i) /\ task[i].lines = LinesRead(i)
    BY <2>2, DoneLinesTyped DEF ReadInv, ReadToTheEnd
  <2>4. Decoded(i, Before(i), LinesRead(i)) = Decoded(i, Heard(i), LinesRead(i))
    <3>1. CASE LinesRead(i) = << >>
      BY <2>2, <3>1, DecodedNone
    <3>2. CASE LinesRead(i) # << >>
      BY <2>3, <3>2, HeardIs
    <3> QED
      BY <3>1, <3>2
  <2> QED
    BY <1>2, <2>1, <2>3, <2>4 DEF Shown, ShownOf, DueOf
<1> QED
  BY <1>1, <1>2

-----------------------------------------------------------------------------
LEMMA DuesTyped ==
  ASSUME TypeInv
  PROVE  Dues \in Seq(Seq(Bits)) /\ Len(Dues) = Len(opts.sources)
         /\ \A i \in Sources : Dues[i] = DueOf(i)
<1>1. Sources = 1 .. Len(opts.sources) /\ Len(opts.sources) \in Nat
  BY SourcesAre DEF TypeInv
<1>2. \A i \in Sources : DueOf(i) \in Seq(Bits)
  BY DueTyped
<1> QED
  BY <1>1, <1>2 DEF Dues

LEMMA OutsTyped ==
  ASSUME TypeInv
  PROVE  Outs \in Seq(Seq(Bits)) /\ Len(Outs) = Len(opts.sources)
         /\ \A i \in Sources : Outs[i] = Out(i)
<1>1. Sources = 1 .. Len(opts.sources) /\ Len(opts.sources) \in Nat /\ << >> \in Seq(Bits)
  BY SourcesAre DEF TypeInv
<1>2. \A i \in Sources : Out(i) \in Seq(Bits)
  BY <1>1, ShownTyped DEF Out
<1> QED
  BY <1>1, <1>2 DEF Outs

LEMMA PromisedIs ==
  ASSUME TypeInv, opts.ends = {}, opts.commands = << >>
  PROVE  Promised = Dues
<1>1. Dues = [i \in Sources |-> IF SummaryPager \/ opts.sources[i].kind = "missing" THEN << >>
                                ELSE Decoded(i, Heard(i), LinesRead(i))]
  BY DEF Dues, DueOf
<1>2. Tuple(Dues) = Dues
  BY DuesTyped, TupleIs
<1> QED
  BY <1>1, <1>2 DEF Promised

LEMMA OutsBegun ==
  ASSUME TypeInv, InOrder, ReadInv, OpenedInv
  PROVE  Begun(Outs, Dues, Bits)
<1>1. Sources = 1 .. Len(opts.sources)
  BY SourcesAre DEF TypeInv
<1>2. ASSUME NEW i \in Sources PROVE \E r \in Seq(Bits) : DueOf(i) = Out(i) \o r
  <2>1. CASE Out(i) = << >>
    <3>1. DueOf(i) \in Seq(Bits)
      BY DueTyped
    <3>2. << >> \o DueOf(i) = DueOf(i)
      BY <3>1, ConcatEmptySeq
    <3> QED
      BY <2>1, <3>1, <3>2
  <2>2. CASE Out(i) # << >>
    <3>1. ~SummaryPager /\ Out(i) = Shown(i)
      BY <2>2 DEF Out
    <3> QED
      BY <3>1, ShownBegins
  <2> QED
    BY <2>1, <2>2
<1> QED
  BY <1>1, <1>2, DuesTyped, OutsTyped DEF Begun

LEMMA OutsInTurn ==
  ASSUME TypeInv, InOrder, ReadInv, OpenedInv, ~interrupted
  PROVE  InTurn(Outs, Dues)
<1>1. Sources = 1 .. Len(opts.sources) /\ Len(opts.sources) \in Nat
  BY SourcesAre DEF TypeInv
<1>2. ASSUME NEW k \in Sources, Out(k) # << >>, NEW j \in 1 .. k - 1
      PROVE  j \in Sources /\ Out(j) = DueOf(j)
  <2>1. j \in Sources /\ j < k
    BY <1>1
  <2>2. ~SummaryPager /\ (Pages => stage = "close") /\ (Parallel => k <= emitted)
        /\ Shown(k) # << >>
    BY <1>1, <1>2 DEF Out, TypeInv, Scalars
  <2>3. emitted \in Nat /\ j \in Nat /\ k \in Nat
    BY <1>1 DEF TypeInv, Scalars
  <2>4. Out(j) = Shown(j)
    BY <2>1, <2>2, <2>3 DEF Out
  <2>5. task[j].at = "done"
    <3>1. CASE Parallel
      BY <2>1, <2>2, <2>3, <3>1 DEF InOrder, AllDone
    <3>2. CASE ~Parallel
      <4>1. task[k].at # "waiting"
        BY <2>2 DEF Shown, ShownOf
      <4> QED
        BY <2>1, <3>2, <4>1 DEF InOrder
    <3> QED
      BY <3>1, <3>2
  <2> QED
    BY <2>1, <2>2, <2>4, <2>5, ShownWhole
<1> QED
  BY <1>1, <1>2, DuesTyped, OutsTyped DEF InTurn

(* When all have been read and nobody interrupted it, everything is out.   *)
LEMMA OutsComplete ==
  ASSUME TypeInv, InOrder, ReadInv, OpenedInv, ~interrupted, stage = "close"
  PROVE  Outs = Dues
<1>1. ASSUME NEW i \in Sources PROVE Out(i) = DueOf(i)
  <2>1. task[i].at = "done" /\ (Parallel => ~(i > emitted))
    <3>1. i \in 1 .. Len(opts.sources) /\ Len(opts.sources) \in Nat
      BY SourcesAre DEF TypeInv
    <3>2. AllDone /\ (Parallel => emitted = Len(opts.sources))
      BY DEF InOrder
    <3> QED
      BY <3>1, <3>2 DEF AllDone
  <2>2. CASE SummaryPager
    BY <2>2 DEF Out, DueOf
  <2>3. CASE ~SummaryPager
    BY <2>1, <2>3, ShownWhole DEF Out
  <2> QED
    BY <2>2, <2>3
<1> QED
  BY <1>1 DEF Outs, Dues

(* All of it together is what has been written.                            *)
LEMMA OutsTogether ==
  ASSUME TypeInv
  PROVE  Due = FlattenSeq(Outs)
<1>1. Sources = 1 .. Len(opts.sources) /\ Len(opts.sources) \in Nat /\ emitted \in 0 .. Len(opts.sources)
  BY SourcesAre DEF TypeInv, Scalars
<1>2. CASE SummaryPager \/ (Pages /\ stage # "close")
  <2>1. Outs = [i \in 1 .. Len(opts.sources) |-> << >>]
    BY <1>1, <1>2 DEF Outs, Out
  <2>2. Outs \in Seq({<< >>})
    BY <1>1, <2>1
  <2> QED
    BY <1>2, <2>2, FlattenEmpties DEF Due
<1>3. CASE ~(SummaryPager \/ (Pages /\ stage # "close")) /\ ~Parallel
  BY <1>3 DEF Due, AllShown, Outs, Out
<1>4. CASE ~(SummaryPager \/ (Pages /\ stage # "close")) /\ Parallel
  <2> DEFINE first == SubSeq(Outs, 1, emitted)
             last == SubSeq(Outs, emitted + 1, Len(Outs))
  <2>1. Outs \in Seq(Seq(Bits)) /\ Len(Outs) = Len(opts.sources)
        /\ \A i \in Sources : Outs[i] = Out(i)
    BY OutsTyped
  <2>2. emitted \in 0 .. Len(Outs) /\ Len(Outs) \in Nat
    BY <1>1, <2>1
  <2>8. first \in Seq(Seq(Bits)) /\ last \in Seq(Seq(Bits)) /\ Outs = first \o last
        /\ Len(last) = Len(Outs) - emitted
        /\ \A k \in 1 .. Len(last) : last[k] = Outs[emitted + k]
    <3>4. PICK outs \in Seq(Seq(Bits)) : outs = Outs
      BY <2>1
    <3>1. PICK n \in 0 .. Len(outs) : n = emitted
      BY <2>2, <3>4
    <3>2. outs = SubSeq(outs, 1, n) \o SubSeq(outs, n + 1, Len(outs))
      BY CutInTwo
    <3>3. SubSeq(outs, 1, n) \in Seq(Seq(Bits)) /\ SubSeq(outs, n + 1, Len(outs)) \in Seq(Seq(Bits))
          /\ Len(SubSeq(outs, n + 1, Len(outs))) = Len(outs) - n
          /\ \A k \in 1 .. Len(outs) - n : SubSeq(outs, n + 1, Len(outs))[k] = outs[n + k]
      OBVIOUS
    <3> QED
      BY <3>1, <3>2, <3>3, <3>4
  <2>3. first = [i \in 1 .. emitted |-> Shown(i)]
    BY <1>1, <1>4, <2>1 DEF Out
  <2>4. last \in Seq({<< >>})
    <3>1. ASSUME NEW k \in 1 .. Len(last) PROVE last[k] = << >>
      <4>1. emitted + k \in Sources /\ emitted + k > emitted /\ last[k] = Outs[emitted + k]
        <5> HIDE DEF last
        <5> QED
          BY <1>1, <2>1, <2>2, <2>8
      <4> QED
        BY <1>4, <2>1, <4>1 DEF Out
    <3> HIDE DEF last
    <3>2. last = [k \in 1 .. Len(last) |-> last[k]] /\ Len(last) \in Nat
      BY <2>8
    <3> QED
      BY <3>1, <3>2
  <2>5. FlattenSeq(last) = << >> /\ FlattenSeq(first) \in Seq(Bits)
    BY <2>8, <2>4, FlattenEmpties, FlattenTyped
  <2>6. FlattenSeq(Outs) = FlattenSeq(first) \o FlattenSeq(last)
    <3> HIDE DEF first, last
    <3> QED
      BY <2>8, FlattenConcat
  <2>7. FlattenSeq(Outs) = FlattenSeq(first)
    <3> HIDE DEF first, last
    <3> QED
      BY <2>5, <2>6, ConcatEmptySeq
  <2> QED
    BY <1>4, <2>3, <2>7 DEF Due, ShownByThreads
<1> QED
  BY <1>2, <1>3, <1>4

LEMMA ReadsAre == TypeInv => ReadsTyped
BY LinesReadTyped, HeardTyped DEF ReadsTyped

LEMMA DueAfter ==
  ASSUME TypeInv, TypeInv', [Next]_vars, NEW i \in Sources,
         NEW heard, heard = Heard(i)', NEW lines, lines = LinesRead(i)'
  PROVE  /\ heard \in Seq(Msgs) /\ lines \in Seq(Seq(Pieces))
         /\ DueOf(i)' = IF SummaryPager \/ opts.sources[i].kind = "missing" THEN << >>
                        ELSE Decoded(i, heard, lines)
<1>1. UNCHANGED opts /\ i \in Sources' /\ (SummaryPager' <=> SummaryPager)
  BY OptsStay, ShapeStays DEF Sources
<1>2. ReadsTyped'
  BY ReadsAre, PTL
<1>3. heard \in Seq(Msgs) /\ lines \in Seq(Seq(Pieces))
  BY <1>1, <1>2 DEF ReadsTyped
<1>4. DueOf(i)' = IF SummaryPager' \/ opts'.sources[i].kind = "missing" THEN << >>
                  ELSE Decoded(i, heard, lines)'
  BY DEF DueOf
<1>5. Decoded(i, heard, lines)' = Decoded(i, heard, lines)
  BY <1>1, DecodedStays
<1> QED
  BY <1>1, <1>3, <1>4, <1>5

(* What is heard before a source stays when what is read before it does.   *)
LEMMA HeardStays ==
  ASSUME TypeInv, [Next]_vars, NEW i \in Sources,
         ~Pages /\ ~Parallel => \A j \in 1 .. i - 1 : LinesRead(j)' = LinesRead(j)
  PROVE  Heard(i)' = Heard(i)
<1>1. (Pages' <=> Pages) /\ (Parallel' <=> Parallel)
  BY OptsStay, ShapeStays
<1>2. CASE Pages \/ Parallel
  BY <1>1, <1>2 DEF Heard
<1>3. CASE ~Pages /\ ~Parallel
  <2>1. [j \in 1 .. i - 1 |-> MessagesOf(LinesRead(j))]'
           = [j \in 1 .. i - 1 |-> MessagesOf(LinesRead(j))]
    BY <1>3
  <2> QED
    BY <1>1, <1>3, <2>1 DEF Heard, Tuple
<1> QED
  BY <1>2, <1>3

LEMMA DueStays ==
  ASSUME TypeInv, TypeInv', [Next]_vars, NEW i \in Sources, LinesRead(i)' = LinesRead(i),
         ~Pages /\ ~Parallel => \A j \in 1 .. i - 1 : LinesRead(j)' = LinesRead(j)
  PROVE  DueOf(i)' = DueOf(i)
<1>1. Heard(i)' = Heard(i)
  BY HeardStays
<1>2. PICK heard : heard = Heard(i)'
  OBVIOUS
<1>3. PICK lines : lines = LinesRead(i)'
  OBVIOUS
<1>4. DueOf(i)' = IF SummaryPager \/ opts.sources[i].kind = "missing" THEN << >>
                  ELSE Decoded(i, heard, lines)
  BY <1>2, <1>3, DueAfter
<1> QED
  BY <1>1, <1>2, <1>3, <1>4 DEF DueOf

(* The promise is Promised after every step.                               *)
LEMMA AnswersStay ==
  ASSUME UNCHANGED opts, NEW CONSTANT command
  PROVE  AnswerDue(command)' = AnswerDue(command)
BY DEF AnswerDue, SelectedKey, Customs, LastAt

LEMMA PromisedWhenDecoding ==
  TypeInv /\ Decoding => DuesPromised
BY PromisedIs DEF Decoding, DuesPromised

LEMMA PromisedStays ==
  ASSUME TypeInv, TypeInv', [Next]_vars, \A i \in Sources : LinesRead(i)' = LinesRead(i)
  PROVE  Promised' = Promised
<1>1. UNCHANGED opts /\ Sources' = Sources
  BY OptsStay DEF Sources
<1>2. CASE opts.ends # {}
  BY <1>1, <1>2 DEF Promised
<1>3. CASE opts.ends = {} /\ opts.commands # << >>
  <2>1. \A command : AnswerDue(command)' = AnswerDue(command)
    BY <1>1, AnswersStay
  <2>2. [n \in DOMAIN opts.commands |-> AnswerDue(opts.commands[n])]'
           = [n \in DOMAIN opts.commands |-> AnswerDue(opts.commands[n])]
    BY <1>1, <2>1
  <2> QED
    BY <1>1, <1>3, <2>2 DEF Promised, Tuple
<1>4. CASE opts.ends = {} /\ opts.commands = << >>
  <2>1. Promised = Dues
    BY <1>4, PromisedIs
  <2>2. Promised' = Dues'
    <3>1. TypeInv' /\ Decoding'
      BY <1>1, <1>4 DEF Decoding
    <3>2. DuesPromised'
      BY <3>1, PromisedWhenDecoding, PTL
    <3> QED
      BY <3>2 DEF DuesPromised
  <2>3. \A i \in Sources : DueOf(i)' = DueOf(i)
    <3>1. \A i \in Sources : \A j \in 1 .. i - 1 : j \in Sources
      BY SourcesAre DEF TypeInv
    <3> QED
      BY <3>1, DueStays
  <2>4. Dues' = Dues
    BY <1>1, <2>3 DEF Dues
  <2> QED
    BY <2>1, <2>2, <2>4
<1> QED
  BY <1>2, <1>3, <1>4

LEMMA PromisedSteps ==
  [PromisedNext]_<<vars, promised>> => [Next]_vars
<1>1. PromisedNext => Next
  BY DEF PromisedNext, Next, TaskStep
<1> QED
  BY <1>1

LEMMA PromiseKept ==
  ASSUME TypeInv, TypeInv', CacheInv, KeepsPromise, [PromisedNext]_<<vars, promised>>
  PROVE  KeepsPromise'
<1>1. [Next]_vars
  BY PromisedSteps
<1>2. CASE \E i \in Sources : TakeLine(i) /\ promised' = IF opts.follow THEN Promised' ELSE promised
  <2>1. CASE opts.follow
    BY <1>2, <2>1 DEF KeepsPromise
  <2>2. CASE ~opts.follow
    <3>1. promised' = promised
      BY <1>2, <2>2
    <3>2. \A i \in Sources : LinesRead(i)' = LinesRead(i)
      BY <1>1, <2>2, LinesReadStays
    <3> QED
      BY <1>1, <3>1, <3>2, PromisedStays DEF KeepsPromise
  <2> QED
    BY <2>1, <2>2
<1>3. CASE ~\E i \in Sources : TakeLine(i) /\ promised' = IF opts.follow THEN Promised' ELSE promised
  <2>1. promised' = promised /\ \A i \in Sources : task'[i].lines = task[i].lines
    <3>1. CASE UNCHANGED task /\ UNCHANGED promised
      BY <3>1
    <3>2. CASE MainStep /\ UNCHANGED promised
      BY <3>2 DEF MainStep, ReadOptions, Register, Begin, Answer, EmitFile, Close, Exit
    <3>3. CASE (Interrupt \/ QuitPager \/ \E i \in Sources : Arrive(i)) /\ UNCHANGED promised
      BY <3>3 DEF Interrupt, QuitPager, Arrive
    <3>4. ASSUME NEW i \in Sources, TaskStep(i), task'[i].lines = task[i].lines, UNCHANGED promised
          PROVE  promised' = promised /\ \A j \in Sources : task'[j].lines = task[j].lines
      <4>1. \A j \in Sources \ {i} : task'[j] = task[j]
        BY <3>4, TaskMoves
      <4> QED
        BY <3>4, <4>1
    <3> QED
      BY <1>3, <3>1, <3>2, <3>3, <3>4 DEF PromisedNext, vars, fileVars
  <2>2. \A i \in Sources : LinesRead(i)' = LinesRead(i)
    BY <1>1, <2>1, LinesReadStays
  <2> QED
    BY <1>1, <2>1, <2>2, PromisedStays DEF KeepsPromise
<1> QED
  BY <1>2, <1>3

LEMMA FitsWhenDecoding ==
  TypeInv /\ InOrder /\ StageInv /\ ReadInv /\ OpenedInv /\ WriteInv /\ KeepsPromise => OutputFits
<1> SUFFICES ASSUME TypeInv, InOrder, StageInv, ReadInv, OpenedInv, WriteInv, KeepsPromise,
                    stage \in {"process", "close"}, ~left
             PROVE  Fits
  BY DEF OutputFits
<1>1. promised = Dues
  BY PromisedIs DEF StageInv, KeepsPromise
<1>2. Lines = FlattenSeq(Outs)
  BY OutsTogether DEF WriteInv, Writing
<1>3. Outs \in Seq(Seq(Bits)) /\ promised \in Seq(Seq(Bits)) /\ Begun(Outs, promised, Bits)
  BY <1>1, OutsTyped, DuesTyped, OutsBegun
<1>4. Lines \in Output!Cuts
  BY <1>2, <1>3, BegunIsCut
<1>5. ~interrupted => Output!IsPrefix(Lines, Output!FlattenSeq(promised))
  BY <1>1, <1>2, <1>3, OutsInTurn, BegunIsPrefix
<1> QED
  BY <1>4, <1>5 DEF Fits

LEMMA CompleteAtTheEnd ==
  ASSUME TypeInv, InOrder, StageInv, ReadInv, OpenedInv, WriteInv, KeepsPromise,
         stage = "close", ~left, ~interrupted
  PROVE  Lines = Output!FlattenSeq(promised)
<1>1. promised = Dues
  BY PromisedIs DEF StageInv, KeepsPromise
<1>2. Lines = FlattenSeq(Outs)
  BY OutsTogether DEF WriteInv, Writing
<1> QED
  BY <1>1, <1>2, OutsComplete, OutputFlattens

-----------------------------------------------------------------------------
LEMMA FilesGrow ==
  ASSUME NEW S, NEW customs \in Seq(S), NEW n \in 1 .. Len(customs)
  PROVE  FilesOf(customs, n) = With(FilesOf(customs, n - 1), customs[n], n)
<1>1. n \in Nat /\ n - 1 \in Nat /\ 1 .. n = (1 .. n - 1) \cup {n} /\ n \in DOMAIN customs
      /\ DOMAIN customs = 1 .. Len(customs) /\ Len(customs) \in Nat
  OBVIOUS
<1>2. KeysOf(customs, n) = KeysOf(customs, n - 1) \cup {customs[n]}
  <2>1. customs[n] \in ToSet(customs)
    BY <1>1 DEF ToSet
  <2> QED
    BY <1>1, <2>1 DEF KeysOf
<1>3. LastOf(customs, n, customs[n]) = n
  <2> DEFINE M == {m \in 1 .. n : customs[m] = customs[n]}
  <2>1. M \subseteq 0 .. n /\ n \in M /\ \A k \in M : k <= n
    BY <1>1
  <2> HIDE DEF M
  <2>2. Max(M) = n
    BY <1>1, <2>1, MaxUnique
  <2> QED
    BY <2>2 DEF LastOf, M
<1>4. ASSUME NEW key \in KeysOf(customs, n - 1), key # customs[n]
      PROVE  LastOf(customs, n, key) = LastOf(customs, n - 1, key)
  <2>1. {m \in 1 .. n : customs[m] = key} = {m \in 1 .. n - 1 : customs[m] = key}
    BY <1>1, <1>4
  <2> QED
    BY <2>1 DEF LastOf
<1> QED
  BY <1>2, <1>3, <1>4 DEF FilesOf, With

LEMMA FilesNone ==
  ASSUME NEW customs
  PROVE  FilesOf(customs, 0) = [key \in {} |-> 0]
<1>1. KeysOf(customs, 0) = {}
  BY DEF KeysOf
<1> QED
  BY <1>1 DEF FilesOf

LEMMA LoadedIs ==
  ASSUME NEW S, NEW customs \in Seq(S)
  PROVE  LoadedFrom(customs) = FilesOf(customs, Len(customs))
<1> DEFINE g == [n \in 0 .. Len(customs) |-> FilesOf(customs, n)]
           loaded == CHOOSE f : f = LoadRule(customs, f)
           Right(n) == n <= Len(customs) => loaded[n] = FilesOf(customs, n)
           C == {n \in Nat : Right(n)}
<1>1. Len(customs) \in Nat
  OBVIOUS
<1>2. g = LoadRule(customs, g)
  <2>1. ASSUME NEW n \in 0 .. Len(customs)
        PROVE  g[n] = IF n = 0 THEN [key \in {} |-> 0] ELSE With(g[n - 1], customs[n], n)
    <3>1. CASE n = 0
      BY <1>1, <3>1, FilesNone
    <3>2. CASE n # 0
      <4>1. n \in 1 .. Len(customs) /\ n - 1 \in 0 .. Len(customs)
        BY <1>1, <3>2
      <4>2. g[n] = FilesOf(customs, n) /\ g[n - 1] = FilesOf(customs, n - 1)
        BY <4>1
      <4> QED
        BY <3>2, <4>1, <4>2, FilesGrow
    <3> QED
      BY <3>1, <3>2
  <2> QED
    BY <2>1 DEF LoadRule
<1>3. loaded = LoadRule(customs, loaded)
  <2> HIDE DEF g
  <2> QED
    BY <1>2, Zenon
<1>4. LoadedFrom(customs) = loaded[Len(customs)]
  BY Zenon DEF LoadedFrom, LoadRule
<1> HIDE DEF loaded, g
<1>5. Right(0)
  BY <1>1, <1>3, FilesNone DEF LoadRule
<1>6. ASSUME NEW n \in Nat, Right(n) PROVE Right(n + 1)
  <2> SUFFICES ASSUME n + 1 <= Len(customs) PROVE loaded[n + 1] = FilesOf(customs, n + 1)
    OBVIOUS
  <2>1. n + 1 \in 1 .. Len(customs) /\ n + 1 # 0 /\ (n + 1) - 1 = n /\ n + 1 \in 0 .. Len(customs)
    BY <1>1
  <2>2. loaded[n] = FilesOf(customs, n)
    BY <1>6, <2>1
  <2>3. loaded[n + 1] = With(loaded[(n + 1) - 1], customs[n + 1], n + 1)
    BY <1>3, <2>1 DEF LoadRule
  <2>4. FilesOf(customs, n + 1) = With(FilesOf(customs, (n + 1) - 1), customs[n + 1], n + 1)
    BY <2>1, FilesGrow
  <2> QED
    BY <2>1, <2>2, <2>3, <2>4
<1>7. \A n \in Nat : n \in C
  <2> HIDE DEF Right
  <2>1. 0 \in C /\ \A n \in Nat : n \in C => n + 1 \in C
    BY <1>5, <1>6
  <2> HIDE DEF C
  <2> QED
    BY <2>1, UpwardInduction
<1>8. Right(Len(customs))
  <2> HIDE DEF Right
  <2> QED
    BY <1>1, <1>7
<1> QED
  BY <1>1, <1>4, <1>8

(* The answers are those that are due.                                     *)
LEMMA AnswersAreDue ==
  ASSUME opts \in CommandLines, NEW command
  PROVE  AnswerTo(command) = AnswerDue(command)
<1>1. PICK S : opts.customs \in Seq(S)
  BY OptionsTyped
<1>2. PICK files : files = LoadedFrom(opts.customs)
  OBVIOUS
<1>3. Len(opts.customs) \in Nat /\ DOMAIN opts.customs = 1 .. Len(opts.customs)
  BY <1>1
<1>4. files = FilesOf(opts.customs, Len(opts.customs))
  BY <1>1, <1>2, LoadedIs
<1>5. KeysOf(opts.customs, Len(opts.customs)) = Customs
  BY <1>1, <1>3 DEF KeysOf, Customs, ToSet
<1>6. \A key : FileOf(key) = IF key \in Customs THEN LastAt(key) ELSE 0
  BY <1>2, <1>3, <1>4, <1>5 DEF FileOf, FilesOf, LastOf, LastAt
<1>7. Listing = [key \in EmbeddedKeys \cup Customs |-> IF key \in Customs THEN LastAt(key) ELSE 0]
  BY <1>6 DEF Listing, AllKeys, Customs
<1>8. [key \in {SelectedKey} |-> FileOf(key)]
        = [key \in {SelectedKey} |-> IF key \in Customs THEN LastAt(key) ELSE 0]
  BY <1>6
<1> QED
  BY <1>7, <1>8 DEF AnswerTo, AnswerDue

(* The questions are a sequence, and so are their answers.                 *)
LEMMA CommandsTyped ==
  ASSUME NEW o \in CommandLines
  PROVE  o.commands \in Seq(ToSet(o.commands))
<1>1. PICK asked \in Invocations : o = Line!OptionsOf(asked)
  BY DEF CommandLines
<1>2. o.commands = Line!Commands(asked.given, asked.defaults)
  BY <1>1 DEF Line!OptionsOf
<1> DEFINE asks(name, query) ==
               IF query = NoKey THEN << >> ELSE <<[name |-> name, query |-> query]>>
<1>3. PICK p, q, r, s : o.commands = asks("info", p) \o asks("message", q) \o asks("tag", r)
                                       \o asks("component", s)
  BY <1>2, Zenon DEF Line!Commands
<1>4. PICK x : x = <<[name |-> "info", query |-> p], [name |-> "message", query |-> q],
                     [name |-> "tag", query |-> r], [name |-> "component", query |-> s]>>
  OBVIOUS
<1>7. PICK S : S = {x[1], x[2], x[3], x[4]}
  OBVIOUS
<1>8. \A e \in S : <<e>> \in Seq(S)
  OBVIOUS
<1>9. << >> \in Seq(S) /\ x[1] \in S /\ x[2] \in S /\ x[3] \in S /\ x[4] \in S
  BY <1>7
<1>10. /\ x[1] = [name |-> "info", query |-> p] /\ x[2] = [name |-> "message", query |-> q]
       /\ x[3] = [name |-> "tag", query |-> r] /\ x[4] = [name |-> "component", query |-> s]
  BY <1>4
<1>5. /\ asks("info", p) \in Seq(S) /\ asks("message", q) \in Seq(S)
      /\ asks("tag", r) \in Seq(S) /\ asks("component", s) \in Seq(S)
  BY <1>8, <1>9, <1>10
<1> HIDE DEF asks
<1>6. o.commands \in Seq(S)
  BY <1>3, <1>5
<1> QED
  BY <1>6, InSeqOfElements

LEMMA AnswersTyped ==
  ASSUME opts \in CommandLines
  PROVE  /\ Answers \in Seq(Replies) /\ Len(Answers) = Len(opts.commands)
         /\ DOMAIN opts.commands = 1 .. Len(opts.commands) /\ Len(opts.commands) \in Nat
         /\ \A n \in 1 .. Len(opts.commands) : Answers[n] = AnswerDue(opts.commands[n])
         /\ \A b \in Replies : OfSources(b)
<1>1. DOMAIN opts.commands = 1 .. Len(opts.commands) /\ Len(opts.commands) \in Nat
  BY CommandsTyped
<1>2. \A n \in 1 .. Len(opts.commands) : AnswerDue(opts.commands[n]) \in Replies
  BY <1>1 DEF Replies
<1>3. \A b \in Replies : OfSources(b)
  BY DEF Replies, AnswerDue, OfSources
<1> QED
  BY <1>1, <1>2, <1>3 DEF Answers

LEMMA PromisedAnswers ==
  ASSUME opts \in CommandLines, opts.ends = {}, opts.commands # << >>
  PROVE  Promised = <<Answers>>
<1>1. Tuple(Answers) = Answers
  BY AnswersTyped, TupleIs
<1>2. DOMAIN opts.commands = 1 .. Len(opts.commands)
  BY AnswersTyped
<1> QED
  BY <1>1, <1>2 DEF Promised, Answers

LEMMA AnsweringInit == Init => Answering
BY DEF Init, Answering

LEMMA AnsweringKept ==
  ASSUME TypeInv, StageInv, Answering, [Next]_vars
  PROVE  Answering'
<1>1. UNCHANGED opts /\ opts \in CommandLines
  BY OptsStay DEF TypeInv
<1>9. Len(opts.commands) \in Nat /\ Len(Answers) = Len(opts.commands)
      /\ \A n \in 1 .. Len(opts.commands) : Answers[n] = AnswerDue(opts.commands[n])
  BY <1>1, AnswersTyped
<1>2. Answers' = Answers
  <2>1. \A command : AnswerDue(command)' = AnswerDue(command)
    BY <1>1, AnswersStay
  <2> QED
    BY <1>1, <2>1 DEF Answers
<1>3. CASE UNCHANGED <<printed, stage>>
  BY <1>1, <1>2, <1>3 DEF Answering
<1>4. CASE Answer /\ ~UNCHANGED printed
  <2>10. PICK n : n = Len(printed)
    OBVIOUS
  <2>1. stage = "answer" /\ n \in 0 .. Len(opts.commands) /\ printed = SubSeq(Answers, 1, n)
    BY <1>4, <2>10 DEF Answer, Answering
  <2>2. n + 1 \in 1 .. Len(opts.commands) /\ printed' = Append(printed, AnswerTo(opts.commands[n + 1]))
    <3>1. /\ ~(Len(printed) + 1 > Len(opts.commands))
          /\ printed' = Append(printed, AnswerTo(opts.commands[Len(printed) + 1]))
      BY <1>4, Zenon DEF Answer
    <3>2. n + 1 \in 1 .. Len(opts.commands)
      BY <1>9, <2>1, <2>10, <3>1
    <3> QED
      BY <2>10, <3>1, <3>2, Zenon
  <2>3. AnswerTo(opts.commands[n + 1]) = Answers[n + 1]
    BY <1>1, <2>2, AnswersAreDue, AnswersTyped
  <2>4. PICK a \in Seq(Replies) : a = Answers
    BY <1>1, AnswersTyped
  <2>9. PICK k \in Nat : k = n
    BY <1>9, <2>1
  <2>5. k + 1 \in 1 .. Len(a)
    BY <1>9, <2>2, <2>4, <2>9
  <2>6. Append(SubSeq(a, 1, k), a[k + 1]) = SubSeq(a, 1, k + 1)
        /\ Len(Append(SubSeq(a, 1, k), a[k + 1])) = k + 1
    BY <2>5
  <2>7. printed' = SubSeq(Answers, 1, n + 1) /\ Len(printed') = n + 1
    BY <2>1, <2>2, <2>3, <2>4, <2>6, <2>9
  <2>8. Len(printed') \in 0 .. Len(opts.commands)
    BY <2>2, <2>7
  <2> QED
    BY <1>1, <1>2, <2>7, <2>8 DEF Answering
<1>5. CASE stage' # "answer"
  BY <1>5 DEF Answering
<1>6. CASE Begin /\ stage' = "answer"
  <2>1. printed' = << >>
    BY <1>6 DEF Begin, StageInv
  <2>2. SubSeq(Answers, 1, 0) = << >> /\ Len(<< >>) = 0 /\ Len(opts.commands) \in Nat
    BY <1>1, AnswersTyped
  <2>3. 0 \in 0 .. Len(opts.commands)
    BY <2>2
  <2> QED
    BY <1>1, <1>2, <2>1, <2>2, <2>3 DEF Answering
<1>7. \/ UNCHANGED <<printed, stage>> \/ Answer \/ stage' # "answer" \/ Begin
  <2>1. ASSUME NEW i \in Sources, TaskStep(i) PROVE stage' # "answer"
    <3>1. stage = "process" /\ stage' = stage
      BY <2>1, InProcess, TaskMoves
    <3> QED
      BY <3>1
  <2>2. CASE Interrupt \/ QuitPager \/ \E i \in Sources : Arrive(i)
    BY <2>2 DEF Interrupt, QuitPager, Arrive
  <2>3. CASE ReadOptions \/ EmitFile \/ Close \/ Exit
    BY <2>3 DEF ReadOptions, EmitFile, Close, Exit, Ends, Goes
  <2>4. CASE Register
    BY <2>4 DEF Register, Ends
  <2> QED
    BY <2>1, <2>2, <2>3, <2>4 DEF Next, MainStep, vars, fileVars
<1>8. Answer => UNCHANGED stage \/ stage' # "answer"
  BY DEF Answer, Ends
<1> QED
  BY <1>3, <1>4, <1>5, <1>6, <1>7, <1>8

LEMMA FitsWhenAnswering ==
  TypeInv /\ StageInv /\ Answering /\ KeepsPromise => AnswersFit
<1> SUFFICES ASSUME TypeInv, StageInv, Answering, KeepsPromise, stage = "answer"
             PROVE  /\ Fits /\ printed \in Seq(Replies) /\ Lines = printed
                    /\ Len(printed) = Len(opts.commands) => Lines = Output!FlattenSeq(promised)
  BY DEF AnswersFit
<1>1. opts \in CommandLines /\ opts.ends = {} /\ opts.commands # << >>
  BY DEF TypeInv, StageInv
<1>2. promised = <<Answers>>
  BY <1>1, PromisedAnswers DEF KeepsPromise
<1>3. Answers \in Seq(Replies) /\ Len(Answers) = Len(opts.commands) /\ \A b \in Replies : OfSources(b)
  BY <1>1, AnswersTyped
<1>4. PICK a \in Seq(Replies) : a = Answers
  BY <1>3
<1>5. PICK n \in 0 .. Len(a) : n = Len(printed) /\ printed = SubSeq(a, 1, n)
  BY <1>3, <1>4 DEF Answering
<1>6. PICK p \in Seq(Replies), r \in Seq(Replies) : p = printed /\ a = p \o r
  <2>1. a = SubSeq(a, 1, n) \o SubSeq(a, n + 1, Len(a))
    BY CutInTwo
  <2>2. SubSeq(a, 1, n) \in Seq(Replies) /\ SubSeq(a, n + 1, Len(a)) \in Seq(Replies)
    OBVIOUS
  <2> QED
    BY <1>5, <2>1, <2>2
<1>7. Lines = p
  <2>1. \A k \in 1 .. Len(p) : OfSources(p[k])
    BY <1>3
  <2> QED
    BY <1>6, <2>1, OfLinesAll DEF Lines
<1>8. <<p>> \in Seq(Seq(Replies)) /\ promised \in Seq(Seq(Replies)) /\ promised = <<a>>
  BY <1>2, <1>4
<1>9. Begun(<<p>>, promised, Replies) /\ InTurn(<<p>>, promised)
  <2>1. Len(<<p>>) = 1 /\ Len(promised) = 1 /\ <<p>>[1] = p /\ promised[1] = a /\ 1 .. 1 = {1}
    BY <1>8
  <2>2. 1 .. 1 - 1 = {}
    OBVIOUS
  <2> QED
    BY <1>6, <2>1, <2>2 DEF Begun, InTurn
<1>10. FlattenSeq(<<p>>) = p /\ FlattenSeq(promised) = a
  BY <1>8, FlattenOne
<1>11. Fits
  <2>1. FlattenSeq(<<p>>) \in Output!Cuts
    BY <1>8, <1>9, BegunIsCut
  <2>2. Output!IsPrefix(FlattenSeq(<<p>>), Output!FlattenSeq(promised))
    BY <1>8, <1>9, BegunIsPrefix
  <2> QED
    BY <1>7, <1>10, <2>1, <2>2 DEF Fits
<1>12. Len(printed) = Len(opts.commands) => p = a
  <2>1. SubSeq(a, 1, Len(a)) = a
    OBVIOUS
  <2> QED
    BY <1>3, <1>4, <1>5, <1>6, <2>1
<1> QED
  BY <1>6, <1>7, <1>10, <1>11, <1>12, OutputFlattens

LEMMA OutputSame ==
  ASSUME UNCHANGED opts
  PROVE  (Decoding' = Decoding) /\ ((Failed' <=> Failed) => (Failed' = Failed))
BY DEF Decoding, Failed

LEMMA OutputStutters ==
  ASSUME UNCHANGED <<opts, promised, interrupted, left, code>>, Lines' = Lines, Failed' <=> Failed
  PROVE  UNCHANGED Output!vars
<1>1. Decoding' = Decoding /\ Failed' = Failed
  BY OutputSame
<1> QED
  BY <1>1 DEF Output!vars, Decoding, Failed

LEMMA OutputFails ==
  ASSUME UNCHANGED <<opts, promised, interrupted, left, code>>, Lines' = Lines, Failed => Failed',
         code = Running
  PROVE  [Output!Next]_(Output!vars)
<1>1. Decoding' = Decoding
  BY OutputSame
<1>2. CASE Failed'
  <2>1. Output!Fail
    BY <1>1, <1>2 DEF Output!Fail, Decoding, Failed
  <2> QED
    BY <2>1 DEF Output!Next, Output!Running, Running
<1>3. CASE ~Failed'
  <2>1. UNCHANGED Output!vars
    BY <1>3, OutputStutters
  <2> QED
    BY <2>1
<1> QED
  BY <1>2, <1>3

LEMMA OutputShows ==
  ASSUME UNCHANGED <<opts, promised, interrupted, left, code>>, Failed => Failed',
         code = Running, ~left, Output!IsPrefix(Lines, Lines'), Fits'
  PROVE  Output!Next
<1>1. Decoding' = Decoding
  BY OutputSame
<1>2. Output!Cuts' = Output!Cuts
  BY DEF Output!Cuts
<1>3. IF interrupted \/ left THEN Lines' \in Output!Cuts
      ELSE Output!IsPrefix(Lines', Output!FlattenSeq(promised))
  BY <1>2 DEF Fits
<1>4. Output!Show
  BY <1>1, <1>3 DEF Output!Show, Decoding, Failed
<1> QED
  BY <1>4 DEF Output!Next, Output!Running, Running

LEMMA OutputEnds ==
  ASSUME UNCHANGED <<opts, promised, interrupted, left>>, Lines' = Lines, Failed' <=> Failed,
         code = Running, code' \in {0, 1, 2, 130}, code' = 130 => interrupted,
         code' = 0 => /\ ~Failed /\ ~(Decoding /\ interrupted)
                      /\ left \/ Lines = Output!FlattenSeq(promised)
  PROVE  Output!Next
<1>1. Decoding' = Decoding /\ Failed' = Failed
  BY OutputSame
<1>2. Output!Exit
  BY <1>1 DEF Output!Exit, Decoding, Failed
<1> QED
  BY <1>2 DEF Output!Next, Output!Running, Running

-----------------------------------------------------------------------------
(* A source that has failed stays so.                                      *)
LEMMA FailuresStay ==
  ASSUME TypeInv, [Next]_vars
  PROVE  /\ Failed => Failed'
         /\ task' = task => (Failed' <=> Failed)
<1>1. Sources' = Sources
  BY OptsStay DEF Sources
<1>2. task' = task => (Failed' <=> Failed)
  BY <1>1 DEF Failed
<1>3. ASSUME NEW i \in Sources, TaskStep(i), Failed PROVE Failed'
  <2>1. PICK j \in Sources : task[j].result \in {"unopened", "unreadable"}
    BY <1>3 DEF Failed
  <2>2. task[i].at # "done" /\ \A k \in Sources \ {i} : task'[k] = task[k]
    BY <1>3, TaskMoves
  <2>3. task[j].at = "done"
    BY <2>1 DEF TypeInv, Tasks, TaskOK
  <2>4. task'[j] = task[j]
    BY <2>2, <2>3
  <2> QED
    BY <1>1, <2>1, <2>4 DEF Failed
<1>4. (~\E i \in Sources : TaskStep(i)) => task' = task
  BY DEF Next, MainStep, ReadOptions, Register, Begin, Answer, EmitFile, Close, Exit, Interrupt,
         QuitPager, Arrive, vars, fileVars
<1> QED
  BY <1>2, <1>3, <1>4

(* The output grows, and only while somebody reads it.                     *)
LEMMA LinesMore ==
  ASSUME Blocks(printed), NEW w, Blocks(w), printed' = printed \o w
  PROVE  Output!IsPrefix(Lines, Lines')
<1>1. PICK S : S = ToSet(printed) \cup ToSet(w)
  OBVIOUS
<1>2. PICK p \in Seq(S), u \in Seq(S) : p = printed /\ u = w
  BY <1>1 DEF Blocks
<1>3. OfLines(p \o u) = OfLines(p) \o OfLines(u)
  BY OfLinesTogether
<1>4. OfLines(p) \in Seq(S) /\ OfLines(u) \in Seq(S)
  BY OfLinesIs
<1>5. Output!IsPrefix(OfLines(p), OfLines(p) \o OfLines(u))
  BY <1>4, PrefixIs
<1> QED
  BY <1>2, <1>3, <1>5 DEF Lines

LEMMA FirstLines ==
  ASSUME Lines = << >>, Blocks(printed')
  PROVE  Output!IsPrefix(Lines, Lines')
<1>1. PICK p : p = printed'
  OBVIOUS
<1>2. PICK l : l = OfLines(p)
  OBVIOUS
<1>6. PICK S : S = ToSet(p)
  OBVIOUS
<1>7. p \in Seq(S)
  BY <1>1, <1>6 DEF Blocks
<1>8. PICK q \in Seq(S) : q = p
  BY <1>7
<1>9. OfLines(q) \in Seq(S)
  BY OfLinesIs
<1>3. l \in Seq(S) /\ << >> \in Seq(S)
  BY <1>2, <1>8, <1>9
<1>4. << >> \o l = l
  BY <1>3, ConcatEmptySeq
<1>5. Output!IsPrefix(<< >>, l)
  <2>1. Output!IsPrefix(<< >>, << >> \o l)
    BY <1>3, PrefixIs
  <2> QED
    BY <1>4, <2>1
<1> QED
  BY <1>1, <1>2, <1>5 DEF Lines

LEMMA CloseGrows ==
  ASSUME TypeInv, TypeInv', InOrder, WriteInv, WriteInv', ShownSoFar', [Next]_vars, Close
  PROVE  Lines' = Lines \/ (Output!IsPrefix(Lines, Lines') /\ ~left)
<1>1. /\ stage = "process" /\ stage' = "close" /\ left' = left /\ task' = task /\ emitted' = emitted
      /\ left => printed' = printed
  BY DEF Close
<1>2. CASE left
  BY <1>1, <1>2 DEF Lines
<1>3. CASE ~left /\ Pages
  <2>1. Lines = << >>
    BY <1>1, <1>3 DEF WriteInv, Writing, Due
  <2> QED
    BY <1>3, <2>1, FirstLines DEF ShownSoFar
<1>4. CASE ~left /\ ~Pages
  <2>1. Lines = Due /\ Lines' = Due'
    BY <1>1, <1>4 DEF WriteInv, Writing
  <2>2. AllShown' = AllShown /\ ShownByThreads' = ShownByThreads
    BY <1>1, AllShownStays
  <2>3. (Pages' <=> Pages) /\ (Parallel' <=> Parallel) /\ (SummaryPager' <=> SummaryPager)
    BY OptsStay, ShapeStays
  <2>4. Due' = Due
    BY <1>4, <2>2, <2>3 DEF Due
  <2> QED
    BY <2>1, <2>4
<1> QED
  BY <1>2, <1>3, <1>4

LEMMA TaskGrows ==
  ASSUME TypeInv, TypeInv', InOrder, WordsInv, ShownSoFar, [Next]_vars,
         NEW i \in Sources, TaskStep(i)
  PROVE  Lines' = Lines \/ (Output!IsPrefix(Lines, Lines') /\ ~left)
<1>1. PICK x, w : Writes(i, w)
  BY TaskWrites
<1>2. printed' = printed \/ (printed' = printed \o w /\ ~left)
  BY <1>1 DEF Writes, Write
<1>3. CASE printed' = printed
  BY <1>3 DEF Lines
<1>4. CASE printed' = printed \o w /\ ~left
  BY <1>1, <1>4, LinesMore DEF Writes, ShownSoFar
<1> QED
  BY <1>2, <1>3, <1>4

LEMMA EmitGrows ==
  ASSUME TypeInv, ShownSoFar, EmitFile
  PROVE  Lines' = Lines \/ (Output!IsPrefix(Lines, Lines') /\ ~left)
<1>1. CASE left
  BY <1>1 DEF EmitFile, Lines
<1>2. CASE ~left
  <2>1. PICK w : w = buffer[emitted + 1] /\ emitted + 1 \in Sources
    BY DEF EmitFile
  <2>2. printed' = printed \o w
    BY <1>2, <2>1 DEF EmitFile
  <2>3. Blocks(w) /\ Blocks(printed)
    BY <2>1 DEF ShownSoFar, Buffers, PlainBlocks
  <2> QED
    BY <1>2, <2>2, <2>3, LinesMore
<1> QED
  BY <1>1, <1>2

LEMMA AnswerGrows ==
  ASSUME TypeInv, StageInv, AnswersFit, AnswersFit', Answer, printed' # printed
  PROVE  Output!IsPrefix(Lines, Lines') /\ ~left /\ stage' = "answer" /\ code' = code
<1>1. /\ stage = "answer" /\ stage' = "answer" /\ code' = code
      /\ printed' = Append(printed, AnswerTo(opts.commands[Len(printed) + 1]))
  BY DEF Answer
<1>2. PICK e : e = AnswerTo(opts.commands[Len(printed) + 1])
  OBVIOUS
<1>3. printed \in Seq(Replies) /\ Lines = printed /\ Lines' = printed'
  BY <1>1 DEF AnswersFit
<1>4. PICK S : S = Replies \cup {e}
  OBVIOUS
<1>5. PICK p \in Seq(S) : p = printed
  BY <1>3, <1>4
<1>9. e \in S
  BY <1>4
<1>10. <<e>> \in Seq(S)
  BY <1>9
<1>6. PICK r \in Seq(S) : r = <<e>>
  BY <1>10
<1>7. Append(p, e) = p \o <<e>>
  BY <1>4, AppendIsConcat
<1>8. Output!IsPrefix(p, p \o r)
  BY PrefixIs
<1> QED
  BY <1>1, <1>2, <1>3, <1>5, <1>6, <1>7, <1>8 DEF StageInv

(* A line that arrives while sources are followed adds to what is promised *)
(* of its source, and nothing to the others.                               *)
LEMMA LinesFollowed ==
  ASSUME TypeInv, [Next]_vars, opts.follow, NEW i \in Sources, NEW lines,
         task'[i].lines = lines, ~Skipped(i)
  PROVE  LinesRead(i)' = lines /\ LinesRead(i) = task[i].lines
<1>1. opts' = opts /\ (Skipped(i)' <=> Skipped(i))
  BY TextsStay
<1> QED
  BY <1>1 DEF LinesRead, Skipped

LEMMA LinesSkipped ==
  ASSUME TypeInv, [Next]_vars, NEW i \in Sources, Skipped(i)
  PROVE  LinesRead(i)' = LinesRead(i)
<1>1. opts' = opts /\ (Skipped(i)' <=> Skipped(i))
  BY TextsStay
<1> QED
  BY <1>1 DEF LinesRead, Skipped

LEMMA DueGrows ==
  ASSUME TypeInv, TypeInv', InOrder, [Next]_vars, opts.follow, NEW i \in Sources, TakeLine(i),
         NEW k \in Sources
  PROVE  Output!IsPrefix(DueOf(k), DueOf(k)')
<1>1. TaskStep(i) /\ ~Pages /\ ~Parallel /\ task[i].at = "reading"
  BY DEF TaskStep, TakeLine, Pages, Parallel, UsesPager
<1>2. \A j \in Sources \ {i} : task'[j] = task[j]
  BY <1>1, TaskMoves
<1>3. \A j \in Sources \ {i} : LinesRead(j)' = LinesRead(j)
  BY <1>2, LinesReadStays
<1>4. \A j \in Sources : j \in Nat /\ \A l \in 1 .. j - 1 : l \in Sources /\ l < j
  BY SourcesAre DEF TypeInv
<1>5. DueOf(k) \in Seq(Bits)
  BY DueTyped
<1>6. CASE k < i \/ (k = i /\ LinesRead(i)' = LinesRead(i))
  <2>1. LinesRead(k)' = LinesRead(k) /\ \A j \in 1 .. k - 1 : LinesRead(j)' = LinesRead(j)
    <3>1. \A j \in 1 .. k - 1 : j \in Sources /\ j # i
      BY <1>4, <1>6
    <3>2. k # i \/ LinesRead(k)' = LinesRead(k)
      BY <1>4, <1>6
    <3> QED
      BY <1>3, <3>1, <3>2
  <2>2. DueOf(k)' = DueOf(k)
    BY <2>1, DueStays
  <2> QED
    BY <1>5, <2>2, PrefixSame
<1>7. CASE k = i /\ LinesRead(i)' # LinesRead(i)
  <2>1. ~Skipped(i) /\ task'[i].lines # task[i].lines
    BY <1>7, LinesSkipped, LinesReadStays
  <2>2. PICK line \in Seq(Pieces) : task'[i].lines = Append(task[i].lines, line)
    BY <2>1, TakeLineAppends
  <2>3. PICK lines \in Seq(Seq(Pieces)) : lines = task[i].lines
    BY DEF TypeInv, Tasks, TaskOK
  <2>4. LinesRead(i)' = Append(lines, line) /\ LinesRead(i) = lines
    BY <2>1, <2>2, <2>3, LinesFollowed
  <2>5. Heard(i)' = Heard(i)
    <3>1. \A j \in 1 .. i - 1 : j \in Sources \ {i}
      BY <1>4
    <3> QED
      BY <1>3, <3>1, HeardStays
  <2>6. PICK heard \in Seq(Msgs) : heard = Heard(i)
    BY HeardTyped
  <2>7. PICK more : more = LinesRead(i)'
    OBVIOUS
  <2>8. DueOf(i)' = IF SummaryPager \/ opts.sources[i].kind = "missing" THEN << >>
                    ELSE Decoded(i, heard, more)
    BY <2>5, <2>6, <2>7, DueAfter
  <2>9. PICK x \in Seq(Bits) : Decoded(i, heard, lines \o <<line>>) = Decoded(i, heard, lines) \o x
    <3>1. <<line>> \in Seq(Seq(Pieces))
      OBVIOUS
    <3> QED
      BY <3>1, DecodedMore
  <2>10. Append(lines, line) = lines \o <<line>>
    BY AppendIsConcat
  <2>11. CASE SummaryPager \/ opts.sources[i].kind = "missing"
    <3>1. DueOf(i)' = DueOf(i)
      BY <2>8, <2>11 DEF DueOf
    <3> QED
      BY <1>5, <1>7, <3>1, PrefixSame
  <2>12. CASE ~(SummaryPager \/ opts.sources[i].kind = "missing")
    <3>1. DueOf(i) = Decoded(i, heard, lines)
      BY <2>4, <2>6, <2>12 DEF DueOf
    <3>2. DueOf(i)' = Decoded(i, heard, lines \o <<line>>)
      BY <2>4, <2>7, <2>8, <2>10, <2>12
    <3>3. PICK d \in Seq(Bits) : d = DueOf(i)
      BY <1>5, <1>7
    <3>4. Output!IsPrefix(d, d \o x)
      BY PrefixIs
    <3>5. DueOf(i)' = d \o x
      BY <2>9, <3>1, <3>2, <3>3, Zenon
    <3> QED
      BY <1>7, <3>3, <3>4, <3>5
  <2> QED
    BY <2>11, <2>12
<1>8. CASE k > i
  <2>1. task[k].at = "waiting" /\ k # i
    BY <1>1, <1>4, <1>8 DEF InOrder
  <2>2. task[k].lines = << >>
    BY <2>1 DEF TypeInv, Tasks, TaskOK, NewTask
  <2>3. LinesRead(k) = << >>
    BY <2>2, LinesReadIs
  <2>4. LinesRead(k)' = << >>
    BY <1>3, <2>1, <2>3
  <2>5. PICK heard : heard = Heard(k)'
    OBVIOUS
  <2>6. PICK lines : lines = LinesRead(k)'
    OBVIOUS
  <2>7. /\ heard \in Seq(Msgs)
        /\ DueOf(k)' = IF SummaryPager \/ opts.sources[k].kind = "missing" THEN << >>
                       ELSE Decoded(k, heard, lines)
    BY <2>5, <2>6, DueAfter
  <2>8. Decoded(k, heard, lines) = Announcement(k) /\ Decoded(k, Heard(k), << >>) = Announcement(k)
    BY <2>4, <2>6, <2>7, HeardTyped, DecodedNone
  <2>9. DueOf(k)' = DueOf(k)
    BY <2>3, <2>7, <2>8 DEF DueOf
  <2> QED
    BY <1>5, <2>9, PrefixSame
<1> QED
  BY <1>4, <1>6, <1>7, <1>8

LEMMA PromiseGrows ==
  ASSUME TypeInv, TypeInv', InOrder, StageInv, KeepsPromise, KeepsPromise', [Next]_vars,
         opts.follow, NEW i \in Sources, TakeLine(i)
  PROVE  /\ DOMAIN promised' = DOMAIN promised
         /\ \A k \in DOMAIN promised : Output!IsPrefix(promised[k], promised'[k])
<1>1. stage = "process" /\ Decoding
  BY InProcess DEF TaskStep, StageInv, Decoding
<1>2. opts' = opts /\ Sources' = Sources
  BY OptsStay DEF Sources
<1>3. Decoding'
  BY <1>1, <1>2 DEF Decoding
<1>4. DuesPromised /\ DuesPromised'
  BY <1>1, <1>3, PromisedWhenDecoding, PTL
<1>5. promised = Dues /\ promised' = Dues'
  BY <1>4 DEF KeepsPromise, DuesPromised
<1>6. promised = [k \in Sources |-> DueOf(k)] /\ promised' = [k \in Sources |-> DueOf(k)']
  BY <1>2, <1>5 DEF Dues
<1> QED
  BY <1>6, DueGrows

LEMMA TaskMaps ==
  ASSUME TypeInv, TypeInv', StageInv, InOrder, WordsInv, ShownSoFar, OutputFits', [Next]_vars,
         NEW i \in Sources, TaskStep(i), UNCHANGED promised
  PROVE  Maps
<1>1. /\ stage = "process" /\ code = Running
      /\ UNCHANGED <<opts, left, stage, interrupted, code>>
  BY InProcess, TaskMoves
<1>2. Failed => Failed'
  BY FailuresStay
<1>3. CASE Lines' = Lines
  BY <1>1, <1>2, <1>3, OutputFails DEF Maps
<1>4. CASE Lines' # Lines
  <2>1. Output!IsPrefix(Lines, Lines') /\ ~left
    BY <1>4, TaskGrows
  <2>2. Fits'
    BY <1>1, <2>1 DEF OutputFits
  <2> QED
    BY <1>1, <1>2, <2>1, <2>2, OutputShows DEF Maps
<1> QED
  BY <1>3, <1>4

LEMMA ArrivalMaps ==
  ASSUME TypeInv, TypeInv', InOrder, StageInv, KeepsPromise, KeepsPromise', [Next]_vars,
         opts.follow, NEW i \in Sources, TakeLine(i)
  PROVE  Maps
<1>1. /\ stage = "process" /\ code = Running
      /\ UNCHANGED <<opts, left, stage, interrupted, code>>
      /\ \A j \in Sources \ {i} : task'[j] = task[j]
  BY InProcess, TaskMoves DEF TaskStep
<1>2. task'[i].result = task[i].result
  BY TakeLineDoes
<1>3. Sources' = Sources /\ \A j \in Sources : task'[j].result = task[j].result
  BY <1>1, <1>2 DEF Sources
<1>4. Failed' <=> Failed
  BY <1>3 DEF Failed
<1>5. Decoding' = Decoding /\ Failed' = Failed
  BY <1>1, <1>4, OutputSame
<1>6. Lines' = Lines
  BY DEF TakeLine, Lines
<1>7. /\ DOMAIN promised' = DOMAIN promised
      /\ \A k \in DOMAIN promised : Output!IsPrefix(promised[k], promised'[k])
  BY PromiseGrows
<1>8. Output!Arrive
  BY <1>1, <1>5, <1>6, <1>7 DEF Output!Arrive, Decoding, Failed
<1> QED
  BY <1>1, <1>8 DEF Maps, Output!Next, Output!Running, Running

(* What main does before and after the sources.                            *)
LEMMA UnreadIsFine ==
  ASSUME TypeInv, Unread
  PROVE  ~Failed
BY DEF TypeInv, Tasks, TaskOK, NewTask, Unread, Failed

LEMMA NothingPromised ==
  ASSUME TypeInv, KeepsPromise, opts.ends # {}, printed = << >>
  PROVE  Lines = Output!FlattenSeq(promised)
<1>1. promised = << >>
  BY DEF KeepsPromise, Promised
<1>2. << >> \in Seq(Bits)
  OBVIOUS
<1>3. OfLines(<< >>) = << >>
  BY <1>2, BitsWritten
<1> QED
  BY <1>1, <1>3, OutputFlattens, FlattenNone DEF Lines

LEMMA LoadMaps ==
  ASSUME TypeInv, StageInv, KeepsPromise, UNCHANGED promised, ReadOptions \/ Register \/ Begin
  PROVE  Maps
<1>1. /\ UNCHANGED <<opts, task, printed, left, interrupted>> /\ stage \in {"options", "load"}
      /\ code' = code \/ code' = 1 \/ (opts.ends # {} /\ code' \in opts.ends)
  BY DEF ReadOptions, Register, Begin, Ends, Goes
<1>2. code = Running /\ Unread /\ printed = << >>
  BY <1>1 DEF StageInv
<1>3. (Failed' <=> Failed) /\ Lines' = Lines
  BY <1>1 DEF Failed, Lines, Sources
<1>4. CASE code' = code
  BY <1>1, <1>3, <1>4, OutputStutters DEF Maps
<1>5. CASE code' = 1
  BY <1>1, <1>2, <1>3, <1>5, OutputEnds DEF Maps
<1>6. CASE opts.ends # {} /\ code' \in opts.ends
  <2>1. code' \in {0, 1, 2}
    BY <1>6, OptionsTyped DEF TypeInv
  <2>2. ~Failed /\ ~Decoding /\ Lines = Output!FlattenSeq(promised)
    BY <1>2, <1>6, UnreadIsFine, NothingPromised DEF Decoding
  <2>3. code' \in {0, 1, 2, 130} /\ code' # 130
    BY <2>1
  <2> QED
    BY <1>1, <1>2, <1>3, <2>2, <2>3, OutputEnds DEF Maps
<1> QED
  BY <1>1, <1>4, <1>5, <1>6

LEMMA AnswerMaps ==
  ASSUME TypeInv, StageInv, StageInv', Answering, AnswersFit, AnswersFit', [Next]_vars, UNCHANGED promised, Answer
  PROVE  Maps
<1>1. /\ UNCHANGED <<opts, task, left, interrupted>> /\ stage = "answer"
  BY DEF Answer
<1>2. code = Running /\ Unread /\ opts.commands # << >>
  BY <1>1 DEF StageInv
<1>3. Failed' <=> Failed
  BY <1>1 DEF Failed, Sources
<1>4. CASE printed' # printed
  <2>1. Output!IsPrefix(Lines, Lines') /\ ~left /\ stage' = "answer" /\ code' = code
    BY <1>4, AnswerGrows
  <2>2. Fits'
    BY <2>1 DEF AnswersFit
  <2> QED
    BY <1>1, <1>2, <1>3, <2>1, <2>2, OutputShows DEF Maps
<1>5. CASE printed' = printed
  <2>1. Lines' = Lines
    BY <1>5 DEF Lines
  <2>2. \/ code' = 1 \/ UNCHANGED code
        \/ code' = 0 /\ Len(printed) + 1 > Len(opts.commands)
    BY <1>1 DEF Answer, Ends
  <2>3. CASE code' = 1
    BY <1>1, <1>2, <1>3, <2>1, <2>3, OutputEnds DEF Maps
  <2>4. CASE UNCHANGED code
    BY <1>1, <1>3, <2>1, <2>4, OutputStutters DEF Maps
  <2>5. CASE code' = 0 /\ Len(printed) + 1 > Len(opts.commands)
    <3>1. Len(opts.commands) \in Nat
      BY AnswersTyped DEF TypeInv
    <3>2. Len(printed) = Len(opts.commands)
      BY <1>1, <2>5, <3>1 DEF Answering
    <3>3. ~Failed /\ ~Decoding /\ Lines = Output!FlattenSeq(promised)
      BY <1>1, <1>2, <3>2, UnreadIsFine DEF Decoding, AnswersFit
    <3>4. code' \in {0, 1, 2, 130} /\ code' # 130
      BY <2>5
    <3> QED
      BY <1>1, <1>2, <1>3, <2>1, <3>3, <3>4, OutputEnds DEF Maps
  <2> QED
    BY <2>2, <2>3, <2>4, <2>5
<1> QED
  BY <1>4, <1>5

LEMMA WriteMaps ==
  ASSUME TypeInv, TypeInv', StageInv, InOrder, ShownSoFar, ShownSoFar', WriteInv, WriteInv',
         OutputFits', [Next]_vars, EmitFile \/ Close, UNCHANGED promised
  PROVE  Maps
<1>1. /\ UNCHANGED <<opts, task, left, interrupted, code>> /\ stage = "process"
      /\ stage' \in {"process", "close"}
  BY DEF EmitFile, Close
<1>2. code = Running
  BY <1>1 DEF StageInv
<1>3. Failed' <=> Failed
  BY <1>1 DEF Failed, Sources
<1>4. Lines' = Lines \/ (Output!IsPrefix(Lines, Lines') /\ ~left)
  BY EmitGrows, CloseGrows
<1>5. CASE Lines' = Lines
  BY <1>1, <1>3, <1>5, OutputStutters DEF Maps
<1>6. CASE Output!IsPrefix(Lines, Lines') /\ ~left
  <2>1. Fits'
    BY <1>1, <1>6 DEF OutputFits
  <2> QED
    BY <1>1, <1>2, <1>3, <1>6, <2>1, OutputShows DEF Maps
<1> QED
  BY <1>4, <1>5, <1>6

LEMMA ExitMaps ==
  ASSUME TypeInv, InOrder, StageInv, ReadInv, OpenedInv, WriteInv, KeepsPromise, Exit,
         UNCHANGED promised
  PROVE  Maps
<1>1. /\ UNCHANGED <<opts, task, printed, left, interrupted>> /\ stage = "close"
      /\ \/ code' = 1
         \/ code' = 130 /\ interrupted
         \/ code' = 0 /\ ~interrupted /\ \A i \in Sources : task[i].result = "ok"
  BY DEF Exit
<1>2. code = Running
  BY <1>1 DEF StageInv
<1>3. (Failed' <=> Failed) /\ Lines' = Lines
  BY <1>1 DEF Failed, Sources, Lines
<1>4. CASE code' = 1
  BY <1>1, <1>2, <1>3, <1>4, OutputEnds DEF Maps
<1>5. CASE code' = 130 /\ interrupted
  <2>1. code' \in {0, 1, 2, 130} /\ code' # 0
    BY <1>5
  <2> QED
    BY <1>1, <1>2, <1>3, <1>5, <2>1, OutputEnds DEF Maps
<1>6. CASE code' = 0 /\ ~interrupted /\ \A i \in Sources : task[i].result = "ok"
  <2>1. ~Failed
    BY <1>6 DEF Failed
  <2>2. left \/ Lines = Output!FlattenSeq(promised)
    BY <1>1, <1>6, CompleteAtTheEnd
  <2>3. code' \in {0, 1, 2, 130} /\ code' # 130
    BY <1>6
  <2> QED
    BY <1>1, <1>2, <1>3, <1>6, <2>1, <2>2, <2>3, OutputEnds DEF Maps
<1> QED
  BY <1>1, <1>4, <1>5, <1>6

LEMMA OutsideMaps ==
  ASSUME TypeInv, StageInv, UNCHANGED promised, Interrupt \/ QuitPager \/ (\E i \in Sources : Arrive(i))
  PROVE  Maps
<1>1. UNCHANGED <<opts, task, printed, code>> /\ stage # "exit"
  BY DEF Interrupt, QuitPager, Arrive
<1>2. code = Running
  BY <1>1 DEF StageInv
<1>3. (Failed' <=> Failed) /\ Lines' = Lines
  BY <1>1 DEF Failed, Sources, Lines
<1>4. Decoding' = Decoding /\ Failed' = Failed
  BY <1>1, <1>3, OutputSame
<1>5. CASE Interrupt
  <2>1. Output!Interrupt
    BY <1>1, <1>3, <1>4, <1>5 DEF Interrupt, Output!Interrupt, Decoding, Failed
  <2> QED
    BY <1>2, <2>1 DEF Maps, Output!Next, Output!Running, Running
<1>6. CASE QuitPager
  <2>1. Output!Leave
    BY <1>1, <1>3, <1>4, <1>6 DEF QuitPager, Output!Leave, Decoding, Failed
  <2> QED
    BY <1>2, <2>1 DEF Maps, Output!Next, Output!Running, Running
<1>7. CASE \E i \in Sources : Arrive(i)
  <2>1. UNCHANGED <<interrupted, left>>
    BY <1>7 DEF Arrive
  <2> QED
    BY <1>1, <1>3, <2>1, OutputStutters DEF Maps
<1> QED
  BY <1>5, <1>6, <1>7

LEMMA StepMaps ==
  ASSUME TypeInv, TypeInv', HonestInv, ShownSoFar', StageInv, StageInv', WordsInv, ReadInv,
         OpenedInv, WriteInv, WriteInv', Answering, KeepsPromise, KeepsPromise',
         OutputFits', AnswersFit, AnswersFit', [PromisedNext]_<<vars, promised>>
  PROVE  Maps
<1> USE DEF HonestInv
<1>1. [Next]_vars
  BY PromisedSteps
<1>2. CASE UNCHANGED <<vars, promised>>
  <2>1. UNCHANGED <<opts, promised, interrupted, left, code>> /\ printed' = printed /\ task' = task
    BY <1>2 DEF vars, fileVars
  <2>2. Lines' = Lines /\ (Failed' <=> Failed)
    BY <2>1 DEF Lines, Failed, Sources
  <2> QED
    BY <2>1, <2>2, OutputStutters DEF Maps
<1>3. CASE MainStep /\ UNCHANGED promised
  BY <1>1, <1>3, LoadMaps, AnswerMaps, WriteMaps, ExitMaps DEF MainStep
<1>4. CASE (Interrupt \/ QuitPager) /\ UNCHANGED promised
  BY <1>4, OutsideMaps
<1>5. ASSUME NEW i \in Sources,
             \/ TaskStep(i) /\ task'[i].lines = task[i].lines /\ UNCHANGED promised
             \/ TakeLine(i) /\ promised' = IF opts.follow THEN Promised' ELSE promised
             \/ Arrive(i) /\ UNCHANGED promised
      PROVE  Maps
  <2>1. CASE Arrive(i) /\ UNCHANGED promised
    BY <2>1, OutsideMaps
  <2>2. CASE TaskStep(i) /\ UNCHANGED promised
    BY <1>1, <2>2, TaskMaps
  <2>3. CASE TakeLine(i) /\ opts.follow
    BY <1>1, <2>3, ArrivalMaps
  <2>4. TakeLine(i) => TaskStep(i)
    BY DEF TaskStep
  <2> QED
    BY <1>5, <2>1, <2>2, <2>3, <2>4
<1> QED
  BY <1>2, <1>3, <1>4, <1>5 DEF PromisedNext

LEMMA OutputBegins ==
  ASSUME Init, TypeInv
  PROVE  Output!Init
<1>1. printed = << >> /\ ~interrupted /\ ~left /\ code = Running /\ Unread
  BY DEF Init, Unread, NewTask, Sources
<1>2. << >> \in Seq(Bits)
  OBVIOUS
<1>3. OfLines(<< >>) = << >>
  BY <1>2, BitsWritten
<1>4. ~Failed
  BY <1>1, UnreadIsFine
<1> QED
  BY <1>1, <1>3, <1>4 DEF Output!Init, Output!Running, Running, Lines, Failed

(* The output of an invocation grows as FileOutput says, source after      *)
(* source, and each message has the dictionary that its session, the       *)
(* command line and the --xml files before give it, whatever the threads   *)
(* do.                                                                     *)
THEOREM DecodesInOrder == PromisedSpec => ImplementsFileOutput
<1> DEFINE All == /\ TypeInv /\ CacheInv /\ HonestInv /\ StageInv /\ NamesInv /\ DefaultsInv
                  /\ WordsInv /\ ReadInv /\ OpenedInv /\ WriteInv /\ Answering /\ KeepsPromise
<1>1. PromisedInit => Init /\ All /\ Output!Init
  <2>1. PromisedInit => Init /\ TypeInv /\ KeepsPromise
    BY TypeInvInit DEF PromisedInit, KeepsPromise
  <2>2. Init => CacheInv
    BY CacheInitOK DEF Init
  <2> QED
    BY <2>1, <2>2, HonestInvInit, StageInvInit, NamesInit, DefaultsInvInit, WordsInvInit,
       ReadInvInit, OpenedInvInit, WriteInvInit, AnsweringInit, OutputBegins
<1>2. [PromisedNext]_<<vars, promised>> => [Next]_vars
  BY PromisedSteps
<1>3. All /\ [CacheNext]_cacheVars /\ [PromisedNext]_<<vars, promised>> => All'
  <2> SUFFICES ASSUME All, [CacheNext]_cacheVars, [PromisedNext]_<<vars, promised>> PROVE All'
    OBVIOUS
  <2>1. [Next]_vars
    BY <1>2
  <2>2. TypeInv' /\ CacheInv'
    BY <2>1, TypeInvKept, CacheNextKeeps
  <2>3. HonestInv'
    BY <2>1, OrderKept, DiagnosesKept, BooksKept, TrackedKept, ShownKept DEF HonestInv
  <2>4. StageInv' /\ NamesInv' /\ DefaultsInv' /\ OpenedInv' /\ Answering'
    BY <2>1, <2>2, StageKept, NamesKept, DefaultsKept, OpenedKept, AnsweringKept DEF HonestInv
  <2>5. WordsInv' /\ ReadInv' /\ WriteInv' /\ KeepsPromise'
    BY <2>1, <2>2, WordsKept, ReadKept, WriteKept, PromiseKept DEF HonestInv
  <2> QED
    BY <2>2, <2>3, <2>4, <2>5
<1>4. All => OutputFits /\ AnswersFit
  BY FitsWhenDecoding, FitsWhenAnswering DEF HonestInv
<1>5. All /\ All' /\ (OutputFits /\ AnswersFit) /\ (OutputFits /\ AnswersFit)'
        /\ [PromisedNext]_<<vars, promised>> => [Output!Next]_(Output!vars)
  BY StepMaps DEF HonestInv, Maps
<1>6. Spec => [][CacheNext]_cacheVars
  BY UsesTheCache, PTL DEF CacheSpec
<1> HIDE DEF All
<1> QED
  BY <1>1, <1>2, <1>3, <1>4, <1>5, <1>6, PTL DEF Spec, PromisedSpec, ImplementsFileOutput,
     Output!Spec
=============================================================================
