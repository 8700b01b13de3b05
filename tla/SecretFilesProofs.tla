------------------------- MODULE SecretFilesProofs --------------------------
(***************************************************************************)
(* --secret-files never touches a file that was there before, and never    *)
(* removes a copy it announced, for any number of invocations over any     *)
(* files, whatever fails and whoever is killed.                            *)
(***************************************************************************)
EXTENDS SecretFiles, Induction

Writing == {"open", "create", "copy"}

Shape ==
    /\ files \in [Places -> Copies \cup {User, None}]
    /\ pc \in [Runs -> {"plan", "open", "create", "copy", "done", "failed", "killed"}]
    /\ nth \in [Runs -> Nat] /\ \A r \in Runs : nth[r] \in DOMAIN Inputs[r]
    /\ planned \in [Runs -> Seq({Output(c) : c \in Copies})]

(* Outputs are planned input by input, and all of them before any is       *)
(* written.                                                                *)
PlanFollowed ==
    \A r \in Runs :
        /\ pc[r] = "plan" => Len(planned[r]) = nth[r] - 1
        /\ pc[r] \in Writing => Len(planned[r]) = Len(Inputs[r])
        /\ \A i \in 1 .. Len(planned[r]) : planned[r][i] = Output(<<r, i>>)

(* No output is planned at a place where a user has a file.                *)
PlannedFree ==
    \A r \in Runs : \A i \in 1 .. Len(planned[r]) :
        Place(planned[r][i]) \notin DOMAIN Existing

IInv == Shape /\ PlanFollowed /\ PlannedFree /\ UserFilesStay

LEMMA InputsNumbered ==
  ASSUME NEW r \in Runs
  PROVE  Len(Inputs[r]) \in Nat \ {0} /\ DOMAIN Inputs[r] = 1 .. Len(Inputs[r])
BY SecretAssumption

LEMMA CurrentIsCopy ==
  ASSUME Shape, NEW r \in Runs
  PROVE  /\ Current(r) \in Copies
         /\ OutputPlace(r) \in Places
<1>1. Current(r) \in Copies
  BY DEF Shape, Current, Copies
<1> QED
  BY <1>1 DEF OutputPlace, Places

(* Where an invocation writes, or cleans up, no user has a file.           *)
LEMMA WritesElsewhere ==
  ASSUME IInv, NEW r \in Runs, pc[r] \in Writing
  PROVE  OutputPlace(r) \notin DOMAIN Existing
<1>1. nth[r] \in 1 .. Len(planned[r])
  BY DEF IInv, Shape, PlanFollowed
<1>2. planned[r][nth[r]] = Output(Current(r))
  BY <1>1 DEF IInv, PlanFollowed, Current
<1> QED
  BY <1>1, <1>2 DEF IInv, PlannedFree, OutputPlace

(* What changes the file at the output of a writing invocation, and moves  *)
(* that invocation on, keeps the invariant.                                *)
LEMMA FileStep ==
  ASSUME IInv, NEW r \in Runs, pc[r] \in Writing,
         NEW content \in Copies \cup {None}, NEW where \in Writing \cup {"done", "failed"},
         files' = [files EXCEPT ![OutputPlace(r)] = content] \/ files' = files,
         pc' = [pc EXCEPT ![r] = where],
         nth' = nth \/ (nth[r] # Len(Inputs[r]) /\ nth' = [nth EXCEPT ![r] = @ + 1]),
         planned' = planned
  PROVE  IInv'
<1>1. OutputPlace(r) \in Places /\ OutputPlace(r) \notin DOMAIN Existing
  BY CurrentIsCopy, WritesElsewhere DEF IInv
<1>2. Shape'
  <2>1. files' \in [Places -> Copies \cup {User, None}]
    BY <1>1 DEF IInv, Shape
  <2>2. nth' \in [Runs -> Nat] /\ \A q \in Runs : nth'[q] \in DOMAIN Inputs[q]
    <3>1. CASE nth' = nth
      BY <3>1 DEF IInv, Shape
    <3>2. CASE nth[r] # Len(Inputs[r]) /\ nth' = [nth EXCEPT ![r] = @ + 1]
      <4>1. nth \in [Runs -> Nat] /\ \A q \in Runs : nth[q] \in DOMAIN Inputs[q]
        BY DEF IInv, Shape
      <4>2. nth[r] + 1 \in DOMAIN Inputs[r]
        BY <3>2, <4>1, InputsNumbered
      <4> QED
        BY <3>2, <4>1, <4>2
    <3> QED
      BY <3>1, <3>2
  <2> QED
    BY <2>1, <2>2 DEF IInv, Shape, Writing
<1>3. PlanFollowed'
  BY DEF IInv, Shape, PlanFollowed, Writing
<1>4. PlannedFree'
  BY DEF IInv, PlannedFree
<1>5. UserFilesStay'
  BY <1>1 DEF IInv, Shape, UserFilesStay, Places
<1> QED
  BY <1>2, <1>3, <1>4, <1>5 DEF IInv

LEMMA InitInv == Init => IInv
<1> SUFFICES ASSUME Init PROVE IInv
  OBVIOUS
<1>1. Shape
  BY InputsNumbered DEF Init, Shape
<1>2. PlanFollowed /\ PlannedFree
  BY DEF Init, PlanFollowed, PlannedFree, Writing
<1>3. UserFilesStay
  BY DEF Init, UserFilesStay, Places
<1> QED
  BY <1>1, <1>2, <1>3 DEF IInv

(* Planning checks the place of every output before any is written.        *)
LEMMA PlanStep ==
  ASSUME IInv, NEW r \in Runs, PlanOutput(r)
  PROVE  IInv'
<1> USE DEF IInv, PlanOutput, Goto
<1>1. UserFilesStay'
  BY DEF UserFilesStay
<1>2. CASE Taken(r)
  <2>1. Shape'
    BY <1>2 DEF Shape
  <2>2. PlanFollowed' /\ PlannedFree'
    BY <1>2 DEF Shape, PlanFollowed, PlannedFree, Writing
  <2> QED
    BY <1>1, <2>1, <2>2
<1>3. CASE ~Taken(r)
  <2>1. Current(r) \in Copies /\ OutputPlace(r) \in Places
    BY CurrentIsCopy
  <2>2. OutputPlace(r) \notin DOMAIN Existing
    BY <1>3, SecretAssumption DEF Taken, UserFilesStay
  <2>3. /\ planned' = [planned EXCEPT ![r] = Append(@, Output(Current(r)))]
        /\ nth' = [nth EXCEPT ![r] = IF IsLast(r) THEN 1 ELSE @ + 1]
        /\ pc' = IF IsLast(r) THEN [pc EXCEPT ![r] = "open"] ELSE pc
        /\ files' = files
    BY <1>3
  <2>4. Shape'
    <3>1. planned' \in [Runs -> Seq({Output(c) : c \in Copies})]
      <4>1. Output(Current(r)) \in {Output(c) : c \in Copies}
        BY <2>1
      <4>2. planned[r] \in Seq({Output(c) : c \in Copies})
        BY DEF Shape
      <4>3. Append(planned[r], Output(Current(r))) \in Seq({Output(c) : c \in Copies})
        BY <4>1, <4>2
      <4> QED
        BY <2>3, <4>3 DEF Shape
    <3>2. nth' \in [Runs -> Nat] /\ \A q \in Runs : nth'[q] \in DOMAIN Inputs[q]
      BY <2>3, InputsNumbered DEF Shape, IsLast
    <3> QED
      BY <2>3, <3>1, <3>2 DEF Shape
  <2>5. PlanFollowed'
    <3>1. Len(planned[r]) = nth[r] - 1 /\ planned[r] \in Seq({Output(c) : c \in Copies})
      BY DEF Shape, PlanFollowed
    <3>2. /\ Len(planned'[r]) = nth[r]
          /\ \A i \in 1 .. nth[r] : planned'[r][i] = Output(<<r, i>>)
      <4>1. planned'[r] = Append(planned[r], Output(Current(r)))
        BY <2>3 DEF Shape
      <4>2. nth[r] \in Nat \ {0}
        BY InputsNumbered DEF Shape
      <4>3. \A i \in 1 .. Len(planned[r]) : planned[r][i] = Output(<<r, i>>)
        BY DEF PlanFollowed
      <4>4. Len(planned'[r]) = nth[r] /\ planned'[r][nth[r]] = Output(<<r, nth[r]>>)
        BY <3>1, <4>1, <4>2 DEF Current
      <4>5. \A i \in 1 .. Len(planned[r]) : planned'[r][i] = planned[r][i]
        BY <3>1, <4>1
      <4>6. ASSUME NEW i \in 1 .. nth[r] PROVE planned'[r][i] = Output(<<r, i>>)
        <5>1. i = nth[r] \/ i \in 1 .. Len(planned[r])
          BY <3>1, <4>2, <4>6
        <5> QED
          BY <4>3, <4>4, <4>5, <5>1
      <4> QED
        BY <4>4, <4>6
    <3>3. \A q \in Runs \ {r} : planned'[q] = planned[q] /\ pc'[q] = pc[q] /\ nth'[q] = nth[q]
      BY <2>3 DEF Shape
    <3>4. CASE IsLast(r)
      <4>1. pc'[r] = "open" /\ nth[r] = Len(Inputs[r])
        BY <2>3, <3>4 DEF Shape, IsLast
      <4> QED
        BY <3>2, <3>3, <4>1 DEF PlanFollowed, Writing
    <3>5. CASE ~IsLast(r)
      <4>1. pc'[r] = "plan" /\ nth'[r] = nth[r] + 1 /\ nth[r] \in Nat
        BY <2>3, <3>5 DEF Shape
      <4> QED
        BY <3>2, <3>3, <4>1 DEF PlanFollowed, Writing
    <3> QED
      BY <3>4, <3>5
  <2>6. PlannedFree'
    BY <2>2, <2>3 DEF Shape, PlannedFree, OutputPlace
  <2> QED
    BY <1>1, <2>4, <2>5, <2>6
<1> QED
  BY <1>2, <1>3

LEMMA InvStep == IInv /\ [Next]_vars => IInv'
<1> SUFFICES ASSUME IInv, [Next]_vars PROVE IInv'
  OBVIOUS
<1>1. CASE UNCHANGED vars
  BY <1>1 DEF vars, IInv, Shape, PlanFollowed, PlannedFree, UserFilesStay
<1>2. ASSUME NEW r \in Runs, PlanOutput(r) PROVE IInv'
  BY <1>2, PlanStep
<1>3. ASSUME NEW r \in Runs, OpenInput(r) PROVE IInv'
  BY <1>3, FileStep DEF OpenInput, RemoveOutput, Goto, Writing
<1>4. ASSUME NEW r \in Runs, CreateOutput(r) PROVE IInv'
  <2>1. Current(r) \in Copies
    BY CurrentIsCopy DEF IInv
  <2> QED
    BY <1>4, <2>1, FileStep DEF CreateOutput, RemoveOutput, Goto, Writing
<1>5. ASSUME NEW r \in Runs, CopyLine(r) PROVE IInv'
  BY <1>5 DEF CopyLine, IInv, Shape, PlanFollowed, PlannedFree, UserFilesStay
<1>6. ASSUME NEW r \in Runs, SetPermissions(r) PROVE IInv'
  <2>1. pc[r] \in Writing /\ planned' = planned
    BY <1>6 DEF SetPermissions, Writing
  <2>2. CASE Gone(r)
    BY <1>6, <2>1, <2>2, FileStep DEF SetPermissions, RemoveOutput, Goto, Writing
  <2>3. CASE ~Gone(r)
    <3> DEFINE where == IF IsLast(r) THEN "done" ELSE "open"
    <3>1. files' = files /\ pc' = [pc EXCEPT ![r] = where]
      BY <1>6, <2>3 DEF SetPermissions, Goto
    <3>2. nth' = nth \/ (nth[r] # Len(Inputs[r]) /\ nth' = [nth EXCEPT ![r] = @ + 1])
      BY <1>6, <2>3 DEF SetPermissions, IsLast, IInv, Shape
    <3>3. where \in Writing \cup {"done", "failed"}
      BY DEF Writing
    <3> HIDE DEF where
    <3> QED
      BY <2>1, <3>1, <3>2, <3>3, FileStep
  <2> QED
    BY <2>2, <2>3
<1>7. ASSUME NEW r \in Runs, IoFails(r) PROVE IInv'
  BY <1>7, FileStep DEF IoFails, RemoveOutput, Goto, Writing
<1>8. ASSUME NEW r \in Runs, Killed(r) PROVE IInv'
  BY <1>8 DEF Killed, Goto, IInv, Shape, PlanFollowed, PlannedFree, UserFilesStay, Writing
<1> QED
  BY <1>1, <1>2, <1>3, <1>4, <1>5, <1>6, <1>7, <1>8 DEF Next

(* README, "Existing files are never overwritten", of the files that were  *)
(* there before any invocation: they stay, whatever the invocations are    *)
(* given, however they are interleaved, whatever fails.                    *)
THEOREM UserFilesKept == Spec => []UserFilesStay
<1>1. IInv => UserFilesStay
  BY DEF IInv
<1> QED
  BY <1>1, InitInv, InvStep, PTL DEF Spec
-----------------------------------------------------------------------------
(* A copy is held from its creation on while it is written, and once it is *)
(* announced.  To keep announced copies, the held ones must be kept: what  *)
(* SetPermissions announces is what it finds at the path.                  *)
Held(c) == c \in Announced \/ (pc[c[1]] = "copy" /\ c[2] = nth[c[1]])

HeldStay ==
    \A c \in Copies : Held(c) => Contended(c) \/ files[Place(Output(c))] = c

LEMMA CopyOf ==
  ASSUME NEW c \in Copies
  PROVE  c[1] \in Runs /\ c[2] \in 1 .. Len(Inputs[c[1]]) /\ c = <<c[1], c[2]>>
  BY InputsNumbered DEF Copies

(* While an invocation plans, it has not planned all its copies; so where  *)
(* it has, the plan does not change any more.                              *)
LEMMA PlannedStays ==
  ASSUME IInv, [Next]_vars, NEW d \in Copies, Planned(d)
  PROVE  Planned(d)'
<1>1. d[1] \in Runs /\ pc[d[1]] # "plan"
  <2>1. ASSUME pc[d[1]] = "plan" PROVE FALSE
    <3>1. Len(planned[d[1]]) = nth[d[1]] - 1 /\ nth[d[1]] \in 1 .. Len(Inputs[d[1]])
      BY <2>1, CopyOf, InputsNumbered DEF IInv, Shape, PlanFollowed
    <3> QED
      BY <3>1, CopyOf, InputsNumbered DEF Planned
  <2> QED
    BY <2>1, CopyOf
<1>2. CASE UNCHANGED vars
  BY <1>2 DEF vars, Planned
<1>3. ASSUME NEW r \in Runs, PlanOutput(r) PROVE planned'[d[1]] = planned[d[1]]
  BY <1>1, <1>3 DEF PlanOutput, IInv, Shape
<1>4. CASE Next
  BY <1>3, <1>4 DEF Next, Planned, OpenInput, CreateOutput, CopyLine, SetPermissions, IoFails, Killed
<1> QED
  BY <1>2, <1>4

LEMMA ContendedStays ==
  ASSUME IInv, [Next]_vars, NEW c \in Copies, Contended(c)
  PROVE  Contended(c)'
<1>1. PICK d \in Copies \ {c} : Planned(d) /\ Place(Output(d)) = Place(Output(c))
  BY DEF Contended
<1>2. Planned(d)'
  BY <1>1, PlannedStays
<1> QED
  BY <1>1, <1>2 DEF Contended

(* Whoever writes, or cleans up, where another invocation has a copy has   *)
(* planned to: the copy was contended.                                     *)
LEMMA HeldFileStep ==
  ASSUME IInv, HeldStay, [Next]_vars, NEW r \in Runs, pc[r] \in Writing,
         NEW own \in Copies, own = Current(r),
         NEW content \in Copies \cup {None},
         files' = [files EXCEPT ![OutputPlace(r)] = content] \/ files' = files,
         \A c \in Copies : Held(c)' /\ c # own => Held(c),
         Held(own)' => \/ files' = files /\ Held(own)
                       \/ /\ content = own
                          /\ files' = [files EXCEPT ![OutputPlace(r)] = content]
  PROVE  HeldStay'
<1> SUFFICES ASSUME NEW c \in Copies, Held(c)'
             PROVE  Contended(c)' \/ files'[Place(Output(c))] = c
  BY DEF HeldStay
<1>1. /\ files \in [Places -> Copies \cup {User, None}]
      /\ OutputPlace(r) = Place(Output(Current(r))) /\ OutputPlace(r) \in Places
      /\ Current(r) \in Copies /\ Place(Output(c)) \in Places
  BY CurrentIsCopy DEF IInv, Shape, OutputPlace, Places
<1>2. Planned(Current(r))
  BY DEF IInv, PlanFollowed, Planned, Current
<1>3. CASE c = own
  <2>1. CASE files' = files /\ Held(own)
    BY <2>1, <1>3, ContendedStays DEF HeldStay
  <2>2. CASE content = own /\ files' = [files EXCEPT ![OutputPlace(r)] = content]
    BY <2>2, <1>1, <1>3
  <2> QED
    BY <2>1, <2>2, <1>3
<1>4. CASE c # own /\ Place(Output(c)) = OutputPlace(r)
  <2>1. Contended(c)
    BY <1>1, <1>2, <1>4 DEF Contended
  <2> QED
    BY <2>1, ContendedStays
<1>5. CASE c # own /\ Place(Output(c)) # OutputPlace(r)
  <2>1. files'[Place(Output(c))] = files[Place(Output(c))]
    BY <1>1, <1>5
  <2>2. Held(c)
    BY <1>5
  <2> QED
    BY <2>1, <2>2, ContendedStays DEF HeldStay
<1> QED
  BY <1>3, <1>4, <1>5

(* Nothing is held before all is planned.                                  *)
LEMMA HeldInit == Init => HeldStay
<1> SUFFICES ASSUME Init, NEW c \in Copies PROVE ~Held(c)
  BY DEF HeldStay
<1>1. pc[c[1]] = "plan" /\ Len(planned[c[1]]) = 0
  BY CopyOf DEF Init
<1> QED
  BY <1>1, CopyOf DEF Held, Announced, Planned

LEMMA PlanHeld ==
  ASSUME IInv, HeldStay, NEW r \in Runs, PlanOutput(r)
  PROVE  HeldStay'
<1> SUFFICES ASSUME NEW c \in Copies, Held(c)'
             PROVE  Contended(c)' \/ files'[Place(Output(c))] = c
  BY DEF HeldStay
<1>1. [Next]_vars
  BY DEF Next
<1>2. ASSUME c[1] = r PROVE FALSE
  <2>1. pc[r] = "plan" /\ Len(planned[r]) = nth[r] - 1 /\ nth[r] \in 1 .. Len(Inputs[r])
    BY InputsNumbered DEF PlanOutput, IInv, Shape, PlanFollowed
  <2>2. CASE Taken(r)
    <3>1. pc'[r] = "failed" /\ planned'[r] = planned[r]
      BY <2>2 DEF PlanOutput, Goto, IInv, Shape
    <3> QED
      BY <3>1, <2>1, <1>2, InputsNumbered DEF Held, Announced, Planned
  <2>3. CASE ~Taken(r) /\ IsLast(r)
    <3>1. pc'[r] = "open" /\ nth'[r] = 1
      BY <2>3 DEF PlanOutput, Goto, IInv, Shape
    <3> QED
      BY <3>1, <1>2, CopyOf DEF Held, Announced
  <2>4. CASE ~Taken(r) /\ ~IsLast(r)
    <3>1. pc'[r] = "plan" /\ planned'[r] = Append(planned[r], Output(Current(r)))
      BY <2>1, <2>4 DEF PlanOutput, IInv, Shape
    <3>2. Len(planned'[r]) = nth[r]
      BY <3>1, <2>1 DEF IInv, Shape
    <3>3. ~Planned(c)'
      BY <3>2, <2>4, <1>2 DEF Planned, IsLast
    <3> QED
      BY <3>1, <3>3, <1>2 DEF Held, Announced
  <2> QED
    BY <2>2, <2>3, <2>4
<1>3. Held(c)
  <2>0. c[1] \in Runs \ {r}
    BY <1>2, CopyOf
  <2>1. /\ pc'[c[1]] = pc[c[1]] /\ nth'[c[1]] = nth[c[1]] /\ planned'[c[1]] = planned[c[1]]
    BY <2>0 DEF PlanOutput, Goto, IInv, Shape
  <2> QED
    BY <2>1 DEF Held, Announced, Planned
<1>4. files' = files
  BY DEF PlanOutput
<1> QED
  BY <1>1, <1>3, <1>4, ContendedStays DEF HeldStay

(* After an error the copy that was being written is not held any more.    *)
LEMMA RemoveHeld ==
  ASSUME IInv, HeldStay, NEW r \in Runs, [Next]_vars, pc[r] \in Writing,
         RemoveOutput(r), nth' = nth, planned' = planned
  PROVE  HeldStay'
<1>0. PICK own \in Copies : own = Current(r)
  BY CurrentIsCopy DEF IInv
<1>1. pc' = [pc EXCEPT ![r] = "failed"] /\ files' = [files EXCEPT ![OutputPlace(r)] = None]
  BY DEF RemoveOutput, Goto
<1>2. ASSUME NEW c \in Copies, Held(c)' PROVE Held(c) /\ c # own
  <2>1. c[1] \in Runs /\ (c[1] = r => pc'[c[1]] = "failed") /\ (c[1] # r => pc'[c[1]] = pc[c[1]])
    BY <1>1, CopyOf DEF IInv, Shape
  <2>2. CASE c[1] # r
    BY <1>0, <1>2, <2>1, <2>2 DEF Held, Announced, Planned, Current
  <2>3. CASE c[1] = r
    <3>1. Planned(c) /\ c[2] < nth[r]
      BY <1>2, <2>1, <2>3 DEF Held, Announced, Planned
    <3> QED
      BY <1>0, <3>1, <2>3, InputsNumbered DEF Held, Announced, Current, IInv, Shape
  <2> QED
    BY <2>2, <2>3
<1> QED
  BY <1>0, <1>1, <1>2, HeldFileStep

LEMMA HeldStep ==
  ASSUME IInv, HeldStay, [Next]_vars
  PROVE  HeldStay'
<1>0. ASSUME NEW c \in Copies, UNCHANGED files, Held(c)' => Held(c), Held(c)'
      PROVE  Contended(c)' \/ files'[Place(Output(c))] = c
  BY <1>0, ContendedStays DEF HeldStay
<1>1. CASE UNCHANGED vars
  <2>1. UNCHANGED files /\ \A c \in Copies : Held(c)' => Held(c)
    BY <1>1 DEF vars, Held, Announced, Planned
  <2> QED
    BY <2>1, <1>0 DEF HeldStay
<1>2. ASSUME NEW r \in Runs, PlanOutput(r) PROVE HeldStay'
  BY <1>2, PlanHeld
<1>3. ASSUME NEW r \in Runs, OpenInput(r) PROVE HeldStay'
  <2>1. pc[r] \in Writing /\ nth' = nth /\ planned' = planned
    BY <1>3 DEF OpenInput, Writing
  <2>2. CASE RemoveOutput(r)
    BY <2>1, <2>2, RemoveHeld
  <2>3. CASE Goto(r, "create") /\ UNCHANGED files
    <3>1. \A c \in Copies : Held(c)' => Held(c)
      BY <2>1, <2>3, CopyOf DEF Goto, Held, Announced, Planned, IInv, Shape
    <3> QED
      BY <2>3, <3>1, <1>0 DEF HeldStay
  <2> QED
    BY <1>3, <2>2, <2>3 DEF OpenInput
<1>4. ASSUME NEW r \in Runs, CreateOutput(r) PROVE HeldStay'
  <2>1. pc[r] \in Writing /\ nth' = nth /\ planned' = planned
    BY <1>4 DEF CreateOutput, Writing
  <2>2. CASE RemoveOutput(r)
    BY <2>1, <2>2, RemoveHeld
  <2>3. CASE /\ files' = [files EXCEPT ![OutputPlace(r)] = Current(r)]
             /\ Goto(r, "copy")
    <3>1. PICK own \in Copies : own = Current(r)
      BY CurrentIsCopy DEF IInv
    <3>2. ASSUME NEW c \in Copies, Held(c)', c # own PROVE Held(c)
      <4>1. CASE c[1] # r
        BY <2>1, <2>3, <3>2, <4>1, CopyOf DEF Goto, Held, Announced, Planned, IInv, Shape
      <4>2. CASE c[1] = r
        <5>1. c[2] # nth[r] /\ pc'[r] = "copy"
          BY <2>3, <3>1, <3>2, <4>2, CopyOf DEF Current, Goto, IInv, Shape
        <5> QED
          BY <2>1, <3>2, <4>2, <5>1 DEF Held, Announced, Planned
      <4> QED
        BY <4>1, <4>2
    <3> QED
      BY <2>1, <2>3, <3>1, <3>2, HeldFileStep
  <2> QED
    BY <1>4, <2>2, <2>3 DEF CreateOutput
<1>5. ASSUME NEW r \in Runs, CopyLine(r) PROVE HeldStay'
  <2>1. UNCHANGED files /\ \A c \in Copies : Held(c)' => Held(c)
    BY <1>5 DEF CopyLine, Held, Announced, Planned
  <2> QED
    BY <2>1, <1>0 DEF HeldStay
<1>6. ASSUME NEW r \in Runs, SetPermissions(r) PROVE HeldStay'
  <2>1. pc[r] = "copy" /\ planned' = planned
    BY <1>6 DEF SetPermissions
  <2>2. CASE Gone(r)
    BY <1>6, <2>1, <2>2, RemoveHeld DEF SetPermissions, Writing
  <2>3. CASE ~Gone(r)
    <3>1. /\ files' = files
          /\ pc' = [pc EXCEPT ![r] = IF IsLast(r) THEN "done" ELSE "open"]
          /\ nth' = [nth EXCEPT ![r] = IF IsLast(r) THEN @ ELSE @ + 1]
      BY <1>6, <2>3 DEF SetPermissions, Goto
    <3>2. ASSUME NEW c \in Copies, Held(c)' PROVE Held(c)
      <4>1. CASE c[1] # r
        BY <2>1, <3>1, <3>2, <4>1, CopyOf DEF Held, Announced, Planned, IInv, Shape
      <4>2. CASE c[1] = r
        <5>1. Planned(c) /\ nth[r] \in Nat /\ c[2] \in Nat
          BY <2>1, <4>2, CopyOf, InputsNumbered DEF IInv, Shape, PlanFollowed, Planned, Writing
        <5>2. c[2] <= nth[r]
          <6>1. CASE IsLast(r)
            BY <6>1, <4>2, CopyOf DEF IsLast
          <6>2. CASE ~IsLast(r)
            <7>1. pc'[r] = "open" /\ nth'[r] = nth[r] + 1
              BY <3>1, <6>2 DEF IInv, Shape
            <7>2. c[2] < nth[r] + 1
              BY <7>1, <3>2, <4>2 DEF Held, Announced
            <7> QED
              BY <7>2, <5>1
          <6> QED
            BY <6>1, <6>2
        <5> QED
          BY <5>1, <5>2, <2>1, <4>2 DEF Held, Announced
      <4> QED
        BY <4>1, <4>2
    <3> QED
      BY <3>1, <3>2, <1>0 DEF HeldStay
  <2> QED
    BY <2>2, <2>3
<1>7. ASSUME NEW r \in Runs, IoFails(r) PROVE HeldStay'
  BY <1>7, RemoveHeld DEF IoFails, Writing
<1>8. ASSUME NEW r \in Runs, Killed(r) PROVE HeldStay'
  <2>1. UNCHANGED files /\ \A c \in Copies : Held(c)' => Held(c)
    BY <1>8, CopyOf DEF Killed, Goto, Held, Announced, Planned, IInv, Shape
  <2> QED
    BY <2>1, <1>0 DEF HeldStay
<1> QED
  BY <1>1, <1>2, <1>3, <1>4, <1>5, <1>6, <1>7, <1>8 DEF Next

(* "Wrote secret file: ..." stays true, whatever fails later and whoever   *)
(* else writes, unless another invocation planned a copy at the same place *)
(* before this one was there.                                              *)
THEOREM AnnouncedKept == Spec => []AnnouncedCopiesStay
<1>1. Init => IInv /\ HeldStay
  BY InitInv, HeldInit
<1>2. IInv /\ HeldStay /\ [Next]_vars => (IInv /\ HeldStay)'
  BY InvStep, HeldStep
<1>3. IInv /\ HeldStay => AnnouncedCopiesStay
  BY DEF HeldStay, Held, AnnouncedCopiesStay, Announced
<1> QED
  BY <1>1, <1>2, <1>3, PTL DEF Spec

-----------------------------------------------------------------------------
(* The obfuscation of a file, line by line: what Obfuscated says of each   *)
(* line follows from the lines before it.                                  *)
Before(lines, n) == {lines[m] : m \in 1 .. n}

FirstAt(lines, n) ==
    CHOOSE m \in 1 .. n : lines[m] = lines[n] /\ \A q \in 1 .. m - 1 : lines[q] # lines[n]

Number(lines, n) ==
    Cardinality({lines[m] : m \in {m \in 1 .. FirstAt(lines, n) : lines[m].tag = lines[n].tag}})

ObfuscatedLine(lines, n) == [tag |-> lines[n].tag, alias |-> Number(lines, n)]

(* An obfuscator that has seen the first n lines of a file, and no other.  *)
HasSeen(known, lines, n) ==
    /\ DOMAIN known = Before(lines, n)
    /\ \A m \in 1 .. n : known[lines[m]] = Number(lines, m)

LEMMA ObfuscatedIs ==
  ASSUME NEW lines
  PROVE  Obfuscated(lines) = [n \in DOMAIN lines |-> ObfuscatedLine(lines, n)]
  BY DEF Obfuscated, ObfuscatedLine, Number, FirstAt

LEMMA FiniteLines ==
  ASSUME NEW lines, NEW M, IsFiniteSet(M)
  PROVE  IsFiniteSet({lines[m] : m \in M})
<1> DEFINE T == {lines[m] : m \in M}
           f == [m \in M |-> lines[m]]
<1>1. f \in Surjection(M, T)
  BY DEF Surjection
<1> HIDE DEF T, f
<1>2. IsFiniteSet(T)
  BY <1>1, FS_Surjection
<1> QED
  BY <1>2 DEF T

LEMMA FirstIs ==
  ASSUME NEW lines, NEW n \in Nat, n > 0
  PROVE  /\ FirstAt(lines, n) \in 1 .. n
         /\ lines[FirstAt(lines, n)] = lines[n]
         /\ \A q \in 1 .. FirstAt(lines, n) - 1 : lines[q] # lines[n]
<1> DEFINE T == {m \in 1 .. n : lines[m] = lines[n]}
<1>1. T \subseteq Nat /\ n \in T
  OBVIOUS
<1>2. PICK k \in T : \A m \in T : k <= m
  BY <1>1, LeastNumber
<1>3. k \in 1 .. n /\ lines[k] = lines[n] /\ \A q \in 1 .. k - 1 : lines[q] # lines[n]
  BY <1>2
<1> QED
  BY <1>3 DEF FirstAt

LEMMA SameFirst ==
  ASSUME NEW lines, NEW n \in Nat, n > 0, NEW m \in Nat, m > 0, lines[m] = lines[n]
  PROVE  FirstAt(lines, m) = FirstAt(lines, n)
<1>1. PICK a \in 1 .. m : a = FirstAt(lines, m) /\ lines[a] = lines[n]
                          /\ \A q \in 1 .. a - 1 : lines[q] # lines[n]
  BY FirstIs
<1>2. PICK b \in 1 .. n : b = FirstAt(lines, n) /\ lines[b] = lines[n]
                          /\ \A q \in 1 .. b - 1 : lines[q] # lines[n]
  BY FirstIs
<1>3. ~(a < b) /\ ~(b < a)
  BY <1>1, <1>2
<1> QED
  BY <1>1, <1>2, <1>3

(* Obfuscator::next_alias gives the next line the alias it is to have.     *)
LEMMA SeesNext ==
  ASSUME NEW lines, NEW n \in Nat, NEW known, HasSeen(known, lines, n)
  PROVE  HasSeen(WithAlias(known, lines[n + 1]), lines, n + 1)
<1>1. PICK field : field = lines[n + 1]
  OBVIOUS
<1>2. PICK next : next = WithAlias(known, field)
  OBVIOUS
<1>3. Before(lines, n + 1) = Before(lines, n) \cup {field}
  <2>1. 1 .. n + 1 = (1 .. n) \cup {n + 1}
    OBVIOUS
  <2> QED
    BY <1>1, <2>1 DEF Before
<1>4. DOMAIN next = Before(lines, n + 1)
  BY <1>2, <1>3 DEF HasSeen, WithAlias
<1>5. \A m \in 1 .. n : next[lines[m]] = Number(lines, m)
  BY <1>2 DEF HasSeen, WithAlias, Before
<1>6. next[field] = Number(lines, n + 1)
  <2>1. CASE field \in Before(lines, n)
    <3>1. PICK m \in 1 .. n : lines[m] = field
      BY <2>1 DEF Before
    <3>2. FirstAt(lines, m) = FirstAt(lines, n + 1)
      BY <1>1, <3>1, SameFirst
    <3>3. Number(lines, n + 1) = Number(lines, m)
      BY <1>1, <3>1, <3>2 DEF Number
    <3> QED
      BY <1>5, <3>1, <3>3
  <2>2. CASE field \notin Before(lines, n)
    <3>1. FirstAt(lines, n + 1) = n + 1
      <4>1. FirstAt(lines, n + 1) \in 1 .. n + 1 /\ lines[FirstAt(lines, n + 1)] = field
        BY <1>1, FirstIs
      <4>2. \A m \in 1 .. n : lines[m] # field
        BY <2>2 DEF Before
      <4> QED
        BY <4>1, <4>2
    <3>2. PICK S : S = {g \in Before(lines, n) : g.tag = field.tag}
      OBVIOUS
    <3>3. {lines[m] : m \in {m \in 1 .. n + 1 : lines[m].tag = field.tag}} = S \cup {field}
      <4>1. S = {lines[m] : m \in {m \in 1 .. n : lines[m].tag = field.tag}}
        BY <3>2 DEF Before
      <4>2. {m \in 1 .. n + 1 : lines[m].tag = field.tag}
              = {m \in 1 .. n : lines[m].tag = field.tag} \cup {n + 1}
        BY <1>1
      <4> QED
        BY <1>1, <4>1, <4>2
    <3>4. Number(lines, n + 1) = Cardinality(S \cup {field})
      BY <1>1, <3>1, <3>3 DEF Number
    <3>5. IsFiniteSet(Before(lines, n))
      <4>1. IsFiniteSet(1 .. n)
        BY FS_Interval
      <4> QED
        BY <4>1, FiniteLines DEF Before
    <3>6. IsFiniteSet(S) /\ field \notin S
      BY <2>2, <3>2, <3>5, FS_Subset
    <3>7. Cardinality(S \cup {field}) = Cardinality(S) + 1 /\ Cardinality(S) \in Nat
      BY <3>6, FS_AddElement, FS_CardinalityType
    <3>8. next[field] = 1 + Cardinality(S)
      BY <1>2, <2>2, <3>2 DEF HasSeen, WithAlias
    <3> QED
      BY <3>4, <3>7, <3>8
  <2> QED
    BY <2>1, <2>2
<1>7. \A m \in 1 .. n + 1 : next[lines[m]] = Number(lines, m)
  BY <1>1, <1>5, <1>6
<1> QED
  BY <1>1, <1>2, <1>4, <1>7 DEF HasSeen

LEMMA NumberTyped ==
  ASSUME NEW lines, NEW n \in Nat, n > 0
  PROVE  Number(lines, n) \in Nat
<1>1. PICK k \in Nat : k = FirstAt(lines, n)
  BY FirstIs
<1>2. PICK M : M = {m \in 1 .. k : lines[m].tag = lines[n].tag}
  OBVIOUS
<1>3. IsFiniteSet(M)
  <2>1. IsFiniteSet(1 .. k)
    BY FS_Interval
  <2> QED
    BY <1>2, <2>1, FS_Subset
<1>4. IsFiniteSet({lines[m] : m \in M})
  BY <1>3, FiniteLines
<1> QED
  BY <1>1, <1>2, <1>4, FS_CardinalityType DEF Number

-----------------------------------------------------------------------------
(* The copies.  A copy that is at its place is whole, or its invocation is *)
(* still, or was when it was killed, at that input; and what is written of *)
(* it so far is the obfuscation of the lines read so far.                  *)
Whole(c) ==
    /\ Place(Input(c)) \in DOMAIN Existing
    /\ text[c] = Obfuscated(Lines(c))
    /\ c \in granted

UnderWay(c) == pc[c[1]] \in {"copy", "killed"} /\ c[2] = nth[c[1]]

CopiesWhole ==
    /\ \A p \in Places : files[p] = User => p \in DOMAIN Existing
    /\ \A p \in Places : \A c \in Copies :
          files[p] = c => p = Place(Output(c)) /\ (Whole(c) \/ UnderWay(c))

ToWrite(c) ==
    \/ pc[c[1]] = "plan"
    \/ pc[c[1]] \in {"open", "create"} /\ c[2] >= nth[c[1]]
    \/ pc[c[1]] = "copy" /\ c[2] > nth[c[1]]

Faithful(lines, t, known) ==
    /\ Len(t) <= Len(lines)
    /\ \A n \in 1 .. Len(t) : t[n] = ObfuscatedLine(lines, n)
    /\ HasSeen(known, lines, Len(t))

SoFar(c, known) == Faithful(Lines(c), text[c], known)

CopiesOwn(r) ==
    /\ pc[r] \in {"create", "copy"} => Place(Input(Current(r))) \in DOMAIN Existing
    /\ pc[r] = "create" => aliases[r] = NoAliases
    /\ pc[r] = "copy" => SoFar(Current(r), aliases[r])
    /\ \A c \in Copies : c[1] = r /\ ToWrite(c) => text[c] = <<>>

AliasesTyped ==
    /\ aliases = [r \in Runs |-> aliases[r]]
    /\ \A r \in Runs : /\ IsFiniteSet(DOMAIN aliases[r])
                       /\ \A f \in DOMAIN aliases[r] : aliases[r][f] \in Nat

CopyInv == TypeOK /\ AliasesTyped /\ CopiesWhole /\ \A r \in Runs : CopiesOwn(r)

LEMMA OtherPlaces ==
  ASSUME NEW c \in Copies
  PROVE  /\ Place(Input(c)) \in Places /\ Place(Output(c)) \in Places
         /\ User \notin Copies /\ None \notin Copies /\ User # None
         /\ \A d \in Copies : Place(Input(c)) # Place(Output(d))
BY SecretAssumption DEF Places

LEMMA CurrentOf ==
  ASSUME Shape, NEW r \in Runs, NEW c \in Copies, c[1] = r
  PROVE  /\ c = Current(r) <=> c[2] = nth[r]
         /\ nth[r] \in Nat /\ c[2] \in Nat
  BY CopyOf, InputsNumbered DEF Current, Shape

(* A step of one invocation at one of its copies: what is to be shown of   *)
(* that copy and that invocation, and that nothing else is disturbed.      *)
LEMMA StepAtCopy ==
  ASSUME IInv, CopyInv, NEW r \in Runs, NEW own \in Copies, own = Current(r),
         NEW content, content \in {None, own},
         files' = files \/ files' = [files EXCEPT ![OutputPlace(r)] = content],
         \A c \in Copies \ {own} : text'[c] = text[c],
         granted \subseteq granted',
         \A q \in Runs \ {r} : pc'[q] = pc[q] /\ nth'[q] = nth[q] /\ aliases'[q] = aliases[q],
         \A p \in Places : files'[p] = own => (Whole(own) \/ UnderWay(own))',
         CopiesOwn(r)'
  PROVE  CopiesWhole' /\ \A q \in Runs : CopiesOwn(q)'
<1>0. /\ files \in [Places -> Copies \cup {User, None}] /\ Shape
      /\ OutputPlace(r) = Place(Output(own)) /\ OutputPlace(r) \in Places
  BY OtherPlaces DEF IInv, Shape, OutputPlace
<1>1. \A p \in Places : /\ files'[p] = files[p] \/ (p = OutputPlace(r) /\ files'[p] = content)
  BY <1>0
<1>2. own[1] = r /\ own[2] = nth[r]
  BY DEF Current
<1>3. ASSUME NEW p \in Places, files'[p] = User PROVE p \in DOMAIN Existing
  BY <1>1, <1>3, OtherPlaces DEF CopyInv, CopiesWhole
<1>4. ASSUME NEW p \in Places, NEW c \in Copies, files'[p] = c
      PROVE  p = Place(Output(c)) /\ (Whole(c) \/ UnderWay(c))'
  <2>1. CASE c = own
    <3>1. p = Place(Output(own))
      BY <1>0, <1>1, <1>4, <2>1 DEF CopyInv, CopiesWhole
    <3> QED
      BY <1>4, <2>1, <3>1
  <2>2. CASE c # own
    <3>1. files[p] = c
      BY <1>1, <1>4, <2>2, OtherPlaces
    <3>2. p = Place(Output(c)) /\ (Whole(c) \/ UnderWay(c))
      BY <3>1 DEF CopyInv, CopiesWhole
    <3>3. Whole(c) => Whole(c)'
      BY <2>2 DEF Whole, Lines
    <3>4. UnderWay(c) => UnderWay(c)'
      <4>1. CASE c[1] = r
        BY <1>0, <2>2, <4>1, CurrentOf DEF UnderWay
      <4>2. CASE c[1] # r
        BY <4>2, CopyOf DEF UnderWay
      <4> QED
        BY <4>1, <4>2
    <3> QED
      BY <3>2, <3>3, <3>4
  <2> QED
    BY <2>1, <2>2
<1>5. ASSUME NEW q \in Runs \ {r} PROVE CopiesOwn(q)'
  <2>1. CopiesOwn(q)
    BY DEF CopyInv
  <2>2. pc'[q] = pc[q] /\ nth'[q] = nth[q] /\ aliases'[q] = aliases[q]
    OBVIOUS
  <2>3. Current(q)' = Current(q) /\ Current(q) \in Copies /\ Current(q) # own
    BY <1>0, <1>2, <2>2, CurrentIsCopy DEF Current
  <2>4. text'[Current(q)] = text[Current(q)]
    BY <2>3
  <2>5. SoFar(Current(q), aliases[q]) => SoFar(Current(q), aliases[q])'
    BY <2>2, <2>3, <2>4 DEF SoFar, Lines
  <2>6. \A c \in Copies : c[1] = q => text'[c] = text[c] /\ (ToWrite(c)' => ToWrite(c))
    BY <1>2, <2>2 DEF ToWrite
  <2> QED
    BY <2>1, <2>2, <2>3, <2>5, <2>6 DEF CopiesOwn
<1> QED
  BY <1>3, <1>4, <1>5 DEF CopiesWhole

(* What goes wrong takes the copy away.                                    *)
LEMMA CopyRemoved ==
  ASSUME IInv, CopyInv, NEW r \in Runs, RemoveOutput(r), UNCHANGED <<text, granted, nth>>,
         \A q \in Runs \ {r} : aliases'[q] = aliases[q]
  PROVE  CopiesWhole' /\ \A q \in Runs : CopiesOwn(q)'
<1>1. PICK own \in Copies : own = Current(r)
  BY CurrentIsCopy DEF IInv
<1>2. /\ files' = [files EXCEPT ![OutputPlace(r)] = None]
      /\ pc' = [pc EXCEPT ![r] = "failed"]
      /\ files \in [Places -> Copies \cup {User, None}] /\ OutputPlace(r) = Place(Output(own))
      /\ pc \in [Runs -> {"plan", "open", "create", "copy", "done", "failed", "killed"}]
  BY <1>1 DEF RemoveOutput, Goto, IInv, Shape, OutputPlace
<1>3. \A p \in Places : files'[p] # own
  <2>1. ASSUME NEW p \in Places, files'[p] = own PROVE FALSE
    <3>1. p # OutputPlace(r) /\ files[p] = own
      BY <1>2, <2>1, OtherPlaces
    <3> QED
      BY <1>2, <3>1 DEF CopyInv, CopiesWhole
  <2> QED
    BY <2>1
<1>4. CopiesOwn(r)'
  BY <1>2 DEF CopiesOwn, ToWrite
<1>5. \A q \in Runs \ {r} : pc'[q] = pc[q]
  BY <1>2
<1> QED
  BY <1>1, <1>2, <1>3, <1>4, <1>5, StepAtCopy

(* Where a step does not write, a copy at its place stays as it is.        *)
LEMMA PlanCopies ==
  ASSUME IInv, CopyInv, NEW r \in Runs, PlanOutput(r)
  PROVE  CopiesWhole' /\ \A q \in Runs : CopiesOwn(q)'
<1>0. Shape
  BY DEF IInv
<1>1. PICK own \in Copies : own = Current(r)
  BY CurrentIsCopy DEF IInv
<1>2. own[1] = r /\ pc[r] = "plan" /\ UNCHANGED <<files, text, granted, aliases>>
  BY <1>1 DEF Current, PlanOutput
<1>3. /\ pc'[r] \in {"plan", "open", "failed"}
      /\ \A q \in Runs \ {r} : pc'[q] = pc[q] /\ nth'[q] = nth[q]
  BY <1>0, <1>2 DEF PlanOutput, Goto, Shape
<1>4. \A p \in Places : files'[p] = own => Whole(own)'
  BY <1>2 DEF CopyInv, CopiesWhole, UnderWay, Whole, Lines
<1>5. \A c \in Copies : c[1] = r => text'[c] = <<>>
  BY <1>2 DEF CopyInv, CopiesOwn, ToWrite
<1>6. CopiesOwn(r)'
  BY <1>3, <1>5 DEF CopiesOwn
<1> QED
  BY <1>1, <1>2, <1>3, <1>4, <1>6, StepAtCopy

LEMMA OpenCopies ==
  ASSUME IInv, CopyInv, NEW r \in Runs, OpenInput(r)
  PROVE  CopiesWhole' /\ \A q \in Runs : CopiesOwn(q)'
<1>0. Shape
  BY DEF IInv
<1>1. PICK own \in Copies : own = Current(r)
  BY CurrentIsCopy DEF IInv
<1>2. /\ own[1] = r /\ own[2] = nth[r] /\ pc[r] = "open" /\ UNCHANGED <<text, granted, nth>>
      /\ aliases' = [aliases EXCEPT ![r] = NoAliases]
  BY <1>1 DEF Current, OpenInput, Reset
<1>3. \A q \in Runs \ {r} : aliases'[q] = aliases[q]
  BY <1>2
<1>4. CASE RemoveOutput(r)
  BY <1>2, <1>3, <1>4, CopyRemoved
<1>5. CASE files[Place(Input(own))] # None /\ Goto(r, "create") /\ UNCHANGED files
  <2>1. pc'[r] = "create" /\ \A q \in Runs \ {r} : pc'[q] = pc[q] /\ nth'[q] = nth[q]
    BY <1>0, <1>2, <1>5 DEF Goto, Shape
  <2>2. Place(Input(own)) \in DOMAIN Existing
    <3>1. files[Place(Input(own))] \notin Copies
      BY OtherPlaces DEF CopyInv, CopiesWhole
    <3>2. files[Place(Input(own))] = User
      BY <1>0, <1>5, <3>1, OtherPlaces DEF Shape
    <3> QED
      BY <3>2, OtherPlaces DEF CopyInv, CopiesWhole
  <2>3. \A p \in Places : files'[p] = own => Whole(own)'
    BY <1>2, <1>5 DEF CopyInv, CopiesWhole, UnderWay, Whole, Lines
  <2>4. Current(r)' = own /\ aliases'[r] = NoAliases
    BY <1>1, <1>2 DEF Current, CopyInv, AliasesTyped
  <2>5. \A c \in Copies : c[1] = r /\ ToWrite(c)' => text'[c] = <<>>
    BY <1>2, <2>1 DEF CopyInv, CopiesOwn, ToWrite
  <2>6. CopiesOwn(r)'
    BY <2>1, <2>2, <2>4, <2>5 DEF CopiesOwn
  <2> QED
    BY <1>1, <1>2, <1>3, <1>5, <2>1, <2>3, <2>6, StepAtCopy
<1> QED
  BY <1>1, <1>4, <1>5 DEF OpenInput

LEMMA CreateCopies ==
  ASSUME IInv, CopyInv, NEW r \in Runs, CreateOutput(r)
  PROVE  CopiesWhole' /\ \A q \in Runs : CopiesOwn(q)'
<1>0. Shape
  BY DEF IInv
<1>1. PICK own \in Copies : own = Current(r)
  BY CurrentIsCopy DEF IInv
<1>2. /\ own[1] = r /\ own[2] = nth[r] /\ pc[r] = "create"
      /\ UNCHANGED <<text, granted, nth, aliases>>
  BY <1>1 DEF Current, CreateOutput
<1>3. CASE RemoveOutput(r)
  BY <1>2, <1>3, CopyRemoved
<1>4. CASE files' = [files EXCEPT ![OutputPlace(r)] = own] /\ Goto(r, "copy")
  <2>1. pc'[r] = "copy" /\ \A q \in Runs \ {r} : pc'[q] = pc[q] /\ nth'[q] = nth[q]
    BY <1>0, <1>2, <1>4 DEF Goto, Shape
  <2>2. UnderWay(own)' /\ Current(r)' = own
    BY <1>1, <1>2, <2>1 DEF UnderWay, Current
  <2>3. /\ Place(Input(own)) \in DOMAIN Existing /\ aliases[r] = NoAliases
        /\ \A c \in Copies : c[1] = r /\ ToWrite(c) => text[c] = <<>>
    BY <1>1, <1>2 DEF CopyInv, CopiesOwn
  <2>4. text[own] = <<>>
    BY <1>0, <1>2, <2>3, CurrentOf DEF ToWrite
  <2>5. SoFar(own, aliases[r])'
    <3>1. Len(Lines(own)) \in Nat
      BY <2>3, SecretAssumption DEF Lines
    <3>2. HasSeen(NoAliases, Lines(own), 0)
      BY DEF HasSeen, NoAliases, Before
    <3> QED
      BY <1>2, <2>3, <2>4, <3>1, <3>2 DEF SoFar, Faithful, Lines
  <2>6. \A c \in Copies : c[1] = r /\ ToWrite(c)' => text'[c] = <<>>
    <3>1. ASSUME NEW c \in Copies, c[1] = r, ToWrite(c)' PROVE ToWrite(c)
      <4>1. c[2] > nth[r] /\ c[2] \in Nat /\ nth[r] \in Nat
        BY <1>0, <1>2, <2>1, <3>1, CurrentOf DEF ToWrite
      <4> QED
        BY <1>2, <3>1, <4>1 DEF ToWrite
    <3> QED
      BY <1>2, <2>3, <3>1
  <2>7. CopiesOwn(r)'
    BY <2>1, <2>2, <2>3, <2>5, <2>6 DEF CopiesOwn
  <2> QED
    BY <1>1, <1>2, <1>4, <2>1, <2>2, <2>7, StepAtCopy
<1> QED
  BY <1>1, <1>3, <1>4 DEF CreateOutput

(* One line: its field is looked up, its alias written.                    *)
AddsLine(lines, t, known, next, more) ==
    LET field == lines[Len(t) + 1]
    IN  /\ next = WithAlias(known, field)
        /\ more = Append(t, [tag |-> field.tag, alias |-> next[field]])

LEMMA LineCopied ==
  ASSUME NEW S, NEW lines \in Seq(S), NEW U, NEW t \in Seq(U), NEW known, NEW next, NEW more,
         Len(t) # Len(lines), Faithful(lines, t, known), AddsLine(lines, t, known, next, more)
  PROVE  Faithful(lines, more, next)
<1>1. Len(t) \in Nat /\ Len(lines) \in Nat /\ Len(t) < Len(lines)
  BY DEF Faithful
<1>2. PICK n \in Nat : n = Len(t)
  BY <1>1
<1>3. PICK field : field = lines[n + 1]
  OBVIOUS
<1>4. next = WithAlias(known, field)
  BY <1>2, <1>3 DEF AddsLine
<1>5. HasSeen(known, lines, n)
  BY <1>2 DEF Faithful
<1>6. HasSeen(next, lines, n + 1)
  BY <1>3, <1>4, <1>5, SeesNext
<1>7. next[field] = Number(lines, n + 1)
  <2>1. n + 1 \in 1 .. n + 1
    OBVIOUS
  <2> QED
    BY <1>3, <1>6, <2>1 DEF HasSeen
<1>8. PICK x : x = ObfuscatedLine(lines, n + 1)
  OBVIOUS
<1>9. more = Append(t, x)
  BY <1>2, <1>3, <1>7, <1>8 DEF AddsLine, ObfuscatedLine
<1>10. Len(more) = n + 1 /\ more[n + 1] = x /\ \A m \in 1 .. n : more[m] = t[m]
  BY <1>2, <1>9
<1>11. \A m \in 1 .. n + 1 : more[m] = ObfuscatedLine(lines, m)
  BY <1>2, <1>8, <1>10 DEF Faithful
<1> QED
  BY <1>1, <1>2, <1>6, <1>10, <1>11 DEF Faithful

LEMMA CopyLineCopies ==
  ASSUME IInv, CopyInv, NEW r \in Runs, CopyLine(r)
  PROVE  CopiesWhole' /\ \A q \in Runs : CopiesOwn(q)'
<1>0. Shape /\ aliases = [q \in Runs |-> aliases[q]] /\ text \in [Copies -> Seq(Line)]
  BY DEF IInv, CopyInv, AliasesTyped, TypeOK
<1>1. PICK own \in Copies : own = Current(r)
  BY CurrentIsCopy DEF IInv
<1>2. PICK lines : lines = Lines(own)
  OBVIOUS
<1>3. PICK field : field = lines[Len(text[own]) + 1]
  OBVIOUS
<1>4. PICK known : known = WithAlias(aliases[r], field)
  OBVIOUS
<1>5. PICK line : line = [tag |-> field.tag, alias |-> known[field]]
  OBVIOUS
<1>6. /\ own[1] = r /\ own[2] = nth[r] /\ pc[r] = "copy" /\ UNCHANGED <<files, granted, pc, nth>>
      /\ Len(text[own]) # Len(lines)
      /\ aliases' = [aliases EXCEPT ![r] = known]
      /\ text' = [text EXCEPT ![own] = Append(@, line)]
  BY <1>1, <1>2, <1>3, <1>4, <1>5 DEF CopyLine, AtEnd, Current
<1>7. /\ aliases'[r] = known /\ \A q \in Runs \ {r} : aliases'[q] = aliases[q]
      /\ text'[own] = Append(text[own], line) /\ \A c \in Copies \ {own} : text'[c] = text[c]
  BY <1>0, <1>6
<1>8. Place(Input(own)) \in DOMAIN Existing /\ SoFar(own, aliases[r]) /\ lines \in Seq(Fields)
  BY <1>1, <1>2, <1>6, SecretAssumption DEF CopyInv, CopiesOwn, Lines
<1>9. Faithful(lines, text'[own], known)
  <2>1. PICK t \in Seq(Line) : t = text[own]
    BY <1>0
  <2>2. PICK more : more = Append(t, line)
    OBVIOUS
  <2>3. PICK seen : seen = aliases[r]
    OBVIOUS
  <2>4. AddsLine(lines, t, seen, known, more)
    BY <1>3, <1>4, <1>5, <2>1, <2>2, <2>3 DEF AddsLine
  <2>5. Faithful(lines, t, seen)
    BY <1>2, <1>8, <2>1, <2>3 DEF SoFar
  <2>6. Faithful(lines, more, known)
    BY <1>6, <1>8, <2>1, <2>4, <2>5, LineCopied
  <2> QED
    BY <1>7, <2>1, <2>2, <2>6
<1>10. CopiesOwn(r)'
  <2>1. Current(r)' = own /\ Lines(own)' = lines
    BY <1>1, <1>2, <1>6 DEF Current, Lines
  <2>2. SoFar(own, aliases[r])'
    BY <1>7, <1>9, <2>1 DEF SoFar
  <2>3. \A c \in Copies : c[1] = r /\ ToWrite(c)' => text'[c] = <<>>
    <3>1. ASSUME NEW c \in Copies, c[1] = r, ToWrite(c)' PROVE ToWrite(c) /\ c # own
      <4>1. c[2] > nth[r] /\ c[2] \in Nat /\ nth[r] \in Nat
        BY <1>0, <1>6, <3>1, CurrentOf DEF ToWrite
      <4> QED
        BY <1>6, <3>1, <4>1 DEF ToWrite
    <3> QED
      BY <1>7, <3>1 DEF CopyInv, CopiesOwn
  <2> QED
    BY <1>6, <1>8, <2>1, <2>2, <2>3 DEF CopiesOwn
<1>11. UnderWay(own)'
  BY <1>6 DEF UnderWay
<1> QED
  BY <1>1, <1>6, <1>7, <1>10, <1>11, StepAtCopy

LEMMA GrantCopies ==
  ASSUME IInv, CopyInv, NEW r \in Runs, SetPermissions(r)
  PROVE  CopiesWhole' /\ \A q \in Runs : CopiesOwn(q)'
<1>0. Shape /\ text \in [Copies -> Seq(Line)]
  BY DEF IInv, CopyInv, TypeOK
<1>1. PICK own \in Copies : own = Current(r)
  BY CurrentIsCopy DEF IInv
<1>2. /\ own[1] = r /\ own[2] = nth[r] /\ pc[r] = "copy" /\ UNCHANGED <<text, aliases>>
      /\ Len(text[own]) = Len(Lines(own)) /\ OutputPlace(r) = Place(Output(own))
  BY <1>1 DEF Current, SetPermissions, AtEnd, OutputPlace
<1>3. CASE Gone(r)
  BY <1>2, <1>3, CopyRemoved DEF SetPermissions
<1>4. CASE ~Gone(r)
  <2>1. /\ files' = files /\ granted' = granted \cup {files[OutputPlace(r)]}
        /\ pc' = [pc EXCEPT ![r] = IF IsLast(r) THEN "done" ELSE "open"]
        /\ nth' = [nth EXCEPT ![r] = IF IsLast(r) THEN @ ELSE @ + 1]
    BY <1>2, <1>4 DEF SetPermissions, Goto
  <2>2. \A q \in Runs \ {r} : pc'[q] = pc[q] /\ nth'[q] = nth[q]
    BY <1>0, <2>1 DEF Shape
  <2>3. text[own] = Obfuscated(Lines(own))
    <3>1. /\ Place(Input(own)) \in DOMAIN Existing /\ SoFar(own, aliases[r])
      BY <1>1, <1>2 DEF CopyInv, CopiesOwn
    <3>2. Lines(own) \in Seq(Fields)
      BY <3>1, SecretAssumption DEF Lines
    <3>3. PICK lines \in Seq(Fields) : lines = Lines(own)
      BY <3>2
    <3>4. text[own] = [n \in DOMAIN lines |-> ObfuscatedLine(lines, n)]
      BY <1>0, <1>2, <3>1, <3>3 DEF SoFar, Faithful
    <3> QED
      BY <3>3, <3>4, ObfuscatedIs
  <2>4. \A p \in Places : files'[p] = own => Whole(own)'
    <3>1. ASSUME NEW p \in Places, files'[p] = own PROVE Whole(own)'
      <4>1. files[OutputPlace(r)] = own
        BY <1>2, <2>1, <3>1 DEF CopyInv, CopiesWhole
      <4>2. Place(Input(own)) \in DOMAIN Existing
        BY <1>1, <1>2 DEF CopyInv, CopiesOwn
      <4> QED
        BY <1>2, <2>1, <2>3, <4>1, <4>2 DEF Whole, Lines
    <3> QED
      BY <3>1
  <2>5. CopiesOwn(r)'
    <3>1. pc'[r] \in {"done", "open"} /\ (pc'[r] = "open" => nth'[r] = nth[r] + 1)
      BY <1>0, <2>1 DEF Shape
    <3>2. \A c \in Copies : c[1] = r /\ ToWrite(c)' => ToWrite(c)
      <4>1. ASSUME NEW c \in Copies, c[1] = r, ToWrite(c)' PROVE ToWrite(c)
        <5>1. c[2] >= nth[r] + 1 /\ c[2] \in Nat /\ nth[r] \in Nat
          BY <1>0, <3>1, <4>1, CurrentOf DEF ToWrite
        <5> QED
          BY <1>2, <4>1, <5>1 DEF ToWrite
      <4> QED
        BY <4>1
    <3> QED
      BY <1>2, <3>1, <3>2 DEF CopyInv, CopiesOwn
  <2> QED
    BY <1>1, <1>2, <2>1, <2>2, <2>4, <2>5, StepAtCopy
<1> QED
  BY <1>3, <1>4

(* The types of what only the copies change.                               *)
LEMMA WithAliasTyped ==
  ASSUME NEW known, NEW field \in Fields, DOMAIN known \subseteq Fields,
         IsFiniteSet(DOMAIN known), \A f \in DOMAIN known : known[f] \in Nat
  PROVE  LET next == WithAlias(known, field)
         IN  /\ DOMAIN next \subseteq Fields /\ IsFiniteSet(DOMAIN next)
             /\ \A f \in DOMAIN next : next[f] \in Nat
<1> DEFINE same(f) == {g \in DOMAIN known : g.tag = f.tag}
<1>1. \A f : Cardinality(same(f)) \in Nat
  BY FS_Subset, FS_CardinalityType
<1>2. IsFiniteSet(DOMAIN known \cup {field})
  BY FS_AddElement
<1> QED
  BY <1>1, <1>2 DEF WithAlias

LEMMA CopyTypes ==
  ASSUME IInv, IInv', CopyInv, [Next]_vars
  PROVE  TypeOK' /\ AliasesTyped'
<1>1. /\ text \in [Copies -> Seq(Line)] /\ granted \subseteq Copies
      /\ \A r \in Runs : DOMAIN aliases[r] \subseteq Fields
      /\ AliasesTyped /\ Shape /\ Shape'
  BY DEF IInv, CopyInv, TypeOK
<1>2. /\ text' \in [Copies -> Seq(Line)] /\ granted' \subseteq Copies
      /\ \A r \in Runs : DOMAIN aliases'[r] \subseteq Fields
      /\ AliasesTyped'
  <2>1. CASE UNCHANGED <<text, granted, aliases>>
    BY <1>1, <2>1 DEF AliasesTyped
  <2>2. ASSUME NEW r \in Runs, OpenInput(r)
        PROVE  /\ UNCHANGED <<text, granted>>
               /\ \A q \in Runs : DOMAIN aliases'[q] \subseteq Fields
               /\ AliasesTyped'
    <3>1. /\ UNCHANGED <<text, granted>> /\ aliases' = [aliases EXCEPT ![r] = NoAliases]
      BY <2>2 DEF OpenInput, Reset
    <3>2. DOMAIN NoAliases = {}
      BY DEF NoAliases
    <3>3. \A q \in Runs : aliases'[q] = IF q = r THEN NoAliases ELSE aliases[q]
      BY <1>1, <3>1 DEF AliasesTyped
    <3>4. aliases' = [q \in Runs |-> aliases'[q]]
      BY <1>1, <3>1 DEF AliasesTyped
    <3> QED
      BY <1>1, <3>1, <3>2, <3>3, <3>4, FS_EmptySet DEF AliasesTyped
  <2>3. ASSUME NEW r \in Runs, CopyLine(r)
        PROVE  /\ text' \in [Copies -> Seq(Line)] /\ granted' = granted
               /\ \A q \in Runs : DOMAIN aliases'[q] \subseteq Fields
               /\ AliasesTyped'
    <3>1. PICK own \in Copies : own = Current(r)
      BY <1>1, CurrentIsCopy
    <3>2. PICK field : field = Lines(own)[Len(text[own]) + 1]
      OBVIOUS
    <3>3. PICK known : known = WithAlias(aliases[r], field)
      OBVIOUS
    <3>4. /\ pc[r] = "copy" /\ Len(text[own]) # Len(Lines(own)) /\ granted' = granted
          /\ aliases' = [aliases EXCEPT ![r] = known]
          /\ text' = [text EXCEPT ![own] = Append(@, [tag |-> field.tag, alias |-> known[field]])]
      BY <2>3, <3>1, <3>2, <3>3 DEF CopyLine, AtEnd
    <3>5. field \in Fields
      <4>1. Place(Input(own)) \in DOMAIN Existing /\ SoFar(own, aliases[r])
        BY <3>1, <3>4 DEF CopyInv, CopiesOwn
      <4>2. Lines(own) \in Seq(Fields) /\ Len(text[own]) \in Nat
        BY <1>1, <4>1, SecretAssumption DEF Lines
      <4>3. Len(text[own]) + 1 \in 1 .. Len(Lines(own))
        BY <3>4, <4>1, <4>2 DEF SoFar, Faithful
      <4> QED
        BY <3>2, <4>2, <4>3
    <3>6. /\ DOMAIN known \subseteq Fields /\ IsFiniteSet(DOMAIN known)
          /\ \A f \in DOMAIN known : known[f] \in Nat
      BY <1>1, <3>3, <3>5, WithAliasTyped DEF AliasesTyped
    <3>7. /\ \A q \in Runs : aliases'[q] = IF q = r THEN known ELSE aliases[q]
          /\ aliases' = [q \in Runs |-> aliases'[q]]
      BY <1>1, <3>4 DEF AliasesTyped
    <3>8. [tag |-> field.tag, alias |-> known[field]] \in Line
      <4>1. field \in DOMAIN known
        BY <3>3 DEF WithAlias
      <4> QED
        BY <3>5, <3>6, <4>1 DEF Line
    <3>9. text' \in [Copies -> Seq(Line)]
      BY <1>1, <3>4, <3>8
    <3> QED
      BY <1>1, <3>4, <3>6, <3>7, <3>9 DEF AliasesTyped
  <2>4. ASSUME NEW r \in Runs, SetPermissions(r)
        PROVE  UNCHANGED <<text, aliases>> /\ granted' \subseteq Copies
    <3>1. CASE Gone(r)
      BY <1>1, <2>4, <3>1 DEF SetPermissions
    <3>2. CASE ~Gone(r)
      <4>1. UNCHANGED <<text, aliases>> /\ granted' = granted \cup {files[OutputPlace(r)]}
        BY <2>4, <3>2 DEF SetPermissions
      <4>2. OutputPlace(r) \in Places /\ OutputPlace(r) \notin DOMAIN Existing
        BY <1>1, <2>4, CurrentIsCopy, WritesElsewhere DEF SetPermissions, Writing
      <4>3. files[OutputPlace(r)] \in Copies
        BY <1>1, <3>2, <4>2 DEF Shape, Gone, CopyInv, CopiesWhole
      <4> QED
        BY <1>1, <4>1, <4>3
    <3> QED
      BY <3>1, <3>2
  <2>5. ASSUME NEW r \in Runs, PlanOutput(r) \/ CreateOutput(r) \/ IoFails(r) \/ Killed(r)
        PROVE  UNCHANGED <<text, granted, aliases>>
    BY <2>5 DEF PlanOutput, CreateOutput, IoFails, Killed
  <2> QED
    BY <1>1, <2>1, <2>2, <2>3, <2>4, <2>5 DEF Next, vars, AliasesTyped
<1> QED
  BY <1>1, <1>2 DEF TypeOK, Shape

LEMMA CopyStep ==
  ASSUME IInv, IInv', CopyInv, [Next]_vars
  PROVE  CopyInv'
<1>0. Shape
  BY DEF IInv
<1>1. CASE UNCHANGED vars
  <2>1. CopiesWhole'
    BY <1>1 DEF vars, CopyInv, CopiesWhole, Whole, UnderWay, Lines
  <2>2. ASSUME NEW r \in Runs PROVE CopiesOwn(r)'
    <3>1. Current(r)' = Current(r) /\ (SoFar(Current(r), aliases[r])' <=> SoFar(Current(r), aliases[r]))
      BY <1>1 DEF vars, Current, SoFar, Lines
    <3> QED
      BY <1>1, <3>1 DEF vars, CopyInv, CopiesOwn, ToWrite
  <2> QED
    BY <2>1, <2>2, CopyTypes DEF CopyInv
<1>2. ASSUME NEW r \in Runs, IoFails(r)
      PROVE  CopiesWhole' /\ \A q \in Runs : CopiesOwn(q)'
  <2>1. RemoveOutput(r) /\ UNCHANGED <<text, granted, nth, aliases>>
    BY <1>2 DEF IoFails
  <2> QED
    BY <2>1, CopyRemoved
<1>3. ASSUME NEW r \in Runs, Killed(r)
      PROVE  CopiesWhole' /\ \A q \in Runs : CopiesOwn(q)'
  <2>1. PICK own \in Copies : own = Current(r)
    BY <1>0, CurrentIsCopy
  <2>2. /\ UNCHANGED <<files, text, granted, nth, aliases>> /\ pc[r] # "failed"
        /\ pc'[r] = "killed" /\ \A q \in Runs \ {r} : pc'[q] = pc[q] /\ nth'[q] = nth[q]
    BY <1>0, <1>3 DEF Killed, Goto, Shape
  <2>3. own[1] = r /\ own[2] = nth[r]
    BY <2>1 DEF Current
  <2>4. UnderWay(own)'
    BY <2>2, <2>3 DEF UnderWay
  <2>5. CopiesOwn(r)'
    BY <2>2 DEF CopiesOwn, ToWrite
  <2> QED
    BY <2>1, <2>2, <2>4, <2>5, StepAtCopy
<1>4. CopiesWhole' /\ \A q \in Runs : CopiesOwn(q)'
  BY <1>1, <1>2, <1>3, PlanCopies, OpenCopies, CreateCopies, CopyLineCopies, GrantCopies
     DEF Next, CopyInv
<1> QED
  BY <1>4, CopyTypes DEF CopyInv

LEMMA CopyInit == Init => CopyInv
<1> SUFFICES ASSUME Init PROVE CopyInv
  OBVIOUS
<1>1. DOMAIN NoAliases = {}
  BY DEF NoAliases
<1>2. /\ aliases = [r \in Runs |-> NoAliases] /\ text = [c \in Copies |-> <<>>]
      /\ pc = [r \in Runs |-> "plan"] /\ Shape
  BY InitInv DEF Init, IInv
<1>3. AliasesTyped
  BY <1>1, <1>2, FS_EmptySet DEF AliasesTyped
<1>4. TypeOK
  BY <1>1, <1>2 DEF Init, TypeOK, Shape
<1>5. CopiesWhole
  <2>1. \A p \in Places : files[p] = IF p \in DOMAIN Existing THEN User ELSE None
    BY DEF Init
  <2>2. User \notin Copies /\ None \notin Copies /\ User # None
    BY SecretAssumption
  <2>3. \A p \in Places : \A c \in Copies : files[p] # c
    BY <2>1, <2>2
  <2>4. \A p \in Places : files[p] = User => p \in DOMAIN Existing
    BY <2>1, <2>2
  <2> QED
    BY <2>3, <2>4 DEF CopiesWhole
<1>6. \A r \in Runs : CopiesOwn(r)
  BY <1>2 DEF CopiesOwn
<1> QED
  BY <1>3, <1>4, <1>5, <1>6 DEF CopyInv

LEMMA CopyInvariance == Spec => [](IInv /\ CopyInv)
<1>1. Init => IInv /\ CopyInv
  BY InitInv, CopyInit
<1>2. IInv /\ CopyInv /\ [Next]_vars => (IInv /\ CopyInv)'
  BY InvStep, CopyStep
<1> QED
  BY <1>1, <1>2, PTL DEF Spec

(* Every variable of --secret-files keeps its type; in particular          *)
(* permissions are only ever given to copies, never to a user's file.      *)
THEOREM SecretTypes == Spec => []TypeOK
<1>1. CopyInv => TypeOK
  BY DEF CopyInv
<1> QED
  BY <1>1, CopyInvariance, PTL

(* An invocation that ends, with success or with an error, has left at an  *)
(* output path the whole obfuscation of the input or nothing of its own,   *)
(* whatever the other invocations did meanwhile at the same paths.         *)
THEOREM CopiesAreWhole == Spec => []NoPartialCopies
<1>1. CopyInv => NoPartialCopies
  BY DEF CopyInv, CopiesWhole, NoPartialCopies, Whole, UnderWay
<1> QED
  BY <1>1, CopyInvariance, PTL

=============================================================================
