------------------------ MODULE StateRecoveryProofs ------------------------
(* Proofs about StateRecovery, for any screens and any number of runs,     *)
(* changes and failing file operations: no crash loses a screen, a durable *)
(* answer is final, and files of other versions survive.                   *)
EXTENDS StateRecovery, FiniteSetTheorems, SequenceTheorems, TLAPS

-----------------------------------------------------------------------------
(* The inductive invariant, part by part.                                  *)

State == disk.state
Copy  == disk.copy
Asked == answer.text.hash
Owed  == owed.hash

Clear == boot.guard = "no"

(* What a plan may still hold, in the order of its actions. *)
Writes  == {<<"WriteCrashCopy">>, <<"CopyAsideCrashCopy", "WriteCrashCopy">>}
Removes == {<<"RemoveUnusable">>, <<"CopyAsideCrashCopy", "RemoveUnusable">>,
            <<"CopyAsideState", "CopyAsideCrashCopy", "RemoveUnusable">>}
Asides  == {<<"CopyAsideState">>,
            <<"CopyAsideState", "CopyAsideCrashCopy", "RemoveUnusable">>}
Forgets == {<<"RemoveAnswered">>}

ToWrite  == boot.todo \in Writes
ToRemove == boot.todo \in Removes
ToAside  == boot.todo \in Asides
ToForget == boot.todo \in Forgets

(* The copy of a question that is settled, as far as the state file tells. *)
CopyAnswered == IsText(Copy) /\ IsText(State) /\ State.text.resolved = Copy.text.hash

CopyIs(h) == IsText(Copy) /\ Copy.text.hash = h

(* Who is at work in which phase of a process. *)
Life ==
  /\ ~Up => /\ saver.pc = "none" /\ inbox = <<>> /\ ~owed.accepted
            /\ answer.phase = "none" /\ answer.call = "idle"
  /\ boot.phase = "down" => Asked = None
  /\ Up => boot.todo = <<>>
  /\ saver.pc # "none" => Up /\ Clear
  /\ inbox # <<>> => saver.pc # "none"
  /\ answer.phase # "none" => Asked # None
  /\ answer.call # "idle" => answer.phase = "answered"
  /\ answer.phase # "answered" => ui.rev <= MaxEdits

(* A request for the recorder is about the text the user was asked about. *)
Requests ==
  /\ \A i \in DOMAIN inbox : inbox[i].type = "Resolve" =>
       inbox[i].hash = Asked /\ answer.phase = "answered"
  /\ \A i \in DOMAIN inbox : inbox[i].type = "Final" => inbox[i].hash = None
  /\ saver.cause = "Resolve" /\ saver.pc \in {"snapshot", "write", "drop"} =>
       saver.resolved = Asked /\ answer.phase = "answered"

(* What the rest of a boot's plan presupposes of the files. *)
PlanFits ==
  boot.phase = "acting" =>
    /\ boot.todo = <<>> \/ ToWrite \/ ToRemove \/ ToAside \/ ToForget
    /\ ToWrite => /\ Clear /\ IsText(State) /\ answer.text = State.text
                  /\ Copy.kind # "newer" /\ (IsText(Copy) => CopyAnswered)
    /\ ToRemove => Copy.kind = "corrupt"
    /\ ToForget => CopyAnswered /\ Asked = None
    /\ Clear /\ State.kind = "corrupt" => ToAside \/ boot.asideTried

(* A text never names its own hash as answered. *)
NotItsOwn == IsText(State) => State.text.resolved # State.text.hash

(* The screen that is owed is the one the next boot would put to the user; *)
(* once this run may write the state file, the copy holds it.              *)
OwedIsKept ==
  /\ Owed # None => Outstanding = Owed
  /\ boot.phase # "down" /\ Clear /\ ~ToWrite /\ Owed # None => CopyIs(Owed)
  /\ boot.phase # "down" /\ Clear /\ ~ToWrite /\ Asked # None /\ IsText(Copy) => CopyIs(Asked)
  /\ boot.carry # None => boot.carry # Owed

(* It is put to the user, and named as answered only after the user has    *)
(* accepted it, together with the layout it became.                        *)
OwedIsAsked ==
  /\ boot.phase # "down" /\ boot.reads = "ok" /\ Owed # None => Asked = Owed
  /\ Up /\ boot.reads = "ok" /\ Owed # None /\ ~owed.accepted => answer.phase = "awaiting"
  /\ answer.phase = "answered" /\ Asked = Owed => owed.accepted
  /\ saver.pc # "none" /\ saver.resolved = Owed /\ Owed # None =>
       owed.accepted /\ saver.pc # "drop" /\ (saver.pc = "write" => saver.covers)

(* The slot of the recorder, or what it will start with. *)
Slot == IF saver.pc = "none" THEN boot.carry ELSE saver.resolved

(* A durable answer is on the disk as long as the copy it is about. *)
DurableStays ==
  /\ IsText(Copy) /\ Copy.text.hash \in durable => CopyAnswered
  /\ IsText(State) => State.text.hash \notin durable
  /\ boot.phase # "down" /\ Clear /\ ~ToWrite /\ ~ToForget /\ IsText(Copy)
       /\ Copy.text.hash \in durable => Slot = Copy.text.hash
  /\ saver.pc = "drop" => /\ IsText(State) /\ State.text.resolved = saver.resolved
                          /\ State.text.hash # Asked
  /\ boot.phase # "down" /\ Clear => boot.reads # "state"
  /\ answer.phase # "answered" /\ Asked \in durable => boot.reads = "state"

(* A run makes at most one answer durable. *)
AnswersCounted ==
  /\ IsFiniteSet(durable)
  /\ Cardinality(durable) <= runs
  /\ boot.phase # "down" /\ answer.call # "done" => Cardinality(durable) < runs

(* All parts together. *)
RecoveryInv ==
  /\ TypeOK /\ Life /\ Requests /\ PlanFits /\ NotItsOwn
  /\ OwedIsKept /\ OwedIsAsked /\ DurableStays /\ AnswersCounted
(* The type invariant without the supply of hashes. *)
Typed ==
  /\ disk \in Disks /\ boot \in Plans
  /\ ui \in [screen : Screens, rev : Revisions]
  /\ answer \in Answers /\ saver \in Recorders /\ inbox \in Seq(Letters)
  /\ owed \in [hash : Slots, accepted : BOOLEAN] /\ durable \subseteq Hashes
  /\ runs \in 0..MaxRuns /\ faults \in 0..MaxFaults

(* The invariant without the supply of hashes. *)
Parts ==
  /\ Typed /\ Life /\ Requests /\ PlanFits /\ NotItsOwn
  /\ OwedIsKept /\ OwedIsAsked /\ DurableStays /\ AnswersCounted

-----------------------------------------------------------------------------
(* Hashes *)

(* A finite set of at most n elements. *)
AtMost(S, n) == IsFiniteSet(S) /\ Cardinality(S) <= n

(* One more element makes it at most one larger. *)
LEMMA AddOne ==
  ASSUME NEW S, NEW n \in Nat, AtMost(S, n), NEW x
  PROVE  AtMost(S \cup {x}, n + 1)
<1>1. Cardinality(S) \in Nat BY FS_CardinalityType DEF AtMost
<1>2. /\ IsFiniteSet(S \cup {x})
      /\ Cardinality(S \cup {x}) = IF x \in S THEN Cardinality(S) ELSE Cardinality(S) + 1
  BY FS_AddElement DEF AtMost
<1> QED BY <1>1, <1>2 DEF AtMost

(* Nine places and one durable answer per run cannot use up all hashes. *)
LEMMA HashesSuffice ==
  ASSUME NEW D \in SUBSET Hashes, AtMost(D, MaxRuns),
         NEW a, NEW b, NEW c, NEW d, NEW e, NEW f, NEW g, NEW h, NEW i
  PROVE  Hashes \ ({a, b, c, d, e, f, g, h, i, None} \cup D) # {}
<1> DEFINE P1 == D \cup {a}
           P2 == P1 \cup {b}
           P3 == P2 \cup {c}
           P4 == P3 \cup {d}
           P5 == P4 \cup {e}
           P6 == P5 \cup {f}
           P7 == P6 \cup {g}
           P8 == P7 \cup {h}
           P9 == P8 \cup {i}
<1> HIDE DEF P1, P2, P3, P4, P5, P6, P7, P8, P9
<1>0. MaxRuns \in Nat BY ScreenAssumption
<1>1. AtMost(D, MaxRuns) OBVIOUS
<1>2. AtMost(P1, MaxRuns + 1)
  <2>1. MaxRuns \in Nat /\ MaxRuns + 1 = MaxRuns + 1 BY ONLY <1>0
  <2>2. AtMost(D \cup {a}, MaxRuns + 1) BY ONLY <1>1, <2>1, AddOne
  <2> QED BY ONLY <2>1, <2>2 DEF P1
<1>3. AtMost(P2, MaxRuns + 2)
  <2>1. MaxRuns + 1 \in Nat /\ (MaxRuns + 1) + 1 = MaxRuns + 2 BY ONLY <1>0
  <2>2. AtMost(P1 \cup {b}, (MaxRuns + 1) + 1) BY ONLY <1>2, <2>1, AddOne
  <2> QED BY ONLY <2>1, <2>2 DEF P2
<1>4. AtMost(P3, MaxRuns + 3)
  <2>1. MaxRuns + 2 \in Nat /\ (MaxRuns + 2) + 1 = MaxRuns + 3 BY ONLY <1>0
  <2>2. AtMost(P2 \cup {c}, (MaxRuns + 2) + 1) BY ONLY <1>3, <2>1, AddOne
  <2> QED BY ONLY <2>1, <2>2 DEF P3
<1>5. AtMost(P4, MaxRuns + 4)
  <2>1. MaxRuns + 3 \in Nat /\ (MaxRuns + 3) + 1 = MaxRuns + 4 BY ONLY <1>0
  <2>2. AtMost(P3 \cup {d}, (MaxRuns + 3) + 1) BY ONLY <1>4, <2>1, AddOne
  <2> QED BY ONLY <2>1, <2>2 DEF P4
<1>6. AtMost(P5, MaxRuns + 5)
  <2>1. MaxRuns + 4 \in Nat /\ (MaxRuns + 4) + 1 = MaxRuns + 5 BY ONLY <1>0
  <2>2. AtMost(P4 \cup {e}, (MaxRuns + 4) + 1) BY ONLY <1>5, <2>1, AddOne
  <2> QED BY ONLY <2>1, <2>2 DEF P5
<1>7. AtMost(P6, MaxRuns + 6)
  <2>1. MaxRuns + 5 \in Nat /\ (MaxRuns + 5) + 1 = MaxRuns + 6 BY ONLY <1>0
  <2>2. AtMost(P5 \cup {f}, (MaxRuns + 5) + 1) BY ONLY <1>6, <2>1, AddOne
  <2> QED BY ONLY <2>1, <2>2 DEF P6
<1>8. AtMost(P7, MaxRuns + 7)
  <2>1. MaxRuns + 6 \in Nat /\ (MaxRuns + 6) + 1 = MaxRuns + 7 BY ONLY <1>0
  <2>2. AtMost(P6 \cup {g}, (MaxRuns + 6) + 1) BY ONLY <1>7, <2>1, AddOne
  <2> QED BY ONLY <2>1, <2>2 DEF P7
<1>9. AtMost(P8, MaxRuns + 8)
  <2>1. MaxRuns + 7 \in Nat /\ (MaxRuns + 7) + 1 = MaxRuns + 8 BY ONLY <1>0
  <2>2. AtMost(P7 \cup {h}, (MaxRuns + 7) + 1) BY ONLY <1>8, <2>1, AddOne
  <2> QED BY ONLY <2>1, <2>2 DEF P8
<1>10. AtMost(P9, MaxRuns + 9)
  <2>1. MaxRuns + 8 \in Nat /\ (MaxRuns + 8) + 1 = MaxRuns + 9 BY ONLY <1>0
  <2>2. AtMost(P8 \cup {i}, (MaxRuns + 8) + 1) BY ONLY <1>9, <2>1, AddOne
  <2> QED BY ONLY <2>1, <2>2 DEF P9
<1>11. Cardinality(Hashes) = MaxRuns + 10
  <2>1. Cardinality(1..(MaxRuns + 10)) = IF 1 > MaxRuns + 10 THEN 0 ELSE MaxRuns + 10 - 1 + 1
    BY <1>0, FS_Interval
  <2> QED BY <1>0, <2>1 DEF Hashes
<1>12. ASSUME Hashes \subseteq P9 PROVE FALSE
  <2>1. IsFiniteSet(P9) /\ Cardinality(P9) <= MaxRuns + 9 BY <1>10 DEF AtMost
  <2>2. Cardinality(P9) \in Nat BY <2>1, FS_CardinalityType
  <2>3. Cardinality(Hashes) <= Cardinality(P9) BY <1>12, <2>1, FS_Subset
  <2> QED BY <1>0, <1>11, <2>1, <2>2, <2>3
<1>13. PICK x \in Hashes : x \notin P9 BY <1>12
<1>14. x # None BY <1>0, <1>13 DEF Hashes, None
<1>15. x \notin {a, b, c, d, e, f, g, h, i, None} \cup D
  BY <1>13, <1>14 DEF P1, P2, P3, P4, P5, P6, P7, P8, P9
<1> QED BY <1>13, <1>15

(* A text that is written has a hash that nobody holds. *)
LEMMA FreshIsNew ==
  ASSUME TypeOK
  PROVE  /\ Fresh \in Hashes /\ Fresh # None
         /\ Fresh \notin {Copy.text.hash, State.text.hash, Asked, saver.resolved, boot.carry,
                          Owed} \cup durable
<1>1. Fresh \in Hashes /\ Fresh \notin HashesInUse BY DEF TypeOK, Fresh
<1>2. Fresh # None BY <1>1, ScreenAssumption DEF Hashes, None
<1> QED BY <1>1, <1>2 DEF HashesInUse, Copy, State, Asked, Owed

(* The hashes in use leave one over. *)
LEMMA RoomStays ==
  ASSUME Parts'
  PROVE  (Hashes \ HashesInUse)' # {}
<1> DEFINE U == {disk'.state.text.hash, disk'.copy.text.hash, disk'.state.text.resolved,
                 disk'.copy.text.resolved, answer'.text.hash, answer'.text.resolved,
                 saver'.resolved, boot'.carry, owed'.hash, None} \cup durable'
<1>1. HashesInUse' \subseteq U
  <2>1. \A i \in DOMAIN inbox' : inbox'[i].hash \in {answer'.text.hash, None}
    <3>1. \A i \in DOMAIN inbox' : inbox'[i] \in Letters
      BY DEF Parts, Typed
    <3>2. \A i \in DOMAIN inbox' : inbox'[i].type \in {"Resolve", "Final"}
      BY <3>1 DEF Letters
    <3> QED BY <3>2 DEF Parts, Requests, Asked
  <2> QED BY <2>1 DEF HashesInUse
<1>2. durable' \in SUBSET Hashes /\ AtMost(durable', MaxRuns)
  <2>1. /\ durable' \subseteq Hashes /\ IsFiniteSet(durable') /\ runs' \in 0..MaxRuns
        /\ Cardinality(durable') <= runs'
    BY DEF Parts, Typed, AnswersCounted
  <2>2. Cardinality(durable') \in Nat BY <2>1, FS_CardinalityType
  <2> QED BY <2>1, <2>2, ScreenAssumption DEF AtMost
<1>3. Hashes \ U # {} BY <1>2, HashesSuffice
<1> QED BY <1>1, <1>3

-----------------------------------------------------------------------------
(* Plans *)

(* The kinds of plan that share no plan. *)
LEMMA PlanSets ==
  /\ Writes \cap Removes = {} /\ Writes \cap Asides = {} /\ Forgets \cap Writes = {}
  /\ Forgets \cap Removes = {} /\ Forgets \cap Asides = {}
  /\ <<>> \notin Writes \cup Removes \cup Asides \cup Forgets
  /\ <<"WriteCrashCopy">> \in Writes /\ <<"RemoveUnusable">> \in Removes \ Asides
  /\ <<"CopyAsideCrashCopy", "RemoveUnusable">> \in Removes \ Asides
BY DEF Writes, Removes, Asides, Forgets

(* What may be left of a plan excludes one another. *)
LEMMA PlansDiffer ==
  /\ ToWrite => ~ToRemove /\ ~ToAside /\ ~ToForget /\ boot.todo # <<>>
  /\ ToForget => ~ToRemove /\ ~ToAside /\ boot.todo # <<>>
  /\ ToRemove \/ ToAside => boot.todo # <<>>
BY PlanSets DEF ToWrite, ToRemove, ToAside, ToForget

(* What follows the first action of a plan. *)
LEMMA PlanTails ==
  ASSUME boot.phase = "acting", PlanFits, boot.todo # <<>>
  PROVE  LET first == Head(boot.todo)
             rest == Tail(boot.todo) IN
         /\ first = "CopyAsideState" =>
              ToAside /\ \/ rest = <<>>
                         \/ ToRemove /\ rest = <<"CopyAsideCrashCopy", "RemoveUnusable">>
         /\ first = "CopyAsideCrashCopy" =>
              ~ToAside /\ \/ ToWrite /\ rest = <<"WriteCrashCopy">>
                          \/ ToRemove /\ rest = <<"RemoveUnusable">>
         /\ first = "RemoveUnusable" =>
              ToRemove /\ ~ToAside /\ rest = <<>> /\ boot.todo = <<"RemoveUnusable">>
         /\ first = "WriteCrashCopy" =>
              ToWrite /\ rest = <<>> /\ boot.todo = <<"WriteCrashCopy">>
         /\ first = "RemoveAnswered" => ToForget /\ rest = <<>>
<1>1. boot.todo \in {<<"WriteCrashCopy">>, <<"CopyAsideCrashCopy", "WriteCrashCopy">>,
                     <<"RemoveUnusable">>, <<"CopyAsideCrashCopy", "RemoveUnusable">>,
                     <<"CopyAsideState", "CopyAsideCrashCopy", "RemoveUnusable">>,
                     <<"CopyAsideState">>, <<"RemoveAnswered">>}
  BY DEF PlanFits, ToWrite, ToRemove, ToAside, ToForget, Writes, Removes, Asides, Forgets
<1>2. CASE boot.todo = <<"WriteCrashCopy">> BY <1>2 DEF ToWrite, Writes, Removes, Asides, Forgets
<1>3. CASE boot.todo = <<"CopyAsideCrashCopy", "WriteCrashCopy">>
  BY <1>3 DEF ToWrite, ToAside, Writes, Removes, Asides, Forgets
<1>4. CASE boot.todo = <<"RemoveUnusable">>
  BY <1>4 DEF ToRemove, ToAside, Writes, Removes, Asides, Forgets
<1>5. CASE boot.todo = <<"CopyAsideCrashCopy", "RemoveUnusable">>
  BY <1>5 DEF ToRemove, ToAside, Writes, Removes, Asides, Forgets
<1>6. CASE boot.todo = <<"CopyAsideState", "CopyAsideCrashCopy", "RemoveUnusable">>
  BY <1>6 DEF ToRemove, ToAside, Writes, Removes, Asides, Forgets
<1>7. CASE boot.todo = <<"CopyAsideState">> BY <1>7 DEF ToAside, Writes, Removes, Asides, Forgets
<1>8. CASE boot.todo = <<"RemoveAnswered">> BY <1>8 DEF ToForget, Writes, Removes, Asides, Forgets
<1> QED BY <1>1, <1>2, <1>3, <1>4, <1>5, <1>6, <1>7, <1>8

-----------------------------------------------------------------------------
(* The recorder's moves *)

(* The values a process starts with are of the right types. *)
LEMMA Starts == None \in Slots /\ 0 \in Revisions /\ None \notin Hashes /\ Default \in Screens
BY ScreenAssumption DEF Slots, Revisions, Hashes, None

(* A recorder that starts. *)
LEMMA StartedFacts ==
  ASSUME TypeOK
  PROVE  /\ StartedSaver \in Recorders /\ StartedSaver.pc = "idle"
         /\ StartedSaver.resolved = boot.carry
<1>1. boot.carry \in Slots /\ boot.adopted \in BOOLEAN BY DEF TypeOK, Plans
<1>2. NoSaver \in Recorders BY Starts DEF NoSaver, Recorders
<1> HIDE DEF NoSaver
<1> QED BY <1>1, <1>2 DEF StartedSaver, Recorders

(* A recorder that begins a save. *)
LEMMA BeginFacts ==
  ASSUME TypeOK, NEW s \in Recorders, NEW cause \in {"Periodic", "Resolve", "Final"}
  PROVE  LET b == BeginSave(s, cause) IN
         b \in Recorders /\ b.pc = "snapshot" /\ b.cause = cause /\ b.resolved = s.resolved
BY DEF BeginSave, Recorders, TypeOK

(* A recorder whose save is over. *)
LEMMA RestFacts ==
  ASSUME NEW s \in Recorders
  PROVE  /\ Rest(s) \in Recorders /\ Rest(s).pc \in {"idle", "ended"}
         /\ Rest(s).resolved = s.resolved
BY Starts DEF Rest, Recorders

(* A recorder whose save failed. *)
LEMMA FailedFacts ==
  ASSUME TypeOK, NEW retry \in BOOLEAN
  PROVE  /\ Failed(retry) \in Recorders /\ Failed(retry).resolved = saver.resolved
BY DEF Failed, Recorders, TypeOK

(* The answer and its caller, when the recorder replies. *)
LEMMA ReplyFacts ==
  ASSUME RecoveryInv, NEW written \in BOOLEAN, Reply(written)
  PROVE  /\ answer' \in Answers /\ answer'.phase = answer.phase /\ answer'.text = answer.text
         /\ answer'.call # "idle" => answer.call # "idle"
         /\ \/ durable' = durable
            \/ /\ written /\ durable' = durable \cup {Asked} /\ Asked \in Hashes
               /\ saver.cause = "Resolve" /\ answer.call = "waiting"
         /\ answer'.call # "done" => answer.call # "done" /\ durable' = durable
<1>1. answer \in Answers BY DEF RecoveryInv, TypeOK
<1>2. CASE saver.cause = "Resolve" /\ answer.call = "waiting"
  <2>1. answer' = [answer EXCEPT !.call = "done"]
        /\ durable' = IF written THEN durable \cup {Asked} ELSE durable
    BY <1>2 DEF Reply, Asked
  <2>2. Asked # None BY <1>2 DEF RecoveryInv, Life
  <2>3. Asked \in Hashes BY <1>1, <2>2 DEF Asked, Answers, Texts, Blank
  <2> QED BY <1>1, <1>2, <2>1, <2>3 DEF Answers
<1>3. CASE ~(saver.cause = "Resolve" /\ answer.call = "waiting")
  <2>1. answer' = answer /\ durable' = durable BY <1>3 DEF Reply
  <2> QED BY <1>1, <2>1
<1> QED BY <1>2, <1>3

(* A state file that is written. *)
LEMMA WrittenFacts ==
  ASSUME TypeOK, NEW s \in Screens, NEW clean \in BOOLEAN, NEW r \in Slots
  PROVE  LET w == Written(s, clean, r) IN
         /\ w \in Files /\ w.kind = "usable" /\ w.text.resolved = r /\ w.text.hash = Fresh
         /\ w.text.clean = clean
<1> DEFINE t == [screen |-> s, clean |-> clean, resolved |-> r, hash |-> Fresh]
<1>1. t \in Texts /\ t.resolved = r /\ t.hash = Fresh /\ t.clean = clean
  BY FreshIsNew DEF Texts, Slots
<1>2. Written(s, clean, r) = [kind |-> "usable", text |-> t] BY DEF Written, Usable
<1> HIDE DEF t
<1> QED BY <1>1, <1>2 DEF Files

(* A file that is not there. *)
LEMMA MissingFacts == File("missing") \in Files /\ File("missing").kind = "missing"
BY DEF File, Files

(* What is left of a plan is a plan. *)
LEMMA TailType ==
  ASSUME TypeOK, boot.todo # <<>>
  PROVE  Tail(boot.todo) \in Seq(Actions) /\ <<>> \in Seq(Actions)
<1>1. boot.todo \in Seq(Actions) BY DEF TypeOK, Plans
<1> QED BY <1>1, HeadTailProperties, EmptySeq

-----------------------------------------------------------------------------
(* The boot table *)

(* What a read finds. *)
StateSeen(ok) == IF ok THEN disk.state ELSE File("unread")
CopySeen(ok)  == IF ok THEN disk.copy ELSE File("unread")

Chosen(stateOk, copyOk) == Decide(StateSeen(stateOk), CopySeen(copyOk))

(* The files a plan may hold aside come first. *)
LEMMA AsideFirst ==
  ASSUME TypeOK, NEW ok \in BOOLEAN
  PROVE  /\ AsideState(StateSeen(ok)) =
              IF ok /\ disk.state.kind = "corrupt" THEN <<"CopyAsideState">> ELSE <<>>
         /\ StateGuard(StateSeen(ok)) \in {"no", "StateUnreadable", "StateNewer"}
         /\ StateGuard(StateSeen(ok)) = "no" <=> ok /\ disk.state.kind # "newer"
<1>1. disk.state.kind \in {"missing", "corrupt", "newer", "usable"}
  BY DEF TypeOK, Disks, Files
<1>2. File("unread").kind = "unread" BY DEF File
<1> QED BY <1>1, <1>2 DEF AsideState, StateGuard, StateSeen

(* A file that is read, and one that is not. *)
LEMMA SeenFacts ==
  ASSUME TypeOK, NEW ok \in BOOLEAN
  PROVE  /\ IsText(StateSeen(ok)) <=> ok /\ IsText(State)
         /\ IsText(CopySeen(ok)) <=> ok /\ IsText(Copy)
         /\ ok => StateSeen(ok) = State /\ CopySeen(ok) = Copy
         /\ ~ok => StateSeen(ok).kind = "unread" /\ CopySeen(ok).kind = "unread"
         /\ IsText(Copy) => Copy.text \in Texts /\ Copy.text.hash \in Hashes
         /\ IsText(State) => State.text \in Texts /\ State.text.resolved \in Slots
         /\ Copy.kind \in {"missing", "corrupt", "newer", "usable"}
<1>1. File("unread").kind = "unread" BY DEF File
<1>2. disk.state \in Files /\ disk.copy \in Files BY DEF TypeOK, Disks
<1>3. /\ disk.copy.kind = "usable" => disk.copy.text \in Texts
      /\ disk.state.kind = "usable" => disk.state.text \in Texts
      /\ disk.copy.kind \in {"missing", "corrupt", "newer", "usable"}
  BY <1>2 DEF Files
<1>4. \A t \in Texts : t.hash \in Hashes /\ t.resolved \in Slots BY DEF Texts, Slots
<1> QED BY <1>1, <1>3, <1>4 DEF StateSeen, CopySeen, IsText, State, Copy

(* What decide_boot makes of the two files: a copy not answered for is put *)
(* to the user.                                                            *)
AskCopy(d, stateOk, copyOk) ==
  /\ copyOk /\ IsText(Copy) /\ ~(stateOk /\ CopyAnswered)
  /\ d.ask = Copy.text /\ d.plan.carry = None
  /\ d.plan.todo = AsideState(StateSeen(stateOk))
  /\ d.plan.guard = StateGuard(StateSeen(stateOk))

(* The text of a run that did not exit is put to the user, and copied if   *)
(* the copy's place can be had.                                            *)
AskState(d, stateOk, copyOk) ==
  /\ stateOk /\ IsText(State) /\ ~State.text.clean
  /\ copyOk /\ IsText(Copy) => CopyAnswered
  /\ d.ask = State.text /\ d.plan.carry = None
  /\ \/ d.plan.guard = "CopyNotWritten" /\ d.plan.todo = <<>>
     \/ /\ d.plan.guard = "no" /\ d.plan.todo \in Writes
        /\ copyOk /\ Copy.kind # "newer"
        /\ Copy.kind = "corrupt" => d.plan.todo # <<"WriteCrashCopy">>

(* Nothing is asked, and leftovers are cleared. *)
AskNothing(d, stateOk, copyOk) ==
  /\ ~(stateOk /\ IsText(State) /\ ~State.text.clean)
  /\ copyOk /\ IsText(Copy) => stateOk /\ CopyAnswered
  /\ d.ask = Blank
  /\ d.plan.carry = IF stateOk /\ ~copyOk /\ IsText(State) THEN State.text.resolved ELSE None
  /\ d.plan.guard = StateGuard(StateSeen(stateOk))
  /\ \/ /\ copyOk /\ Copy.kind = "corrupt"
        /\ d.plan.todo =
             AsideState(StateSeen(stateOk)) \o <<"CopyAsideCrashCopy", "RemoveUnusable">>
     \/ /\ copyOk /\ stateOk /\ CopyAnswered
        /\ d.plan.todo = AsideState(StateSeen(stateOk)) \o <<"RemoveAnswered">>
     \/ /\ ~copyOk \/ Copy.kind \in {"missing", "newer"}
        /\ d.plan.todo = AsideState(StateSeen(stateOk)) \o <<>>

(* decide_boot is one of the three. *)
LEMMA DecideCases ==
  ASSUME TypeOK, NEW stateOk \in BOOLEAN, NEW copyOk \in BOOLEAN
  PROVE  LET d == Chosen(stateOk, copyOk) IN
         \/ AskCopy(d, stateOk, copyOk) \/ AskState(d, stateOk, copyOk)
         \/ AskNothing(d, stateOk, copyOk)
<1> DEFINE st == StateSeen(stateOk)
           cp == CopySeen(copyOk)
           resolved == IF IsText(st) THEN st.text.resolved ELSE None
           column == CopyColumn(cp, resolved)
           plan == [NoPlan EXCEPT !.phase = "acting", !.guard = StateGuard(st),
                                  !.todo = AsideState(st), !.adopted = IsText(st)]
           d == Chosen(stateOk, copyOk)
<1>1. /\ column = "unanswered" <=> copyOk /\ IsText(Copy) /\ ~(stateOk /\ CopyAnswered)
      /\ column = "answered" <=> copyOk /\ IsText(Copy) /\ stateOk /\ CopyAnswered
      /\ copyOk /\ ~IsText(Copy) => column = Copy.kind
      /\ ~copyOk => column = "unread"
  <2>1. resolved = IF stateOk /\ IsText(State) THEN State.text.resolved ELSE None
    BY SeenFacts
  <2>2. copyOk /\ IsText(Copy) => (Copy.text.hash = resolved <=> stateOk /\ CopyAnswered)
    BY <2>1, SeenFacts, Starts DEF CopyAnswered
  <2> HIDE DEF resolved, st
  <2>3. CASE copyOk
    BY <2>2, <2>3, SeenFacts DEF CopyColumn, IsText
  <2>4. CASE ~copyOk
    BY <2>4, SeenFacts DEF CopyColumn, IsText
  <2> QED BY <2>3, <2>4
<1>2. d = IF column = "unanswered"
            THEN [plan |-> plan, ask |-> cp.text]
          ELSE IF IsText(st) /\ ~st.text.clean
            THEN [plan |-> [plan EXCEPT !.todo = CrashRow(column).todo,
                                        !.guard = CrashRow(column).guard],
                  ask |-> st.text]
          ELSE [plan |-> [plan EXCEPT
                  !.model = IF IsText(st) THEN st.text.screen ELSE Default,
                  !.todo = @ \o Leftover(column),
                  !.carry = IF column = "unread" THEN resolved ELSE None],
                ask |-> Blank]
  BY DEF Chosen, Decide
<1>3. /\ plan.todo = AsideState(st) /\ plan.guard = StateGuard(st) /\ plan.carry = None
      /\ DOMAIN plan = {"phase", "model", "todo", "guard", "carry", "asideTried", "copyTried",
                        "adopted", "reads"}
  BY DEF NoPlan
<1> SUFFICES AskCopy(d, stateOk, copyOk) \/ AskState(d, stateOk, copyOk)
              \/ AskNothing(d, stateOk, copyOk)
  OBVIOUS
<1> HIDE DEF d, plan, column
<1>4. CASE column = "unanswered"
  <2>1. d.plan = plan /\ d.ask = cp.text BY <1>2, <1>4
  <2> QED BY <1>1, <1>3, <1>4, <2>1, SeenFacts DEF AskCopy
<1>5. CASE column # "unanswered" /\ stateOk /\ IsText(State) /\ ~State.text.clean
  <2>1. IsText(st) /\ st.text = State.text BY <1>5, SeenFacts
  <2>2. d.plan.todo = CrashRow(column).todo /\ d.plan.guard = CrashRow(column).guard
        /\ d.plan.carry = None /\ d.ask = State.text
    BY <1>2, <1>3, <1>5, <2>1
  <2>3. \/ column \in {"newer", "unread"}
        \/ column \in {"corrupt", "missing", "answered"} /\ copyOk /\ Copy.kind # "newer"
    BY <1>1, <1>5, SeenFacts DEF IsText
  <2>4. CASE column \in {"newer", "unread"}
    <3>1. CrashRow(column) = [todo |-> <<>>, guard |-> "CopyNotWritten"]
      BY <2>4 DEF CrashRow
    <3>2. d.plan.guard = "CopyNotWritten" /\ d.plan.todo = <<>> BY <2>2, <3>1
    <3>3. copyOk /\ IsText(Copy) => CopyAnswered BY <1>1, <1>5
    <3> QED BY <1>5, <2>2, <3>2, <3>3 DEF AskState
  <2>5. CASE column \in {"corrupt", "missing", "answered"} /\ copyOk /\ Copy.kind # "newer"
    <3>1. CrashRow(column).guard = "no" /\ CrashRow(column).todo \in Writes
      BY <2>5 DEF CrashRow, Writes
    <3>2. Copy.kind = "corrupt" => column = "corrupt" BY <1>1, <2>5 DEF IsText
    <3>3. CrashRow("corrupt").todo # <<"WriteCrashCopy">> BY DEF CrashRow
    <3>4. Copy.kind = "corrupt" => d.plan.todo # <<"WriteCrashCopy">> BY <2>2, <3>2, <3>3
    <3> QED BY <1>1, <1>5, <2>2, <2>5, <3>1, <3>4 DEF AskState
  <2> QED BY <2>3, <2>4, <2>5
<1>6. CASE column # "unanswered" /\ ~(stateOk /\ IsText(State) /\ ~State.text.clean)
  <2>1. ~(IsText(st) /\ ~st.text.clean) BY <1>6, SeenFacts
  <2>2. /\ d.plan.todo = AsideState(st) \o Leftover(column) /\ d.plan.guard = StateGuard(st)
        /\ d.plan.carry = (IF column = "unread" THEN resolved ELSE None) /\ d.ask = Blank
    BY <1>2, <1>3, <1>6, <2>1
  <2>3. column = "unread" <=> ~copyOk BY <1>1, SeenFacts DEF IsText
  <2>4. resolved = IF stateOk /\ IsText(State) THEN State.text.resolved ELSE None
    BY SeenFacts
  <2>5. d.plan.carry = IF stateOk /\ ~copyOk /\ IsText(State) THEN State.text.resolved ELSE None
    BY <2>2, <2>3, <2>4
  <2>6. \/ column = "corrupt" /\ copyOk /\ Copy.kind = "corrupt"
        \/ column = "answered" /\ copyOk /\ stateOk /\ CopyAnswered
        \/ column \in {"missing", "newer", "unread"}
             /\ (~copyOk \/ Copy.kind \in {"missing", "newer"})
    BY <1>1, <1>6, SeenFacts DEF IsText
  <2>7. /\ column = "corrupt" => Leftover(column) = <<"CopyAsideCrashCopy", "RemoveUnusable">>
        /\ column = "answered" => Leftover(column) = <<"RemoveAnswered">>
        /\ column \in {"missing", "newer", "unread"} => Leftover(column) = <<>>
    BY DEF Leftover
  <2>8. copyOk /\ IsText(Copy) => stateOk /\ CopyAnswered BY <1>1, <1>6
  <2> QED BY <1>6, <2>2, <2>5, <2>6, <2>7, <2>8 DEF AskNothing
<1> QED BY <1>4, <1>5, <1>6

-----------------------------------------------------------------------------
(* One lemma per action. *)

(* The user changes the layout. *)
LEMMA EditKeeps ==
  ASSUME RecoveryInv, NEW s \in Screens, Edit(s)
  PROVE  Parts'
<1> USE ScreenAssumption
<1>1. Typed'
  <2>1. ui' \in [screen : Screens, rev : Revisions]
    BY DEF RecoveryInv, TypeOK, Edit, Revisions
  <2> QED BY <2>1 DEF RecoveryInv, TypeOK, Typed, Edit
<1> USE DEF State, Copy, Asked, Owed, Clear, CopyIs, CopyAnswered, Up, IsText
<1>2. Life'
  BY DEF RecoveryInv, TypeOK, Life, Edit, Revisions
<1>3. Requests'
  BY DEF RecoveryInv, TypeOK, Requests, Life, Edit
<1>4. PlanFits'
  BY DEF RecoveryInv, TypeOK, PlanFits, ToWrite, ToRemove, ToAside, ToForget, Life, Edit
<1>5. NotItsOwn'
  BY DEF RecoveryInv, TypeOK, NotItsOwn, Edit
<1>6. OwedIsKept'
BY DEF RecoveryInv, TypeOK, OwedIsKept, OwedIsAsked, ToWrite, Outstanding, Life, Requests,
         Edit
<1>7. OwedIsAsked'
  BY DEF RecoveryInv, TypeOK, OwedIsAsked, Life, Requests, Edit
<1>8. DurableStays'
  BY DEF RecoveryInv, TypeOK, DurableStays, ToWrite, ToForget, Slot, Life, Requests, Edit
<1>9. AnswersCounted'
  BY DEF RecoveryInv, TypeOK, AnswersCounted, Life, Edit
<1> QED BY <1>1, <1>2, <1>3, <1>4, <1>5, <1>6, <1>7, <1>8, <1>9 DEF Parts

(* The user accepts; the layout and the acceptance change together. *)
LEMMA AcceptKeeps ==
  ASSUME RecoveryInv, Accept
  PROVE  Parts'
<1> USE ScreenAssumption
<1>1. Typed'
  <2>1. ui' \in [screen : Screens, rev : Revisions]
    <3>1. answer.text.screen \in Screens
      BY DEF RecoveryInv, TypeOK, Answers, Texts, Blank
    <3>2. ui.rev \in 0..MaxEdits
      BY DEF RecoveryInv, TypeOK, Life, Revisions, Accept
    <3> QED BY <3>1, <3>2 DEF Accept, Revisions
  <2>2. answer' \in Answers
    BY DEF RecoveryInv, TypeOK, Accept, Answers
  <2>3. owed' \in [hash : Slots, accepted : BOOLEAN]
    BY DEF RecoveryInv, TypeOK, Accept
  <2> QED BY <2>1, <2>2, <2>3 DEF RecoveryInv, TypeOK, Typed, Accept
<1> USE DEF State, Copy, Asked, Owed, Clear, CopyIs, CopyAnswered, Up, IsText
<1>2. Life'
  BY DEF RecoveryInv, TypeOK, Life, Accept
<1>3. Requests'
  BY DEF RecoveryInv, TypeOK, Requests, Life, Accept
<1>4. PlanFits'
  BY DEF RecoveryInv, TypeOK, PlanFits, ToWrite, ToRemove, ToAside, ToForget, Life, Accept
<1>5. NotItsOwn'
  BY DEF RecoveryInv, TypeOK, NotItsOwn, Accept
<1>6. OwedIsKept'
BY DEF RecoveryInv, TypeOK, OwedIsKept, OwedIsAsked, ToWrite, Outstanding, Life, Requests,
         Accept
<1>7. OwedIsAsked'
  BY DEF RecoveryInv, TypeOK, OwedIsAsked, Life, Requests, Accept
<1>8. DurableStays'
  BY DEF RecoveryInv, TypeOK, DurableStays, ToWrite, ToForget, Slot, Life, Requests, Accept
<1>9. AnswersCounted'
  BY DEF RecoveryInv, TypeOK, AnswersCounted, Life, Accept
<1> QED BY <1>1, <1>2, <1>3, <1>4, <1>5, <1>6, <1>7, <1>8, <1>9 DEF Parts

(* The user declines; nothing is owed for that text any more. *)
LEMMA DeclineKeeps ==
  ASSUME RecoveryInv, Decline
  PROVE  Parts'
<1> USE ScreenAssumption
<1>1. Typed'
  <2>1. answer' \in Answers
    BY DEF RecoveryInv, TypeOK, Decline, Answers
  <2>2. owed' \in [hash : Slots, accepted : BOOLEAN]
    BY DEF RecoveryInv, TypeOK, Decline, NotOwed, Slots
  <2> QED BY <2>1, <2>2 DEF RecoveryInv, TypeOK, Typed, Decline
<1> USE DEF State, Copy, Asked, Owed, Clear, CopyIs, CopyAnswered, Up, IsText
<1>2. Life'
  BY DEF RecoveryInv, TypeOK, Life, Decline
<1>3. Requests'
  BY DEF RecoveryInv, TypeOK, Requests, Life, Decline
<1>4. PlanFits'
  BY DEF RecoveryInv, TypeOK, PlanFits, ToWrite, ToRemove, ToAside, ToForget, Life, Decline
<1>5. NotItsOwn'
  BY DEF RecoveryInv, TypeOK, NotItsOwn, Decline
<1>6. OwedIsKept'
  BY DEF RecoveryInv, TypeOK, OwedIsKept, ToWrite, Outstanding, Decline, NotOwed
<1>7. OwedIsAsked'
  BY DEF RecoveryInv, TypeOK, OwedIsAsked, Life, Decline, NotOwed, Answers
<1>8. DurableStays'
  BY DEF RecoveryInv, TypeOK, DurableStays, ToWrite, ToForget, Slot, Life, Requests, Decline
<1>9. AnswersCounted'
  BY DEF RecoveryInv, TypeOK, AnswersCounted, Life, Decline
<1> QED BY <1>1, <1>2, <1>3, <1>4, <1>5, <1>6, <1>7, <1>8, <1>9 DEF Parts

(* The recorder starts with what the boot carries. *)
LEMMA StartKeeps ==
  ASSUME RecoveryInv, StartSaver
  PROVE  Parts'
<1> USE ScreenAssumption
<1>1. Typed'
  <2>1. saver' \in Recorders
    BY StartedFacts DEF RecoveryInv, StartSaver
  <2> QED BY <2>1 DEF RecoveryInv, TypeOK, Typed, StartSaver
<1> USE DEF State, Copy, Asked, Owed, Clear, CopyIs, CopyAnswered, Up, IsText
<1>2. saver'.pc = "idle" /\ saver'.resolved = boot.carry
  BY StartedFacts DEF RecoveryInv, StartSaver
<1>3. Life'
  BY <1>2 DEF RecoveryInv, TypeOK, Life, StartSaver
<1>4. Requests'
  BY <1>2 DEF RecoveryInv, TypeOK, Requests, Life, StartSaver
<1>5. PlanFits'
BY <1>2 DEF RecoveryInv, TypeOK, PlanFits, ToWrite, ToRemove, ToAside, ToForget, Life,
         StartSaver
<1>6. NotItsOwn'
  BY <1>2 DEF RecoveryInv, TypeOK, NotItsOwn, StartSaver
<1>7. OwedIsKept'
BY <1>2 DEF RecoveryInv, TypeOK, OwedIsKept, OwedIsAsked, ToWrite, Outstanding, Life,
         Requests, StartSaver
<1>8. OwedIsAsked'
  BY <1>2 DEF RecoveryInv, TypeOK, OwedIsAsked, OwedIsKept, StartSaver
<1>9. DurableStays'
BY <1>2 DEF RecoveryInv, TypeOK, DurableStays, ToWrite, ToForget, Slot, Life, Requests,
         StartSaver
<1>10. AnswersCounted'
  BY <1>2 DEF RecoveryInv, TypeOK, AnswersCounted, Life, StartSaver
<1> QED BY <1>1, <1>3, <1>4, <1>5, <1>6, <1>7, <1>8, <1>9, <1>10 DEF Parts

(* The answer is sent to the recorder, or stays in memory. *)
LEMMA ResolveKeeps ==
  ASSUME RecoveryInv, ResolveCrashCopy
  PROVE  Parts'
<1> USE ScreenAssumption
<1>1. Typed'
  <2>1. answer' \in Answers
    BY DEF RecoveryInv, TypeOK, ResolveCrashCopy, Answers
  <2>2. saver' \in Recorders
    BY StartedFacts DEF RecoveryInv, TypeOK, ResolveCrashCopy
  <2>3. inbox' \in Seq(Letters)
    <3>1. [type |-> "Resolve", hash |-> Asked] \in Letters
      BY Starts DEF RecoveryInv, TypeOK, Letters, Answers, Texts, Blank, Slots, Asked
    <3>2. inbox' = inbox \/ inbox' = Append(inbox, [type |-> "Resolve", hash |-> Asked])
      BY DEF ResolveCrashCopy, Asked
    <3> QED BY <3>1, <3>2, AppendProperties DEF RecoveryInv, TypeOK
  <2> QED BY <2>1, <2>2, <2>3 DEF RecoveryInv, TypeOK, Typed, ResolveCrashCopy
<1> USE DEF State, Copy, Asked, Owed, Clear, CopyIs, CopyAnswered, Up, IsText
<1>2. /\ answer'.phase = answer.phase /\ answer'.text = answer.text
      /\ answer'.call \in {"waiting", "done"} /\ answer.phase = "answered" /\ Asked # None
      /\ \/ saver' = saver /\ inbox' = inbox /\ answer'.call = "done"
         \/ /\ Clear /\ saver'.pc # "none" /\ answer'.call = "waiting"
            /\ inbox' = Append(inbox, [type |-> "Resolve", hash |-> Asked])
            /\ saver' = saver \/ (saver.pc = "none" /\ saver'.pc = "idle"
                                  /\ saver'.resolved = boot.carry)
  BY StartedFacts DEF RecoveryInv, TypeOK, Life, ResolveCrashCopy, Answers
<1>3. Life'
  BY <1>2 DEF RecoveryInv, TypeOK, Life, ResolveCrashCopy
<1>4. Requests'
  <2>1. CASE inbox' = inbox BY <1>2, <2>1 DEF RecoveryInv, Requests
  <2>2. CASE inbox' = Append(inbox, [type |-> "Resolve", hash |-> Asked])
    <3>1. \A i \in DOMAIN inbox' : \/ inbox'[i] = [type |-> "Resolve", hash |-> Asked]
                                  \/ (i \in DOMAIN inbox /\ inbox'[i] = inbox[i])
      <4> DEFINE x == [type |-> "Resolve", hash |-> Asked]
      <4>1. x \in Letters
        BY Starts DEF RecoveryInv, TypeOK, Letters, Answers, Texts, Blank, Slots
      <4>2. inbox \in Seq(Letters) /\ inbox' = Append(inbox, x) BY <2>2 DEF RecoveryInv, TypeOK
      <4> HIDE DEF x
      <4>3. /\ DOMAIN inbox' = 1..(Len(inbox) + 1) /\ DOMAIN inbox = 1..Len(inbox)
            /\ Len(inbox) \in Nat /\ \A i \in 1..Len(inbox) : inbox'[i] = inbox[i]
            /\ inbox'[Len(inbox) + 1] = x
        BY <4>1, <4>2, AppendProperties, LenProperties
      <4>4. \A i \in 1..(Len(inbox) + 1) : i \in 1..Len(inbox) \/ i = Len(inbox) + 1
        BY <4>3
      <4> QED BY <4>3, <4>4 DEF x
    <3> QED BY <1>2, <3>1 DEF RecoveryInv, Requests
  <2> QED BY <1>2, <2>1, <2>2
<1>5. PlanFits'
BY <1>2 DEF RecoveryInv, TypeOK, PlanFits, ToWrite, ToRemove, ToAside, ToForget, Life,
         ResolveCrashCopy
<1>6. NotItsOwn'
  BY <1>2 DEF RecoveryInv, TypeOK, NotItsOwn, ResolveCrashCopy
<1>7. OwedIsKept'
  BY <1>2 DEF RecoveryInv, OwedIsKept, ToWrite, Outstanding, ResolveCrashCopy
<1>8. OwedIsAsked'
  BY <1>2 DEF RecoveryInv, TypeOK, OwedIsAsked, OwedIsKept, ResolveCrashCopy
<1>9. DurableStays'
  BY <1>2 DEF RecoveryInv, TypeOK, DurableStays, ToWrite, ToForget, Slot, ResolveCrashCopy
<1>10. AnswersCounted'
  BY <1>2 DEF RecoveryInv, TypeOK, AnswersCounted, Life, ResolveCrashCopy
<1> QED BY <1>1, <1>3, <1>4, <1>5, <1>6, <1>7, <1>8, <1>9, <1>10 DEF Parts

(* The caller of an answer gives up waiting. *)
LEMMA TimesOutKeeps ==
  ASSUME RecoveryInv, AnswerTimesOut
  PROVE  Parts'
<1> USE ScreenAssumption
<1>1. Typed'
  <2>1. answer' \in Answers
    BY DEF RecoveryInv, TypeOK, AnswerTimesOut, Answers
  <2> QED BY <2>1 DEF RecoveryInv, TypeOK, Typed, AnswerTimesOut
<1> USE DEF State, Copy, Asked, Owed, Clear, CopyIs, CopyAnswered, Up, IsText
<1>2. Life'
  BY DEF RecoveryInv, TypeOK, Life, AnswerTimesOut
<1>3. Requests'
  BY DEF RecoveryInv, TypeOK, Requests, Life, AnswerTimesOut
<1>4. PlanFits'
BY DEF RecoveryInv, TypeOK, PlanFits, ToWrite, ToRemove, ToAside, ToForget, Life,
         AnswerTimesOut
<1>5. NotItsOwn'
  BY DEF RecoveryInv, TypeOK, NotItsOwn, AnswerTimesOut
<1>6. OwedIsKept'
BY DEF RecoveryInv, TypeOK, OwedIsKept, OwedIsAsked, ToWrite, Outstanding, Life, Requests,
         AnswerTimesOut
<1>7. OwedIsAsked'
  BY DEF RecoveryInv, TypeOK, OwedIsAsked, Life, Requests, AnswerTimesOut
<1>8. DurableStays'
BY DEF RecoveryInv, TypeOK, DurableStays, ToWrite, ToForget, Slot, Life, Requests,
         AnswerTimesOut
<1>9. AnswersCounted'
  BY DEF RecoveryInv, TypeOK, AnswersCounted, Life, AnswerTimesOut
<1> QED BY <1>1, <1>2, <1>3, <1>4, <1>5, <1>6, <1>7, <1>8, <1>9 DEF Parts

(* The clean-exit write is asked for. *)
LEMMA ShutdownKeeps ==
  ASSUME RecoveryInv, Shutdown
  PROVE  Parts'
<1> USE ScreenAssumption
<1>1. Typed'
  <2>1. inbox' \in Seq(Letters)
    BY DEF RecoveryInv, TypeOK, Shutdown, Letters, Slots
  <2> QED BY <2>1 DEF RecoveryInv, TypeOK, Typed, Shutdown
<1> USE DEF State, Copy, Asked, Owed, Clear, CopyIs, CopyAnswered, Up, IsText
<1>2. Life'
  BY DEF RecoveryInv, TypeOK, Life, Shutdown
<1>3. Requests'
  BY DEF RecoveryInv, TypeOK, Requests, Life, Shutdown
<1>4. PlanFits'
  BY DEF RecoveryInv, TypeOK, PlanFits, ToWrite, ToRemove, ToAside, ToForget, Life, Shutdown
<1>5. NotItsOwn'
  BY DEF RecoveryInv, TypeOK, NotItsOwn, Shutdown
<1>6. OwedIsKept'
BY DEF RecoveryInv, TypeOK, OwedIsKept, OwedIsAsked, ToWrite, Outstanding, Life, Requests,
         Shutdown
<1>7. OwedIsAsked'
  BY DEF RecoveryInv, TypeOK, OwedIsAsked, Life, Requests, Shutdown
<1>8. DurableStays'
  BY DEF RecoveryInv, TypeOK, DurableStays, ToWrite, ToForget, Slot, Life, Requests, Shutdown
<1>9. AnswersCounted'
  BY DEF RecoveryInv, TypeOK, AnswersCounted, Life, Shutdown
<1> QED BY <1>1, <1>2, <1>3, <1>4, <1>5, <1>6, <1>7, <1>8, <1>9 DEF Parts

(* The recorder's timer. *)
LEMMA TickKeeps ==
  ASSUME RecoveryInv, NEW due \in BOOLEAN, Tick(due)
  PROVE  Parts'
<1> USE ScreenAssumption
<1>1. Typed'
  <2>1. saver' \in Recorders
    BY DEF RecoveryInv, TypeOK, Tick, BeginSave, Recorders
  <2> QED BY <2>1 DEF RecoveryInv, TypeOK, Typed, Tick
<1> USE DEF State, Copy, Asked, Owed, Clear, CopyIs, CopyAnswered, Up, IsText
<1>2. Life'
  BY DEF RecoveryInv, TypeOK, Life, Tick, BeginSave
<1>3. Requests'
  BY DEF RecoveryInv, TypeOK, Requests, Life, Tick, BeginSave
<1>4. PlanFits'
BY DEF RecoveryInv, TypeOK, PlanFits, ToWrite, ToRemove, ToAside, ToForget, Life, Tick,
         BeginSave
<1>5. NotItsOwn'
  BY DEF RecoveryInv, TypeOK, NotItsOwn, Tick, BeginSave
<1>6. OwedIsKept'
BY DEF RecoveryInv, TypeOK, OwedIsKept, OwedIsAsked, ToWrite, Outstanding, Life, Requests,
         Tick, BeginSave
<1>7. OwedIsAsked'
  BY DEF RecoveryInv, TypeOK, OwedIsAsked, Life, Requests, Tick, BeginSave
<1>8. DurableStays'
BY DEF RecoveryInv, TypeOK, DurableStays, ToWrite, ToForget, Slot, Life, Requests, Tick,
         BeginSave
<1>9. AnswersCounted'
  BY DEF RecoveryInv, TypeOK, AnswersCounted, Life, Tick, BeginSave
<1> QED BY <1>1, <1>2, <1>3, <1>4, <1>5, <1>6, <1>7, <1>8, <1>9 DEF Parts

(* The recorder takes a request: the slot is the text the user answered for. *)
LEMMA TakeKeeps ==
  ASSUME RecoveryInv, TakeRequest
  PROVE  Parts'
<1> USE ScreenAssumption
<1> DEFINE r == Head(inbox)
           s == [saver EXCEPT !.resolved = IF r.type = "Resolve" THEN r.hash ELSE @]
<1>a. /\ saver.pc = "idle" /\ r \in Letters /\ inbox[1] = r /\ 1 \in DOMAIN inbox
      /\ inbox' = Tail(inbox) /\ saver' = BeginSave(s, r.type)
      /\ UNCHANGED <<disk, boot, ui, answer, owed, durable, runs, faults>>
  BY DEF RecoveryInv, TypeOK, TakeRequest
<1>b. /\ r.type \in {"Resolve", "Final"} /\ s \in Recorders
      /\ s.resolved = IF r.type = "Resolve" THEN r.hash ELSE saver.resolved
  BY <1>a DEF RecoveryInv, TypeOK, Letters, Recorders
<1> HIDE DEF r, s
<1>1. Typed'
  <2>1. saver' \in Recorders
    BY <1>a, <1>b, BeginFacts DEF RecoveryInv
  <2>2. inbox' \in Seq(Letters)
    BY DEF RecoveryInv, TypeOK, TakeRequest
  <2> QED BY <2>1, <2>2 DEF RecoveryInv, TypeOK, Typed, TakeRequest
<1> USE DEF State, Copy, Asked, Owed, Clear, CopyIs, CopyAnswered, Up, IsText
<1>2. /\ saver'.pc = "snapshot" /\ saver'.cause = r.type
      /\ \/ r.type = "Final" /\ saver'.resolved = saver.resolved
         \/ r.type = "Resolve" /\ saver'.resolved = Asked /\ answer.phase = "answered"
  <2>1. saver'.pc = "snapshot" /\ saver'.cause = r.type /\ saver'.resolved = s.resolved
    BY <1>a, <1>b, BeginFacts DEF RecoveryInv
  <2> QED BY <1>a, <1>b, <2>1 DEF RecoveryInv, Requests
<1>3. Life'
  BY <1>2 DEF RecoveryInv, TypeOK, Life, TakeRequest
<1>4. Requests'
  <2>1. \A i \in DOMAIN inbox' : i + 1 \in DOMAIN inbox /\ inbox'[i] = inbox[i + 1]
    BY <1>a DEF RecoveryInv, TypeOK
  <2> QED BY <1>2, <1>a, <2>1 DEF RecoveryInv, Requests
<1>5. PlanFits'
BY <1>2 DEF RecoveryInv, TypeOK, PlanFits, ToWrite, ToRemove, ToAside, ToForget, Life,
         TakeRequest
<1>6. NotItsOwn'
  BY <1>2 DEF RecoveryInv, TypeOK, NotItsOwn, TakeRequest
<1>7. OwedIsKept'
BY <1>2 DEF RecoveryInv, TypeOK, OwedIsKept, OwedIsAsked, ToWrite, Outstanding, Life,
         Requests, TakeRequest
<1>8. OwedIsAsked'
  BY <1>2 DEF RecoveryInv, TypeOK, OwedIsAsked, Life, Requests, TakeRequest
<1>9. DurableStays'
  BY <1>2, <1>a DEF RecoveryInv, TypeOK, DurableStays, OwedIsKept, ToWrite, ToForget, Slot, Life
<1>10. AnswersCounted'
  BY <1>2 DEF RecoveryInv, TypeOK, AnswersCounted, Life, TakeRequest
<1> QED BY <1>1, <1>3, <1>4, <1>5, <1>6, <1>7, <1>8, <1>9, <1>10 DEF Parts

(* The recorder takes a snapshot. *)
LEMMA SnapshotKeeps ==
  ASSUME RecoveryInv, Snapshot
  PROVE  Parts'
<1> USE ScreenAssumption
<1>1. Typed'
  <2>1. saver' \in Recorders
    BY DEF RecoveryInv, TypeOK, Snapshot, Recorders
  <2> QED BY <2>1 DEF RecoveryInv, TypeOK, Typed, Snapshot
<1> USE DEF State, Copy, Asked, Owed, Clear, CopyIs, CopyAnswered, Up, IsText
<1>2. Life'
  BY DEF RecoveryInv, TypeOK, Life, Snapshot
<1>3. Requests'
  BY DEF RecoveryInv, TypeOK, Requests, Life, Snapshot
<1>4. PlanFits'
  BY DEF RecoveryInv, TypeOK, PlanFits, ToWrite, ToRemove, ToAside, ToForget, Life, Snapshot
<1>5. NotItsOwn'
  BY DEF RecoveryInv, TypeOK, NotItsOwn, Snapshot
<1>6. OwedIsKept'
BY DEF RecoveryInv, TypeOK, OwedIsKept, OwedIsAsked, ToWrite, Outstanding, Life, Requests,
         Snapshot
<1>7. OwedIsAsked'
  BY DEF RecoveryInv, TypeOK, OwedIsAsked, Life, Requests, Snapshot
<1>8. DurableStays'
  BY DEF RecoveryInv, TypeOK, DurableStays, ToWrite, ToForget, Slot, Life, Requests, Snapshot
<1>9. AnswersCounted'
  BY DEF RecoveryInv, TypeOK, AnswersCounted, Life, Snapshot
<1> QED BY <1>1, <1>2, <1>3, <1>4, <1>5, <1>6, <1>7, <1>8, <1>9 DEF Parts

(* The snapshot fails. *)
LEMMA SnapshotFailsKeeps ==
  ASSUME RecoveryInv, SnapshotFails
  PROVE  Parts'
<1> USE ScreenAssumption
<1>1. Typed'
  <2>1. saver' \in Recorders
    BY FailedFacts, RestFacts DEF RecoveryInv, SnapshotFails
  <2>2. answer' \in Answers
    BY ReplyFacts DEF SnapshotFails
  <2>3. faults' \in 0..MaxFaults
    BY DEF RecoveryInv, TypeOK, SnapshotFails, Fails, Operation
  <2> QED BY <2>1, <2>2, <2>3 DEF RecoveryInv, TypeOK, Typed, SnapshotFails, Reply
<1> USE DEF State, Copy, Asked, Owed, Clear, CopyIs, CopyAnswered, Up, IsText
<1>2. /\ saver'.pc \in {"idle", "ended"} /\ saver'.resolved = saver.resolved /\ saver.pc # "none"
      /\ answer'.phase = answer.phase /\ answer'.text = answer.text /\ durable' = durable
      /\ answer'.call # "idle" => answer.call # "idle"
      /\ answer'.call # "done" => answer.call # "done"
      /\ UNCHANGED <<disk, boot, ui, inbox, owed, runs>>
  BY FailedFacts, RestFacts, ReplyFacts DEF RecoveryInv, SnapshotFails
<1>3. Life'
  BY <1>2 DEF RecoveryInv, TypeOK, Life
<1>4. Requests'
  BY <1>2 DEF RecoveryInv, TypeOK, Requests, Life
<1>5. PlanFits'
  BY <1>2 DEF RecoveryInv, TypeOK, PlanFits, ToWrite, ToRemove, ToAside, ToForget, Life
<1>6. NotItsOwn'
  BY <1>2 DEF RecoveryInv, TypeOK, NotItsOwn
<1>7. OwedIsKept'
  BY <1>2 DEF RecoveryInv, TypeOK, OwedIsKept, OwedIsAsked, ToWrite, Outstanding, Life, Requests
<1>8. OwedIsAsked'
  BY <1>2 DEF RecoveryInv, TypeOK, OwedIsAsked, Life, Requests
<1>9. DurableStays'
  BY <1>2 DEF RecoveryInv, TypeOK, DurableStays, ToWrite, ToForget, Slot, Life, Requests
<1>10. AnswersCounted'
  BY <1>2 DEF RecoveryInv, TypeOK, AnswersCounted, Life
<1> QED BY <1>1, <1>3, <1>4, <1>5, <1>6, <1>7, <1>8, <1>9, <1>10 DEF Parts

(* A save fails or is refused. *)
LEMMA SaveFailsKeeps ==
ASSUME RecoveryInv, NEW readOk \in BOOLEAN, NEW writeOk \in BOOLEAN, SaveFails(readOk,
         writeOk)
  PROVE  Parts'
<1> USE ScreenAssumption
<1>1. Typed'
  <2>1. saver' \in Recorders
    <3> DEFINE retry == JudgeState(readOk) # "Refuse" \/ ~readOk
    <3>1. retry \in BOOLEAN /\ saver' = Rest(Failed(retry)) BY DEF SaveFails
    <3> HIDE DEF retry
    <3> QED BY <3>1, FailedFacts, RestFacts DEF RecoveryInv
  <2>2. answer' \in Answers
    BY ReplyFacts DEF SaveFails
  <2>3. faults' \in 0..MaxFaults
    BY DEF RecoveryInv, TypeOK, SaveFails, Fails, Counted
  <2> QED BY <2>1, <2>2, <2>3 DEF RecoveryInv, TypeOK, Typed, SaveFails, Reply
<1> USE DEF State, Copy, Asked, Owed, Clear, CopyIs, CopyAnswered, Up, IsText
<1>2. /\ saver'.pc \in {"idle", "ended"} /\ saver'.resolved = saver.resolved /\ saver.pc # "none"
      /\ answer'.phase = answer.phase /\ answer'.text = answer.text /\ durable' = durable
      /\ answer'.call # "idle" => answer.call # "idle"
      /\ answer'.call # "done" => answer.call # "done"
      /\ UNCHANGED <<disk, boot, ui, inbox, owed, runs>>
  <2> DEFINE retry == JudgeState(readOk) # "Refuse" \/ ~readOk
  <2>1. retry \in BOOLEAN /\ saver' = Rest(Failed(retry)) BY DEF SaveFails
  <2> HIDE DEF retry
  <2>2. saver'.pc \in {"idle", "ended"} /\ saver'.resolved = saver.resolved
    BY <2>1, FailedFacts, RestFacts DEF RecoveryInv
  <2>3. Reply(FALSE) /\ saver.pc # "none" /\ UNCHANGED <<disk, boot, ui, inbox, owed, runs>>
    BY DEF SaveFails
  <2> QED BY <2>2, <2>3, ReplyFacts
<1>3. Life'
  BY <1>2 DEF RecoveryInv, TypeOK, Life
<1>4. Requests'
  BY <1>2 DEF RecoveryInv, TypeOK, Requests, Life
<1>5. PlanFits'
  BY <1>2 DEF RecoveryInv, TypeOK, PlanFits, ToWrite, ToRemove, ToAside, ToForget, Life
<1>6. NotItsOwn'
  BY <1>2 DEF RecoveryInv, TypeOK, NotItsOwn
<1>7. OwedIsKept'
  BY <1>2 DEF RecoveryInv, TypeOK, OwedIsKept, OwedIsAsked, ToWrite, Outstanding, Life, Requests
<1>8. OwedIsAsked'
  BY <1>2 DEF RecoveryInv, TypeOK, OwedIsAsked, Life, Requests
<1>9. DurableStays'
  BY <1>2 DEF RecoveryInv, TypeOK, DurableStays, ToWrite, ToForget, Slot, Life, Requests
<1>10. AnswersCounted'
  BY <1>2 DEF RecoveryInv, TypeOK, AnswersCounted, Life
<1> QED BY <1>1, <1>3, <1>4, <1>5, <1>6, <1>7, <1>8, <1>9, <1>10 DEF Parts

(* A save replaces the state file. *)
LEMMA SaveKeeps ==
  ASSUME RecoveryInv, NEW ok \in BOOLEAN, SaveWrites(ok)
  PROVE  Parts'
<1> USE ScreenAssumption
<1>1. Typed'
  <2>1. disk' \in Disks
    <3> DEFINE w == Written(saver.snap, saver.cause = "Final", saver.resolved)
    <3>1. w \in Files BY WrittenFacts DEF RecoveryInv, TypeOK, Recorders
    <3>2. \E A \in SUBSET {"state", "copy"} : disk' = [disk EXCEPT !.state = w, !.aside = A]
      BY DEF RecoveryInv, TypeOK, Disks, SaveWrites
    <3> HIDE DEF w
    <3> QED BY <3>1, <3>2 DEF RecoveryInv, TypeOK, Disks
  <2>2. boot' \in Plans
    BY DEF RecoveryInv, TypeOK, SaveWrites, Plans
  <2>3. owed' \in [hash : Slots, accepted : BOOLEAN]
    BY DEF RecoveryInv, TypeOK, SaveWrites, NotOwed, Slots
  <2>4. saver' \in Recorders
    BY DEF RecoveryInv, TypeOK, SaveWrites, Recorders
  <2>5. faults' \in 0..MaxFaults
    BY DEF RecoveryInv, TypeOK, SaveWrites, Fails, Counted, Operation
  <2> QED BY <2>1, <2>2, <2>3, <2>4, <2>5 DEF RecoveryInv, TypeOK, Typed, SaveWrites
<1> USE DEF State, Copy, Asked, Owed, Clear, CopyIs, CopyAnswered, Up, IsText
<1>2. /\ saver.pc = "write" /\ saver'.pc = "drop"
      /\ saver'.resolved = saver.resolved /\ saver'.cause = saver.cause
      /\ disk'.copy = disk.copy /\ disk'.state.kind = "usable"
      /\ disk'.state.text.resolved = saver.resolved /\ disk'.state.text.hash = Fresh
      /\ boot'.phase = boot.phase /\ boot'.todo = boot.todo /\ boot'.guard = boot.guard
      /\ boot'.carry = boot.carry /\ boot'.reads = boot.reads
      /\ owed' = IF saver.covers THEN [hash |-> None, accepted |-> FALSE] ELSE owed
      /\ UNCHANGED <<ui, answer, inbox, durable, runs>>
  <2> DEFINE w == Written(saver.snap, saver.cause = "Final", saver.resolved)
  <2>1. /\ w.kind = "usable" /\ w.text.resolved = saver.resolved /\ w.text.hash = Fresh
    <3>1. saver.snap \in Screens /\ saver.resolved \in Slots /\ TypeOK
      BY DEF RecoveryInv, TypeOK, Recorders
    <3> DEFINE final == saver.cause = "Final"
    <3>2. final \in BOOLEAN OBVIOUS
    <3> HIDE DEF final
    <3>3. LET x == Written(saver.snap, final, saver.resolved) IN
          x.kind = "usable" /\ x.text.resolved = saver.resolved /\ x.text.hash = Fresh
      BY ONLY <3>1, <3>2, WrittenFacts
    <3> QED BY ONLY <3>3 DEF final
  <2>2. disk'.copy = disk.copy /\ disk'.state = w
    BY DEF RecoveryInv, TypeOK, Disks, SaveWrites
  <2> HIDE DEF w
  <2>3. /\ saver.pc = "write" /\ saver'.pc = "drop"
        /\ saver'.resolved = saver.resolved /\ saver'.cause = saver.cause
    BY DEF RecoveryInv, TypeOK, Recorders, SaveWrites
  <2>4. /\ boot'.phase = boot.phase /\ boot'.todo = boot.todo /\ boot'.guard = boot.guard
        /\ boot'.carry = boot.carry /\ boot'.reads = boot.reads
    BY DEF RecoveryInv, TypeOK, Plans, SaveWrites
  <2>5. /\ owed' = IF saver.covers THEN [hash |-> None, accepted |-> FALSE] ELSE owed
        /\ UNCHANGED <<ui, answer, inbox, durable, runs>>
    BY DEF SaveWrites, NotOwed
  <2> QED BY <2>1, <2>2, <2>3, <2>4, <2>5
<1>3. Life'
  BY <1>2 DEF RecoveryInv, TypeOK, Life
<1>4. Requests'
  BY <1>2 DEF RecoveryInv, TypeOK, Requests, Life
<1>5. PlanFits'
  BY <1>2 DEF RecoveryInv, PlanFits, Life
<1>6. NotItsOwn'
  BY <1>2, FreshIsNew DEF RecoveryInv, NotItsOwn
<1>7. OwedIsKept'
  <2>1. Clear /\ boot.phase = "up" /\ ~ToWrite /\ ~ToWrite'
    BY <1>2, PlansDiffer DEF RecoveryInv, Life, ToWrite
  <2>2. ASSUME owed'.hash # None
        PROVE  owed' = owed /\ CopyIs(Owed) /\ saver.resolved # Owed
    BY <1>2, <2>1, <2>2 DEF RecoveryInv, OwedIsKept, OwedIsAsked
  <2> QED BY <1>2, <2>1, <2>2 DEF RecoveryInv, OwedIsKept, Outstanding
<1>8. OwedIsAsked'
  BY <1>2 DEF RecoveryInv, TypeOK, OwedIsAsked, Life, Requests
<1>9. DurableStays'
  <2>1. Clear /\ boot.phase = "up" /\ ~ToWrite /\ ~ToForget /\ saver.pc # "none"
    BY <1>2, PlansDiffer DEF RecoveryInv, Life
  <2>2. IsText(Copy) /\ Copy.text.hash \in durable => saver.resolved = Copy.text.hash
    BY <2>1 DEF RecoveryInv, DurableStays, Slot
  <2> QED BY <1>2, <2>1, <2>2, FreshIsNew DEF RecoveryInv, DurableStays, Slot
<1>10. AnswersCounted'
  BY <1>2 DEF RecoveryInv, TypeOK, AnswersCounted, Life
<1> QED BY <1>1, <1>3, <1>4, <1>5, <1>6, <1>7, <1>8, <1>9, <1>10 DEF Parts

(* The recorder removes the copy its slot names, and replies. *)
LEMMA DropKeeps ==
  ASSUME RecoveryInv, NEW ok \in BOOLEAN, DropAnsweredCopy(ok)
  PROVE  Parts'
<1> USE ScreenAssumption
<1> DEFINE s == [saver EXCEPT !.resolved = IF ok THEN None ELSE @]
<1>a. /\ s \in Recorders /\ s.resolved = IF ok THEN None ELSE saver.resolved
  BY Starts DEF RecoveryInv, TypeOK, Recorders
<1>b. saver' = Rest(s) BY DEF DropAnsweredCopy
<1>c. Reply(TRUE) BY DEF DropAnsweredCopy
<1> HIDE DEF s
<1>1. Typed'
  <2>1. disk' \in Disks
    BY MissingFacts DEF RecoveryInv, TypeOK, DropAnsweredCopy, Disks
  <2>2. saver' \in Recorders
    BY <1>a, <1>b, RestFacts
  <2>3. answer' \in Answers
    BY <1>c, ReplyFacts
  <2>4. durable' \subseteq Hashes
    BY <1>c, ReplyFacts DEF RecoveryInv, TypeOK
  <2>5. faults' \in 0..MaxFaults
    BY DEF RecoveryInv, TypeOK, DropAnsweredCopy, Fails, Counted, Operation
<2> QED BY <2>1, <2>2, <2>3, <2>4, <2>5 DEF RecoveryInv, TypeOK, Typed, DropAnsweredCopy,
           Reply
<1> USE DEF State, Copy, Asked, Owed, Clear, CopyIs, CopyAnswered, Up, IsText
<1>2. /\ saver.pc = "drop" /\ saver'.pc \in {"idle", "ended"}
      /\ saver'.resolved = IF ok THEN None ELSE saver.resolved
      /\ saver.resolved = None => ok
      /\ disk'.state = disk.state
      /\ \/ disk'.copy = disk.copy /\ ~(ok /\ CopyIs(saver.resolved))
         \/ ok /\ CopyIs(saver.resolved) /\ disk'.copy.kind = "missing"
      /\ UNCHANGED <<boot, ui, inbox, owed, runs>>
  <2>1. saver'.pc \in {"idle", "ended"} /\ saver'.resolved = s.resolved
    BY <1>a, <1>b, RestFacts
  <2>2. /\ disk'.state = disk.state
        /\ \/ disk'.copy = disk.copy /\ ~(ok /\ CopyIs(saver.resolved))
           \/ ok /\ CopyIs(saver.resolved) /\ disk'.copy.kind = "missing"
    BY MissingFacts DEF RecoveryInv, TypeOK, Disks, DropAnsweredCopy
  <2> QED BY <1>a, <2>1, <2>2 DEF DropAnsweredCopy
<1>3. Life'
  BY <1>2, <1>c, ReplyFacts DEF RecoveryInv, Life
<1>4. Requests'
  BY <1>2, <1>c, ReplyFacts DEF RecoveryInv, Requests
<1>5. PlanFits'
  BY <1>2, <1>c, ReplyFacts DEF RecoveryInv, PlanFits, Life
<1>6. NotItsOwn'
  BY <1>2 DEF RecoveryInv, TypeOK, NotItsOwn
<1>7. OwedIsKept'
  BY <1>2, <1>c, ReplyFacts DEF RecoveryInv, OwedIsKept, OwedIsAsked, ToWrite, Outstanding, Life
<1>8. OwedIsAsked'
  BY <1>2, <1>c, ReplyFacts DEF RecoveryInv, OwedIsAsked, Life
<1>9. DurableStays'
  <2>1. /\ answer'.phase = answer.phase /\ answer'.text = answer.text
        /\ \/ durable' = durable
           \/ /\ durable' = durable \cup {Asked} /\ saver.cause = "Resolve"
              /\ answer.phase = "answered" /\ saver.resolved = Asked /\ Asked # None
    BY <1>2, <1>c, ReplyFacts DEF RecoveryInv, Life, Requests
  <2> QED BY <1>2, <2>1 DEF RecoveryInv, DurableStays, OwedIsKept, ToWrite, ToForget, Slot, Life
<1>10. AnswersCounted'
  <2>1. CASE durable' = durable
    BY <1>2, <1>c, <2>1, ReplyFacts DEF RecoveryInv, AnswersCounted
  <2>2. CASE durable' # durable
    <3>1. /\ durable' = durable \cup {Asked} /\ answer.call = "waiting" /\ answer'.call = "done"
      BY <1>c, <2>2, ReplyFacts
    <3>2. /\ IsFiniteSet(durable) /\ Cardinality(durable) < runs /\ runs' = runs /\ runs \in Nat
      BY <1>2, <3>1 DEF RecoveryInv, AnswersCounted, Life, TypeOK
    <3>3. Cardinality(durable) \in Nat BY <3>2, FS_CardinalityType
    <3>4. /\ IsFiniteSet(durable')
          /\ Cardinality(durable') \in {Cardinality(durable), Cardinality(durable) + 1}
      BY <3>1, <3>2, FS_AddElement
    <3> QED BY <3>1, <3>2, <3>3, <3>4 DEF AnswersCounted
  <2> QED BY <2>1, <2>2
<1> QED BY <1>1, <1>3, <1>4, <1>5, <1>6, <1>7, <1>8, <1>9, <1>10 DEF Parts

(* The process ends: what the disk holds is what is owed. *)
LEMMA EndKeeps ==
  ASSUME RecoveryInv, End
  PROVE  Parts'
<1> USE ScreenAssumption
<1>1. Typed'
  <2>1. boot' \in Plans
    BY Starts DEF End, NoPlan, Plans
  <2>2. ui' \in [screen : Screens, rev : Revisions]
    BY Starts DEF End, NoUi
  <2>3. answer' \in Answers
    BY DEF RecoveryInv, TypeOK, End, NoAnswer, Answers
  <2>4. saver' \in Recorders
    BY Starts DEF End, NoSaver, Recorders
  <2>5. inbox' \in Seq(Letters)
    BY DEF RecoveryInv, TypeOK, End
  <2>6. owed' \in [hash : Slots, accepted : BOOLEAN]
    <3>1. Outstanding \in Slots
      BY Starts DEF RecoveryInv, TypeOK, Outstanding, IsText, Disks, Files, Texts, Slots
    <3> QED BY <3>1 DEF RecoveryInv, TypeOK, End
  <2> QED BY <2>1, <2>2, <2>3, <2>4, <2>5, <2>6 DEF RecoveryInv, TypeOK, Typed, End
<1> USE DEF State, Copy, Asked, Owed, Clear, CopyIs, CopyAnswered, Up, IsText
<1>2. /\ boot'.phase = "down" /\ boot'.carry = None /\ saver'.pc = "none" /\ inbox' = <<>>
      /\ saver'.cause = "Periodic" /\ ui'.rev = 0
      /\ answer'.phase = "none" /\ answer'.call = "idle" /\ answer'.text.hash = None
      /\ owed'.hash = (IF Owed # None THEN Owed ELSE Outstanding) /\ owed'.accepted = FALSE
      /\ UNCHANGED <<disk, durable, runs, faults>>
  BY DEF End, NoPlan, NoUi, NoAnswer, NoSaver, Blank
<1>3. Life'
  BY <1>2 DEF RecoveryInv, TypeOK, Life
<1>4. Requests'
  BY <1>2 DEF RecoveryInv, TypeOK, Requests, Life
<1>5. PlanFits'
  BY <1>2 DEF RecoveryInv, TypeOK, PlanFits, ToWrite, ToRemove, ToAside, ToForget, Life
<1>6. NotItsOwn'
  BY <1>2 DEF RecoveryInv, TypeOK, NotItsOwn
<1>7. OwedIsKept'
  BY <1>2 DEF RecoveryInv, TypeOK, OwedIsKept, OwedIsAsked, ToWrite, Outstanding, Life, Requests
<1>8. OwedIsAsked'
  BY <1>2 DEF RecoveryInv, TypeOK, OwedIsAsked, Life, Requests
<1>9. DurableStays'
  BY <1>2, Starts DEF RecoveryInv, TypeOK, DurableStays
<1>10. AnswersCounted'
  BY <1>2 DEF RecoveryInv, TypeOK, AnswersCounted, Life
<1> QED BY <1>1, <1>3, <1>4, <1>5, <1>6, <1>7, <1>8, <1>9, <1>10 DEF Parts

(* The state file is set aside. *)
LEMMA AsideStateKeeps ==
  ASSUME RecoveryInv, NEW ok \in BOOLEAN, CopyAsideState(ok)
  PROVE  Parts'
<1> USE ScreenAssumption
<1>1. Typed'
  <2>1. disk' \in Disks
    BY DEF RecoveryInv, TypeOK, CopyAsideState, Disks
  <2>2. boot' \in Plans
    <3>1. Tail(boot.todo) \in Seq(Actions)
      BY TailType DEF RecoveryInv, CopyAsideState, Acting
    <3> QED BY <3>1 DEF RecoveryInv, TypeOK, CopyAsideState, Plans
  <2>3. faults' \in 0..MaxFaults
    BY DEF RecoveryInv, TypeOK, CopyAsideState, Fails, Counted, Operation
  <2> QED BY <2>1, <2>2, <2>3 DEF RecoveryInv, TypeOK, Typed, CopyAsideState, Acting
<1> USE DEF State, Copy, Asked, Owed, Clear, CopyIs, CopyAnswered, Up, IsText
<1>2. /\ boot.phase = "acting" /\ boot'.phase = "acting" /\ boot'.reads = boot.reads
      /\ boot'.guard = boot.guard /\ boot'.carry = boot.carry
      /\ boot'.asideTried
      /\ disk'.state = disk.state /\ disk'.copy = disk.copy
      /\ boot'.todo = <<>> \/ ToRemove'
      /\ ToRemove' => ToRemove
      /\ ToAside /\ ~ToAside' /\ ~ToWrite' /\ ~ToForget'
      /\ UNCHANGED <<ui, answer, saver, inbox, owed, durable, runs>>
  <2>1. /\ boot.phase = "acting" /\ boot.todo # <<>> /\ PlanFits
        /\ UNCHANGED <<ui, answer, saver, inbox, owed, durable, runs>>
    BY DEF RecoveryInv, CopyAsideState, Acting
  <2>2. Head(boot.todo) = "CopyAsideState" BY DEF CopyAsideState, Acting
  <2>3. /\ boot'.phase = boot.phase /\ boot'.reads = boot.reads /\ boot'.guard = boot.guard
        /\ boot'.carry = boot.carry /\ boot'.asideTried /\ boot'.todo = Tail(boot.todo)
    BY DEF RecoveryInv, TypeOK, CopyAsideState, Plans
  <2>4. disk'.state = disk.state /\ disk'.copy = disk.copy
    BY DEF RecoveryInv, TypeOK, CopyAsideState, Disks
  <2>5. ToAside /\ \/ boot'.todo = <<>>
                   \/ ToRemove /\ boot'.todo = <<"CopyAsideCrashCopy", "RemoveUnusable">>
    BY <2>1, <2>2, <2>3, PlanTails
  <2>6. /\ ~ToAside' /\ ~ToWrite' /\ ~ToForget'
        /\ (boot'.todo # <<>> <=> ToRemove') /\ (ToRemove' => ToRemove)
    BY <2>5, PlanSets DEF ToAside, ToWrite, ToForget, ToRemove
  <2> QED BY <2>1, <2>3, <2>4, <2>5, <2>6
<1>3. Life'
  BY <1>2 DEF RecoveryInv, Life
<1>4. Requests'
  BY <1>2 DEF RecoveryInv, Requests
<1>5. PlanFits'
  BY <1>2 DEF RecoveryInv, PlanFits
<1>6. NotItsOwn'
  BY <1>2 DEF RecoveryInv, NotItsOwn
<1>7. OwedIsKept'
  BY <1>2, PlansDiffer DEF RecoveryInv, PlanFits, OwedIsKept, Outstanding, NotItsOwn
<1>8. OwedIsAsked'
  BY <1>2 DEF RecoveryInv, OwedIsAsked, Life
<1>9. DurableStays'
  BY <1>2, PlansDiffer DEF RecoveryInv, PlanFits, DurableStays, Slot, Life
<1>10. AnswersCounted'
  BY <1>2 DEF RecoveryInv, AnswersCounted
<1> QED BY <1>1, <1>3, <1>4, <1>5, <1>6, <1>7, <1>8, <1>9, <1>10 DEF Parts

(* The copy is set aside. *)
LEMMA AsideCopyKeeps ==
  ASSUME RecoveryInv, NEW ok \in BOOLEAN, CopyAsideCrashCopy(ok)
  PROVE  Parts'
<1> USE ScreenAssumption
<1>1. Typed'
  <2>1. disk' \in Disks
    BY DEF RecoveryInv, TypeOK, CopyAsideCrashCopy, Disks
  <2>2. boot' \in Plans
    <3>1. Tail(boot.todo) \in Seq(Actions) /\ <<>> \in Seq(Actions)
      BY TailType DEF RecoveryInv, CopyAsideCrashCopy, Acting
    <3> QED BY <3>1 DEF RecoveryInv, TypeOK, CopyAsideCrashCopy, Plans
  <2>3. faults' \in 0..MaxFaults
    BY DEF RecoveryInv, TypeOK, CopyAsideCrashCopy, Fails, Counted, Operation
  <2> QED BY <2>1, <2>2, <2>3 DEF RecoveryInv, TypeOK, Typed, CopyAsideCrashCopy, Acting
<1> USE DEF State, Copy, Asked, Owed, Clear, CopyIs, CopyAnswered, Up, IsText
<1>2. /\ boot.phase = "acting" /\ boot'.phase = "acting" /\ boot'.reads = boot.reads
      /\ boot'.guard = boot.guard /\ boot'.carry = boot.carry
      /\ boot'.asideTried = boot.asideTried
      /\ disk'.state = disk.state /\ disk'.copy = disk.copy
      /\ ~ToAside /\ ~ToForget /\ ~ToAside' /\ ~ToForget'
      /\ ToWrite' <=> ToWrite
      /\ ToWrite' \/ ToRemove' \/ boot'.todo = <<>>
      /\ ToRemove' => ToRemove
      /\ UNCHANGED <<ui, answer, saver, inbox, owed, durable, runs>>
  <2>1. /\ boot.phase = "acting" /\ boot.todo # <<>> /\ PlanFits
        /\ UNCHANGED <<ui, answer, saver, inbox, owed, durable, runs>>
    BY DEF RecoveryInv, CopyAsideCrashCopy, Acting
  <2>2. Head(boot.todo) = "CopyAsideCrashCopy" BY DEF CopyAsideCrashCopy, Acting
  <2>3. /\ boot'.phase = boot.phase /\ boot'.reads = boot.reads /\ boot'.guard = boot.guard
        /\ boot'.carry = boot.carry /\ boot'.asideTried = boot.asideTried
        /\ \/ boot'.todo = Tail(boot.todo)
           \/ Tail(boot.todo) = <<"RemoveUnusable">> /\ boot'.todo = <<>>
    BY DEF RecoveryInv, TypeOK, CopyAsideCrashCopy, Plans
  <2>4. disk'.state = disk.state /\ disk'.copy = disk.copy
    BY DEF RecoveryInv, TypeOK, CopyAsideCrashCopy, Disks
  <2>5. ~ToAside /\ \/ ToWrite /\ Tail(boot.todo) = <<"WriteCrashCopy">>
                    \/ ToRemove /\ Tail(boot.todo) = <<"RemoveUnusable">>
    BY <2>1, <2>2, PlanTails
  <2>6. ~ToForget /\ (ToWrite => ~ToRemove) BY <2>5, PlansDiffer
  <2>7. CASE ToWrite
    <3>1. Tail(boot.todo) = <<"WriteCrashCopy">> BY <2>5, <2>6, <2>7
    <3>2. Tail(boot.todo) # <<"RemoveUnusable">> BY <3>1
    <3>3. boot'.todo = <<"WriteCrashCopy">> BY <2>3, <3>1, <3>2
    <3>4. ToWrite' /\ ~ToAside' /\ ~ToForget' /\ ~ToRemove'
      BY <3>3, PlanSets DEF ToWrite, ToAside, ToForget, ToRemove
    <3> QED BY <2>1, <2>3, <2>4, <2>5, <2>6, <2>7, <3>4
  <2>8. CASE ToRemove
    <3>1. boot'.todo = <<"RemoveUnusable">> \/ boot'.todo = <<>> BY <2>3, <2>5, <2>6, <2>8
    <3>2. ~ToWrite' /\ ~ToAside' /\ ~ToForget' /\ (boot'.todo # <<>> => ToRemove')
      BY <3>1, PlanSets DEF ToWrite, ToAside, ToForget, ToRemove
    <3> QED BY <2>1, <2>3, <2>4, <2>5, <2>6, <2>8, <3>1, <3>2
  <2> QED BY <2>5, <2>7, <2>8
<1>3. Life'
  BY <1>2 DEF RecoveryInv, Life
<1>4. Requests'
  BY <1>2 DEF RecoveryInv, Requests
<1>5. PlanFits'
  BY <1>2 DEF RecoveryInv, PlanFits
<1>6. NotItsOwn'
  BY <1>2 DEF RecoveryInv, NotItsOwn
<1>7. OwedIsKept'
  BY <1>2, PlansDiffer DEF RecoveryInv, PlanFits, OwedIsKept, Outstanding, NotItsOwn
<1>8. OwedIsAsked'
  BY <1>2 DEF RecoveryInv, OwedIsAsked, Life
<1>9. DurableStays'
  BY <1>2, PlansDiffer DEF RecoveryInv, PlanFits, DurableStays, Slot, Life
<1>10. AnswersCounted'
  BY <1>2 DEF RecoveryInv, AnswersCounted
<1> QED BY <1>1, <1>3, <1>4, <1>5, <1>6, <1>7, <1>8, <1>9, <1>10 DEF Parts

(* An unusable copy is removed. *)
LEMMA RemoveKeeps ==
  ASSUME RecoveryInv, NEW ok \in BOOLEAN, RemoveUnusable(ok)
  PROVE  Parts'
<1> USE ScreenAssumption
<1>1. Typed'
  <2>1. disk' \in Disks
    BY MissingFacts DEF RecoveryInv, TypeOK, RemoveUnusable, Disks
  <2>2. boot' \in Plans
    <3>1. Tail(boot.todo) \in Seq(Actions)
      BY TailType DEF RecoveryInv, RemoveUnusable, Acting
    <3> QED BY <3>1 DEF RecoveryInv, TypeOK, RemoveUnusable, Plans
  <2>3. faults' \in 0..MaxFaults
    BY DEF RecoveryInv, TypeOK, RemoveUnusable, Fails, Counted, Operation
  <2> QED BY <2>1, <2>2, <2>3 DEF RecoveryInv, TypeOK, Typed, RemoveUnusable, Acting
<1> USE DEF State, Copy, Asked, Owed, Clear, CopyIs, CopyAnswered, Up, IsText
<1>2. /\ boot.phase = "acting" /\ boot'.phase = "acting" /\ boot'.reads = boot.reads
      /\ boot'.guard = boot.guard /\ boot'.carry = boot.carry
      /\ boot'.asideTried = boot.asideTried
      /\ boot'.todo = <<>> /\ ~ToWrite' /\ ~ToRemove' /\ ~ToAside' /\ ~ToForget'
      /\ ToRemove /\ ~ToWrite /\ ~ToForget /\ ~ToAside
      /\ disk'.state = disk.state
      /\ disk'.copy = disk.copy \/ disk'.copy.kind = "missing"
      /\ UNCHANGED <<ui, answer, saver, inbox, owed, durable, runs>>
  <2>1. /\ boot.phase = "acting" /\ boot.todo # <<>> /\ PlanFits
        /\ UNCHANGED <<ui, answer, saver, inbox, owed, durable, runs>>
    BY DEF RecoveryInv, RemoveUnusable, Acting
  <2>2. Head(boot.todo) = "RemoveUnusable" BY DEF RemoveUnusable, Acting
  <2>3. /\ boot'.phase = boot.phase /\ boot'.reads = boot.reads
        /\ boot'.guard = boot.guard /\ boot'.carry = boot.carry
        /\ boot'.asideTried = boot.asideTried /\ boot'.todo = Tail(boot.todo)
    BY DEF RecoveryInv, TypeOK, RemoveUnusable, Plans
  <2>4. /\ disk'.state = disk.state
        /\ disk'.copy = disk.copy \/ disk'.copy.kind = "missing"
    BY MissingFacts DEF RecoveryInv, TypeOK, RemoveUnusable, Disks
  <2>5. ToRemove /\ ~ToWrite /\ ~ToForget /\ ~ToAside /\ Tail(boot.todo) = <<>>
    BY <2>1, <2>2, PlanTails, PlansDiffer
  <2>6. boot'.todo = <<>> /\ ~ToWrite' /\ ~ToRemove' /\ ~ToAside' /\ ~ToForget'
    BY <2>3, <2>5, PlanSets DEF ToWrite, ToRemove, ToAside, ToForget
  <2> QED BY <2>1, <2>3, <2>4, <2>5, <2>6
<1>3. Life'
  BY <1>2 DEF RecoveryInv, Life
<1>4. Requests'
  BY <1>2 DEF RecoveryInv, Requests
<1>5. PlanFits'
  BY <1>2 DEF RecoveryInv, PlanFits
<1>6. NotItsOwn'
  BY <1>2 DEF RecoveryInv, NotItsOwn
<1>7. OwedIsKept'
  BY <1>2, PlansDiffer DEF RecoveryInv, PlanFits, OwedIsKept, Outstanding, NotItsOwn
<1>8. OwedIsAsked'
  BY <1>2 DEF RecoveryInv, OwedIsAsked, Life
<1>9. DurableStays'
  BY <1>2, PlansDiffer DEF RecoveryInv, PlanFits, DurableStays, Slot, Life
<1>10. AnswersCounted'
  BY <1>2 DEF RecoveryInv, AnswersCounted
<1> QED BY <1>1, <1>3, <1>4, <1>5, <1>6, <1>7, <1>8, <1>9, <1>10 DEF Parts

(* The crashed run's text is copied. *)
LEMMA CopyKeeps ==
  ASSUME RecoveryInv, NEW ok \in BOOLEAN, WriteCrashCopy(ok)
  PROVE  Parts'
<1> USE ScreenAssumption
<1>1. Typed'
  <2>1. disk' \in Disks
    <3>1. ToWrite BY PlanTails DEF RecoveryInv, WriteCrashCopy, Acting
    <3>2. answer.text = disk.state.text /\ disk.state.kind = "usable"
      BY <3>1 DEF RecoveryInv, PlanFits, WriteCrashCopy, Acting, State, IsText
    <3>3. answer.text \in Texts BY <3>2 DEF RecoveryInv, TypeOK, Disks, Files
    <3>4. Usable(answer.text) \in Files BY <3>3 DEF Usable, Files
    <3> QED BY <3>4 DEF RecoveryInv, TypeOK, WriteCrashCopy, Disks
  <2>2. boot' \in Plans
    <3>1. Tail(boot.todo) \in Seq(Actions)
      BY TailType DEF RecoveryInv, WriteCrashCopy, Acting
    <3> QED BY <3>1 DEF RecoveryInv, TypeOK, WriteCrashCopy, Plans
  <2>3. faults' \in 0..MaxFaults
    BY DEF RecoveryInv, TypeOK, WriteCrashCopy, Fails, Counted, Operation
  <2> QED BY <2>1, <2>2, <2>3 DEF RecoveryInv, TypeOK, Typed, WriteCrashCopy, Acting
<1> USE DEF State, Copy, Asked, Owed, Clear, CopyIs, CopyAnswered, Up, IsText
<1>2. /\ boot.phase = "acting" /\ boot'.phase = "acting" /\ boot'.reads = boot.reads
      /\ boot'.carry = boot.carry
      /\ ok => boot'.guard = boot.guard
      /\ ~ok => boot'.guard = "CopyNotWritten"
      /\ boot'.asideTried = boot.asideTried
      /\ boot'.todo = <<>> /\ ~ToWrite' /\ ~ToRemove' /\ ~ToAside' /\ ~ToForget'
      /\ ToWrite /\ ~ToRemove /\ ~ToForget /\ ~ToAside
      /\ disk'.state = disk.state
      /\ ok => disk'.copy.kind = "usable" /\ disk'.copy.text = answer.text
      /\ ~ok => disk'.copy = disk.copy
      /\ UNCHANGED <<ui, answer, saver, inbox, owed, durable, runs>>
  <2>1. /\ boot.phase = "acting" /\ boot.todo # <<>> /\ PlanFits
        /\ UNCHANGED <<ui, answer, saver, inbox, owed, durable, runs>>
    BY DEF RecoveryInv, WriteCrashCopy, Acting
  <2>2. Head(boot.todo) = "WriteCrashCopy" BY DEF WriteCrashCopy, Acting
  <2>3. /\ boot'.phase = boot.phase /\ boot'.reads = boot.reads
        /\ boot'.carry = boot.carry
        /\ ok => boot'.guard = boot.guard
        /\ ~ok => boot'.guard = "CopyNotWritten"
        /\ boot'.asideTried = boot.asideTried /\ boot'.todo = Tail(boot.todo)
    BY DEF RecoveryInv, TypeOK, WriteCrashCopy, Plans
  <2>4. /\ disk'.state = disk.state
        /\ ok => disk'.copy.kind = "usable" /\ disk'.copy.text = answer.text
        /\ ~ok => disk'.copy = disk.copy
    BY DEF RecoveryInv, TypeOK, WriteCrashCopy, Disks, Usable
  <2>5. ToWrite /\ ~ToRemove /\ ~ToForget /\ ~ToAside /\ Tail(boot.todo) = <<>>
    BY <2>1, <2>2, PlanTails, PlansDiffer
  <2>6. boot'.todo = <<>> /\ ~ToWrite' /\ ~ToRemove' /\ ~ToAside' /\ ~ToForget'
    BY <2>3, <2>5, PlanSets DEF ToWrite, ToRemove, ToAside, ToForget
  <2> QED BY <2>1, <2>3, <2>4, <2>5, <2>6
<1>3. Life'
  BY <1>2 DEF RecoveryInv, Life
<1>4. Requests'
  BY <1>2 DEF RecoveryInv, Requests
<1>5. PlanFits'
  BY <1>2 DEF RecoveryInv, PlanFits
<1>6. NotItsOwn'
  BY <1>2 DEF RecoveryInv, NotItsOwn
<1>7. OwedIsKept'
  BY <1>2, PlansDiffer DEF RecoveryInv, PlanFits, OwedIsKept, Outstanding, NotItsOwn
<1>8. OwedIsAsked'
  BY <1>2 DEF RecoveryInv, OwedIsAsked, Life
<1>9. DurableStays'
  BY <1>2, PlansDiffer DEF RecoveryInv, PlanFits, DurableStays, Slot, Life
<1>10. AnswersCounted'
  BY <1>2 DEF RecoveryInv, AnswersCounted
<1> QED BY <1>1, <1>3, <1>4, <1>5, <1>6, <1>7, <1>8, <1>9, <1>10 DEF Parts

(* A copy that is answered for is removed, or its hash carried on. *)
LEMMA ForgetKeeps ==
  ASSUME RecoveryInv, NEW ok \in BOOLEAN, RemoveAnswered(ok)
  PROVE  Parts'
<1> USE ScreenAssumption
<1>1. Typed'
  <2>1. disk' \in Disks
    BY MissingFacts DEF RecoveryInv, TypeOK, RemoveAnswered, Disks
  <2>2. boot' \in Plans
    <3>1. Tail(boot.todo) \in Seq(Actions)
      BY TailType DEF RecoveryInv, RemoveAnswered, Acting
    <3>2. disk.copy.text.hash \in Slots
      BY Starts DEF RecoveryInv, TypeOK, Disks, Files, Texts, Blank, Slots
    <3> QED BY <3>1, <3>2 DEF RecoveryInv, TypeOK, RemoveAnswered, Plans
  <2>3. faults' \in 0..MaxFaults
    BY DEF RecoveryInv, TypeOK, RemoveAnswered, Fails, Counted, Operation
  <2> QED BY <2>1, <2>2, <2>3 DEF RecoveryInv, TypeOK, Typed, RemoveAnswered, Acting
<1> USE DEF State, Copy, Asked, Owed, Clear, CopyIs, CopyAnswered, Up, IsText
<1>2. /\ boot.phase = "acting" /\ boot'.phase = "acting" /\ boot'.reads = boot.reads
      /\ boot'.guard = boot.guard
      /\ ok => boot'.carry = boot.carry
      /\ ~ok => boot'.carry = disk.copy.text.hash
      /\ boot'.asideTried = boot.asideTried
      /\ boot'.todo = <<>> /\ ~ToWrite' /\ ~ToRemove' /\ ~ToAside' /\ ~ToForget'
      /\ ToForget /\ ~ToWrite /\ ~ToRemove /\ ~ToAside
      /\ disk'.state = disk.state
      /\ ok => disk'.copy.kind = "missing"
      /\ ~ok => disk'.copy = disk.copy
      /\ UNCHANGED <<ui, answer, saver, inbox, owed, durable, runs>>
  <2>1. /\ boot.phase = "acting" /\ boot.todo # <<>> /\ PlanFits
        /\ UNCHANGED <<ui, answer, saver, inbox, owed, durable, runs>>
    BY DEF RecoveryInv, RemoveAnswered, Acting
  <2>2. Head(boot.todo) = "RemoveAnswered" BY DEF RemoveAnswered, Acting
  <2>3. /\ boot'.phase = boot.phase /\ boot'.reads = boot.reads
        /\ boot'.guard = boot.guard
        /\ ok => boot'.carry = boot.carry
        /\ ~ok => boot'.carry = disk.copy.text.hash
        /\ boot'.asideTried = boot.asideTried /\ boot'.todo = Tail(boot.todo)
    BY DEF RecoveryInv, TypeOK, RemoveAnswered, Plans
  <2>4. /\ disk'.state = disk.state
        /\ ok => disk'.copy.kind = "missing"
        /\ ~ok => disk'.copy = disk.copy
    BY MissingFacts DEF RecoveryInv, TypeOK, RemoveAnswered, Disks
  <2>5. ToForget /\ ~ToWrite /\ ~ToRemove /\ ~ToAside /\ Tail(boot.todo) = <<>>
    BY <2>1, <2>2, PlanTails, PlansDiffer
  <2>6. boot'.todo = <<>> /\ ~ToWrite' /\ ~ToRemove' /\ ~ToAside' /\ ~ToForget'
    BY <2>3, <2>5, PlanSets DEF ToWrite, ToRemove, ToAside, ToForget
  <2> QED BY <2>1, <2>3, <2>4, <2>5, <2>6
<1>3. Life'
  BY <1>2 DEF RecoveryInv, Life
<1>4. Requests'
  BY <1>2 DEF RecoveryInv, Requests
<1>5. PlanFits'
  BY <1>2 DEF RecoveryInv, PlanFits
<1>6. NotItsOwn'
  BY <1>2 DEF RecoveryInv, NotItsOwn
<1>7. OwedIsKept'
  BY <1>2, PlansDiffer DEF RecoveryInv, PlanFits, OwedIsKept, Outstanding, NotItsOwn
<1>8. OwedIsAsked'
  BY <1>2 DEF RecoveryInv, OwedIsAsked, Life
<1>9. DurableStays'
  BY <1>2, PlansDiffer DEF RecoveryInv, PlanFits, DurableStays, Slot, Life
<1>10. AnswersCounted'
  BY <1>2 DEF RecoveryInv, AnswersCounted
<1> QED BY <1>1, <1>3, <1>4, <1>5, <1>6, <1>7, <1>8, <1>9, <1>10 DEF Parts

(* The run marker replaces the state file, and the question is put. *)
LEMMA MarkerKeeps ==
  ASSUME RecoveryInv, NEW readOk \in BOOLEAN, NEW writeOk \in BOOLEAN, Marker(readOk, writeOk)
  PROVE  Parts'
<1> USE ScreenAssumption
<1> DEFINE w == Written(boot.model, FALSE, boot.carry)
           seen == IF readOk THEN disk.state ELSE File("unread")
<1>a. /\ w \in Files /\ w.kind = "usable" /\ w.text.resolved = boot.carry /\ w.text.hash = Fresh
  <2>1. boot.model \in Screens /\ boot.carry \in Slots /\ TypeOK
    BY DEF RecoveryInv, TypeOK, Plans
  <2>2. \A clean \in BOOLEAN : LET x == Written(boot.model, clean, boot.carry) IN
          x \in Files /\ x.kind = "usable" /\ x.text.resolved = boot.carry /\ x.text.hash = Fresh
    BY ONLY <2>1, WrittenFacts
  <2>3. FALSE \in BOOLEAN OBVIOUS
  <2> QED BY ONLY <2>2, <2>3
<1>b. /\ disk' = disk \/ (Clear /\ disk' = [disk EXCEPT !.state = w])
      /\ boot' = [boot EXCEPT !.phase = "up", !.guard = boot'.guard, !.adopted = boot'.adopted]
  BY DEF Marker, Clear
<1>c. /\ boot'.guard \in {"no", "StateUnreadable", "StateNewer", "CopyNotWritten"}
      /\ boot'.adopted \in BOOLEAN /\ (boot'.guard = "no" => Clear)
  <2>1. boot \in Plans BY DEF RecoveryInv, TypeOK
  <2>2. StateGuard(seen) \in {"no", "StateUnreadable", "StateNewer"} BY DEF StateGuard
  <2> DEFINE g == IF boot.guard # "no" THEN boot.guard
                  ELSE IF MarkerPolicy(readOk) = "Refuse" THEN StateGuard(seen) ELSE "no"
  <2>3. \E b \in BOOLEAN : boot' = [boot EXCEPT !.phase = "up", !.guard = g, !.adopted = b]
    BY <2>1 DEF Marker, Plans
  <2>4. boot'.guard = g /\ boot'.adopted \in BOOLEAN BY <2>1, <2>3 DEF Plans
  <2> QED BY <2>1, <2>2, <2>4 DEF Plans, Clear
<1> HIDE DEF w
<1>1. Typed'
  <2>1. disk' \in Disks
    BY <1>a, <1>b DEF RecoveryInv, TypeOK, Disks
  <2>2. boot' \in Plans
    BY <1>b, <1>c DEF RecoveryInv, TypeOK, Plans
  <2>3. ui' \in [screen : Screens, rev : Revisions]
    BY Starts DEF RecoveryInv, TypeOK, Marker, NoUi, Plans
  <2>4. answer' \in Answers
    BY DEF RecoveryInv, TypeOK, Marker, Answers
  <2>5. faults' \in 0..MaxFaults
    BY DEF RecoveryInv, TypeOK, Marker, Fails, Counted
  <2> QED BY <2>1, <2>2, <2>3, <2>4, <2>5 DEF RecoveryInv, TypeOK, Typed, Marker
<1> USE DEF State, Copy, Asked, Owed, Clear, CopyIs, CopyAnswered, Up, IsText
<1>2. /\ boot.phase = "acting" /\ boot.todo = <<>> /\ boot'.phase = "up" /\ boot'.todo = <<>>
      /\ boot'.carry = boot.carry /\ boot'.reads = boot.reads
      /\ boot'.guard = "no" => boot.guard = "no"
      /\ ~ToWrite /\ ~ToForget /\ ~ToWrite' /\ ~ToForget'
      /\ disk'.copy = disk.copy
      /\ \/ disk'.state = disk.state
         \/ /\ boot.guard = "no" /\ disk'.state.kind = "usable"
            /\ disk'.state.text.resolved = boot.carry /\ disk'.state.text.hash = Fresh
      /\ answer'.text = answer.text /\ answer'.call = answer.call
      /\ answer'.phase = IF Asked # None THEN "awaiting" ELSE "none"
      /\ ui'.rev = 0 /\ UNCHANGED <<saver, inbox, owed, durable, runs>>
  <2>1. boot.phase = "acting" /\ boot.todo = <<>> BY DEF Marker
  <2>2. /\ boot'.phase = "up" /\ boot'.todo = boot.todo
        /\ boot'.carry = boot.carry /\ boot'.reads = boot.reads
    BY <1>b DEF RecoveryInv, TypeOK, Plans
  <2>3. ~ToWrite /\ ~ToForget /\ ~ToWrite' /\ ~ToForget'
    BY <2>1, <2>2, PlanSets DEF ToWrite, ToForget
  <2>4. /\ disk'.copy = disk.copy
        /\ disk'.state = disk.state \/ (boot.guard = "no" /\ disk'.state = w)
    BY <1>b DEF RecoveryInv, TypeOK, Disks
  <2>5. answer.phase = "none" BY <2>1 DEF RecoveryInv, Life
  <2>6. /\ answer'.text = answer.text /\ answer'.call = answer.call
        /\ answer'.phase = IF Asked # None THEN "awaiting" ELSE "none"
    BY <2>5 DEF RecoveryInv, TypeOK, Answers, Marker
  <2>7. ui'.rev = 0 /\ UNCHANGED <<saver, inbox, owed, durable, runs>> BY DEF Marker, NoUi
  <2> QED BY <1>a, <1>c, <2>1, <2>2, <2>3, <2>4, <2>6, <2>7
<1>3. Life'
  BY <1>2 DEF RecoveryInv, Life
<1>4. Requests'
  BY <1>2 DEF RecoveryInv, Life, Requests
<1>5. PlanFits'
  BY <1>2 DEF PlanFits
<1>6. NotItsOwn'
  BY <1>2, FreshIsNew DEF RecoveryInv, NotItsOwn
<1>7. OwedIsKept'
  <2>1. boot.guard = "no" /\ Owed # None => CopyIs(Owed) /\ boot.carry # Owed
    BY <1>2 DEF RecoveryInv, OwedIsKept
  <2>2. Owed # None => Outstanding' = Owed
    BY <1>2, <2>1 DEF RecoveryInv, OwedIsKept, Outstanding
  <2> QED BY <1>2, <2>2 DEF RecoveryInv, OwedIsKept
<1>8. OwedIsAsked'
  BY <1>2 DEF RecoveryInv, OwedIsAsked, Life
<1>9. DurableStays'
  <2>1. boot.guard = "no" /\ IsText(Copy) /\ Copy.text.hash \in durable =>
          boot.carry = Copy.text.hash
    BY <1>2 DEF RecoveryInv, DurableStays, Slot, Life
  <2> QED BY <1>2, <2>1, FreshIsNew DEF RecoveryInv, DurableStays, Slot, Life
<1>10. AnswersCounted'
  BY <1>2 DEF RecoveryInv, AnswersCounted
<1> QED BY <1>1, <1>3, <1>4, <1>5, <1>6, <1>7, <1>8, <1>9, <1>10 DEF Parts

(* The lists of actions of the table are lists of actions. *)
LEMMA ActionLists ==
  /\ <<>> \in Seq(Actions) /\ <<"CopyAsideState">> \in Seq(Actions)
  /\ <<"WriteCrashCopy">> \in Seq(Actions) /\ <<"RemoveAnswered">> \in Seq(Actions)
  /\ <<"CopyAsideCrashCopy", "WriteCrashCopy">> \in Seq(Actions)
  /\ <<"CopyAsideCrashCopy", "RemoveUnusable">> \in Seq(Actions)
<1>1. \A a \in Actions : <<a>> \in Seq(Actions) OBVIOUS
<1>2. \A a, b \in Actions : <<a, b>> \in Seq(Actions) OBVIOUS
<1>3. {"CopyAsideState", "WriteCrashCopy", "RemoveAnswered", "CopyAsideCrashCopy",
       "RemoveUnusable"} \subseteq Actions
  BY DEF Actions
<1> QED BY <1>1, <1>2, <1>3, EmptySeq

(* The plan of a boot, and the text it asks about. *)
LEMMA DecideTypes ==
  ASSUME TypeOK, NEW stateOk \in BOOLEAN, NEW copyOk \in BOOLEAN
  PROVE  LET d == Chosen(stateOk, copyOk) IN
         /\ d.plan \in Plans /\ d.plan.phase = "acting"
         /\ d.ask \in Texts \cup {Blank}
<1> DEFINE st == StateSeen(stateOk)
           cp == CopySeen(copyOk)
           resolved == IF IsText(st) THEN st.text.resolved ELSE None
           column == CopyColumn(cp, resolved)
           plan == [NoPlan EXCEPT !.phase = "acting", !.guard = StateGuard(st),
                                  !.todo = AsideState(st), !.adopted = IsText(st)]
           d == Chosen(stateOk, copyOk)
<1>1. d = IF column = "unanswered"
            THEN [plan |-> plan, ask |-> cp.text]
          ELSE IF IsText(st) /\ ~st.text.clean
            THEN [plan |-> [plan EXCEPT !.todo = CrashRow(column).todo,
                                        !.guard = CrashRow(column).guard],
                  ask |-> st.text]
          ELSE [plan |-> [plan EXCEPT
                  !.model = IF IsText(st) THEN st.text.screen ELSE Default,
                  !.todo = @ \o Leftover(column),
                  !.carry = IF column = "unread" THEN resolved ELSE None],
                ask |-> Blank]
  BY DEF Chosen, Decide
<1>2. plan \in Plans /\ plan.phase = "acting" /\ plan.todo = AsideState(st)
  <2>1. StateGuard(st) \in {"no", "StateUnreadable", "StateNewer"} BY AsideFirst
  <2>2. AsideState(st) \in Seq(Actions) BY ActionLists DEF AsideState
  <2>3. NoPlan \in Plans /\ IsText(st) \in BOOLEAN
    BY Starts, EmptySeq DEF NoPlan, Plans, IsText
  <2> HIDE DEF st
  <2> QED BY <2>1, <2>2, <2>3 DEF Plans
<1>3. resolved \in Slots BY SeenFacts, Starts
<1>4. /\ IsText(cp) => cp.text \in Texts
      /\ IsText(st) => st.text \in Texts /\ st.text.screen \in Screens
  BY SeenFacts DEF Texts
<1>5. Leftover(column) \in Seq(Actions) BY ActionLists DEF Leftover
<1>6. column = "unanswered" => IsText(cp)
  <2>1. copyOk => cp.kind \in {"missing", "corrupt", "newer", "usable"} BY SeenFacts
  <2>2. ~copyOk => cp.kind = "unread" BY SeenFacts
  <2> QED BY <2>1, <2>2 DEF CopyColumn, IsText
<1>7. column \in {"missing", "corrupt", "newer", "unread", "answered", "unanswered"}
  <2>1. copyOk => cp.kind \in {"missing", "corrupt", "newer", "usable"} BY SeenFacts
  <2>2. ~copyOk => cp.kind = "unread" BY SeenFacts
  <2> QED BY <2>1, <2>2 DEF CopyColumn, IsText
<1> SUFFICES d.plan \in Plans /\ d.plan.phase = "acting" /\ d.ask \in Texts \cup {Blank}
  OBVIOUS
<1> HIDE DEF d, plan, column, resolved, st, cp
<1>8. CASE column = "unanswered"
  BY <1>1, <1>2, <1>4, <1>6, <1>8
<1>9. CASE column # "unanswered" /\ IsText(st) /\ ~st.text.clean
  <2>1. /\ CrashRow(column).todo \in Seq(Actions)
        /\ CrashRow(column).guard \in {"no", "CopyNotWritten"}
    BY <1>7, <1>9, ActionLists DEF CrashRow
  <2>2. /\ d.plan = [plan EXCEPT !.todo = CrashRow(column).todo,
                                 !.guard = CrashRow(column).guard]
        /\ d.ask = st.text
    BY <1>1, <1>9
  <2> QED BY <1>2, <1>4, <1>9, <2>1, <2>2 DEF Plans
<1>10. CASE column # "unanswered" /\ ~(IsText(st) /\ ~st.text.clean)
  <2> DEFINE m == IF IsText(st) THEN st.text.screen ELSE Default
             t == plan.todo \o Leftover(column)
             c == IF column = "unread" THEN resolved ELSE None
  <2>1. m \in Screens /\ c \in Slots BY <1>3, <1>4, Starts
  <2>2. t \in Seq(Actions) BY <1>2, <1>5, ConcatProperties DEF Plans
  <2>3. d.plan = [plan EXCEPT !.model = m, !.todo = t, !.carry = c] /\ d.ask = Blank
    BY <1>1, <1>10
  <2> HIDE DEF m, t, c
  <2> QED BY <1>2, <2>1, <2>2, <2>3 DEF Plans
<1> QED BY <1>8, <1>9, <1>10

(* What a boot's plan may hold, and when. *)
LEMMA PlanOfBoot ==
  ASSUME TypeOK, NEW stateOk \in BOOLEAN, NEW copyOk \in BOOLEAN
  PROVE  LET d == Chosen(stateOk, copyOk)
             todo == d.plan.todo IN
         /\ todo = <<>> \/ todo \in Writes \/ todo \in Removes \/ todo \in Asides \/ todo \in Forgets
         /\ todo \in Writes => AskState(d, stateOk, copyOk) /\ d.plan.guard = "no"
         /\ todo \in Removes => Copy.kind = "corrupt"
         /\ todo \in Forgets => CopyAnswered /\ d.ask = Blank
         /\ d.plan.guard = "no" /\ State.kind = "corrupt" => todo \in Asides
         /\ AskState(d, stateOk, copyOk) /\ d.plan.guard = "no" => todo \in Writes
         /\ AskNothing(d, stateOk, copyOk) /\ copyOk /\ IsText(Copy) => todo \in Forgets
         /\ d.plan.guard = "no" => stateOk
         /\ todo # <<"RemoveUnusable">>
         /\ Copy.kind = "corrupt" => todo # <<"WriteCrashCopy">>
<1> DEFINE d == Chosen(stateOk, copyOk)
           todo == d.plan.todo
           aside == AsideState(StateSeen(stateOk))
<1>1. AskCopy(d, stateOk, copyOk) \/ AskState(d, stateOk, copyOk) \/ AskNothing(d, stateOk, copyOk)
  BY DecideCases
<1>2. /\ aside = IF stateOk /\ State.kind = "corrupt" THEN <<"CopyAsideState">> ELSE <<>>
      /\ StateGuard(StateSeen(stateOk)) = "no" => stateOk
  BY AsideFirst DEF State
<1>3. \A t : t \in Writes => t \notin Removes /\ t \notin Asides /\ t \notin Forgets /\ t # <<>>
  BY PlanSets
<1>4. \A t : t \in Forgets => t \notin Removes /\ t \notin Asides /\ t # <<>>
  BY PlanSets
<1>5. /\ <<"CopyAsideState">> \in Asides \ Removes /\ <<"RemoveAnswered">> \in Forgets
      /\ <<"CopyAsideCrashCopy", "RemoveUnusable">> \in Removes
      /\ <<"CopyAsideState", "CopyAsideCrashCopy", "RemoveUnusable">> \in Removes \cap Asides
      /\ <<>> \notin Writes \cup Removes \cup Asides \cup Forgets
      /\ <<"WriteCrashCopy">> \in Writes
      /\ <<"RemoveUnusable">> \in Removes \ Asides /\ <<"RemoveUnusable">> # <<>>
      /\ <<"CopyAsideCrashCopy", "RemoveUnusable">> # <<"RemoveUnusable">>
  BY PlanSets DEF Asides, Removes, Forgets
<1>6. /\ aside \o <<>> = aside
      /\ aside = <<>> => /\ aside \o <<"RemoveAnswered">> = <<"RemoveAnswered">>
                         /\ aside \o <<"CopyAsideCrashCopy", "RemoveUnusable">> =
                              <<"CopyAsideCrashCopy", "RemoveUnusable">>
      /\ aside = <<"CopyAsideState">> =>
           aside \o <<"CopyAsideCrashCopy", "RemoveUnusable">> =
             <<"CopyAsideState", "CopyAsideCrashCopy", "RemoveUnusable">>
  <2>1. \A t \in Seq(Actions) : t \o <<>> = t /\ <<>> \o t = t BY ConcatEmptySeq
  <2> DEFINE s == <<"CopyAsideState">>
             t == <<"CopyAsideCrashCopy", "RemoveUnusable">>
             u == <<"CopyAsideState", "CopyAsideCrashCopy", "RemoveUnusable">>
  <2>2. s \o t = u
    <3>1. s \in Seq(Actions) /\ t \in Seq(Actions) BY ActionLists
    <3>2. u \in Seq(Actions) BY DEF Actions
    <3>3. /\ Len(s) = 1 /\ Len(t) = 2 /\ Len(u) = 3 /\ u[1] = s[1] /\ u[2] = t[1] /\ u[3] = t[2]
      OBVIOUS
    <3> HIDE DEF s, t, u
    <3>4. /\ s \o t \in Seq(Actions) /\ Len(s \o t) = 3
          /\ \A i \in 1..3 : (s \o t)[i] = IF i <= 1 THEN s[i] ELSE t[i - 1]
      BY <3>1, <3>3, ConcatProperties, SMTT(30)
    <3>5. \A i \in 1..3 : (s \o t)[i] = u[i]
      BY <3>3, <3>4
    <3> QED BY <3>2, <3>3, <3>4, <3>5, SeqEqual, SMTT(30)
  <2>3. /\ aside \in Seq(Actions) /\ aside \o <<>> = aside
        /\ aside = <<>> \/ aside = s
    BY <1>2, <2>1, ActionLists
  <2>4. /\ <<>> \o <<"RemoveAnswered">> = <<"RemoveAnswered">> /\ <<>> \o t = t
    BY <2>1, ActionLists
  <2> HIDE DEF aside
  <2> QED BY <2>2, <2>3, <2>4
<1> SUFFICES
      /\ todo = <<>> \/ todo \in Writes \/ todo \in Removes \/ todo \in Asides \/ todo \in Forgets
      /\ todo \in Writes => AskState(d, stateOk, copyOk) /\ d.plan.guard = "no"
      /\ todo \in Removes => Copy.kind = "corrupt"
      /\ todo \in Forgets => CopyAnswered /\ d.ask = Blank
      /\ d.plan.guard = "no" /\ State.kind = "corrupt" => todo \in Asides
      /\ AskState(d, stateOk, copyOk) /\ d.plan.guard = "no" => todo \in Writes
      /\ AskNothing(d, stateOk, copyOk) /\ copyOk /\ IsText(Copy) => todo \in Forgets
      /\ d.plan.guard = "no" => stateOk
      /\ todo # <<"RemoveUnusable">>
      /\ Copy.kind = "corrupt" => todo # <<"WriteCrashCopy">>
  OBVIOUS
<1> HIDE DEF d, todo, aside
<1>7. ASSUME AskCopy(d, stateOk, copyOk) PROVE
        /\ todo = aside /\ (d.plan.guard = "no" => stateOk)
        /\ ~AskState(d, stateOk, copyOk) /\ ~AskNothing(d, stateOk, copyOk)
  BY <1>2, <1>7 DEF AskCopy, AskState, AskNothing, todo, aside, CopyAnswered, IsText
<1>8. CASE AskCopy(d, stateOk, copyOk)
  BY <1>2, <1>3, <1>4, <1>5, <1>7, <1>8
<1>9. CASE AskState(d, stateOk, copyOk)
  <2>1. stateOk /\ State.kind # "corrupt" /\ ~AskNothing(d, stateOk, copyOk)
    BY <1>9 DEF AskState, AskNothing, IsText
  <2>2. \/ d.plan.guard = "CopyNotWritten" /\ todo = <<>>
        \/ d.plan.guard = "no" /\ todo \in Writes
             /\ (Copy.kind = "corrupt" => todo # <<"WriteCrashCopy">>)
    BY <1>9 DEF AskState, todo
  <2> QED BY <1>3, <1>5, <1>9, <2>1, <2>2
<1>10. CASE AskNothing(d, stateOk, copyOk)
  <2>1. /\ d.plan.guard = "no" => stateOk /\ ~AskState(d, stateOk, copyOk)
        /\ ~AskState(d, stateOk, copyOk) /\ d.ask = Blank
    BY <1>2, <1>10 DEF AskState, AskNothing
  <2>2. CASE copyOk /\ Copy.kind = "corrupt"
             /\ todo = aside \o <<"CopyAsideCrashCopy", "RemoveUnusable">>
    BY <1>2, <1>3, <1>4, <1>5, <1>6, <2>1, <2>2 DEF IsText
  <2>3. CASE copyOk /\ stateOk /\ CopyAnswered /\ todo = aside \o <<"RemoveAnswered">>
    <3>1. State.kind # "corrupt" BY <2>3 DEF CopyAnswered, IsText
    <3>2. todo = <<"RemoveAnswered">> BY <1>2, <1>6, <2>3, <3>1
    <3> QED BY <1>3, <1>4, <1>5, <2>1, <2>3, <3>1, <3>2
  <2>4. CASE (~copyOk \/ Copy.kind \in {"missing", "newer"}) /\ todo = aside \o <<>>
    BY <1>2, <1>3, <1>4, <1>5, <1>6, <2>1, <2>4 DEF IsText
  <2> QED BY <1>10, <2>2, <2>3, <2>4 DEF AskNothing, todo, aside
<1> QED BY <1>1, <1>8, <1>9, <1>10

(* A boot: what is owed is what it asks about, if it could read both files. *)
LEMMA BootKeeps ==
  ASSUME RecoveryInv, NEW stateOk \in BOOLEAN, NEW copyOk \in BOOLEAN, Boot(stateOk, copyOk)
  PROVE  Parts'
<1> USE ScreenAssumption
<1> DEFINE d == Chosen(stateOk, copyOk)
           reads == IF ~stateOk THEN "state" ELSE IF ~copyOk THEN "copy" ELSE "ok"
<1>a. /\ d.plan \in Plans /\ d.plan.phase = "acting" /\ d.ask \in Texts \cup {Blank}
      /\ reads \in {"ok", "state", "copy"}
  BY DecideTypes DEF RecoveryInv
<1>b. /\ boot' = [d.plan EXCEPT !.reads = reads]
      /\ answer' = [phase |-> "none", text |-> d.ask, call |-> "idle"]
      /\ boot.phase = "down" /\ runs < MaxRuns /\ runs' = runs + 1
      /\ UNCHANGED <<disk, ui, saver, inbox, owed, durable>>
  BY DEF Boot, Chosen, StateSeen, CopySeen, NoAnswer
<1>c. AskCopy(d, stateOk, copyOk) \/ AskState(d, stateOk, copyOk) \/ AskNothing(d, stateOk, copyOk)
  BY DecideCases DEF RecoveryInv
<1> DEFINE todo == d.plan.todo
<1>d. /\ todo = <<>> \/ todo \in Writes \/ todo \in Removes \/ todo \in Asides \/ todo \in Forgets
      /\ todo \in Writes => AskState(d, stateOk, copyOk) /\ d.plan.guard = "no"
      /\ todo \in Removes => Copy.kind = "corrupt"
      /\ todo \in Forgets => CopyAnswered /\ d.ask = Blank
      /\ d.plan.guard = "no" /\ State.kind = "corrupt" => todo \in Asides
      /\ AskState(d, stateOk, copyOk) /\ d.plan.guard = "no" => todo \in Writes
      /\ AskNothing(d, stateOk, copyOk) /\ copyOk /\ IsText(Copy) => todo \in Forgets
      /\ d.plan.guard = "no" => stateOk
  BY PlanOfBoot DEF RecoveryInv
<1> HIDE DEF d
<1>1. Typed'
  <2>1. boot' \in Plans BY <1>a, <1>b DEF Plans
  <2>2. answer' \in Answers BY <1>a, <1>b DEF Answers
  <2>3. faults' \in 0..MaxFaults BY DEF RecoveryInv, TypeOK, Boot, Fails, Counted
  <2>4. runs' \in 0..MaxRuns BY <1>b DEF RecoveryInv, TypeOK
  <2> QED BY <1>b, <2>1, <2>2, <2>3, <2>4 DEF RecoveryInv, TypeOK, Typed
<1>2. /\ boot'.phase = "acting" /\ boot'.todo = todo /\ boot'.guard = d.plan.guard
      /\ boot'.carry = d.plan.carry /\ boot'.reads = reads
      /\ answer'.text = d.ask /\ answer'.phase = "none" /\ answer'.call = "idle"
  BY <1>a, <1>b DEF Plans
<1>3. Blank.hash = None BY DEF Blank
<1> HIDE DEF todo
<1>4. /\ saver.pc = "none" /\ inbox = <<>> /\ ~owed.accepted /\ ui.rev <= MaxEdits
  BY <1>b DEF RecoveryInv, Life, Up
<1> USE DEF State, Copy, Asked, Owed, Clear, CopyIs, Up
<1>5. Life' BY <1>2, <1>b, <1>4 DEF Life
<1>6. Requests' BY <1>2, <1>b, <1>4 DEF Requests
<1>7. PlanFits'
  BY <1>2, <1>b, <1>d, <1>3
  DEF PlanFits, ToWrite, ToRemove, ToAside, ToForget, AskState, CopyAnswered, IsText
<1>8. NotItsOwn' BY <1>b DEF RecoveryInv, NotItsOwn, IsText
<1>9. OwedIsKept'
  <2>1. Owed # None => Outstanding = Owed BY DEF RecoveryInv, OwedIsKept
  <2>2. d.plan.guard = "no" /\ todo \notin Writes /\ Owed # None => CopyIs(Owed)
    BY <1>c, <1>d, <2>1 DEF AskCopy, AskNothing, Outstanding, CopyAnswered
  <2>3. d.plan.guard = "no" /\ todo \notin Writes /\ d.ask.hash # None /\ IsText(Copy) =>
          CopyIs(d.ask.hash)
    BY <1>c, <1>d, <1>3 DEF AskCopy, AskNothing
  <2>4. d.plan.carry # None => d.plan.carry # Owed
    BY <1>c, <2>1 DEF RecoveryInv, NotItsOwn, AskCopy, AskState, AskNothing, Outstanding
  <2> QED BY <1>2, <1>b, <2>1, <2>2, <2>3, <2>4 DEF OwedIsKept, ToWrite, Outstanding, IsText
<1>10. OwedIsAsked'
  <2>1. Owed # None => Outstanding = Owed BY DEF RecoveryInv, OwedIsKept
  <2>2. stateOk /\ copyOk /\ Owed # None => d.ask.hash = Owed
    BY <1>c, <2>1 DEF AskCopy, AskState, AskNothing, Outstanding, CopyAnswered
  <2> QED BY <1>2, <1>b, <1>4, <2>2 DEF OwedIsAsked
<1>11. DurableStays'
  <2>1. /\ IsText(Copy) /\ Copy.text.hash \in durable => CopyAnswered
        /\ IsText(State) => State.text.hash \notin durable
        /\ None \notin durable
    BY Starts DEF RecoveryInv, TypeOK, DurableStays
  <2>2. d.plan.guard = "no" /\ todo \notin Writes /\ todo \notin Forgets /\ IsText(Copy)
          /\ Copy.text.hash \in durable => d.plan.carry = Copy.text.hash
    BY <1>c, <1>d, <2>1 DEF AskCopy, AskNothing, CopyAnswered
  <2>3. d.ask.hash \in durable => ~stateOk
    BY <1>c, <1>3, <2>1 DEF AskCopy, AskState, AskNothing
  <2> QED BY <1>2, <1>b, <1>d, <1>4, <2>1, <2>2, <2>3
          DEF DurableStays, ToWrite, ToForget, Slot, CopyAnswered, IsText
<1>12. AnswersCounted'
  <2>1. IsFiniteSet(durable) /\ Cardinality(durable) <= runs
    BY DEF RecoveryInv, AnswersCounted
  <2>2. Cardinality(durable) \in Nat BY <2>1, FS_CardinalityType
  <2>3. runs \in Nat BY DEF RecoveryInv, TypeOK
  <2> QED BY <1>b, <2>1, <2>2, <2>3 DEF AnswersCounted
<1> QED BY <1>1, <1>5, <1>6, <1>7, <1>8, <1>9, <1>10, <1>11, <1>12 DEF Parts

-----------------------------------------------------------------------------
(* The invariant, and what follows from it.                                *)

(* A first start meets the invariant: nothing is asked, owed or durable. *)
LEMMA InitHolds == Init => RecoveryInv
<1> SUFFICES ASSUME Init PROVE RecoveryInv OBVIOUS
<1> USE ScreenAssumption
<1>1. Blank.hash = None /\ Blank.resolved = None /\ Blank.screen = Default BY DEF Blank
<1> DEFINE first == [Blank EXCEPT !.hash = 1, !.clean = TRUE]
<1>2. first \in Texts /\ first.clean = TRUE /\ first.resolved = None /\ first.hash = 1
  <2>1. 1 \in Hashes BY DEF Hashes
  <2>2. Blank \in [screen : Screens, clean : BOOLEAN, resolved : Slots, hash : Slots]
    BY Starts DEF Blank
  <2>3. first.clean = TRUE /\ first.hash = 1 /\ first.resolved = Blank.resolved BY <2>2
  <2>4. first \in [screen : Screens, clean : BOOLEAN, resolved : Slots, hash : Hashes]
    BY <2>1, <2>2
  <2> QED BY <1>1, <2>3, <2>4 DEF Texts, Slots
<1>3. PICK s \in {File("missing"), File("corrupt"), File("newer"), Usable(first)},
           c \in {File("missing"), File("corrupt"), File("newer")} :
           disk = [state |-> s, copy |-> c, aside |-> {}]
  BY DEF Init
<1>4. /\ c \in Files /\ c.kind # "usable"
  BY <1>3 DEF File, Files
<1>5. /\ s \in Files
      /\ s.kind = "usable" => s.text = first
  BY <1>2, <1>3 DEF File, Files, Usable
<1>6. /\ disk \in Disks /\ disk.copy.kind # "usable"
      /\ disk.state.kind = "usable" => disk.state.text = first
  BY <1>3, <1>4, <1>5 DEF Disks
<1> HIDE DEF first
<1>7. /\ boot = NoPlan /\ ui = NoUi /\ answer = NoAnswer /\ saver = NoSaver /\ inbox = <<>>
      /\ owed = NotOwed /\ durable = {} /\ runs = 0 /\ faults = 0
  BY DEF Init
<1>8. Typed
  <2>1. boot \in Plans BY <1>7, Starts, EmptySeq DEF NoPlan, Plans
  <2>2. ui \in [screen : Screens, rev : Revisions] BY <1>7, Starts DEF NoUi
  <2>3. answer \in Answers BY <1>7 DEF NoAnswer, Answers
  <2>4. saver \in Recorders BY <1>7, Starts DEF NoSaver, Recorders
  <2>5. inbox \in Seq(Letters) BY <1>7, EmptySeq
  <2>6. owed \in [hash : Slots, accepted : BOOLEAN] BY <1>7, Starts DEF NotOwed
  <2>7. durable \subseteq Hashes /\ runs \in 0..MaxRuns /\ faults \in 0..MaxFaults BY <1>7
  <2> QED BY <1>6, <2>1, <2>2, <2>3, <2>4, <2>5, <2>6, <2>7 DEF Typed
<1>9. Hashes \ HashesInUse # {}
  <2>1. /\ saver.resolved = None /\ boot.carry = None /\ owed.hash = None
        /\ answer.text.hash = None /\ answer.text.resolved = None
        /\ durable = {} /\ DOMAIN inbox = {}
    BY <1>1, <1>7 DEF NoSaver, NoPlan, NotOwed, NoAnswer
  <2>2. disk.state.text \in {Blank, first} /\ disk.copy.text = Blank
    BY <1>6 DEF Disks, Files
  <2>3. HashesInUse \subseteq {None, 1}
    BY <1>1, <1>2, <2>1, <2>2 DEF HashesInUse
  <2>4. 2 \in Hashes /\ 2 \notin {None, 1} BY DEF Hashes, None
  <2> QED BY <2>3, <2>4
<1>10. TypeOK BY <1>8, <1>9 DEF TypeOK, Typed
<1>11. /\ boot.phase = "down" /\ saver.pc = "none" /\ ~owed.accepted /\ owed.hash = None
       /\ answer.phase = "none" /\ answer.call = "idle" /\ Asked = None /\ ui.rev = 0
       /\ boot.carry = None
  BY <1>1, <1>7 DEF NoPlan, NoSaver, NotOwed, NoAnswer, NoUi, Asked
<1>12. Life /\ Requests /\ PlanFits
  BY <1>7, <1>11 DEF Life, Requests, PlanFits, Up
<1>13. NotItsOwn BY <1>2, <1>6 DEF NotItsOwn, IsText, State, None
<1>14. OwedIsKept /\ OwedIsAsked
  BY <1>11 DEF OwedIsKept, OwedIsAsked, Up, Owed
<1>15. DurableStays
  BY <1>7, <1>11 DEF DurableStays
<1>16. AnswersCounted
  BY <1>7, <1>11, FS_EmptySet DEF AnswersCounted
<1> QED BY <1>10, <1>12, <1>13, <1>14, <1>15, <1>16 DEF RecoveryInv

(* One step of a process keeps the parts. *)
LEMMA NextKeeps ==
  ASSUME RecoveryInv, Next
  PROVE  Parts'
<1>1. CASE BootStep
  BY <1>1, BootKeeps, MarkerKeeps, AsideStateKeeps, AsideCopyKeeps, RemoveKeeps, CopyKeeps,
     ForgetKeeps
  DEF BootStep
<1>2. CASE User
  BY <1>2, AcceptKeeps, DeclineKeeps, ShutdownKeeps, EditKeeps DEF User
<1>3. CASE StartSaver \/ ResolveCrashCopy \/ AnswerTimesOut \/ End
  BY <1>3, StartKeeps, ResolveKeeps, TimesOutKeeps, EndKeeps
<1>4. CASE \E due \in BOOLEAN : Tick(due) BY <1>4, TickKeeps
<1>5. CASE SaverStep
  BY <1>5, TakeKeeps, SnapshotKeeps, SnapshotFailsKeeps, SaveKeeps, DropKeeps, SaveFailsKeeps
  DEF SaverStep
<1> QED BY <1>1, <1>2, <1>3, <1>4, <1>5 DEF Next

(* Every step keeps the invariant, hashes left to draw from included. *)
LEMMA StepHolds == RecoveryInv /\ [Next]_vars => RecoveryInv'
<1>1. ASSUME RecoveryInv, Next PROVE RecoveryInv'
  <2>1. Parts' BY <1>1, NextKeeps
  <2>2. (Hashes \ HashesInUse)' # {} BY <2>1, RoomStays
  <2>3. TypeOK' BY <2>1, <2>2 DEF Parts, Typed, TypeOK
  <2> QED BY <2>1, <2>3 DEF Parts, RecoveryInv
<1>2. ASSUME RecoveryInv, UNCHANGED vars PROVE RecoveryInv'
  <2>1. /\ disk' = disk /\ boot' = boot /\ ui' = ui /\ answer' = answer /\ saver' = saver
        /\ inbox' = inbox /\ owed' = owed /\ durable' = durable /\ runs' = runs
        /\ faults' = faults
    BY <1>2 DEF vars
  <2>2. TypeOK' BY <1>2, <2>1 DEF RecoveryInv, TypeOK, HashesInUse
  <2>3. Life' /\ Requests' /\ NotItsOwn' /\ AnswersCounted'
    BY <1>2, <2>1
    DEF RecoveryInv, Life, Requests, NotItsOwn, AnswersCounted, Up, Clear, Asked, State, IsText
  <2>4. PlanFits'
    BY <1>2, <2>1
    DEF RecoveryInv, PlanFits, ToWrite, ToRemove, ToAside, ToForget, Clear, Asked, State, Copy,
        IsText, CopyAnswered
  <2>5. OwedIsKept' /\ OwedIsAsked'
    BY <1>2, <2>1
    DEF RecoveryInv, OwedIsKept, OwedIsAsked, Outstanding, Clear, ToWrite, Owed, Asked, CopyIs,
        Copy, IsText, Up
  <2>6. DurableStays'
    BY <1>2, <2>1
    DEF RecoveryInv, DurableStays, CopyAnswered, State, Copy, IsText, Clear, ToWrite, ToForget,
        Slot, Asked
  <2> QED BY <2>2, <2>3, <2>4, <2>5, <2>6 DEF RecoveryInv
<1> QED BY <1>1, <1>2

(* The invariant of a saved screen's life, through every crash, failing    *)
(* read and failing write of boot.rs, saver.rs and restore.rs.             *)
THEOREM RecoveryIsInvariant == Spec => []RecoveryInv
BY InitHolds, StepHolds, PTL DEF Spec

(* The text the next boot would ask about is on the disk. *)
LEMMA OwedIsOnDisk == RecoveryInv => NoScreenIsLost
<1> SUFFICES ASSUME RecoveryInv PROVE NoScreenIsLost OBVIOUS
<1>1. TypeOK BY DEF RecoveryInv
<1>2. CrashedScreenIsKept
  BY DEF RecoveryInv, OwedIsKept, Outstanding, CrashedScreenIsKept, Owed
<1>3. CrashedScreenIsOffered
  BY DEF RecoveryInv, OwedIsAsked, CrashedScreenIsOffered, Owed, Asked, Up
<1> QED BY <1>1, <1>2, <1>3 DEF NoScreenIsLost

(* The screen of a run that did not exit is on the disk until the user has *)
(* settled it, and every boot that reads both files asks for it            *)
(* (decide_boot, run_actions, write_run_marker, save), for any number of   *)
(* runs, edits and failing file operations.                                *)
THEOREM ScreensAreKept == Spec => []NoScreenIsLost
BY RecoveryIsInvariant, OwedIsOnDisk, PTL

(* An answer reported Durable (resolve_crash_copy) is never asked for      *)
(* again by a boot that could read state.json.                             *)
THEOREM DurableAnswersAreFinal == Spec => []DurableAnswerIsFinal
<1>1. RecoveryInv => DurableAnswerIsFinal
  BY DEF RecoveryInv, DurableStays, DurableAnswerIsFinal, Asked
<1> QED BY <1>1, RecoveryIsInvariant, PTL

(* What a step may do to a file of another version, or to one it cannot    *)
(* read.                                                                   *)
OriginalsStep ==
  /\ disk.state.kind = "newer" => disk'.state = disk.state
  /\ disk.copy.kind = "newer" => disk'.copy = disk.copy
  /\ disk.state.kind = "corrupt" /\ disk'.state # disk.state =>
       "state" \in disk'.aside \/ boot'.asideTried
  /\ disk.copy.kind = "corrupt" /\ disk'.copy # disk.copy =>
       "copy" \in disk.aside \/ (IsText(disk'.copy) /\ boot.copyTried)

(* A plan about to remove a copy has set it aside, and one about to write  *)
(* over a damaged copy has tried to.                                       *)
CopySpared ==
  boot.phase = "acting" =>
    /\ boot.todo = <<"RemoveUnusable">> => "copy" \in disk.aside
    /\ boot.todo = <<"WriteCrashCopy">> /\ disk.copy.kind = "corrupt" => boot.copyTried

(* Every step keeps that: a plan begins with the set-aside (decide_boot),  *)
(* and one whose set-aside failed goes on only to replace (run_actions).   *)
LEMMA SparedKeeps == RecoveryInv /\ CopySpared /\ [Next]_vars => CopySpared'
<1> SUFFICES ASSUME RecoveryInv, CopySpared, [Next]_vars PROVE CopySpared' OBVIOUS
<1> USE DEF CopySpared
<1>0. disk \in Disks /\ boot \in Plans /\ PlanFits /\ Life BY DEF RecoveryInv, TypeOK
<1>1. ASSUME NEW stateOk \in BOOLEAN, NEW copyOk \in BOOLEAN, Boot(stateOk, copyOk)
      PROVE  CopySpared'
  <2> DEFINE d == Chosen(stateOk, copyOk)
             reads == IF ~stateOk THEN "state" ELSE IF ~copyOk THEN "copy" ELSE "ok"
  <2>1. boot' = [d.plan EXCEPT !.reads = reads] /\ disk' = disk
    BY <1>1 DEF Boot, Chosen, StateSeen, CopySeen
  <2>2. d.plan \in Plans BY DecideTypes DEF RecoveryInv
  <2>3. /\ d.plan.todo # <<"RemoveUnusable">>
        /\ Copy.kind = "corrupt" => d.plan.todo # <<"WriteCrashCopy">>
    BY PlanOfBoot DEF RecoveryInv
  <2> HIDE DEF d, reads
  <2>4. boot'.todo = d.plan.todo BY <2>1, <2>2 DEF Plans
  <2> QED BY <2>1, <2>3, <2>4 DEF Copy
<1>2. ASSUME NEW ok \in BOOLEAN, CopyAsideState(ok) PROVE CopySpared'
  <2>1. boot'.todo = Tail(boot.todo) BY <1>0, <1>2 DEF CopyAsideState, Plans
  <2>2. boot'.todo = <<>> \/ boot'.todo = <<"CopyAsideCrashCopy", "RemoveUnusable">>
    BY <1>0, <1>2, <2>1, PlanTails DEF CopyAsideState, Acting
  <2> QED BY <2>2
<1>3. ASSUME NEW ok \in BOOLEAN, CopyAsideCrashCopy(ok) PROVE CopySpared'
  <2>1. /\ boot'.copyTried
        /\ boot'.todo = IF ok \/ Tail(boot.todo) # <<"RemoveUnusable">>
                          THEN Tail(boot.todo) ELSE <<>>
        /\ ok => "copy" \in disk'.aside
    BY <1>0, <1>3 DEF CopyAsideCrashCopy, Plans, Disks
  <2> QED BY <2>1
<1>4. ASSUME NEW ok \in BOOLEAN,
             RemoveUnusable(ok) \/ WriteCrashCopy(ok) \/ RemoveAnswered(ok)
      PROVE  CopySpared'
  <2>1. boot'.todo = Tail(boot.todo)
    BY <1>0, <1>4 DEF RemoveUnusable, WriteCrashCopy, RemoveAnswered, Plans
  <2>2. Tail(boot.todo) = <<>>
    BY <1>0, <1>4, PlanTails DEF RemoveUnusable, WriteCrashCopy, RemoveAnswered, Acting
  <2> QED BY <2>1, <2>2
<1>5. ASSUME NEW readOk \in BOOLEAN, NEW writeOk \in BOOLEAN, Marker(readOk, writeOk)
      PROVE  CopySpared'
  <2>1. boot'.phase = "up" BY <1>0, <1>5 DEF Marker, Plans
  <2> QED BY <2>1
<1>6. CASE SaverStep
  <2>1. Up /\ boot'.phase = boot.phase
    BY <1>0, <1>6
    DEF SaverStep, TakeRequest, Snapshot, SnapshotFails, SaveWrites, DropAnsweredCopy, SaveFails,
        Life, Plans
  <2> QED BY <2>1 DEF Up
<1>7. CASE End BY <1>7 DEF End, NoPlan
<1>8. CASE User \/ StartSaver \/ ResolveCrashCopy \/ AnswerTimesOut
           \/ (\E due \in BOOLEAN : Tick(due)) \/ UNCHANGED vars
  <2>1. disk' = disk /\ boot' = boot
    BY <1>8 DEF User, Accept, Decline, Shutdown, Edit, StartSaver, ResolveCrashCopy,
                AnswerTimesOut, Tick, vars
  <2> QED BY <2>1
<1> QED BY <1>1, <1>2, <1>3, <1>4, <1>5, <1>6, <1>7, <1>8 DEF Next, BootStep

(* A step of the boot stage. *)
LEMMA BootSpares == ASSUME RecoveryInv, CopySpared, BootStep PROVE OriginalsStep
<1> USE DEF OriginalsStep
<1>0. disk \in Disks /\ boot \in Plans BY DEF RecoveryInv, TypeOK
<1>1. ASSUME NEW ok \in BOOLEAN,
             CopyAsideState(ok) \/ CopyAsideCrashCopy(ok)
      PROVE  OriginalsStep
  BY <1>0, <1>1 DEF CopyAsideState, CopyAsideCrashCopy, Disks
<1>2. ASSUME NEW ok \in BOOLEAN,
             RemoveUnusable(ok) \/ WriteCrashCopy(ok) \/ RemoveAnswered(ok)
      PROVE  OriginalsStep
  <2>1. disk'.state = disk.state
    BY <1>0, <1>2 DEF RemoveUnusable, WriteCrashCopy, RemoveAnswered, Disks
  <2>2. boot.phase = "acting" /\ boot.todo # <<>> /\ PlanFits
    BY <1>2 DEF RemoveUnusable, WriteCrashCopy, RemoveAnswered, Acting, RecoveryInv
  <2>3. Head(boot.todo) \in {"RemoveUnusable", "WriteCrashCopy", "RemoveAnswered"}
    BY <1>2 DEF RemoveUnusable, WriteCrashCopy, RemoveAnswered, Acting
  <2>4. ToRemove \/ ToWrite \/ ToForget BY <2>2, <2>3, PlanTails
  <2>5. disk.copy.kind # "newer"
    BY <2>2, <2>4 DEF PlanFits, Copy, CopyAnswered, IsText
  <2>6. ASSUME disk.copy.kind = "corrupt", disk'.copy # disk.copy
        PROVE  "copy" \in disk.aside \/ (IsText(disk'.copy) /\ boot.copyTried)
    <3>1. CASE RemoveUnusable(ok)
      <4>1. boot.todo = <<"RemoveUnusable">>
        BY <2>2, <3>1, PlanTails DEF RemoveUnusable, Acting
      <4> QED BY <2>2, <4>1 DEF CopySpared
    <3>2. CASE WriteCrashCopy(ok)
      <4>1. boot.todo = <<"WriteCrashCopy">>
        BY <2>2, <3>2, PlanTails DEF WriteCrashCopy, Acting
      <4>2. boot.copyTried BY <2>2, <2>6, <4>1 DEF CopySpared
      <4>3. disk'.copy = Usable(answer.text)
        BY <1>0, <2>6, <3>2 DEF WriteCrashCopy, Disks
      <4> QED BY <4>2, <4>3 DEF Usable, IsText
    <3>3. CASE RemoveAnswered(ok)
      <4>1. ToForget BY <2>2, <3>3, PlanTails DEF RemoveAnswered, Acting
      <4> QED BY <2>2, <2>6, <4>1 DEF PlanFits, CopyAnswered, Copy, IsText
    <3> QED BY <1>2, <3>1, <3>2, <3>3
  <2> QED BY <2>1, <2>5, <2>6
<1>3. ASSUME NEW stateOk \in BOOLEAN, NEW copyOk \in BOOLEAN, Boot(stateOk, copyOk)
      PROVE  OriginalsStep
  BY <1>3 DEF Boot
<1>4. ASSUME NEW readOk \in BOOLEAN, NEW writeOk \in BOOLEAN, Marker(readOk, writeOk)
      PROVE  OriginalsStep
  <2>1. boot.phase = "acting" /\ boot.todo = <<>> BY <1>4 DEF Marker
  <2>2. disk'.copy = disk.copy /\ boot'.asideTried = boot.asideTried
    BY <1>0, <1>4 DEF Marker, Disks, Plans
  <2>3. disk'.state # disk.state =>
          boot.guard = "no" /\ MarkerPolicy(readOk) # "Refuse"
    BY <1>4 DEF Marker
  <2>4. disk.state.kind = "newer" => MarkerPolicy(readOk) = "Refuse"
    BY DEF MarkerPolicy, WritePolicy, File
  <2>5. boot.guard = "no" /\ disk.state.kind = "corrupt" => boot.asideTried
    BY <2>1, PlansDiffer DEF RecoveryInv, PlanFits, Clear, State
  <2> QED BY <2>2, <2>3, <2>4, <2>5
<1> QED BY <1>1, <1>2, <1>3, <1>4 DEF BootStep

(* A step of the recorder. *)
LEMMA RecorderSpares == ASSUME RecoveryInv, SaverStep PROVE OriginalsStep
<1> USE DEF OriginalsStep
<1>0. disk \in Disks /\ boot \in Plans BY DEF RecoveryInv, TypeOK
<1>1. CASE TakeRequest \/ Snapshot \/ SnapshotFails
  BY <1>1 DEF TakeRequest, Snapshot, SnapshotFails
<1>2. ASSUME NEW ok \in BOOLEAN, SaveWrites(ok) PROVE OriginalsStep
  <2>1. disk'.copy = disk.copy BY <1>0, <1>2 DEF SaveWrites, Disks
  <2>2. /\ disk.state.kind # "newer"
        /\ disk.state.kind = "corrupt" => JudgeState(TRUE) = "CopyAsideFirst"
    BY <1>2 DEF SaveWrites, JudgeState, WritePolicy
  <2>3. JudgeState(TRUE) = "CopyAsideFirst" => boot'.asideTried
    BY <1>0, <1>2 DEF SaveWrites, Plans
  <2> QED BY <2>1, <2>2, <2>3
<1>3. ASSUME NEW ok \in BOOLEAN, DropAnsweredCopy(ok) PROVE OriginalsStep
  BY <1>0, <1>3 DEF DropAnsweredCopy, Disks, IsText
<1>4. ASSUME NEW readOk \in BOOLEAN, NEW writeOk \in BOOLEAN, SaveFails(readOk, writeOk)
      PROVE  OriginalsStep
  BY <1>4 DEF SaveFails
<1> QED BY <1>1, <1>2, <1>3, <1>4 DEF SaverStep

(* A newer version's file is never replaced or removed; a damaged state    *)
(* file is replaced only after it was set aside or this run tried to       *)
(* (Loaded::write_policy, judge_state); a damaged crash copy is replaced   *)
(* by another only after the same, and removed only after it was set aside *)
(* (decide_boot, run_actions).                                             *)
THEOREM OriginalsAreKept == Spec => OriginalsSurvive
<1>1. ASSUME RecoveryInv, CopySpared, [Next]_vars PROVE [OriginalsStep]_vars
  <2>1. CASE BootStep BY <1>1, <2>1, BootSpares
  <2>2. CASE SaverStep BY <1>1, <2>2, RecorderSpares
  <2>3. CASE User \/ StartSaver \/ ResolveCrashCopy \/ AnswerTimesOut
             \/ (\E due \in BOOLEAN : Tick(due)) \/ End
    BY <2>3
    DEF User, Accept, Decline, Shutdown, Edit, StartSaver, ResolveCrashCopy, AnswerTimesOut, Tick,
        End, OriginalsStep
  <2> QED BY <1>1, <2>1, <2>2, <2>3 DEF Next
<1>2. Init => CopySpared BY DEF Init, CopySpared, NoPlan
<1>3. Spec => [][OriginalsStep]_vars
  BY <1>1, <1>2, SparedKeeps, RecoveryIsInvariant, PTL DEF Spec
<1> QED BY <1>3 DEF OriginalsSurvive, OriginalsStep
=============================================================================
