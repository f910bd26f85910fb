--------------------------- MODULE StateRecovery ---------------------------
(***************************************************************************)
(* The shell's saved screen: the boot stage, the recorder thread and the   *)
(* answer to "restore the screen of the run that crashed?", over the two   *)
(* files they share, state.json and its crash copy state.crash.json.       *)
(* Source: src-tauri/src/state/{boot,saver,restore,boot_plugin}.rs and the *)
(* write policy of the base crate's file.rs.                               *)
(*                                                                         *)
(* The process may end between any two steps, and any file operation may   *)
(* fail (the budget `faults`).  A file's text is a record; `hash` stands   *)
(* for codec::crash_copy_hash of the text.  One process runs at a time     *)
(* (lock.rs): a process that ends takes its recorder with it, so a missed  *)
(* REPLY_DEADLINE of the clean exit is an end of the process while the     *)
(* recorder works.                                                         *)
(***************************************************************************)
EXTENDS Naturals, Sequences, FiniteSets

CONSTANTS
  Screens,     \* layouts a user can arrange
  Default,     \* the layout of an empty ViewManager
  MaxRuns,     \* bound on processes started
  MaxEdits,    \* bound on changes of the layout in one process
  MaxFaults    \* bound on failing file operations

ASSUME ScreenAssumption ==
  /\ Default \in Screens
  /\ {MaxRuns, MaxEdits, MaxFaults} \subseteq Nat

None == 0

\* More than can be in use at once: one per answered run, and those the
\* places listed in HashesInUse hold.
Hashes == 1..(MaxRuns + 10)

Texts == [screen : Screens, clean : BOOLEAN, resolved : Hashes \cup {None},
          hash : Hashes]
Blank == [screen |-> Default, clean |-> FALSE, resolved |-> None, hash |-> None]

\* What a read finds: StateRead / file::Loaded.  "unread" is an I/O failure.
File(kind) == [kind |-> kind, text |-> Blank]
Usable(t) == [kind |-> "usable", text |-> t]
IsText(f) == f.kind = "usable"

VARIABLES
  disk,     \* state.json, state.crash.json, and what was set aside as .corrupt
  boot,     \* the boot stage: phase and BootPlan; history: which file this run
            \* tried to set aside (asideTried, copyTried)
  ui,       \* ViewManager: layout and its change number
  answer,   \* RestoreService's phase and the caller of `answer`
  saver,    \* the recorder thread
  inbox,    \* requests sent to it
  owed,     \* history: the crashed run's screen the user has not settled
  durable,  \* history: hashes whose answer was reported Durable
  runs, faults

vars == <<disk, boot, ui, answer, saver, inbox, owed, durable, runs, faults>>

NoPlan == [phase |-> "down", model |-> Default, todo |-> <<>>, guard |-> "no",
           carry |-> None, asideTried |-> FALSE, copyTried |-> FALSE, adopted |-> FALSE,
           reads |-> "ok"]
NoUi == [screen |-> Default, rev |-> 0]
NoAnswer == [phase |-> "none", text |-> Blank, call |-> "idle"]
NoSaver == [pc |-> "none", cause |-> "Periodic", rev |-> 0, snap |-> Default,
            covers |-> FALSE, seen |-> 0, pending |-> FALSE, resolved |-> None,
            adopted |-> FALSE]
NotOwed == [hash |-> None, accepted |-> FALSE]

\* The file kinds a boot can meet: written by this version (usable), by a
\* newer one, damaged, or absent.
Init ==
  /\ \E s \in {File("missing"), File("corrupt"), File("newer"),
               Usable([Blank EXCEPT !.hash = 1, !.clean = TRUE])},
        c \in {File("missing"), File("corrupt"), File("newer")} :
       disk = [state |-> s, copy |-> c, aside |-> {}]
  /\ boot = NoPlan /\ ui = NoUi /\ answer = NoAnswer
  /\ saver = NoSaver /\ inbox = <<>>
  /\ owed = NotOwed /\ durable = {}
  /\ runs = 0 /\ faults = 0

-----------------------------------------------------------------------------
(* Files.                                                                  *)

\* A file operation succeeds, or fails while the budget lasts.
Operation(ok) == ok \/ faults < MaxFaults
Fails(n) == faults' = faults + n
Counted(ok) == IF ok THEN 0 ELSE 1

HashesInUse ==
  {disk.state.text.hash, disk.copy.text.hash, disk.state.text.resolved,
   disk.copy.text.resolved, answer.text.hash, answer.text.resolved,
   saver.resolved, boot.carry, owed.hash} \cup durable
  \cup {inbox[i].hash : i \in DOMAIN inbox}

\* saved_at_ms makes every text written a new one: its hash is not in use.
Fresh == CHOOSE h \in Hashes : h \notin HashesInUse

Written(screen, clean, resolved) ==
  Usable([screen |-> screen, clean |-> clean, resolved |-> resolved, hash |-> Fresh])

\* Loaded::write_policy.
WritePolicy(f, adopted) ==
  CASE f.kind = "missing"          -> "Write"
    [] f.kind = "usable"           -> IF adopted THEN "Write" ELSE "CopyAsideFirst"
    [] f.kind = "corrupt"          -> "CopyAsideFirst"
    [] f.kind \in {"newer", "unread"} -> "Refuse"

-----------------------------------------------------------------------------
(* The boot stage.                                                         *)

\* CopyColumn::of: a usable copy the state file does not name is unanswered.
CopyColumn(cp, resolved) ==
  IF ~IsText(cp) THEN cp.kind
  ELSE IF cp.text.hash = resolved THEN "answered" ELSE "unanswered"

\* Mutant of CrashRow: a newer version's copy is replaced.
CrashRowReplacing(column) ==
  CASE column = "newer"   -> [todo |-> <<"WriteCrashCopy">>, guard |-> "no"]
    [] column = "unread"  -> [todo |-> <<>>, guard |-> "CopyNotWritten"]
    [] column = "corrupt" -> [todo |-> <<"CopyAsideCrashCopy", "WriteCrashCopy">>,
                              guard |-> "no"]
    [] column \in {"missing", "answered"} ->
         [todo |-> <<"WriteCrashCopy">>, guard |-> "no"]

\* The row of decide_boot for a state file left by a run that did not exit:
\* ask with its text, and copy it before the run marker takes its place.
CrashRow(column) ==
  CASE column = "newer"   -> [todo |-> <<>>, guard |-> "CopyNotWritten"]
    [] column = "unread"  -> [todo |-> <<>>, guard |-> "CopyNotWritten"]
    [] column = "corrupt" -> [todo |-> <<"CopyAsideCrashCopy", "WriteCrashCopy">>,
                              guard |-> "no"]
    [] column \in {"missing", "answered"} ->
         [todo |-> <<"WriteCrashCopy">>, guard |-> "no"]

\* Mutant of Leftover: an unusable copy is removed, not set aside first.
LeftoverRemoving(column) ==
  CASE column = "corrupt"  -> <<"RemoveUnusable">>
    [] column = "answered" -> <<"RemoveAnswered">>
    [] OTHER               -> <<>>

\* The copies decide_boot clears when nothing is asked.
Leftover(column) ==
  CASE column = "corrupt"  -> <<"CopyAsideCrashCopy", "RemoveUnusable">>
    [] column = "answered" -> <<"RemoveAnswered">>
    [] OTHER               -> <<>>

StateGuard(st) ==
  CASE st.kind = "unread" -> "StateUnreadable"
    [] st.kind = "newer"  -> "StateNewer"
    [] OTHER              -> "no"

AsideState(st) == IF st.kind = "corrupt" THEN <<"CopyAsideState">> ELSE <<>>

\* decide_boot: the plan and the text to ask about (None: do not ask).
Decide(st, cp) ==
  LET resolved == IF IsText(st) THEN st.text.resolved ELSE None
      column == CopyColumn(cp, resolved)
      plan == [NoPlan EXCEPT !.phase = "acting", !.guard = StateGuard(st),
                             !.todo = AsideState(st), !.adopted = IsText(st)]
  IN IF column = "unanswered"
       THEN [plan |-> plan, ask |-> cp.text]
     ELSE IF IsText(st) /\ ~st.text.clean
       THEN [plan |-> [plan EXCEPT !.todo = CrashRow(column).todo,
                                   !.guard = CrashRow(column).guard],
             ask |-> st.text]
     ELSE [plan |-> [plan EXCEPT
             !.model = IF IsText(st) THEN st.text.screen ELSE Default,
             !.todo = @ \o Leftover(column),
             !.carry = IF column = "unread" THEN resolved ELSE None],
           ask |-> Blank]

\* prepare: read both files and decide.
Boot(stateOk, copyOk) ==
  /\ boot.phase = "down" /\ runs < MaxRuns
  /\ faults + Counted(stateOk) + Counted(copyOk) <= MaxFaults
  /\ LET d == Decide(IF stateOk THEN disk.state ELSE File("unread"),
                     IF copyOk THEN disk.copy ELSE File("unread"))
     IN /\ boot' = [d.plan EXCEPT !.reads =
                      IF ~stateOk THEN "state" ELSE IF ~copyOk THEN "copy" ELSE "ok"]
        /\ answer' = [NoAnswer EXCEPT !.text = d.ask]
  /\ runs' = runs + 1 /\ Fails(Counted(stateOk) + Counted(copyOk))
  /\ UNCHANGED <<disk, ui, saver, inbox, owed, durable>>

\* run_actions: the head of the plan's actions.
Acting(action) ==
  /\ boot.phase = "acting" /\ boot.todo # <<>> /\ Head(boot.todo) = action
  /\ UNCHANGED <<ui, answer, saver, inbox, owed, durable, runs>>

CopyAsideState(ok) ==
  /\ Acting("CopyAsideState") /\ Operation(ok)
  /\ disk' = IF ok THEN [disk EXCEPT !.aside = @ \cup {"state"}] ELSE disk
  /\ boot' = [boot EXCEPT !.todo = Tail(@), !.asideTried = TRUE]
  /\ Fails(Counted(ok))

\* Mutant of CopyAsideCrashCopy: the plan goes on whatever came of it.
CopyAsideGoingOn(ok) ==
  /\ Acting("CopyAsideCrashCopy") /\ Operation(ok)
  /\ disk' = IF ok THEN [disk EXCEPT !.aside = @ \cup {"copy"}] ELSE disk
  /\ boot' = [boot EXCEPT !.todo = Tail(@), !.copyTried = TRUE]
  /\ Fails(Counted(ok))

\* An unusable copy that could not be set aside is not removed, but it is
\* replaced when this boot has a new copy to write.
CopyAsideCrashCopy(ok) ==
  /\ Acting("CopyAsideCrashCopy") /\ Operation(ok)
  /\ disk' = IF ok THEN [disk EXCEPT !.aside = @ \cup {"copy"}] ELSE disk
  /\ boot' = [boot EXCEPT
       !.todo = IF ok \/ Tail(@) # <<"RemoveUnusable">> THEN Tail(@) ELSE <<>>,
       !.copyTried = TRUE]
  /\ Fails(Counted(ok))

RemoveUnusable(ok) ==
  /\ Acting("RemoveUnusable") /\ Operation(ok)
  /\ disk' = IF ok THEN [disk EXCEPT !.copy = File("missing")] ELSE disk
  /\ boot' = [boot EXCEPT !.todo = Tail(@)]
  /\ Fails(Counted(ok))

WriteCrashCopy(ok) ==
  /\ Acting("WriteCrashCopy") /\ Operation(ok)
  /\ disk' = IF ok THEN [disk EXCEPT !.copy = Usable(answer.text)] ELSE disk
  /\ boot' = [boot EXCEPT !.todo = Tail(@),
                          !.guard = IF ok THEN @ ELSE "CopyNotWritten"]
  /\ Fails(Counted(ok))

\* remove_answered_copy: a copy whose read or removal failed stays answered,
\* because the run marker carries its hash on.
RemoveAnswered(ok) ==
  /\ Acting("RemoveAnswered") /\ Operation(ok)
  /\ disk' = IF ok THEN [disk EXCEPT !.copy = File("missing")] ELSE disk
  /\ boot' = [boot EXCEPT !.todo = Tail(@),
                          !.carry = IF ok THEN @ ELSE disk.copy.text.hash]
  /\ Fails(Counted(ok))

\* write_run_marker, then the layout and the restore phase are published.
\* The read before the write (readOk) judges the file again.
MarkerPolicy(readOk) ==
  WritePolicy(IF readOk THEN disk.state ELSE File("unread"), boot.adopted)

Marker(readOk, writeOk) ==
  /\ boot.phase = "acting" /\ boot.todo = <<>>
  /\ faults + Counted(readOk) + Counted(writeOk) <= MaxFaults
  /\ LET guarded == boot.guard # "no"
         refused == MarkerPolicy(readOk) = "Refuse"
         written == ~guarded /\ ~refused /\ writeOk
     IN /\ guarded \/ refused => writeOk
        /\ guarded => readOk
        /\ disk' = IF written
                     THEN [disk EXCEPT !.state = Written(boot.model, FALSE, boot.carry)]
                     ELSE disk
        /\ boot' = [boot EXCEPT !.phase = "up",
                      !.guard = IF guarded THEN @
                                ELSE IF refused THEN StateGuard(
                                       IF readOk THEN disk.state ELSE File("unread"))
                                ELSE "no",
                      !.adopted = @ \/ written]
  /\ ui' = [NoUi EXCEPT !.screen = boot.model]
  /\ answer' = [answer EXCEPT !.phase = IF @ = "none" /\ answer.text.hash # None
                                          THEN "awaiting" ELSE "none"]
  /\ Fails(Counted(readOk) + Counted(writeOk))
  /\ UNCHANGED <<saver, inbox, owed, durable, runs>>

-----------------------------------------------------------------------------
(* The user, and the answer to the question.                               *)

Up == boot.phase = "up"

\* ViewManager changes: the change number moves with the layout.
Edit(s) ==
  /\ Up /\ ui.rev < MaxEdits /\ s # ui.screen
  /\ ui' = [screen |-> s, rev |-> ui.rev + 1]
  /\ UNCHANGED <<disk, boot, answer, saver, inbox, owed, durable, runs, faults>>

\* answer(true): the restored layout is committed first (adopt_restored).
Accept ==
  /\ Up /\ answer.phase = "awaiting"
  /\ ui' = [screen |-> answer.text.screen, rev |-> ui.rev + 1]
  /\ answer' = [answer EXCEPT !.phase = "answered", !.call = "resolving"]
  /\ owed' = IF owed.hash = answer.text.hash THEN [owed EXCEPT !.accepted = TRUE] ELSE owed
  /\ UNCHANGED <<disk, boot, saver, inbox, durable, runs, faults>>

\* answer(false): the layout stays.
Decline ==
  /\ Up /\ answer.phase = "awaiting"
  /\ answer' = [answer EXCEPT !.phase = "answered", !.call = "resolving"]
  /\ owed' = IF owed.hash = answer.text.hash THEN NotOwed ELSE owed
  /\ UNCHANGED <<disk, boot, ui, saver, inbox, durable, runs, faults>>

\* start_saver: a guarded run has none to start.
StartedSaver == [NoSaver EXCEPT !.pc = "idle", !.resolved = boot.carry,
                                !.adopted = boot.adopted]

StartSaver ==
  /\ Up /\ boot.guard = "no" /\ saver.pc = "none"
  /\ saver' = StartedSaver
  /\ UNCHANGED <<disk, boot, ui, answer, inbox, owed, durable, runs, faults>>

\* Mutant of ResolveCrashCopy: the slot stands when the request is sent, so
\* that a save under way, whose snapshot is older, carries it.
ResolveAtSend ==
  /\ Up /\ answer.call = "resolving"
  /\ IF boot.guard # "no" \/ saver.pc = "ended"
       THEN /\ answer' = [answer EXCEPT !.call = "done"]
            /\ UNCHANGED <<saver, inbox>>
       ELSE /\ answer' = [answer EXCEPT !.call = "waiting"]
            /\ saver' = [(IF saver.pc = "none" THEN StartedSaver ELSE saver)
                           EXCEPT !.resolved = answer.text.hash]
            /\ inbox' = Append(inbox, [type |-> "Resolve", hash |-> answer.text.hash])
  /\ UNCHANGED <<disk, boot, ui, owed, durable, runs, faults>>

\* resolve_crash_copy: starts the recorder when it has not started, sends
\* Resolve and waits; without a recorder the answer stays in memory.
ResolveCrashCopy ==
  /\ Up /\ answer.call = "resolving"
  /\ IF boot.guard # "no" \/ saver.pc = "ended"
       THEN /\ answer' = [answer EXCEPT !.call = "done"]
            /\ UNCHANGED <<saver, inbox>>
       ELSE /\ answer' = [answer EXCEPT !.call = "waiting"]
            /\ saver' = IF saver.pc = "none" THEN StartedSaver ELSE saver
            /\ inbox' = Append(inbox, [type |-> "Resolve", hash |-> answer.text.hash])
  /\ UNCHANGED <<disk, boot, ui, owed, durable, runs, faults>>

\* The caller's deadline passes; the request stays in the inbox.
AnswerTimesOut ==
  /\ answer.call = "waiting"
  /\ answer' = [answer EXCEPT !.call = "done"]
  /\ UNCHANGED <<disk, boot, ui, saver, inbox, owed, durable, runs, faults>>

\* The clean-exit write has been asked for.
Exiting == saver.cause = "Final" \/ \E i \in DOMAIN inbox : inbox[i].type = "Final"

\* shutdown: the clean-exit write is asked for once.
Shutdown ==
  /\ Up /\ saver.pc \notin {"none", "ended"} /\ ~Exiting
  /\ inbox' = Append(inbox, [type |-> "Final", hash |-> None])
  /\ UNCHANGED <<disk, boot, ui, answer, saver, owed, durable, runs, faults>>

-----------------------------------------------------------------------------
(* The recorder.                                                           *)

\* save reads the change number first, then takes the snapshot.
BeginSave(s, cause) == [s EXCEPT !.pc = "snapshot", !.cause = cause, !.rev = ui.rev]

\* tick: the debounce lets the save through now, or later.
Tick(due) ==
  /\ saver.pc = "idle" /\ inbox = <<>>
  /\ saver.pending \/ ui.rev # saver.seen
  /\ saver' = LET s == [saver EXCEPT !.seen = ui.rev, !.pending = TRUE]
              IN IF due THEN BeginSave(s, "Periodic") ELSE s
  /\ UNCHANGED <<disk, boot, ui, answer, inbox, owed, durable, runs, faults>>

\* The slot `resolved` stands when the request is taken out.
TakeRequest ==
  /\ saver.pc = "idle" /\ inbox # <<>>
  /\ LET r == Head(inbox) IN
       saver' = BeginSave([saver EXCEPT !.resolved = IF r.type = "Resolve" THEN r.hash ELSE @],
                          r.type)
  /\ inbox' = Tail(inbox)
  /\ UNCHANGED <<disk, boot, ui, answer, owed, durable, runs, faults>>

\* The end of a save: Final ends the thread.
Rest(s) == [s EXCEPT !.pc = IF s.cause = "Final" THEN "ended" ELSE "idle",
                     !.snap = Default, !.covers = FALSE, !.rev = 0]

\* Mutant of Failed: no failure is tried again.
FailedForGood(retry) == [saver EXCEPT !.pending = FALSE, !.seen = saver.rev]

\* failed: a failure of the disk is tried again after the debounce, a newer
\* version's file waits for the next change.
Failed(retry) == [saver EXCEPT !.pending = retry, !.seen = IF retry THEN @ ELSE saver.rev]

Reply(written) ==
  IF saver.cause = "Resolve" /\ answer.call = "waiting"
    THEN /\ answer' = [answer EXCEPT !.call = "done"]
         /\ durable' = IF written THEN durable \cup {answer.text.hash} ELSE durable
    ELSE UNCHANGED <<answer, durable>>

Snapshot ==
  /\ saver.pc = "snapshot"
  /\ saver' = [saver EXCEPT !.pc = "write", !.snap = ui.screen, !.covers = owed.accepted]
  /\ UNCHANGED <<disk, boot, ui, answer, inbox, owed, durable, runs, faults>>

\* The snapshot source's lock is poisoned.
SnapshotFails ==
  /\ saver.pc = "snapshot" /\ Operation(FALSE)
  /\ saver' = Rest(Failed(TRUE))
  /\ Reply(FALSE)
  /\ Fails(1)
  /\ UNCHANGED <<disk, boot, ui, inbox, owed, runs>>

\* judge_state, then the atomic swap of state.json.
JudgeState(readOk) ==
  WritePolicy(IF readOk THEN disk.state ELSE File("unread"), saver.adopted)

SaveFails(readOk, writeOk) ==
  /\ saver.pc = "write"
  /\ JudgeState(readOk) = "Refuse" => writeOk
  /\ JudgeState(readOk) = "Refuse" \/ ~writeOk
  /\ faults + Counted(readOk) + Counted(writeOk) <= MaxFaults
  /\ saver' = Rest(Failed(JudgeState(readOk) # "Refuse" \/ ~readOk))
  /\ Reply(FALSE)
  /\ Fails(Counted(readOk) + Counted(writeOk))
  /\ UNCHANGED <<disk, boot, ui, inbox, owed, runs>>

\* A file that is not this run's own is set aside before it is replaced; the
\* write goes on when that fails.
SaveWrites(asideOk) ==
  /\ saver.pc = "write" /\ JudgeState(TRUE) # "Refuse"
  /\ Operation(asideOk) /\ (JudgeState(TRUE) = "Write" => asideOk)
  /\ disk' = [disk EXCEPT
       !.state = Written(saver.snap, saver.cause = "Final", saver.resolved),
       !.aside = IF JudgeState(TRUE) = "CopyAsideFirst" /\ asideOk
                   THEN @ \cup {"state"} ELSE @]
  /\ boot' = [boot EXCEPT !.asideTried = @ \/ JudgeState(TRUE) = "CopyAsideFirst"]
  /\ owed' = IF saver.covers THEN NotOwed ELSE owed
  /\ saver' = [saver EXCEPT !.pc = "drop", !.pending = FALSE, !.seen = saver.rev,
                            !.adopted = TRUE]
  /\ Fails(Counted(asideOk))
  /\ UNCHANGED <<ui, answer, inbox, durable, runs>>

\* Mutant of DropAnsweredCopy: the slot is cleared although the copy stayed.
DropAnsweredCopyOnce(ok) ==
  /\ saver.pc = "drop" /\ Operation(ok) /\ (saver.resolved = None => ok)
  /\ LET same == IsText(disk.copy) /\ disk.copy.text.hash = saver.resolved IN
       disk' = IF same /\ ok THEN [disk EXCEPT !.copy = File("missing")] ELSE disk
  /\ saver' = Rest([saver EXCEPT !.resolved = None])
  /\ Reply(TRUE)
  /\ Fails(Counted(ok))
  /\ UNCHANGED <<boot, ui, inbox, owed, runs>>

\* drop_answered_copy: after every write the slot's copy is removed; a copy
\* that is gone or another one clears the slot, a failure keeps it.
DropAnsweredCopy(ok) ==
  /\ saver.pc = "drop" /\ Operation(ok) /\ (saver.resolved = None => ok)
  /\ LET same == IsText(disk.copy) /\ disk.copy.text.hash = saver.resolved IN
       disk' = IF same /\ ok THEN [disk EXCEPT !.copy = File("missing")] ELSE disk
  /\ saver' = Rest([saver EXCEPT !.resolved = IF ok THEN None ELSE @])
  /\ Reply(TRUE)
  /\ Fails(Counted(ok))
  /\ UNCHANGED <<boot, ui, inbox, owed, runs>>

-----------------------------------------------------------------------------
\* The text the next boot has to put to the user: the copy no state file
\* names as answered, else the state file of a run that did not exit.
Outstanding ==
  IF IsText(disk.copy)
     /\ ~(IsText(disk.state) /\ disk.state.text.resolved = disk.copy.text.hash)
    THEN disk.copy.text.hash
  ELSE IF IsText(disk.state) /\ ~disk.state.text.clean
    THEN disk.state.text.hash
  ELSE None

\* The process ends: a crash, a kill, or the exit after shutdown.
End ==
  /\ boot.phase # "down"
  /\ boot' = NoPlan /\ ui' = NoUi /\ answer' = NoAnswer
  /\ saver' = NoSaver /\ inbox' = <<>>
  /\ owed' = [hash |-> IF owed.hash # None THEN owed.hash ELSE Outstanding,
              accepted |-> FALSE]
  /\ UNCHANGED <<disk, durable, runs, faults>>

BootStep ==
  \E ok \in BOOLEAN :
    \/ CopyAsideState(ok) \/ CopyAsideCrashCopy(ok) \/ RemoveUnusable(ok)
    \/ WriteCrashCopy(ok) \/ RemoveAnswered(ok)
    \/ \E ok2 \in BOOLEAN : Boot(ok, ok2) \/ Marker(ok, ok2)

User == Accept \/ Decline \/ Shutdown \/ \E s \in Screens : Edit(s)

SaverStep ==
  \/ TakeRequest \/ Snapshot \/ SnapshotFails
  \/ \E ok \in BOOLEAN :
       \/ SaveWrites(ok) \/ DropAnsweredCopy(ok)
       \/ \E ok2 \in BOOLEAN : SaveFails(ok, ok2)

Next ==
  \/ BootStep \/ User \/ StartSaver \/ ResolveCrashCopy \/ AnswerTimesOut
  \/ (\E due \in BOOLEAN : Tick(due)) \/ SaverStep \/ End

\* The recorder's thread polls; MAX_DELAY bounds the debounce.
Fairness == WF_vars(Tick(TRUE)) /\ WF_vars(SaverStep)

Spec == Init /\ [][Next]_vars /\ Fairness

-----------------------------------------------------------------------------
Slots == Hashes \cup {None}
Revisions == 0..(MaxEdits + 1)
Files == [kind : {"missing", "corrupt", "newer"}, text : {Blank}]
         \cup [kind : {"usable"}, text : Texts]
Actions == {"CopyAsideState", "CopyAsideCrashCopy", "RemoveUnusable", "WriteCrashCopy",
            "RemoveAnswered"}

Disks == [state : Files, copy : Files, aside : SUBSET {"state", "copy"}]
Plans == [phase : {"down", "acting", "up"}, model : Screens, todo : Seq(Actions),
          guard : {"no", "StateUnreadable", "StateNewer", "CopyNotWritten"},
          carry : Slots, asideTried : BOOLEAN, copyTried : BOOLEAN,
          adopted : BOOLEAN, reads : {"ok", "state", "copy"}]
Answers == [phase : {"none", "awaiting", "answered"}, text : Texts \cup {Blank},
            call : {"idle", "resolving", "waiting", "done"}]
Recorders == [pc : {"none", "idle", "snapshot", "write", "drop", "ended"},
              cause : {"Periodic", "Resolve", "Final"}, rev : Revisions, snap : Screens,
              covers : BOOLEAN, seen : Revisions, pending : BOOLEAN, resolved : Slots,
              adopted : BOOLEAN]
Letters == [type : {"Resolve", "Final"}, hash : Slots]

\* Types, and: the hashes in use never exhaust the set they are drawn from.
TypeOK ==
  /\ disk \in Disks /\ boot \in Plans
  /\ ui \in [screen : Screens, rev : Revisions]
  /\ answer \in Answers /\ saver \in Recorders /\ inbox \in Seq(Letters)
  /\ owed \in [hash : Slots, accepted : BOOLEAN] /\ durable \subseteq Hashes
  /\ runs \in 0..MaxRuns /\ faults \in 0..MaxFaults
  /\ Hashes \ HashesInUse # {}

\* The screen of a run that did not exit stays on the disk until the user
\* declines it, or accepts it and a state file holding the restored layout
\* has been published: through crashes, failing writes and failing reads.
CrashedScreenIsKept ==
  owed.hash # None =>
    \/ IsText(disk.copy) /\ disk.copy.text.hash = owed.hash
    \/ IsText(disk.state) /\ disk.state.text.hash = owed.hash

\* A boot whose reads succeeded puts that screen to the user.
CrashedScreenIsOffered ==
  Up /\ boot.reads = "ok" /\ owed.hash # None /\ ~owed.accepted =>
    answer.phase = "awaiting" /\ answer.text.hash = owed.hash

\* Both, on states of the right types: no crash loses a screen.
NoScreenIsLost == TypeOK /\ CrashedScreenIsKept /\ CrashedScreenIsOffered

\* An answer reported durable is not asked for again, unless the boot could
\* not read the state file that records it.
DurableAnswerIsFinal ==
  answer.phase = "awaiting" /\ answer.text.hash \in durable => boot.reads = "state"

\* A newer version's file is never replaced or removed.  A damaged state file
\* is replaced only after it was set aside or this run tried to.  A damaged
\* crash copy is replaced by another only after the same, and removed only
\* after it was set aside.
OriginalsSurvive ==
  [][/\ disk.state.kind = "newer" => disk'.state = disk.state
     /\ disk.copy.kind = "newer" => disk'.copy = disk.copy
     /\ disk.state.kind = "corrupt" /\ disk'.state # disk.state =>
          "state" \in disk'.aside \/ boot'.asideTried
     /\ disk.copy.kind = "corrupt" /\ disk'.copy # disk.copy =>
          "copy" \in disk.aside \/ (IsText(disk'.copy) /\ boot.copyTried)]_vars

\* While the recorder runs, a change of the layout reaches the disk or is
\* itself replaced by a later one, however the writes in between failed.
ChangesAreSaved ==
  \A s \in Screens :
    (saver.pc # "none" /\ ui.rev > 0 /\ ui.screen = s /\ disk.state.kind # "newer")
    ~> (\/ IsText(disk.state) /\ disk.state.text.screen = s
        \/ ui.screen # s \/ ~Up \/ Exiting)
=============================================================================
