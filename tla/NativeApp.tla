------------------------------ MODULE NativeApp ------------------------------
(***************************************************************************)
(* The model of the native app (AppModel.swift, the sheet that manages a   *)
(* profile, connect of DaemonLifecycle.swift) and its daemon.              *)
(*                                                                         *)
(* The app runs on the main actor: between two awaits a task is alone.     *)
(* Polling, a command, the doctor and the sheet each have a task.  The     *)
(* daemon is one counter of changes and the secret of one profile; it is   *)
(* closed, exits or crashes, and launchd starts the next one.              *)
(***************************************************************************)
EXTENDS Integers

CONSTANTS
  MaxDaemons,   \* the bound of the daemons
  MaxRevision,  \* the bound of the changes
  Nil

ASSUME AppAssumption == MaxDaemons \in Nat \ {0} /\ MaxRevision \in Nat
ASSUME NilAssumption == Nil \notin {"old", "new", "torn"}

VARIABLES
  instance,   \* the daemon, and
  phase,      \* what it does: "up", "closing" or "down"
  revision,   \* of what a snapshot tells
  item,       \* the Keychain's secret: "old", "new", or "torn" when some of its
              \* bytes were cleared before it was copied
  sessions,   \* management tokens the daemon knows
  begin,      \* the BeginProfileManagement handler
  client,     \* the daemon AppModel.client talks to, 0 for nil
  shown,      \* AppModel.snapshot
  isWorking,
  sheet,      \* the sheet's session and its secret, or Nil
  task, via, got   \* of each task: the client it uses, what was answered

serviceVars == <<instance, phase, revision, item, sessions, begin>>
appVars == <<serviceVars, client, shown, isWorking, sheet, task, via, got>>

Tasks == {"poll", "command", "doctor", "sheet"}
Secrets == {"old", "new", "torn"}
\* One token for each daemon; a second one there replaces the first.
NoHandler == [step |-> "none", secret |-> Nil]

\* The count stops at its bound, the changes do not.
Changed == IF revision < MaxRevision THEN revision + 1 ELSE revision

Answers(i) == phase = "up" /\ i = instance

Moves(t, s) == task' = [task EXCEPT ![t] = s]

\* requireClient, up to its await.
RequireClient(t) ==
  IF client # 0
    THEN Moves(t, "send") /\ via' = [via EXCEPT ![t] = client]
    ELSE Moves(t, "require") /\ UNCHANGED via

\* What a task got for one await is of no use after it.
Drops(t, s) ==
  /\ Moves(t, s)
  /\ via' = [via EXCEPT ![t] = 0]
  /\ got' = [got EXCEPT ![t] = 0]

(***************************************************************************)
(* Commands.                                                               *)
(***************************************************************************)
\* The poll sleeps 3 s.  It has no command, only the refresh.
StartPoll ==
  /\ task["poll"] = "idle"
  /\ Moves("poll", "connect")
  /\ UNCHANGED <<serviceVars, client, shown, isWorking, sheet, via, got>>

\* perform and unlockProfileManagement do nothing while another command works.
StartCommand ==
  /\ task["command"] = "idle" /\ ~isWorking
  /\ RequireClient("command")
  /\ isWorking' = TRUE
  /\ UNCHANGED <<serviceVars, client, shown, sheet, got>>

\* runDoctor and repair do not look at isWorking, and clear it when they end.
StartDoctor ==
  /\ task["doctor"] = "idle"
  /\ RequireClient("doctor")
  /\ isWorking' = TRUE
  /\ UNCHANGED <<serviceVars, client, shown, sheet, got>>

StartUnlock ==
  /\ task["sheet"] = "idle" /\ sheet = Nil /\ ~isWorking
  /\ RequireClient("sheet")
  /\ isWorking' = TRUE
  /\ UNCHANGED <<serviceVars, client, shown, sheet, got>>

\* What is saved is the secret as revealed, or as edited.
StartSave(secret) ==
  /\ task["sheet"] = "idle" /\ sheet # Nil /\ ~isWorking
  /\ sheet' = [sheet EXCEPT !.secret = secret]
  /\ RequireClient("sheet")
  /\ isWorking' = TRUE
  /\ UNCHANGED <<serviceVars, client, shown, got>>

\* onDisappear, also while a save is under way, which has its own copy of the
\* session.  A task of its own then asks to end it: SessionEnds.
Dismiss ==
  /\ task["sheet"] = "idle" /\ sheet # Nil
  /\ sheet' = Nil
  /\ UNCHANGED <<serviceVars, client, shown, isWorking, task, via, got>>

\* The sheet forgets its session when the save ends, whether or not it worked.
SheetAfter(t) == IF t = "sheet" THEN Nil ELSE sheet

\* Mutant: isWorking is cleared at the end of the work, and not by defer.
FailsBusy(t) ==
  /\ \/ task[t] = "require" /\ phase # "up"
     \/ task[t] = "send" /\ ~Answers(via[t])
     \/ task[t] = "answer" /\ (via[t] # instance \/ phase = "down")
  /\ Drops(t, "idle")
  /\ sheet' = SheetAfter(t)
  /\ UNCHANGED <<serviceVars, client, shown, isWorking>>

\* No connection, or the request is refused or never answered.
Fails(t) ==
  /\ \/ task[t] = "require" /\ phase # "up"
     \/ task[t] = "send" /\ ~Answers(via[t])
     \/ task[t] = "answer" /\ (via[t] # instance \/ phase = "down")
  /\ Drops(t, "idle")
  /\ isWorking' = FALSE
  /\ sheet' = SheetAfter(t)
  /\ UNCHANGED <<serviceVars, client, shown>>

\* The doctor changes nothing, any other request may.
SendCommand(t) ==
  /\ t \in {"command", "doctor"}
  /\ task[t] = "send" /\ Answers(via[t])
  /\ revision' \in IF t = "doctor" THEN {revision} ELSE {revision, Changed}
  /\ Moves(t, "answer")
  /\ UNCHANGED <<instance, phase, item, sessions, begin, client, shown, isWorking,
                 sheet, via, got>>

SendUnlock ==
  /\ task["sheet"] = "send" /\ sheet = Nil /\ Answers(via["sheet"])
  /\ begin = NoHandler
  /\ begin' = [step |-> "prompt", secret |-> Nil]
  /\ Moves("sheet", "answer")
  /\ UNCHANGED <<instance, phase, revision, item, sessions, client, shown, isWorking,
                 sheet, via, got>>

\* Mutant: a token is as good as a session.
AnySession(token) == token \in 1..MaxDaemons

KnownSession(token) == token \in sessions

\* consumeManagementSession and the rest of UpdateProfile.
SendSave ==
  /\ task["sheet"] = "send" /\ sheet # Nil /\ Answers(via["sheet"])
  /\ KnownSession(sheet.token)
  /\ sessions' = sessions \ {sheet.token}
  /\ item' = sheet.secret
  /\ revision' = Changed
  /\ Moves("sheet", "answer")
  /\ UNCHANGED <<instance, phase, begin, client, shown, isWorking, sheet,
                 via, got>>

\* The session is unknown, or something else failed, before or after it was used up.
SaveRefused ==
  /\ task["sheet"] = "send" /\ sheet # Nil /\ Answers(via["sheet"])
  /\ sessions' \in {sessions, sessions \ {sheet.token}}
  /\ Drops("sheet", "idle")
  /\ isWorking' = FALSE
  /\ sheet' = Nil
  /\ UNCHANGED <<instance, phase, revision, item, begin, client, shown>>

\* The answer to a command is followed by a refresh, within perform.
Answered(t) ==
  /\ task[t] = "answer" /\ via[t] = instance /\ phase # "down"
  /\ t = "sheet" => sheet # Nil
  /\ Drops(t, "connect")
  /\ UNCHANGED <<serviceVars, client, shown, isWorking, sheet>>

\* An error is the end of a command or of the doctor: there is no refresh.
ErrorAnswered(t) ==
  /\ t \in {"command", "doctor"}
  /\ task[t] = "answer" /\ via[t] = instance /\ phase # "down"
  /\ Drops(t, "idle")
  /\ isWorking' = FALSE
  /\ UNCHANGED <<serviceVars, client, shown, sheet>>

\* The session arrives, also when the sheet was dismissed meanwhile.
Unlocked ==
  /\ task["sheet"] = "answer" /\ sheet = Nil
  /\ via["sheet"] = instance /\ begin.step = "answered"
  /\ sheet' = IF begin.secret = Nil THEN Nil
              ELSE [token |-> instance, secret |-> begin.secret]
  /\ begin' = NoHandler
  /\ isWorking' = FALSE
  /\ Drops("sheet", "idle")
  /\ UNCHANGED <<instance, phase, revision, item, sessions, client, shown>>

(***************************************************************************)
(* The rest of requireClient, and refresh.                                 *)
(***************************************************************************)
\* lifecycle.connect returns on another actor.
ConnectDaemon(t) ==
  /\ task[t] \in {"require", "connect"} /\ phase = "up"
  /\ via' = [via EXCEPT ![t] = instance]
  /\ Moves(t, IF task[t] = "require" THEN "required" ELSE "connected")
  /\ UNCHANGED <<serviceVars, client, shown, isWorking, sheet, got>>

Resume(t) ==
  /\ task[t] \in {"required", "connected"}
  /\ client' = via[t]
  /\ Moves(t, IF task[t] = "required" THEN "send" ELSE "fetch")
  /\ UNCHANGED <<serviceVars, shown, isWorking, sheet, via, got>>

Fetch(t) ==
  /\ task[t] = "fetch" /\ Answers(via[t])
  /\ got' = [got EXCEPT ![t] = revision]
  /\ Moves(t, "show")
  /\ UNCHANGED <<serviceVars, client, shown, isWorking, sheet, via>>

Done(t) ==
  /\ Drops(t, "idle")
  /\ isWorking' = IF t = "poll" THEN isWorking ELSE FALSE
  /\ sheet' = SheetAfter(t)

Show(t) ==
  /\ task[t] = "show"
  /\ shown' = [daemon |-> via[t], revision |-> got[t]]
  /\ Done(t)
  /\ UNCHANGED <<serviceVars, client>>

\* Mutant: a poll that fails is the last one.
RefreshStops(t) ==
  /\ \/ task[t] = "connect" /\ phase # "up"
     \/ task[t] = "fetch" /\ ~Answers(via[t])
  /\ Drops(t, IF t = "poll" THEN "stopped" ELSE "idle")
  /\ isWorking' = IF t = "poll" THEN isWorking ELSE FALSE
  /\ sheet' = SheetAfter(t)
  /\ UNCHANGED <<serviceVars, client, shown>>

\* refresh does not throw: what was shown, and the client, stay.
RefreshFails(t) ==
  /\ \/ task[t] = "connect" /\ phase # "up"
     \/ task[t] = "fetch" /\ ~Answers(via[t])
  /\ Done(t)
  /\ UNCHANGED <<serviceVars, client, shown>>

(***************************************************************************)
(* The daemon.                                                             *)
(***************************************************************************)
\* Something another client does.
Change ==
  /\ phase = "up"
  /\ revision' = Changed
  /\ UNCHANGED <<instance, phase, item, sessions, begin, client, shown, isWorking,
                 sheet, task, via, got>>

Handler(step, secret) == begin' = [step |-> step, secret |-> secret]

\* The secret is read and the session registered; the copy for the answer is
\* made after mu was released.
Approve ==
  /\ begin.step = "prompt" /\ phase # "down"
  /\ sessions' = sessions \cup {instance}
  /\ Handler("registered", item)
  /\ UNCHANGED <<instance, phase, revision, item, client, shown, isWorking, sheet,
                 task, via, got>>

Deny ==
  /\ begin.step = "prompt" /\ phase # "down"
  /\ Handler("answered", Nil)
  /\ UNCHANGED <<instance, phase, revision, item, sessions, client, shown, isWorking,
                 sheet, task, via, got>>

CopySecret ==
  /\ begin.step = "registered" /\ phase # "down"
  /\ Handler("answered", IF instance \in sessions THEN begin.secret ELSE "torn")
  /\ UNCHANGED <<instance, phase, revision, item, sessions, client, shown, isWorking,
                 sheet, task, via, got>>

\* Close clears the sessions while handlers that outlast the shutdown run on.
\* The last daemon of the bounded model stays.
Close ==
  /\ phase = "up" /\ instance < MaxDaemons
  /\ phase' = "closing"
  /\ sessions' = {}
  /\ UNCHANGED <<instance, revision, item, begin, client, shown, isWorking, sheet,
                 task, via, got>>

\* Exit, or a crash.
Exit ==
  /\ phase # "down" /\ instance < MaxDaemons
  /\ phase' = "down"
  /\ sessions' = {} /\ begin' = NoHandler
  /\ UNCHANGED <<instance, revision, item, client, shown, isWorking, sheet, task,
                 via, got>>

Launch ==
  /\ phase = "down"
  /\ instance' = instance + 1 /\ phase' = "up"
  /\ UNCHANGED <<revision, item, sessions, begin, client, shown, isWorking, sheet,
                 task, via, got>>

\* The sweep takes a session after 5 minutes, and the sheet that was dismissed ends
\* it, by a request which is sent and forgotten.
SessionEnds ==
  /\ phase = "up" /\ sessions # {}
  /\ sessions' = {}
  /\ UNCHANGED <<instance, phase, revision, item, begin, client, shown, isWorking,
                 sheet, task, via, got>>

AppInit ==
  /\ instance = 1 /\ phase = "up" /\ revision = 0 /\ item = "old"
  /\ sessions = {} /\ begin = NoHandler
  /\ client = 0 /\ shown = Nil /\ isWorking = FALSE /\ sheet = Nil
  /\ task = [t \in Tasks |-> "idle"]
  /\ via = [t \in Tasks |-> 0]
  /\ got = [t \in Tasks |-> 0]

Refreshes(t) ==
  ConnectDaemon(t) \/ Resume(t) \/ Fetch(t) \/ Show(t) \/ RefreshFails(t)

Continues(t) ==
  \/ Fails(t) \/ SendCommand(t) \/ Answered(t) \/ ErrorAnswered(t) \/ Refreshes(t)
  \/ t = "sheet" /\ (SendUnlock \/ SendSave \/ SaveRefused \/ Unlocked)

AppNext ==
  \/ StartPoll \/ StartCommand \/ StartDoctor \/ StartUnlock
  \/ sheet # Nil /\ \E secret \in {sheet.secret, "new"} : StartSave(secret)
  \/ Dismiss
  \/ \E t \in Tasks : Continues(t)
  \/ Change \/ Approve \/ Deny \/ CopySecret
  \/ Close \/ Exit \/ Launch \/ SessionEnds

AppSpec == AppInit /\ [][AppNext]_appVars

\* What happens by itself: tasks go on, the poll wakes up, launchd starts the
\* daemon, one that closes exits, and whoever is asked for a finger gives it or
\* cancels.
ServiceProceeds ==
  Launch \/ (phase = "closing" /\ Exit) \/ Approve \/ Deny \/ CopySecret

AppFairness ==
  /\ WF_appVars(StartPoll)
  /\ \A t \in Tasks : WF_appVars(Continues(t))
  /\ WF_appVars(ServiceProceeds)

-----------------------------------------------------------------------------
AppTypeOK ==
  /\ instance \in 1..MaxDaemons
  /\ phase \in {"up", "closing", "down"}
  /\ revision \in 0..MaxRevision
  /\ item \in Secrets
  /\ sessions \in SUBSET (1..MaxDaemons)
  /\ begin \in [step : {"none", "prompt", "registered", "answered"},
               secret : Secrets \cup {Nil}]
  /\ client \in 0..MaxDaemons
  /\ shown \in [daemon : 1..MaxDaemons, revision : 0..MaxRevision] \cup {Nil}
  /\ isWorking \in BOOLEAN
  /\ sheet \in [token : 1..MaxDaemons, secret : Secrets] \cup {Nil}
  /\ task \in [Tasks -> {"idle", "stopped", "require", "required", "send", "answer",
                          "connect", "connected", "fetch", "show"}]
  /\ via \in [Tasks -> 0..MaxDaemons]
  /\ got \in [Tasks -> 0..MaxRevision]

\* service.go:435: a secret that was cleared while it was copied for the editor is
\* never saved, by whatever daemon the save reaches and however late: the session
\* it came with is gone.
TornNeverStored == item # "torn"

\* AppModel.swift:62: results of several refreshes, from several daemons, come in
\* any order; once nothing changes (the bounds see to that) the app shows what is, and has its client.
ShowsTheTruth ==
  <>[](shown = [daemon |-> instance, revision |-> revision] /\ client = instance)

\* AppModel.swift:223: whatever fails, the buttons come back.
WorkEnds == isWorking ~> ~isWorking
=============================================================================
