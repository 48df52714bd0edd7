-------------------------- MODULE ClientParts_proofs --------------------------
(***************************************************************************)
(* The daemon's clients: the app never saves a secret that was torn, and   *)
(* what was shown of each part holds where they stand side by side, as the *)
(* run has them.                                                           *)
(***************************************************************************)
EXTENDS MCClientParts, UpdateCheck_proofs

-----------------------------------------------------------------------------
\* The types of discovery.
LEMMA DiscoveryInitially == DiscoveryInit => DiscoveryTypeOK
BY DEF DiscoveryInit, DiscoveryTypeOK

LEMMA DaemonStepKeeps ==
  ASSUME DiscoveryTypeOK,
         \/ \E port \in Ports : Boot(port)
         \/ PublishDescriptor \/ Shutdown \/ RemoveDescriptor \/ Crash \/ Unload
  PROVE  DiscoveryTypeOK'
<1> USE DEF DiscoveryTypeOK
<1>1. ASSUME NEW port \in Ports, Boot(port) PROVE DiscoveryTypeOK'
  <2>1. [instance |-> booted + 1, port |-> port] \in Descriptors
    BY DEF Descriptors
  <2> QED
    BY <1>1, <2>1 DEF Boot
<1>2. CASE PublishDescriptor
  BY <1>2 DEF PublishDescriptor
<1>3. CASE Shutdown \/ Unload
  BY <1>3 DEF Shutdown, Unload
<1>4. CASE RemoveDescriptor \/ Crash
  BY <1>4 DEF RemoveDescriptor, Crash
<1> QED
  BY <1>1, <1>2, <1>3, <1>4

LEMMA DiscoverKeepsTypes ==
  ASSUME DiscoveryTypeOK, NEW c \in Clients, Discover(c, "trying", "starting")
                                          \/ Discover(c, "polling", "waiting")
  PROVE  /\ stage' \in [Clients -> {"idle", "trying", "starting", "registering",
                                    "waiting", "polling", "connected", "done",
                                    "failed"}]
         /\ found' \in [Clients -> Descriptors \cup {NoDaemon}]
BY DEF DiscoveryTypeOK, Discover, Go

LEMMA ClientStepKeeps ==
  ASSUME DiscoveryTypeOK, NEW c \in Clients, ClientStep(c) \/ DeadlinePasses(c)
  PROVE  DiscoveryTypeOK'
<1> USE DEF DiscoveryTypeOK, daemonVars
<1>1. CASE Connect(c) \/ Poll(c)
  BY <1>1, DiscoverKeepsTypes DEF Connect, Poll
<1>2. CASE Handshake(c) \/ GiveUp(c) \/ DeadlinePasses(c)
  BY <1>2 DEF Handshake, GiveUp, DeadlinePasses, Go
<1>3. CASE Kickstart(c) \/ Bootstrap(c)
  BY <1>3 DEF Kickstart, Bootstrap, Go
<1>4. CASE Again(c) \/ Send(c)
  BY <1>4 DEF Again, Send, Go
<1> QED
  BY <1>1, <1>2, <1>3, <1>4 DEF ClientStep

LEMMA DiscoveryPreserved == DiscoveryTypeOK /\ [DiscoveryNext]_discoveryVars => DiscoveryTypeOK'
<1>1. ASSUME DiscoveryTypeOK, DiscoveryNext PROVE DiscoveryTypeOK'
  BY <1>1, DaemonStepKeeps, ClientStepKeeps DEF DiscoveryNext
<1>2. ASSUME DiscoveryTypeOK, UNCHANGED discoveryVars PROVE DiscoveryTypeOK'
  BY <1>2 DEF discoveryVars, DiscoveryTypeOK
<1> QED
  BY <1>1, <1>2

LEMMA DiscoveryInvariant == DiscoverySpec => []DiscoveryTypeOK
BY DiscoveryInitially, DiscoveryPreserved, PTL DEF DiscoverySpec

-----------------------------------------------------------------------------
\* A torn secret is never stored, for any number of daemons.  The secret is torn
\* only where its session went before it was copied, and a session of that token
\* comes back only with another handler, which the sheet does not start while it
\* has a session of its own.
AppShape ==
  /\ instance \in Nat
  /\ task = [t \in Tasks |-> task[t]]
  /\ via = [t \in Tasks |-> via[t]]
  /\ begin = [step |-> begin.step, secret |-> begin.secret]
  /\ sheet # Nil => sheet = [token |-> sheet.token, secret |-> sheet.secret]

\* The handler runs for the sheet that waits for it, and dies with its daemon.
HandlerAwaited ==
  begin.step # "none" =>
    /\ task["sheet"] = "answer" /\ sheet = Nil
    /\ via["sheet"] = instance /\ phase # "down"

TornHasNoSession ==
  /\ begin.step = "registered" => begin.secret # "torn"
  /\ begin.step = "answered" /\ begin.secret = "torn" => instance \notin sessions
  /\ sheet # Nil /\ sheet.secret = "torn" => sheet.token \notin sessions

TornInv == AppShape /\ HandlerAwaited /\ TornHasNoSession /\ TornNeverStored

LEMMA TornInitially == AppInit => TornInv
BY DEF AppInit, TornInv, AppShape, HandlerAwaited, TornHasNoSession,
       TornNeverStored, NoHandler

\* What a task does to task and via leaves the other tasks alone.
LEMMA TaskMoves ==
  ASSUME AppShape, NEW t \in Tasks, NEW s, Moves(t, s)
  PROVE  /\ task' = [u \in Tasks |-> task'[u]]
         /\ task'[t] = s
         /\ \A u \in Tasks \ {t} : task'[u] = task[u]
BY DEF AppShape, Moves

LEMMA ViaMoves ==
  ASSUME AppShape, NEW t \in Tasks, NEW i, via' = [via EXCEPT ![t] = i]
  PROVE  /\ via' = [u \in Tasks |-> via'[u]]
         /\ via'[t] = i
         /\ \A u \in Tasks \ {t} : via'[u] = via[u]
BY DEF AppShape

\* A step of a task that is not waiting for the handler, and changes nothing of
\* the daemon: it may drop the sheet's session, or keep it.
Aside(t) ==
  /\ UNCHANGED serviceVars
  /\ t = "sheet" => begin.step = "none"
  /\ sheet' \in {sheet, Nil}
  /\ task' = [u \in Tasks |-> task'[u]] /\ via' = [u \in Tasks |-> via'[u]]
  /\ \A u \in Tasks \ {t} : task'[u] = task[u] /\ via'[u] = via[u]

LEMMA AsideKeeps ==
  ASSUME TornInv, NEW t \in Tasks, Aside(t)
  PROVE  TornInv'
<1>1. AppShape'
  BY DEF Aside, TornInv, AppShape, serviceVars
<1>2. HandlerAwaited'
  <2>1. CASE t = "sheet"
    BY <2>1 DEF Aside, HandlerAwaited, serviceVars
  <2>2. CASE t # "sheet"
    <3>1. task'["sheet"] = task["sheet"] /\ via'["sheet"] = via["sheet"]
      BY <2>2 DEF Aside, Tasks
    <3> QED
      BY <3>1 DEF Aside, TornInv, HandlerAwaited, serviceVars
  <2> QED
    BY <2>1, <2>2
<1>3. TornHasNoSession' /\ TornNeverStored'
  BY DEF Aside, TornInv, TornHasNoSession, TornNeverStored, serviceVars
<1> QED
  BY <1>1, <1>2, <1>3 DEF TornInv

\* The sheet waits for its handler only in "answer".
LEMMA NotAwaiting ==
  ASSUME TornInv, task["sheet"] # "answer" \/ sheet # Nil
  PROVE  begin.step = "none"
BY DEF TornInv, HandlerAwaited

LEMMA TaskKeeps ==
  ASSUME TornInv, NEW t \in Tasks,
         \/ Fails(t) \/ Answered(t) \/ ErrorAnswered(t) \/ Refreshes(t)
  PROVE  TornInv'
<1>2. CASE Fails(t)
  <2>1. t = "sheet" => begin.step = "none"
    BY <1>2 DEF Fails, TornInv, HandlerAwaited
  <2>2. /\ Moves(t, "idle") /\ via' = [via EXCEPT ![t] = 0]
        /\ UNCHANGED serviceVars /\ sheet' \in {sheet, Nil}
    BY <1>2 DEF Fails, Drops, SheetAfter
  <2> QED
    BY <2>1, <2>2, TaskMoves, ViaMoves, AsideKeeps DEF Aside, TornInv
<1>3. CASE Answered(t)
  <2>1. t = "sheet" => begin.step = "none"
    BY <1>3, NotAwaiting DEF Answered
  <2>2. /\ Moves(t, "connect") /\ via' = [via EXCEPT ![t] = 0]
        /\ UNCHANGED <<serviceVars, sheet>>
    BY <1>3 DEF Answered, Drops
  <2> QED
    BY <2>1, <2>2, TaskMoves, ViaMoves, AsideKeeps DEF Aside, TornInv
<1>1. CASE ErrorAnswered(t)
  <2>1. t # "sheet"
    BY <1>1 DEF ErrorAnswered
  <2>2. /\ Moves(t, "idle") /\ via' = [via EXCEPT ![t] = 0]
        /\ UNCHANGED <<serviceVars, sheet>>
    BY <1>1 DEF ErrorAnswered, Drops
  <2> QED
    BY <2>1, <2>2, TaskMoves, ViaMoves, AsideKeeps DEF Aside, TornInv
<1>4. CASE ConnectDaemon(t) \/ Resume(t) \/ Fetch(t)
  <2>1. t = "sheet" => begin.step = "none"
    BY <1>4, NotAwaiting DEF ConnectDaemon, Resume, Fetch
  <2>2. /\ \E s : Moves(t, s)
        /\ UNCHANGED <<serviceVars, sheet>>
        /\ via' = via \/ via' = [via EXCEPT ![t] = instance]
    BY <1>4 DEF ConnectDaemon, Resume, Fetch
  <2>3. via = [u \in Tasks |-> via[u]]
    BY DEF TornInv, AppShape
  <2> QED
    BY <2>1, <2>2, <2>3, TaskMoves, ViaMoves, AsideKeeps DEF Aside, TornInv
<1>5. CASE Show(t) \/ RefreshFails(t)
  <2>1. t = "sheet" => begin.step = "none"
    BY <1>5, NotAwaiting DEF Show, RefreshFails
  <2>2. /\ Moves(t, "idle") /\ via' = [via EXCEPT ![t] = 0]
        /\ UNCHANGED serviceVars /\ sheet' \in {sheet, Nil}
    BY <1>5 DEF Show, RefreshFails, Done, Drops, SheetAfter
  <2> QED
    BY <2>1, <2>2, TaskMoves, ViaMoves, AsideKeeps DEF Aside, TornInv
<1> QED
  BY <1>1, <1>2, <1>3, <1>4, <1>5 DEF Refreshes

LEMMA StartKeeps ==
  ASSUME TornInv,
         \/ StartPoll \/ StartCommand \/ StartDoctor \/ StartUnlock
         \/ sheet # Nil /\ \E secret \in {sheet.secret, "new"} : StartSave(secret)
         \/ Dismiss
  PROVE  TornInv'
<1>1. ASSUME NEW t \in Tasks, task[t] = "idle", UNCHANGED <<serviceVars, sheet>>,
             \/ RequireClient(t)
             \/ Moves(t, "connect") /\ UNCHANGED via
      PROVE  TornInv'
  <2>1. t = "sheet" => begin.step = "none"
    BY <1>1, NotAwaiting
  <2>2. via = [u \in Tasks |-> via[u]]
    BY DEF TornInv, AppShape
  <2>3. /\ \E s : Moves(t, s)
        /\ via' = via \/ via' = [via EXCEPT ![t] = client]
    BY <1>1 DEF RequireClient
  <2> QED
    BY <1>1, <2>1, <2>2, <2>3, TaskMoves, ViaMoves, AsideKeeps DEF Aside, TornInv
<1>2. ASSUME NEW secret \in {sheet.secret, "new"}, StartSave(secret)
      PROVE  TornInv'
  <2>1. begin.step = "none" /\ sheet # Nil
    BY <1>2, NotAwaiting DEF StartSave
  <2>2. /\ sheet' = [token |-> sheet.token, secret |-> secret]
        /\ RequireClient("sheet") /\ UNCHANGED serviceVars
    BY <1>2, <2>1 DEF StartSave, TornInv, AppShape
  <2>3. AppShape'
    <3>1. /\ \E s : Moves("sheet", s)
          /\ via' = via \/ via' = [via EXCEPT !["sheet"] = client]
      BY <2>2 DEF RequireClient
    <3> QED
      BY <2>2, <3>1, TaskMoves, ViaMoves DEF TornInv, AppShape, serviceVars, Tasks
  <2> QED
    BY <2>1, <2>2, <2>3
    DEF TornInv, HandlerAwaited, TornHasNoSession, TornNeverStored, serviceVars
<1>3. CASE Dismiss
  <2>1. begin.step = "none"
    BY <1>3, NotAwaiting DEF Dismiss
  <2>2. sheet' = Nil /\ UNCHANGED <<instance, phase, item, sessions, begin, task, via>>
    BY <1>3 DEF Dismiss, serviceVars
  <2> QED
    BY <2>1, <2>2
    DEF TornInv, AppShape, HandlerAwaited, TornHasNoSession, TornNeverStored
<1> QED
  BY <1>1, <1>2, <1>3 DEF StartPoll, StartCommand, StartDoctor, StartUnlock, Tasks

\* The requests the daemon answers.
LEMMA RequestKeeps ==
  ASSUME TornInv,
         (\E t \in Tasks : SendCommand(t)) \/ SendUnlock \/ SendSave \/ SaveRefused
  PROVE  TornInv'
<1> USE DEF Tasks
<1>1. ASSUME NEW t \in Tasks, SendCommand(t) PROVE TornInv'
  <2>1. /\ t # "sheet" /\ Moves(t, "answer")
        /\ UNCHANGED <<instance, phase, item, sessions, begin, sheet, via>>
    BY <1>1 DEF SendCommand
  <2>2. task' = [u \in Tasks |-> task'[u]] /\ task'["sheet"] = task["sheet"]
    BY <2>1, TaskMoves DEF TornInv
  <2> QED
    BY <2>1, <2>2
    DEF TornInv, AppShape, HandlerAwaited, TornHasNoSession, TornNeverStored
<1>2. CASE SendUnlock
  <2>1. /\ sheet = Nil /\ via["sheet"] = instance /\ phase = "up"
        /\ begin' = [step |-> "prompt", secret |-> Nil]
        /\ Moves("sheet", "answer")
        /\ UNCHANGED <<instance, phase, item, sessions, sheet, via>>
    BY <1>2 DEF SendUnlock, Answers
  <2>2. task' = [u \in Tasks |-> task'[u]] /\ task'["sheet"] = "answer"
    BY <2>1, TaskMoves DEF TornInv
  <2> QED
    BY <2>1, <2>2
    DEF TornInv, AppShape, HandlerAwaited, TornHasNoSession, TornNeverStored
<1>3. CASE SendSave
  <2>1. begin.step = "none"
    BY <1>3, NotAwaiting DEF SendSave
  <2>2. /\ sheet # Nil /\ sheet.token \in sessions /\ item' = sheet.secret
        /\ sessions' \subseteq sessions
        /\ Moves("sheet", "answer")
        /\ UNCHANGED <<instance, phase, begin, sheet, via>>
    BY <1>3 DEF SendSave, KnownSession
  <2>3. sheet.secret # "torn"
    BY <2>2 DEF TornInv, TornHasNoSession
  <2>4. task' = [u \in Tasks |-> task'[u]]
    BY <2>2, TaskMoves DEF TornInv
  <2> QED
    BY <2>1, <2>2, <2>3, <2>4
    DEF TornInv, AppShape, HandlerAwaited, TornHasNoSession, TornNeverStored
<1>4. CASE SaveRefused
  <2>1. begin.step = "none"
    BY <1>4, NotAwaiting DEF SaveRefused
  <2>2. /\ Moves("sheet", "idle") /\ via' = [via EXCEPT !["sheet"] = 0]
        /\ UNCHANGED <<instance, phase, item, begin>> /\ sheet' = Nil
    BY <1>4 DEF SaveRefused, Drops
  <2>3. AppShape'
    BY <2>2, TaskMoves, ViaMoves DEF TornInv, AppShape
  <2> QED
    BY <2>1, <2>2, <2>3
    DEF TornInv, HandlerAwaited, TornHasNoSession, TornNeverStored
<1> QED
  BY <1>1, <1>2, <1>3, <1>4

\* A torn secret arrives in the sheet without a session, and while it is there
\* no handler runs that could register its token again.
LEMMA UnlockedKeeps ==
  ASSUME TornInv, Unlocked
  PROVE  TornInv'
<1>1. /\ begin.step = "answered" /\ begin' = NoHandler
      /\ sheet' = IF begin.secret = Nil THEN Nil
                  ELSE [token |-> instance, secret |-> begin.secret]
      /\ Moves("sheet", "idle") /\ via' = [via EXCEPT !["sheet"] = 0]
      /\ UNCHANGED <<instance, phase, item, sessions>>
  BY DEF Unlocked, Drops
<1>2. "sheet" \in Tasks
  BY DEF Tasks
<1>3. AppShape'
  BY <1>1, <1>2, TaskMoves, ViaMoves DEF TornInv, AppShape, NoHandler
<1>4. HandlerAwaited'
  BY <1>1 DEF HandlerAwaited, NoHandler
<1>5. TornHasNoSession'
  <2>1. begin.secret = "torn" => instance \notin sessions
    BY <1>1 DEF TornInv, TornHasNoSession
  <2> QED
    BY <1>1, <2>1 DEF TornHasNoSession, NoHandler
<1> QED
  BY <1>1, <1>3, <1>4, <1>5 DEF TornInv, TornNeverStored

LEMMA DaemonKeeps ==
  ASSUME TornInv,
         \/ Change \/ Approve \/ Deny \/ CopySecret
         \/ Close \/ Exit \/ Launch \/ SessionEnds
  PROVE  TornInv'
<1>1. CASE Change \/ Close \/ SessionEnds
  <2>1. /\ UNCHANGED <<instance, item, begin, sheet, task, via>>
        /\ sessions' \subseteq sessions
        /\ phase' # "down" \/ UNCHANGED phase
    BY <1>1 DEF Change, Close, SessionEnds
  <2> QED
    BY <2>1
    DEF TornInv, AppShape, HandlerAwaited, TornHasNoSession, TornNeverStored
<1>2. CASE Approve
  <2>1. /\ begin.step = "prompt"
        /\ begin' = [step |-> "registered", secret |-> item]
        /\ UNCHANGED <<instance, phase, item, sheet, task, via>>
    BY <1>2 DEF Approve, Handler
  <2>2. sheet = Nil
    BY <2>1 DEF TornInv, HandlerAwaited
  <2> QED
    BY <2>1, <2>2
    DEF TornInv, AppShape, HandlerAwaited, TornHasNoSession, TornNeverStored
<1>3. CASE Deny \/ CopySecret
  <2>1. /\ begin.step # "none"
        /\ UNCHANGED <<instance, phase, item, sessions, sheet, task, via>>
    BY <1>3 DEF Deny, CopySecret
  <2>2. \/ begin' = [step |-> "answered", secret |-> Nil] /\ Deny
        \/ /\ begin.step = "registered"
           /\ begin' = [step |-> "answered",
                        secret |-> IF instance \in sessions
                                     THEN begin.secret ELSE "torn"]
    BY <1>3 DEF Deny, CopySecret, Handler
  <2>3. sheet = Nil
    BY <2>1 DEF TornInv, HandlerAwaited
  <2>4. begin'.step = "answered"
        /\ begin' = [step |-> begin'.step, secret |-> begin'.secret]
    BY <2>2
  <2>5. begin'.secret = "torn" => instance \notin sessions
    BY <2>2, NilAssumption DEF TornInv, TornHasNoSession
  <2> QED
    BY <2>1, <2>3, <2>4, <2>5
    DEF TornInv, AppShape, HandlerAwaited, TornHasNoSession, TornNeverStored
<1>4. CASE Exit
  <2>1. /\ begin' = NoHandler /\ sessions' = {}
        /\ UNCHANGED <<instance, item, sheet, task, via>>
    BY <1>4 DEF Exit
  <2> QED
    BY <2>1
    DEF TornInv, AppShape, HandlerAwaited, TornHasNoSession, TornNeverStored,
        NoHandler
<1>5. CASE Launch
  <2>1. /\ phase = "down" /\ instance' = instance + 1
        /\ UNCHANGED <<item, sessions, begin, sheet, task, via>>
    BY <1>5 DEF Launch
  <2>2. begin.step = "none"
    BY <2>1 DEF TornInv, HandlerAwaited
  <2> QED
    BY <2>1, <2>2
    DEF TornInv, AppShape, HandlerAwaited, TornHasNoSession, TornNeverStored
<1> QED
  BY <1>1, <1>2, <1>3, <1>4, <1>5

LEMMA TornPreserved == TornInv /\ [AppNext]_appVars => TornInv'
<1> SUFFICES ASSUME TornInv, [AppNext]_appVars
             PROVE  TornInv'
  OBVIOUS
<1>1. ASSUME NEW t \in Tasks, Continues(t)
      PROVE  TornInv'
  BY <1>1, TaskKeeps, RequestKeeps, UnlockedKeeps DEF Continues
<1>2. CASE UNCHANGED appVars
  BY <1>2
  DEF appVars, serviceVars, TornInv, AppShape, HandlerAwaited, TornHasNoSession,
      TornNeverStored
<1> QED
  BY <1>1, <1>2, StartKeeps, DaemonKeeps DEF AppNext

\* However many daemons come and go, and whenever a session is cleared while it
\* is copied, no save stores what was torn.
THEOREM TornSecretsAreNotSaved == AppSpec => []TornNeverStored
<1>1. TornInv => TornNeverStored
  BY DEF TornInv
<1> QED
  BY <1>1, TornInitially, TornPreserved, PTL DEF AppSpec

-----------------------------------------------------------------------------
\* The types of the app.  What is shown names a daemon because a task that
\* fetches has one, and another daemon starts only below the bound.
AppTypeInv ==
  /\ AppTypeOK
  /\ phase # "up" => instance < MaxDaemons
  /\ \A t \in Tasks : task[t] \in {"required", "connected", "fetch", "show"} => via[t] # 0

LEMMA AppBounds ==
  /\ 0 \in 0..MaxDaemons /\ 1 \in 1..MaxDaemons /\ 0 \in 0..MaxRevision
  /\ \A i \in 1..MaxDaemons :
       /\ i \in 0..MaxDaemons /\ i # 0
       /\ i < MaxDaemons => i + 1 \in 1..MaxDaemons
  /\ \A i \in 0..MaxDaemons : i # 0 => i \in 1..MaxDaemons
  /\ \A r \in 0..MaxRevision : r < MaxRevision => r + 1 \in 0..MaxRevision
BY AppAssumption

LEMMA ChangedTyped == AppTypeInv => Changed \in 0..MaxRevision
BY AppBounds DEF Changed, AppTypeInv, AppTypeOK

LEMMA AppTypesInitially == AppInit => AppTypeInv
<1> SUFFICES ASSUME AppInit PROVE AppTypeInv
  OBVIOUS
<1> USE DEF AppInit, NoHandler, Secrets
<1>1. /\ begin \in [step : {"none", "prompt", "registered", "answered"},
                   secret : Secrets \cup {Nil}]
      /\ phase = "up" /\ \A t \in Tasks : task[t] = "idle"
  OBVIOUS
<1>2. AppTypeOK
  BY <1>1, AppBounds DEF AppTypeOK
<1> QED
  BY <1>1, <1>2 DEF AppTypeInv

LEMMA AppDaemonTypes ==
  ASSUME AppTypeInv,
         \/ Change \/ Approve \/ Deny \/ CopySecret
         \/ Close \/ Exit \/ Launch \/ SessionEnds
  PROVE  AppTypeInv'
<1> USE DEF AppTypeInv, AppTypeOK, Secrets
<1>1. CASE Change
  BY <1>1, ChangedTyped DEF Change
<1>2. CASE Approve
  BY <1>2 DEF Approve, Handler
<1>3. CASE Deny \/ CopySecret
  <2>1. begin' \in [step : {"none", "prompt", "registered", "answered"},
                    secret : Secrets \cup {Nil}]
    BY <1>3 DEF Deny, CopySecret, Handler
  <2> QED
    BY <1>3, <2>1 DEF Deny, CopySecret
<1>4. CASE Close \/ Exit \/ SessionEnds
  BY <1>4, AppBounds DEF Close, Exit, SessionEnds, NoHandler
<1>5. CASE Launch
  BY <1>5, AppBounds DEF Launch
<1> QED
  BY <1>1, <1>2, <1>3, <1>4, <1>5

LEMMA AppStartTypes ==
  ASSUME AppTypeInv,
         \/ StartPoll \/ StartCommand \/ StartDoctor \/ StartUnlock
         \/ sheet # Nil /\ \E secret \in {sheet.secret, "new"} : StartSave(secret)
         \/ Dismiss
  PROVE  AppTypeInv'
<1> USE DEF AppTypeInv, AppTypeOK, Secrets, serviceVars, Moves
<1>0. CASE StartPoll
  BY <1>0 DEF StartPoll, Tasks
<1>1. ASSUME NEW t \in Tasks, RequireClient(t), isWorking' = TRUE,
             UNCHANGED <<serviceVars, client, shown, sheet, got>>
      PROVE  AppTypeInv'
  <2>1. CASE client = 0
    BY <1>1, <2>1 DEF RequireClient
  <2>2. CASE client # 0
    BY <1>1, <2>2 DEF RequireClient
  <2> QED
    BY <2>1, <2>2
<1>4. CASE StartCommand \/ StartDoctor \/ StartUnlock
  BY <1>1, <1>4 DEF StartCommand, StartDoctor, StartUnlock, Tasks
<1>2. ASSUME NEW secret \in {sheet.secret, "new"}, StartSave(secret) PROVE AppTypeInv'
  BY <1>2 DEF StartSave, RequireClient
<1>3. CASE Dismiss
  BY <1>3 DEF Dismiss
<1> QED
  BY <1>0, <1>2, <1>3, <1>4

LEMMA AppTaskTypes ==
  ASSUME AppTypeInv, NEW t \in Tasks, Continues(t)
  PROVE  AppTypeInv'
<1> USE DEF AppTypeInv, AppTypeOK, Secrets, serviceVars, Moves, Drops
<1>2. CASE Fails(t) \/ Answered(t) \/ ErrorAnswered(t)
  BY <1>2, AppBounds DEF Fails, Answered, ErrorAnswered, SheetAfter
<1>3. CASE ConnectDaemon(t)
  BY <1>3, AppBounds DEF ConnectDaemon
<1>4. CASE Resume(t)
  BY <1>4, AppBounds DEF Resume
<1>5. CASE Fetch(t)
  BY <1>5, AppBounds DEF Fetch
<1>6. CASE Show(t)
  BY <1>6, AppBounds DEF Show, Done, SheetAfter
<1>7. CASE RefreshFails(t)
  BY <1>7, AppBounds DEF RefreshFails, Done, SheetAfter
<1>8. CASE SendCommand(t)
  BY <1>8, ChangedTyped DEF SendCommand
<1>9. CASE SendUnlock
  BY <1>9, AppBounds DEF SendUnlock, Tasks
<1>10. CASE SendSave
  BY <1>10, ChangedTyped DEF SendSave, Tasks
<1>11. CASE SaveRefused
  BY <1>11, AppBounds DEF SaveRefused, Tasks
<1>12. CASE Unlocked
  BY <1>12, AppBounds DEF Unlocked, NoHandler, Tasks
<1> QED
  BY <1>2, <1>3, <1>4, <1>5, <1>6, <1>7, <1>8, <1>9, <1>10, <1>11, <1>12
  DEF Continues, Refreshes

LEMMA AppTypesPreserved == AppTypeInv /\ [AppNext]_appVars => AppTypeInv'
<1>1. ASSUME AppTypeInv, AppNext PROVE AppTypeInv'
  BY <1>1, AppDaemonTypes, AppStartTypes, AppTaskTypes DEF AppNext
<1>2. ASSUME AppTypeInv, UNCHANGED appVars PROVE AppTypeInv'
  BY <1>2 DEF appVars, serviceVars, AppTypeInv, AppTypeOK
<1> QED
  BY <1>1, <1>2

-----------------------------------------------------------------------------
\* The composition: a step of one part is a step of its own specification, and
\* the others stand still.
LEMMA PartsMoveAlone ==
  Next => /\ [DiscoveryNext]_discoveryVars
          /\ [UpdateNext]_updateVars
          /\ [AppNext]_appVars
<1> SUFFICES ASSUME Next
             PROVE  /\ [DiscoveryNext]_discoveryVars
                    /\ [UpdateNext]_updateVars
                    /\ [AppNext]_appVars
  OBVIOUS
<1>1. (Process("p1") \/ \E v \in names : Release(v)) => UpdateNext
  BY PartsAssumption DEF UpdateNext
<1> QED
  BY <1>1 DEF Next

\* What is shown of discovery, of the update check and of the app alone holds of
\* the specification that the run checks.
THEOREM ClientPartsBehave == Spec => DiscoverySpec /\ UpdateSpec /\ AppSpec
<1>1. Init => DiscoveryInit /\ UpdateInit /\ AppInit
  BY DEF Init
<1>2. UNCHANGED vars => /\ UNCHANGED discoveryVars
                        /\ UNCHANGED updateVars
                        /\ UNCHANGED appVars
  BY DEF vars
<1> QED
  BY <1>1, <1>2, PartsMoveAlone, PTL DEF Spec, DiscoverySpec, UpdateSpec, AppSpec

\* Types of the client side, for all clients, versions, daemons and bounds.
THEOREM ClientPartsTyped == Spec => []TypeOK
<1>1. DiscoveryTypeOK /\ UpdateInv /\ AppTypeInv => TypeOK
  BY DEF DiscoveryTypeOK, UpdateInv, AppTypeInv, TypeOK
<1>2. AppSpec => []AppTypeInv
  BY AppTypesInitially, AppTypesPreserved, PTL DEF AppSpec
<1> QED
  BY <1>1, <1>2, ClientPartsBehave, DiscoveryInvariant, UpdateInvariant, PTL
==============================================================================
