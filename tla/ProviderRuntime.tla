-------------------------- MODULE ProviderRuntime --------------------------
(***************************************************************************)
(* The provider sessions of the agent's tasks and the Codex app server of  *)
(* the account they share: provider-session-manager.js keeps one session   *)
(* per task and closes it when it has been idle too long,                  *)
(* codex-app-server-manager.js keeps one child process per account, the    *)
(* planning thread of each task and the state of the account's login, and  *)
(* codex-jsonrpc-client.js carries the requests.                           *)
(*                                                                         *)
(* Every await of these functions is a step boundary: pc[a] is the await   *)
(* an actor stands at.  The actors are the tasks (one planner turn at a    *)
(* time), the user (login, cancel, logout) and the account refresh that    *)
(* follows a completed login.  There is one account, and no clock: an idle *)
(* session may expire and a request may time out at any moment.            *)
(***************************************************************************)
EXTENDS Naturals, FiniteSets

CONSTANTS Tasks,      \* the agent tasks of the account
          Logins,     \* identifiers of the logins the server hands out
          User,       \* the settings page, one operation at a time
          MaxTurns,   \* bound: planner turns of all tasks
          MaxServers  \* bound: child processes started

ASSUME ProviderAssumption ==
  /\ MaxTurns \in Nat \ {0}
  /\ MaxServers \in Nat \ {0}
  /\ Tasks \cap Logins = {}
  /\ User \notin Tasks \cup Logins

Servers == 1..MaxServers
Actors == Tasks \cup Logins \cup {User}
NoServer == 0

Stages == {"none", "resolve", "init", "account", "thread", "start", "wait", "call"}
(* What the user waits for; a login identifier stands for its cancel. *)
Operations == {"none", "login", "logout"} \cup Logins
AuthStates == {"unauthenticated", "authorizing", "authenticated", "error"}

VARIABLES
  pc,       \* the await each actor stands at
  server,   \* the client each actor got from clientFor
  begun,    \* the task has begun a turn
  turns,    \* turns begun so far
  session,  \* the session object a task's runtime holds: none, open or closed
  active,   \* its metadata.activeTurns = 1
  aborted,  \* the abort signal of the task's current turn
  failed,   \* the last turn threw: the task is about to end
  done,     \* the task has ended (finishRuntime)
  thread,   \* taskThreads: the server a task's thread was started on
  child,    \* the child of each client: unused, starting, up or dead
  client,   \* clients and clientBindings of the account
  bound,    \* clients whose events still reach the manager
  op,       \* the operation the user waits for
  auth,     \* authState of the stored profile
  pending,  \* pendingLogins
  issued    \* logins the server has handed out

taskVars == <<begun, turns, session, active, aborted, failed, done, thread>>
childVars == <<child, client, bound>>
loginVars == <<op, auth, pending, issued>>
vars == <<pc, server, taskVars, childVars, loginVars>>

TypeOK ==
  /\ pc \in [Actors -> Stages]
  /\ server \in [Actors -> {NoServer} \cup Servers]
  /\ \A a \in Actors : server[a] = NoServer <=> pc[a] \in {"none", "resolve"}
  /\ begun \in [Tasks -> BOOLEAN]
  /\ turns \in 0..MaxTurns
  /\ session \in [Tasks -> {"none", "open", "closed"}]
  /\ active \in [Tasks -> BOOLEAN]
  /\ aborted \in [Tasks -> BOOLEAN]
  /\ failed \in [Tasks -> BOOLEAN]
  /\ done \in [Tasks -> BOOLEAN]
  /\ thread \in [Tasks -> {NoServer} \cup Servers]
  /\ child \in [Servers -> {"unused", "starting", "up", "dead"}]
  /\ client \in {NoServer} \cup Servers
  /\ bound \subseteq Servers
  /\ op \in Operations
  /\ auth \in AuthStates
  /\ pending \subseteq issued
  /\ issued \subseteq Logins

Init ==
  /\ pc = [a \in Actors |-> "none"]
  /\ server = [a \in Actors |-> NoServer]
  /\ begun = [t \in Tasks |-> FALSE]
  /\ turns = 0
  /\ session = [t \in Tasks |-> "none"]
  /\ active = [t \in Tasks |-> FALSE]
  /\ aborted = [t \in Tasks |-> FALSE]
  /\ failed = [t \in Tasks |-> FALSE]
  /\ done = [t \in Tasks |-> FALSE]
  /\ thread = [t \in Tasks |-> NoServer]
  /\ child = [p \in Servers |-> "unused"]
  /\ client = NoServer
  /\ bound = {}
  /\ op = "none"
  /\ auth = "unauthenticated"
  /\ pending = {}
  /\ issued = {}

Running(t) == pc[t] # "none"
Alive(p) == child[p] \in {"starting", "up"}

(* isProfileBusy: a task that has not ended runs on the account. *)
Busy == \E t \in Tasks : begun[t] /\ ~done[t]

At(a, stage, p) ==
  /\ pc' = [pc EXCEPT ![a] = stage]
  /\ server' = [server EXCEPT ![a] = p]

---------------------------------------------------------------------------
(* clientFor: the client of the account, or a new child process.           *)

(* The client already in the map is awaited; without one the executable is *)
(* looked up first, and other callers run meanwhile.                       *)
EnterClientFor(a) ==
  IF client # NoServer THEN At(a, "init", client) ELSE At(a, "resolve", NoServer)

(* A new child: bound to the manager and put in the map in one step. *)
Spawn(a) ==
  \E p \in Servers :
    /\ child[p] = "unused"
    /\ \A q \in Servers : q < p => child[q] # "unused"
    /\ child' = [child EXCEPT ![p] = "starting"]
    /\ client' = p
    /\ bound' = bound \cup {p}
    /\ At(a, "init", p)

ServerReady(p) ==
  /\ child[p] = "starting"
  /\ child' = [child EXCEPT ![p] = "up"]
  /\ UNCHANGED <<pc, server, taskVars, client, bound, loginVars>>

DeviationOnExit(p) ==
  IF p \in bound
  THEN /\ client' = NoServer
       /\ bound' = bound \ {p, client}
       /\ pending' = {}
       /\ UNCHANGED auth
  ELSE UNCHANGED <<client, bound, pending, auth>>

(* onExit as the manager sees it: whichever client of the account has      *)
(* exited, its entry, its binding and its pending logins are removed.      *)
ManagerOnExit(p) ==
  IF p \in bound
  THEN /\ client' = NoServer
       /\ bound' = bound \ {p, client}
       /\ pending' = {}
       /\ auth' = IF auth = "unauthenticated" THEN auth ELSE "error"
  ELSE UNCHANGED <<client, bound, pending, auth>>

(* start() fails: the creator removes the entry and the binding of the     *)
(* account, whatever client they now name, and kills its own child.        *)
StartFails(p) ==
  /\ client' = NoServer
  /\ bound' = bound \ {p, client}
  /\ auth' = "error"

(* A child that exits before it is ready also fails the start(): the       *)
(* request is rejected by the same event, and the creator goes on at once. *)
ServerExits(p) ==
  /\ Alive(p)
  /\ child' = [child EXCEPT ![p] = "dead"]
  /\ \/ child[p] = "up" /\ ManagerOnExit(p)
     \/ /\ child[p] = "starting" /\ StartFails(p)
        /\ pending' = IF p \in bound THEN {} ELSE pending
  /\ UNCHANGED <<pc, server, taskVars, op, issued>>

(* The initialize request timed out.  Its creator has unbound the current  *)
(* client when the child it kills exits; any other is still heard.         *)
StartTimesOut(p) ==
  /\ child[p] = "starting"
  /\ child' = [child EXCEPT ![p] = "dead"]
  /\ StartFails(p)
  /\ pending' = IF p \in bound /\ p # client THEN {} ELSE pending
  /\ UNCHANGED <<pc, server, taskVars, op, issued>>

---------------------------------------------------------------------------
(* Provider sessions.                                                      *)

(* Closing disposes the adapter, which forgets the task's thread. *)
CloseSession(t) ==
  /\ session' = [session EXCEPT ![t] = "closed"]
  /\ thread' = [thread EXCEPT ![t] = NoServer]

DeviationMayExpire(t) == session[t] = "open"

(* expireIdle closes the sessions that have had no turn for the idle       *)
(* period.  Whether the period is over is left open: any session without a *)
(* turn may be closed, by the sweep or by the acquire of another task.     *)
MayExpire(t) == session[t] = "open" /\ ~active[t]

Expire(t) ==
  /\ MayExpire(t)
  /\ CloseSession(t)
  /\ UNCHANGED <<pc, server, begun, turns, active, aborted, failed, done, childVars, loginVars>>

(* RUN_HARNESS: the runtime acquires a session once and keeps the object;  *)
(* a session that was closed meanwhile refuses the turn.                   *)
BeginTurn(t) ==
  /\ ~Running(t) /\ ~done[t] /\ ~failed[t] /\ turns < MaxTurns
  /\ turns' = turns + 1
  /\ begun' = [begun EXCEPT ![t] = TRUE]
  /\ \/ /\ session[t] # "closed"
        /\ session' = [session EXCEPT ![t] = "open"]
        /\ active' = [active EXCEPT ![t] = TRUE]
        /\ EnterClientFor(t)
        /\ UNCHANGED failed
     \/ /\ session[t] = "closed"
        /\ failed' = [failed EXCEPT ![t] = TRUE]
        /\ UNCHANGED <<session, active, pc, server>>
  /\ UNCHANGED <<thread, aborted, done, childVars, loginVars>>

(* The end of runTurn, by a value or by an error: the session is idle      *)
(* again.  An error ends the task unless its pause or cancel asked for it. *)
TurnOver(t, ok) ==
  /\ At(t, "none", NoServer)
  /\ active' = [active EXCEPT ![t] = FALSE]
  /\ failed' = [failed EXCEPT ![t] = ~ok /\ ~aborted[t]]
  /\ aborted' = [aborted EXCEPT ![t] = FALSE]
  /\ UNCHANGED <<begun, turns, session, done>>

(* Pause, cancel: the signal of the turn is aborted; only the wait for     *)
(* turn/completed listens to it, see TurnInterrupted.                      *)
AbortTurn(t) ==
  /\ Running(t) /\ ~aborted[t]
  /\ aborted' = [aborted EXCEPT ![t] = TRUE]
  /\ UNCHANGED <<pc, server, begun, turns, session, active, failed, done, thread,
                 childVars, loginVars>>

(* finishRuntime: the task has ended; its session is closed. *)
FinishTask(t) ==
  /\ ~Running(t) /\ ~done[t] /\ begun[t]
  /\ done' = [done EXCEPT ![t] = TRUE]
  /\ CloseSession(t)
  /\ UNCHANGED <<pc, server, begun, turns, active, aborted, failed, childVars, loginVars>>

---------------------------------------------------------------------------
(* runPlannerTurn, await by await.                                         *)

TurnFails(t) ==
  /\ TurnOver(t, FALSE)
  /\ UNCHANGED <<thread, childVars, loginVars>>

(* resolveExecutable answers: a child is spawned, even if another caller   *)
(* has spawned one since; or the executable is missing.                    *)
TurnResolved(t) ==
  /\ pc[t] = "resolve"
  /\ \/ /\ Spawn(t)
        /\ UNCHANGED <<taskVars, loginVars>>
     \/ TurnFails(t)

TurnConnected(t) ==
  /\ pc[t] = "init"
  /\ child[server[t]] = "up"
  /\ At(t, "account", server[t])
  /\ UNCHANGED <<taskVars, childVars, loginVars>>

(* The account is read at most once in five minutes, and login and logout  *)
(* leave the cached answer alone: what a turn learns says nothing of the   *)
(* account now.                                                            *)
AccountRead(t) ==
  /\ pc[t] = "account"
  /\ child[server[t]] = "up"
  /\ \/ /\ At(t, IF thread[t] = NoServer THEN "thread" ELSE "start", server[t])
        /\ UNCHANGED taskVars
     \/ /\ TurnOver(t, FALSE)
        /\ UNCHANGED thread
  /\ UNCHANGED <<childVars, loginVars>>

ThreadStarted(t) ==
  /\ pc[t] = "thread"
  /\ child[server[t]] = "up"
  /\ thread' = [thread EXCEPT ![t] = server[t]]
  /\ At(t, "start", server[t])
  /\ UNCHANGED <<begun, turns, session, active, aborted, failed, done, childVars, loginVars>>

(* turn/start: a server knows only the threads it started itself.  A       *)
(* signal aborted meanwhile interrupts the turn now.                       *)
TurnStarted(t) ==
  /\ pc[t] = "start"
  /\ child[server[t]] = "up"
  /\ IF thread[t] # server[t] \/ aborted[t]
     THEN TurnFails(t)
     ELSE /\ At(t, "wait", server[t])
          /\ UNCHANGED <<taskVars, childVars, loginVars>>

TurnCompleted(t) ==
  /\ pc[t] = "wait"
  /\ child[server[t]] = "up"
  /\ \E ok \in BOOLEAN :
       /\ TurnOver(t, ok)
       /\ auth' = IF ok THEN "authenticated" ELSE auth
  /\ UNCHANGED <<thread, childVars, op, pending, issued>>

TurnInterrupted(t) ==
  /\ pc[t] = "wait"
  /\ aborted[t]
  /\ TurnFails(t)

DeviationRequestSettles(t) ==
  /\ pc[t] \in {"account", "thread", "start", "wait"}
  /\ child[server[t]] = "dead"
  /\ TurnFails(t)

(* The request or the wait the turn stands at settles without its answer:  *)
(* its timer fires, or the child it was sent to has exited.                *)
RequestSettles(t) ==
  /\ pc[t] \in {"account", "thread", "start", "wait"}
  /\ TurnFails(t)

StartRefused(t) ==
  /\ pc[t] = "init"
  /\ child[server[t]] = "dead"
  /\ TurnFails(t)

---------------------------------------------------------------------------
(* Login, cancel and logout of the account.                                *)

(* startLogin has its executable before it checks the tasks: clientFor     *)
(* then spawns without another await.                                      *)
StartLogin ==
  /\ pc[User] = "none" /\ ~Busy /\ issued # Logins
  /\ op' = "login"
  /\ IF client # NoServer
     THEN At(User, "init", client) /\ UNCHANGED childVars
     ELSE Spawn(User)
  /\ UNCHANGED <<taskVars, auth, pending, issued>>

CancelLogin ==
  /\ pc[User] = "none"
  /\ op' \in pending
  /\ EnterClientFor(User)
  /\ UNCHANGED <<taskVars, childVars, auth, pending, issued>>

Logout ==
  /\ pc[User] = "none" /\ ~Busy
  /\ op' = "logout"
  /\ EnterClientFor(User)
  /\ UNCHANGED <<taskVars, childVars, auth, pending, issued>>

(* The user's operation fails; only a login that had begun leaves a mark. *)
UserFails ==
  /\ At(User, "none", NoServer)
  /\ op' = "none"
  /\ auth' = IF op = "login" /\ pc[User] = "call" THEN "error" ELSE auth

UserConnected ==
  /\ pc[User] = "init"
  /\ child[server[User]] = "up"
  /\ At(User, "call", server[User])
  /\ auth' = IF op = "login" THEN "authorizing" ELSE auth
  /\ UNCHANGED <<taskVars, childVars, op, pending, issued>>

(* The answer to the operation's request. *)
UserAnswered ==
  /\ pc[User] = "call"
  /\ child[server[User]] = "up"
  /\ At(User, "none", NoServer)
  /\ op' = "none"
  /\ \/ /\ op = "login"
        /\ \E l \in Logins \ issued : pending' = pending \cup {l} /\ issued' = issued \cup {l}
        /\ UNCHANGED auth
     \/ /\ op \in Logins
        /\ pending' = pending \ {op}
        /\ auth' = "unauthenticated"
        /\ UNCHANGED issued
     \/ /\ op = "logout"
        /\ auth' = "unauthenticated"
        /\ UNCHANGED <<pending, issued>>
  /\ UNCHANGED <<taskVars, childVars>>

(* Its timer fires, its child exits, or the child it waited for never      *)
(* started.                                                                *)
UserSettles ==
  /\ \/ pc[User] = "call"
     \/ pc[User] = "init" /\ child[server[User]] = "dead"
  /\ UserFails
  /\ UNCHANGED <<taskVars, childVars, pending, issued>>

(* account/updated: the server reports a login or a logout of its own. *)
AccountUpdated ==
  /\ \E p \in bound : child[p] = "up"
  /\ auth' \in {"authenticated", "unauthenticated"}
  /\ UNCHANGED <<pc, server, taskVars, childVars, op, pending, issued>>

(* account/login/completed: the login is over; a success refreshes the     *)
(* account through clientFor, on an actor of its own.  The client may be   *)
(* gone by then: a login answered after another client of the account has  *)
(* exited is pending without one.                                          *)
LoginCompleted(l) ==
  /\ l \in pending /\ pc[l] = "none"
  /\ \E p \in bound : child[p] = "up"
  /\ pending' = pending \ {l}
  /\ \/ /\ auth' = "error"
        /\ UNCHANGED <<pc, server>>
     \/ /\ EnterClientFor(l)
        /\ UNCHANGED auth
  /\ UNCHANGED <<taskVars, childVars, op, issued>>

RefreshConnected(l) ==
  /\ pc[l] = "init"
  /\ child[server[l]] = "up"
  /\ At(l, "call", server[l])
  /\ UNCHANGED <<taskVars, childVars, loginVars>>

RefreshAnswered(l) ==
  /\ pc[l] = "call"
  /\ child[server[l]] = "up"
  /\ At(l, "none", NoServer)
  /\ auth' \in {"authenticated", "unauthenticated"}
  /\ UNCHANGED <<taskVars, childVars, op, pending, issued>>

RefreshFails(l) ==
  /\ At(l, "none", NoServer)
  /\ auth' = "error"
  /\ UNCHANGED op

RefreshSettles(l) ==
  /\ \/ pc[l] = "call"
     \/ pc[l] = "init" /\ child[server[l]] = "dead"
  /\ RefreshFails(l)
  /\ UNCHANGED <<taskVars, childVars, pending, issued>>

(* resolveExecutable answers an operation of the user or a refresh: it     *)
(* spawns its child, or the executable is missing.                         *)
Resolved(a) ==
  /\ pc[a] = "resolve"
  /\ \/ Spawn(a) /\ UNCHANGED <<op, auth>>
     \/ (IF a = User THEN UserFails ELSE RefreshFails(a)) /\ UNCHANGED childVars
  /\ UNCHANGED <<taskVars, pending, issued>>

---------------------------------------------------------------------------
TaskStep(t) ==
  \/ BeginTurn(t) \/ AbortTurn(t) \/ FinishTask(t) \/ Expire(t)
  \/ TurnResolved(t) \/ TurnConnected(t) \/ AccountRead(t) \/ ThreadStarted(t)
  \/ TurnStarted(t) \/ TurnCompleted(t) \/ TurnInterrupted(t)
  \/ RequestSettles(t) \/ StartRefused(t)

RefreshStep(l) ==
  \/ LoginCompleted(l) \/ RefreshConnected(l)
  \/ RefreshAnswered(l) \/ RefreshSettles(l)

UserStep ==
  \/ StartLogin \/ CancelLogin \/ Logout
  \/ UserConnected \/ UserAnswered \/ UserSettles

ServerStep(p) == ServerReady(p) \/ ServerExits(p) \/ StartTimesOut(p)

Next ==
  \/ \E t \in Tasks : TaskStep(t)
  \/ \E l \in Logins : RefreshStep(l)
  \/ \E p \in Servers : ServerStep(p)
  \/ UserStep
  \/ \E a \in {User} \cup Logins : Resolved(a)
  \/ AccountUpdated

Spec == Init /\ [][Next]_vars

(* What moves a turn on without an answer of the server. *)
TurnGoesOn(t) ==
  TurnResolved(t) \/ TurnConnected(t) \/ RequestSettles(t) \/ StartRefused(t)

(* The timers fire, the sweep runs, promises that have settled go on.  The *)
(* server owes nothing.                                                    *)
FairSpec ==
  /\ Spec
  /\ \A t \in Tasks : /\ WF_vars(TurnGoesOn(t))
                      /\ WF_vars(Expire(t))
  /\ \A p \in Servers : WF_vars(StartTimesOut(p))

---------------------------------------------------------------------------
(* Properties.                                                             *)

(* A session is never closed under its turn: neither the sweep nor the     *)
(* acquire of another task takes a session whose turn still runs, however  *)
(* long the turn lasts.                                                    *)
RunningTurnKeepsItsSession ==
  \A t \in Tasks : Running(t) => session[t] = "open" /\ active[t]

(* An account shown as being authorized has a login that can still end:    *)
(* one whose start request is under way, one the server has handed out, or *)
(* one whose account is being read.                                        *)
AuthorizingHasALogin ==
  auth = "authorizing" =>
    \/ op = "login" /\ pc[User] = "call"
    \/ pending # {}
    \/ \E l \in Logins : pc[l] # "none"

(* Every planner turn ends, whatever the server does: each await of it has *)
(* a timer or is settled by the exit of the child.                         *)
TurnsSettle == \A t \in Tasks : Running(t) ~> ~Running(t)

(* design.md promises one app server process per profile, so that two      *)
(* processes never refresh one login.  Two callers that both find no       *)
(* client start one each.                                                  *)
OneServerPerProfile == Cardinality({p \in Servers : Alive(p)}) <= 1

=============================================================================
