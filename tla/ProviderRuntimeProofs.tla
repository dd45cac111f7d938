------------------------- MODULE ProviderRuntimeProofs -------------------------
(***************************************************************************)
(* Proofs about ProviderRuntime, for any number of tasks, logins, turns    *)
(* and child processes: the types, and with them that no session is closed *)
(* under its turn and that no account is left to be authorized by nobody.  *)
(***************************************************************************)
EXTENDS ProviderRuntime, TLAPS

-----------------------------------------------------------------------------
(* The parts of the type invariant. *)

PcTyped ==
  /\ pc \in [Actors -> Stages]
  /\ server \in [Actors -> {NoServer} \cup Servers]
  /\ \A a \in Actors : server[a] = NoServer <=> pc[a] \in {"none", "resolve"}

TasksTyped ==
  /\ begun \in [Tasks -> BOOLEAN] /\ turns \in 0..MaxTurns
  /\ session \in [Tasks -> {"none", "open", "closed"}]
  /\ active \in [Tasks -> BOOLEAN] /\ aborted \in [Tasks -> BOOLEAN]
  /\ failed \in [Tasks -> BOOLEAN] /\ done \in [Tasks -> BOOLEAN]
  /\ thread \in [Tasks -> {NoServer} \cup Servers]

ChildrenTyped ==
  /\ child \in [Servers -> {"unused", "starting", "up", "dead"}]
  /\ client \in {NoServer} \cup Servers
  /\ bound \subseteq Servers

LoginsTyped ==
  /\ op \in Operations /\ auth \in AuthStates
  /\ pending \subseteq issued /\ issued \subseteq Logins

LEMMA TypesByPart == TypeOK <=> PcTyped /\ TasksTyped /\ ChildrenTyped /\ LoginsTyped
BY DEF TypeOK, PcTyped, TasksTyped, ChildrenTyped, LoginsTyped
LEMMA NextTypesByPart == TypeOK' <=> PcTyped' /\ TasksTyped' /\ ChildrenTyped' /\ LoginsTyped'
BY DEF TypeOK, PcTyped, TasksTyped, ChildrenTyped, LoginsTyped

ProviderInv == TypeOK /\ RunningTurnKeepsItsSession /\ AuthorizingHasALogin

\* What a step says of one actor: the others stay where they are.
LEMMA AtType ==
  ASSUME PcTyped, NEW a \in Actors, NEW stage \in Stages, NEW p \in {NoServer} \cup Servers,
         p = NoServer <=> stage \in {"none", "resolve"}, At(a, stage, p)
  PROVE  /\ PcTyped' /\ pc'[a] = stage
         /\ \A b \in Actors : b # a => pc'[b] = pc[b]
BY DEF PcTyped, At

LEMMA ServerFacts == NoServer \notin Servers /\ Servers \subseteq Nat
BY ProviderAssumption DEF Servers, NoServer

LEMMA ActorFacts ==
  /\ Tasks \subseteq Actors /\ Logins \subseteq Actors /\ User \in Actors
  /\ User \notin Tasks /\ User \notin Logins /\ Tasks \cap Logins = {}
BY ProviderAssumption DEF Actors

\* Entering clientFor: the client in the map is awaited, or the executable.
LEMMA EnterType ==
  ASSUME PcTyped, ChildrenTyped, NEW a \in Actors, EnterClientFor(a)
  PROVE  /\ PcTyped' /\ pc'[a] \in {"init", "resolve"}
         /\ \A b \in Actors : b # a => pc'[b] = pc[b]
<1>1. CASE client # NoServer
  BY <1>1, AtType DEF EnterClientFor, ChildrenTyped, Stages
<1>2. CASE client = NoServer
  BY <1>2, AtType DEF EnterClientFor, Stages
<1> QED
  BY <1>1, <1>2

LEMMA SpawnType ==
  ASSUME PcTyped, ChildrenTyped, NEW a \in Actors, Spawn(a)
  PROVE  /\ PcTyped' /\ ChildrenTyped' /\ pc'[a] = "init"
         /\ \A b \in Actors : b # a => pc'[b] = pc[b]
<1>1. PICK p \in Servers : /\ child' = [child EXCEPT ![p] = "starting"]
                           /\ client' = p /\ bound' = bound \cup {p}
                           /\ At(a, "init", p)
  BY DEF Spawn
<1>2. ChildrenTyped'
  BY <1>1 DEF ChildrenTyped
<1>3. "init" \in Stages /\ p # NoServer
  BY ServerFacts DEF Stages
<1> QED
  BY <1>1, <1>2, <1>3, AtType

LEMMA ServerOf ==
  ASSUME PcTyped, NEW a \in Actors, pc[a] \notin {"none", "resolve"}
  PROVE  server[a] \in Servers /\ server[a] # NoServer
BY DEF PcTyped

-----------------------------------------------------------------------------
(* The turns of the tasks. *)

TaskEffect(t) ==
  /\ PcTyped' /\ TasksTyped' /\ ChildrenTyped'
  /\ \A b \in Actors : b # t => pc'[b] = pc[b]
  /\ pc'[t] # "none" => session'[t] = "open" /\ active'[t]
  /\ \A s \in Tasks : s # t => session'[s] = session[s] /\ active'[s] = active[s]
  /\ UNCHANGED <<op, pending, issued>> /\ auth' \in {auth, "authenticated"}

LEMMA TaskEffectKeeps ==
  ASSUME ProviderInv, NEW t \in Tasks, TaskEffect(t)
  PROVE  ProviderInv'
<1>1. PcTyped /\ TasksTyped /\ ChildrenTyped /\ LoginsTyped
  BY TypesByPart DEF ProviderInv
<1>2. LoginsTyped'
  BY <1>1 DEF TaskEffect, LoginsTyped, AuthStates
<1>3. TypeOK'
  BY <1>1, <1>2, NextTypesByPart DEF TaskEffect
<1>4. RunningTurnKeepsItsSession'
  BY ActorFacts DEF ProviderInv, RunningTurnKeepsItsSession, Running, TaskEffect
<1>5. AuthorizingHasALogin'
  BY ActorFacts DEF ProviderInv, AuthorizingHasALogin, TaskEffect
<1> QED
  BY <1>3, <1>4, <1>5 DEF ProviderInv

\* The turn stays where it has a session.
LEMMA TurnGoesTo ==
  ASSUME ProviderInv, NEW t \in Tasks, pc[t] # "none", NEW stage \in Stages,
         NEW p \in {NoServer} \cup Servers, p = NoServer <=> stage \in {"none", "resolve"},
         At(t, stage, p), TasksTyped', UNCHANGED <<session, active>>, UNCHANGED childVars,
         UNCHANGED loginVars
  PROVE  TaskEffect(t)
<1>1. PcTyped /\ ChildrenTyped
  BY TypesByPart DEF ProviderInv
<1>2. PcTyped' /\ \A b \in Actors : b # t => pc'[b] = pc[b]
  BY <1>1, ActorFacts, AtType
<1>3. session[t] = "open" /\ active[t]
  BY DEF ProviderInv, RunningTurnKeepsItsSession, Running
<1> QED
  BY <1>1, <1>2, <1>3 DEF TaskEffect, ChildrenTyped, childVars, loginVars

\* However the turn ends, no session is taken from another task.
LEMMA TurnEnds ==
  ASSUME ProviderInv, NEW t \in Tasks, NEW ok \in BOOLEAN, TurnOver(t, ok), UNCHANGED thread,
         UNCHANGED childVars, UNCHANGED <<op, pending, issued>>, auth' \in {auth, "authenticated"}
  PROVE  TaskEffect(t)
<1>1. PcTyped /\ ChildrenTyped /\ TasksTyped
  BY TypesByPart DEF ProviderInv
<1>2. "none" \in Stages
  BY DEF Stages
<1>3. At(t, "none", NoServer)
  BY DEF TurnOver
<1>4. PcTyped' /\ pc'[t] = "none" /\ \A b \in Actors : b # t => pc'[b] = pc[b]
  BY <1>1, <1>2, <1>3, ActorFacts, AtType
<1>5. TasksTyped' /\ \A s \in Tasks : s # t => session'[s] = session[s] /\ active'[s] = active[s]
  BY <1>1 DEF TurnOver, TasksTyped
<1> QED
  BY <1>1, <1>4, <1>5 DEF TaskEffect, ChildrenTyped, childVars

LEMMA BeginTurnEffect == ASSUME ProviderInv, NEW t \in Tasks, BeginTurn(t) PROVE TaskEffect(t)
<1>1. PcTyped /\ ChildrenTyped /\ TasksTyped
  BY TypesByPart DEF ProviderInv
<1>2. /\ pc[t] = "none" /\ turns < MaxTurns /\ turns' = turns + 1
      /\ begun' = [begun EXCEPT ![t] = TRUE]
      /\ UNCHANGED <<thread, aborted, done, childVars, loginVars>>
  BY DEF BeginTurn, Running
<1>3. turns' \in 0..MaxTurns
  BY <1>1, <1>2, ProviderAssumption DEF TasksTyped
<1>4. CASE /\ session' = [session EXCEPT ![t] = "open"] /\ active' = [active EXCEPT ![t] = TRUE]
           /\ EnterClientFor(t) /\ UNCHANGED failed
  <2>1. PcTyped' /\ \A b \in Actors : b # t => pc'[b] = pc[b]
    BY <1>1, <1>4, ActorFacts, EnterType
  <2>2. TasksTyped'
    BY <1>1, <1>2, <1>3, <1>4 DEF TasksTyped
  <2> QED BY <1>1, <1>2, <1>4, <2>1, <2>2 DEF TaskEffect, TasksTyped, ChildrenTyped, childVars,
             loginVars
<1>5. CASE failed' = [failed EXCEPT ![t] = TRUE] /\ UNCHANGED <<session, active, pc, server>>
  BY <1>1, <1>2, <1>3, <1>5 DEF TaskEffect, PcTyped, TasksTyped, ChildrenTyped, childVars,
     loginVars
<1> QED
  BY <1>4, <1>5 DEF BeginTurn

LEMMA SessionStepEffect ==
  ASSUME ProviderInv, NEW t \in Tasks, AbortTurn(t) \/ FinishTask(t) \/ Expire(t)
  PROVE  TaskEffect(t)
<1>1. PcTyped /\ ChildrenTyped /\ TasksTyped
  BY TypesByPart DEF ProviderInv
<1>2. UNCHANGED <<pc, server, begun, turns, active, failed, childVars, loginVars>>
  BY DEF AbortTurn, FinishTask, Expire
<1>3. PcTyped' /\ ChildrenTyped' /\ pc'[t] = pc[t] /\ UNCHANGED <<op, pending, issued, auth>>
  BY <1>1, <1>2 DEF PcTyped, ChildrenTyped, childVars, loginVars
<1>4. CASE AbortTurn(t)
  <2>1. UNCHANGED session /\ TasksTyped'
    BY <1>1, <1>2, <1>4 DEF AbortTurn, TasksTyped
  <2> QED BY <1>2, <1>3, <2>1 DEF TaskEffect, ProviderInv, RunningTurnKeepsItsSession, Running
<1>5. CASE FinishTask(t) \/ Expire(t)
  <2>1. CloseSession(t) /\ pc[t] = "none"
    BY <1>5 DEF FinishTask, Expire, MayExpire, Running, ProviderInv, RunningTurnKeepsItsSession
  <2>2. TasksTyped'
    <3>1. session' \in [Tasks -> {"none", "open", "closed"}]
          /\ thread' \in [Tasks -> {NoServer} \cup Servers]
      BY <1>1, <2>1 DEF CloseSession, TasksTyped
    <3>2. aborted' = aborted /\ done' \in [Tasks -> BOOLEAN]
      BY <1>1, <1>5 DEF FinishTask, Expire, TasksTyped
    <3> QED BY <1>1, <1>2, <3>1, <3>2 DEF TasksTyped
  <2>3. \A s \in Tasks : s # t => session'[s] = session[s]
    BY <1>1, <2>1 DEF CloseSession, TasksTyped
  <2> QED BY <1>2, <1>3, <2>1, <2>2, <2>3 DEF TaskEffect
<1> QED
  BY <1>4, <1>5

LEMMA TurnStepEffect ==
  ASSUME ProviderInv, NEW t \in Tasks,
         \/ TurnResolved(t) \/ TurnConnected(t) \/ AccountRead(t) \/ ThreadStarted(t)
         \/ TurnStarted(t) \/ TurnCompleted(t) \/ TurnInterrupted(t)
         \/ RequestSettles(t) \/ StartRefused(t)
  PROVE  TaskEffect(t)
<1>1. PcTyped /\ ChildrenTyped /\ TasksTyped
  BY TypesByPart DEF ProviderInv
<1>2. {"init", "account", "thread", "start", "wait", "none", "resolve"} \subseteq Stages
  BY DEF Stages
<1>3. pc[t] \notin {"none", "resolve"} => server[t] \in Servers /\ server[t] # NoServer
  BY <1>1, ActorFacts, ServerOf
<1>4. UNCHANGED taskVars => TasksTyped' /\ UNCHANGED <<session, active>>
  BY <1>1 DEF TasksTyped, taskVars
<1>5. ASSUME TurnFails(t) PROVE TaskEffect(t)
  BY <1>5, TurnEnds DEF TurnFails, loginVars
<1>6. ASSUME NEW stage \in {"account", "thread", "start", "wait"}, At(t, stage, server[t]),
             pc[t] \notin {"none", "resolve"}, TasksTyped', UNCHANGED <<session, active>>,
             UNCHANGED childVars, UNCHANGED loginVars
      PROVE  TaskEffect(t)
  BY <1>2, <1>3, <1>6, TurnGoesTo
<1>7. CASE TurnResolved(t)
  <2>1. CASE Spawn(t) /\ UNCHANGED <<taskVars, loginVars>>
    <3>1. PcTyped' /\ ChildrenTyped' /\ \A b \in Actors : b # t => pc'[b] = pc[b]
      BY <1>1, <2>1, ActorFacts, SpawnType
    <3>2. session[t] = "open" /\ active[t]
      BY <1>7 DEF TurnResolved, ProviderInv, RunningTurnKeepsItsSession, Running
    <3> QED BY <1>4, <2>1, <3>1, <3>2 DEF TaskEffect, loginVars
  <2> QED BY <1>5, <1>7, <2>1 DEF TurnResolved
<1>8. CASE TurnConnected(t)
  BY <1>4, <1>6, <1>8 DEF TurnConnected
<1>9. CASE AccountRead(t)
  <2>1. CASE At(t, IF thread[t] = NoServer THEN "thread" ELSE "start", server[t])
             /\ UNCHANGED taskVars
    BY <1>4, <1>6, <1>9, <2>1 DEF AccountRead
  <2>2. CASE TurnOver(t, FALSE) /\ UNCHANGED thread
    BY <1>9, <2>2, TurnEnds DEF AccountRead, loginVars
  <2> QED BY <1>9, <2>1, <2>2 DEF AccountRead
<1>10. CASE ThreadStarted(t)
  <2>1. server[t] \in Servers
    BY <1>3, <1>10 DEF ThreadStarted
  <2>2. TasksTyped' /\ UNCHANGED <<session, active>>
    BY <1>1, <1>10, <2>1 DEF ThreadStarted, TasksTyped
  <2> QED BY <1>6, <1>10, <2>2 DEF ThreadStarted
<1>11. CASE TurnStarted(t)
  BY <1>4, <1>5, <1>6, <1>11 DEF TurnStarted
<1>12. CASE TurnCompleted(t)
  <2>1. PICK ok \in BOOLEAN : TurnOver(t, ok) /\ auth' = IF ok THEN "authenticated" ELSE auth
    BY <1>12 DEF TurnCompleted
  <2> QED BY <1>12, <2>1, TurnEnds DEF TurnCompleted
<1>13. CASE TurnInterrupted(t) \/ RequestSettles(t) \/ StartRefused(t)
  BY <1>5, <1>13 DEF TurnInterrupted, RequestSettles, StartRefused
<1> QED
  BY <1>7, <1>8, <1>9, <1>10, <1>11, <1>12, <1>13

-----------------------------------------------------------------------------
(* The user, the refreshes and the child processes. *)

\* What the steps of the others have in common: no task is touched.
OtherEffect ==
  /\ PcTyped' /\ ChildrenTyped' /\ LoginsTyped' /\ UNCHANGED taskVars
  /\ \A t \in Tasks : pc'[t] = pc[t]

LEMMA OtherEffectKeeps ==
  ASSUME ProviderInv, OtherEffect, AuthorizingHasALogin'
  PROVE  ProviderInv'
<1>1. TasksTyped'
  BY TypesByPart DEF ProviderInv, OtherEffect, TasksTyped, taskVars
<1>2. TypeOK'
  BY <1>1, NextTypesByPart DEF OtherEffect
<1>3. RunningTurnKeepsItsSession'
  BY DEF ProviderInv, RunningTurnKeepsItsSession, Running, OtherEffect, taskVars
<1> QED
  BY <1>2, <1>3 DEF ProviderInv

LEMMA UserFailsEffect ==
  ASSUME ProviderInv, UserFails, UNCHANGED <<taskVars, childVars, pending, issued>>
  PROVE  ProviderInv'
<1>1. PcTyped /\ ChildrenTyped /\ TasksTyped /\ LoginsTyped /\ "none" \in Stages
  BY TypesByPart DEF ProviderInv, Stages
<1>2. PcTyped' /\ \A b \in Actors : b # User => pc'[b] = pc[b]
  BY <1>1, ActorFacts, AtType DEF UserFails
<1>3. OtherEffect
  BY <1>1, <1>2, ActorFacts DEF UserFails, OtherEffect, ChildrenTyped, childVars, LoginsTyped,
     Operations, AuthStates
<1>4. AuthorizingHasALogin'
  BY <1>2, ActorFacts DEF UserFails, ProviderInv, AuthorizingHasALogin
<1> QED
  BY <1>3, <1>4, OtherEffectKeeps

LEMMA RefreshFailsEffect ==
  ASSUME ProviderInv, NEW l \in Logins, RefreshFails(l),
         UNCHANGED <<taskVars, childVars, pending, issued>>
  PROVE  ProviderInv'
<1>1. PcTyped /\ ChildrenTyped /\ TasksTyped /\ LoginsTyped /\ "none" \in Stages
  BY TypesByPart DEF ProviderInv, Stages
<1>2. PcTyped' /\ \A b \in Actors : b # l => pc'[b] = pc[b]
  BY <1>1, ActorFacts, AtType DEF RefreshFails
<1>3. OtherEffect
  BY <1>1, <1>2, ActorFacts DEF RefreshFails, OtherEffect, ChildrenTyped, childVars, LoginsTyped,
     AuthStates
<1>4. AuthorizingHasALogin'
  BY DEF RefreshFails, AuthorizingHasALogin
<1> QED
  BY <1>3, <1>4, OtherEffectKeeps

LEMMA UserBeginsEffect ==
  ASSUME ProviderInv, StartLogin \/ CancelLogin \/ Logout
  PROVE  ProviderInv'
<1>1. PcTyped /\ ChildrenTyped /\ TasksTyped /\ LoginsTyped /\ "init" \in Stages
  BY TypesByPart DEF ProviderInv, Stages
<1>2. /\ pc[User] = "none" /\ UNCHANGED <<taskVars, auth, pending, issued>>
      /\ \/ At(User, "init", client) /\ client # NoServer /\ UNCHANGED childVars
         \/ Spawn(User)
         \/ EnterClientFor(User) /\ UNCHANGED childVars
      /\ op' \in Operations
  BY <1>1 DEF StartLogin, CancelLogin, Logout, Operations, LoginsTyped
<1>3. PcTyped' /\ ChildrenTyped' /\ \A b \in Actors : b # User => pc'[b] = pc[b]
  <2>1. CASE At(User, "init", client) /\ client # NoServer /\ UNCHANGED childVars
    BY <1>1, <2>1, ActorFacts, AtType DEF ChildrenTyped, childVars
  <2>2. CASE Spawn(User)
    BY <1>1, <2>2, ActorFacts, SpawnType
  <2>3. CASE EnterClientFor(User) /\ UNCHANGED childVars
    BY <1>1, <2>3, ActorFacts, EnterType DEF ChildrenTyped, childVars
  <2> QED BY <1>2, <2>1, <2>2, <2>3
<1>4. OtherEffect
  BY <1>1, <1>2, <1>3, ActorFacts DEF OtherEffect, LoginsTyped
<1>5. AuthorizingHasALogin'
  BY <1>2, <1>3, ActorFacts DEF ProviderInv, AuthorizingHasALogin
<1> QED
  BY <1>4, <1>5, OtherEffectKeeps

LEMMA UserGoesOnEffect ==
  ASSUME ProviderInv, UserConnected \/ UserAnswered \/ UserSettles
  PROVE  ProviderInv'
<1>1. PcTyped /\ ChildrenTyped /\ TasksTyped /\ LoginsTyped
      /\ "call" \in Stages /\ "none" \in Stages
  BY TypesByPart DEF ProviderInv, Stages
<1>2. CASE UserConnected
  <2>1. server[User] \in Servers /\ server[User] # NoServer
    BY <1>1, <1>2, ActorFacts, ServerOf DEF UserConnected
  <2>2. PcTyped' /\ pc'[User] = "call" /\ \A b \in Actors : b # User => pc'[b] = pc[b]
    BY <1>1, <1>2, <2>1, ActorFacts, AtType DEF UserConnected
  <2>3. OtherEffect
    BY <1>1, <1>2, <2>2, ActorFacts DEF UserConnected, OtherEffect, ChildrenTyped, childVars,
       LoginsTyped, AuthStates
  <2>4. AuthorizingHasALogin'
    BY <1>2, <2>2, ActorFacts DEF UserConnected, ProviderInv, AuthorizingHasALogin
  <2> QED BY <2>3, <2>4, OtherEffectKeeps
<1>3. CASE UserAnswered
  <2>1. /\ PcTyped' /\ \A b \in Actors : b # User => pc'[b] = pc[b]
    BY <1>1, <1>3, ActorFacts, AtType DEF UserAnswered
  <2>2. LoginsTyped'
    BY <1>1, <1>3 DEF UserAnswered, LoginsTyped, Operations, AuthStates
  <2>3. OtherEffect
    BY <1>1, <1>3, <2>1, <2>2, ActorFacts DEF UserAnswered, OtherEffect, ChildrenTyped, childVars
  <2>4. AuthorizingHasALogin'
    BY <1>3 DEF UserAnswered, AuthorizingHasALogin
  <2> QED BY <2>3, <2>4, OtherEffectKeeps
<1>4. CASE UserSettles
  BY <1>4, UserFailsEffect DEF UserSettles
<1> QED
  BY <1>2, <1>3, <1>4

LEMMA ResolvedEffect ==
  ASSUME ProviderInv, NEW a \in {User} \cup Logins, Resolved(a)
  PROVE  ProviderInv'
<1>1. PcTyped /\ ChildrenTyped /\ TasksTyped /\ LoginsTyped
  BY TypesByPart DEF ProviderInv
<1>2. CASE Spawn(a) /\ UNCHANGED <<op, auth>>
  <2>1. /\ PcTyped' /\ ChildrenTyped' /\ pc'[a] = "init"
        /\ \A b \in Actors : b # a => pc'[b] = pc[b]
    BY <1>1, <1>2, ActorFacts, SpawnType
  <2>2. pc[a] = "resolve" /\ UNCHANGED <<taskVars, pending, issued>>
    BY DEF Resolved
  <2>3. OtherEffect
    BY <1>1, <1>2, <2>1, <2>2, ActorFacts DEF OtherEffect, LoginsTyped
  <2>4. AuthorizingHasALogin'
    BY <1>2, <2>1, <2>2, ActorFacts DEF ProviderInv, AuthorizingHasALogin
  <2> QED BY <2>3, <2>4, OtherEffectKeeps
<1>3. CASE (IF a = User THEN UserFails ELSE RefreshFails(a)) /\ UNCHANGED childVars
  BY <1>3, UserFailsEffect, RefreshFailsEffect DEF Resolved
<1> QED
  BY <1>2, <1>3 DEF Resolved

LEMMA RefreshEffect ==
  ASSUME ProviderInv, NEW l \in Logins, RefreshStep(l)
  PROVE  ProviderInv'
<1>1. PcTyped /\ ChildrenTyped /\ TasksTyped /\ LoginsTyped
      /\ "call" \in Stages /\ "none" \in Stages
  BY TypesByPart DEF ProviderInv, Stages
<1>2. CASE LoginCompleted(l)
  <2>1. /\ PcTyped' /\ \A b \in Actors : b # l => pc'[b] = pc[b]
        /\ auth' = "error" \/ pc'[l] # "none"
    BY <1>1, <1>2, ActorFacts, EnterType DEF LoginCompleted, PcTyped
  <2>2. OtherEffect
    BY <1>1, <1>2, <2>1, ActorFacts DEF LoginCompleted, OtherEffect, ChildrenTyped, childVars,
       LoginsTyped, AuthStates
  <2>3. AuthorizingHasALogin'
    BY <2>1 DEF AuthorizingHasALogin
  <2> QED BY <2>2, <2>3, OtherEffectKeeps
<1>3. CASE RefreshConnected(l)
  <2>1. server[l] \in Servers /\ server[l] # NoServer
    BY <1>1, <1>3, ActorFacts, ServerOf DEF RefreshConnected
  <2>2. PcTyped' /\ pc'[l] = "call" /\ \A b \in Actors : b # l => pc'[b] = pc[b]
    BY <1>1, <1>3, <2>1, ActorFacts, AtType DEF RefreshConnected
  <2>3. OtherEffect
    BY <1>1, <1>3, <2>2, ActorFacts DEF RefreshConnected, OtherEffect, ChildrenTyped, childVars,
       LoginsTyped, loginVars
  <2>4. AuthorizingHasALogin'
    BY <2>2 DEF AuthorizingHasALogin
  <2> QED BY <2>3, <2>4, OtherEffectKeeps
<1>4. CASE RefreshAnswered(l)
  <2>1. PcTyped' /\ \A b \in Actors : b # l => pc'[b] = pc[b]
    BY <1>1, <1>4, ActorFacts, AtType DEF RefreshAnswered
  <2>2. OtherEffect
    BY <1>1, <1>4, <2>1, ActorFacts DEF RefreshAnswered, OtherEffect, ChildrenTyped, childVars,
       LoginsTyped, AuthStates
  <2>3. AuthorizingHasALogin'
    BY <1>4 DEF RefreshAnswered, AuthorizingHasALogin
  <2> QED BY <2>2, <2>3, OtherEffectKeeps
<1>5. CASE RefreshSettles(l)
  BY <1>5, RefreshFailsEffect DEF RefreshSettles
<1> QED
  BY <1>2, <1>3, <1>4, <1>5 DEF RefreshStep

\* When a child of the account exits, the logins that wait for it end with it.
LEMMA ServerEffect ==
  ASSUME ProviderInv, (\E p \in Servers : ServerStep(p)) \/ AccountUpdated
  PROVE  ProviderInv'
<1>1. PcTyped /\ ChildrenTyped /\ TasksTyped /\ LoginsTyped
  BY TypesByPart DEF ProviderInv
<1>2. ASSUME UNCHANGED <<pc, server, taskVars, op, issued>>, ChildrenTyped', pending' \subseteq pending,
             auth' \in AuthStates,
             auth' = "authorizing" => auth = "authorizing" /\ pending' = pending
      PROVE  ProviderInv'
  <2>1. OtherEffect
    BY <1>1, <1>2 DEF OtherEffect, PcTyped, LoginsTyped
  <2>2. AuthorizingHasALogin'
    BY <1>2 DEF ProviderInv, AuthorizingHasALogin
  <2> QED BY <2>1, <2>2, OtherEffectKeeps
<1>3. ASSUME NEW p \in Servers, ServerReady(p) PROVE ProviderInv'
  BY <1>1, <1>2, <1>3 DEF ServerReady, ChildrenTyped, loginVars, LoginsTyped
<1>4. ASSUME NEW p \in Servers, ServerExits(p) PROVE ProviderInv'
  <2>1. /\ UNCHANGED <<pc, server, taskVars, op, issued>>
        /\ ChildrenTyped' /\ pending' \subseteq pending /\ auth' \in AuthStates
    BY <1>1, <1>4 DEF ServerExits, ManagerOnExit, StartFails, ChildrenTyped, LoginsTyped, AuthStates
  <2>2. auth' = "authorizing" => auth = "authorizing" /\ pending' = pending
    BY <1>4 DEF ServerExits, ManagerOnExit, StartFails
  <2> QED BY <1>2, <2>1, <2>2
<1>5. ASSUME NEW p \in Servers, StartTimesOut(p) PROVE ProviderInv'
  <2>1. /\ UNCHANGED <<pc, server, taskVars, op, issued>> /\ auth' = "error"
        /\ ChildrenTyped' /\ pending' \subseteq pending
    BY <1>1, <1>5 DEF StartTimesOut, StartFails, ChildrenTyped
  <2> QED BY <1>2, <2>1 DEF AuthStates
<1>6. CASE AccountUpdated
  BY <1>1, <1>2, <1>6 DEF AccountUpdated, ChildrenTyped, childVars, AuthStates
<1> QED
  BY <1>3, <1>4, <1>5, <1>6 DEF ServerStep

-----------------------------------------------------------------------------
(* The theorems. *)

LEMMA ProviderInit == Init => ProviderInv
<1> SUFFICES ASSUME Init PROVE ProviderInv
  OBVIOUS
<1>1. PcTyped
  BY DEF Init, PcTyped, Stages
<1>2. TasksTyped /\ ChildrenTyped /\ LoginsTyped
  BY ProviderAssumption DEF Init, TasksTyped, ChildrenTyped, LoginsTyped, Operations, AuthStates
<1>3. RunningTurnKeepsItsSession /\ AuthorizingHasALogin
  BY ActorFacts DEF Init, RunningTurnKeepsItsSession, Running, AuthorizingHasALogin
<1> QED
  BY <1>1, <1>2, <1>3, TypesByPart DEF ProviderInv

LEMMA ProviderStep == ProviderInv /\ [Next]_vars => ProviderInv'
<1> SUFFICES ASSUME ProviderInv, [Next]_vars PROVE ProviderInv'
  OBVIOUS
<1>1. CASE \E t \in Tasks : TaskStep(t)
  BY <1>1, BeginTurnEffect, SessionStepEffect, TurnStepEffect, TaskEffectKeeps DEF TaskStep
<1>2. CASE \E l \in Logins : RefreshStep(l)
  BY <1>2, RefreshEffect
<1>3. CASE (\E p \in Servers : ServerStep(p)) \/ AccountUpdated
  BY <1>3, ServerEffect
<1>4. CASE UserStep
  BY <1>4, UserBeginsEffect, UserGoesOnEffect DEF UserStep
<1>5. CASE \E a \in {User} \cup Logins : Resolved(a)
  BY <1>5, ResolvedEffect
<1>6. CASE UNCHANGED vars
  BY <1>6 DEF vars, taskVars, childVars, loginVars, ProviderInv, TypeOK,
     RunningTurnKeepsItsSession, Running, AuthorizingHasALogin
<1> QED
  BY <1>1, <1>2, <1>3, <1>4, <1>5, <1>6 DEF Next

\* The types, and with them both invariants below, hold in every state.
THEOREM ProviderInvariance == Spec => []ProviderInv
<1>1. Init => ProviderInv
  BY ProviderInit
<1>2. ProviderInv /\ [Next]_vars => ProviderInv'
  BY ProviderStep
<1> QED
  BY <1>1, <1>2, PTL DEF Spec

\* Neither the sweep of idle sessions nor another task's acquire ever closes a
\* session while its turn runs, at whichever await the turn stands.
THEOREM TurnsKeepTheirSession == Spec => []RunningTurnKeepsItsSession
<1>1. ProviderInv => RunningTurnKeepsItsSession
  BY DEF ProviderInv
<1> QED
  BY <1>1, ProviderInvariance, PTL

\* An account that shows it is being authorized has a login under way, handed
\* out or being read, whichever child processes exit and whoever else starts one.
THEOREM AuthorizationIsAwaited == Spec => []AuthorizingHasALogin
<1>1. ProviderInv => AuthorizingHasALogin
  BY DEF ProviderInv
<1> QED
  BY <1>1, ProviderInvariance, PTL
=============================================================================
