---------------------------- MODULE AgentSession -----------------------------
(***************************************************************************)
(* One Agent task at run time: the mailbox, the effects it runs, and the   *)
(* gateway state the task holds (src/app/agent/session/session-manager.js  *)
(* with tools/gateway.js, approval/*.js and verification/*.js).            *)
(*                                                                         *)
(* The worker takes one command at a time from the mailbox, reduces it and *)
(* runs the effect it starts.  An effect is a step, or two when the code   *)
(* awaits something outside the process in the middle.  Everything else    *)
(* (the user's IPC calls, the approval timer, time) is a macrotask of the  *)
(* event loop and finds the worker either idle or waiting.                 *)
(***************************************************************************)
EXTENDS AgentStateMachine, FiniteSets

CONSTANTS
  OfferedKinds,  \* the kinds of actions the planner proposes
  Prechecks,     \* whether its changes declare a precondition
  TurnResults,   \* the goalStatus values of its decisions
  BundleSizes,   \* how many actions it proposes at once (2: a read-probe bundle)
  Faults,        \* what may go wrong (see AllFaults)
  UserControls,  \* the control calls the user makes
  DirectAnswers, \* whether a fact may answer the question (direct-answer.js)
  MaxResuming,   \* bound: resume calls awaiting the session's identity
  MaxRestarts    \* bound: crashes of the application

AllFaults == {"turn_error", "context_exhausted", "invalid_result", "observation",
              "capability_expired", "session_mismatch", "deadline"}

ASSUME SessionAssumption ==
  /\ OfferedKinds \subseteq Kinds /\ Prechecks \subseteq BOOLEAN
  /\ TurnResults \subseteq DOMAIN PlannerTarget /\ BundleSizes \subseteq {1, 2}
  /\ Faults \subseteq AllFaults /\ UserControls \subseteq {"pause", "cancel", "resume"}
  /\ DirectAnswers \subseteq BOOLEAN
  /\ MaxResuming \in Nat /\ MaxRestarts \in Nat

VARIABLES
  record,            \* the session record, as last committed to the store
  queue,             \* the mailbox
  effect,            \* what the worker is doing
  entry,             \* the newest entry of ApprovalManager.requests
  timer,             \* runtime.approvalTimer is set
  issued,            \* intents that hold an unused capability token
  grants,            \* digests approved for the whole task (ApprovalScopeStore)
  signal,            \* runtime.abortController
  safePoint,         \* cancelAfterSafePoint / pauseAfterSafePoint
  resourcesRevoked,
  pendingTerminalVerification,
  repeats,           \* length of the run of equal records in ProgressDetector
  deadlinePassed,
  resuming,          \* resume calls between their await and their push
  restarts,
  ran,               \* history: changes sent to the host, in order
  consentOnce,       \* history: changes the user approved and that did not run yet
  consentTask,       \* history: digests the user approved for the task
  doubted            \* history: changes one of whose checks ran and did not pass

gatewayVars == <<entry, issued, grants>>
ghostVars == <<ran, consentOnce, consentTask, doubted>>
clockVars == <<deadlinePassed, resuming, restarts>>
vars == <<record, queue, effect, entry, timer, issued, grants, signal, safePoint,
          resourcesRevoked, pendingTerminalVerification, repeats, deadlinePassed,
          resuming, restarts, ran, consentOnce, consentTask, doubted>>

-----------------------------------------------------------------------------
(* Commands, effects and the worker's position. *)

EffectTypes ==
  {"NONE", "RUN_HARNESS", "HARNESS_TURN", "EVALUATE_INTENT", "PRECHECK",
   "EXECUTE_INTENT", "EXECUTING", "BUILD_OBSERVATION", "REDUCE_CONTEXT",
   "EVALUATE_PROGRESS", "RUN_MUTATION_VERIFICATION", "RUN_CHECKS", "VERIFY_COMPLETION"}

Effects == [type : EffectTypes, origin : {"runtime", "user"},
            intents : Seq(Intents), result : CommandResults, doomed : BOOLEAN]

NoEffect == [type |-> "NONE", origin |-> "runtime", intents |-> <<>>,
             result |-> "none", doomed |-> FALSE]

Command(type, intents, result) ==
  [type |-> type, origin |-> "runtime", intents |-> intents, result |-> result, change |-> 0]

UserCommand(type, intents, result) ==
  [type |-> type, origin |-> "user", intents |-> intents, result |-> result, change |-> 0]

Verified(id, verdict) ==
  [type |-> "MUTATION_VERIFIED", origin |-> "runtime", intents |-> <<>>,
   result |-> verdict, change |-> id]

AwaitEffects == {"HARNESS_TURN", "PRECHECK", "EXECUTING", "BUILD_OBSERVATION",
                 "RUN_CHECKS", "VERIFY_COMPLETION"}

Idle == effect.type = "NONE" /\ queue = <<>>
Interruptible == Idle \/ effect.type \in AwaitEffects

\* enqueue: the effect is over and its outcome goes through the mailbox.
Enqueue(command) ==
  /\ queue' = Append(queue, command)
  /\ effect' = NoEffect

\* Deviation: a FAIL that is refused fails again.
QueueAfterEveryError(q, origin, type) ==
  IF origin = "runtime" THEN Append(q, Command("FAIL", <<>>, "none")) ELSE q

\* The queue after a command or its effect threw: what the runtime pushed turns
\* into FAIL (failRuntime); what the user pushed rejects to the caller alone.
QueueAfterError(q, origin, type) ==
  IF origin = "runtime" /\ type # "FAIL"
    THEN Append(q, Command("FAIL", <<>>, "none")) ELSE q

Throw ==
  /\ queue' = QueueAfterError(queue, effect.origin, "none")
  /\ effect' = NoEffect

NoEntry == [intent |-> NoIntent, state |-> "none"]
Entries == [intent : Intents, state : {"live", "resolved"}] \cup {NoEntry}

\* gateway.revokeTask: tokens, task grants and open approvals of the task.
Unresolved(e) == e          \* Deviation: revocation leaves approvals open.
Resolved(e) == [e EXCEPT !.state = IF @ = "live" THEN "resolved" ELSE @]

\* Deviation: grants for the whole task survive.
RevokeTokens ==
  /\ issued' = {}
  /\ entry' = Resolved(entry)
  /\ UNCHANGED grants

RevokeTask ==
  /\ issued' = {}
  /\ grants' = {}
  /\ entry' = Resolved(entry)

-----------------------------------------------------------------------------
(* The worker: TaskMailbox.drain and process. *)

IgnoreCommand ==
  /\ effect.type = "NONE" /\ queue # <<>>
  /\ IsTerminalStatus(record.status)
  /\ queue' = Tail(queue)
  /\ UNCHANGED <<record, effect, timer, signal, safePoint, resourcesRevoked,
                 pendingTerminalVerification, repeats, gatewayVars, clockVars, ghostVars>>

RejectCommand ==
  /\ effect.type = "NONE" /\ queue # <<>>
  /\ ~IsTerminalStatus(record.status)
  /\ ~Legal(record, Head(queue))
  /\ queue' = QueueAfterError(Tail(queue), Head(queue).origin, Head(queue).type)
  /\ UNCHANGED <<record, effect, timer, signal, safePoint, resourcesRevoked,
                 pendingTerminalVerification, repeats, gatewayVars, clockVars, ghostVars>>

\* A pause or cancel waiting for a safe point is honoured here: only after
\* MUTATION_VERIFIED, and only if the task goes on.
SafePointReached(command) ==
  /\ command.type = "MUTATION_VERIFIED"
  /\ safePoint # "none"
  /\ ~IsTerminalStatus(Target(record, command))

StatusAfter(command) ==
  IF SafePointReached(command)
    THEN IF safePoint = "cancel" THEN "cancelled" ELSE "paused"
    ELSE Target(record, command)

Aborts(command) == SafePointReached(command) \/ command.type \in {"PAUSE", "CANCEL"}

EffectAfter(command) ==
  LET type == NextEffect(record, command) IN
  IF SafePointReached(command) \/ type = "NONE" THEN NoEffect
  ELSE [type |-> type, origin |-> command.origin, intents |-> command.intents,
        result |-> command.result, doomed |-> FALSE]

\* abortActive and finishRuntime belong to the handler of the command.
AcceptCommand ==
  /\ effect.type = "NONE" /\ queue # <<>>
  /\ ~IsTerminalStatus(record.status)
  /\ LET command == Head(queue)
         status  == StatusAfter(command)
         settled == IsTerminalStatus(status)
     IN
     /\ Legal(record, command)
     /\ queue' = Tail(queue)
     /\ record' = [Reduced(record, command) EXCEPT !.status = status]
     /\ timer' = (status = "awaiting_approval" /\ record'.approval # NoIntent)
     /\ effect' = EffectAfter(command)
     /\ safePoint' = IF settled \/ command.type = "MUTATION_VERIFIED" THEN "none"
                                                                      ELSE safePoint
     /\ signal' = IF settled THEN "none"
                  ELSE IF Aborts(command) /\ signal = "live" THEN "aborted" ELSE signal
     /\ resourcesRevoked' = (resourcesRevoked \/ Aborts(command) \/ settled)
     /\ IF resourcesRevoked' /\ ~resourcesRevoked THEN RevokeTask ELSE UNCHANGED gatewayVars
  /\ UNCHANGED <<pendingTerminalVerification, repeats, clockVars, ghostVars>>

-----------------------------------------------------------------------------
(* RUN_HARNESS: one turn of the model. *)

BudgetAllows ==
  record.steps < MaxSteps /\ record.errors < MaxErrors /\ ~deadlinePassed

RunHarness ==
  /\ effect.type = "RUN_HARNESS"
  /\ IF ~BudgetAllows
       THEN /\ Enqueue(Command("INCONCLUSIVE", <<>>, "none"))
            /\ UNCHANGED <<record, signal>>
       ELSE /\ record' = [record EXCEPT !.steps = @ + 1]
            /\ signal' = "live"
            /\ \/ /\ effect' = [effect EXCEPT !.type = "HARNESS_TURN"]
                  /\ UNCHANGED queue
               \/ /\ "context_exhausted" \in Faults
                  /\ Enqueue(Command("INCONCLUSIVE", <<>>, "none"))
  /\ UNCHANGED <<timer, safePoint, resourcesRevoked, pendingTerminalVerification,
                 repeats, gatewayVars, clockVars, ghostVars>>

Proposable(id) ==
  {i \in [id : {id}, kind : OfferedKinds, content : Contents, pre : Prechecks \cup {FALSE},
          plan : Plans \cup {<<>>}, check : {FALSE}] :
     IF Mutates(i) THEN (i.pre => i.plan # <<>>) ELSE i.plan = <<>> /\ ~i.pre}

Proposals ==
  LET id == 2 * record.steps IN
  (IF 1 \in BundleSizes THEN {<<i>> : i \in Proposable(id)} ELSE {})
  \cup (IF 2 \in BundleSizes THEN Proposable(id) \X Proposable(id + 1) ELSE {})

HarnessTurn ==
  /\ effect.type = "HARNESS_TURN"
  /\ \/ \E result \in TurnResults :
          \E intents \in (IF result = "continue" THEN Proposals ELSE {<<>>}) :
            Enqueue(Command("PLANNER_DECISION", intents, result))
     \/ /\ "turn_error" \in Faults \/ signal = "aborted"
        /\ Throw
  /\ UNCHANGED <<record, timer, signal, safePoint, resourcesRevoked,
                 pendingTerminalVerification, repeats, gatewayVars, clockVars, ghostVars>>

-----------------------------------------------------------------------------
(* ToolGateway.prepare. *)

Grantable(intent) == intent.kind \in {"sensitive", "tool"}
ParallelSafe(intent) == intent.kind \in {"read", "sensitive", "broken"}

\* Deviation: a grant is looked up by tool, not by digest.
GrantedByTool(intent) == Grantable(intent) /\ \E d \in grants : d[1] = intent.kind

\* ApprovalManager.hasTaskGrant.
Granted(intent) == Grantable(intent) /\ Digest(intent) \in grants

\* PolicyEngine.evaluate, the missing-plan rule, and a grant of this digest.
PolicyOutcome(intent) ==
  IF intent.kind = "fatal" THEN "fatal"
  ELSE IF \/ intent.kind = "denied"
          \/ intent.kind \in {"shell", "tool"} /\ intent.plan = <<>> THEN "deny"
  ELSE IF intent.kind = "read" \/ Granted(intent) THEN "allow"
  ELSE "require_approval"

\* Deviation: the read budget allows one more.
PrepareThrowsLate(intent, reads) ==
  \/ intent.kind = "broken"
  \/ deadlinePassed
  \/ intent.kind = "read" /\ reads > MaxReads

\* Schema refusal, the deadline (timeoutFor) or the automatic-read budget.
PrepareThrows(intent, reads) ==
  \/ intent.kind = "broken"
  \/ deadlinePassed
  \/ intent.kind = "read" /\ reads >= MaxReads

AutoReads(intents) == Cardinality({k \in 1 .. Len(intents) : intents[k].kind = "read"})

\* What preparing these intents leaves behind: reads, tokens, an approval.
Prepare(intents) ==
  /\ record' = [record EXCEPT !.reads = @ + AutoReads(intents)]
  /\ issued' = issued \cup {intents[k] : k \in {n \in 1 .. Len(intents) :
                                                  PolicyOutcome(intents[n]) = "allow"}}
  /\ LET last == intents[Len(intents)] IN
     entry' = IF PolicyOutcome(last) = "require_approval"
                THEN [intent |-> last, state |-> "live"] ELSE entry
  /\ UNCHANGED grants

PolicyDecided(intents, result) == Command("POLICY_DECIDED", intents, result)

NeedsPrecheck(intent) ==
  intent.kind = "tool" /\ intent.pre /\ PolicyOutcome(intent) # "deny"

EvaluateIntent ==
  /\ effect.type = "EVALUATE_INTENT" /\ Len(effect.intents) = 1
  /\ LET intent == effect.intents[1] IN
     IF PrepareThrows(intent, record.reads)
       THEN Throw /\ UNCHANGED <<record, gatewayVars>>
       ELSE /\ Prepare(<<intent>>)
            /\ IF NeedsPrecheck(intent)
                 THEN /\ effect' = [effect EXCEPT !.type = "PRECHECK",
                                                  !.result = PolicyOutcome(intent)]
                      /\ UNCHANGED queue
                 ELSE Enqueue(PolicyDecided(<<intent>>, PolicyOutcome(intent)))
  /\ UNCHANGED <<timer, signal, safePoint, resourcesRevoked, pendingTerminalVerification,
                 repeats, clockVars, ghostVars>>

\* VerificationRunner.runChecks(precheck): one read-only check.  What prepare
\* issued stays with the gateway when the check turns the decision into a deny.
Precheck ==
  /\ effect.type = "PRECHECK"
  /\ LET affordable == record.reads < MaxReads IN
     /\ record' = IF affordable THEN [record EXCEPT !.reads = @ + 1] ELSE record
     /\ \/ affordable /\ Enqueue(PolicyDecided(effect.intents, effect.result))
        \/ Enqueue(PolicyDecided(effect.intents, "deny"))
  /\ UNCHANGED <<timer, signal, safePoint, resourcesRevoked, pendingTerminalVerification,
                 repeats, gatewayVars, clockVars, ghostVars>>

\* EVALUATE_READ_BUNDLE: run both probes together, or fall back to one action.
EvaluateReadBundle ==
  /\ effect.type = "EVALUATE_INTENT" /\ Len(effect.intents) = 2
  /\ LET a == effect.intents[1]
         b == effect.intents[2]
         Serial(prepared, chosen) ==
           /\ Prepare(prepared)
           /\ Enqueue(PolicyDecided(<<chosen>>, PolicyOutcome(chosen)))
         unsafe == IF ParallelSafe(a) THEN b ELSE a
     IN
     \/ /\ ~ParallelSafe(a) \/ ~ParallelSafe(b)
        /\ IF PrepareThrows(unsafe, record.reads)
             THEN Throw /\ UNCHANGED <<record, gatewayVars>>
             ELSE Serial(<<unsafe>>, unsafe)
     \/ /\ ParallelSafe(a) /\ ParallelSafe(b)
        /\ IF PrepareThrows(a, record.reads)
             THEN Throw /\ UNCHANGED <<record, gatewayVars>>
             ELSE IF a.kind # "read" \/ PrepareThrows(b, record.reads + 1)
             THEN Serial(<<a>>, a)
             ELSE IF b.kind # "read"
             THEN Serial(<<a, b>>, b)
             ELSE /\ Prepare(<<a, b>>)
                  /\ Enqueue(PolicyDecided(<<a, b>>, "allow"))
  /\ UNCHANGED <<timer, signal, safePoint, resourcesRevoked, pendingTerminalVerification,
                 repeats, clockVars, ghostVars>>

-----------------------------------------------------------------------------
(* ToolGateway.execute. *)

Elements(s) == {s[k] : k \in 1 .. Len(s)}

\* The capability is verified and consumed before anything is sent.  A call
\* under an aborted signal never reaches the host.
ExecuteIntent ==
  /\ effect.type = "EXECUTE_INTENT"
  /\ \/ /\ \/ ~(Elements(effect.intents) \subseteq issued)
           \/ "capability_expired" \in Faults /\ effect.intents[1].pre
        /\ Throw
        /\ UNCHANGED <<issued, ghostVars>>
     \/ /\ Elements(effect.intents) \subseteq issued
        /\ issued' = issued \ Elements(effect.intents)
        /\ effect' = [effect EXCEPT !.type = "EXECUTING", !.doomed = (signal = "aborted")]
        /\ LET intent == effect.intents[1] IN
           IF Mutates(intent) /\ signal # "aborted"
             THEN /\ ran' = Append(ran, intent)
                  /\ consentOnce' = consentOnce \ {intent}
                  /\ UNCHANGED <<consentTask, doubted>>
             ELSE UNCHANGED ghostVars
        /\ UNCHANGED queue
  /\ UNCHANGED <<record, entry, timer, grants, signal, safePoint, resourcesRevoked,
                 pendingTerminalVerification, repeats, clockVars>>

\* Results of one action, or of two (mixed: only the last failed).
ExecutionResults ==
  IF Len(effect.intents) = 2 THEN {"success", "mixed", "failures"}
  ELSE IF effect.doomed THEN {"failure"} ELSE {"success", "failure"}

ExecutionEnds ==
  /\ effect.type = "EXECUTING"
  /\ \/ \E result \in ExecutionResults :
          Enqueue(Command("EXECUTION_FINISHED", effect.intents, result))
     \/ /\ "invalid_result" \in Faults /\ ~effect.doomed
        /\ Len(effect.intents) = 1
        /\ effect.intents[1].kind \in {"read", "sensitive", "tool"}
        /\ Throw
  /\ UNCHANGED <<record, timer, signal, safePoint, resourcesRevoked,
                 pendingTerminalVerification, repeats, gatewayVars, clockVars, ghostVars>>

-----------------------------------------------------------------------------
(* Observation, follow-up checks and working memory. *)

LastVerdict(v, w) == w      \* Deviation: the last check decides alone.
Worse(v, w) ==
  IF "failed" \in {v, w} THEN "failed"
  ELSE IF "inconclusive" \in {v, w} THEN "inconclusive" ELSE "passed"

\* The runtime's own check has run: its verdict joins those of the earlier
\* checks of the change, and the last check settles the change.
CheckObserved(verdict) ==
  LET obligation == Head(record.obligations)
      worst      == Worse(obligation.worst, verdict)
      remaining  == Tail(obligation.checks)
  IN /\ doubted' = IF verdict = "passed" THEN doubted ELSE doubted \cup {obligation.id}
     /\ IF remaining # <<>>
          THEN /\ record' = [record EXCEPT !.obligations[1] =
                               [id |-> obligation.id, checks |-> remaining, worst |-> worst]]
               /\ UNCHANGED pendingTerminalVerification
          ELSE /\ record' = [record EXCEPT
                               !.changes[obligation.id] = IF @ = "none" THEN @ ELSE worst,
                               !.obligations = Tail(@)]
               /\ pendingTerminalVerification' =
                    IF worst = "passed" THEN pendingTerminalVerification ELSE worst

BuildObservation ==
  /\ effect.type = "BUILD_OBSERVATION"
  /\ \/ /\ Enqueue(Command("OBSERVATION_READY", effect.intents, effect.result))
        /\ IF effect.intents[1].check /\ record.obligations # <<>>
             THEN \E verdict \in (IF effect.result = "success" THEN {"passed", "failed"}
                                                               ELSE {"inconclusive"}) :
                    CheckObserved(verdict)
             ELSE UNCHANGED <<record, pendingTerminalVerification, doubted>>
     \/ /\ "observation" \in Faults
        /\ Throw
        /\ UNCHANGED <<record, pendingTerminalVerification, doubted>>
  /\ UNCHANGED <<timer, signal, safePoint, resourcesRevoked, repeats, gatewayVars,
                 clockVars, ran, consentOnce, consentTask>>

Capped(n, limit) == IF n > limit THEN limit ELSE n

ErrorsAfter(errors, result) ==
  CASE result = "success" -> 0
    [] result = "mixed"   -> 1
    [] result = "failure" -> Capped(errors + 1, MaxErrors + 1)
    [] OTHER              -> Capped(errors + 2, MaxErrors + 1)

\* A change gets its ChangeRecord and its verification obligation once.
Recorded(r) ==
  IF VerifiableChange(r.invocation) /\ r.changes[r.invocation.id] = "none"
    THEN [r EXCEPT !.changes[r.invocation.id] = "pending",
                   !.obligations = Append(@, [id |-> r.invocation.id,
                                              checks |-> r.invocation.plan,
                                              worst |-> "passed"])]
    ELSE r

\* A record equal to the one before makes the run longer, any other starts anew.
RepeatsAfter(n) ==
  IF n = 1 THEN {1, Capped(repeats + 1, MaxRepeats + 1)}
           ELSE {1, Capped(2, MaxRepeats + 1), Capped(repeats + 2, MaxRepeats + 1)}

ReduceContext ==
  /\ effect.type = "REDUCE_CONTEXT"
  /\ record' = Recorded([record EXCEPT !.errors = ErrorsAfter(@, effect.result)])
  /\ repeats' \in RepeatsAfter(Len(effect.intents))
  /\ Enqueue(Command("CONTEXT_REDUCED", <<>>, "none"))
  /\ UNCHANGED <<timer, signal, safePoint, resourcesRevoked, pendingTerminalVerification,
                 gatewayVars, clockVars, ghostVars>>

-----------------------------------------------------------------------------
(* EVALUATE_PROGRESS and the verification of changes. *)

FollowUp(kind) == [id |-> 0, kind |-> kind, content |-> CHOOSE c \in Contents : TRUE,
                   pre |-> FALSE, plan |-> <<>>, check |-> TRUE]

\* Deviation: a failed action is tried again as it is.
RetryCommand ==
  IF record.errors > 0 /\ record.invocation # NoIntent
    THEN Command("FOLLOW_UP_PROPOSED", <<record.invocation>>, "none")
    ELSE Command("CONTINUE_PLANNING", <<>>, "none")

\* The command evaluation ends in: the order of the tests is the code's.
ProgressCommand ==
  IF pendingTerminalVerification = "failed" THEN Command("FAIL", <<>>, "none")
  ELSE IF pendingTerminalVerification = "inconclusive"
    THEN Command("INCONCLUSIVE", <<>>, "none")
  ELSE IF record.obligations # <<>>
    THEN LET check == Head(Head(record.obligations).checks) IN
         IF check = "missing" THEN Command("CONTINUE_PLANNING", <<>>, "none")
         ELSE Command("FOLLOW_UP_PROPOSED", <<FollowUp(check)>>, "none")
  ELSE IF repeats > MaxRepeats \/ ~BudgetAllows
    THEN Command("INCONCLUSIVE", <<>>, "none")
  ELSE Command("CONTINUE_PLANNING", <<>>, "none")

EvaluateProgress ==
  /\ effect.type = "EVALUATE_PROGRESS"
  /\ Enqueue(ProgressCommand)
  /\ pendingTerminalVerification' = "none"
  /\ UNCHANGED <<record, timer, signal, safePoint, resourcesRevoked, repeats,
                 gatewayVars, clockVars, ghostVars>>

\* Verification after a resume.  The controller aborted by the pause is used
\* again, unless a cancel waits for the safe point.
RunMutationVerification ==
  /\ effect.type = "RUN_MUTATION_VERIFICATION"
  /\ signal' = IF safePoint = "cancel" /\ signal = "aborted" THEN "live" ELSE signal
  /\ effect' = [effect EXCEPT !.type = "RUN_CHECKS"]
  /\ UNCHANGED <<record, queue, timer, safePoint, resourcesRevoked,
                 pendingTerminalVerification, repeats, gatewayVars, clockVars, ghostVars>>

\* VerificationRunner.runChecks(postcheck): only automatic reads run; a check
\* that cannot be prepared is inconclusive, or fails the run after an abort.
ChecksEnd ==
  /\ effect.type = "RUN_CHECKS"
  /\ LET obligation == Head(record.obligations)
         checks     == obligation.checks
         reads      == Cardinality({k \in 1 .. Len(checks) : checks[k] = "read"})
         affordable == Capped(reads, MaxReads - record.reads)
         throws     == \/ deadlinePassed \/ reads > affordable
                       \/ "broken" \in Elements(checks)
     IN
     \/ \E used \in (IF deadlinePassed THEN 0 .. affordable ELSE {affordable}) :
          /\ record' = [record EXCEPT !.reads = @ + used]
          /\ \/ Enqueue(Verified(obligation.id, "inconclusive"))
             \/ /\ used > 0 /\ signal # "aborted"
                /\ Enqueue(Verified(obligation.id, "failed"))
             \/ /\ used = Len(checks)
                /\ Enqueue(Verified(obligation.id, "passed"))
     \/ throws /\ signal = "aborted" /\ Throw /\ UNCHANGED record
  /\ UNCHANGED <<timer, signal, safePoint, resourcesRevoked, pendingTerminalVerification,
                 repeats, gatewayVars, clockVars, ghostVars>>

\* Deviation: a change without a verdict is no obstacle.
FailedChanges == {id \in Ids : record.changes[id] = "failed"}
UnverifiedChanges == {id \in Ids : record.changes[id] \notin {"none", "passed"}}

\* CompletionEvaluator and completionOutcome: a direct answer wins over all.
VerifyCompletion ==
  /\ effect.type = "VERIFY_COMPLETION"
  /\ \E direct \in DirectAnswers, type \in {"COMPLETE", "INCONCLUSIVE", "FAIL"} :
       /\ direct => type = "COMPLETE"
       /\ ~direct => (type = "FAIL" <=> UnverifiedChanges # {})
       /\ Enqueue(Command(type, <<>>, "none"))
  /\ UNCHANGED <<record, timer, signal, safePoint, resourcesRevoked,
                 pendingTerminalVerification, repeats, gatewayVars, clockVars, ghostVars>>

-----------------------------------------------------------------------------
(* The user's control calls. *)

MutationInFlight ==
  /\ record.status \in {"executing", "observing", "reducing", "evaluating", "verifying"}
  /\ record.invocation # NoIntent
  /\ Mutates(record.invocation)

\* preemptActive: the signal, and through gateway.cancel what is running.
Preempt ==
  /\ signal' = IF signal = "live" THEN "aborted" ELSE signal
  /\ effect' = IF effect.type = "EXECUTING" THEN [effect EXCEPT !.doomed = TRUE] ELSE effect

Queued(type) == \E k \in 1 .. Len(queue) : queue[k].type = type

UserPause ==
  /\ "pause" \in UserControls /\ Interruptible /\ ~Queued("PAUSE")
  /\ ~IsTerminalStatus(record.status)
  /\ IF MutationInFlight
       THEN /\ safePoint' = IF safePoint = "cancel" THEN safePoint ELSE "pause"
            /\ UNCHANGED <<queue, effect, signal>>
       ELSE /\ Preempt
            /\ queue' = Append(queue, UserCommand("PAUSE", <<>>, "none"))
            /\ UNCHANGED safePoint
  /\ UNCHANGED <<record, timer, resourcesRevoked, pendingTerminalVerification, repeats,
                 gatewayVars, clockVars, ghostVars>>

UserCancel ==
  /\ "cancel" \in UserControls /\ Interruptible /\ ~Queued("CANCEL")
  /\ ~IsTerminalStatus(record.status)
  /\ Preempt
  /\ IF MutationInFlight
       THEN safePoint' = "cancel" /\ UNCHANGED queue
       ELSE /\ queue' = Append(queue, UserCommand("CANCEL", <<>>, "none"))
            /\ UNCHANGED safePoint
  /\ UNCHANGED <<record, timer, resourcesRevoked, pendingTerminalVerification, repeats,
                 gatewayVars, clockVars, ghostVars>>

\* The card offers "resume" on a paused task; the snapshot version is compared
\* now, the session's identity is looked up (an await) before the push.
UserResume ==
  /\ "resume" \in UserControls /\ Interruptible
  /\ record.status = "paused" /\ resuming < MaxResuming
  /\ resuming' = resuming + 1
  /\ UNCHANGED <<record, queue, effect, timer, signal, safePoint, resourcesRevoked,
                 pendingTerminalVerification, repeats, deadlinePassed, restarts,
                 gatewayVars, ghostVars>>

ResumeBound ==
  /\ resuming > 0 /\ Interruptible
  /\ resuming' = resuming - 1
  /\ \/ /\ RevokeTask
        /\ resourcesRevoked' = FALSE
        /\ queue' = Append(queue, UserCommand("RESUME", <<>>, "none"))
        /\ consentOnce' = {} /\ consentTask' = {}
     \/ /\ "session_mismatch" \in Faults
        /\ UNCHANGED <<queue, resourcesRevoked, gatewayVars, consentOnce, consentTask>>
  /\ UNCHANGED <<record, effect, timer, signal, safePoint, pendingTerminalVerification,
                 repeats, deadlinePassed, restarts, ran, doubted>>

ApprovalShown == entry.state = "live" /\ record.approval = entry.intent

Answer(type, intents, result, origin) ==
  queue' = Append(queue, [type |-> type, origin |-> origin, intents |-> intents,
                          result |-> result, change |-> 0])

\* History: what the user agreed to, changes only.
Consented(intent, forTask) ==
  /\ consentOnce' = IF Mutates(intent) THEN consentOnce \cup {intent} ELSE consentOnce
  /\ consentTask' = IF Mutates(intent) /\ forTask THEN consentTask \cup {Digest(intent)}
                                                  ELSE consentTask

\* ApprovalManager.resolve: an approval yields a capability (or a handoff) and,
\* for "task_exact_match", a grant for the digest.
Approve(forTask) ==
  LET intent == entry.intent IN
  /\ ApprovalShown /\ Interruptible /\ ~deadlinePassed
  /\ forTask => Grantable(intent)
  /\ entry' = Resolved(entry)
  /\ IF intent.kind = "interactive"
       THEN /\ Answer("HANDOFF_APPROVED", <<intent>>, "none", "user")
            /\ UNCHANGED <<issued, grants, consentOnce, consentTask>>
       ELSE /\ Answer("APPROVAL_RESOLVED", <<intent>>, "approve", "user")
            /\ issued' = issued \cup {intent}
            /\ grants' = IF forTask THEN grants \cup {Digest(intent)} ELSE grants
            /\ Consented(intent, forTask)
  /\ UNCHANGED <<record, effect, timer, signal, safePoint, resourcesRevoked,
                 pendingTerminalVerification, repeats, clockVars, ran, doubted>>

Decline(choice) ==
  /\ ApprovalShown /\ Interruptible
  /\ deadlinePassed => choice = "expired"
  /\ entry' = Resolved(entry)
  /\ Answer("APPROVAL_RESOLVED", <<>>, choice, "user")
  /\ UNCHANGED <<record, effect, timer, issued, grants, signal, safePoint,
                 resourcesRevoked, pendingTerminalVerification, repeats, clockVars, ghostVars>>

\* revise_approval: the user rewrites a shell command; what the policy makes of
\* the new command is open, and the new invocation is not the runtime's check.
RevisedKinds(kind) ==
  CASE kind = "review"                   -> {"review"}
    [] kind \in {"shell", "interactive"} -> {"shell", "read", "interactive", "denied", "fatal"}
    [] OTHER                             -> {}

ReviseApproval ==
  /\ ApprovalShown /\ Interruptible
  /\ record.status = "awaiting_approval"
  /\ entry' = Resolved(entry)
  /\ \E content \in Contents, kind \in RevisedKinds(entry.intent.kind) \cap OfferedKinds :
       Answer("APPROVAL_REVISED",
              <<[entry.intent EXCEPT !.content = content, !.kind = kind, !.check = FALSE]>>,
              "none", "user")
  /\ UNCHANGED <<record, effect, timer, issued, grants, signal, safePoint,
                 resourcesRevoked, pendingTerminalVerification, repeats, clockVars, ghostVars>>

-----------------------------------------------------------------------------
(* Time and crashes. *)

\* Deviation: the expired approval is closed, the task is not told.
ApprovalTimerForgets ==
  /\ timer /\ Interruptible
  /\ timer' = FALSE /\ entry' = Resolved(entry)
  /\ UNCHANGED <<record, queue, effect, issued, grants, signal, safePoint, resourcesRevoked,
                 pendingTerminalVerification, repeats, clockVars, ghostVars>>

ApprovalTimerFires ==
  /\ timer /\ Interruptible
  /\ timer' = FALSE
  /\ entry' = Resolved(entry)
  /\ IF entry.state = "live" THEN Answer("APPROVAL_RESOLVED", <<>>, "expired", "runtime")
                             ELSE UNCHANGED queue
  /\ UNCHANGED <<record, effect, issued, grants, signal, safePoint, resourcesRevoked,
                 pendingTerminalVerification, repeats, clockVars, ghostVars>>

DeadlinePasses ==
  /\ "deadline" \in Faults /\ Interruptible /\ ~deadlinePassed
  /\ deadlinePassed' = TRUE
  /\ UNCHANGED <<record, queue, effect, timer, signal, safePoint, resourcesRevoked,
                 pendingTerminalVerification, repeats, resuming, restarts,
                 gatewayVars, ghostVars>>

NotRetained(r) == r         \* Deviation: recovery forgets the change.
\* retainUncertainMutation: an interrupted change is recorded and owes its checks.
Retained(r) ==
  LET id == r.invocation.id IN
  IF /\ r.status \in {"executing", "observing", "reducing", "evaluating", "verifying"}
     /\ VerifiableChange(r.invocation)
    THEN [r EXCEPT
            !.changes[id] = IF @ = "none" THEN "pending" ELSE @,
            !.obligations =
              IF \E k \in 1 .. Len(@) : @[k].id = id THEN @
              ELSE Append(@, [id |-> id, checks |-> r.invocation.plan, worst |-> "passed"])]
    ELSE r

\* The process dies between two commits; recoverInterrupted and attach.
Restart ==
  /\ restarts < MaxRestarts /\ ~IsTerminalStatus(record.status)
  /\ restarts' = restarts + 1
  /\ record' = [Retained(record) EXCEPT !.status = "paused", !.approval = NoIntent]
  /\ queue' = <<>> /\ effect' = NoEffect /\ timer' = FALSE
  /\ entry' = NoEntry /\ issued' = {} /\ grants' = {}
  /\ signal' = "none" /\ safePoint' = "none" /\ resourcesRevoked' = FALSE
  /\ pendingTerminalVerification' = "none" /\ repeats' = 0 /\ resuming' = 0
  /\ consentOnce' = {} /\ consentTask' = {}
  /\ UNCHANGED <<deadlinePassed, ran, doubted>>

-----------------------------------------------------------------------------
Init ==
  /\ record = InitialRecord
  /\ queue = <<Command("OBJECTIVE_READY", <<>>, "none")>>
  /\ effect = NoEffect
  /\ entry = NoEntry
  /\ timer = FALSE /\ issued = {} /\ grants = {}
  /\ signal = "none" /\ safePoint = "none" /\ resourcesRevoked = FALSE
  /\ pendingTerminalVerification = "none" /\ repeats = 0
  /\ deadlinePassed = FALSE /\ resuming = 0 /\ restarts = 0
  /\ ran = <<>> /\ consentOnce = {} /\ consentTask = {} /\ doubted = {}

Worker ==
  \/ IgnoreCommand \/ RejectCommand \/ AcceptCommand
  \/ RunHarness \/ HarnessTurn
  \/ EvaluateIntent \/ Precheck \/ EvaluateReadBundle
  \/ ExecuteIntent \/ ExecutionEnds
  \/ BuildObservation \/ ReduceContext \/ EvaluateProgress
  \/ RunMutationVerification \/ ChecksEnd \/ VerifyCompletion

User ==
  \/ UserPause \/ UserCancel \/ UserResume
  \/ \E forTask \in BOOLEAN : Approve(forTask)
  \/ \E choice \in {"reject", "cancel_task", "expired"} : Decline(choice)
  \/ ReviseApproval

Next == Worker \/ User \/ ResumeBound \/ ApprovalTimerFires \/ DeadlinePasses \/ Restart

Spec == Init /\ [][Next]_vars

\* The event loop runs what is ready; the provider, the executor and the
\* session service answer or time out; a timer that is set fires.
FairSpec == Spec /\ WF_vars(Worker) /\ WF_vars(ResumeBound) /\ WF_vars(ApprovalTimerFires)

-----------------------------------------------------------------------------
(* Properties. *)

\* Every variable of the runtime keeps its type.
TypeOK ==
  /\ record \in Records
  /\ queue \in Seq(Commands)
  /\ effect \in Effects
  /\ entry \in Entries
  /\ timer \in BOOLEAN
  /\ issued \subseteq Intents
  /\ grants \subseteq Digests
  /\ signal \in {"none", "live", "aborted"}
  /\ safePoint \in {"none", "cancel", "pause"}
  /\ resourcesRevoked \in BOOLEAN
  /\ pendingTerminalVerification \in {"none", "failed", "inconclusive"}
  /\ repeats \in 0 .. (MaxRepeats + 1)
  /\ deadlinePassed \in BOOLEAN
  /\ resuming \in Nat /\ restarts \in Nat
  /\ ran \in Seq(Intents)
  /\ consentOnce \subseteq Intents
  /\ consentTask \subseteq Digests
  /\ doubted \subseteq Ids

\* A change reaches the host only under an approval given since the task was
\* last resumed or recovered: one for this very invocation that no run has used
\* up, or one for the whole task and this exact digest.  Tokens, grants,
\* revisions, revocation and crashes all have to agree for this (gateway.js,
\* approval-manager.js, capability-token.js).
Authorized(intent) == intent \in consentOnce \/ Digest(intent) \in consentTask

ChangesAreAuthorized ==
  [][\A k \in 1 .. Len(ran') : k > Len(ran) => Authorized(ran'[k])]_vars

\* No invocation changes the host twice, whatever the pauses, resumes, crashes,
\* revisions and retried calls (execution-runtime.js's ledger is per process).
ChangesRunOnce ==
  \A j, k \in 1 .. Len(ran) : ran[j].id = ran[k].id => j = k

\* A paused or finished task that nothing is working on holds no authority: no
\* unused capability, no task grant, no open approval, no live abort signal
\* (abortActive, finishRuntime, recoverInterrupted).
InertWhenStopped ==
  Idle /\ (record.status = "paused" \/ IsTerminalStatus(record.status)) =>
    issued = {} /\ grants = {} /\ entry.state # "live" /\ signal # "live"

\* A change that was sent to the host is in the change records whenever the
\* worker rests, however it ended: success, failure, pause, cancel or crash.
StartedChangeIsRecorded ==
  Idle => \A k \in 1 .. Len(ran) : record.changes[ran[k].id] # "none"

\* A change without a verdict always has an obligation that will judge it, and
\* no change has two (they would be judged one after the other).
PendingChangeIsOwed ==
  /\ \A id \in Ids : record.changes[id] = "pending" =>
       \E k \in 1 .. Len(record.obligations) : record.obligations[k].id = id
  /\ \A j, k \in 1 .. Len(record.obligations) :
       record.obligations[j].id = record.obligations[k].id => j = k

\* A task reported complete has verified every change it made.
CompleteImpliesVerified ==
  record.status = "complete" =>
    \A k \in 1 .. Len(ran) : record.changes[ran[k].id] = "passed"

\* A change one of whose checks did not pass is never judged "passed".
FailedCheckNeverPasses ==
  \A id \in doubted : record.changes[id] # "passed"

\* A task nobody works on is finished, paused, or waits for an answer: anything
\* else is a task that shows as running and never moves again.
RestsOnlyWhereItCanBeWoken ==
  Idle => \/ IsTerminalStatus(record.status)
          \/ record.status \in {"paused", "awaiting_approval"}

\* A task that waits for an approval can still get one: the entry on the card is
\* open, and its expiry timer is running.
AwaitedApprovalIsOpen ==
  Idle /\ record.status = "awaiting_approval" =>
    entry.state = "live" /\ entry.intent = record.approval /\ timer

\* A finished task stays as it is and sends nothing more to the host.
TerminalIsFinal ==
  [][record.status \in TerminalStatuses => UNCHANGED <<record, ran>>]_vars

\* The worker always comes to rest: a task does not spin on its own.
ComesToRest == []<>Idle

\* A cancel that is in the mailbox ends the task, whatever else is queued,
\* unless the application goes down first and takes the mailbox with it.
CancelSettles == \A n \in 0 .. MaxRestarts :
  (Queued("CANCEL") /\ restarts = n) ~> (IsTerminalStatus(record.status) \/ restarts > n)
=============================================================================
