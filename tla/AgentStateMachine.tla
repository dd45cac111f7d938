-------------------------- MODULE AgentStateMachine --------------------------
(***************************************************************************)
(* The reducer of an Agent task (src/app/agent/session/state-machine.js):  *)
(* the data of a session record, the table of allowed status changes, and  *)
(* what each command does to the record.  A constant-level module: the     *)
(* runtime that feeds commands to the reducer is AgentSession.             *)
(***************************************************************************)
EXTENDS Naturals, Sequences

CONSTANTS
  Plans,        \* verification plans of changes: sequences of kinds of checks
  Contents,     \* what an action does; two actions with one content are equal
  MaxSteps,     \* budget.maxReactSteps
  MaxReads,     \* budget.maxAutoReadActions
  MaxErrors,    \* budget.maxConsecutiveErrors
  MaxRepeats    \* budget.maxEquivalentActionRepeats

ASSUME BudgetAssumption ==
  /\ MaxSteps \in Nat /\ MaxReads \in Nat
  /\ MaxErrors \in Nat /\ MaxRepeats \in Nat

CheckKinds == {"read", "review", "denied", "fatal", "broken", "missing"}

ASSUME PlansAssumption == Plans \subseteq Seq(CheckKinds)

ASSUME ContentsAssumption == Contents # {}

-----------------------------------------------------------------------------
(* Statuses and the table of transitions. *)

TerminalStatuses == {"complete", "inconclusive", "blocked", "failed", "cancelled"}

SessionStatuses ==
  TerminalStatuses \cup
  {"intake", "planning", "policy_check", "awaiting_approval", "executing",
   "observing", "reducing", "evaluating", "awaiting_user", "verifying", "paused"}

\* Deviation: a status missing from isTerminalStatus.
IsTerminalButInconclusive(status) == status \in TerminalStatuses \ {"inconclusive"}
IsTerminalStatus(status) == status \in TerminalStatuses

allowedTransitions ==
  [intake            |-> {"planning", "cancelled", "failed", "paused"},
   planning          |-> {"policy_check", "awaiting_user", "verifying",
                          "inconclusive", "failed", "cancelled", "paused"},
   policy_check      |-> {"executing", "awaiting_approval", "evaluating",
                          "blocked", "cancelled", "paused"},
   awaiting_approval |-> {"policy_check", "executing", "evaluating",
                          "cancelled", "paused"},
   executing         |-> {"observing", "cancelled", "paused", "failed"},
   observing         |-> {"reducing", "cancelled", "failed", "paused"},
   reducing          |-> {"evaluating", "cancelled", "failed", "paused"},
   evaluating        |-> {"planning", "policy_check", "awaiting_user", "verifying",
                          "complete", "inconclusive", "blocked", "failed",
                          "cancelled", "paused"},
   awaiting_user     |-> {"planning", "cancelled", "paused"},
   verifying         |-> {"planning", "awaiting_approval", "complete",
                          "inconclusive", "failed", "cancelled", "paused"},
   paused            |-> {"planning", "verifying", "cancelled", "blocked"},
   complete |-> {}, inconclusive |-> {}, blocked |-> {}, failed |-> {},
   cancelled |-> {}]

\* Deviation: a row of the table that forgets a target.
CanTransitionUnlessPaused(from, to) ==
  to \in allowedTransitions[from] /\ ~(from = "paused" /\ to = "cancelled")
CanTransition(from, to) == to \in allowedTransitions[from]

-----------------------------------------------------------------------------
(* Actions proposed for a task.  An intent stands for a NormalizedIntent:    *)
(* the invocation it is (id), what kind of tool and policy verdict it gets   *)
(* (kind), its arguments (content), whether it declares a precondition       *)
(* (pre), its postconditions (plan), and whether it is a check proposed by   *)
(* the runtime itself to verify an earlier change (check).                   *)
(*   read         a bounded structured probe, run without asking             *)
(*   sensitive    a structured probe the policy wants approved               *)
(*   review       shell.review_exec, always approved by the user             *)
(*   shell        a shell.exec command classified as a change                *)
(*   tool         a structured change tool                                   *)
(*   interactive  an interactive shell command                               *)
(*   denied       a change the policy denies                                 *)
(*   fatal        an action of risk R5                                       *)
(*   broken       arguments the tool's schema refuses                        *)

Kinds == {"read", "sensitive", "review", "shell", "tool", "interactive",
          "denied", "fatal", "broken"}

Ids == 0 .. (2 * MaxSteps + 1)        \* invocation ids; 0 is every check's

Intents == [id : Ids, kind : Kinds, content : Contents, pre : BOOLEAN,
            plan : Plans \cup {<<>>}, check : BOOLEAN]

CONSTANT NoIntent
ASSUME NoIntentAssumption == NoIntent \notin Intents

\* gateway.js effectiveMutability, as POLICY_DECIDED stores it.
Mutates(intent) == intent.kind \in {"shell", "tool", "interactive", "denied"}

\* The fields the SHA-256 intent digest covers (the invocation id is not one).
Digest(intent) == <<intent.kind, intent.content, intent.pre, intent.plan>>
Digests == Kinds \X Contents \X BOOLEAN \X (Plans \cup {<<>>})

\* currentInvocation holds a change that declared how it will be verified.
VerifiableChange(invocation) ==
  /\ invocation # NoIntent
  /\ Mutates(invocation)
  /\ invocation.plan # <<>>

-----------------------------------------------------------------------------
(* The session record and the commands that change it. *)

Verdicts == {"passed", "failed", "inconclusive"}
ChangeStatuses == Verdicts \cup {"none", "pending"}     \* "none": no ChangeRecord

Obligations == [id : Ids, checks : Seq(CheckKinds) \ {<<>>}, worst : Verdicts]

Records ==
  [status      : SessionStatuses,
   invocation  : Intents \cup {NoIntent},        \* currentInvocation
   approval    : Intents \cup {NoIntent},        \* pendingApproval
   obligations : Seq(Obligations),               \* memory.verificationObligations
   changes     : [Ids -> ChangeStatuses],        \* memory.changeRecords
   steps       : 0 .. MaxSteps,
   reads       : 0 .. MaxReads,
   errors      : 0 .. (MaxErrors + 1)]           \* saturates

InitialRecord ==
  [status |-> "intake", invocation |-> NoIntent, approval |-> NoIntent,
   obligations |-> <<>>, changes |-> [id \in Ids |-> "none"],
   steps |-> 0, reads |-> 0, errors |-> 0]

PlannerTarget  == [continue |-> "policy_check", need_user |-> "inconclusive",
                   verify |-> "verifying", blocked |-> "blocked"]
PolicyTarget   == [allow |-> "executing", require_approval |-> "awaiting_approval",
                   fatal |-> "blocked", deny |-> "evaluating"]
ApprovalTarget == [approve |-> "executing", reject |-> "evaluating",
                   expired |-> "evaluating", cancel_task |-> "cancelled"]
VerifiedTarget == [passed |-> "planning", failed |-> "failed",
                   inconclusive |-> "inconclusive"]

\* Commands whose target status does not depend on what they carry.
PlainTarget ==
  [OBJECTIVE_READY |-> "planning",       APPROVAL_REVISED |-> "policy_check",
   HANDOFF_APPROVED |-> "awaiting_user", EXECUTION_FINISHED |-> "observing",
   OBSERVATION_READY |-> "reducing",     CONTEXT_REDUCED |-> "evaluating",
   CONTINUE_PLANNING |-> "planning",     FOLLOW_UP_PROPOSED |-> "policy_check",
   COMPLETE |-> "complete",              INCONCLUSIVE |-> "inconclusive",
   FAIL |-> "failed",                    PAUSE |-> "paused",
   CANCEL |-> "cancelled"]

CommandTypes ==
  DOMAIN PlainTarget \cup
  {"PLANNER_DECISION", "POLICY_DECIDED", "APPROVAL_RESOLVED", "MUTATION_VERIFIED", "RESUME"}

CommandResults ==
  DOMAIN PlannerTarget \cup DOMAIN PolicyTarget \cup DOMAIN ApprovalTarget \cup Verdicts
  \cup {"none", "success", "failure", "mixed", "failures"}

\* change: the invocation MUTATION_VERIFIED judges.
Commands == [type : CommandTypes, origin : {"runtime", "user"},
             intents : Seq(Intents), result : CommandResults, change : Ids]

\* reduceSession refuses these commands outside one status (throwInvalidCommand).
RequiredStatus ==
  [PLANNER_DECISION |-> "planning",          POLICY_DECIDED |-> "policy_check",
   APPROVAL_RESOLVED |-> "awaiting_approval", APPROVAL_REVISED |-> "awaiting_approval",
   HANDOFF_APPROVED |-> "awaiting_approval",  EXECUTION_FINISHED |-> "executing",
   OBSERVATION_READY |-> "observing",         CONTEXT_REDUCED |-> "reducing",
   FOLLOW_UP_PROPOSED |-> "evaluating",       MUTATION_VERIFIED |-> "verifying",
   RESUME |-> "paused"]

Target(record, command) ==
  CASE command.type = "PLANNER_DECISION"  -> PlannerTarget[command.result]
    [] command.type = "POLICY_DECIDED"    -> PolicyTarget[command.result]
    [] command.type = "APPROVAL_RESOLVED" -> ApprovalTarget[command.result]
    [] command.type = "MUTATION_VERIFIED" -> VerifiedTarget[command.result]
    [] command.type = "RESUME" ->
         IF record.obligations = <<>> THEN "planning" ELSE "verifying"
    [] OTHER -> PlainTarget[command.type]

Legal(record, command) ==
  /\ command.type \in DOMAIN RequiredStatus =>
       record.status = RequiredStatus[command.type]
  /\ CanTransition(record.status, Target(record, command))

\* currentInvocation is replaced only when the policy has spoken.
InvocationAfter(record, command) ==
  IF command.type = "POLICY_DECIDED" THEN command.intents[1] ELSE record.invocation

\* pendingApproval: set with the request, cleared by every answer but
\* cancel_task and by RESUME; PAUSE and CANCEL leave it.
ApprovalAfter(record, command) ==
  CASE command.type = "POLICY_DECIDED" /\ command.result = "require_approval" ->
         command.intents[1]
    [] \/ command.type \in {"APPROVAL_REVISED", "HANDOFF_APPROVED", "RESUME"}
       \/ command.type = "APPROVAL_RESOLVED" /\ command.result # "cancel_task" ->
         NoIntent
    [] OTHER -> record.approval

\* Deviation: the obligation is dropped, the verdict is not stored.
ChangesUnjudged(record, command) == record.changes

\* MUTATION_VERIFIED gives the change it names its verdict and drops its
\* obligation, which is the first: obligations are verified in order.
ChangesAfter(record, command) ==
  IF command.type = "MUTATION_VERIFIED"
    THEN [record.changes EXCEPT ![command.change] = IF @ = "none" THEN @ ELSE command.result]
    ELSE record.changes

ObligationsAfter(record, command) ==
  IF /\ command.type = "MUTATION_VERIFIED" /\ record.obligations # <<>>
     /\ Head(record.obligations).id = command.change
    THEN Tail(record.obligations) ELSE record.obligations

Reduced(record, command) ==
  [record EXCEPT !.status      = Target(record, command),
                 !.invocation  = InvocationAfter(record, command),
                 !.approval    = ApprovalAfter(record, command),
                 !.changes     = ChangesAfter(record, command),
                 !.obligations = ObligationsAfter(record, command)]

-----------------------------------------------------------------------------
(* The effect a command starts, decided by the status it leads to. *)

\* Deviation: a reducer case that pushes no effect.
EffectOfWithoutProgress ==
  [planning |-> "RUN_HARNESS",   policy_check |-> "EVALUATE_INTENT",
   executing |-> "EXECUTE_INTENT", observing |-> "BUILD_OBSERVATION",
   reducing |-> "REDUCE_CONTEXT"]

EffectOf ==
  [planning |-> "RUN_HARNESS",   policy_check |-> "EVALUATE_INTENT",
   executing |-> "EXECUTE_INTENT", observing |-> "BUILD_OBSERVATION",
   reducing |-> "REDUCE_CONTEXT", evaluating |-> "EVALUATE_PROGRESS"]

NextEffect(record, command) ==
  LET target == Target(record, command) IN
  IF target = "verifying"
    THEN IF command.type = "RESUME" THEN "RUN_MUTATION_VERIFICATION"
                                    ELSE "VERIFY_COMPLETION"
    ELSE IF target \in DOMAIN EffectOf THEN EffectOf[target] ELSE "NONE"
=============================================================================
