------------------------- MODULE AgentSessionProofs --------------------------
(***************************************************************************)
(* What TLAPS proves of one Agent task.  First its types, that authority   *)
(* has backing and that a finished task stays so; then of the changes it   *)
(* makes, that each of them runs once, is recorded, is owed a verdict and  *)
(* has passed when the task is reported complete; on the way there, that   *)
(* one command or effect at a time carries the task on, and none when it   *)
(* is stopped; that a task rests only where it can be woken; and in the    *)
(* end that it implements ChangeLedger.                                    *)
(***************************************************************************)
EXTENDS AgentSessionRefinement, FiniteSetTheorems, SequenceTheorems, TLAPS

Carries(x) == x.intents \in Seq(Intents) /\ Len(x.intents) \in {1, 2}

\* Which results and intents a command of each type carries.
WellFormed(command) ==
  /\ command.type = "PLANNER_DECISION" =>
       /\ command.result \in DOMAIN PlannerTarget
       /\ command.result = "continue" => Carries(command)
  /\ command.type = "POLICY_DECIDED" =>
       command.result \in DOMAIN PolicyTarget /\ Carries(command)
  /\ command.type = "APPROVAL_RESOLVED" =>
       /\ command.result \in DOMAIN ApprovalTarget
       /\ command.result = "approve" => Carries(command)
  /\ command.type = "MUTATION_VERIFIED" => command.result \in Verdicts
  /\ command.type \in {"APPROVAL_REVISED", "FOLLOW_UP_PROPOSED", "EXECUTION_FINISHED",
                       "OBSERVATION_READY"} => Carries(command)

LEMMA TargetType ==
  ASSUME NEW r \in Records, NEW c \in Commands, WellFormed(c)
  PROVE  Target(r, c) \in SessionStatuses
<1>1. CASE c.type = "PLANNER_DECISION"
  BY <1>1 DEF Target, WellFormed, PlannerTarget, SessionStatuses, TerminalStatuses
<1>2. CASE c.type = "POLICY_DECIDED"
  BY <1>2 DEF Target, WellFormed, PolicyTarget, SessionStatuses, TerminalStatuses
<1>3. CASE c.type = "APPROVAL_RESOLVED"
  BY <1>3 DEF Target, WellFormed, ApprovalTarget, SessionStatuses, TerminalStatuses
<1>4. CASE c.type = "MUTATION_VERIFIED"
  BY <1>4 DEF Target, WellFormed, VerifiedTarget, Verdicts, SessionStatuses, TerminalStatuses
<1>5. CASE c.type = "RESUME"
  BY <1>5 DEF Target, SessionStatuses
<1>6. CASE c.type \in DOMAIN PlainTarget
  BY <1>6 DEF Target, PlainTarget, SessionStatuses, TerminalStatuses
<1> QED
  BY <1>1, <1>2, <1>3, <1>4, <1>5, <1>6 DEF Commands, CommandTypes

LEMMA ReducedType ==
  ASSUME NEW r \in Records, NEW c \in Commands, WellFormed(c)
  PROVE  Reduced(r, c) \in Records
<1>1. Target(r, c) \in SessionStatuses
  BY TargetType
<1>2. InvocationAfter(r, c) \in Intents \cup {NoIntent}
  BY DEF InvocationAfter, WellFormed, Carries, Records
<1>3. ApprovalAfter(r, c) \in Intents \cup {NoIntent}
  BY DEF ApprovalAfter, WellFormed, Carries, Records
<1>4. ChangesAfter(r, c) \in [Ids -> ChangeStatuses]
  BY DEF ChangesAfter, WellFormed, Records, Commands, ChangeStatuses
<1>5. ObligationsAfter(r, c) \in Seq(Obligations)
  BY HeadTailProperties DEF ObligationsAfter, Records
<1> QED
  BY <1>1, <1>2, <1>3, <1>4, <1>5 DEF Reduced, Records

-----------------------------------------------------------------------------
(* The inductive invariant. *)

Messages == {c \in Commands : WellFormed(c)}

\* What the current effect was started with is fit for its handler.
EffectFits ==
  /\ effect.type \in {"EVALUATE_INTENT", "PRECHECK", "EXECUTE_INTENT", "EXECUTING",
                      "BUILD_OBSERVATION"} => Carries(effect)
  /\ effect.type = "PRECHECK" => effect.result \in DOMAIN PolicyTarget
  /\ effect.type \in {"RUN_MUTATION_VERIFICATION", "RUN_CHECKS"} =>
       record.obligations # <<>>

\* Nothing runs in a finished task.
FinishedIsIdle == IsTerminalStatus(record.status) => effect.type = "NONE"

\* Every capability and every grant of a change is backed by a consent in force.
AuthorityIsBacked ==
  /\ \A i \in issued : Mutates(i) => Authorized(i)
  /\ \A i \in Intents : Mutates(i) /\ Digest(i) \in grants => Digest(i) \in consentTask

IInv == /\ TypeOK
        /\ queue \in Seq(Messages)
        /\ EffectFits
        /\ FinishedIsIdle
        /\ AuthorityIsBacked

LEMMA CommandInMessages ==
  ASSUME NEW t \in DOMAIN PlainTarget, NEW res \in CommandResults, NEW s \in Seq(Intents),
         t \in {"APPROVAL_REVISED", "FOLLOW_UP_PROPOSED", "EXECUTION_FINISHED",
                "OBSERVATION_READY"} => Len(s) \in {1, 2}
  PROVE  /\ Command(t, s, res) \in Messages
         /\ UserCommand(t, s, res) \in Messages
<1>1. 0 \in Ids
  BY BudgetAssumption DEF Ids
<1> QED
  BY <1>1 DEF Command, UserCommand, Messages, Commands, CommandTypes, WellFormed, Carries,
              PlainTarget

LEMMA QueueAfterErrorType ==
  ASSUME NEW q \in Seq(Messages), NEW origin, NEW type
  PROVE  QueueAfterError(q, origin, type) \in Seq(Messages)
<1>1. Command("FAIL", <<>>, "none") \in Messages
  BY CommandInMessages, EmptySeq DEF PlainTarget, CommandResults
<1> QED
  BY <1>1, AppendProperties DEF QueueAfterError

LEMMA InitIInv == Init => IInv
<1> SUFFICES ASSUME Init PROVE IInv
  OBVIOUS
<1>1. 0 \in Ids /\ 0 .. (MaxErrors + 1) # {} /\ 0 \in 0 .. (MaxRepeats + 1)
  BY BudgetAssumption DEF Ids
<1>2. Command("OBJECTIVE_READY", <<>>, "none") \in Messages
  BY CommandInMessages, EmptySeq DEF PlainTarget, CommandResults
<1>3. InitialRecord \in Records
  BY <1>1, BudgetAssumption, EmptySeq
     DEF InitialRecord, Records, SessionStatuses, ChangeStatuses
<1>4. NoEffect \in Effects
  BY EmptySeq DEF NoEffect, Effects, EffectTypes, CommandResults
<1>5. queue \in Seq(Messages) /\ queue \in Seq(Commands)
  BY <1>2 DEF Init, Messages
<1>6. TypeOK
  BY <1>1, <1>3, <1>4, <1>5, EmptySeq DEF Init, TypeOK, Entries, NoEntry
<1> QED
  BY <1>5, <1>6 DEF Init, IInv, EffectFits, FinishedIsIdle, AuthorityIsBacked, NoEffect,
                   InitialRecord, IsTerminalStatus, TerminalStatuses

LEMMA IgnoreStep == IInv /\ IgnoreCommand => IInv'
<1> SUFFICES ASSUME IInv, IgnoreCommand PROVE IInv'
  OBVIOUS
<1>1. queue' \in Seq(Messages) /\ queue' \in Seq(Commands)
  BY HeadTailProperties DEF IInv, TypeOK, IgnoreCommand
<1> QED
  BY <1>1 DEF IInv, TypeOK, IgnoreCommand, EffectFits, FinishedIsIdle, AuthorityIsBacked,
              Authorized, gatewayVars, clockVars, ghostVars

LEMMA RejectStep == IInv /\ RejectCommand => IInv'
<1> SUFFICES ASSUME IInv, RejectCommand PROVE IInv'
  OBVIOUS
<1>1. queue' \in Seq(Messages)
  BY HeadTailProperties, QueueAfterErrorType DEF IInv, RejectCommand
<1>2. queue' \in Seq(Commands)
  BY <1>1, SeqMonotonic DEF Messages
<1> QED
  BY <1>1, <1>2 DEF IInv, TypeOK, RejectCommand, EffectFits, FinishedIsIdle,
              AuthorityIsBacked, Authorized, gatewayVars, clockVars, ghostVars

\* The effect that follows a command fits what the command carries.
LEMMA EffectAfterType ==
  ASSUME IInv, NEW c \in Messages, Legal(record, c)
  PROVE  /\ EffectAfter(c) \in Effects
         /\ EffectAfter(c).type \in {"EVALUATE_INTENT", "EXECUTE_INTENT",
                                     "BUILD_OBSERVATION"} => Carries(EffectAfter(c))
         /\ EffectAfter(c).type \notin {"PRECHECK", "EXECUTING", "RUN_CHECKS", "HARNESS_TURN"}
         /\ EffectAfter(c).type = "RUN_MUTATION_VERIFICATION" =>
              c.type = "RESUME" /\ record.obligations # <<>>
         /\ IsTerminalStatus(StatusAfter(c)) => EffectAfter(c).type = "NONE"
<1> DEFINE target == Target(record, c)
<1>1. target \in SessionStatuses
  BY TargetType DEF IInv, TypeOK, Messages
<1>2. NextEffect(record, c) \in EffectTypes \ {"PRECHECK", "EXECUTING", "RUN_CHECKS", "HARNESS_TURN"}
  BY <1>1 DEF NextEffect, EffectOf, EffectTypes
<1>3. NoEffect \in Effects /\ NoEffect.type = "NONE"
  BY EmptySeq DEF NoEffect, Effects, EffectTypes, CommandResults
<1>4. EffectAfter(c) \in Effects
  BY <1>2, <1>3 DEF EffectAfter, Effects, Messages, Commands
<1>5. target \in {"policy_check", "executing", "observing"} => Carries(c)
  <2>1. CASE c.type = "PLANNER_DECISION"
    BY <2>1 DEF Target, Messages, WellFormed, PlannerTarget
  <2>2. CASE c.type = "POLICY_DECIDED"
    BY <2>2 DEF Messages, WellFormed
  <2>3. CASE c.type = "APPROVAL_RESOLVED"
    BY <2>3 DEF Target, Messages, WellFormed, ApprovalTarget
  <2>4. CASE c.type = "MUTATION_VERIFIED"
    BY <2>4 DEF Target, Messages, WellFormed, VerifiedTarget, Verdicts
  <2>5. CASE c.type = "RESUME"
    BY <2>5 DEF Target
  <2>6. CASE c.type \in DOMAIN PlainTarget
    BY <2>6 DEF Target, Messages, WellFormed, PlainTarget
  <2> QED
    BY <2>1, <2>2, <2>3, <2>4, <2>5, <2>6 DEF Messages, Commands, CommandTypes
<1>6. EffectAfter(c).type \in {"EVALUATE_INTENT", "EXECUTE_INTENT", "BUILD_OBSERVATION"} =>
        Carries(EffectAfter(c))
  BY <1>1, <1>3, <1>5 DEF EffectAfter, NextEffect, EffectOf, Carries
<1>7. EffectAfter(c).type \notin {"PRECHECK", "EXECUTING", "RUN_CHECKS", "HARNESS_TURN"}
  BY <1>2, <1>3 DEF EffectAfter
<1>8. ASSUME EffectAfter(c).type = "RUN_MUTATION_VERIFICATION"
      PROVE  c.type = "RESUME" /\ record.obligations # <<>>
  <2>1. c.type = "RESUME" /\ target = "verifying"
    BY <1>1, <1>3, <1>8 DEF EffectAfter, NextEffect, EffectOf
  <2> QED
    BY <2>1 DEF Target
<1>9. ASSUME IsTerminalStatus(StatusAfter(c))
      PROVE  EffectAfter(c).type = "NONE"
  <2>1. CASE SafePointReached(c)
    BY <1>3, <2>1 DEF EffectAfter
  <2>2. CASE ~SafePointReached(c)
    <3>1. NextEffect(record, c) = "NONE"
      BY <1>9, <2>2 DEF StatusAfter, IsTerminalStatus, TerminalStatuses, NextEffect, EffectOf
    <3> QED
      BY <1>3, <3>1 DEF EffectAfter
  <2> QED
    BY <2>1, <2>2
<1> QED
  BY <1>4, <1>6, <1>7, <1>8, <1>9

LEMMA ResolvedType == ASSUME NEW e \in Entries PROVE Resolved(e) \in Entries
  BY DEF Resolved, Entries, NoEntry

LEMMA AcceptStep == IInv /\ AcceptCommand => IInv'
<1> SUFFICES ASSUME IInv, AcceptCommand PROVE IInv'
  OBVIOUS
<1> DEFINE c == Head(queue)
<1>1. c \in Messages /\ queue' \in Seq(Messages) /\ Legal(record, c)
  BY HeadTailProperties DEF IInv, AcceptCommand
<1>2. queue' \in Seq(Commands)
  BY <1>1, SeqMonotonic DEF Messages
<1>3. Reduced(record, c) \in Records
  BY <1>1, ReducedType DEF IInv, TypeOK, Messages
<1>4. StatusAfter(c) \in SessionStatuses
  BY <1>1, TargetType DEF StatusAfter, IInv, TypeOK, Messages, SessionStatuses, TerminalStatuses
<1>5. /\ record' = [Reduced(record, c) EXCEPT !.status = StatusAfter(c)]
      /\ effect' = EffectAfter(c)
  BY DEF AcceptCommand
<1>6. record' \in Records /\ record'.status = StatusAfter(c)
  BY <1>3, <1>4, <1>5 DEF Records
<1>7. EffectFits'
  <2>1. effect'.type \in {"EVALUATE_INTENT", "PRECHECK", "EXECUTE_INTENT", "EXECUTING",
                          "BUILD_OBSERVATION"} => Carries(effect')
    BY <1>1, <1>5, EffectAfterType
  <2>2. effect'.type \notin {"PRECHECK", "RUN_CHECKS"}
    BY <1>1, <1>5, EffectAfterType
  <2>3. effect'.type = "RUN_MUTATION_VERIFICATION" => record'.obligations # <<>>
    <3>1. effect'.type = "RUN_MUTATION_VERIFICATION" =>
            c.type = "RESUME" /\ record.obligations # <<>>
      BY <1>1, <1>5, EffectAfterType
    <3>2. c.type = "RESUME" => Reduced(record, c).obligations = record.obligations
      BY DEF Reduced, ObligationsAfter, IInv, TypeOK, Records
    <3>3. record'.obligations = Reduced(record, c).obligations
      BY <1>3, <1>5 DEF Records
    <3> QED
      BY <3>1, <3>2, <3>3
  <2> QED
    BY <2>1, <2>2, <2>3 DEF EffectFits, Carries
<1>8. FinishedIsIdle'
  BY <1>1, <1>5, <1>6, EffectAfterType DEF FinishedIsIdle
<1>9. /\ effect' \in Effects
      /\ timer' \in BOOLEAN /\ resourcesRevoked' \in BOOLEAN
      /\ safePoint' \in {"none", "cancel", "pause"}
      /\ signal' \in {"none", "live", "aborted"}
  <2>1. effect' \in Effects
    BY <1>1, <1>5, EffectAfterType
  <2>2. timer' \in BOOLEAN
    BY DEF AcceptCommand
  <2>3. resourcesRevoked' \in BOOLEAN
    BY DEF AcceptCommand, IInv, TypeOK
  <2>4. safePoint' \in {"none", "cancel", "pause"} /\ signal' \in {"none", "live", "aborted"}
    BY DEF AcceptCommand, IInv, TypeOK
  <2> QED
    BY <2>1, <2>2, <2>3, <2>4
<1>10. \/ UNCHANGED gatewayVars
       \/ issued' = {} /\ grants' = {} /\ entry' = Resolved(entry)
  BY DEF AcceptCommand, RevokeTask
<1>11. issued' \subseteq issued /\ grants' \subseteq grants /\ entry' \in Entries
  BY <1>10, ResolvedType DEF gatewayVars, IInv, TypeOK
<1>12. UNCHANGED <<pendingTerminalVerification, repeats, clockVars, ghostVars>>
  BY DEF AcceptCommand
<1>13. TypeOK'
  BY <1>2, <1>6, <1>9, <1>11, <1>12 DEF TypeOK, IInv, clockVars, ghostVars
<1>14. AuthorityIsBacked'
  BY <1>11, <1>12 DEF AuthorityIsBacked, IInv, Authorized, ghostVars
<1> QED
  BY <1>1, <1>7, <1>8, <1>13, <1>14 DEF IInv

-----------------------------------------------------------------------------
(* Effects. *)

LEMMA EnqueueType ==
  ASSUME IInv, NEW c \in Messages, Enqueue(c)
  PROVE  /\ queue' \in Seq(Messages) /\ queue' \in Seq(Commands)
         /\ effect' \in Effects /\ effect'.type = "NONE"
<1>1. queue' \in Seq(Messages)
  BY AppendProperties DEF Enqueue, IInv
<1>2. queue' \in Seq(Commands)
  BY <1>1, SeqMonotonic DEF Messages
<1>3. effect' \in Effects /\ effect'.type = "NONE"
  BY EmptySeq DEF Enqueue, NoEffect, Effects, EffectTypes, CommandResults
<1> QED
  BY <1>1, <1>2, <1>3

LEMMA ThrowType ==
  ASSUME IInv, Throw
  PROVE  /\ queue' \in Seq(Messages) /\ queue' \in Seq(Commands)
         /\ effect' \in Effects /\ effect'.type = "NONE"
<1>1. queue' \in Seq(Messages)
  BY QueueAfterErrorType DEF Throw, IInv
<1>2. queue' \in Seq(Commands)
  BY <1>1, SeqMonotonic DEF Messages
<1>3. effect' \in Effects /\ effect'.type = "NONE"
  BY EmptySeq DEF Throw, NoEffect, Effects, EffectTypes, CommandResults
<1> QED
  BY <1>1, <1>2, <1>3

LEMMA PlainMessage ==
  ASSUME NEW t \in {"INCONCLUSIVE", "FAIL", "COMPLETE", "CONTEXT_REDUCED", "CONTINUE_PLANNING"}
  PROVE  Command(t, <<>>, "none") \in Messages
  BY CommandInMessages, EmptySeq DEF PlainTarget, CommandResults

LEMMA RunHarnessStep == IInv /\ RunHarness => IInv'
<1> SUFFICES ASSUME IInv, RunHarness PROVE IInv'
  OBVIOUS
<1>1. CASE Enqueue(Command("INCONCLUSIVE", <<>>, "none")) /\ UNCHANGED <<record, signal>>
  <2>1. /\ queue' \in Seq(Messages) /\ queue' \in Seq(Commands)
        /\ effect' \in Effects /\ effect'.type = "NONE"
    BY <1>1, PlainMessage, EnqueueType
  <2> QED
    BY <1>1, <2>1 DEF IInv, TypeOK, RunHarness, EffectFits, FinishedIsIdle, AuthorityIsBacked,
                      Authorized, gatewayVars, clockVars, ghostVars
<1>2. CASE BudgetAllows
  <2>1. record' \in Records /\ record'.status = record.status
        /\ record'.obligations = record.obligations
    <3>1. record' = [record EXCEPT !.steps = record.steps + 1]
      BY <1>2 DEF RunHarness
    <3>2. record \in Records /\ record.steps \in Nat /\ record.steps < MaxSteps
      BY <1>2 DEF BudgetAllows, IInv, TypeOK, Records
    <3>3. record.steps + 1 \in 0 .. MaxSteps
      BY <3>2, BudgetAssumption
    <3> QED
      BY <3>1, <3>2, <3>3 DEF Records
  <2>2. /\ queue' \in Seq(Messages) /\ queue' \in Seq(Commands)
        /\ effect' \in Effects /\ effect'.type \in {"NONE", "HARNESS_TURN"}
    <3>1. CASE effect' = [effect EXCEPT !.type = "HARNESS_TURN"] /\ UNCHANGED queue
      BY <3>1 DEF IInv, TypeOK, Effects, EffectTypes
    <3>2. CASE Enqueue(Command("INCONCLUSIVE", <<>>, "none"))
      BY <3>2, PlainMessage, EnqueueType
    <3> QED
      BY <1>2, <3>1, <3>2 DEF RunHarness
  <2>3. ~IsTerminalStatus(record.status)
    BY DEF IInv, FinishedIsIdle, RunHarness
  <2>4. signal' = "live"
    BY <1>2 DEF RunHarness
  <2> QED
    BY <2>1, <2>2, <2>3, <2>4 DEF IInv, TypeOK, RunHarness, EffectFits, FinishedIsIdle,
         AuthorityIsBacked, Authorized, gatewayVars, clockVars, ghostVars
<1> QED
  BY <1>1, <1>2 DEF RunHarness

LEMMA ProposalType ==
  ASSUME IInv, NEW s \in Proposals
  PROVE  s \in Seq(Intents) /\ Len(s) \in {1, 2}
<1>1. 2 * record.steps \in Ids /\ 2 * record.steps + 1 \in Ids
  BY BudgetAssumption DEF IInv, TypeOK, Records, Ids
<1>2. \A n \in Ids : Proposable(n) \subseteq Intents
  BY SessionAssumption DEF Proposable, Intents
<1>3. CASE \E i \in Proposable(2 * record.steps) : s = <<i>>
  BY <1>1, <1>2, <1>3
<1>4. CASE \E a \in Proposable(2 * record.steps), b \in Proposable(2 * record.steps + 1) : s = <<a, b>>
  BY <1>1, <1>2, <1>4
<1> QED
  BY <1>3, <1>4 DEF Proposals

LEMMA HarnessTurnStep == IInv /\ HarnessTurn => IInv'
<1> SUFFICES ASSUME IInv, HarnessTurn PROVE IInv'
  OBVIOUS
<1>1. /\ queue' \in Seq(Messages) /\ queue' \in Seq(Commands)
      /\ effect' \in Effects /\ effect'.type = "NONE"
  <2>1. ASSUME NEW result \in TurnResults,
               NEW intents \in (IF result = "continue" THEN Proposals ELSE {<<>>}),
               Enqueue(Command("PLANNER_DECISION", intents, result))
        PROVE  Command("PLANNER_DECISION", intents, result) \in Messages
    <3>1. intents \in Seq(Intents) /\ (result = "continue" => Len(intents) \in {1, 2})
      BY ProposalType, EmptySeq
    <3>2. result \in DOMAIN PlannerTarget /\ 0 \in Ids
      BY SessionAssumption, BudgetAssumption DEF Ids
    <3> QED
      BY <3>1, <3>2 DEF Command, Messages, Commands, CommandTypes, CommandResults, WellFormed,
                        Carries
  <2> QED
    BY <2>1, EnqueueType, ThrowType DEF HarnessTurn
<1> QED
  BY <1>1 DEF IInv, TypeOK, HarnessTurn, EffectFits, FinishedIsIdle, AuthorityIsBacked,
              Authorized, gatewayVars, clockVars, ghostVars

\* What preparing intents counts: none, one or two automatic reads.
LEMMA AutoReadsOfOne ==
  ASSUME NEW a
  PROVE  AutoReads(<<a>>) = IF a.kind = "read" THEN 1 ELSE 0
<1>1. {k \in 1 .. Len(<<a>>) : <<a>>[k].kind = "read"} = IF a.kind = "read" THEN {1} ELSE {}
  OBVIOUS
<1> QED
  BY <1>1, FS_EmptySet, FS_Singleton DEF AutoReads

LEMMA AutoReadsOfTwo ==
  ASSUME NEW a, NEW b
  PROVE  AutoReads(<<a, b>>) =
           (IF a.kind = "read" THEN 1 ELSE 0) + (IF b.kind = "read" THEN 1 ELSE 0)
<1> DEFINE S == {k \in 1 .. Len(<<a, b>>) : <<a, b>>[k].kind = "read"}
<1>1. \A k : k \in S <=> (k = 1 /\ a.kind = "read") \/ (k = 2 /\ b.kind = "read")
  OBVIOUS
<1>2. Cardinality({1, 2}) = 2
  <2>1. {1, 2} = {1} \cup {2} /\ 2 \notin {1}
    OBVIOUS
  <2>2. IsFiniteSet({1}) /\ Cardinality({1}) = 1
    BY FS_Singleton
  <2> QED
    BY <2>1, <2>2, FS_AddElement
<1>3. Cardinality({1}) = 1 /\ Cardinality({2}) = 1 /\ Cardinality({}) = 0
  BY FS_Singleton, FS_EmptySet
<1>4. AutoReads(<<a, b>>) = Cardinality(S)
  BY DEF AutoReads
<1>5. \/ a.kind = "read" /\ b.kind = "read" /\ S = {1, 2}
      \/ a.kind = "read" /\ b.kind # "read" /\ S = {1}
      \/ a.kind # "read" /\ b.kind = "read" /\ S = {2}
      \/ a.kind # "read" /\ b.kind # "read" /\ S = {}
  BY <1>1
<1> HIDE DEF S
<1> QED
  BY <1>2, <1>3, <1>4, <1>5

LEMMA PolicyOutcomeType ==
  ASSUME NEW i PROVE PolicyOutcome(i) \in DOMAIN PolicyTarget
  BY DEF PolicyOutcome, PolicyTarget

\* A capability issued by the policy alone is for no change, unless a grant of
\* the task covers it.
LEMMA AllowedIsBacked ==
  ASSUME IInv, NEW i \in Intents, PolicyOutcome(i) = "allow", Mutates(i)
  PROVE  Authorized(i)
<1>1. i.kind # "read"
  BY DEF Mutates
<1>2. Digest(i) \in grants
  BY <1>1 DEF PolicyOutcome, Granted
<1> QED
  BY <1>2 DEF IInv, AuthorityIsBacked, Authorized

\* Preparing one or two intents that fit the read budget keeps the invariant's
\* parts that it touches.
LEMMA PrepareStep ==
  ASSUME IInv, NEW s \in Seq(Intents), Len(s) \in {1, 2}, Prepare(s),
         record.reads + AutoReads(s) <= MaxReads, AutoReads(s) \in Nat,
         UNCHANGED <<consentOnce, consentTask>>
  PROVE  /\ record' \in Records
         /\ record'.status = record.status /\ record'.obligations = record.obligations
         /\ issued' \subseteq Intents /\ entry' \in Entries /\ grants' = grants
         /\ AuthorityIsBacked'
<1>1. record' = [record EXCEPT !.reads = record.reads + AutoReads(s)]
  BY DEF Prepare
<1>2. record.reads + AutoReads(s) \in 0 .. MaxReads
  BY BudgetAssumption DEF IInv, TypeOK, Records
<1>3. /\ record' \in Records
      /\ record'.status = record.status /\ record'.obligations = record.obligations
  BY <1>1, <1>2 DEF IInv, TypeOK, Records
<1>4. \A k \in 1 .. Len(s) : s[k] \in Intents
  BY ElementOfSeq
<1>5. issued' \subseteq Intents /\ grants' = grants
  BY <1>4 DEF Prepare, IInv, TypeOK
<1>6. entry' \in Entries
  <2>1. s[Len(s)] \in Intents
    BY <1>4
  <2> QED
    BY <2>1 DEF Prepare, IInv, TypeOK, Entries
<1>7. ASSUME NEW i \in issued', Mutates(i)
      PROVE  Authorized(i)'
  <2>1. CASE i \in issued
    BY <1>7, <2>1 DEF IInv, AuthorityIsBacked, Authorized
  <2>2. CASE i \notin issued
    <3>1. i \in Intents /\ PolicyOutcome(i) = "allow"
      BY <1>4, <1>7, <2>2 DEF Prepare
    <3> QED
      BY <1>7, <3>1, AllowedIsBacked DEF Authorized
  <2> QED
    BY <2>1, <2>2
<1>8. AuthorityIsBacked'
  BY <1>5, <1>7 DEF AuthorityIsBacked, IInv
<1> QED
  BY <1>3, <1>5, <1>6, <1>8

\* POLICY_DECIDED carries the verdict of the policy on one intent, or the
\* permission to run two probes together.
LEMMA PolicyMessage ==
  ASSUME NEW s \in Seq(Intents), Len(s) \in {1, 2}, NEW verdict \in DOMAIN PolicyTarget
  PROVE  PolicyDecided(s, verdict) \in Messages
<1>1. 0 \in Ids
  BY BudgetAssumption DEF Ids
<1> QED
  BY <1>1 DEF PolicyDecided, Command, Messages, Commands, CommandTypes, CommandResults,
              WellFormed, Carries

LEMMA EvaluateIntentStep == IInv /\ EvaluateIntent => IInv'
<1> SUFFICES ASSUME IInv, EvaluateIntent PROVE IInv'
  OBVIOUS
<1> DEFINE intent == effect.intents[1]
<1>1. /\ effect.intents \in Seq(Intents) /\ Len(effect.intents) = 1
      /\ intent \in Intents /\ effect.intents = <<intent>>
  BY DEF EvaluateIntent, IInv, TypeOK, Effects
<1>2. ~IsTerminalStatus(record.status)
  BY DEF IInv, FinishedIsIdle, EvaluateIntent
<1>3. CASE Throw /\ UNCHANGED <<record, gatewayVars>>
  <2>1. /\ queue' \in Seq(Messages) /\ queue' \in Seq(Commands)
        /\ effect' \in Effects /\ effect'.type = "NONE"
    BY <1>3, ThrowType
  <2> QED
    BY <1>3, <2>1 DEF IInv, TypeOK, EvaluateIntent, EffectFits, FinishedIsIdle,
         AuthorityIsBacked, Authorized, gatewayVars, clockVars, ghostVars
<1>4. CASE ~PrepareThrows(intent, record.reads)
  <2>1. Prepare(<<intent>>)
    BY <1>4 DEF EvaluateIntent
  <2>2. record.reads + AutoReads(<<intent>>) <= MaxReads /\ AutoReads(<<intent>>) \in Nat
    BY <1>4, AutoReadsOfOne, BudgetAssumption DEF PrepareThrows, IInv, TypeOK, Records
  <2>3. UNCHANGED ghostVars
    BY DEF EvaluateIntent
  <2>4. /\ record' \in Records
        /\ record'.status = record.status /\ record'.obligations = record.obligations
        /\ issued' \subseteq Intents /\ entry' \in Entries /\ grants' = grants
        /\ AuthorityIsBacked'
    BY <1>1, <2>1, <2>2, <2>3, PrepareStep DEF ghostVars
  <2>5. /\ queue' \in Seq(Messages) /\ queue' \in Seq(Commands)
        /\ effect' \in Effects /\ EffectFits'
    <3>1. CASE /\ effect' = [effect EXCEPT !.type = "PRECHECK", !.result = PolicyOutcome(intent)]
               /\ UNCHANGED queue
      <4>1. PolicyOutcome(intent) \in DOMAIN PolicyTarget
        BY PolicyOutcomeType
      <4>2. PolicyOutcome(intent) \in CommandResults
        BY <4>1 DEF CommandResults
      <4>3. /\ effect' \in Effects /\ effect'.type = "PRECHECK"
            /\ effect'.intents = effect.intents /\ effect'.result = PolicyOutcome(intent)
        BY <3>1, <4>2 DEF IInv, TypeOK, Effects, EffectTypes
      <4> QED
        BY <1>1, <3>1, <4>1, <4>3 DEF IInv, TypeOK, EffectFits, Carries
    <3>2. CASE Enqueue(PolicyDecided(<<intent>>, PolicyOutcome(intent)))
      <4>1. PolicyDecided(<<intent>>, PolicyOutcome(intent)) \in Messages
        BY <1>1, PolicyMessage, PolicyOutcomeType
      <4> QED
        BY <3>2, <4>1, EnqueueType DEF EffectFits
    <3> QED
      BY <1>4, <3>1, <3>2 DEF EvaluateIntent
  <2> QED
    BY <1>2, <2>4, <2>5 DEF IInv, TypeOK, EvaluateIntent, FinishedIsIdle, clockVars, ghostVars
<1> QED
  BY <1>3, <1>4 DEF EvaluateIntent

LEMMA PrecheckStep == IInv /\ Precheck => IInv'
<1> SUFFICES ASSUME IInv, Precheck PROVE IInv'
  OBVIOUS
<1>1. /\ effect.intents \in Seq(Intents) /\ Len(effect.intents) \in {1, 2}
      /\ effect.result \in DOMAIN PolicyTarget
  BY DEF Precheck, IInv, EffectFits, Carries
<1>2. /\ PolicyDecided(effect.intents, effect.result) \in Messages
      /\ PolicyDecided(effect.intents, "deny") \in Messages
  BY <1>1, PolicyMessage DEF PolicyTarget
<1>3. /\ queue' \in Seq(Messages) /\ queue' \in Seq(Commands)
      /\ effect' \in Effects /\ effect'.type = "NONE"
  BY <1>2, EnqueueType DEF Precheck
<1>4. record' \in Records
  <2>1. CASE record' = record
    BY <2>1 DEF IInv, TypeOK
  <2>2. CASE record.reads < MaxReads /\ record' = [record EXCEPT !.reads = record.reads + 1]
    <3>1. record.reads + 1 \in 0 .. MaxReads
      BY <2>2, BudgetAssumption DEF IInv, TypeOK, Records
    <3> QED
      BY <2>2, <3>1 DEF IInv, TypeOK, Records
  <2> QED
    BY <2>1, <2>2 DEF Precheck
<1>5. record'.status = record.status /\ record'.obligations = record.obligations
  BY DEF Precheck, IInv, TypeOK, Records
<1> QED
  BY <1>3, <1>4, <1>5 DEF IInv, TypeOK, Precheck, EffectFits, FinishedIsIdle, AuthorityIsBacked,
       Authorized, gatewayVars, clockVars, ghostVars

LEMMA EvaluateReadBundleStep == IInv /\ EvaluateReadBundle => IInv'
<1> SUFFICES ASSUME IInv, EvaluateReadBundle PROVE IInv'
  OBVIOUS
<1> DEFINE a == effect.intents[1]
           b == effect.intents[2]
           unsafe == IF ParallelSafe(a) THEN b ELSE a
<1>1. /\ effect.intents \in Seq(Intents) /\ Len(effect.intents) = 2
      /\ a \in Intents /\ b \in Intents
  BY DEF EvaluateReadBundle, IInv, TypeOK, Effects
<1>2. ~IsTerminalStatus(record.status)
  BY DEF IInv, FinishedIsIdle, EvaluateReadBundle
<1>3. UNCHANGED ghostVars
  BY DEF EvaluateReadBundle
<1>4. CASE Throw /\ UNCHANGED <<record, gatewayVars>>
  <2>1. /\ queue' \in Seq(Messages) /\ queue' \in Seq(Commands)
        /\ effect' \in Effects /\ effect'.type = "NONE"
    BY <1>4, ThrowType
  <2> QED
    BY <1>4, <2>1 DEF IInv, TypeOK, EvaluateReadBundle, EffectFits, FinishedIsIdle,
         AuthorityIsBacked, Authorized, gatewayVars, clockVars, ghostVars
<1>5. ASSUME NEW s \in Seq(Intents), Len(s) \in {1, 2}, Prepare(s),
             record.reads + AutoReads(s) <= MaxReads, AutoReads(s) \in Nat,
             NEW t \in Seq(Intents), Len(t) \in {1, 2}, NEW v \in DOMAIN PolicyTarget,
             Enqueue(PolicyDecided(t, v))
      PROVE  IInv'
  <2>1. /\ record' \in Records
        /\ record'.status = record.status /\ record'.obligations = record.obligations
        /\ issued' \subseteq Intents /\ entry' \in Entries /\ grants' = grants
        /\ AuthorityIsBacked'
    BY <1>3, <1>5, PrepareStep DEF ghostVars
  <2>2. /\ queue' \in Seq(Messages) /\ queue' \in Seq(Commands)
        /\ effect' \in Effects /\ effect'.type = "NONE"
    BY <1>5, PolicyMessage, EnqueueType
  <2> QED
    BY <1>2, <2>1, <2>2 DEF IInv, TypeOK, EvaluateReadBundle, EffectFits, FinishedIsIdle,
                            clockVars, ghostVars
<1>6. ASSUME NEW i \in {a, b}, ~PrepareThrows(i, record.reads), Prepare(<<i>>),
             Enqueue(PolicyDecided(<<i>>, PolicyOutcome(i)))
      PROVE  IInv'
  <2>1. record.reads + AutoReads(<<i>>) <= MaxReads /\ AutoReads(<<i>>) \in Nat
    BY <1>6, AutoReadsOfOne, BudgetAssumption DEF PrepareThrows, IInv, TypeOK, Records
  <2>2. <<i>> \in Seq(Intents) /\ Len(<<i>>) = 1
    BY <1>1
  <2> QED
    BY <1>5, <1>6, <2>1, <2>2, PolicyOutcomeType
<1>7. ASSUME a.kind = "read", ~PrepareThrows(a, record.reads),
             ~PrepareThrows(b, record.reads + 1), Prepare(<<a, b>>),
             \/ Enqueue(PolicyDecided(<<b>>, PolicyOutcome(b)))
             \/ Enqueue(PolicyDecided(<<a, b>>, "allow"))
      PROVE  IInv'
  <2>1. record.reads + AutoReads(<<a, b>>) <= MaxReads /\ AutoReads(<<a, b>>) \in Nat
    BY <1>7, AutoReadsOfTwo, BudgetAssumption DEF PrepareThrows, IInv, TypeOK, Records
  <2>2. /\ <<a, b>> \in Seq(Intents) /\ Len(<<a, b>>) = 2
        /\ <<b>> \in Seq(Intents) /\ Len(<<b>>) = 1
    BY <1>1
  <2>3. "allow" \in DOMAIN PolicyTarget
    BY DEF PolicyTarget
  <2> QED
    BY <1>5, <1>7, <2>1, <2>2, <2>3, PolicyOutcomeType
<1>8. unsafe \in {a, b}
  OBVIOUS
<1> QED
  BY <1>4, <1>6, <1>7, <1>8 DEF EvaluateReadBundle

LEMMA ExecuteIntentStep ==
  IInv /\ ExecuteIntent => /\ IInv'
                           /\ \A k \in 1 .. Len(ran') : k > Len(ran) => Authorized(ran'[k])
<1> SUFFICES ASSUME IInv, ExecuteIntent
             PROVE  /\ IInv'
                    /\ \A k \in 1 .. Len(ran') : k > Len(ran) => Authorized(ran'[k])
  OBVIOUS
<1> DEFINE intent == effect.intents[1]
<1>1. /\ effect.intents \in Seq(Intents) /\ Len(effect.intents) \in {1, 2}
      /\ intent \in Intents /\ intent \in Elements(effect.intents)
  BY DEF ExecuteIntent, IInv, TypeOK, EffectFits, Carries, Elements
<1>2. ~IsTerminalStatus(record.status)
  BY DEF IInv, FinishedIsIdle, ExecuteIntent
<1>3. CASE Throw /\ UNCHANGED <<issued, ghostVars>>
  <2>1. /\ queue' \in Seq(Messages) /\ queue' \in Seq(Commands)
        /\ effect' \in Effects /\ effect'.type = "NONE"
    BY <1>3, ThrowType
  <2>2. IInv'
    BY <1>3, <2>1 DEF IInv, TypeOK, ExecuteIntent, EffectFits, FinishedIsIdle,
         AuthorityIsBacked, Authorized, clockVars, ghostVars
  <2> QED
    BY <1>3, <2>2 DEF IInv, TypeOK, ghostVars
<1>4. CASE /\ Elements(effect.intents) \subseteq issued
           /\ issued' = issued \ Elements(effect.intents)
           /\ effect' = [effect EXCEPT !.type = "EXECUTING", !.doomed = (signal = "aborted")]
           /\ UNCHANGED queue
  <2>1. /\ effect' \in Effects /\ effect'.type = "EXECUTING" /\ effect'.intents = effect.intents
    BY <1>4 DEF IInv, TypeOK, Effects, EffectTypes
  <2>2. EffectFits'
    BY <1>1, <2>1 DEF EffectFits, Carries
  <2>3. CASE UNCHANGED ghostVars
    <3>1. IInv'
      BY <1>2, <1>4, <2>1, <2>2, <2>3 DEF IInv, TypeOK, ExecuteIntent, FinishedIsIdle,
           AuthorityIsBacked, Authorized, clockVars, ghostVars
    <3> QED
      BY <2>3, <3>1 DEF IInv, TypeOK, ghostVars
  <2>4. CASE /\ Mutates(intent)
             /\ ran' = Append(ran, intent)
             /\ consentOnce' = consentOnce \ {intent}
             /\ UNCHANGED <<consentTask, doubted>>
    <3>1. ran' \in Seq(Intents) /\ Len(ran') = Len(ran) + 1 /\ ran'[Len(ran) + 1] = intent
      BY <1>1, <2>4, AppendProperties DEF IInv, TypeOK
    <3>2. Authorized(intent)
      BY <1>1, <1>4, <2>4 DEF IInv, AuthorityIsBacked
    <3>3. \A i \in issued' : Mutates(i) => Authorized(i)'
      BY <1>1, <1>4, <2>4 DEF IInv, AuthorityIsBacked, Authorized
    <3>4. AuthorityIsBacked'
      BY <2>4, <3>3 DEF IInv, AuthorityIsBacked, ExecuteIntent
    <3>5. TypeOK'
      BY <1>4, <2>1, <2>4, <3>1 DEF IInv, TypeOK, ExecuteIntent, clockVars
    <3>6. IInv'
      BY <1>2, <1>4, <2>2, <3>4, <3>5 DEF IInv, ExecuteIntent, FinishedIsIdle
    <3>7. \A k \in 1 .. Len(ran') : k > Len(ran) => k = Len(ran) + 1
      BY <3>1 DEF IInv, TypeOK
    <3> QED
      BY <3>1, <3>2, <3>6, <3>7
  <2> QED
    BY <1>4, <2>3, <2>4 DEF ExecuteIntent
<1> QED
  BY <1>3, <1>4 DEF ExecuteIntent

LEMMA ExecutionEndsStep == IInv /\ ExecutionEnds => IInv'
<1> SUFFICES ASSUME IInv, ExecutionEnds PROVE IInv'
  OBVIOUS
<1>1. effect.intents \in Seq(Intents) /\ Len(effect.intents) \in {1, 2}
  BY DEF ExecutionEnds, IInv, EffectFits, Carries
<1>2. \A result \in ExecutionResults :
        Command("EXECUTION_FINISHED", effect.intents, result) \in Messages
  BY <1>1, CommandInMessages DEF ExecutionResults, PlainTarget, CommandResults
<1>3. /\ queue' \in Seq(Messages) /\ queue' \in Seq(Commands)
      /\ effect' \in Effects /\ effect'.type = "NONE"
  BY <1>2, EnqueueType, ThrowType DEF ExecutionEnds
<1> QED
  BY <1>3 DEF IInv, TypeOK, ExecutionEnds, EffectFits, FinishedIsIdle, AuthorityIsBacked,
              Authorized, gatewayVars, clockVars, ghostVars

LEMMA WorseType == ASSUME NEW v \in Verdicts, NEW w \in Verdicts PROVE Worse(v, w) \in Verdicts
  BY DEF Worse, Verdicts

LEMMA CheckObservedType ==
  ASSUME IInv, NEW verdict \in Verdicts, record.obligations # <<>>, CheckObserved(verdict)
  PROVE  /\ record' \in Records /\ record'.status = record.status
         /\ pendingTerminalVerification' \in {"none", "failed", "inconclusive"}
         /\ doubted' \subseteq Ids
<1> DEFINE obligation == Head(record.obligations)
           worst      == Worse(obligation.worst, verdict)
           remaining  == Tail(obligation.checks)
<1>1. record \in Records /\ record.obligations \in Seq(Obligations)
  BY DEF IInv, TypeOK, Records
<1>2. obligation \in Obligations /\ Tail(record.obligations) \in Seq(Obligations)
  BY <1>1, HeadTailProperties
<1>3. worst \in Verdicts
  BY <1>2, WorseType DEF Obligations
<1>4. remaining \in Seq(CheckKinds)
  BY <1>2, HeadTailProperties DEF Obligations
<1>5. doubted' \subseteq Ids
  BY <1>2 DEF CheckObserved, IInv, TypeOK, Obligations
<1>6. CASE remaining # <<>>
  <2> DEFINE kept == [id |-> obligation.id, checks |-> remaining, worst |-> worst]
  <2>1. kept \in Obligations
    BY <1>2, <1>3, <1>4, <1>6 DEF Obligations
  <2>2. 1 \in 1 .. Len(record.obligations)
    BY <1>1
  <2>3. [record.obligations EXCEPT ![1] = kept] \in Seq(Obligations)
    BY <1>1, <2>1, <2>2, ExceptSeq
  <2>4. record' = [record EXCEPT !.obligations = [record.obligations EXCEPT ![1] = kept]]
    BY <1>6 DEF CheckObserved
  <2>5. UNCHANGED pendingTerminalVerification
    BY <1>6 DEF CheckObserved
  <2> QED
    BY <1>1, <1>5, <2>3, <2>4, <2>5 DEF Records, IInv, TypeOK
<1>7. CASE remaining = <<>>
  <2> DEFINE changes == [record.changes EXCEPT ![obligation.id] =
                           IF record.changes[obligation.id] = "none" THEN "none" ELSE worst]
  <2>1. changes \in [Ids -> ChangeStatuses]
    BY <1>1, <1>3 DEF Records, ChangeStatuses
  <2>2. record' = [record EXCEPT !.changes = changes, !.obligations = Tail(record.obligations)]
    BY <1>7 DEF CheckObserved
  <2>3. pendingTerminalVerification' \in {"none", "failed", "inconclusive"}
    BY <1>3, <1>7 DEF CheckObserved, Verdicts, IInv, TypeOK
  <2> QED
    BY <1>1, <1>2, <1>5, <2>1, <2>2, <2>3 DEF Records
<1> QED
  BY <1>6, <1>7

LEMMA BuildObservationStep == IInv /\ BuildObservation => IInv'
<1> SUFFICES ASSUME IInv, BuildObservation PROVE IInv'
  OBVIOUS
<1>1. /\ effect.intents \in Seq(Intents) /\ Len(effect.intents) \in {1, 2}
      /\ effect.result \in CommandResults
  BY DEF BuildObservation, IInv, EffectFits, Carries, TypeOK, Effects
<1>2. Command("OBSERVATION_READY", effect.intents, effect.result) \in Messages
  BY <1>1, CommandInMessages DEF PlainTarget
<1>3. /\ queue' \in Seq(Messages) /\ queue' \in Seq(Commands)
      /\ effect' \in Effects /\ effect'.type = "NONE"
  BY <1>2, EnqueueType, ThrowType DEF BuildObservation
<1>4. /\ record' \in Records /\ record'.status = record.status
      /\ pendingTerminalVerification' \in {"none", "failed", "inconclusive"}
      /\ doubted' \subseteq Ids
  <2>1. CASE UNCHANGED <<record, pendingTerminalVerification, doubted>>
    BY <2>1 DEF IInv, TypeOK
  <2>2. ASSUME record.obligations # <<>>,
               NEW verdict \in {"passed", "failed", "inconclusive"}, CheckObserved(verdict)
        PROVE  /\ record' \in Records /\ record'.status = record.status
               /\ pendingTerminalVerification' \in {"none", "failed", "inconclusive"}
               /\ doubted' \subseteq Ids
    BY <2>2, CheckObservedType DEF Verdicts
  <2> QED
    BY <2>1, <2>2 DEF BuildObservation
<1> QED
  BY <1>3, <1>4 DEF IInv, TypeOK, BuildObservation, EffectFits, FinishedIsIdle,
       AuthorityIsBacked, Authorized, gatewayVars, clockVars

LEMMA RecordedType ==
  ASSUME NEW r \in Records
  PROVE  Recorded(r) \in Records /\ Recorded(r).status = r.status
<1>1. CASE VerifiableChange(r.invocation)
  <2> DEFINE i == r.invocation
             owed == [id |-> i.id, checks |-> i.plan, worst |-> "passed"]
  <2>1. i \in Intents /\ i.plan # <<>>
    BY <1>1 DEF VerifiableChange, Records
  <2>2. owed \in Obligations
    BY <2>1, PlansAssumption DEF Obligations, Intents, Verdicts
  <2>3. Append(r.obligations, owed) \in Seq(Obligations)
    BY <2>2, AppendProperties DEF Records
  <2>4. [r.changes EXCEPT ![i.id] = "pending"] \in [Ids -> ChangeStatuses]
    BY DEF Records, ChangeStatuses
  <2> QED
    BY <2>3, <2>4 DEF Recorded, Records
<1>2. CASE ~VerifiableChange(r.invocation)
  BY <1>2 DEF Recorded
<1> QED
  BY <1>1, <1>2

LEMMA ReduceContextStep == IInv /\ ReduceContext => IInv'
<1> SUFFICES ASSUME IInv, ReduceContext PROVE IInv'
  OBVIOUS
<1>1. /\ queue' \in Seq(Messages) /\ queue' \in Seq(Commands)
      /\ effect' \in Effects /\ effect'.type = "NONE"
  BY PlainMessage, EnqueueType DEF ReduceContext
<1> DEFINE counted == [record EXCEPT !.errors = ErrorsAfter(record.errors, effect.result)]
<1>2. ErrorsAfter(record.errors, effect.result) \in 0 .. (MaxErrors + 1)
  <2>1. record.errors \in Nat /\ MaxErrors \in Nat
    BY BudgetAssumption DEF IInv, TypeOK, Records
  <2> QED
    BY <2>1 DEF ErrorsAfter, Capped
<1>3. counted \in Records
  BY <1>2 DEF IInv, TypeOK, Records
<1>4. record' = Recorded(counted)
  BY DEF ReduceContext
<1>5. record' \in Records
  BY <1>3, <1>4, RecordedType
<1>6. repeats' \in 0 .. (MaxRepeats + 1)
  <2>1. repeats \in Nat /\ MaxRepeats \in Nat
    BY BudgetAssumption DEF IInv, TypeOK
  <2> QED
    BY <2>1 DEF ReduceContext, RepeatsAfter, Capped
<1>7. ~IsTerminalStatus(record.status) /\ record'.status = record.status
  BY <1>3, <1>4, RecordedType DEF IInv, FinishedIsIdle, ReduceContext, TypeOK, Records
<1> QED
  BY <1>1, <1>5, <1>6, <1>7 DEF IInv, TypeOK, ReduceContext, EffectFits, FinishedIsIdle,
       AuthorityIsBacked, Authorized, gatewayVars, clockVars, ghostVars

LEMMA EvaluateProgressStep == IInv /\ EvaluateProgress => IInv'
<1> SUFFICES ASSUME IInv, EvaluateProgress PROVE IInv'
  OBVIOUS
<1>1. ASSUME record.obligations # <<>>,
             Head(Head(record.obligations).checks) # "missing"
      PROVE  Command("FOLLOW_UP_PROPOSED",
                     <<FollowUp(Head(Head(record.obligations).checks))>>, "none") \in Messages
  <2> DEFINE check == Head(Head(record.obligations).checks)
  <2>1. Head(record.obligations) \in Obligations
    BY <1>1, HeadTailProperties DEF IInv, TypeOK, Records
  <2>2. check \in CheckKinds
    BY <2>1, HeadTailProperties DEF Obligations
  <2>3. check \in Kinds
    BY <1>1, <2>2 DEF CheckKinds, Kinds
  <2>4. (CHOOSE c \in Contents : TRUE) \in Contents
    BY ContentsAssumption
  <2>5. 0 \in Ids
    BY BudgetAssumption DEF Ids
  <2> HIDE DEF check
  <2>6. FollowUp(check) \in Intents
    BY <2>3, <2>4, <2>5 DEF FollowUp, Intents
  <2>7. <<FollowUp(check)>> \in Seq(Intents) /\ Len(<<FollowUp(check)>>) = 1
    BY <2>6
  <2>8. Command("FOLLOW_UP_PROPOSED", <<FollowUp(check)>>, "none") \in Messages
    BY <2>7, CommandInMessages DEF PlainTarget, CommandResults
  <2> QED
    BY <2>8 DEF check
<1>2. ProgressCommand \in Messages
  BY <1>1, PlainMessage DEF ProgressCommand
<1>3. /\ queue' \in Seq(Messages) /\ queue' \in Seq(Commands)
      /\ effect' \in Effects /\ effect'.type = "NONE"
  BY <1>2, EnqueueType DEF EvaluateProgress
<1> QED
  BY <1>3 DEF IInv, TypeOK, EvaluateProgress, EffectFits, FinishedIsIdle, AuthorityIsBacked,
              Authorized, gatewayVars, clockVars, ghostVars

LEMMA RunMutationVerificationStep == IInv /\ RunMutationVerification => IInv'
<1> SUFFICES ASSUME IInv, RunMutationVerification PROVE IInv'
  OBVIOUS
<1>1. effect' \in Effects /\ effect'.type = "RUN_CHECKS"
  BY DEF RunMutationVerification, IInv, TypeOK, Effects, EffectTypes
<1>2. record.obligations # <<>> /\ ~IsTerminalStatus(record.status)
  BY DEF RunMutationVerification, IInv, EffectFits, FinishedIsIdle
<1>3. signal' \in {"none", "live", "aborted"}
  BY DEF RunMutationVerification, IInv, TypeOK
<1> QED
  BY <1>1, <1>2, <1>3 DEF IInv, TypeOK, RunMutationVerification, EffectFits, FinishedIsIdle,
       AuthorityIsBacked, Authorized, gatewayVars, clockVars, ghostVars

LEMMA ChecksEndStep == IInv /\ ChecksEnd => IInv'
<1> SUFFICES ASSUME IInv, ChecksEnd PROVE IInv'
  OBVIOUS
<1> DEFINE obligation == Head(record.obligations)
           checks     == obligation.checks
           S          == {k \in 1 .. Len(checks) : checks[k] = "read"}
           affordable == Capped(Cardinality(S), MaxReads - record.reads)
<1>1. obligation \in Obligations
  BY HeadTailProperties DEF ChecksEnd, IInv, EffectFits, TypeOK, Records
<1>2. Cardinality(S) \in Nat
  <2>1. Len(checks) \in Nat
    BY <1>1 DEF Obligations
  <2>2. IsFiniteSet(1 .. Len(checks))
    BY <2>1, FS_Interval
  <2>3. IsFiniteSet(S)
    BY <2>2, FS_Subset
  <2> QED
    BY <2>3, FS_CardinalityType
<1> HIDE DEF S
<1>3. affordable \in Nat /\ record.reads + affordable <= MaxReads
  BY <1>2, BudgetAssumption DEF Capped, IInv, TypeOK, Records
<1>4. \A verdict \in Verdicts : Verified(obligation.id, verdict) \in Messages
  BY <1>1, EmptySeq DEF Verified, Messages, Commands, CommandTypes, CommandResults, WellFormed,
                        Obligations
<1>5. CASE Throw /\ UNCHANGED record
  <2>1. /\ queue' \in Seq(Messages) /\ queue' \in Seq(Commands)
        /\ effect' \in Effects /\ effect'.type = "NONE"
    BY <1>5, ThrowType
  <2> QED
    BY <1>5, <2>1 DEF IInv, TypeOK, ChecksEnd, EffectFits, FinishedIsIdle, AuthorityIsBacked,
                      Authorized, gatewayVars, clockVars, ghostVars
<1>6. ASSUME NEW used \in 0 .. affordable, NEW verdict \in Verdicts,
             record' = [record EXCEPT !.reads = record.reads + used],
             Enqueue(Verified(obligation.id, verdict))
      PROVE  IInv'
  <2>1. record.reads + used \in 0 .. MaxReads
    BY <1>3, BudgetAssumption DEF IInv, TypeOK, Records
  <2>2. record' \in Records /\ record'.status = record.status
    BY <1>6, <2>1 DEF IInv, TypeOK, Records
  <2>3. /\ queue' \in Seq(Messages) /\ queue' \in Seq(Commands)
        /\ effect' \in Effects /\ effect'.type = "NONE"
    BY <1>4, <1>6, EnqueueType
  <2> QED
    BY <2>2, <2>3 DEF IInv, TypeOK, ChecksEnd, EffectFits, FinishedIsIdle, AuthorityIsBacked,
                      Authorized, gatewayVars, clockVars, ghostVars
<1>7. \/ Throw /\ UNCHANGED record
      \/ \E used \in (IF deadlinePassed THEN 0 .. affordable ELSE {affordable}) :
           \E verdict \in Verdicts :
             /\ record' = [record EXCEPT !.reads = record.reads + used]
             /\ Enqueue(Verified(obligation.id, verdict))
  BY DEF ChecksEnd, Verdicts, S
<1>8. (IF deadlinePassed THEN 0 .. affordable ELSE {affordable}) \subseteq 0 .. affordable
  BY <1>3
<1> QED
  BY <1>5, <1>6, <1>7, <1>8

LEMMA VerifyCompletionStep == IInv /\ VerifyCompletion => IInv'
<1> SUFFICES ASSUME IInv, VerifyCompletion PROVE IInv'
  OBVIOUS
<1>1. /\ queue' \in Seq(Messages) /\ queue' \in Seq(Commands)
      /\ effect' \in Effects /\ effect'.type = "NONE"
  BY PlainMessage, EnqueueType DEF VerifyCompletion
<1> QED
  BY <1>1 DEF IInv, TypeOK, VerifyCompletion, EffectFits, FinishedIsIdle, AuthorityIsBacked,
              Authorized, gatewayVars, clockVars, ghostVars

-----------------------------------------------------------------------------
(* The user, time and crashes. *)

LEMMA PushType ==
  ASSUME IInv, NEW m \in Messages
  PROVE  Append(queue, m) \in Seq(Messages) /\ Append(queue, m) \in Seq(Commands)
<1>1. Append(queue, m) \in Seq(Messages)
  BY AppendProperties DEF IInv
<1> QED
  BY <1>1, SeqMonotonic DEF Messages

LEMMA PreemptType ==
  ASSUME IInv, Preempt
  PROVE  /\ signal' \in {"none", "live", "aborted"}
         /\ effect' \in Effects /\ effect'.type = effect.type
         /\ effect'.intents = effect.intents /\ effect'.result = effect.result
  BY DEF Preempt, IInv, TypeOK, Effects

LEMMA UserPauseStep == IInv /\ UserPause => IInv'
<1> SUFFICES ASSUME IInv, UserPause PROVE IInv'
  OBVIOUS
<1>1. UserCommand("PAUSE", <<>>, "none") \in Messages
  BY CommandInMessages, EmptySeq DEF PlainTarget, CommandResults
<1>2. queue' \in Seq(Messages) /\ queue' \in Seq(Commands)
  BY <1>1, PushType DEF UserPause, IInv, TypeOK
<1>3. /\ signal' \in {"none", "live", "aborted"}
      /\ effect' \in Effects /\ effect'.type = effect.type
      /\ effect'.intents = effect.intents /\ effect'.result = effect.result
  BY PreemptType DEF UserPause, IInv, TypeOK
<1>4. safePoint' \in {"none", "cancel", "pause"}
  BY DEF UserPause, IInv, TypeOK
<1> QED
  BY <1>2, <1>3, <1>4 DEF IInv, TypeOK, UserPause, EffectFits, Carries, FinishedIsIdle,
       AuthorityIsBacked, Authorized, gatewayVars, clockVars, ghostVars

LEMMA UserCancelStep == IInv /\ UserCancel => IInv'
<1> SUFFICES ASSUME IInv, UserCancel PROVE IInv'
  OBVIOUS
<1>1. UserCommand("CANCEL", <<>>, "none") \in Messages
  BY CommandInMessages, EmptySeq DEF PlainTarget, CommandResults
<1>2. queue' \in Seq(Messages) /\ queue' \in Seq(Commands)
  BY <1>1, PushType DEF UserCancel, IInv, TypeOK
<1>3. /\ signal' \in {"none", "live", "aborted"}
      /\ effect' \in Effects /\ effect'.type = effect.type
      /\ effect'.intents = effect.intents /\ effect'.result = effect.result
  BY PreemptType DEF UserCancel
<1>4. safePoint' \in {"none", "cancel", "pause"}
  BY DEF UserCancel, IInv, TypeOK
<1> QED
  BY <1>2, <1>3, <1>4 DEF IInv, TypeOK, UserCancel, EffectFits, Carries, FinishedIsIdle,
       AuthorityIsBacked, Authorized, gatewayVars, clockVars, ghostVars

LEMMA UserResumeStep == IInv /\ UserResume => IInv'
  BY DEF IInv, TypeOK, UserResume, EffectFits, Carries, FinishedIsIdle, AuthorityIsBacked,
         Authorized, gatewayVars, ghostVars

LEMMA ResumeBoundStep == IInv /\ ResumeBound => IInv'
<1> SUFFICES ASSUME IInv, ResumeBound PROVE IInv'
  OBVIOUS
<1>1. UserCommand("RESUME", <<>>, "none") \in Messages
  BY EmptySeq, BudgetAssumption
     DEF UserCommand, Messages, Commands, CommandTypes, CommandResults, WellFormed, Ids
<1>2. queue' \in Seq(Messages) /\ queue' \in Seq(Commands)
  BY <1>1, PushType DEF ResumeBound, IInv, TypeOK
<1>3. resuming' \in Nat /\ resourcesRevoked' \in BOOLEAN
  <2>1. resuming \in Nat /\ resuming > 0 /\ resuming' = resuming - 1
    BY DEF ResumeBound, IInv, TypeOK
  <2>2. resuming' \in Nat
    BY <2>1
  <2>3. resourcesRevoked' \in BOOLEAN
    BY DEF ResumeBound, IInv, TypeOK
  <2> QED
    BY <2>2, <2>3
<1>4. \/ UNCHANGED <<gatewayVars, consentOnce, consentTask>>
      \/ /\ issued' = {} /\ grants' = {} /\ entry' = Resolved(entry)
         /\ consentOnce' = {} /\ consentTask' = {}
  BY DEF ResumeBound, RevokeTask
<1>5. /\ issued' \subseteq Intents /\ grants' \subseteq Digests /\ entry' \in Entries
      /\ consentOnce' \subseteq Intents /\ consentTask' \subseteq Digests
  BY <1>4, ResolvedType DEF gatewayVars, IInv, TypeOK
<1>6. AuthorityIsBacked'
  BY <1>4 DEF AuthorityIsBacked, Authorized, IInv, gatewayVars
<1> QED
  BY <1>2, <1>3, <1>5, <1>6 DEF IInv, TypeOK, ResumeBound, EffectFits, Carries, FinishedIsIdle

LEMMA ShownIntent ==
  ASSUME IInv, ApprovalShown
  PROVE  entry.intent \in Intents
  BY DEF IInv, TypeOK, Entries, NoEntry, ApprovalShown

LEMMA DigestType == ASSUME NEW i \in Intents PROVE Digest(i) \in Digests
  BY DEF Digest, Digests, Intents

LEMMA AnswerType ==
  ASSUME IInv, NEW t \in DOMAIN PlainTarget \cup {"APPROVAL_RESOLVED"}, NEW s \in Seq(Intents),
         NEW res \in CommandResults, NEW origin \in {"runtime", "user"},
         t = "APPROVAL_RESOLVED" =>
           res \in DOMAIN ApprovalTarget /\ (res = "approve" => Len(s) = 1),
         t \in {"APPROVAL_REVISED", "FOLLOW_UP_PROPOSED", "EXECUTION_FINISHED",
                "OBSERVATION_READY"} => Len(s) = 1,
         Answer(t, s, res, origin)
  PROVE  queue' \in Seq(Messages) /\ queue' \in Seq(Commands)
<1> DEFINE m == [type |-> t, origin |-> origin, intents |-> s, result |-> res, change |-> 0]
<1>1. 0 \in Ids
  BY BudgetAssumption DEF Ids
<1>2. m \in Messages
  BY <1>1 DEF Messages, Commands, CommandTypes, WellFormed, Carries, PlainTarget
<1> QED
  BY <1>2, PushType DEF Answer

LEMMA ApproveStep == ASSUME NEW forTask \in BOOLEAN PROVE IInv /\ Approve(forTask) => IInv'
<1> SUFFICES ASSUME IInv, Approve(forTask) PROVE IInv'
  OBVIOUS
<1> DEFINE intent == entry.intent
<1>1. intent \in Intents /\ Digest(intent) \in Digests
  BY ShownIntent, DigestType DEF Approve
<1>3. <<intent>> \in Seq(Intents) /\ Len(<<intent>>) = 1
  BY <1>1
<1>2. entry' \in Entries
  BY ResolvedType DEF Approve, IInv, TypeOK
<1>4. CASE /\ Answer("HANDOFF_APPROVED", <<intent>>, "none", "user")
           /\ UNCHANGED <<issued, grants, consentOnce, consentTask>>
  <2>1. queue' \in Seq(Messages) /\ queue' \in Seq(Commands)
    BY <1>3, <1>4, AnswerType DEF PlainTarget, CommandResults
  <2> QED
    BY <1>2, <1>4, <2>1 DEF IInv, TypeOK, Approve, EffectFits, Carries, FinishedIsIdle,
         AuthorityIsBacked, Authorized, clockVars
<1>5. CASE /\ Answer("APPROVAL_RESOLVED", <<intent>>, "approve", "user")
           /\ issued' = issued \cup {intent}
           /\ grants' = IF forTask THEN grants \cup {Digest(intent)} ELSE grants
           /\ Consented(intent, forTask)
  <2>1. queue' \in Seq(Messages) /\ queue' \in Seq(Commands)
    BY <1>3, <1>5, AnswerType DEF ApprovalTarget, CommandResults
  <2>2. /\ issued' \subseteq Intents /\ grants' \subseteq Digests
        /\ consentOnce' \subseteq Intents /\ consentTask' \subseteq Digests
    BY <1>1, <1>5 DEF Consented, IInv, TypeOK
  <2>3. consentOnce \subseteq consentOnce' /\ consentTask \subseteq consentTask'
    BY <1>5 DEF Consented
  <2>4. ASSUME NEW i \in issued', Mutates(i)
        PROVE  Authorized(i)'
    BY <1>5, <2>3, <2>4 DEF Consented, Authorized, IInv, AuthorityIsBacked
  <2>5. ASSUME NEW i \in Intents, Mutates(i), Digest(i) \in grants'
        PROVE  Digest(i) \in consentTask'
    <3>1. CASE Digest(i) \in grants
      BY <2>3, <2>5, <3>1 DEF IInv, AuthorityIsBacked
    <3>2. CASE Digest(i) \notin grants
      <4>1. Digest(i) = Digest(intent) /\ forTask
        BY <1>5, <2>5, <3>2
      <4>2. i.kind = intent.kind
        BY <4>1 DEF Digest
      <4>3. Mutates(intent)
        BY <2>5, <4>2 DEF Mutates
      <4> QED
        BY <1>5, <4>1, <4>3 DEF Consented
    <3> QED
      BY <3>1, <3>2
  <2>6. AuthorityIsBacked'
    BY <2>4, <2>5 DEF AuthorityIsBacked
  <2> QED
    BY <1>2, <2>1, <2>2, <2>6 DEF IInv, TypeOK, Approve, EffectFits, Carries, FinishedIsIdle,
         clockVars
<1> QED
  BY <1>4, <1>5 DEF Approve

LEMMA DeclineStep ==
  ASSUME NEW choice \in {"reject", "cancel_task", "expired"}
  PROVE  IInv /\ Decline(choice) => IInv'
<1> SUFFICES ASSUME IInv, Decline(choice) PROVE IInv'
  OBVIOUS
<1>1. entry' \in Entries
  BY ResolvedType DEF Decline, IInv, TypeOK
<1>2. queue' \in Seq(Messages) /\ queue' \in Seq(Commands)
  BY AnswerType, EmptySeq DEF Decline, ApprovalTarget, CommandResults
<1> QED
  BY <1>1, <1>2 DEF IInv, TypeOK, Decline, EffectFits, Carries, FinishedIsIdle,
       AuthorityIsBacked, Authorized, clockVars, ghostVars

LEMMA ReviseApprovalStep == IInv /\ ReviseApproval => IInv'
<1> SUFFICES ASSUME IInv, ReviseApproval PROVE IInv'
  OBVIOUS
<1>1. entry' \in Entries
  BY ResolvedType DEF ReviseApproval, IInv, TypeOK
<1>2. PICK content \in Contents, kind \in RevisedKinds(entry.intent.kind) \cap OfferedKinds :
        Answer("APPROVAL_REVISED",
               <<[entry.intent EXCEPT !.content = content, !.kind = kind, !.check = FALSE]>>,
               "none", "user")
  BY DEF ReviseApproval
<1>3. [entry.intent EXCEPT !.content = content, !.kind = kind, !.check = FALSE] \in Intents
  BY ShownIntent, SessionAssumption DEF ReviseApproval, Intents
<1> DEFINE revised == [entry.intent EXCEPT !.content = content, !.kind = kind, !.check = FALSE]
<1>4. <<revised>> \in Seq(Intents) /\ Len(<<revised>>) = 1
  BY <1>3
<1> HIDE DEF revised
<1>5. Answer("APPROVAL_REVISED", <<revised>>, "none", "user")
  BY <1>2 DEF revised
<1>6. queue' \in Seq(Messages) /\ queue' \in Seq(Commands)
  BY <1>4, <1>5, AnswerType DEF PlainTarget, CommandResults
<1> QED
  BY <1>1, <1>6 DEF IInv, TypeOK, ReviseApproval, EffectFits, Carries, FinishedIsIdle,
       AuthorityIsBacked, Authorized, clockVars, ghostVars

LEMMA ApprovalTimerStep == IInv /\ ApprovalTimerFires => IInv'
<1> SUFFICES ASSUME IInv, ApprovalTimerFires PROVE IInv'
  OBVIOUS
<1>1. entry' \in Entries
  BY ResolvedType DEF ApprovalTimerFires, IInv, TypeOK
<1>2. queue' \in Seq(Messages) /\ queue' \in Seq(Commands)
  <2>1. CASE Answer("APPROVAL_RESOLVED", <<>>, "expired", "runtime")
    BY <2>1, AnswerType, EmptySeq DEF ApprovalTarget, CommandResults
  <2>2. CASE UNCHANGED queue
    BY <2>2 DEF IInv, TypeOK
  <2> QED
    BY <2>1, <2>2 DEF ApprovalTimerFires
<1> QED
  BY <1>1, <1>2 DEF IInv, TypeOK, ApprovalTimerFires, EffectFits, Carries, FinishedIsIdle,
       AuthorityIsBacked, Authorized, clockVars, ghostVars

LEMMA DeadlineStep == IInv /\ DeadlinePasses => IInv'
  BY DEF IInv, TypeOK, DeadlinePasses, EffectFits, Carries, FinishedIsIdle, AuthorityIsBacked,
         Authorized, gatewayVars, ghostVars

LEMMA RetainedType == ASSUME NEW r \in Records PROVE Retained(r) \in Records
<1>1. CASE /\ r.status \in {"executing", "observing", "reducing", "evaluating", "verifying"}
           /\ VerifiableChange(r.invocation)
  <2> DEFINE i == r.invocation
             owed == [id |-> i.id, checks |-> i.plan, worst |-> "passed"]
             status == IF r.changes[i.id] = "none" THEN "pending" ELSE r.changes[i.id]
             obligations == IF \E k \in 1 .. Len(r.obligations) : r.obligations[k].id = i.id
                              THEN r.obligations ELSE Append(r.obligations, owed)
  <2>1. i \in Intents /\ i.plan # <<>>
    BY <1>1 DEF VerifiableChange, Records
  <2>2. owed \in Obligations
    BY <2>1, PlansAssumption DEF Obligations, Intents, Verdicts
  <2>3. obligations \in Seq(Obligations)
    BY <2>2, AppendProperties DEF Records
  <2>4. [r.changes EXCEPT ![i.id] = status] \in [Ids -> ChangeStatuses]
    BY <2>1 DEF Records, ChangeStatuses, Intents
  <2>5. Retained(r) = [r EXCEPT !.changes = [r.changes EXCEPT ![i.id] = status],
                                !.obligations = obligations]
    BY <1>1 DEF Retained
  <2> HIDE DEF obligations, status
  <2> QED
    BY <2>3, <2>4, <2>5 DEF Records
<1>2. CASE ~(/\ r.status \in {"executing", "observing", "reducing", "evaluating", "verifying"}
             /\ VerifiableChange(r.invocation))
  BY <1>2 DEF Retained
<1> QED
  BY <1>1, <1>2

LEMMA RestartStep == IInv /\ Restart => IInv'
<1> SUFFICES ASSUME IInv, Restart PROVE IInv'
  OBVIOUS
<1>1. Retained(record) \in Records
  BY RetainedType DEF IInv, TypeOK
<1>2. record' \in Records
  BY <1>1 DEF Restart, Records, SessionStatuses
<1>3. effect' \in Effects /\ effect'.type = "NONE"
  BY EmptySeq DEF Restart, NoEffect, Effects, EffectTypes, CommandResults
<1>4. queue' \in Seq(Messages) /\ queue' \in Seq(Commands)
  BY EmptySeq DEF Restart
<1>5. restarts' \in Nat /\ repeats' \in 0 .. (MaxRepeats + 1)
  BY BudgetAssumption DEF Restart, IInv, TypeOK
<1> QED
  BY <1>2, <1>3, <1>4, <1>5 DEF IInv, TypeOK, Restart, EffectFits, FinishedIsIdle,
       AuthorityIsBacked, Entries, NoEntry

-----------------------------------------------------------------------------
(* The theorems. *)

LEMMA StutterStep == IInv /\ UNCHANGED vars => IInv'
  BY DEF IInv, TypeOK, vars, EffectFits, Carries, FinishedIsIdle, AuthorityIsBacked, Authorized

LEMMA IInvStep == IInv /\ [Next]_vars => IInv'
<1> SUFFICES ASSUME IInv, [Next]_vars PROVE IInv'
  OBVIOUS
<1>1. CASE Worker
  BY <1>1, IgnoreStep, RejectStep, AcceptStep, RunHarnessStep, HarnessTurnStep,
     EvaluateIntentStep, PrecheckStep, EvaluateReadBundleStep, ExecuteIntentStep,
     ExecutionEndsStep, BuildObservationStep, ReduceContextStep, EvaluateProgressStep,
     RunMutationVerificationStep, ChecksEndStep, VerifyCompletionStep DEF Worker
<1>2. CASE User
  BY <1>2, UserPauseStep, UserCancelStep, UserResumeStep, ApproveStep, DeclineStep,
     ReviseApprovalStep DEF User
<1>3. CASE ResumeBound
  BY <1>3, ResumeBoundStep
<1>4. CASE ApprovalTimerFires
  BY <1>4, ApprovalTimerStep
<1>5. CASE DeadlinePasses
  BY <1>5, DeadlineStep
<1>6. CASE Restart
  BY <1>6, RestartStep
<1>7. CASE UNCHANGED vars
  BY <1>7, StutterStep
<1> QED
  BY <1>1, <1>2, <1>3, <1>4, <1>5, <1>6, <1>7 DEF Next

\* IInv holds in every reachable state: a running effect has the messages and
\* the obligations its handler reads, nothing runs in a finished task, and every
\* capability and grant of a change is backed by a consent (session-manager.js,
\* gateway.js). The theorems below rest on it.
THEOREM Invariance == Spec => []IInv
  BY InitIInv, IInvStep, PTL DEF Spec

\* Every variable of the runtime keeps its type, whatever the plans, contents,
\* budgets and faults (state-machine.js, session-manager.js, gateway.js).
THEOREM TypeCorrect == Spec => []TypeOK
<1>1. IInv => TypeOK
  BY DEF IInv
<1> QED
  BY Invariance, <1>1, PTL

\* Only ToolGateway.execute sends a change to the host.
LEMMA OnlyExecutionSends == [Next]_vars /\ ~ExecuteIntent => ran' = ran
<1> SUFFICES ASSUME [Next]_vars, ~ExecuteIntent PROVE ran' = ran
  OBVIOUS
<1>1. CASE IgnoreCommand \/ RejectCommand \/ AcceptCommand \/ RunHarness \/ HarnessTurn
  BY <1>1 DEF IgnoreCommand, RejectCommand, AcceptCommand, RunHarness, HarnessTurn, ghostVars
<1>2. CASE EvaluateIntent \/ Precheck \/ EvaluateReadBundle \/ ExecutionEnds
  BY <1>2 DEF EvaluateIntent, Precheck, EvaluateReadBundle, ExecutionEnds, ghostVars
<1>3. CASE BuildObservation \/ ReduceContext \/ EvaluateProgress
  BY <1>3 DEF BuildObservation, ReduceContext, EvaluateProgress, ghostVars
<1>4. CASE RunMutationVerification \/ ChecksEnd \/ VerifyCompletion
  BY <1>4 DEF RunMutationVerification, ChecksEnd, VerifyCompletion, ghostVars
<1>5. CASE User
  BY <1>5 DEF User, UserPause, UserCancel, UserResume, Approve, Decline, ReviseApproval,
              ghostVars
<1>6. CASE ResumeBound \/ ApprovalTimerFires \/ DeadlinePasses \/ Restart \/ UNCHANGED vars
  BY <1>6 DEF ResumeBound, ApprovalTimerFires, DeadlinePasses, Restart, ghostVars, vars
<1> QED
  BY <1>1, <1>2, <1>3, <1>4, <1>5, <1>6 DEF Next, Worker

\* A change reaches the host only under a consent of the user that is in force:
\* tokens, task grants, revisions, resumes and crashes never let one through
\* (gateway.js execute, approval-manager.js, capability-token.js).
THEOREM AuthorizedChanges == Spec => ChangesAreAuthorized
<1>1. IInv /\ [Next]_vars => [\A k \in 1 .. Len(ran') : k > Len(ran) => Authorized(ran'[k])]_vars
  <2> SUFFICES ASSUME IInv, [Next]_vars
               PROVE  \A k \in 1 .. Len(ran') : k > Len(ran) => Authorized(ran'[k])
    OBVIOUS
  <2>1. CASE ExecuteIntent
    BY <2>1, ExecuteIntentStep
  <2>2. CASE ~ExecuteIntent
    <3>1. ran' = ran /\ Len(ran) \in Nat
      BY <2>2, OnlyExecutionSends DEF IInv, TypeOK
    <3> QED
      BY <3>1
  <2> QED
    BY <2>1, <2>2
<1> QED
  BY Invariance, <1>1, PTL DEF Spec, ChangesAreAuthorized

\* A task that is complete, inconclusive, blocked, failed or cancelled stays so
\* and sends nothing more (process, reduceSession's first guard, finishRuntime).
THEOREM FinishedTasksStay == Spec => TerminalIsFinal
<1>1. IInv /\ [Next]_vars => [record.status \in TerminalStatuses => UNCHANGED <<record, ran>>]_vars
  <2> SUFFICES ASSUME IInv, [Next]_vars, IsTerminalStatus(record.status)
               PROVE  UNCHANGED <<record, ran>>
    BY DEF IsTerminalStatus
  <2>1. effect.type = "NONE"
    BY DEF IInv, FinishedIsIdle
  <2>2. CASE Worker
    <3>1. IgnoreCommand
      BY <2>1, <2>2 DEF Worker, RejectCommand, AcceptCommand, RunHarness, HarnessTurn,
           EvaluateIntent, Precheck, EvaluateReadBundle, ExecuteIntent, ExecutionEnds,
           BuildObservation, ReduceContext, EvaluateProgress, RunMutationVerification,
           ChecksEnd, VerifyCompletion
    <3> QED
      BY <3>1 DEF IgnoreCommand, ghostVars
  <2>3. CASE User
    BY <2>3 DEF User, UserPause, UserCancel, UserResume, Approve, Decline, ReviseApproval,
                ghostVars
  <2>4. CASE ResumeBound \/ ApprovalTimerFires \/ DeadlinePasses \/ Restart \/ UNCHANGED vars
    BY <2>4 DEF ResumeBound, ApprovalTimerFires, DeadlinePasses, Restart, ghostVars, vars
  <2> QED
    BY <2>2, <2>3, <2>4 DEF Next
<1> QED
  BY Invariance, <1>1, PTL DEF Spec, TerminalIsFinal

-----------------------------------------------------------------------------
(* Obligations. *)

OwedIn(r) ==
  /\ \A k \in 1 .. Len(r.obligations) : r.changes[r.obligations[k].id] # "none"
  /\ \A id \in Ids : r.changes[id] = "pending" =>
       \E k \in 1 .. Len(r.obligations) : r.obligations[k].id = id
  /\ \A j, k \in 1 .. Len(r.obligations) :
       r.obligations[j].id = r.obligations[k].id => j = k

-----------------------------------------------------------------------------
(* Sequences, element by element. *)

LEMMA TailElements ==
  ASSUME NEW S, NEW q \in Seq(S), q # <<>>
  PROVE  /\ Tail(q) \in Seq(S) /\ Len(Tail(q)) = Len(q) - 1
         /\ Len(q) \in Nat /\ Len(q) >= 1
         /\ Head(q) = q[1] /\ Head(q) \in S
         /\ \A k \in 1 .. Len(Tail(q)) : Tail(q)[k] = q[k + 1] /\ k + 1 \in 1 .. Len(q)
<1>1. Tail(q) \in Seq(S) /\ Len(Tail(q)) = Len(q) - 1 /\ Head(q) \in S
  BY HeadTailProperties
<1>2. Len(q) \in Nat /\ Len(q) # 0
  BY EmptySeq, LenProperties
<1>3. \A k \in 1 .. Len(Tail(q)) : Tail(q)[k] = q[k + 1]
  BY HeadTailProperties
<1> QED
  BY <1>1, <1>2, <1>3

LEMMA OneIsNotEmpty ==
  ASSUME NEW S, NEW q \in Seq(S), Len(q) = 1
  PROVE  q # <<>>
<1>1. Len(<<>>) = 0
  OBVIOUS
<1> QED
  BY <1>1

LEMMA AppendElements ==
  ASSUME NEW S, NEW q \in Seq(S), NEW e \in S
  PROVE  /\ Append(q, e) \in Seq(S) /\ Len(Append(q, e)) = Len(q) + 1
         /\ Len(q) \in Nat /\ Append(q, e) # <<>>
         /\ Append(q, e)[Len(q) + 1] = e
         /\ \A k \in 1 .. Len(q) : Append(q, e)[k] = q[k]
<1>1. Append(q, e) \in Seq(S) /\ Append(q, e) # <<>> /\ Len(Append(q, e)) = Len(q) + 1
  BY AppendProperties
<1>2. Append(q, e)[Len(q) + 1] = e /\ \A k \in 1 .. Len(q) : Append(q, e)[k] = q[k]
  BY AppendProperties
<1> QED
  BY <1>1, <1>2, LenProperties

-----------------------------------------------------------------------------
(* Obligations: how the record's changes and obligations may move. *)

Judged(r, s, id, verdict) ==
  /\ \A i \in Ids : s.changes[i] = IF i = id /\ r.changes[i] # "none" THEN verdict
                                                                    ELSE r.changes[i]
  /\ \/ s.obligations = r.obligations
     \/ /\ r.obligations # <<>> /\ Head(r.obligations).id = id
        /\ s.obligations = Tail(r.obligations)

Added(r, s, owed) ==
  /\ \A i \in Ids : s.changes[i] = IF i = owed.id /\ r.changes[i] = "none" THEN "pending"
                                                                         ELSE r.changes[i]
  /\ \A k \in 1 .. Len(r.obligations) : r.obligations[k].id # owed.id
  /\ s.obligations = Append(r.obligations, owed)

\* One change gets a verdict, and if it is the first owed its obligation goes.
LEMMA OwedJudged ==
  ASSUME NEW r \in Records, OwedIn(r), NEW s, NEW id \in Ids, NEW verdict \in Verdicts,
         Judged(r, s, id, verdict)
  PROVE  OwedIn(s)
<1> DEFINE obligations == r.obligations
           changes     == r.changes
<1>1. /\ obligations \in Seq(Obligations)
      /\ Len(obligations) \in Nat /\ \A k \in 1 .. Len(obligations) : obligations[k].id \in Ids
  <2>1. obligations \in Seq(Obligations)
    BY DEF Records
  <2>2. \A k \in 1 .. Len(obligations) : obligations[k] \in Obligations
    BY <2>1, ElementOfSeq
  <2> QED BY <2>1, <2>2, LenProperties DEF Obligations
<1>2. /\ \A k \in 1 .. Len(obligations) : changes[obligations[k].id] # "none"
      /\ \A i \in Ids : changes[i] = "pending" =>
           \E k \in 1 .. Len(obligations) : obligations[k].id = i
      /\ \A j, k \in 1 .. Len(obligations) :
           obligations[j].id = obligations[k].id => j = k
  BY DEF OwedIn
<1>3. /\ \A i \in Ids : s.changes[i] = IF i = id /\ changes[i] # "none" THEN verdict ELSE changes[i]
      /\ verdict # "pending" /\ verdict # "none"
      /\ \/ s.obligations = obligations
         \/ /\ obligations # <<>> /\ Head(obligations).id = id
            /\ s.obligations = Tail(obligations)
  BY DEF Verdicts, Judged
<1> HIDE DEF obligations, changes
<1>4. CASE s.obligations = obligations
  <2>1. \A k \in 1 .. Len(obligations) : s.changes[obligations[k].id] # "none"
    BY <1>1, <1>2, <1>3
  <2>2. \A i \in Ids : s.changes[i] = "pending" => changes[i] = "pending"
    BY <1>3
  <2> QED BY <1>2, <1>4, <2>1, <2>2 DEF OwedIn
<1>5. CASE /\ obligations # <<>> /\ Head(obligations).id = id
           /\ s.obligations = Tail(obligations)
  <2> DEFINE rest == Tail(obligations)
  <2>1. /\ Len(rest) \in Nat /\ Len(obligations) = Len(rest) + 1 /\ obligations[1].id = id
        /\ \A k \in 1 .. Len(rest) : rest[k] = obligations[k + 1] /\ k + 1 \in 1 .. Len(obligations)
    BY <1>1, <1>5, TailElements, LenProperties
  <2> HIDE DEF rest
  <2>2. s.obligations = rest
    BY <1>5 DEF rest
  <2>3. \A k \in 1 .. Len(rest) : s.changes[rest[k].id] # "none"
    BY <1>1, <1>2, <1>3, <2>1
  <2>4. \A j, k \in 1 .. Len(rest) : rest[j].id = rest[k].id => j = k
    BY <1>1, <1>2, <2>1
  <2>5. ASSUME NEW i \in Ids, s.changes[i] = "pending"
        PROVE  \E k \in 1 .. Len(rest) : rest[k].id = i
    <3>1. changes[id] # "none"
      BY <1>1, <1>2, <2>1
    <3>2. i # id /\ changes[i] = "pending"
      BY <1>3, <2>5, <3>1
    <3>3. PICK k \in 1 .. Len(obligations) : obligations[k].id = i
      BY <3>2, <1>2
    <3>4. k # 1 /\ k - 1 \in 1 .. Len(rest) /\ (k - 1) + 1 = k
      BY <3>2, <3>3, <2>1
    <3>5. rest[k - 1].id = i
      BY <3>3, <3>4, <2>1
    <3> QED BY <3>4, <3>5
  <2> QED BY <2>2, <2>3, <2>4, <2>5 DEF OwedIn
<1> QED
  BY <1>3, <1>4, <1>5

\* A change that nothing is owed for gets its obligation.
LEMMA OwedAdded ==
  ASSUME NEW r \in Records, OwedIn(r), NEW s, NEW owed \in Obligations, Added(r, s, owed)
  PROVE  OwedIn(s)
<1> DEFINE obligations == r.obligations
           changes     == r.changes
           more        == Append(obligations, owed)
<1>1. /\ owed.id \in Ids /\ \A k \in 1 .. Len(obligations) : obligations[k].id \in Ids
      /\ Len(obligations) \in Nat /\ Len(more) = Len(obligations) + 1
      /\ more[Len(obligations) + 1] = owed
      /\ \A k \in 1 .. Len(obligations) : more[k] = obligations[k]
  <2>1. obligations \in Seq(Obligations)
    BY DEF Records
  <2>2. \A k \in 1 .. Len(obligations) : obligations[k] \in Obligations
    BY <2>1, ElementOfSeq
  <2> QED BY <2>1, <2>2, AppendElements DEF Obligations
<1>2. /\ \A k \in 1 .. Len(obligations) : changes[obligations[k].id] # "none"
      /\ \A i \in Ids : changes[i] = "pending" =>
           \E k \in 1 .. Len(obligations) : obligations[k].id = i
      /\ \A j, k \in 1 .. Len(obligations) :
           obligations[j].id = obligations[k].id => j = k
  BY DEF OwedIn
<1>3. /\ \A i \in Ids : s.changes[i] = IF i = owed.id /\ changes[i] = "none" THEN "pending"
                                                                            ELSE changes[i]
      /\ \A k \in 1 .. Len(obligations) : obligations[k].id # owed.id
      /\ s.obligations = more
      /\ changes[owed.id] \in ChangeStatuses
  BY <1>1 DEF Added, Records
<1> HIDE DEF obligations, changes, more
<1>4. \A k \in 1 .. Len(obligations) : s.changes[obligations[k].id] # "none"
  BY <1>1, <1>2, <1>3
<1>5. \A k \in 1 .. Len(more) : s.changes[more[k].id] # "none"
  BY <1>1, <1>3, <1>4
<1>6. \A j, k \in 1 .. Len(more) : more[j].id = more[k].id => j = k
  BY <1>1, <1>2, <1>3
<1>7. ASSUME NEW i \in Ids, s.changes[i] = "pending"
      PROVE  \E k \in 1 .. Len(more) : more[k].id = i
  <2>1. CASE i = owed.id
    BY <2>1, <1>1
  <2>2. CASE i # owed.id
    <3>1. PICK k \in 1 .. Len(obligations) : obligations[k].id = i
      BY <2>2, <1>2, <1>3, <1>7
    <3> QED BY <3>1, <1>1
  <2> QED BY <2>1, <2>2
<1> QED
  BY <1>3, <1>5, <1>6, <1>7 DEF OwedIn

\* The reducer judges the change MUTATION_VERIFIED names.
LEMMA OwedReduced ==
  ASSUME NEW r \in Records, NEW c \in Messages, OwedIn(r),
         NEW s, s.changes = ChangesAfter(r, c), s.obligations = ObligationsAfter(r, c)
  PROVE  OwedIn(s)
<1>1. r.obligations \in Seq(Obligations) /\ r.changes \in [Ids -> ChangeStatuses]
  BY DEF Records
<1>2. CASE c.type = "MUTATION_VERIFIED"
  <2>1. c.change \in Ids /\ c.result \in Verdicts
    BY <1>2 DEF Messages, Commands, WellFormed
  <2>2. Judged(r, s, c.change, c.result)
    BY <1>1, <1>2, <2>1 DEF Judged, ChangesAfter, ObligationsAfter
  <2> QED BY <2>1, <2>2, OwedJudged
<1>3. CASE c.type # "MUTATION_VERIFIED"
  BY <1>3 DEF ChangesAfter, ObligationsAfter, OwedIn
<1> QED
  BY <1>2, <1>3

\* The observation of a check leaves its obligation, judged worse, or settles it.
LEMMA OwedChecked ==
  ASSUME IInv, OwedIn(record), NEW verdict \in Verdicts, record.obligations # <<>>,
         CheckObserved(verdict)
  PROVE  OwedIn(record')
<1> DEFINE obligation == Head(record.obligations)
           worst      == Worse(obligation.worst, verdict)
           remaining  == Tail(obligation.checks)
<1>1. /\ record \in Records /\ record.obligations \in Seq(Obligations)
      /\ record.changes \in [Ids -> ChangeStatuses]
  BY DEF IInv, TypeOK, Records
<1>2. obligation \in Obligations /\ obligation = record.obligations[1]
      /\ Len(record.obligations) \in Nat /\ Len(record.obligations) >= 1
  BY <1>1, TailElements
<1>3. obligation.id \in Ids /\ worst \in Verdicts
  BY <1>2, WorseType DEF Obligations
<1>4. CASE remaining # <<>>
  <2> DEFINE new == [id |-> obligation.id, checks |-> remaining, worst |-> worst]
  <2>1. record' = [record EXCEPT !.obligations[1] = new]
    BY <1>4 DEF CheckObserved
  <2>2. /\ record'.obligations = [record.obligations EXCEPT ![1] = new]
        /\ record'.changes = record.changes
    BY <1>1, <2>1 DEF Records
  <2>3. /\ Len(record'.obligations) = Len(record.obligations)
        /\ \A k \in 1 .. Len(record.obligations) :
             record'.obligations[k].id = record.obligations[k].id
    BY <1>1, <1>2, <2>2
  <2> QED BY <2>2, <2>3 DEF OwedIn
<1>5. CASE remaining = <<>>
  <2>1. record' = [record EXCEPT
                     !.changes[obligation.id] = IF @ = "none" THEN @ ELSE worst,
                     !.obligations = Tail(@)]
    BY <1>5 DEF CheckObserved
  <2>2. /\ record'.obligations = Tail(record.obligations)
        /\ record'.changes = [record.changes EXCEPT
                                ![obligation.id] = IF @ = "none" THEN "none" ELSE worst]
    BY <1>1, <1>3, <2>1 DEF Records
  <2> HIDE DEF obligation, worst, remaining
  <2>3. Head(record.obligations).id = obligation.id
    BY DEF obligation
  <2>4. Judged(record, record', obligation.id, worst)
    BY <1>1, <1>3, <2>2, <2>3 DEF Judged
  <2> QED BY <1>1, <1>3, <2>4, OwedJudged
<1> QED
  BY <1>4, <1>5

\* Recording a change, and what a crash retains of one.
LEMMA OwedRecorded ==
  ASSUME NEW r \in Records, OwedIn(r)
  PROVE  OwedIn(Recorded(r)) /\ OwedIn(Retained(r))
<1> DEFINE i == r.invocation
           owed == [id |-> i.id, checks |-> i.plan, worst |-> "passed"]
<1>1. r.obligations \in Seq(Obligations) /\ r.changes \in [Ids -> ChangeStatuses]
  BY DEF Records
<1>2. ASSUME VerifiableChange(i) PROVE owed \in Obligations /\ owed.id = i.id
  <2>1. i \in Intents /\ i.plan # <<>>
    BY <1>2 DEF VerifiableChange, Records
  <2>2. i.id \in Ids /\ i.plan \in Seq(CheckKinds) \ {<<>>}
    BY <2>1, PlansAssumption DEF Intents
  <2> QED BY <2>2 DEF Obligations, Verdicts
<1>3. OwedIn(Recorded(r))
  <2>1. CASE VerifiableChange(i) /\ r.changes[i.id] = "none"
    <3>1. Recorded(r) = [r EXCEPT !.changes[i.id] = "pending", !.obligations = Append(@, owed)]
      BY <2>1 DEF Recorded
    <3>2. owed \in Obligations /\ owed.id = i.id
      BY <1>2, <2>1
    <3> HIDE DEF owed, i
    <3>3. /\ Recorded(r).obligations = Append(r.obligations, owed)
          /\ Recorded(r).changes =
               [r.changes EXCEPT ![owed.id] = IF @ = "none" THEN "pending" ELSE @]
      BY <1>1, <2>1, <3>1, <3>2 DEF Records
    <3>4. \A k \in 1 .. Len(r.obligations) : r.obligations[k].id # owed.id
      BY <2>1, <3>2 DEF OwedIn
    <3>5. Added(r, Recorded(r), owed)
      BY <1>1, <3>3, <3>4 DEF Added
    <3> QED BY <3>2, <3>5, OwedAdded
  <2>2. CASE ~(VerifiableChange(i) /\ r.changes[i.id] = "none")
    BY <2>2 DEF Recorded
  <2> QED BY <2>1, <2>2
<1>4. OwedIn(Retained(r))
  <2>1. CASE /\ r.status \in {"executing", "observing", "reducing", "evaluating", "verifying"}
             /\ VerifiableChange(i)
    <3>1. Retained(r) =
            [r EXCEPT !.changes[i.id] = IF @ = "none" THEN "pending" ELSE @,
                      !.obligations = IF \E k \in 1 .. Len(@) : @[k].id = i.id THEN @
                                      ELSE Append(@, owed)]
      BY <2>1 DEF Retained
    <3>2. owed \in Obligations /\ owed.id = i.id
      BY <1>2, <2>1
    <3> HIDE DEF owed, i
    <3>3. /\ Retained(r).changes =
               [r.changes EXCEPT ![owed.id] = IF @ = "none" THEN "pending" ELSE @]
          /\ Retained(r).obligations =
               IF \E k \in 1 .. Len(r.obligations) : r.obligations[k].id = owed.id
                 THEN r.obligations ELSE Append(r.obligations, owed)
      BY <1>1, <3>1, <3>2 DEF Records
    <3>4. CASE \E k \in 1 .. Len(r.obligations) : r.obligations[k].id = owed.id
      <4>1. Retained(r).obligations = r.obligations /\ r.changes[owed.id] # "none"
        BY <3>3, <3>4 DEF OwedIn
      <4>2. Retained(r).changes = r.changes
        BY <1>1, <3>2, <3>3, <4>1 DEF Obligations
      <4> QED BY <4>1, <4>2 DEF OwedIn
    <3>5. CASE ~\E k \in 1 .. Len(r.obligations) : r.obligations[k].id = owed.id
      <4>1. Added(r, Retained(r), owed)
        BY <1>1, <3>3, <3>5 DEF Added
      <4> QED BY <3>2, <4>1, OwedAdded
    <3> QED BY <3>4, <3>5
  <2>2. CASE ~(/\ r.status \in {"executing", "observing", "reducing", "evaluating", "verifying"}
               /\ VerifiableChange(i))
    BY <2>2 DEF Retained
  <2> QED BY <2>1, <2>2
<1> QED
  BY <1>3, <1>4

\* Nothing else touches the changes and their obligations.
LEMMA OnlyTheseJudge ==
  ASSUME IInv, [Next]_vars, ~AcceptCommand, ~BuildObservation, ~ReduceContext, ~Restart
  PROVE  record'.changes = record.changes /\ record'.obligations = record.obligations
<1>1. record \in Records
  BY DEF IInv, TypeOK
<1>2. CASE EvaluateIntent \/ EvaluateReadBundle
  <2>1. \/ UNCHANGED record
        \/ \E s : Prepare(s)
    BY <1>2 DEF EvaluateIntent, EvaluateReadBundle
  <2> QED BY <1>1, <2>1 DEF Prepare, Records
<1>3. CASE RunHarness \/ Precheck
  BY <1>1, <1>3 DEF RunHarness, Precheck, Records
<1>4. CASE ChecksEnd
  BY <1>1, <1>4 DEF ChecksEnd, Records
<1>5. CASE \/ IgnoreCommand \/ RejectCommand \/ HarnessTurn \/ ExecuteIntent \/ ExecutionEnds
           \/ EvaluateProgress \/ RunMutationVerification \/ VerifyCompletion
  BY <1>5 DEF IgnoreCommand, RejectCommand, HarnessTurn, ExecuteIntent, ExecutionEnds,
              EvaluateProgress, RunMutationVerification, VerifyCompletion
<1>6. CASE User
  BY <1>6 DEF User, UserPause, UserCancel, UserResume, Approve, Decline, ReviseApproval
<1>7. CASE ResumeBound \/ ApprovalTimerFires \/ DeadlinePasses \/ UNCHANGED vars
  BY <1>7 DEF ResumeBound, ApprovalTimerFires, DeadlinePasses, vars
<1> QED
  BY <1>2, <1>3, <1>4, <1>5, <1>6, <1>7 DEF Next, Worker

LEMMA OwedStep == IInv /\ OwedIn(record) /\ [Next]_vars => OwedIn(record)'
<1> SUFFICES ASSUME IInv, OwedIn(record), [Next]_vars PROVE OwedIn(record')
  OBVIOUS
<1>1. record \in Records /\ queue \in Seq(Messages)
  BY DEF IInv, TypeOK
<1>2. CASE AcceptCommand
  <2>1. Head(queue) \in Messages
    BY <1>1, <1>2, TailElements DEF AcceptCommand
  <2>2. record' = [Reduced(record, Head(queue)) EXCEPT !.status = StatusAfter(Head(queue))]
    BY <1>2 DEF AcceptCommand
  <2>3. /\ record'.changes = ChangesAfter(record, Head(queue))
        /\ record'.obligations = ObligationsAfter(record, Head(queue))
    BY <1>1, <2>2 DEF Reduced, Records
  <2> QED BY <1>1, <2>1, <2>3, OwedReduced
<1>3. CASE BuildObservation
  <2>1. CASE UNCHANGED record
    BY <2>1
  <2>2. CASE \E verdict \in {"passed", "failed", "inconclusive"} :
               CheckObserved(verdict) /\ record.obligations # <<>>
    BY <2>2, OwedChecked DEF Verdicts
  <2> QED BY <1>3, <2>1, <2>2 DEF BuildObservation
<1>4. CASE ReduceContext
  <2> DEFINE r == [record EXCEPT !.errors = ErrorsAfter(@, effect.result)]
  <2>1. r \in Records
    <3>1. record.errors \in 0 .. (MaxErrors + 1)
      BY <1>1 DEF Records
    <3>2. ErrorsAfter(record.errors, effect.result) \in 0 .. (MaxErrors + 1)
      BY <3>1, BudgetAssumption DEF ErrorsAfter, Capped
    <3> QED BY <1>1, <3>2 DEF Records
  <2>2. OwedIn(r)
    BY <1>1 DEF OwedIn, Records
  <2>3. record' = Recorded(r)
    BY <1>4 DEF ReduceContext
  <2> HIDE DEF r
  <2> QED BY <2>1, <2>2, <2>3, OwedRecorded
<1>5. CASE Restart
  <2>1. Retained(record) \in Records /\ OwedIn(Retained(record))
    BY <1>1, RetainedType, OwedRecorded
  <2>2. /\ record'.changes = Retained(record).changes
        /\ record'.obligations = Retained(record).obligations
    BY <1>5, <2>1 DEF Restart, Records
  <2> QED BY <2>1, <2>2 DEF OwedIn
<1>6. CASE ~AcceptCommand /\ ~BuildObservation /\ ~ReduceContext /\ ~Restart
  <2>1. record'.changes = record.changes /\ record'.obligations = record.obligations
    BY <1>6, OnlyTheseJudge
  <2> QED BY <2>1 DEF OwedIn
<1> QED
  BY <1>2, <1>3, <1>4, <1>5, <1>6

\* A change without a verdict always has one obligation that will judge it
\* (context-manager.js, retainUncertainMutation, MUTATION_VERIFIED): whatever the
\* plans, the faults, the crashes and the order of the checks.
THEOREM PendingChangesAreOwed == Spec => []PendingChangeIsOwed
<1>1. Init => OwedIn(record)
  BY DEF Init, InitialRecord, OwedIn
<1>2. IInv /\ OwedIn(record) /\ [Next]_vars => OwedIn(record)'
  BY OwedStep
<1>3. OwedIn(record) => PendingChangeIsOwed
  BY DEF OwedIn, PendingChangeIsOwed
<1>4. Spec => []IInv
  BY Invariance
<1> QED
  BY <1>1, <1>2, <1>3, <1>4, PTL DEF Spec

-----------------------------------------------------------------------------
(* Invocation ids.  The id of a proposed action is in one hand at a time: of  *)
(* a command, of the effect, of the approval shown to the user, or of a       *)
(* capability and then of the run that used it up.                            *)

\* The policy has not spoken, or has asked for an approval that was not given.
Unspent(type, result) ==
  \/ type \in {"PLANNER_DECISION", "APPROVAL_REVISED", "FOLLOW_UP_PROPOSED", "EVALUATE_INTENT"}
  \/ type \in {"POLICY_DECIDED", "PRECHECK"} /\ result = "require_approval"

Holds(x, id) ==
  /\ id # 0 /\ Unspent(x.type, x.result)
  /\ \E n \in 1 .. Len(x.intents) : x.intents[n].id = id

InQueue(q, id) == \E k \in 1 .. Len(q) : Holds(q[k], id)
InQueueUnrevised(q, id) ==
  \E k \in 1 .. Len(q) : q[k].type # "APPROVAL_REVISED" /\ Holds(q[k], id)

Disjoint(q) ==
  \A j, k \in 1 .. Len(q) : \A id \in Ids : Holds(q[j], id) /\ Holds(q[k], id) => j = k

\* The first id that no proposal has had.
Newest == IF effect.type = "HARNESS_TURN" THEN 2 * record.steps ELSE 2 * record.steps + 2

\* Only checks have id 0.
Fit(i, n) == i.id < n /\ (i.id = 0 => i.kind \in CheckKinds)

HolderFit(x, n) ==
  Unspent(x.type, x.result) => \A m \in 1 .. Len(x.intents) : Fit(x.intents[m], n)

QueueFit(q, n) == \A k \in 1 .. Len(q) : HolderFit(q[k], n)

HoldersFit ==
  /\ QueueFit(queue, Newest)
  /\ HolderFit(effect, Newest)
  /\ record.approval # NoIntent => Fit(record.approval, Newest)
  /\ effect.type = "HARNESS_TURN" => record.steps >= 1

\* An approval is asked for what the policy could allow.
Askable(i) ==
  /\ i.kind \notin {"denied", "fatal", "broken"}
  /\ i.kind \in {"shell", "tool"} => i.plan # <<>>

EntryFits == entry.state = "live" => Fit(entry.intent, Newest) /\ Askable(entry.intent)

IdUsed(id) ==
  \/ \E i \in issued : Mutates(i) /\ i.id = id
  \/ \E k \in 1 .. Len(ran) : ran[k].id = id

HeldOnce ==
  /\ Disjoint(queue)
  /\ \A id \in Ids : Holds(effect, id) => ~InQueue(queue, id) /\ ~IdUsed(id)
  /\ \A id \in Ids : InQueue(queue, id) => ~IdUsed(id)

\* An approval that is shown is the only hold on its id; the approval of the
\* record shares it with its revision at most.
ApprovalHolds ==
  /\ ApprovalShown => LET id == entry.intent.id IN
                      ~InQueue(queue, id) /\ ~Holds(effect, id) /\ ~IdUsed(id)
  /\ record.approval # NoIntent => LET id == record.approval.id IN
                                   ~InQueueUnrevised(queue, id) /\ ~Holds(effect, id)

\* What can run is a change with a plan, under an id of its own.
Runnable(i) == i.id # 0 /\ i.kind \in {"shell", "tool"} /\ i.plan # <<>>

RunsOnce ==
  /\ \A i \in issued : Mutates(i) => Runnable(i) /\ i.id < Newest
  /\ \A i, j \in issued : Mutates(i) /\ Mutates(j) /\ i.id = j.id => i = j
  /\ \A k \in 1 .. Len(ran) : Runnable(ran[k]) /\ ran[k].id < Newest
  /\ \A k \in 1 .. Len(ran) : \A i \in issued : Mutates(i) => i.id # ran[k].id
  /\ \A j, k \in 1 .. Len(ran) : ran[j].id = ran[k].id => j = k

IdsInv == HoldersFit /\ EntryFits /\ HeldOnce /\ ApprovalHolds /\ RunsOnce

LEMMA QueueGrows ==
  ASSUME NEW q \in Seq(Messages), NEW m \in Messages
  PROVE  /\ \A id \in Ids : InQueue(Append(q, m), id) <=> InQueue(q, id) \/ Holds(m, id)
         /\ \A id \in Ids : InQueueUnrevised(Append(q, m), id) <=>
              InQueueUnrevised(q, id) \/ (m.type # "APPROVAL_REVISED" /\ Holds(m, id))
         /\ Disjoint(q) /\ (\A id \in Ids : Holds(m, id) => ~InQueue(q, id))
              => Disjoint(Append(q, m))
         /\ \A n \in Nat : QueueFit(q, n) /\ HolderFit(m, n) => QueueFit(Append(q, m), n)
<1> DEFINE more == Append(q, m)
<1>1. /\ Len(q) \in Nat /\ Len(more) = Len(q) + 1 /\ more[Len(q) + 1] = m
      /\ \A k \in 1 .. Len(q) : more[k] = q[k]
  BY AppendElements
<1> HIDE DEF more
<1>2. ASSUME NEW k \in 1 .. Len(more)
      PROVE  \/ k \in 1 .. Len(q) /\ more[k] = q[k]
             \/ k = Len(q) + 1 /\ more[k] = m
  BY <1>1
<1>3. Len(q) + 1 \in 1 .. Len(more) /\ \A k \in 1 .. Len(q) : k \in 1 .. Len(more)
  BY <1>1
<1>4. \A id \in Ids : InQueue(more, id) <=> InQueue(q, id) \/ Holds(m, id)
  BY <1>1, <1>2, <1>3 DEF InQueue
<1>5. \A id \in Ids : InQueueUnrevised(more, id) <=>
        InQueueUnrevised(q, id) \/ (m.type # "APPROVAL_REVISED" /\ Holds(m, id))
  BY <1>1, <1>2, <1>3 DEF InQueueUnrevised
<1>6. ASSUME Disjoint(q), \A id \in Ids : Holds(m, id) => ~InQueue(q, id)
      PROVE  Disjoint(more)
  BY <1>2, <1>6 DEF Disjoint, InQueue
<1>7. \A n \in Nat : QueueFit(q, n) /\ HolderFit(m, n) => QueueFit(more, n)
  BY <1>2 DEF QueueFit
<1> QED
  BY <1>4, <1>5, <1>6, <1>7 DEF more

LEMMA QueueShrinks ==
  ASSUME NEW q \in Seq(Messages), q # <<>>, Disjoint(q)
  PROVE  /\ \A id \in Ids : InQueue(Tail(q), id) => InQueue(q, id) /\ ~Holds(Head(q), id)
         /\ \A id \in Ids : InQueueUnrevised(Tail(q), id) => InQueueUnrevised(q, id)
         /\ \A id \in Ids : Holds(Head(q), id) => InQueue(q, id)
         /\ \A id \in Ids : Holds(Head(q), id) /\ Head(q).type # "APPROVAL_REVISED" =>
              InQueueUnrevised(q, id)
         /\ Disjoint(Tail(q))
         /\ \A n \in Nat : QueueFit(q, n) => QueueFit(Tail(q), n) /\ HolderFit(Head(q), n)
<1> DEFINE rest == Tail(q)
<1>1. /\ Len(q) \in Nat /\ 1 \in 1 .. Len(q) /\ Head(q) = q[1] /\ Len(rest) = Len(q) - 1
      /\ \A k \in 1 .. Len(rest) : rest[k] = q[k + 1] /\ k + 1 \in 1 .. Len(q) /\ k + 1 # 1
  BY TailElements
<1> HIDE DEF rest
<1>2. \A id \in Ids : InQueue(rest, id) => InQueue(q, id) /\ ~Holds(Head(q), id)
  BY <1>1 DEF InQueue, Disjoint
<1>3. \A id \in Ids : InQueueUnrevised(rest, id) => InQueueUnrevised(q, id)
  BY <1>1 DEF InQueueUnrevised
<1>4. /\ \A id \in Ids : Holds(Head(q), id) => InQueue(q, id)
      /\ \A id \in Ids : Holds(Head(q), id) /\ Head(q).type # "APPROVAL_REVISED" =>
           InQueueUnrevised(q, id)
  BY <1>1 DEF InQueue, InQueueUnrevised
<1>5. Disjoint(rest)
  BY <1>1 DEF Disjoint
<1>6. \A n \in Nat : QueueFit(q, n) => QueueFit(rest, n) /\ HolderFit(Head(q), n)
  BY <1>1 DEF QueueFit
<1> QED
  BY <1>2, <1>3, <1>4, <1>5, <1>6 DEF rest

LEMMA FitGrows ==
  ASSUME NEW n \in Nat, NEW m \in Nat, n <= m
  PROVE  /\ \A i \in Intents : Fit(i, n) => Fit(i, m)
         /\ \A x : x.intents \in Seq(Intents) /\ HolderFit(x, n) => HolderFit(x, m)
         /\ \A q \in Seq(Messages) : QueueFit(q, n) => QueueFit(q, m)
<1>1. \A i \in Intents : Fit(i, n) => Fit(i, m)
  BY BudgetAssumption DEF Fit, Intents, Ids
<1>2. ASSUME NEW x, x.intents \in Seq(Intents), HolderFit(x, n) PROVE HolderFit(x, m)
  <2>1. \A k \in 1 .. Len(x.intents) : x.intents[k] \in Intents
    BY <1>2, ElementOfSeq
  <2> QED BY <1>1, <1>2, <2>1 DEF HolderFit
<1>3. ASSUME NEW q \in Seq(Messages), QueueFit(q, n) PROVE QueueFit(q, m)
  <2>1. \A k \in 1 .. Len(q) : q[k] \in Messages /\ q[k].intents \in Seq(Intents)
    <3>1. \A k \in 1 .. Len(q) : q[k] \in Messages
      BY ElementOfSeq
    <3> QED BY <3>1 DEF Messages, Commands
  <2> QED BY <1>2, <1>3, <2>1 DEF QueueFit
<1> QED
  BY <1>1, <1>2, <1>3

LEMMA NewestType == (IInv => Newest \in Nat) /\ (IInv' => Newest' \in Nat)
<1>1. IInv => record.steps \in Nat
  BY BudgetAssumption DEF IInv, TypeOK, Records
<1>2. IInv' => record'.steps \in Nat
  BY BudgetAssumption DEF IInv, TypeOK, Records
<1> QED
  BY <1>1, <1>2 DEF Newest

LEMMA IdTypes ==
  ASSUME IInv
  PROVE  /\ queue \in Seq(Messages) /\ record \in Records /\ effect \in Effects
         /\ entry \in Entries /\ issued \subseteq Intents /\ ran \in Seq(Intents)
         /\ record.steps \in Nat /\ Newest \in Nat
         /\ \A i \in Intents : i.id \in Ids /\ i.id \in Nat
         /\ \A k \in 1 .. Len(ran) : ran[k] \in Intents
<1>1. /\ queue \in Seq(Messages) /\ record \in Records /\ effect \in Effects
      /\ entry \in Entries /\ issued \subseteq Intents /\ ran \in Seq(Intents)
  BY DEF IInv, TypeOK
<1>2. record.steps \in Nat
  BY <1>1, BudgetAssumption DEF Records
<1>3. \A i \in Intents : i.id \in Ids /\ i.id \in Nat
  BY BudgetAssumption DEF Intents, Ids
<1>4. \A k \in 1 .. Len(ran) : ran[k] \in Intents
  BY <1>1, ElementOfSeq
<1> QED
  BY <1>1, <1>2, <1>3, <1>4, NewestType

\* A step that brings no new hold keeps the holds disjoint.
LEMMA IdsPass ==
  ASSUME IInv, IInv', IdsInv,
         NEW m \in Messages, \A id \in Ids : ~Holds(m, id), HolderFit(m, Newest),
         queue' = queue \/ queue' = Append(queue, m),
         \A id \in Ids : Holds(effect', id) => Holds(effect, id), HolderFit(effect', Newest),
         Newest' >= Newest, effect'.type = "HARNESS_TURN" => record'.steps >= 1,
         record'.approval = record.approval,
         entry' = entry \/ entry' = Resolved(entry),
         issued' \subseteq issued, ran' = ran
  PROVE  IdsInv'
<1>1. /\ queue \in Seq(Messages) /\ queue' \in Seq(Messages) /\ Newest \in Nat /\ Newest' \in Nat
      /\ effect'.intents \in Seq(Intents) /\ entry \in Entries
      /\ record.approval \in Intents \cup {NoIntent} /\ issued \subseteq Intents
      /\ ran \in Seq(Intents)
  <2>1. Newest \in Nat /\ Newest' \in Nat
    BY NewestType
  <2>2. queue \in Seq(Messages) /\ queue' \in Seq(Messages)
    BY DEF IInv
  <2>3. effect' \in Effects /\ record \in Records
    BY DEF IInv, TypeOK
  <2>4. entry \in Entries /\ issued \subseteq Intents /\ ran \in Seq(Intents)
    BY DEF IInv, TypeOK
  <2> QED BY <2>1, <2>2, <2>3, <2>4 DEF Effects, Records
<1>2. /\ \A id \in Ids : InQueue(queue', id) => InQueue(queue, id)
      /\ \A id \in Ids : InQueueUnrevised(queue', id) => InQueueUnrevised(queue, id)
      /\ Disjoint(queue')
      /\ QueueFit(queue', Newest)
  <2>1. Disjoint(queue) /\ QueueFit(queue, Newest)
    BY DEF IdsInv, HeldOnce, HoldersFit
  <2>2. CASE queue' = queue
    BY <2>1, <2>2
  <2>3. CASE queue' = Append(queue, m)
    BY <1>1, <2>1, <2>3, QueueGrows
  <2> QED BY <2>2, <2>3
<1>3. \A id : IdUsed(id)' => IdUsed(id)
  BY DEF IdUsed
<1>4. /\ entry'.state = "live" => entry' = entry
      /\ ApprovalShown' => ApprovalShown /\ entry' = entry
      /\ entry.state = "live" => entry.intent \in Intents /\ entry.intent.id \in Ids
      /\ record.approval # NoIntent => record.approval.id \in Ids
  BY <1>1 DEF Resolved, ApprovalShown, Entries, NoEntry, Intents
<1>5. HoldersFit'
  BY <1>1, <1>2, FitGrows DEF IdsInv, HoldersFit
<1>6. EntryFits'
  BY <1>1, <1>4, FitGrows DEF IdsInv, EntryFits
<1>7. HeldOnce'
  BY <1>2, <1>3 DEF IdsInv, HeldOnce
<1>8. ApprovalHolds'
  BY <1>2, <1>3, <1>4 DEF IdsInv, ApprovalHolds, ApprovalShown
<1>9. RunsOnce'
  <2>1. \A i \in issued : i.id \in Nat
    BY <1>1, BudgetAssumption DEF Intents, Ids
  <2>2. \A k \in 1 .. Len(ran) : ran[k].id \in Nat
    <3>1. \A k \in 1 .. Len(ran) : ran[k] \in Intents
      BY <1>1, ElementOfSeq
    <3> QED BY <3>1, BudgetAssumption DEF Intents, Ids
  <2> QED BY <1>1, <2>1, <2>2 DEF IdsInv, RunsOnce
<1> QED
  BY <1>5, <1>6, <1>7, <1>8, <1>9 DEF IdsInv

\* Most steps push a command that holds nothing, or none.
LEMMA IdsPlain ==
  ASSUME IInv, IInv', IdsInv,
         \/ queue' = queue
         \/ \E m \in Messages : ~Unspent(m.type, m.result) /\ queue' = Append(queue, m),
         \/ effect'.type \in {"NONE", "EXECUTING", "RUN_CHECKS"}
         \/ /\ effect'.type = effect.type /\ effect'.intents = effect.intents
            /\ effect'.result = effect.result,
         record'.steps = record.steps, record'.approval = record.approval,
         entry' = entry \/ entry' = Resolved(entry), issued' \subseteq issued, ran' = ran
  PROVE  IdsInv'
<1>1. PICK m \in Messages : ~Unspent(m.type, m.result) /\ (queue' = queue \/ queue' = Append(queue, m))
  BY PlainMessage DEF Unspent, Command
<1>2. (\A id \in Ids : ~Holds(m, id)) /\ HolderFit(m, Newest)
  BY <1>1 DEF Holds, HolderFit
<1>3. /\ \A id \in Ids : Holds(effect', id) => Holds(effect, id)
      /\ HolderFit(effect', Newest)
  BY DEF Holds, HolderFit, Unspent, IdsInv, HoldersFit
<1>4. record.steps \in Nat
  BY BudgetAssumption DEF IInv, TypeOK, Records
<1>5. Newest' >= Newest /\ (effect'.type = "HARNESS_TURN" => record'.steps >= 1)
  BY <1>4 DEF Newest, IdsInv, HoldersFit
<1> QED
  BY <1>1, <1>2, <1>3, <1>5, IdsPass

\* The outcome of an effect, when its command holds nothing.
LEMMA IdsOutcome ==
  ASSUME IInv, IInv', IdsInv,
         \/ \E m \in Messages : ~Unspent(m.type, m.result) /\ Enqueue(m)
         \/ Throw,
         record'.steps = record.steps, record'.approval = record.approval,
         entry' = entry \/ entry' = Resolved(entry), issued' \subseteq issued, ran' = ran
  PROVE  IdsInv'
<1>1. Command("FAIL", <<>>, "none") \in Messages /\ ~Unspent("FAIL", "none")
  BY PlainMessage DEF Unspent
<1>2. \/ queue' = queue
      \/ \E m \in Messages : ~Unspent(m.type, m.result) /\ queue' = Append(queue, m)
  BY <1>1 DEF Enqueue, Throw, QueueAfterError, Command
<1>3. effect'.type = "NONE"
  BY DEF Enqueue, Throw, NoEffect
<1> QED
  BY <1>2, <1>3, IdsPlain

LEMMA IdsRunHarness == IInv /\ IInv' /\ IdsInv /\ RunHarness => IdsInv'
<1> SUFFICES ASSUME IInv, IInv', IdsInv, RunHarness PROVE IdsInv'
  OBVIOUS
<1> DEFINE m == Command("INCONCLUSIVE", <<>>, "none")
<1>1. m \in Messages /\ ~Unspent(m.type, m.result) /\ record.steps \in Nat /\ record \in Records
  BY PlainMessage, BudgetAssumption DEF Unspent, Command, IInv, TypeOK, Records
<1>2. (\A id \in Ids : ~Holds(m, id)) /\ HolderFit(m, Newest)
  BY <1>1 DEF Holds, HolderFit
<1> HIDE DEF m
<1>3. queue' = queue \/ queue' = Append(queue, m)
  BY DEF RunHarness, Enqueue, m
<1>4. effect'.type \in {"NONE", "HARNESS_TURN"}
  BY DEF RunHarness, Enqueue, NoEffect, IInv, TypeOK, Effects
<1>5. /\ \A id \in Ids : Holds(effect', id) => Holds(effect, id)
      /\ HolderFit(effect', Newest)
  BY <1>4 DEF Holds, HolderFit, Unspent
<1>6. /\ record'.approval = record.approval /\ record'.steps \in Nat
      /\ \/ record'.steps = record.steps /\ effect'.type = "NONE"
         \/ record'.steps = record.steps + 1
  BY <1>1 DEF RunHarness, Records, Enqueue, NoEffect
<1>7. Newest' >= Newest /\ (effect'.type = "HARNESS_TURN" => record'.steps >= 1)
  BY <1>1, <1>4, <1>6 DEF Newest, RunHarness
<1>8. entry' = entry /\ issued' = issued /\ ran' = ran
  BY DEF RunHarness, gatewayVars, ghostVars
<1> QED
  BY <1>1, <1>2, <1>3, <1>5, <1>6, <1>7, <1>8, IdsPass

\* Running, observing, recording and verifying hold nothing.
LEMMA IdsEffects ==
  IInv /\ IInv' /\ IdsInv /\ (\/ ExecutionEnds \/ BuildObservation \/ ReduceContext
                              \/ RunMutationVerification \/ ChecksEnd \/ VerifyCompletion)
    => IdsInv'
<1> SUFFICES ASSUME IInv, IInv', IdsInv,
                    \/ ExecutionEnds \/ BuildObservation \/ ReduceContext
                    \/ RunMutationVerification \/ ChecksEnd \/ VerifyCompletion
             PROVE  IdsInv'
  OBVIOUS
<1>1. record \in Records /\ effect \in Effects /\ queue \in Seq(Messages) /\ EffectFits
  BY DEF IInv, TypeOK
<1>2. CASE ExecutionEnds
  <2>1. ASSUME NEW result \in ExecutionResults
        PROVE  Command("EXECUTION_FINISHED", effect.intents, result) \in Messages
    <3>1. Carries(effect) /\ result \in CommandResults
      BY <1>1, <1>2, <2>1 DEF ExecutionEnds, EffectFits, ExecutionResults, CommandResults
    <3> QED BY <3>1, CommandInMessages DEF Carries, PlainTarget
  <2>2. Throw \/ \E m \in Messages : ~Unspent(m.type, m.result) /\ Enqueue(m)
    BY <1>2, <2>1 DEF ExecutionEnds, Unspent, Command
  <2> QED BY <1>2, <2>2, IdsOutcome DEF ExecutionEnds, gatewayVars, ghostVars
<1>3. CASE BuildObservation
  <2>1. Command("OBSERVATION_READY", effect.intents, effect.result) \in Messages
    <3>1. Carries(effect) /\ effect.result \in CommandResults
      BY <1>1, <1>3 DEF BuildObservation, EffectFits, Effects
    <3> QED BY <3>1, CommandInMessages DEF Carries, PlainTarget
  <2>2. Throw \/ \E m \in Messages : ~Unspent(m.type, m.result) /\ Enqueue(m)
    BY <1>3, <2>1 DEF BuildObservation, Unspent, Command
  <2>3. record'.steps = record.steps /\ record'.approval = record.approval
    BY <1>1, <1>3 DEF BuildObservation, CheckObserved, Records
  <2> QED BY <1>3, <2>2, <2>3, IdsOutcome DEF BuildObservation, gatewayVars
<1>4. CASE ReduceContext
  <2>1. \E m \in Messages : ~Unspent(m.type, m.result) /\ Enqueue(m)
    BY <1>4, PlainMessage DEF ReduceContext, Unspent, Command
  <2>2. record'.steps = record.steps /\ record'.approval = record.approval
    BY <1>1, <1>4 DEF ReduceContext, Recorded, Records
  <2> QED BY <1>4, <2>1, <2>2, IdsOutcome DEF ReduceContext, gatewayVars, ghostVars
<1>5. CASE RunMutationVerification
  <2>1. effect'.type = "RUN_CHECKS"
    BY <1>1, <1>5 DEF RunMutationVerification, Effects
  <2> QED BY <1>5, <2>1, IdsPlain DEF RunMutationVerification, gatewayVars, ghostVars
<1>6. CASE ChecksEnd
  <2>1. Head(record.obligations).id \in Ids
    <3>1. record.obligations \in Seq(Obligations) /\ record.obligations # <<>>
      BY <1>1, <1>6 DEF ChecksEnd, EffectFits, Records
    <3>2. Head(record.obligations) \in Obligations
      BY <3>1, TailElements
    <3> QED BY <3>2 DEF Obligations
  <2>2. \A v \in Verdicts : Verified(Head(record.obligations).id, v) \in Messages
    BY <2>1, EmptySeq DEF Verified, Messages, Commands, CommandTypes, CommandResults, WellFormed
  <2>3. Throw \/ \E m \in Messages : ~Unspent(m.type, m.result) /\ Enqueue(m)
    BY <1>6, <2>2 DEF ChecksEnd, Unspent, Verified, Verdicts
  <2>4. record'.steps = record.steps /\ record'.approval = record.approval
    BY <1>1, <1>6 DEF ChecksEnd, Records
  <2> QED BY <1>6, <2>3, <2>4, IdsOutcome DEF ChecksEnd, gatewayVars, ghostVars
<1>7. CASE VerifyCompletion
  <2>1. \E m \in Messages : ~Unspent(m.type, m.result) /\ Enqueue(m)
    BY <1>7, PlainMessage DEF VerifyCompletion, Unspent, Command
  <2> QED BY <1>7, <2>1, IdsOutcome DEF VerifyCompletion, gatewayVars, ghostVars
<1> QED
  BY <1>2, <1>3, <1>4, <1>5, <1>6, <1>7

\* Checks the runtime proposes itself have no id of their own.
LEMMA IdsEvaluateProgress == IInv /\ IInv' /\ IdsInv /\ EvaluateProgress => IdsInv'
<1> SUFFICES ASSUME IInv, IInv', IdsInv, EvaluateProgress PROVE IdsInv'
  OBVIOUS
<1>1. record \in Records /\ queue \in Seq(Messages) /\ queue' \in Seq(Messages)
  BY DEF IInv, TypeOK
<1>2. queue' = Append(queue, ProgressCommand) /\ effect'.type = "NONE"
  BY DEF EvaluateProgress, Enqueue, NoEffect
<1>3. UNCHANGED <<record, entry, issued, ran>>
  BY DEF EvaluateProgress, gatewayVars, ghostVars
<1>4. CASE \E t \in {"INCONCLUSIVE", "FAIL", "CONTINUE_PLANNING"} :
             ProgressCommand = Command(t, <<>>, "none")
  <2>1. \E m \in Messages : ~Unspent(m.type, m.result) /\ queue' = Append(queue, m)
    BY <1>2, <1>4, PlainMessage DEF Unspent, Command
  <2> QED BY <1>2, <1>3, <2>1, IdsPlain
<1>5. CASE /\ record.obligations # <<>> /\ Head(Head(record.obligations).checks) # "missing"
           /\ ProgressCommand =
                Command("FOLLOW_UP_PROPOSED",
                        <<FollowUp(Head(Head(record.obligations).checks))>>, "none")
  <2> DEFINE check == Head(Head(record.obligations).checks)
             m     == Command("FOLLOW_UP_PROPOSED", <<FollowUp(check)>>, "none")
  <2>1. check \in CheckKinds \ {"missing"}
    <3>1. Head(record.obligations) \in Obligations
      BY <1>1, <1>5, TailElements DEF Records
    <3>2. /\ Head(record.obligations).checks \in Seq(CheckKinds)
          /\ Head(record.obligations).checks # <<>>
      BY <3>1 DEF Obligations
    <3> QED BY <1>5, <3>2, TailElements
  <2>2. m \in Messages
    <3>1. check \in Kinds /\ (CHOOSE c \in Contents : TRUE) \in Contents /\ 0 \in Ids
      BY <2>1, BudgetAssumption, ContentsAssumption DEF Ids, Kinds, CheckKinds
    <3> HIDE DEF check
    <3>2. FollowUp(check) \in Intents
      BY <3>1 DEF FollowUp, Intents
    <3>3. <<FollowUp(check)>> \in Seq(Intents) /\ Len(<<FollowUp(check)>>) = 1
      BY <3>2
    <3> QED BY <3>3, CommandInMessages DEF PlainTarget, CommandResults
  <2>3. Newest \in Nat /\ record.steps \in Nat
    BY <1>1, NewestType, BudgetAssumption DEF Records
  <2>4. HolderFit(m, Newest) /\ \A id \in Ids : ~Holds(m, id)
    <3>1. Newest > 0
      BY <2>3 DEF Newest, EvaluateProgress
    <3>2. m.intents = <<FollowUp(check)>> /\ FollowUp(check).id = 0 /\ FollowUp(check).kind = check
      BY DEF Command, FollowUp
    <3> HIDE DEF m, check
    <3>3. \A k \in 1 .. Len(m.intents) : m.intents[k] = FollowUp(check)
      BY <3>2
    <3>4. Fit(FollowUp(check), Newest)
      BY <2>1, <3>1, <3>2 DEF Fit
    <3> QED BY <3>2, <3>3, <3>4 DEF HolderFit, Holds
  <2>5. HolderFit(effect', Newest) /\ \A id \in Ids : ~Holds(effect', id)
    BY <1>2 DEF HolderFit, Holds, Unspent
  <2>6. Newest' = Newest
    BY <1>2, <1>3 DEF Newest, EvaluateProgress
  <2>7. queue' = Append(queue, m)
    BY <1>2, <1>5
  <2> HIDE DEF m, check
  <2> QED BY <1>2, <1>3, <2>2, <2>3, <2>4, <2>5, <2>6, <2>7, IdsPass
<1> QED
  BY <1>4, <1>5 DEF ProgressCommand

\* Control calls, a closed approval and time hold nothing.
LEMMA IdsControls ==
  IInv /\ IInv' /\ IdsInv /\ (\/ UserPause \/ UserCancel \/ UserResume \/ ResumeBound
                              \/ ApprovalTimerFires \/ DeadlinePasses \/ UNCHANGED vars
                              \/ \E choice \in {"reject", "cancel_task", "expired"} : Decline(choice))
    => IdsInv'
<1> SUFFICES ASSUME IInv, IInv', IdsInv,
                    \/ UserPause \/ UserCancel \/ UserResume \/ ResumeBound
                    \/ ApprovalTimerFires \/ DeadlinePasses \/ UNCHANGED vars
                    \/ \E choice \in {"reject", "cancel_task", "expired"} : Decline(choice)
             PROVE  IdsInv'
  OBVIOUS
<1>1. effect \in Effects
  BY DEF IInv, TypeOK
<1>2. \A t \in {"PAUSE", "CANCEL"} : UserCommand(t, <<>>, "none") \in Messages
  BY CommandInMessages, EmptySeq DEF PlainTarget, CommandResults
<1>3. \A res \in {"reject", "cancel_task", "expired"}, origin \in {"runtime", "user"} :
        [type |-> "APPROVAL_RESOLVED", origin |-> origin, intents |-> <<>>, result |-> res,
         change |-> 0] \in Messages
  BY EmptySeq, BudgetAssumption DEF Messages, Commands, CommandTypes, CommandResults, WellFormed,
                                    ApprovalTarget, Ids
<1>4. UserCommand("RESUME", <<>>, "none") \in Messages
  BY EmptySeq, BudgetAssumption DEF UserCommand, Messages, Commands, CommandTypes, CommandResults,
                                    WellFormed, Ids
<1>5. CASE UserPause
  <2>1. effect'.type = effect.type /\ effect'.intents = effect.intents /\ effect'.result = effect.result
    BY <1>1, <1>5 DEF UserPause, Preempt, Effects
  <2>2. queue' = queue \/ \E m \in Messages : ~Unspent(m.type, m.result) /\ queue' = Append(queue, m)
    BY <1>2, <1>5 DEF UserPause, Unspent, UserCommand
  <2> QED BY <1>5, <2>1, <2>2, IdsPlain DEF UserPause, gatewayVars, ghostVars
<1>6. CASE UserCancel
  <2>1. effect'.type = effect.type /\ effect'.intents = effect.intents /\ effect'.result = effect.result
    BY <1>1, <1>6 DEF UserCancel, Preempt, Effects
  <2>2. queue' = queue \/ \E m \in Messages : ~Unspent(m.type, m.result) /\ queue' = Append(queue, m)
    BY <1>2, <1>6 DEF UserCancel, Unspent, UserCommand
  <2> QED BY <1>6, <2>1, <2>2, IdsPlain DEF UserCancel, gatewayVars, ghostVars
<1>7. CASE UserResume
  BY <1>7, IdsPlain DEF UserResume, gatewayVars, ghostVars
<1>8. CASE ResumeBound
  <2>1. queue' = queue \/ \E m \in Messages : ~Unspent(m.type, m.result) /\ queue' = Append(queue, m)
    BY <1>4, <1>8 DEF ResumeBound, Unspent, UserCommand
  <2> QED BY <1>8, <2>1, IdsPlain DEF ResumeBound, RevokeTask, gatewayVars
<1>9. CASE ApprovalTimerFires
  <2>1. queue' = queue \/ \E m \in Messages : ~Unspent(m.type, m.result) /\ queue' = Append(queue, m)
    BY <1>3, <1>9 DEF ApprovalTimerFires, Answer, Unspent
  <2> QED BY <1>9, <2>1, IdsPlain DEF ApprovalTimerFires, ghostVars
<1>10. CASE DeadlinePasses
  BY <1>10, IdsPlain DEF DeadlinePasses, gatewayVars, ghostVars
<1>11. CASE \E choice \in {"reject", "cancel_task", "expired"} : Decline(choice)
  <2> PICK choice \in {"reject", "cancel_task", "expired"} : Decline(choice)
    BY <1>11
  <2>1. queue' = queue \/ \E m \in Messages : ~Unspent(m.type, m.result) /\ queue' = Append(queue, m)
    BY <1>3 DEF Decline, Answer, Unspent
  <2> QED BY <2>1, IdsPlain DEF Decline, ghostVars
<1>12. CASE UNCHANGED vars
  BY <1>12, IdsPlain DEF vars
<1> QED
  BY <1>5, <1>6, <1>7, <1>8, <1>9, <1>10, <1>11, <1>12

\* The mailbox: a command that is dropped lets go of what it held.
LEMMA IdsDrop == IInv /\ IInv' /\ IdsInv /\ (IgnoreCommand \/ RejectCommand) => IdsInv'
<1> SUFFICES ASSUME IInv, IInv', IdsInv, IgnoreCommand \/ RejectCommand PROVE IdsInv'
  OBVIOUS
<1> DEFINE fail == Command("FAIL", <<>>, "none")
<1>1. /\ queue \in Seq(Messages) /\ queue # <<>> /\ Tail(queue) \in Seq(Messages)
      /\ fail \in Messages /\ ~Unspent(fail.type, fail.result) /\ Newest \in Nat
  BY TailElements, PlainMessage, NewestType
     DEF IInv, IgnoreCommand, RejectCommand, Unspent, Command
<1>2. (\A id \in Ids : ~Holds(fail, id)) /\ HolderFit(fail, Newest)
  BY <1>1 DEF Holds, HolderFit
<1>3. queue' = Tail(queue) \/ queue' = Append(Tail(queue), fail)
  BY DEF IgnoreCommand, RejectCommand, QueueAfterError
<1> HIDE DEF fail
<1>4. /\ \A id \in Ids : InQueue(queue', id) => InQueue(queue, id)
      /\ \A id \in Ids : InQueueUnrevised(queue', id) => InQueueUnrevised(queue, id)
      /\ Disjoint(queue') /\ QueueFit(queue', Newest)
  <2>1. Disjoint(queue) /\ QueueFit(queue, Newest)
    BY DEF IdsInv, HeldOnce, HoldersFit
  <2>2. /\ \A id \in Ids : InQueue(Tail(queue), id) => InQueue(queue, id)
        /\ \A id \in Ids : InQueueUnrevised(Tail(queue), id) => InQueueUnrevised(queue, id)
        /\ Disjoint(Tail(queue)) /\ QueueFit(Tail(queue), Newest)
    BY <1>1, <2>1, QueueShrinks
  <2>3. CASE queue' = Tail(queue)
    BY <2>2, <2>3
  <2>4. CASE queue' = Append(Tail(queue), fail)
    BY <1>1, <1>2, <2>2, <2>4, QueueGrows
  <2> QED BY <1>3, <2>3, <2>4
<1>5. UNCHANGED <<record, effect, entry, issued, grants, ran>>
  BY DEF IgnoreCommand, RejectCommand, gatewayVars, ghostVars
<1>6. Newest' = Newest /\ (ApprovalShown' <=> ApprovalShown) /\ \A id : IdUsed(id)' <=> IdUsed(id)
  BY <1>5 DEF Newest, ApprovalShown, IdUsed
<1>7. HoldersFit' /\ EntryFits' /\ RunsOnce'
  BY <1>4, <1>5, <1>6 DEF IdsInv, HoldersFit, EntryFits, RunsOnce
<1>8. HeldOnce'
  BY <1>4, <1>5, <1>6 DEF IdsInv, HeldOnce
<1>9. /\ entry.state = "live" => entry.intent.id \in Ids
      /\ record.approval # NoIntent => record.approval.id \in Ids
  BY DEF IInv, TypeOK, Entries, NoEntry, Records, Intents
<1>10. ApprovalHolds'
  BY <1>4, <1>5, <1>6, <1>9 DEF IdsInv, ApprovalHolds, ApprovalShown
<1> QED
  BY <1>7, <1>8, <1>10 DEF IdsInv

\* Only these commands start an evaluation.
LEMMA EvaluatedHolds ==
  ASSUME IInv, NEW c \in Messages, EffectAfter(c).type = "EVALUATE_INTENT"
  PROVE  /\ c.type \in {"PLANNER_DECISION", "APPROVAL_REVISED", "FOLLOW_UP_PROPOSED"}
         /\ EffectAfter(c).intents = c.intents
<1>1. EffectAfter(c).intents = c.intents /\ NextEffect(record, c) = "EVALUATE_INTENT"
  BY DEF EffectAfter, NoEffect
<1>2. Target(record, c) = "policy_check"
  BY <1>1 DEF NextEffect, EffectOf
<1>3. c.type \in CommandTypes /\ WellFormed(c)
  BY DEF Messages, Commands
<1>4. c.type \notin {"POLICY_DECIDED", "APPROVAL_RESOLVED", "MUTATION_VERIFIED", "RESUME"}
  BY <1>2, <1>3 DEF Target, WellFormed, PolicyTarget, ApprovalTarget, VerifiedTarget, Verdicts
<1>5. c.type \in DOMAIN PlainTarget => PlainTarget[c.type] = "policy_check"
  BY <1>2 DEF Target, PlainTarget
<1> QED
  BY <1>1, <1>3, <1>4, <1>5 DEF CommandTypes, PlainTarget

\* A command that is accepted hands its hold to its effect, or to the approval.
LEMMA IdsAccept == IInv /\ IInv' /\ IdsInv /\ AcceptCommand => IdsInv'
<1> SUFFICES ASSUME IInv, IInv', IdsInv, AcceptCommand PROVE IdsInv'
  OBVIOUS
<1> DEFINE c == Head(queue)
<1>1. /\ queue \in Seq(Messages) /\ queue # <<>> /\ c \in Messages /\ Newest \in Nat
      /\ Legal(record, c)
  BY TailElements, NewestType DEF IInv, AcceptCommand
<1>2. /\ queue' = Tail(queue) /\ effect' = EffectAfter(c) /\ effect.type = "NONE"
      /\ record' = [Reduced(record, c) EXCEPT !.status = StatusAfter(c)]
      /\ entry' = entry \/ entry' = Resolved(entry)
      /\ issued' \subseteq issued /\ ran' = ran
  BY DEF AcceptCommand, RevokeTask, gatewayVars, ghostVars
<1> HIDE DEF c
<1>3. record'.steps = record.steps /\ record'.approval = ApprovalAfter(record, c)
  BY <1>2 DEF Reduced, IInv, TypeOK, Records
<1>4. effect'.type \notin {"PRECHECK", "HARNESS_TURN"}
  BY <1>1, <1>2, EffectAfterType
<1>5. Newest' = Newest
  BY <1>2, <1>3, <1>4 DEF Newest
<1>6. Disjoint(queue) /\ QueueFit(queue, Newest)
  BY DEF IdsInv, HeldOnce, HoldersFit
<1>7. /\ \A id \in Ids : InQueue(queue', id) => InQueue(queue, id) /\ ~Holds(c, id)
      /\ \A id \in Ids : InQueueUnrevised(queue', id) => InQueueUnrevised(queue, id)
      /\ \A id \in Ids : Holds(c, id) => InQueue(queue, id)
      /\ \A id \in Ids : Holds(c, id) /\ c.type # "APPROVAL_REVISED" => InQueueUnrevised(queue, id)
      /\ Disjoint(queue') /\ QueueFit(queue', Newest) /\ HolderFit(c, Newest)
  BY <1>1, <1>2, <1>6, QueueShrinks DEF c
<1>8. /\ \A id \in Ids : Holds(effect', id) =>
           Holds(c, id) /\ c.type \in {"PLANNER_DECISION", "APPROVAL_REVISED", "FOLLOW_UP_PROPOSED"}
      /\ HolderFit(effect', Newest)
  <2>1. CASE effect'.type = "EVALUATE_INTENT"
    <3>1. /\ c.type \in {"PLANNER_DECISION", "APPROVAL_REVISED", "FOLLOW_UP_PROPOSED"}
          /\ effect'.intents = c.intents
      BY <1>1, <1>2, <2>1, EvaluatedHolds
    <3> QED BY <1>7, <3>1 DEF Holds, HolderFit, Unspent
  <2>2. CASE effect'.type # "EVALUATE_INTENT"
    <3>1. ~Unspent(effect'.type, effect'.result)
      <4>1. effect' \in Effects
        BY DEF IInv, TypeOK
      <4> QED BY <1>4, <2>2, <4>1 DEF Unspent, Effects, EffectTypes
    <3> QED BY <3>1 DEF Holds, HolderFit
  <2> QED BY <2>1, <2>2
<1>9. \A id : IdUsed(id)' => IdUsed(id)
  BY <1>2 DEF IdUsed
<1>10. /\ entry'.state = "live" => entry' = entry
       /\ entry.state = "live" => entry.intent \in Intents /\ entry.intent.id \in Ids
       /\ record.approval # NoIntent => record.approval.id \in Ids
  BY <1>2 DEF Resolved, IInv, TypeOK, Entries, NoEntry, Records, Intents
\* What becomes of the approval.
<1>11. \/ record'.approval = NoIntent
       \/ record'.approval = record.approval /\ c.type # "APPROVAL_REVISED"
       \/ /\ c.type = "POLICY_DECIDED" /\ c.result = "require_approval"
          /\ record'.approval = c.intents[1]
  BY <1>3 DEF ApprovalAfter
<1>12. ASSUME c.type = "POLICY_DECIDED", c.result = "require_approval"
       PROVE  /\ c.intents[1] \in Intents /\ Fit(c.intents[1], Newest)
              /\ c.intents[1].id = 0 \/ Holds(c, c.intents[1].id)
  <2>1. WellFormed(c)
    BY <1>1 DEF Messages
  <2>2. Carries(c)
    BY <1>12, <2>1 DEF WellFormed
  <2>3. c.intents \in Seq(Intents) /\ 1 \in 1 .. Len(c.intents)
    BY <2>2 DEF Carries
  <2>4. c.intents[1] \in Intents
    BY <2>3, ElementOfSeq
  <2> QED BY <1>7, <1>12, <2>3, <2>4 DEF HolderFit, Holds, Unspent
<1>13. HoldersFit'
  <2>1. record'.approval # NoIntent => Fit(record'.approval, Newest)
    BY <1>11, <1>12 DEF IdsInv, HoldersFit
  <2> QED BY <1>4, <1>5, <1>7, <1>8, <2>1 DEF HoldersFit
<1>14. EntryFits'
  BY <1>5, <1>10 DEF IdsInv, EntryFits
<1>15. HeldOnce'
  BY <1>7, <1>8, <1>9 DEF IdsInv, HeldOnce
<1>16. RunsOnce'
  BY <1>2, <1>5 DEF IdsInv, RunsOnce
<1>17. ApprovalHolds'
  <2>1. CASE record'.approval = NoIntent
    <3>1. ~ApprovalShown'
      BY <2>1, <1>10, NoIntentAssumption DEF ApprovalShown
    <3> QED BY <2>1, <3>1 DEF ApprovalHolds
  <2>2. CASE /\ record'.approval # NoIntent /\ record'.approval = record.approval
             /\ c.type # "APPROVAL_REVISED"
    <3> PICK id \in Ids : id = record.approval.id
      BY <1>10, <2>2
    <3>1. ~InQueueUnrevised(queue, id)
      BY <1>10, <2>2 DEF IdsInv, ApprovalHolds
    <3>2. ~InQueueUnrevised(queue', id) /\ ~Holds(c, id)
      BY <1>7, <2>2, <3>1
    <3>3. ~Holds(effect', id)
      BY <1>8, <3>1, <3>2
    <3>4. ApprovalShown' => ApprovalShown /\ entry' = entry /\ entry.intent.id = id
      BY <1>10, <2>2 DEF ApprovalShown
    <3>5. ApprovalShown => ~InQueue(queue, entry.intent.id) /\ ~IdUsed(entry.intent.id)
      BY DEF IdsInv, ApprovalHolds
    <3>6. ApprovalShown' => ~InQueue(queue', id) /\ ~Holds(effect', id) /\ ~IdUsed(id)'
      BY <1>7, <1>9, <3>1, <3>3, <3>4, <3>5
    <3> QED BY <2>2, <3>2, <3>3, <3>4, <3>6 DEF ApprovalHolds
  <2>3. CASE /\ c.type = "POLICY_DECIDED" /\ c.result = "require_approval"
             /\ record'.approval = c.intents[1]
    <3>0. c.intents[1].id \in Ids
      BY <1>12, <2>3 DEF Intents
    <3> PICK id \in Ids : id = c.intents[1].id
      BY <3>0
    <3>1. id = 0 \/ Holds(c, id)
      BY <1>12, <2>3
    <3>2. ~Holds(effect', id)
      BY <1>8, <2>3, <3>1
    <3>3. ~InQueue(queue', id)
      BY <1>7, <3>1 DEF InQueue, Holds
    <3>4. ~InQueueUnrevised(queue', id)
      BY <3>3 DEF InQueue, InQueueUnrevised
    <3>5. ~IdUsed(id)'
      <4>1. CASE id = 0
        BY <4>1, <1>9 DEF IdUsed, IdsInv, RunsOnce, Runnable
      <4>2. CASE Holds(c, id)
        BY <4>2, <1>7, <1>9, <3>1 DEF IdsInv, HeldOnce
      <4> QED BY <3>1, <4>1, <4>2
    <3>6. ApprovalShown' => entry'.intent.id = id
      BY <2>3 DEF ApprovalShown
    <3>7. record'.approval.id = id
      BY <2>3
    <3> QED BY <3>2, <3>3, <3>4, <3>5, <3>6, <3>7 DEF ApprovalHolds
  <2> QED BY <1>11, <2>1, <2>2, <2>3
<1> QED
  BY <1>13, <1>14, <1>15, <1>16, <1>17 DEF IdsInv

\* A step that pushes what it, the shown approval or nobody held before.
LEMMA IdsHand ==
  ASSUME IInv, IInv', IdsInv,
         NEW m \in Messages, queue' = Append(queue, m), HolderFit(m, Newest'),
         \A id \in Ids : Holds(m, id) =>
           /\ ~InQueue(queue, id) /\ ~IdUsed(id) /\ ~Holds(effect', id)
           /\ entry' = entry => ~(ApprovalShown /\ entry.intent.id = id)
           /\ record.approval # NoIntent /\ m.type # "APPROVAL_REVISED" =>
                record.approval.id # id,
         \/ effect' = effect
         \/ effect'.type = "NONE",
         record'.steps = record.steps, record'.approval = record.approval,
         entry' = entry \/ entry' = Resolved(entry), issued' = issued, ran' = ran
  PROVE  IdsInv'
<1>1. /\ queue \in Seq(Messages) /\ queue' \in Seq(Messages) /\ Newest \in Nat /\ Newest' \in Nat
      /\ record.steps \in Nat
  <2>1. queue' \in Seq(Messages)
    BY DEF IInv
  <2> QED BY <2>1, IdTypes, NewestType
<1>2. Newest' >= Newest /\ (effect'.type = "HARNESS_TURN" => record'.steps >= 1)
  BY <1>1 DEF Newest, IdsInv, HoldersFit
<1>3. /\ \A id \in Ids : Holds(effect', id) => Holds(effect, id)
      /\ effect'.intents \in Seq(Intents) /\ HolderFit(effect', Newest)
  <2>1. HolderFit(effect, Newest) /\ effect' \in Effects
    BY DEF IdsInv, HoldersFit, IInv, TypeOK
  <2> QED BY <2>1 DEF Holds, HolderFit, Unspent, Effects
<1>4. HolderFit(effect', Newest')
  BY <1>1, <1>2, <1>3, FitGrows
<1>5. QueueFit(queue, Newest')
  BY <1>1, <1>2, FitGrows DEF IdsInv, HoldersFit
<1>6. /\ \A id \in Ids : InQueue(queue', id) => InQueue(queue, id) \/ Holds(m, id)
      /\ \A id \in Ids : InQueueUnrevised(queue', id) =>
           InQueueUnrevised(queue, id) \/ (m.type # "APPROVAL_REVISED" /\ Holds(m, id))
      /\ Disjoint(queue') /\ QueueFit(queue', Newest')
  <2>1. Disjoint(queue)
    BY DEF IdsInv, HeldOnce
  <2> QED BY <1>1, <1>5, <2>1, QueueGrows
<1>7. /\ entry'.state = "live" => entry' = entry
      /\ ApprovalShown' => ApprovalShown /\ entry' = entry
      /\ entry.state = "live" => entry.intent \in Intents /\ entry.intent.id \in Ids
      /\ record.approval # NoIntent => record.approval \in Intents /\ record.approval.id \in Ids
  BY DEF Resolved, ApprovalShown, IInv, TypeOK, Entries, NoEntry, Records, Intents
<1>8. \A id : IdUsed(id)' <=> IdUsed(id)
  BY DEF IdUsed
<1>9. HoldersFit'
  <2>1. record.approval # NoIntent => Fit(record.approval, Newest')
    BY <1>1, <1>2, <1>7, FitGrows DEF IdsInv, HoldersFit
  <2> QED BY <1>2, <1>4, <1>6, <2>1 DEF HoldersFit
<1>10. EntryFits'
  BY <1>1, <1>2, <1>7, FitGrows DEF IdsInv, EntryFits
<1>11. HeldOnce'
  BY <1>3, <1>6, <1>8 DEF IdsInv, HeldOnce
<1>12. ApprovalHolds'
  <2>1. ASSUME ApprovalShown'
        PROVE  /\ ~InQueue(queue', entry.intent.id) /\ ~Holds(effect', entry.intent.id)
               /\ ~IdUsed(entry.intent.id)' /\ entry' = entry
    BY <1>3, <1>6, <1>7, <1>8, <2>1 DEF IdsInv, ApprovalHolds, ApprovalShown
  <2>2. ASSUME record.approval # NoIntent
        PROVE  ~InQueueUnrevised(queue', record.approval.id) /\ ~Holds(effect', record.approval.id)
    BY <1>3, <1>6, <1>7, <2>2 DEF IdsInv, ApprovalHolds
  <2> QED BY <2>1, <2>2 DEF ApprovalHolds
<1>13. RunsOnce'
  <2>1. (\A i \in issued : i.id \in Nat) /\ \A k \in 1 .. Len(ran) : ran[k].id \in Nat
    BY IdTypes
  <2>2. /\ \A i \in issued : i.id < Newest => i.id < Newest'
        /\ \A k \in 1 .. Len(ran) : ran[k].id < Newest => ran[k].id < Newest'
    BY <1>1, <1>2, <2>1
  <2> QED BY <2>2 DEF IdsInv, RunsOnce
<1> QED
  BY <1>9, <1>10, <1>11, <1>12, <1>13 DEF IdsInv

\* A turn of the model proposes actions under ids that no one has had.
LEMMA IdsHarnessTurn == IInv /\ IInv' /\ IdsInv /\ HarnessTurn => IdsInv'
<1> SUFFICES ASSUME IInv, IInv', IdsInv, HarnessTurn PROVE IdsInv'
  OBVIOUS
<1>1. /\ record.steps \in Nat /\ record.steps >= 1 /\ Newest = 2 * record.steps
      /\ UNCHANGED <<record, entry, issued, ran>>
  BY BudgetAssumption DEF HarnessTurn, Newest, IdsInv, HoldersFit, IInv, TypeOK, Records,
                          gatewayVars, ghostVars
<1>2. CASE Throw
  BY <1>1, <1>2, IdsOutcome
<1>3. ASSUME NEW result \in TurnResults,
             NEW intents \in (IF result = "continue" THEN Proposals ELSE {<<>>}),
             Enqueue(Command("PLANNER_DECISION", intents, result))
      PROVE  IdsInv'
  <2> DEFINE m == Command("PLANNER_DECISION", intents, result)
  <2>1. queue' = Append(queue, m) /\ effect'.type = "NONE"
    BY <1>3 DEF Enqueue, NoEffect
  <2>2. m \in Messages
    <3>1. result \in DOMAIN PlannerTarget
      BY SessionAssumption
    <3>2. intents \in Seq(Intents) /\ (result = "continue" => Len(intents) \in {1, 2})
      BY ProposalType, EmptySeq
    <3> QED BY <3>1, <3>2, BudgetAssumption
            DEF Command, Messages, Commands, CommandTypes, CommandResults, WellFormed, Carries, Ids
  <2>3. Newest' = 2 * record.steps + 2
    BY <1>1, <2>1 DEF Newest
  <2>4. \A k \in 1 .. Len(intents) : intents[k].id \in {2 * record.steps, 2 * record.steps + 1}
    <3>1. CASE result # "continue"
      BY <3>1
    <3>2. CASE intents \in {<<i>> : i \in Proposable(2 * record.steps)}
      <4>1. PICK i \in Proposable(2 * record.steps) : intents = <<i>>
        BY <3>2
      <4>2. i.id = 2 * record.steps
        BY DEF Proposable
      <4> QED BY <4>1, <4>2
    <3>3. CASE intents \in Proposable(2 * record.steps) \X Proposable(2 * record.steps + 1)
      <4>1. PICK i \in Proposable(2 * record.steps), j \in Proposable(2 * record.steps + 1) :
              intents = <<i, j>>
        BY <3>3
      <4>2. i.id = 2 * record.steps /\ j.id = 2 * record.steps + 1
        BY DEF Proposable
      <4> QED BY <4>1, <4>2
    <3> QED BY <3>1, <3>2, <3>3 DEF Proposals
  <2>5. m.intents = intents /\ m.type = "PLANNER_DECISION"
    BY DEF Command
  <2> HIDE DEF m
  <2>6. HolderFit(m, Newest')
    BY <1>1, <2>3, <2>4, <2>5 DEF HolderFit, Fit
  <2>7. ASSUME NEW id \in Ids, Holds(m, id)
        PROVE  /\ ~InQueue(queue, id) /\ ~IdUsed(id) /\ ~Holds(effect', id)
               /\ ~(ApprovalShown /\ entry.intent.id = id)
               /\ record.approval # NoIntent => record.approval.id # id
    <3>1. ~(id < Newest)
      BY <1>1, <2>4, <2>5, <2>7 DEF Holds
    <3>2. ~InQueue(queue, id)
      BY <3>1 DEF IdsInv, HoldersFit, QueueFit, HolderFit, Fit, InQueue, Holds
    <3>3. ~IdUsed(id)
      BY <3>1 DEF IdsInv, RunsOnce, IdUsed
    <3>4. ~Holds(effect', id)
      BY <2>1 DEF Holds, Unspent
    <3>5. record.approval # NoIntent => record.approval.id # id
      BY <3>1 DEF IdsInv, HoldersFit, Fit
    <3>6. ~(ApprovalShown /\ entry.intent.id = id)
      BY <3>1 DEF ApprovalShown, IdsInv, EntryFits, Fit
    <3> QED BY <3>2, <3>3, <3>4, <3>5, <3>6
  <2> QED BY <1>1, <2>1, <2>2, <2>6, <2>7, IdsHand
<1> QED
  BY <1>2, <1>3 DEF HarnessTurn

LEMMA IdsPrecheck == IInv /\ IInv' /\ IdsInv /\ Precheck => IdsInv'
<1> SUFFICES ASSUME IInv, IInv', IdsInv, Precheck PROVE IdsInv'
  OBVIOUS
<1>1. /\ Carries(effect) /\ effect.result \in DOMAIN PolicyTarget
      /\ effect.type = "PRECHECK" /\ record \in Records
  BY DEF Precheck, IInv, TypeOK, EffectFits
<1>2. /\ UNCHANGED <<entry, issued, ran>> /\ record'.steps = record.steps
      /\ record'.approval = record.approval
  BY <1>1 DEF Precheck, gatewayVars, ghostVars, Records
<1>3. PICK v \in {"deny", effect.result} : Enqueue(PolicyDecided(effect.intents, v))
  BY DEF Precheck
<1> DEFINE m == PolicyDecided(effect.intents, v)
<1>4. m \in Messages /\ queue' = Append(queue, m) /\ effect'.type = "NONE"
  BY <1>1, <1>3, PolicyMessage DEF Carries, Enqueue, NoEffect, PolicyTarget
<1>5. m.intents = effect.intents /\ m.type = "POLICY_DECIDED" /\ m.result \in {"deny", effect.result}
  BY DEF PolicyDecided, Command
<1> HIDE DEF m
<1>6. \A id \in Ids : Holds(m, id) => Holds(effect, id)
  BY <1>1, <1>5 DEF Holds, Unspent
<1>7. HolderFit(m, Newest) /\ Newest' = Newest
  BY <1>1, <1>2, <1>4, <1>5 DEF HolderFit, Unspent, Newest, IdsInv, HoldersFit
<1>8. ASSUME NEW id \in Ids, Holds(m, id)
      PROVE  /\ ~InQueue(queue, id) /\ ~IdUsed(id) /\ ~Holds(effect', id)
             /\ ~(ApprovalShown /\ entry.intent.id = id)
             /\ record.approval # NoIntent => record.approval.id # id
  <2>1. Holds(effect, id)
    BY <1>6, <1>8
  <2>2. ~Holds(effect', id)
    BY <1>4 DEF Holds, Unspent
  <2> QED BY <2>1, <2>2 DEF IdsInv, HeldOnce, ApprovalHolds, ApprovalShown
<1> QED
  BY <1>2, <1>4, <1>7, <1>8, IdsHand

\* A revision keeps the id of the approval it answers.
LEMMA IdsRevise == IInv /\ IInv' /\ IdsInv /\ ReviseApproval => IdsInv'
<1> SUFFICES ASSUME IInv, IInv', IdsInv, ReviseApproval PROVE IdsInv'
  OBVIOUS
<1>1. /\ entry.intent \in Intents /\ entry.intent.id \in Ids
      /\ entry.state = "live" /\ record.approval = entry.intent
  BY ShownIntent DEF ReviseApproval, Intents, ApprovalShown
<1>2. /\ UNCHANGED <<record, effect, issued, ran>> /\ entry' = Resolved(entry)
      /\ entry' # entry
  <2>1. entry'.state = "resolved"
    BY <1>1, IdTypes DEF ReviseApproval, Resolved, Entries, NoEntry
  <2> QED BY <1>1, <2>1 DEF ReviseApproval, ghostVars
<1>3. PICK content \in Contents, kind \in RevisedKinds(entry.intent.kind) \cap OfferedKinds :
        Answer("APPROVAL_REVISED",
               <<[entry.intent EXCEPT !.content = content, !.kind = kind, !.check = FALSE]>>,
               "none", "user")
  BY DEF ReviseApproval
<1> DEFINE i == [entry.intent EXCEPT !.content = content, !.kind = kind, !.check = FALSE]
           m == UserCommand("APPROVAL_REVISED", <<i>>, "none")
<1>4. i \in Intents /\ i.id = entry.intent.id /\ i.kind = kind
  BY <1>1, SessionAssumption DEF Intents
<1>5. queue' = Append(queue, m)
  BY <1>3 DEF Answer, UserCommand
<1>6. m.intents = <<i>> /\ m.type = "APPROVAL_REVISED"
  BY DEF UserCommand
<1>7. m \in Messages
  <2>1. <<i>> \in Seq(Intents) /\ Len(<<i>>) = 1
    BY <1>4
  <2> QED BY <2>1, CommandInMessages DEF PlainTarget, CommandResults
<1> HIDE DEF i, m
<1>8. Newest' = Newest
  BY <1>2 DEF Newest
<1>9. HolderFit(m, Newest)
  <2>1. Fit(entry.intent, Newest)
    BY <1>1 DEF IdsInv, EntryFits
  <2>2. Fit(i, Newest)
    BY <1>1, <1>4, <2>1 DEF Fit, RevisedKinds, CheckKinds
  <2> QED BY <1>6, <2>2 DEF HolderFit
<1>10. ASSUME NEW id \in Ids, Holds(m, id)
       PROVE  ~InQueue(queue, id) /\ ~IdUsed(id) /\ ~Holds(effect', id)
  <2>1. id = entry.intent.id
    BY <1>4, <1>6, <1>10 DEF Holds
  <2> QED BY <1>1, <1>2, <2>1 DEF IdsInv, ApprovalHolds, ApprovalShown
<1> QED
  BY <1>2, <1>5, <1>6, <1>7, <1>8, <1>9, <1>10, IdsHand

\* Of the changes, the policy allows structured ones alone, and only with a plan.
LEMMA AllowedChange ==
  ASSUME NEW i, PolicyOutcome(i) = "allow", Mutates(i)
  PROVE  i.kind = "tool" /\ i.plan # <<>>
<1>1. ~(\/ i.kind = "denied"
        \/ i.kind \in {"shell", "tool"} /\ i.plan = <<>>)
  BY DEF PolicyOutcome
<1>2. i.kind = "read" \/ Granted(i)
  BY <1>1 DEF PolicyOutcome
<1> QED
  BY <1>1, <1>2 DEF Granted, Grantable, Mutates

\* Evaluating actions: what the policy allows becomes a capability, what it
\* wants approved is held by the outcome x (a command, or the precheck).
LEMMA IdsEvaluated ==
  ASSUME IInv, IInv', IdsInv, effect.type = "EVALUATE_INTENT",
         NEW s \in Seq(Intents), Len(s) \in {1, 2}, Prepare(s),
         Elements(s) \subseteq Elements(effect.intents),
         \A j, k \in 1 .. Len(s) : Mutates(s[j]) /\ Mutates(s[k]) => j = k,
         s[Len(s)].kind # "broken",
         NEW x, x.intents \in Seq(Intents), Elements(x.intents) \subseteq Elements(effect.intents),
         Unspent(x.type, x.result) =>
           \A k \in 1 .. Len(s) : PolicyOutcome(s[k]) = "allow" => ~Mutates(s[k]),
         \/ x \in Messages /\ queue' = Append(queue, x) /\ effect' = NoEffect
         \/ x = effect' /\ queue' = queue /\ effect'.type = "PRECHECK",
         ran' = ran
  PROVE  IdsInv'
<1> DEFINE Allowed == {s[k] : k \in {n \in 1 .. Len(s) : PolicyOutcome(s[n]) = "allow"}}
           last    == s[Len(s)]
<1>1. /\ record'.steps = record.steps /\ record'.approval = record.approval
      /\ issued' = issued \cup Allowed
      /\ entry' = IF PolicyOutcome(last) = "require_approval"
                    THEN [intent |-> last, state |-> "live"] ELSE entry
  BY IdTypes DEF Prepare, Records
<1>2. effect'.type # "HARNESS_TURN" /\ Newest' = Newest
  BY <1>1 DEF Newest, NoEffect
<1>3. /\ Len(s) \in 1 .. Len(s) /\ last \in Intents
      /\ \A k \in 1 .. Len(s) : s[k] \in Intents /\ s[k] \in Elements(effect.intents)
  <2>1. \A k \in 1 .. Len(s) : s[k] \in Intents
    BY ElementOfSeq
  <2>2. Len(s) \in 1 .. Len(s)
    OBVIOUS
  <2> QED BY <2>1, <2>2 DEF Elements
\* Each action evaluated is held by the effect.
<1>4. \A i \in Elements(effect.intents) :
        Fit(i, Newest) /\ (i.id # 0 => Holds(effect, i.id))
  BY DEF Elements, Holds, Unspent, IdsInv, HoldersFit, HolderFit
<1>5. \A id \in Ids : Holds(x, id) => Holds(effect, id)
  BY <1>4 DEF Holds, Elements
<1>6. HolderFit(x, Newest)
  BY <1>4 DEF HolderFit, Elements
<1>7. \A i \in Allowed : /\ i \in Intents /\ i \in Elements(effect.intents)
                         /\ Mutates(i) => Runnable(i) /\ i.id < Newest /\ Holds(effect, i.id)
  <2> SUFFICES ASSUME NEW k \in 1 .. Len(s), PolicyOutcome(s[k]) = "allow"
               PROVE  /\ s[k] \in Intents /\ s[k] \in Elements(effect.intents)
                      /\ Mutates(s[k]) => /\ Runnable(s[k]) /\ s[k].id < Newest
                                          /\ Holds(effect, s[k].id)
    OBVIOUS
  <2>1. Mutates(s[k]) => s[k].kind = "tool" /\ s[k].plan # <<>>
    BY AllowedChange
  <2>2. Fit(s[k], Newest) /\ (s[k].id # 0 => Holds(effect, s[k].id))
    BY <1>3, <1>4
  <2>3. Mutates(s[k]) => s[k].id # 0
    BY <2>1, <2>2 DEF Fit, CheckKinds
  <2> QED BY <1>3, <2>1, <2>2, <2>3 DEF Runnable, Fit
<1>8. \A i, j \in Allowed : Mutates(i) /\ Mutates(j) => i = j
  OBVIOUS
<1>9. Unspent(x.type, x.result) => \A i \in Allowed : ~Mutates(i)
  OBVIOUS
<1>10. last \in Elements(effect.intents)
  BY <1>3
<1>11. PolicyOutcome(last) = "require_approval" => Askable(last)
  BY DEF PolicyOutcome, Askable
<1> HIDE DEF Allowed, last
<1>12. /\ \A id \in Ids : InQueue(queue', id) => InQueue(queue, id) \/ (Holds(x, id) /\ x \in Messages)
       /\ \A id \in Ids : InQueueUnrevised(queue', id) => InQueueUnrevised(queue, id) \/ Holds(x, id)
       /\ Disjoint(queue') /\ QueueFit(queue', Newest)
       /\ \A id \in Ids : Holds(effect', id) => Holds(x, id) /\ queue' = queue
       /\ HolderFit(effect', Newest)
  <2>1. Disjoint(queue) /\ QueueFit(queue, Newest) /\ queue \in Seq(Messages) /\ Newest \in Nat
    BY IdTypes DEF IdsInv, HeldOnce, HoldersFit
  <2>2. \A id \in Ids : Holds(x, id) => ~InQueue(queue, id)
    BY <1>5 DEF IdsInv, HeldOnce
  <2>3. CASE x \in Messages /\ queue' = Append(queue, x) /\ effect' = NoEffect
    <3>1. (\A id \in Ids : ~Holds(effect', id)) /\ HolderFit(effect', Newest)
      BY <2>3 DEF NoEffect, Holds, HolderFit, Unspent
    <3> QED BY <1>6, <2>1, <2>2, <2>3, <3>1, QueueGrows
  <2>4. CASE x = effect' /\ queue' = queue /\ effect'.type = "PRECHECK"
    BY <1>6, <2>1, <2>4
  <2> QED BY <2>3, <2>4
<1>13. \A id \in Ids : IdUsed(id)' => \/ IdUsed(id)
                                      \/ \E i \in Allowed : Mutates(i) /\ i.id = id
  BY <1>1 DEF IdUsed
\* An id used up now was held by the effect, and is held by no one any more.
<1>14. \A id \in Ids : IdUsed(id)' => IdUsed(id) \/ (Holds(effect, id) /\ ~Holds(x, id))
  <2>1. ASSUME NEW i \in Allowed, Mutates(i) PROVE Holds(effect, i.id) /\ ~Holds(x, i.id)
    BY <1>7, <1>9, <2>1 DEF Holds
  <2> QED BY <1>13, <2>1
<1>15. HoldersFit'
  BY <1>1, <1>2, <1>12 DEF IdsInv, HoldersFit
<1>16. EntryFits'
  BY <1>1, <1>2, <1>4, <1>10, <1>11 DEF IdsInv, EntryFits
<1>17. HeldOnce'
  <2>1. \A id \in Ids : Holds(effect', id) => ~InQueue(queue', id) /\ ~IdUsed(id)'
    BY <1>5, <1>12, <1>14 DEF IdsInv, HeldOnce
  <2>2. \A id \in Ids : InQueue(queue', id) => ~IdUsed(id)'
    BY <1>5, <1>12, <1>14 DEF IdsInv, HeldOnce
  <2> QED BY <1>12, <2>1, <2>2 DEF HeldOnce
<1>18. ASSUME record.approval # NoIntent
       PROVE  /\ record.approval.id \in Ids
              /\ ~InQueueUnrevised(queue', record.approval.id) /\ ~Holds(effect', record.approval.id)
  <2>1. record.approval.id \in Ids
    BY <1>18, IdTypes DEF Records
  <2> QED BY <1>5, <1>12, <1>18, <2>1 DEF IdsInv, ApprovalHolds
<1>19. ASSUME ApprovalShown'
       PROVE  /\ ~InQueue(queue', entry'.intent.id) /\ ~Holds(effect', entry'.intent.id)
              /\ ~IdUsed(entry.intent.id)'
  <2>1. /\ entry'.state = "live" /\ record.approval = entry'.intent
        /\ entry' = entry \/ entry'.intent = last
    BY <1>1, <1>19 DEF ApprovalShown
  <2>2. entry'.intent \in Intents /\ entry'.intent.id \in Ids
    <3>1. entry' \in Entries
      BY DEF IInv, TypeOK
    <3> QED BY <2>1, <3>1, IdTypes DEF Entries, NoEntry
  <2>3. PICK id \in Ids : id = entry'.intent.id
    BY <2>2
  <2>4. CASE entry' = entry
    <3>1. ~InQueue(queue, id) /\ ~Holds(effect, id) /\ ~IdUsed(id)
      BY <2>1, <2>3, <2>4 DEF IdsInv, ApprovalHolds, ApprovalShown
    <3>2. ~InQueue(queue', id) /\ ~Holds(effect', id) /\ ~IdUsed(id)'
      BY <1>5, <1>12, <1>14, <3>1
    <3> QED BY <2>3, <3>2
  <2>5. CASE entry'.intent = last
    <3>1. last.id = id /\ record.approval = last /\ last \in Intents
      BY <1>3, <2>1, <2>3, <2>5 DEF last
    <3>2. ~Holds(effect, id)
      BY <3>1, NoIntentAssumption DEF IdsInv, ApprovalHolds
    <3>3. id = 0
      BY <1>4, <1>10, <3>1, <3>2
    <3>4. ~InQueue(queue', id) /\ ~Holds(effect', id)
      BY <3>3 DEF InQueue, Holds
    <3>5. ~IdUsed(id)
      BY <3>3 DEF IdUsed, IdsInv, RunsOnce, Runnable
    <3>6. ~IdUsed(id)'
      BY <1>14, <3>2, <3>5
    <3> QED BY <2>3, <3>4, <3>6
  <2> QED BY <2>1, <2>4, <2>5
<1>20. ApprovalHolds'
  BY <1>1, <1>18, <1>19 DEF ApprovalHolds
<1>21. RunsOnce'
  <2>1. \A i \in Allowed : Mutates(i) => ~IdUsed(i.id)
    BY <1>7, IdTypes DEF IdsInv, HeldOnce
  <2>2. /\ \A i \in Allowed : Mutates(i) => \A j \in issued : Mutates(j) => j.id # i.id
        /\ \A i \in Allowed : Mutates(i) => \A k \in 1 .. Len(ran) : ran[k].id # i.id
    BY <2>1 DEF IdUsed
  <2>3. \A i \in issued' : Mutates(i) => Runnable(i) /\ i.id < Newest
    BY <1>1, <1>7 DEF IdsInv, RunsOnce
  <2>4. \A i, j \in issued' : Mutates(i) /\ Mutates(j) /\ i.id = j.id => i = j
    BY <1>1, <1>8, <2>2 DEF IdsInv, RunsOnce
  <2>5. \A k \in 1 .. Len(ran) : \A i \in issued' : Mutates(i) => i.id # ran[k].id
    BY <1>1, <2>2 DEF IdsInv, RunsOnce
  <2> QED BY <1>2, <2>3, <2>4, <2>5 DEF IdsInv, RunsOnce
<1> QED
  BY <1>15, <1>16, <1>17, <1>20, <1>21 DEF IdsInv

LEMMA IdsEvaluateIntent == IInv /\ IInv' /\ IdsInv /\ EvaluateIntent => IdsInv'
<1> SUFFICES ASSUME IInv, IInv', IdsInv, EvaluateIntent PROVE IdsInv'
  OBVIOUS
<1> DEFINE intent == effect.intents[1]
<1>1. /\ effect.type = "EVALUATE_INTENT" /\ effect.intents \in Seq(Intents)
      /\ Len(effect.intents) = 1 /\ intent \in Intents
  <2>1. effect.intents \in Seq(Intents)
    BY IdTypes DEF Effects
  <2> QED BY <2>1, ElementOfSeq DEF EvaluateIntent
<1>2. ran' = ran /\ effect \in Effects
  BY IdTypes DEF EvaluateIntent, ghostVars
<1>3. CASE PrepareThrows(intent, record.reads)
  BY <1>3, IdsOutcome DEF EvaluateIntent, gatewayVars, ghostVars
<1>4. CASE ~PrepareThrows(intent, record.reads)
  <2> DEFINE s       == <<intent>>
             outcome == PolicyOutcome(intent)
  <2>1. /\ s \in Seq(Intents) /\ Len(s) = 1 /\ s[1] = intent /\ Prepare(s)
        /\ Elements(s) \subseteq Elements(effect.intents)
        /\ intent.kind # "broken"
    BY <1>1, <1>4 DEF EvaluateIntent, Elements, PrepareThrows
  <2>2. CASE NeedsPrecheck(intent)
    <3>1. /\ effect' = [effect EXCEPT !.type = "PRECHECK", !.result = outcome]
          /\ queue' = queue
      BY <1>4, <2>2 DEF EvaluateIntent
    <3>2. effect'.type = "PRECHECK" /\ effect'.result = outcome /\ effect'.intents = effect.intents
      BY <1>2, <3>1 DEF Effects
    <3>3. Unspent(effect'.type, effect'.result) => outcome = "require_approval"
      BY <3>2 DEF Unspent
    <3> HIDE DEF s, outcome
    <3>4. Unspent(effect'.type, effect'.result) =>
            \A k \in 1 .. Len(s) : PolicyOutcome(s[k]) = "allow" => ~Mutates(s[k])
      BY <2>1, <3>3 DEF outcome
    <3>5. /\ \A j, k \in 1 .. Len(s) : Mutates(s[j]) /\ Mutates(s[k]) => j = k
          /\ s[Len(s)].kind # "broken" /\ Len(s) \in {1, 2}
      BY <2>1
    <3>6. PICK x : x = effect'
      OBVIOUS
    <3>7. /\ x.intents \in Seq(Intents) /\ Elements(x.intents) \subseteq Elements(effect.intents)
          /\ (Unspent(x.type, x.result) =>
                \A k \in 1 .. Len(s) : PolicyOutcome(s[k]) = "allow" => ~Mutates(s[k]))
          /\ x = effect' /\ queue' = queue /\ effect'.type = "PRECHECK"
      BY <1>1, <3>1, <3>2, <3>4, <3>6
    <3> QED BY <1>1, <1>2, <2>1, <3>5, <3>7, IdsEvaluated
  <2>3. CASE ~NeedsPrecheck(intent)
    <3> DEFINE m == PolicyDecided(<<intent>>, outcome)
    <3>1. queue' = Append(queue, m) /\ effect' = NoEffect
      BY <1>4, <2>3 DEF EvaluateIntent, Enqueue
    <3>2. m \in Messages
      BY <2>1, PolicyMessage, PolicyOutcomeType
    <3>3. m.type = "POLICY_DECIDED" /\ m.result = outcome /\ m.intents = s
      BY DEF PolicyDecided, Command
    <3>4. Unspent(m.type, m.result) => outcome = "require_approval"
      BY <3>3 DEF Unspent
    <3> HIDE DEF s, outcome, m
    <3>5. Unspent(m.type, m.result) =>
            \A k \in 1 .. Len(s) : PolicyOutcome(s[k]) = "allow" => ~Mutates(s[k])
      BY <2>1, <3>4 DEF outcome
    <3> QED BY <1>1, <1>2, <2>1, <3>1, <3>2, <3>3, <3>5, IdsEvaluated
  <2> QED BY <2>2, <2>3
<1> QED
  BY <1>3, <1>4

LEMMA IdsEvaluateReadBundle == IInv /\ IInv' /\ IdsInv /\ EvaluateReadBundle => IdsInv'
<1> SUFFICES ASSUME IInv, IInv', IdsInv, EvaluateReadBundle PROVE IdsInv'
  OBVIOUS
<1> DEFINE a == effect.intents[1]
           b == effect.intents[2]
           unsafe == IF ParallelSafe(a) THEN b ELSE a
<1>1. /\ effect.type = "EVALUATE_INTENT" /\ effect.intents \in Seq(Intents)
      /\ Len(effect.intents) = 2 /\ a \in Intents /\ b \in Intents
      /\ a \in Elements(effect.intents) /\ b \in Elements(effect.intents)
  <2>1. effect.intents \in Seq(Intents)
    BY IdTypes DEF Effects
  <2> QED BY <2>1, ElementOfSeq DEF EvaluateReadBundle, Elements
<1>2. ran' = ran
  BY DEF EvaluateReadBundle, ghostVars
<1>3. CASE Throw /\ UNCHANGED <<record, gatewayVars>>
  BY <1>2, <1>3, IdsOutcome DEF gatewayVars
<1>4. ASSUME NEW i \in {a, b}, Prepare(<<i>>), Enqueue(PolicyDecided(<<i>>, PolicyOutcome(i))),
             i.kind # "broken"
      PROVE  IdsInv'
  <2> DEFINE s == <<i>>
             m == PolicyDecided(<<i>>, PolicyOutcome(i))
  <2>1. /\ s \in Seq(Intents) /\ Len(s) = 1 /\ s[1] = i /\ Prepare(s)
        /\ Elements(s) \subseteq Elements(effect.intents)
    BY <1>1, <1>4 DEF Elements
  <2>2. m \in Messages /\ queue' = Append(queue, m) /\ effect' = NoEffect
    BY <1>4, <2>1, PolicyMessage, PolicyOutcomeType DEF Enqueue
  <2>3. m.type = "POLICY_DECIDED" /\ m.result = PolicyOutcome(i) /\ m.intents = s
    BY DEF PolicyDecided, Command
  <2>4. Unspent(m.type, m.result) => PolicyOutcome(i) = "require_approval"
    BY <2>3 DEF Unspent
  <2> HIDE DEF s, m
  <2>5. Unspent(m.type, m.result) =>
          \A k \in 1 .. Len(s) : PolicyOutcome(s[k]) = "allow" => ~Mutates(s[k])
    BY <2>1, <2>4
  <2>6. /\ \A j, k \in 1 .. Len(s) : Mutates(s[j]) /\ Mutates(s[k]) => j = k
        /\ s[Len(s)].kind # "broken" /\ Len(s) \in {1, 2}
    BY <1>4, <2>1
  <2>7. m.intents \in Seq(Intents) /\ Elements(m.intents) \subseteq Elements(effect.intents)
    BY <2>1, <2>3
  <2> QED BY <1>1, <1>2, <2>1, <2>2, <2>5, <2>6, <2>7, IdsEvaluated
<1>5. ASSUME a.kind = "read", b.kind # "broken", ParallelSafe(b), Prepare(<<a, b>>),
             \/ Enqueue(PolicyDecided(<<b>>, PolicyOutcome(b)))
             \/ Enqueue(PolicyDecided(<<a, b>>, "allow"))
      PROVE  IdsInv'
  <2> DEFINE s == <<a, b>>
  <2>1. /\ s \in Seq(Intents) /\ Len(s) = 2 /\ s[1] = a /\ s[2] = b /\ Prepare(s)
        /\ Elements(s) \subseteq Elements(effect.intents)
        /\ ~Mutates(a) /\ ~Mutates(b)
    BY <1>1, <1>5 DEF Elements, Mutates, ParallelSafe
  <2>2. PICK m \in {PolicyDecided(<<b>>, PolicyOutcome(b)), PolicyDecided(<<a, b>>, "allow")} :
               Enqueue(m)
    BY <1>5
  <2>3. m.intents \in {<<b>>, <<a, b>>}
    BY <2>2 DEF PolicyDecided, Command
  <2>4. /\ m.intents \in Seq(Intents) /\ Elements(m.intents) \subseteq Elements(effect.intents)
        /\ m \in Messages
    <3>1. <<b>> \in Seq(Intents) /\ Len(<<b>>) = 1 /\ "allow" \in DOMAIN PolicyTarget
      BY <1>1 DEF PolicyTarget
    <3>2. m \in Messages
      BY <2>1, <2>2, <3>1, PolicyMessage, PolicyOutcomeType
    <3>3. Elements(<<b>>) \subseteq Elements(effect.intents)
      BY <1>1 DEF Elements
    <3> QED BY <2>1, <2>3, <3>1, <3>2, <3>3
  <2>5. queue' = Append(queue, m) /\ effect' = NoEffect
    BY <2>2 DEF Enqueue
  <2> HIDE DEF s
  <2>6. \A k \in 1 .. Len(s) : ~Mutates(s[k])
    BY <2>1
  <2>7. s[Len(s)].kind # "broken"
    BY <1>5, <2>1
  <2> QED BY <1>1, <1>2, <2>1, <2>4, <2>5, <2>6, <2>7, IdsEvaluated
<1> HIDE DEF a, b
<1>6. CASE ~ParallelSafe(a) \/ ~ParallelSafe(b)
  <2>1. \/ Throw /\ UNCHANGED <<record, gatewayVars>>
        \/ /\ Prepare(<<unsafe>>) /\ Enqueue(PolicyDecided(<<unsafe>>, PolicyOutcome(unsafe)))
           /\ ~PrepareThrows(unsafe, record.reads)
    BY <1>6 DEF EvaluateReadBundle, a, b
  <2>2. unsafe \in {a, b} /\ (~PrepareThrows(unsafe, record.reads) => unsafe.kind # "broken")
    BY DEF PrepareThrows
  <2> HIDE DEF unsafe
  <2> QED BY <1>3, <1>4, <2>1, <2>2
<1>7. CASE ParallelSafe(a) /\ ParallelSafe(b)
  <2>1. \/ Throw /\ UNCHANGED <<record, gatewayVars>>
        \/ /\ ~PrepareThrows(a, record.reads)
           /\ Prepare(<<a>>) /\ Enqueue(PolicyDecided(<<a>>, PolicyOutcome(a)))
        \/ /\ a.kind = "read" /\ ~PrepareThrows(b, record.reads + 1) /\ Prepare(<<a, b>>)
           /\ \/ Enqueue(PolicyDecided(<<b>>, PolicyOutcome(b)))
              \/ Enqueue(PolicyDecided(<<a, b>>, "allow"))
    BY <1>7 DEF EvaluateReadBundle, a, b
  <2>2. /\ ~PrepareThrows(a, record.reads) => a.kind # "broken"
        /\ ~PrepareThrows(b, record.reads + 1) => b.kind # "broken"
    BY DEF PrepareThrows
  <2> QED BY <1>3, <1>4, <1>5, <1>7, <2>1, <2>2
<1> QED
  BY <1>6, <1>7

\* An approval of a change turns its id into a capability's.
LEMMA IdsApprove == ASSUME NEW forTask \in BOOLEAN
                    PROVE  IInv /\ IInv' /\ IdsInv /\ Approve(forTask) => IdsInv'
<1> SUFFICES ASSUME IInv, IInv', IdsInv, Approve(forTask) PROVE IdsInv'
  OBVIOUS
<1> DEFINE intent == entry.intent
<1>1. /\ intent \in Intents /\ intent.id \in Ids /\ ApprovalShown /\ entry \in Entries
      /\ entry.state = "live" /\ record.approval = intent
  BY ShownIntent, IdTypes DEF Approve, ApprovalShown
<1>2. /\ entry' = Resolved(entry) /\ entry'.state = "resolved"
      /\ UNCHANGED <<record, effect, ran>> /\ Newest' = Newest
  BY <1>1 DEF Approve, Resolved, Entries, NoEntry, Newest
<1>3. PICK m \in Messages : ~Unspent(m.type, m.result) /\ queue' = Append(queue, m)
  <2>1. <<intent>> \in Seq(Intents) /\ Len(<<intent>>) = 1 /\ 0 \in Ids
    BY <1>1, BudgetAssumption DEF Ids
  <2>2. UserCommand("HANDOFF_APPROVED", <<intent>>, "none") \in Messages
    BY <2>1, CommandInMessages DEF PlainTarget, CommandResults
  <2>3. UserCommand("APPROVAL_RESOLVED", <<intent>>, "approve") \in Messages
    BY <2>1 DEF UserCommand, Messages, Commands, CommandTypes, CommandResults, WellFormed,
                Carries, ApprovalTarget
  <2>4. \/ Answer("HANDOFF_APPROVED", <<intent>>, "none", "user")
        \/ Answer("APPROVAL_RESOLVED", <<intent>>, "approve", "user")
    BY DEF Approve
  <2>5. CASE Answer("HANDOFF_APPROVED", <<intent>>, "none", "user")
    BY <2>2, <2>5 DEF Answer, UserCommand, Unspent
  <2>6. CASE Answer("APPROVAL_RESOLVED", <<intent>>, "approve", "user")
    BY <2>3, <2>6 DEF Answer, UserCommand, Unspent
  <2> QED BY <2>4, <2>5, <2>6
<1>4. CASE issued' = issued
  <2>1. \/ effect'.type \in {"NONE", "EXECUTING", "RUN_CHECKS"}
        \/ /\ effect'.type = effect.type /\ effect'.intents = effect.intents
           /\ effect'.result = effect.result
    BY <1>2
  <2> QED BY <1>2, <1>3, <1>4, <2>1, IdsPlain
<1>5. CASE issued' = issued \cup {intent} /\ intent.kind # "interactive"
  <2>1. /\ queue \in Seq(Messages) /\ Newest \in Nat /\ Disjoint(queue) /\ QueueFit(queue, Newest)
    BY IdTypes DEF IdsInv, HeldOnce, HoldersFit
  <2>2. (\A id \in Ids : ~Holds(m, id)) /\ HolderFit(m, Newest)
    BY <1>3 DEF Holds, HolderFit
  <2>3. /\ \A id \in Ids : InQueue(queue', id) => InQueue(queue, id)
        /\ \A id \in Ids : InQueueUnrevised(queue', id) => InQueueUnrevised(queue, id)
        /\ Disjoint(queue') /\ QueueFit(queue', Newest)
    BY <1>3, <2>1, <2>2, QueueGrows
  <2>4. /\ ~InQueue(queue, intent.id) /\ ~Holds(effect, intent.id) /\ ~IdUsed(intent.id)
        /\ Fit(intent, Newest) /\ Askable(intent)
    BY <1>1 DEF IdsInv, ApprovalHolds, EntryFits
  <2>5. Mutates(intent) => Runnable(intent) /\ intent.id < Newest
    BY <1>5, <2>4 DEF Mutates, Runnable, Askable, Fit, CheckKinds
  <2> HIDE DEF intent
  <2>6. \A id : IdUsed(id)' => IdUsed(id) \/ (Mutates(intent) /\ id = intent.id)
    BY <1>2, <1>5 DEF IdUsed
  <2>7. HoldersFit' /\ EntryFits'
    BY <1>2, <2>3 DEF IdsInv, HoldersFit, EntryFits
  <2>8. HeldOnce'
    BY <1>2, <2>3, <2>4, <2>6 DEF IdsInv, HeldOnce
  <2>9. ApprovalHolds'
    <3>1. ~ApprovalShown' /\ record.approval.id \in Ids
      BY <1>1, <1>2 DEF ApprovalShown
    <3> QED BY <1>2, <2>3, <3>1 DEF IdsInv, ApprovalHolds
  <2>10. RunsOnce'
    <3>1. Mutates(intent) => /\ \A j \in issued : Mutates(j) => j.id # intent.id
                             /\ \A k \in 1 .. Len(ran) : ran[k].id # intent.id
      BY <2>4 DEF IdUsed
    <3>2. \A i \in issued' : Mutates(i) => Runnable(i) /\ i.id < Newest
      BY <1>5, <2>5 DEF IdsInv, RunsOnce
    <3>3. \A i, j \in issued' : Mutates(i) /\ Mutates(j) /\ i.id = j.id => i = j
      BY <1>5, <3>1 DEF IdsInv, RunsOnce
    <3>4. \A k \in 1 .. Len(ran) : \A i \in issued' : Mutates(i) => i.id # ran[k].id
      BY <1>5, <3>1 DEF IdsInv, RunsOnce
    <3> QED BY <1>2, <3>2, <3>3, <3>4 DEF IdsInv, RunsOnce
  <2> QED BY <2>7, <2>8, <2>9, <2>10 DEF IdsInv
<1> QED
  BY <1>4, <1>5 DEF Approve

\* A run takes the id over from the capability it consumes.
LEMMA IdsExecuteIntent == IInv /\ IInv' /\ IdsInv /\ ExecuteIntent => IdsInv'
<1> SUFFICES ASSUME IInv, IInv', IdsInv, ExecuteIntent PROVE IdsInv'
  OBVIOUS
<1> DEFINE intent == effect.intents[1]
<1>1. UNCHANGED <<record, entry>> /\ effect.type = "EXECUTE_INTENT" /\ effect \in Effects
  BY IdTypes DEF ExecuteIntent
<1>2. CASE Throw /\ UNCHANGED <<issued, ghostVars>>
  BY <1>1, <1>2, IdsOutcome DEF ghostVars
<1>3. CASE /\ issued' = issued \ Elements(effect.intents) /\ queue' = queue
           /\ effect' = [effect EXCEPT !.type = "EXECUTING", !.doomed = (signal = "aborted")]
           /\ ran' = ran
  <2>1. effect'.type = "EXECUTING"
    BY <1>1, <1>3 DEF Effects
  <2> QED BY <1>1, <1>3, <2>1, IdsPlain
<1>4. CASE /\ Elements(effect.intents) \subseteq issued
           /\ issued' = issued \ Elements(effect.intents) /\ queue' = queue
           /\ effect' = [effect EXCEPT !.type = "EXECUTING", !.doomed = (signal = "aborted")]
           /\ ran' = Append(ran, intent) /\ Mutates(intent)
  <2>1. effect'.type = "EXECUTING" /\ Newest' = Newest
    BY <1>1, <1>4 DEF Effects, Newest
  <2>2. Carries(effect) /\ intent \in Elements(effect.intents)
    BY <1>1 DEF IInv, EffectFits, Carries, Elements
  <2>3. intent \in issued /\ intent \notin issued' /\ issued' \subseteq issued /\ intent \in Intents
    BY <1>4, <2>2, IdTypes
  <2> HIDE DEF intent
  <2>4. /\ Len(ran) \in Nat /\ Len(ran') = Len(ran) + 1 /\ ran'[Len(ran) + 1] = intent
        /\ \A k \in 1 .. Len(ran) : ran'[k] = ran[k]
    BY <1>4, <2>3, IdTypes, AppendElements
  <2>5. \A k \in 1 .. Len(ran') : (k \in 1 .. Len(ran) /\ ran'[k] = ran[k])
                                  \/ (k = Len(ran) + 1 /\ ran'[k] = intent)
    BY <2>4
  <2>6. \A id : IdUsed(id)' => IdUsed(id)
    BY <1>4, <2>3, <2>5 DEF IdUsed
  <2>7. (\A id \in Ids : ~Holds(effect', id)) /\ HolderFit(effect', Newest')
    BY <2>1 DEF Holds, HolderFit, Unspent
  <2>8. HoldersFit' /\ EntryFits'
    BY <1>1, <1>4, <2>1, <2>7 DEF IdsInv, HoldersFit, EntryFits
  <2>9. HeldOnce'
    BY <1>4, <2>6, <2>7 DEF IdsInv, HeldOnce
  <2>10. ApprovalHolds'
    <3>1. ApprovalShown' => ApprovalShown
      BY <1>1 DEF ApprovalShown
    <3>2. /\ entry.state = "live" => entry.intent.id \in Ids
          /\ record.approval # NoIntent => record.approval.id \in Ids
      BY IdTypes DEF Entries, NoEntry, Records
    <3> QED BY <1>1, <1>4, <2>6, <2>7, <3>1, <3>2 DEF IdsInv, ApprovalHolds, ApprovalShown
  <2>11. RunsOnce'
    <3>1. Runnable(intent) /\ intent.id < Newest
      BY <1>4, <2>3 DEF IdsInv, RunsOnce, intent
    <3>2. \A i \in issued' : Mutates(i) => i.id # intent.id
      BY <1>4, <2>3 DEF IdsInv, RunsOnce, intent
    <3>3. \A k \in 1 .. Len(ran) : ran[k].id # intent.id
      BY <1>4, <2>3 DEF IdsInv, RunsOnce, intent
    <3>4. \A k \in 1 .. Len(ran') : Runnable(ran'[k]) /\ ran'[k].id < Newest
      BY <2>5, <3>1 DEF IdsInv, RunsOnce
    <3>5. \A k \in 1 .. Len(ran') : \A i \in issued' : Mutates(i) => i.id # ran'[k].id
      BY <2>3, <2>5, <3>2 DEF IdsInv, RunsOnce
    <3>6. \A j, k \in 1 .. Len(ran') : ran'[j].id = ran'[k].id => j = k
      BY <2>5, <3>3 DEF IdsInv, RunsOnce
    <3>7. /\ \A i \in issued' : Mutates(i) => Runnable(i) /\ i.id < Newest
          /\ \A i, j \in issued' : Mutates(i) /\ Mutates(j) /\ i.id = j.id => i = j
      BY <2>3 DEF IdsInv, RunsOnce
    <3> QED BY <2>1, <3>4, <3>5, <3>6, <3>7 DEF RunsOnce
  <2> QED BY <2>8, <2>9, <2>10, <2>11 DEF IdsInv
<1> QED
  BY <1>2, <1>3, <1>4 DEF ExecuteIntent, ghostVars

LEMMA IdsRestart == IInv /\ IInv' /\ IdsInv /\ Restart => IdsInv'
<1> SUFFICES ASSUME IInv, IInv', IdsInv, Restart PROVE IdsInv'
  OBVIOUS
<1>1. /\ queue' = <<>> /\ effect' = NoEffect /\ entry' = NoEntry /\ issued' = {} /\ ran' = ran
  BY DEF Restart
<1>2. record'.approval = NoIntent /\ record'.steps = record.steps
  <2>1. Retained(record) \in Records /\ record \in Records
    BY IdTypes, RetainedType
  <2>2. Retained(record).steps = record.steps
    BY <2>1 DEF Retained, Records
  <2> QED BY <2>1, <2>2 DEF Restart, Records
<1>3. record.steps \in Nat /\ Newest \in Nat /\ Newest' \in Nat /\ Newest' >= Newest
  BY <1>1, <1>2, IdTypes, NewestType DEF Newest, NoEffect
<1>4. HoldersFit'
  BY <1>1, <1>2 DEF HoldersFit, QueueFit, HolderFit, Unspent, NoEffect
<1>5. EntryFits' /\ ~ApprovalShown'
  BY <1>1 DEF EntryFits, NoEntry, ApprovalShown
<1>6. HeldOnce'
  BY <1>1 DEF HeldOnce, Disjoint, InQueue, Holds, Unspent, NoEffect
<1>7. ApprovalHolds'
  BY <1>2, <1>5 DEF ApprovalHolds
<1>8. RunsOnce'
  <2>1. \A k \in 1 .. Len(ran) : ran[k].id \in Nat
    BY IdTypes
  <2>2. \A k \in 1 .. Len(ran) : ran[k].id < Newest => ran[k].id < Newest'
    BY <1>3, <2>1
  <2> QED BY <1>1, <2>2 DEF IdsInv, RunsOnce
<1> QED
  BY <1>4, <1>5, <1>6, <1>7, <1>8 DEF IdsInv

LEMMA IdsInit == Init => IdsInv
<1> SUFFICES ASSUME Init PROVE IdsInv
  OBVIOUS
<1>1. /\ queue = <<Command("OBJECTIVE_READY", <<>>, "none")>> /\ Len(queue) = 1
      /\ ~Unspent(queue[1].type, queue[1].result)
  BY DEF Init, Command, Unspent
<1>2. /\ effect = NoEffect /\ entry = NoEntry /\ issued = {} /\ ran = <<>>
      /\ record.approval = NoIntent
  BY DEF Init, InitialRecord
<1>3. HoldersFit /\ EntryFits /\ ~ApprovalShown
  BY <1>1, <1>2 DEF HoldersFit, QueueFit, HolderFit, Unspent, NoEffect, EntryFits, NoEntry,
                    ApprovalShown
<1>4. HeldOnce
  BY <1>1, <1>2 DEF HeldOnce, Disjoint, InQueue, Holds, Unspent, NoEffect
<1>5. ApprovalHolds /\ RunsOnce
  BY <1>2, <1>3 DEF ApprovalHolds, RunsOnce
<1> QED
  BY <1>3, <1>4, <1>5 DEF IdsInv

LEMMA IdsStep == IInv /\ IInv' /\ IdsInv /\ [Next]_vars => IdsInv'
<1>1. IInv /\ IInv' /\ IdsInv /\ Worker => IdsInv'
  BY IdsDrop, IdsAccept, IdsRunHarness, IdsHarnessTurn, IdsEvaluateIntent, IdsPrecheck,
     IdsEvaluateReadBundle, IdsExecuteIntent, IdsEffects, IdsEvaluateProgress DEF Worker
<1>2. IInv /\ IInv' /\ IdsInv /\ User => IdsInv'
  BY IdsControls, IdsApprove, IdsRevise DEF User
<1> QED
  BY <1>1, <1>2, IdsControls, IdsRestart DEF Next

LEMMA IdsInvariance == Spec => []IdsInv
<1>1. Init => IdsInv
  BY IdsInit
<1>2. IInv /\ IInv' /\ IdsInv /\ [Next]_vars => IdsInv'
  BY IdsStep
<1>3. Spec => []IInv
  BY Invariance
<1> QED
  BY <1>1, <1>2, <1>3, PTL DEF Spec

\* No invocation changes the host twice (gateway.js execute, approval-manager.js
\* resolve, nextInvocationId), whatever the user revises, approves and resumes,
\* however many resumes are under way, and wherever the application crashes.
THEOREM ChangesRunAtMostOnce == Spec => []ChangesRunOnce
<1>1. IdsInv => ChangesRunOnce
  BY DEF IdsInv, RunsOnce, ChangesRunOnce
<1> QED
  BY <1>1, IdsInvariance, PTL

-----------------------------------------------------------------------------
(* One thread.  When resumes do not overlap, one command or effect at a time  *)
(* carries the task on; beside it the mailbox holds only pauses and cancels.  *)

Stops == {"PAUSE", "CANCEL"}
IsStop(m) == m.type \in Stops /\ m.origin = "user"
IsStopped(status) == status = "paused" \/ IsTerminalStatus(status)

\* The status in which an effect runs.
StatusOfEffect ==
  [RUN_HARNESS |-> "planning", HARNESS_TURN |-> "planning",
   EVALUATE_INTENT |-> "policy_check", PRECHECK |-> "policy_check",
   EXECUTE_INTENT |-> "executing", EXECUTING |-> "executing",
   BUILD_OBSERVATION |-> "observing", REDUCE_CONTEXT |-> "reducing",
   EVALUATE_PROGRESS |-> "evaluating", RUN_MUTATION_VERIFICATION |-> "verifying",
   RUN_CHECKS |-> "verifying", VERIFY_COMPLETION |-> "verifying"]

\* The status in which a command is pushed, where there is only one.
SourceOf ==
  [OBJECTIVE_READY |-> "intake", PLANNER_DECISION |-> "planning",
   POLICY_DECIDED |-> "policy_check", APPROVAL_RESOLVED |-> "awaiting_approval",
   APPROVAL_REVISED |-> "awaiting_approval", HANDOFF_APPROVED |-> "awaiting_approval",
   EXECUTION_FINISHED |-> "executing", OBSERVATION_READY |-> "observing",
   CONTEXT_REDUCED |-> "reducing", FOLLOW_UP_PROPOSED |-> "evaluating",
   CONTINUE_PLANNING |-> "evaluating", MUTATION_VERIFIED |-> "verifying",
   COMPLETE |-> "verifying", RESUME |-> "paused"]

Fresh(type, status) == type \in DOMAIN SourceOf => status = SourceOf[type]

\* Two commands lead from "paused" to "planning" without being a resume.
Replans(type) == type \in {"OBJECTIVE_READY", "CONTINUE_PLANNING"}

Fits(type, status) ==
  \/ Fresh(type, status)
  \/ IsTerminalStatus(status)
  \/ status = "paused" /\ ~Replans(type)

Line(q, status) ==
  /\ \A k \in 1 .. Len(q) : k # Len(q) => IsStop(q[k])
  /\ \A k \in 1 .. Len(q) : Fits(q[k].type, status)
  /\ \A k \in 1 .. Len(q) : Replans(q[k].type) => Len(q) = 1

Working(q, e, status) ==
  e.type # "NONE" =>
    /\ status = StatusOfEffect[e.type]
    /\ \A k \in 1 .. Len(q) : IsStop(q[k])
    /\ e.type \notin AwaitEffects => q = <<>>

Resumes ==
  /\ resuming > 0 => resuming = 1 /\ IsStopped(record.status)
  /\ ~IsTerminalStatus(record.status) =>
       \A k \in 1 .. Len(queue) : queue[k].type = "RESUME" => resuming = 0 /\ ~resourcesRevoked

Approvals ==
  /\ record.approval # NoIntent /\ ~IsTerminalStatus(record.status) =>
       /\ record.status \in {"awaiting_approval", "paused"}
       /\ record.invocation = record.approval
  /\ timer => record.status = "awaiting_approval"

Inert ==
  /\ IsStopped(record.status) =>
       issued = {} /\ grants = {} /\ entry.state # "live" /\ signal # "live"
  /\ resourcesRevoked => IsStopped(record.status)

ThreadInv ==
  /\ Line(queue, record.status) /\ Working(queue, effect, record.status)
  /\ Resumes /\ Approvals /\ Inert

LEMMA RunningIsNotStopped ==
  ASSUME IInv, ThreadInv, effect.type # "NONE"
  PROVE  /\ ~IsStopped(record.status) /\ record.status # "awaiting_approval"
         /\ resuming = 0 /\ ~resourcesRevoked /\ ~timer
         /\ record.approval = NoIntent
<1>1. effect.type \in DOMAIN StatusOfEffect /\ record.status = StatusOfEffect[effect.type]
  BY DEF IInv, TypeOK, Effects, EffectTypes, StatusOfEffect, ThreadInv, Working
<1>2. ~IsStopped(record.status) /\ record.status # "awaiting_approval"
  BY <1>1 DEF StatusOfEffect, IsStopped, IsTerminalStatus, TerminalStatuses
<1>3. resuming \in Nat
  BY DEF IInv, TypeOK
<1> QED
  BY <1>2, <1>3 DEF ThreadInv, Resumes, Approvals, Inert, IsStopped

LEMMA LineGrows ==
  ASSUME NEW q \in Seq(Messages), NEW m \in Messages, NEW status, Line(q, status),
         \A k \in 1 .. Len(q) : IsStop(q[k]),
         Fits(m.type, status), Replans(m.type) => q = <<>>
  PROVE  Line(Append(q, m), status)
<1> DEFINE more == Append(q, m)
<1>1. /\ Len(q) \in Nat /\ Len(more) = Len(q) + 1 /\ more[Len(q) + 1] = m
      /\ \A k \in 1 .. Len(q) : more[k] = q[k]
  BY AppendElements
<1> HIDE DEF more
<1>2. ASSUME NEW k \in 1 .. Len(more)
      PROVE  \/ k \in 1 .. Len(q) /\ more[k] = q[k]
             \/ k = Len(q) + 1 /\ more[k] = m
  BY <1>1
<1>3. \A k \in 1 .. Len(q) : ~Replans(q[k].type)
  BY DEF IsStop, Stops, Replans
<1>4. q = <<>> => Len(more) = 1
  BY <1>1, EmptySeq
<1>5. \A k \in 1 .. Len(more) : k # Len(more) => IsStop(more[k])
  BY <1>1, <1>2
<1>6. \A k \in 1 .. Len(more) : Fits(more[k].type, status)
  BY <1>2 DEF Line
<1>7. \A k \in 1 .. Len(more) : Replans(more[k].type) => Len(more) = 1
  BY <1>2, <1>3, <1>4
<1> QED
  BY <1>5, <1>6, <1>7 DEF Line, more

LEMMA TypeInQueue ==
  ASSUME NEW q \in Seq(Messages), NEW m \in Messages, NEW k \in 1 .. Len(Append(q, m))
  PROVE  \/ k \in 1 .. Len(q) /\ Append(q, m)[k] = q[k]
         \/ k = Len(q) + 1 /\ Append(q, m)[k] = m
  BY AppendElements

\* The outcome of an effect: it goes on as a fresh command, or not at all.
LEMMA ThreadOutcome ==
  ASSUME IInv, ThreadInv, effect.type # "NONE", effect'.type = "NONE",
         NEW m \in Messages, queue' = queue \/ queue' = Append(queue, m),
         Fresh(m.type, record.status),
         Replans(m.type) => effect.type \notin AwaitEffects,
         record'.status = record.status, record'.approval = record.approval,
         record'.invocation = record.invocation,
         UNCHANGED <<timer, resuming, resourcesRevoked>>
  PROVE  ThreadInv'
<1>1. /\ ~IsStopped(record.status) /\ resuming = 0 /\ ~resourcesRevoked
      /\ record.status # "paused"
  BY RunningIsNotStopped DEF IsStopped
<1>2. queue \in Seq(Messages)
  BY DEF IInv
<1>3. Line(queue', record.status)
  <2>1. Replans(m.type) => queue = <<>>
    BY DEF ThreadInv, Working
  <2>2. \A k \in 1 .. Len(queue) : IsStop(queue[k])
    BY DEF ThreadInv, Working
  <2>3. Line(queue, record.status) /\ Fits(m.type, record.status)
    BY DEF ThreadInv, Fits
  <2> QED BY <1>2, <2>1, <2>2, <2>3, LineGrows
<1>4. Working(queue', effect', record.status)
  BY DEF Working
<1>5. Resumes'
  BY <1>1 DEF Resumes
<1>6. Approvals'
  BY DEF ThreadInv, Approvals
<1>7. Inert'
  BY <1>1 DEF Inert
<1> QED
  BY <1>3, <1>4, <1>5, <1>6, <1>7 DEF ThreadInv

\* An effect goes on in the same status; a pause or a cancel may be pushed.
LEMMA ThreadGoesOn ==
  ASSUME IInv, ThreadInv, effect.type # "NONE", effect'.type \in AwaitEffects,
         StatusOfEffect[effect'.type] = StatusOfEffect[effect.type],
         \/ queue' = queue
         \/ \E m \in Messages : IsStop(m) /\ queue' = Append(queue, m),
         record'.status = record.status, record'.approval = record.approval,
         record'.invocation = record.invocation,
         UNCHANGED <<timer, resuming, resourcesRevoked>>
  PROVE  ThreadInv'
<1>1. /\ ~IsStopped(record.status) /\ resuming = 0 /\ ~resourcesRevoked
  BY RunningIsNotStopped DEF IsStopped
<1>2. queue \in Seq(Messages)
  BY DEF IInv
<1>3. /\ \A k \in 1 .. Len(queue) : IsStop(queue[k])
      /\ record.status = StatusOfEffect[effect.type]
      /\ Line(queue, record.status)
  BY DEF ThreadInv, Working
<1>4. Line(queue', record.status) /\ \A k \in 1 .. Len(queue') : IsStop(queue'[k])
  <2>1. CASE queue' = queue
    BY <1>3, <2>1
  <2>2. ASSUME NEW m \in Messages, IsStop(m), queue' = Append(queue, m)
        PROVE  Line(queue', record.status) /\ \A k \in 1 .. Len(queue') : IsStop(queue'[k])
    <3>1. Fits(m.type, record.status) /\ ~Replans(m.type)
      BY <2>2 DEF IsStop, Stops, Fits, Fresh, SourceOf, Replans
    <3>2. Line(queue', record.status)
      BY <1>2, <1>3, <2>2, <3>1, LineGrows
    <3>3. \A k \in 1 .. Len(queue') : IsStop(queue'[k])
      BY <1>2, <1>3, <2>2, TypeInQueue
    <3> QED BY <3>2, <3>3
  <2> QED BY <2>1, <2>2
<1>5. Working(queue', effect', record.status)
  BY <1>3, <1>4 DEF Working
<1>6. Resumes'
  BY <1>1 DEF Resumes
<1>7. Approvals'
  BY DEF ThreadInv, Approvals
<1>8. Inert'
  BY <1>1 DEF Inert
<1> QED
  BY <1>4, <1>5, <1>6, <1>7, <1>8 DEF ThreadInv

LEMMA AppendedIsMessage ==
  ASSUME NEW q \in Seq(Messages), NEW m, Append(q, m) \in Seq(Messages)
  PROVE  m \in Messages
<1> DEFINE S == Messages \cup {m}
<1>1. q \in Seq(S) /\ m \in S
  BY SeqMonotonic
<1> HIDE DEF S
<1>2. Len(Append(q, m)) = Len(q) + 1 /\ Len(q) \in Nat /\ Append(q, m)[Len(q) + 1] = m
  BY <1>1, AppendElements
<1>3. Append(q, m)[Len(q) + 1] \in Messages
  BY <1>2, ElementOfSeq
<1> QED
  BY <1>2, <1>3

LEMMA ThreadEnqueue ==
  ASSUME IInv, IInv', ThreadInv, effect.type # "NONE", NEW m, Enqueue(m),
         Fresh(m.type, record.status),
         Replans(m.type) => effect.type \notin AwaitEffects,
         record'.status = record.status, record'.approval = record.approval,
         record'.invocation = record.invocation,
         UNCHANGED <<timer, resuming, resourcesRevoked>>
  PROVE  ThreadInv'
<1>1. queue' = Append(queue, m) /\ effect'.type = "NONE"
  BY DEF Enqueue, NoEffect
<1>2. m \in Messages
  BY <1>1, AppendedIsMessage DEF IInv
<1> QED
  BY <1>1, <1>2, ThreadOutcome

LEMMA ThreadThrow ==
  ASSUME IInv, IInv', ThreadInv, effect.type # "NONE", Throw,
         record'.status = record.status, record'.approval = record.approval,
         record'.invocation = record.invocation,
         UNCHANGED <<timer, resuming, resourcesRevoked>>
  PROVE  ThreadInv'
<1> DEFINE m == Command("FAIL", <<>>, "none")
<1>1. m \in Messages /\ Fresh(m.type, record.status) /\ ~Replans(m.type)
  BY PlainMessage DEF Fresh, SourceOf, Replans, Command
<1>2. (queue' = queue \/ queue' = Append(queue, m)) /\ effect'.type = "NONE"
  BY DEF Throw, QueueAfterError, NoEffect
<1> HIDE DEF m
<1> QED
  BY <1>1, <1>2, ThreadOutcome

\* The status in which an effect runs, and where each command it pushes is fresh.
LEMMA EffectStatus ==
  ASSUME IInv, ThreadInv, effect.type # "NONE"
  PROVE  record.status = StatusOfEffect[effect.type]
  BY DEF ThreadInv, Working

LEMMA ThreadHarness ==
  IInv /\ IInv' /\ ThreadInv /\ (RunHarness \/ HarnessTurn) => ThreadInv'
<1> SUFFICES ASSUME IInv, IInv', ThreadInv, RunHarness \/ HarnessTurn PROVE ThreadInv'
  OBVIOUS
<1>1. effect.type # "NONE" /\ record.status = "planning"
  BY EffectStatus DEF RunHarness, HarnessTurn, StatusOfEffect
<1>2. /\ record'.status = record.status /\ record'.approval = record.approval
      /\ record'.invocation = record.invocation
      /\ UNCHANGED <<timer, resuming, resourcesRevoked>>
  <2>1. record \in Records
    BY DEF IInv, TypeOK
  <2> QED BY <2>1 DEF RunHarness, HarnessTurn, clockVars, Records
<1>3. CASE Enqueue(Command("INCONCLUSIVE", <<>>, "none"))
  BY <1>1, <1>2, <1>3, ThreadEnqueue DEF Command, Fresh, SourceOf, Replans
<1>4. CASE effect' = [effect EXCEPT !.type = "HARNESS_TURN"] /\ queue' = queue /\ RunHarness
  <2>1. effect'.type = "HARNESS_TURN" /\ effect.type = "RUN_HARNESS"
    BY <1>4 DEF IInv, TypeOK, Effects, RunHarness
  <2> QED BY <1>1, <1>2, <1>4, <2>1, ThreadGoesOn DEF AwaitEffects, StatusOfEffect
<1>5. ASSUME NEW intents, NEW result, Enqueue(Command("PLANNER_DECISION", intents, result))
      PROVE  ThreadInv'
  <2>1. Fresh("PLANNER_DECISION", record.status) /\ ~Replans("PLANNER_DECISION")
    BY <1>1 DEF Fresh, SourceOf, Replans
  <2> QED BY <1>1, <1>2, <1>5, <2>1, ThreadEnqueue DEF Command
<1>6. CASE Throw
  BY <1>1, <1>2, <1>6, ThreadThrow
<1> QED
  BY <1>3, <1>4, <1>5, <1>6 DEF RunHarness, HarnessTurn

LEMMA ThreadEvaluate ==
  IInv /\ IInv' /\ ThreadInv /\ (EvaluateIntent \/ EvaluateReadBundle \/ Precheck) => ThreadInv'
<1> SUFFICES ASSUME IInv, IInv', ThreadInv, EvaluateIntent \/ EvaluateReadBundle \/ Precheck
             PROVE  ThreadInv'
  OBVIOUS
<1>1. effect.type # "NONE" /\ record.status = "policy_check"
  BY EffectStatus DEF EvaluateIntent, EvaluateReadBundle, Precheck, StatusOfEffect
<1>2. /\ record'.status = record.status /\ record'.approval = record.approval
      /\ record'.invocation = record.invocation
      /\ UNCHANGED <<timer, resuming, resourcesRevoked>>
  <2>1. record \in Records
    BY DEF IInv, TypeOK
  <2>2. CASE EvaluateIntent
    BY <2>1, <2>2 DEF EvaluateIntent, Prepare, clockVars, Records
  <2>3. CASE EvaluateReadBundle
    <3>1. \/ UNCHANGED record
          \/ \E s : Prepare(s)
      BY <2>3 DEF EvaluateReadBundle
    <3> QED BY <2>1, <2>3, <3>1 DEF EvaluateReadBundle, Prepare, clockVars, Records
  <2>4. CASE Precheck
    BY <2>1, <2>4 DEF Precheck, clockVars, Records
  <2> QED BY <2>2, <2>3, <2>4
<1>3. ASSUME NEW intents, NEW result, Enqueue(PolicyDecided(intents, result))
      PROVE  ThreadInv'
  <2>1. Fresh("POLICY_DECIDED", record.status) /\ ~Replans("POLICY_DECIDED")
    BY <1>1 DEF Fresh, SourceOf, Replans
  <2> QED BY <1>1, <1>2, <1>3, <2>1, ThreadEnqueue DEF PolicyDecided, Command
<1>4. CASE Throw
  BY <1>1, <1>2, <1>4, ThreadThrow
<1>5. CASE effect'.type = "PRECHECK" /\ effect.type = "EVALUATE_INTENT" /\ queue' = queue
  BY <1>1, <1>2, <1>5, ThreadGoesOn DEF AwaitEffects, StatusOfEffect
<1>6. CASE EvaluateIntent
  <2>1. \/ Throw
        \/ \E result : Enqueue(PolicyDecided(<<effect.intents[1]>>, result))
        \/ /\ effect' = [effect EXCEPT !.type = "PRECHECK",
                                       !.result = PolicyOutcome(effect.intents[1])]
           /\ UNCHANGED queue
    BY <1>6 DEF EvaluateIntent
  <2> QED BY <1>3, <1>4, <1>5, <1>6, <2>1 DEF EvaluateIntent, IInv, TypeOK, Effects
<1>7. CASE EvaluateReadBundle
  <2>1. Throw \/ \E intents, result : Enqueue(PolicyDecided(intents, result))
    BY <1>7 DEF EvaluateReadBundle
  <2> QED BY <1>3, <1>4, <2>1
<1>8. CASE Precheck
  BY <1>3, <1>8 DEF Precheck
<1> QED
  BY <1>6, <1>7, <1>8

LEMMA ThreadExecute ==
  IInv /\ IInv' /\ ThreadInv /\ (ExecuteIntent \/ ExecutionEnds) => ThreadInv'
<1> SUFFICES ASSUME IInv, IInv', ThreadInv, ExecuteIntent \/ ExecutionEnds PROVE ThreadInv'
  OBVIOUS
<1>1. effect.type # "NONE" /\ record.status = "executing"
  BY EffectStatus DEF ExecuteIntent, ExecutionEnds, StatusOfEffect
<1>2. /\ record'.status = record.status /\ record'.approval = record.approval
      /\ record'.invocation = record.invocation
      /\ UNCHANGED <<timer, resuming, resourcesRevoked>>
  BY DEF ExecuteIntent, ExecutionEnds, clockVars
<1>3. CASE Throw
  BY <1>1, <1>2, <1>3, ThreadThrow
<1>4. CASE /\ ExecuteIntent /\ queue' = queue
           /\ effect' = [effect EXCEPT !.type = "EXECUTING", !.doomed = (signal = "aborted")]
  <2>1. effect'.type = "EXECUTING" /\ effect.type = "EXECUTE_INTENT"
    BY <1>4 DEF IInv, TypeOK, Effects, ExecuteIntent
  <2> QED BY <1>1, <1>2, <1>4, <2>1, ThreadGoesOn DEF AwaitEffects, StatusOfEffect
<1>5. ASSUME NEW result, Enqueue(Command("EXECUTION_FINISHED", effect.intents, result))
      PROVE  ThreadInv'
  <2>1. Fresh("EXECUTION_FINISHED", record.status) /\ ~Replans("EXECUTION_FINISHED")
    BY <1>1 DEF Fresh, SourceOf, Replans
  <2> QED BY <1>1, <1>2, <1>5, <2>1, ThreadEnqueue DEF Command
<1> QED
  BY <1>3, <1>4, <1>5 DEF ExecuteIntent, ExecutionEnds

LEMMA ThreadObserve ==
  IInv /\ IInv' /\ ThreadInv /\ (BuildObservation \/ ReduceContext \/ EvaluateProgress)
    => ThreadInv'
<1> SUFFICES ASSUME IInv, IInv', ThreadInv,
                    BuildObservation \/ ReduceContext \/ EvaluateProgress
             PROVE  ThreadInv'
  OBVIOUS
<1>0. record \in Records
  BY DEF IInv, TypeOK
<1>1. effect.type # "NONE" /\ record.status = StatusOfEffect[effect.type]
  BY EffectStatus DEF BuildObservation, ReduceContext, EvaluateProgress
<1>2. CASE BuildObservation
  <2>1. /\ record'.status = record.status /\ record'.approval = record.approval
        /\ record'.invocation = record.invocation
        /\ UNCHANGED <<timer, resuming, resourcesRevoked>>
    BY <1>0, <1>2 DEF BuildObservation, CheckObserved, clockVars, Records
  <2>2. Fresh("OBSERVATION_READY", record.status) /\ ~Replans("OBSERVATION_READY")
    BY <1>1, <1>2 DEF Fresh, SourceOf, Replans, BuildObservation, StatusOfEffect
  <2>3. CASE Throw
    BY <1>1, <2>1, <2>3, ThreadThrow
  <2>4. CASE Enqueue(Command("OBSERVATION_READY", effect.intents, effect.result))
    BY <1>1, <2>1, <2>2, <2>4, ThreadEnqueue DEF Command
  <2> QED BY <1>2, <2>3, <2>4 DEF BuildObservation
<1>3. CASE ReduceContext
  <2>1. /\ record'.status = record.status /\ record'.approval = record.approval
        /\ record'.invocation = record.invocation
        /\ UNCHANGED <<timer, resuming, resourcesRevoked>>
    <3> DEFINE r == [record EXCEPT !.errors = ErrorsAfter(@, effect.result)]
    <3>1. /\ r.status = record.status /\ r.approval = record.approval
          /\ r.invocation = record.invocation /\ DOMAIN r = DOMAIN record
      BY <1>0 DEF Records
    <3>2. /\ Recorded(r).status = r.status /\ Recorded(r).approval = r.approval
          /\ Recorded(r).invocation = r.invocation
      BY <1>0 DEF Recorded, Records
    <3> QED BY <1>3, <3>1, <3>2 DEF ReduceContext, clockVars
  <2>2. Fresh("CONTEXT_REDUCED", record.status) /\ ~Replans("CONTEXT_REDUCED")
    BY <1>1, <1>3 DEF Fresh, SourceOf, Replans, ReduceContext, StatusOfEffect
  <2> QED BY <1>1, <1>3, <2>1, <2>2, ThreadEnqueue DEF ReduceContext, Command
<1>4. CASE EvaluateProgress
  <2>1. /\ record'.status = record.status /\ record'.approval = record.approval
        /\ record'.invocation = record.invocation
        /\ UNCHANGED <<timer, resuming, resourcesRevoked>>
    BY <1>4 DEF EvaluateProgress, clockVars
  <2>2. ProgressCommand.type \in {"FAIL", "INCONCLUSIVE", "CONTINUE_PLANNING", "FOLLOW_UP_PROPOSED"}
    BY DEF ProgressCommand, Command
  <2>3. Fresh(ProgressCommand.type, record.status) /\ effect.type \notin AwaitEffects
    BY <1>1, <1>4, <2>2 DEF Fresh, SourceOf, EvaluateProgress, StatusOfEffect, AwaitEffects
  <2> QED BY <1>1, <1>4, <2>1, <2>3, ThreadEnqueue DEF EvaluateProgress
<1> QED
  BY <1>2, <1>3, <1>4

LEMMA ThreadVerify ==
  IInv /\ IInv' /\ ThreadInv /\ (RunMutationVerification \/ ChecksEnd \/ VerifyCompletion)
    => ThreadInv'
<1> SUFFICES ASSUME IInv, IInv', ThreadInv,
                    RunMutationVerification \/ ChecksEnd \/ VerifyCompletion
             PROVE  ThreadInv'
  OBVIOUS
<1>0. record \in Records
  BY DEF IInv, TypeOK
<1>1. effect.type # "NONE" /\ record.status = "verifying"
  BY EffectStatus DEF RunMutationVerification, ChecksEnd, VerifyCompletion, StatusOfEffect
<1>2. /\ record'.status = record.status /\ record'.approval = record.approval
      /\ record'.invocation = record.invocation
      /\ UNCHANGED <<timer, resuming, resourcesRevoked>>
  <2>1. CASE ChecksEnd
    BY <1>0, <2>1 DEF ChecksEnd, clockVars, Records
  <2>2. CASE RunMutationVerification \/ VerifyCompletion
    BY <2>2 DEF RunMutationVerification, VerifyCompletion, clockVars
  <2> QED BY <2>1, <2>2
<1>3. CASE RunMutationVerification
  <2>1. effect'.type = "RUN_CHECKS" /\ effect.type = "RUN_MUTATION_VERIFICATION" /\ queue' = queue
    BY <1>3 DEF IInv, TypeOK, Effects, RunMutationVerification
  <2> QED BY <1>1, <1>2, <2>1, ThreadGoesOn DEF AwaitEffects, StatusOfEffect
<1>4. CASE ChecksEnd
  <2>1. Throw \/ \E id, verdict : Enqueue(Verified(id, verdict))
    BY <1>4 DEF ChecksEnd
  <2>2. Fresh("MUTATION_VERIFIED", record.status) /\ ~Replans("MUTATION_VERIFIED")
    BY <1>1 DEF Fresh, SourceOf, Replans
  <2>3. CASE Throw
    BY <1>1, <1>2, <2>3, ThreadThrow
  <2>4. ASSUME NEW id, NEW verdict, Enqueue(Verified(id, verdict)) PROVE ThreadInv'
    BY <1>1, <1>2, <2>2, <2>4, ThreadEnqueue DEF Verified
  <2> QED BY <2>1, <2>3, <2>4
<1>5. CASE VerifyCompletion
  <2>1. PICK type \in {"COMPLETE", "INCONCLUSIVE", "FAIL"} : Enqueue(Command(type, <<>>, "none"))
    BY <1>5 DEF VerifyCompletion
  <2>2. Fresh(type, record.status) /\ ~Replans(type)
    BY <1>1 DEF Fresh, SourceOf, Replans
  <2> QED BY <1>1, <1>2, <2>1, <2>2, ThreadEnqueue DEF Command
<1> QED
  BY <1>3, <1>4, <1>5

-----------------------------------------------------------------------------
(* The user and the clock: they find the worker idle or in an await. *)

\* What is idle has an empty mailbox, to which one command comes.
LEMMA ThreadPushed ==
  ASSUME IInv, IInv', ThreadInv, Idle, effect' = effect,
         NEW m, queue' = queue \/ queue' = Append(queue, m),
         Fits(m.type, record.status), m.type # "RESUME",
         UNCHANGED <<record, resuming, resourcesRevoked>>,
         timer' \in {timer, FALSE},
         IsStopped(record.status) =>
           UNCHANGED <<issued, grants>> /\ entry'.state # "live" /\ signal' # "live"
  PROVE  ThreadInv'
<1>1. queue = <<>> /\ effect'.type = "NONE"
  BY DEF Idle
<1>2. \A k \in 1 .. Len(queue') : Len(queue') = 1 /\ queue'[k] = m
  <2>1. CASE queue' = queue
    BY <1>1, <2>1
  <2>2. CASE queue' = Append(queue, m)
    BY <1>1, <2>2
  <2> QED BY <2>1, <2>2
<1>3. Line(queue', record.status)
  BY <1>2 DEF Line
<1>4. Working(queue', effect', record.status)
  BY <1>1 DEF Working
<1>5. Resumes'
  BY <1>2 DEF Resumes, ThreadInv
<1>6. Approvals'
  <2>1. timer' => timer
    OBVIOUS
  <2> QED BY <2>1 DEF Approvals, ThreadInv
<1>7. Inert'
  BY DEF Inert, ThreadInv
<1> QED
  BY <1>3, <1>4, <1>5, <1>6, <1>7 DEF ThreadInv

LEMMA ThreadControls ==
  IInv /\ IInv' /\ ThreadInv /\ (UserPause \/ UserCancel) => ThreadInv'
<1> SUFFICES ASSUME IInv, IInv', ThreadInv, UserPause \/ UserCancel PROVE ThreadInv'
  OBVIOUS
<1>1. PICK m : /\ IsStop(m)
               /\ queue' = queue \/ queue' = Append(queue, m)
               /\ m.type # "RESUME"
  <2>1. IsStop(UserCommand("PAUSE", <<>>, "none")) /\ IsStop(UserCommand("CANCEL", <<>>, "none"))
    BY DEF IsStop, Stops, UserCommand
  <2>2. \/ queue' = queue
        \/ queue' = Append(queue, UserCommand("PAUSE", <<>>, "none"))
        \/ queue' = Append(queue, UserCommand("CANCEL", <<>>, "none"))
    BY DEF UserPause, UserCancel
  <2> QED BY <2>1, <2>2 DEF IsStop, Stops
<1>2. UNCHANGED <<record, timer, resuming, resourcesRevoked, issued, grants, entry>>
  BY DEF UserPause, UserCancel, clockVars, gatewayVars
<1>3. /\ effect'.type = effect.type
      /\ effect.type = "NONE" => effect' = effect
      /\ signal # "live" => signal' # "live"
  BY DEF UserPause, UserCancel, Preempt, IInv, TypeOK, Effects
<1>4. CASE Idle
  <2>1. Fits(m.type, record.status)
    BY <1>1 DEF IsStop, Stops, Fits, Fresh, SourceOf
  <2>2. IsStopped(record.status) => entry.state # "live" /\ signal # "live"
    BY DEF ThreadInv, Inert
  <2>3. effect' = effect
    BY <1>3, <1>4 DEF Idle
  <2> QED BY <1>1, <1>2, <1>3, <1>4, <2>1, <2>2, <2>3, ThreadPushed
<1>5. CASE effect.type \in AwaitEffects
  <2>1. queue' = queue \/ \E n \in Messages : IsStop(n) /\ queue' = Append(queue, n)
    <3>1. queue' = Append(queue, m) => m \in Messages
      BY AppendedIsMessage DEF IInv
    <3> QED BY <1>1, <3>1
  <2>2. effect.type # "NONE" /\ effect'.type \in AwaitEffects
    BY <1>3, <1>5 DEF AwaitEffects
  <2> QED BY <1>2, <1>3, <2>1, <2>2, ThreadGoesOn
<1> QED
  BY <1>4, <1>5 DEF UserPause, UserCancel, Interruptible

\* An approval is shown only while the task waits for it.
LEMMA ShownIsAwaited ==
  ASSUME IInv, ThreadInv, ApprovalShown, Interruptible
  PROVE  Idle /\ record.status = "awaiting_approval" /\ record.invocation = entry.intent
         /\ record.approval = entry.intent /\ entry.intent \in Intents
<1>1. entry.intent \in Intents /\ record.approval = entry.intent /\ entry.state = "live"
  BY ShownIntent DEF ApprovalShown
<1>2. record.approval # NoIntent
  BY <1>1, NoIntentAssumption
<1>3. ~IsStopped(record.status)
  BY <1>1 DEF ThreadInv, Inert
<1>4. record.status = "awaiting_approval" /\ record.invocation = record.approval
  BY <1>2, <1>3 DEF ThreadInv, Approvals, IsStopped
<1>5. effect.type = "NONE"
  BY <1>4, RunningIsNotStopped
<1> QED
  BY <1>1, <1>4, <1>5 DEF Interruptible, AwaitEffects

LEMMA ThreadAnswers ==
  IInv /\ IInv' /\ ThreadInv /\ (\/ \E forTask \in BOOLEAN : Approve(forTask)
                                 \/ \E choice \in {"reject", "cancel_task", "expired"} : Decline(choice)
                                 \/ ReviseApproval \/ ApprovalTimerFires)
    => ThreadInv'
<1> SUFFICES ASSUME IInv, IInv', ThreadInv,
                    \/ \E forTask \in BOOLEAN : Approve(forTask)
                    \/ \E choice \in {"reject", "cancel_task", "expired"} : Decline(choice)
                    \/ ReviseApproval \/ ApprovalTimerFires
             PROVE  ThreadInv'
  OBVIOUS
<1>1. Idle /\ record.status = "awaiting_approval"
  <2>1. CASE ApprovalShown /\ Interruptible
    BY <2>1, ShownIsAwaited
  <2>2. CASE timer /\ Interruptible
    <3>1. record.status = "awaiting_approval"
      BY <2>2 DEF ThreadInv, Approvals
    <3>2. effect.type = "NONE"
      BY <3>1, RunningIsNotStopped
    <3> QED BY <2>2, <3>1, <3>2 DEF Interruptible, AwaitEffects
  <2> QED BY <2>1, <2>2 DEF Approve, Decline, ReviseApproval, ApprovalTimerFires
<1>2. ~IsStopped(record.status)
  BY <1>1 DEF IsStopped, IsTerminalStatus, TerminalStatuses
<1>3. \/ queue' = queue
      \/ \E intents, result, origin :
           \E type \in {"HANDOFF_APPROVED", "APPROVAL_RESOLVED", "APPROVAL_REVISED"} :
             Answer(type, intents, result, origin)
  <2>1. CASE \E forTask \in BOOLEAN : Approve(forTask)
    BY <2>1 DEF Approve
  <2>2. CASE \E choice \in {"reject", "cancel_task", "expired"} : Decline(choice)
    BY <2>2 DEF Decline
  <2>3. CASE ReviseApproval
    BY <2>3 DEF ReviseApproval
  <2>4. CASE ApprovalTimerFires
    BY <2>4 DEF ApprovalTimerFires
  <2> QED BY <2>1, <2>2, <2>3, <2>4
<1>4. \E m : /\ queue' = queue \/ queue' = Append(queue, m)
             /\ m.type \in {"HANDOFF_APPROVED", "APPROVAL_RESOLVED", "APPROVAL_REVISED"}
  <2>1. CASE queue' = queue
    <3>1. [type |-> "APPROVAL_RESOLVED"].type = "APPROVAL_RESOLVED"
      OBVIOUS
    <3> QED BY <2>1, <3>1
  <2>2. ASSUME NEW type \in {"HANDOFF_APPROVED", "APPROVAL_RESOLVED", "APPROVAL_REVISED"},
               NEW intents, NEW result, NEW origin, Answer(type, intents, result, origin)
        PROVE  \E m : /\ queue' = queue \/ queue' = Append(queue, m)
                      /\ m.type \in {"HANDOFF_APPROVED", "APPROVAL_RESOLVED", "APPROVAL_REVISED"}
    <3> DEFINE m == [type |-> type, origin |-> origin, intents |-> intents,
                     result |-> result, change |-> 0]
    <3>1. m.type = type /\ queue' = Append(queue, m)
      BY <2>2 DEF Answer
    <3> HIDE DEF m
    <3> QED BY <3>1
  <2> QED BY <1>3, <2>1, <2>2
<1>5. PICK m : /\ queue' = queue \/ queue' = Append(queue, m)
               /\ m.type \in {"HANDOFF_APPROVED", "APPROVAL_RESOLVED", "APPROVAL_REVISED"}
  BY <1>4
<1>6. Fits(m.type, record.status) /\ m.type # "RESUME"
  BY <1>1, <1>5 DEF Fits, Fresh, SourceOf
<1>7. /\ UNCHANGED <<record, resuming, resourcesRevoked>> /\ effect' = effect
      /\ timer' \in {timer, FALSE}
  BY DEF Approve, Decline, ReviseApproval, ApprovalTimerFires, clockVars
<1> QED
  BY <1>1, <1>2, <1>5, <1>6, <1>7, ThreadPushed

LEMMA ThreadResume ==
  ASSUME MaxResuming <= 1, IInv, IInv', ThreadInv, UserResume \/ ResumeBound
  PROVE  ThreadInv'
<1>0. resuming \in Nat /\ MaxResuming \in Nat
  BY SessionAssumption DEF IInv, TypeOK
<1>1. IsStopped(record.status) /\ Interruptible /\ (UserResume => record.status = "paused")
  BY <1>0 DEF UserResume, ResumeBound, ThreadInv, Resumes, IsStopped
<1>2. Idle
  BY <1>1, RunningIsNotStopped DEF Interruptible, AwaitEffects
<1>3. CASE UserResume
  <2>1. /\ resuming' = 1
        /\ UNCHANGED <<record, queue, effect, timer, issued, grants, entry, signal, resourcesRevoked>>
    BY <1>0, <1>3 DEF UserResume, gatewayVars
  <2>2. queue = <<>>
    BY <1>2 DEF Idle
  <2>3. Resumes'
    BY <1>1, <2>1, <2>2 DEF Resumes
  <2>4. Line(queue', record'.status) /\ Working(queue', effect', record'.status)
    BY <2>1 DEF ThreadInv
  <2>5. Approvals' /\ Inert'
    BY <2>1 DEF ThreadInv, Approvals, Inert
  <2> QED BY <2>3, <2>4, <2>5 DEF ThreadInv
<1>4. CASE ResumeBound
  <2> DEFINE m == UserCommand("RESUME", <<>>, "none")
  <2>1. /\ resuming' = 0 /\ UNCHANGED <<record, effect, timer, signal>>
        /\ \/ /\ issued' = {} /\ grants' = {} /\ entry' = Resolved(entry)
              /\ resourcesRevoked' = FALSE /\ queue' = Append(queue, m)
           \/ UNCHANGED <<queue, resourcesRevoked, gatewayVars>>
    <3>1. resuming = 1
      BY <1>0, <1>4 DEF ResumeBound, ThreadInv, Resumes
    <3> QED BY <3>1, <1>4 DEF ResumeBound, RevokeTask
  <2>2. m.type = "RESUME" /\ Fits(m.type, record.status)
    BY <1>1 DEF UserCommand, Fits, Fresh, SourceOf, IsStopped
  <2> HIDE DEF m
  <2>3. \A k \in 1 .. Len(queue') :
          Len(queue') = 1 /\ queue'[k] = m /\ resourcesRevoked' = FALSE
    BY <1>2, <2>1 DEF Idle
  <2>4. Line(queue', record'.status)
    BY <2>1, <2>2, <2>3 DEF Line
  <2>5. Working(queue', effect', record'.status)
    BY <1>2, <2>1 DEF Working, Idle
  <2>6. Resumes'
    BY <2>1, <2>3 DEF Resumes
  <2>7. Approvals'
    BY <2>1 DEF ThreadInv, Approvals
  <2>8. Inert'
    <3>1. entry'.state # "live"
      BY <1>1, <2>1 DEF ThreadInv, Inert, Resolved, gatewayVars, IInv, TypeOK, Entries, NoEntry
    <3> QED BY <1>1, <2>1, <3>1 DEF ThreadInv, Inert, gatewayVars
  <2> QED BY <2>4, <2>5, <2>6, <2>7, <2>8 DEF ThreadInv
<1> QED BY <1>3, <1>4

LEMMA ThreadTime ==
  IInv /\ IInv' /\ ThreadInv /\ (DeadlinePasses \/ UNCHANGED vars \/ Restart) => ThreadInv'
<1> SUFFICES ASSUME IInv, IInv', ThreadInv, DeadlinePasses \/ UNCHANGED vars \/ Restart
             PROVE  ThreadInv'
  OBVIOUS
<1>1. CASE DeadlinePasses \/ UNCHANGED vars
  <2>1. UNCHANGED <<record, queue, effect, timer, issued, grants, entry, signal,
                    resuming, resourcesRevoked>>
    BY <1>1 DEF DeadlinePasses, vars, gatewayVars
  <2> QED BY <2>1 DEF ThreadInv, Resumes, Approvals, Inert
<1>2. CASE Restart
  <2>1. /\ queue' = <<>> /\ effect'.type = "NONE" /\ timer' = FALSE /\ resuming' = 0
        /\ issued' = {} /\ grants' = {} /\ entry'.state # "live" /\ signal' # "live"
        /\ resourcesRevoked' = FALSE
    BY <1>2 DEF Restart, NoEntry, NoEffect
  <2>2. record'.approval = NoIntent
    <3>1. Retained(record) \in Records
      BY RetainedType DEF IInv, TypeOK
    <3> QED BY <1>2, <3>1 DEF Restart, Records
  <2> QED BY <2>1, <2>2 DEF ThreadInv, Line, Working, Resumes, Approvals, Inert
<1> QED BY <1>1, <1>2

LEMMA LineShrinks ==
  ASSUME NEW q \in Seq(Messages), q # <<>>, NEW status, Line(q, status)
  PROVE  /\ Line(Tail(q), status)
         /\ Fits(Head(q).type, status)
         /\ ~IsStop(Head(q)) => Tail(q) = <<>>
         /\ \A k \in 1 .. Len(Tail(q)) :
              ~Replans(Tail(q)[k].type) /\ \E j \in 1 .. Len(q) : Tail(q)[k] = q[j]
<1> DEFINE rest == Tail(q)
           first == Head(q)
<1>1. /\ rest \in Seq(Messages) /\ Len(q) \in Nat /\ Len(q) >= 1 /\ 1 \in 1 .. Len(q)
      /\ first = q[1] /\ Len(rest) = Len(q) - 1
      /\ \A k \in 1 .. Len(rest) : rest[k] = q[k + 1] /\ k + 1 \in 1 .. Len(q)
  BY TailElements
<1> HIDE DEF rest, first
<1>2. ~IsStop(first) => rest = <<>>
  <2>1. 1 # Len(q) => IsStop(q[1])
    BY <1>1 DEF Line
  <2>2. ~IsStop(first) => Len(rest) = 0
    BY <1>1, <2>1
  <2> QED BY <1>1, <2>2, EmptySeq
<1>3. ASSUME NEW k \in 1 .. Len(rest)
      PROVE  /\ rest[k] = q[k + 1] /\ k + 1 \in 1 .. Len(q) /\ Len(q) # 1
             /\ k # Len(rest) => k + 1 # Len(q)
  BY <1>1
<1>4. \A k \in 1 .. Len(rest) : k # Len(rest) => IsStop(rest[k])
  BY <1>3 DEF Line
<1>5. \A k \in 1 .. Len(rest) : Fits(rest[k].type, status) /\ ~Replans(rest[k].type)
  BY <1>3 DEF Line
<1>6. Fits(first.type, status)
  BY <1>1 DEF Line
<1>7. \A k \in 1 .. Len(rest) : \E j \in 1 .. Len(q) : rest[k] = q[j]
  BY <1>3
<1>8. Line(rest, status)
  BY <1>4, <1>5 DEF Line
<1> QED
  BY <1>2, <1>5, <1>6, <1>7, <1>8 DEF rest, first

LEMMA ThreadDrop ==
  IInv /\ IInv' /\ ThreadInv /\ (IgnoreCommand \/ RejectCommand) => ThreadInv'
<1> SUFFICES ASSUME IInv, IInv', ThreadInv, IgnoreCommand \/ RejectCommand PROVE ThreadInv'
  OBVIOUS
<1>1. /\ queue \in Seq(Messages) /\ queue # <<>> /\ effect.type = "NONE" /\ effect' = effect
      /\ UNCHANGED <<record, timer, issued, grants, entry, signal, resuming, resourcesRevoked>>
  BY DEF IInv, IgnoreCommand, RejectCommand, gatewayVars, clockVars
<1>2. Line(queue, record.status)
  BY DEF ThreadInv
<1> DEFINE fail == Command("FAIL", <<>>, "none")
<1>3. fail.type = "FAIL"
  BY DEF Command
<1>4. \/ queue' = Tail(queue)
      \/ Tail(queue) = <<>> /\ queue' = Append(Tail(queue), fail)
  <2>1. IsStop(Head(queue)) => Head(queue).origin # "runtime"
    BY DEF IsStop
  <2> QED BY <1>1, <1>2, <2>1, LineShrinks DEF IgnoreCommand, RejectCommand, QueueAfterError
<1> HIDE DEF fail
<1>5. /\ Line(queue', record.status)
      /\ \A k \in 1 .. Len(queue') :
           queue'[k].type = "RESUME" => \E j \in 1 .. Len(queue) : queue[j].type = "RESUME"
  <2>1. CASE queue' = Tail(queue)
    BY <1>1, <1>2, <2>1, LineShrinks
  <2>2. CASE Tail(queue) = <<>> /\ queue' = Append(Tail(queue), fail)
    <3>1. queue' = Append(<<>>, fail)
      BY <2>2
    <3>2. Len(queue') = 1 /\ queue'[1] = fail
      BY <3>1
    <3> QED BY <1>3, <3>2 DEF Line, Fits, Fresh, SourceOf, Replans
  <2> QED BY <1>4, <2>1, <2>2
<1>6. Resumes'
  BY <1>1, <1>5 DEF ThreadInv, Resumes
<1>7. Working(queue', effect', record'.status) /\ Approvals' /\ Inert'
  BY <1>1 DEF ThreadInv, Working, Approvals, Inert
<1> QED
  BY <1>1, <1>5, <1>6, <1>7 DEF ThreadInv

\* What the transition table lets through from the statuses in which a task rests.
LEMMA LegalFromPaused ==
  ASSUME NEW r \in Records, NEW c \in Messages, Legal(r, c), r.status = "paused"
  PROVE  \/ c.type = "RESUME"
         \/ Replans(c.type)
         \/ c.type = "CANCEL" /\ Target(r, c) = "cancelled"
<1>1. c.type \in DOMAIN RequiredStatus => c.type = "RESUME"
  BY DEF Legal, RequiredStatus
<1>2. Target(r, c) \in {"planning", "verifying", "cancelled", "blocked"}
  BY DEF Legal, CanTransition, allowedTransitions
<1>3. CASE c.type \notin DOMAIN RequiredStatus
  <2>1. c.type \in {"OBJECTIVE_READY", "CONTINUE_PLANNING", "COMPLETE", "INCONCLUSIVE", "FAIL",
                    "PAUSE", "CANCEL"}
    BY <1>3 DEF RequiredStatus, Messages, Commands, CommandTypes, PlainTarget
  <2>2. Target(r, c) = PlainTarget[c.type]
    BY <2>1 DEF Target
  <2> QED BY <1>2, <2>1, <2>2 DEF PlainTarget, Replans
<1> QED BY <1>1, <1>3

LEMMA LegalFromAwaiting ==
  ASSUME NEW r \in Records, NEW c \in Messages, Legal(r, c), r.status = "awaiting_approval"
  PROVE  c.type \in {"APPROVAL_RESOLVED", "APPROVAL_REVISED", "HANDOFF_APPROVED", "PAUSE", "CANCEL"}
<1>1. c.type \in DOMAIN RequiredStatus =>
        c.type \in {"APPROVAL_RESOLVED", "APPROVAL_REVISED", "HANDOFF_APPROVED"}
  BY DEF Legal, RequiredStatus
<1>2. Target(r, c) \in {"policy_check", "executing", "evaluating", "cancelled", "paused"}
  BY DEF Legal, CanTransition, allowedTransitions
<1>3. CASE c.type \notin DOMAIN RequiredStatus
  <2>1. c.type \in {"OBJECTIVE_READY", "CONTINUE_PLANNING", "COMPLETE", "INCONCLUSIVE", "FAIL",
                    "PAUSE", "CANCEL"}
    BY <1>3 DEF RequiredStatus, Messages, Commands, CommandTypes, PlainTarget
  <2>2. Target(r, c) = PlainTarget[c.type]
    BY <2>1 DEF Target
  <2> QED BY <1>2, <2>1, <2>2 DEF PlainTarget
<1> QED BY <1>1, <1>3

\* Where a pause, a cancel and a safe point lead.
LEMMA AbortsStop ==
  ASSUME IInv, NEW c \in Messages, Legal(record, c), Aborts(c)
  PROVE  /\ record.status # "paused" \/ c.type = "CANCEL"
         /\ IsStopped(StatusAfter(c))
         /\ EffectAfter(c) = NoEffect
         /\ c.type = "PAUSE" => StatusAfter(c) = "paused"
         /\ c.type = "CANCEL" => StatusAfter(c) = "cancelled"
<1>1. CASE c.type \in Stops
  <2>1. ~SafePointReached(c) /\ Target(record, c) = PlainTarget[c.type]
    BY <1>1 DEF SafePointReached, Stops, Target
  <2>2. StatusAfter(c) = PlainTarget[c.type] /\ NextEffect(record, c) = "NONE"
    BY <1>1, <2>1 DEF StatusAfter, Stops, NextEffect, EffectOf, PlainTarget
  <2>3. c.type = "PAUSE" => record.status # "paused"
    BY <2>1 DEF Legal, CanTransition, allowedTransitions, PlainTarget
  <2> QED BY <1>1, <2>2, <2>3 DEF IsStopped, IsTerminalStatus, TerminalStatuses, PlainTarget,
                                 Stops, EffectAfter
<1>2. CASE SafePointReached(c)
  <2>1. c.type = "MUTATION_VERIFIED" /\ record.status = "verifying"
    BY <1>2 DEF SafePointReached, Legal, RequiredStatus
  <2>2. StatusAfter(c) \in {"cancelled", "paused"} /\ EffectAfter(c) = NoEffect
    BY <1>2 DEF StatusAfter, EffectAfter
  <2> QED BY <2>1, <2>2 DEF IsStopped, IsTerminalStatus, TerminalStatuses
<1> QED BY <1>1, <1>2 DEF Aborts, Stops

LEMMA EffectAfterStatus ==
  ASSUME NEW c \in Messages, EffectAfter(c).type # "NONE"
  PROVE  /\ StatusAfter(c) = StatusOfEffect[EffectAfter(c).type]
         /\ EffectAfter(c).type = NextEffect(record, c)
         /\ StatusAfter(c) = Target(record, c)
<1>1. /\ ~SafePointReached(c) /\ EffectAfter(c).type = NextEffect(record, c)
      /\ StatusAfter(c) = Target(record, c)
  BY DEF EffectAfter, NoEffect, StatusAfter
<1>2. CASE Target(record, c) = "verifying"
  BY <1>1, <1>2 DEF NextEffect, StatusOfEffect
<1>3. CASE Target(record, c) # "verifying"
  <2>1. Target(record, c) \in DOMAIN EffectOf /\ NextEffect(record, c) = EffectOf[Target(record, c)]
    BY <1>1, <1>3 DEF NextEffect
  <2> QED BY <1>1, <2>1 DEF EffectOf, StatusOfEffect
<1> QED BY <1>1, <1>2, <1>3

\* What an accepted command does to what the threads are about.
LEMMA Accepted ==
  ASSUME IInv, AcceptCommand
  PROVE  LET c == Head(queue) IN
         /\ c \in Messages /\ Legal(record, c) /\ queue \in Seq(Messages) /\ queue # <<>>
         /\ ~IsTerminalStatus(record.status) /\ effect.type = "NONE" /\ record \in Records
         /\ queue' = Tail(queue) /\ effect' = EffectAfter(c)
         /\ record'.status = StatusAfter(c)
         /\ record'.approval = ApprovalAfter(record, c)
         /\ record'.invocation = InvocationAfter(record, c)
         /\ record'.changes = ChangesAfter(record, c)
         /\ record'.obligations = ObligationsAfter(record, c)
<1>1. queue \in Seq(Messages) /\ queue # <<>> /\ record \in Records
  BY DEF IInv, TypeOK, AcceptCommand
<1>2. Head(queue) \in Messages
  BY <1>1, TailElements
<1>3. record' = [Reduced(record, Head(queue)) EXCEPT !.status = StatusAfter(Head(queue))]
  BY DEF AcceptCommand
<1>4. /\ record'.status = StatusAfter(Head(queue))
      /\ record'.approval = ApprovalAfter(record, Head(queue))
      /\ record'.invocation = InvocationAfter(record, Head(queue))
      /\ record'.changes = ChangesAfter(record, Head(queue))
      /\ record'.obligations = ObligationsAfter(record, Head(queue))
  BY <1>1, <1>3 DEF Reduced, Records
<1> QED
  BY <1>1, <1>2, <1>4 DEF AcceptCommand

LEMMA ThreadAccept == IInv /\ IInv' /\ ThreadInv /\ AcceptCommand => ThreadInv'
<1> SUFFICES ASSUME IInv, IInv', ThreadInv, AcceptCommand PROVE ThreadInv'
  OBVIOUS
<1> DEFINE c == Head(queue)
<1>1. /\ c \in Messages /\ Legal(record, c) /\ queue \in Seq(Messages) /\ queue # <<>>
      /\ ~IsTerminalStatus(record.status) /\ effect.type = "NONE" /\ record \in Records
      /\ queue' = Tail(queue) /\ effect' = EffectAfter(c)
      /\ record'.status = StatusAfter(c)
      /\ record'.approval = ApprovalAfter(record, c)
      /\ record'.invocation = InvocationAfter(record, c)
  BY Accepted
<1>2. Line(queue, record.status)
  BY DEF ThreadInv
<1>3. /\ Line(queue', record.status) /\ Fits(c.type, record.status)
      /\ ~IsStop(c) => queue' = <<>>
      /\ \A k \in 1 .. Len(queue') :
           ~Replans(queue'[k].type) /\ \E j \in 1 .. Len(queue) : queue'[k] = queue[j]
  BY <1>1, <1>2, LineShrinks
<1>4. \E j \in 1 .. Len(queue) : queue[j] = c
  BY <1>1, TailElements
<1>5. /\ signal' = IF IsTerminalStatus(StatusAfter(c)) THEN "none"
                   ELSE IF Aborts(c) /\ signal = "live" THEN "aborted" ELSE signal
      /\ resourcesRevoked' = (resourcesRevoked \/ Aborts(c) \/ IsTerminalStatus(StatusAfter(c)))
      /\ IF resourcesRevoked' /\ ~resourcesRevoked THEN RevokeTask ELSE UNCHANGED gatewayVars
      /\ timer' => record'.status = "awaiting_approval"
      /\ resuming' = resuming
  BY <1>1 DEF AcceptCommand, clockVars
<1> HIDE DEF c
<1>6. ~Fits("RESUME", record.status) \/ record.status = "paused"
  BY <1>1 DEF Fits, Fresh, SourceOf
<1>7. record.status = "paused" =>
        \/ c.type = "RESUME" /\ resuming = 0 /\ ~resourcesRevoked
        \/ c.type = "CANCEL" /\ IsTerminalStatus(StatusAfter(c))
  <2>1. ASSUME record.status = "paused", c.type # "RESUME" PROVE c.type = "CANCEL"
    <3>1. ~Replans(c.type)
      BY <1>3, <2>1 DEF Fits, Fresh, SourceOf, Replans, IsTerminalStatus, TerminalStatuses
    <3> QED BY <1>1, <2>1, <3>1, LegalFromPaused
  <2>2. c.type = "CANCEL" => IsTerminalStatus(StatusAfter(c))
    BY <1>1, AbortsStop DEF Aborts, IsTerminalStatus, TerminalStatuses
  <2>3. c.type = "RESUME" => resuming = 0 /\ ~resourcesRevoked
    BY <1>1, <1>4 DEF ThreadInv, Resumes
  <2> QED BY <2>1, <2>2, <2>3
<1>8. IsStop(c) => effect'.type = "NONE" /\ IsStopped(record'.status)
                   /\ (c.type = "PAUSE" => record.status # "paused" /\ record'.status = "paused")
                   /\ (c.type = "CANCEL" => IsTerminalStatus(record'.status))
  <2>1. IsStop(c) => Aborts(c)
    BY DEF IsStop, Stops, Aborts
  <2> QED BY <1>1, <2>1, AbortsStop DEF NoEffect, IsTerminalStatus, TerminalStatuses
<1>9. Line(queue', record'.status)
  <2>1. CASE ~IsStop(c)
    BY <1>3, <2>1 DEF Line
  <2>2. CASE IsStop(c)
    <3>1. \A k \in 1 .. Len(queue') : Fits(queue'[k].type, record'.status)
      BY <1>3, <1>8, <2>2 DEF Fits, IsStopped
    <3> QED BY <1>3, <3>1 DEF Line
  <2> QED BY <2>1, <2>2
<1>10. Working(queue', effect', record'.status)
  <2>1. CASE effect'.type = "NONE"
    BY <2>1 DEF Working
  <2>2. CASE effect'.type # "NONE"
    <3>1. queue' = <<>>
      BY <1>3, <1>8, <2>2
    <3>2. record'.status = StatusOfEffect[effect'.type]
      BY <1>1, <2>2, EffectAfterStatus
    <3> QED BY <3>1, <3>2 DEF Working
  <2> QED BY <2>1, <2>2
<1>11. Resumes'
  <2>1. resuming > 0 => resuming = 1 /\ IsStopped(record'.status)
    <3>1. resuming > 0 => resuming = 1 /\ record.status = "paused"
      BY <1>1 DEF ThreadInv, Resumes, IsStopped
    <3>2. resuming > 0 => resuming # 0
      OBVIOUS
    <3> QED BY <1>1, <1>7, <3>1, <3>2 DEF IsStopped
  <2>2. ASSUME ~IsTerminalStatus(record'.status), NEW k \in 1 .. Len(queue'),
               queue'[k].type = "RESUME"
        PROVE  FALSE
    <3>1. IsStop(c) /\ c.type # "CANCEL"
      BY <1>3, <1>8, <2>2
    <3>2. record.status # "paused"
      BY <1>8, <3>1 DEF IsStop, Stops
    <3>3. Fits("RESUME", record.status)
      BY <1>3, <2>2 DEF Line
    <3> QED BY <1>6, <3>2, <3>3
  <2> QED BY <1>5, <2>1, <2>2 DEF Resumes
<1>12. Approvals'
  <2>1. ASSUME record'.approval # NoIntent, ~IsTerminalStatus(record'.status)
        PROVE  /\ record'.status \in {"awaiting_approval", "paused"}
               /\ record'.invocation = record'.approval
    <3>1. CASE c.type = "POLICY_DECIDED" /\ c.result = "require_approval"
      <4>1. record'.approval = c.intents[1] /\ record'.invocation = c.intents[1]
        BY <1>1, <3>1 DEF ApprovalAfter, InvocationAfter
      <4>2. record'.status = "awaiting_approval"
        BY <1>1, <3>1 DEF StatusAfter, SafePointReached, Target, PolicyTarget
      <4> QED BY <4>1, <4>2
    <3>2. CASE ~(c.type = "POLICY_DECIDED" /\ c.result = "require_approval")
      <4>1. /\ record'.approval = record.approval
            /\ c.type \notin {"APPROVAL_REVISED", "HANDOFF_APPROVED", "RESUME"}
            /\ c.type = "APPROVAL_RESOLVED" => c.result = "cancel_task"
        BY <1>1, <2>1, <3>2 DEF ApprovalAfter
      <4>2. record.invocation = record.approval /\ record.status \in {"awaiting_approval", "paused"}
        BY <1>1, <2>1, <4>1 DEF ThreadInv, Approvals
      <4>3. record.status = "awaiting_approval"
        BY <1>1, <1>7, <2>1, <4>1, <4>2
      <4>4. c.type \in {"APPROVAL_RESOLVED", "PAUSE", "CANCEL"}
        BY <1>1, <4>1, <4>3, LegalFromAwaiting
      <4>5. c.type = "PAUSE"
        <5>1. c.type # "CANCEL"
          BY <1>1, <2>1, AbortsStop DEF Aborts, IsTerminalStatus, TerminalStatuses
        <5>2. c.type = "APPROVAL_RESOLVED" => record'.status = "cancelled"
          BY <1>1, <4>1 DEF StatusAfter, SafePointReached, Target, ApprovalTarget
        <5> QED BY <2>1, <4>4, <5>1, <5>2 DEF IsTerminalStatus, TerminalStatuses
      <4>6. record'.status = "paused" /\ record'.invocation = record.invocation
        BY <1>1, <4>5, AbortsStop DEF Aborts, InvocationAfter
      <4> QED BY <4>1, <4>2, <4>6
    <3> QED BY <3>1, <3>2
  <2> QED BY <1>5, <2>1 DEF Approvals
<1>13. Inert'
  <2>1. resourcesRevoked' => IsStopped(record'.status)
    <3>1. resourcesRevoked => record.status = "paused"
      BY <1>1 DEF ThreadInv, Inert, IsStopped
    <3>2. Aborts(c) => IsStopped(record'.status)
      BY <1>1, AbortsStop
    <3> QED BY <1>1, <1>5, <1>7, <3>1, <3>2 DEF IsStopped
  <2>2. ASSUME IsStopped(record'.status)
        PROVE  issued' = {} /\ grants' = {} /\ entry'.state # "live" /\ signal' # "live"
    <3>1. Aborts(c) \/ IsTerminalStatus(StatusAfter(c))
      <4>1. ASSUME StatusAfter(c) = "paused" PROVE Aborts(c)
        <5>1. CASE SafePointReached(c)
          BY <5>1 DEF Aborts
        <5>2. CASE ~SafePointReached(c)
          <6>1. Target(record, c) = "paused"
            BY <4>1, <5>2 DEF StatusAfter
          <6>2. c.type = "PAUSE"
            BY <1>1, <6>1 DEF Target, PlannerTarget, PolicyTarget, ApprovalTarget, VerifiedTarget,
                              PlainTarget, Messages, WellFormed, Commands, CommandTypes, Verdicts
          <6> QED BY <6>2 DEF Aborts
        <5> QED BY <5>1, <5>2
      <4> QED BY <1>1, <2>2, <4>1 DEF IsStopped
    <3>2. signal' # "live"
      BY <1>5, <3>1
    <3>3. CASE resourcesRevoked
      <4>1. issued = {} /\ grants = {} /\ entry.state # "live"
        BY <3>3 DEF ThreadInv, Inert
      <4>2. UNCHANGED gatewayVars
        BY <1>5, <3>3
      <4> QED BY <3>2, <4>1, <4>2 DEF gatewayVars
    <3>4. CASE ~resourcesRevoked
      <4>1. RevokeTask
        BY <1>5, <3>1, <3>4
      <4>2. entry'.state # "live"
        BY <4>1 DEF RevokeTask, Resolved, IInv, TypeOK, Entries, NoEntry
      <4> QED BY <3>2, <4>1, <4>2 DEF RevokeTask
    <3> QED BY <3>3, <3>4
  <2> QED BY <2>1, <2>2 DEF Inert
<1> QED
  BY <1>9, <1>10, <1>11, <1>12, <1>13 DEF ThreadInv

LEMMA ThreadStep ==
  ASSUME MaxResuming <= 1, IInv, IInv', ThreadInv, [Next]_vars
  PROVE  ThreadInv'
<1>1. CASE Worker
  BY <1>1, ThreadDrop, ThreadAccept, ThreadHarness, ThreadEvaluate, ThreadExecute, ThreadObserve,
     ThreadVerify DEF Worker
<1>2. CASE User
  BY <1>2, ThreadControls, ThreadAnswers, ThreadResume DEF User
<1>3. CASE ResumeBound \/ ApprovalTimerFires \/ DeadlinePasses \/ Restart \/ UNCHANGED vars
  BY <1>3, ThreadResume, ThreadAnswers, ThreadTime
<1> QED
  BY <1>1, <1>2, <1>3 DEF Next

LEMMA ThreadInit == Init => ThreadInv
<1> SUFFICES ASSUME Init PROVE ThreadInv
  OBVIOUS
<1>1. /\ Len(queue) = 1 /\ queue[1].type = "OBJECTIVE_READY" /\ record.status = "intake"
      /\ record.approval = NoIntent
  BY DEF Init, Command, InitialRecord
<1>2. Line(queue, record.status)
  BY <1>1 DEF Line, Fits, Fresh, SourceOf
<1>3. Working(queue, effect, record.status)
  BY DEF Init, Working, NoEffect
<1>4. Resumes /\ Approvals /\ Inert
  BY <1>1 DEF Init, Resumes, Approvals, Inert, IsStopped, IsTerminalStatus, TerminalStatuses
<1> QED
  BY <1>2, <1>3, <1>4 DEF ThreadInv

\* While resumes do not overlap, one command or effect carries a task on (TaskMailbox
\* drain, session-manager.js), a pause or cancel may wait beside it, and none of it
\* is left when the task is stopped.
THEOREM ThreadInvariance ==
  ASSUME MaxResuming <= 1
  PROVE  Spec => []ThreadInv
<1>1. Init => ThreadInv
  BY ThreadInit
<1>2. IInv /\ IInv' /\ ThreadInv /\ [Next]_vars => ThreadInv'
  BY ThreadStep
<1> QED
  BY <1>1, <1>2, Invariance, PTL DEF Spec

\* A stopped task holds no authority: no unused capability, no grant, no open
\* approval, no live signal (abortActive, finishRuntime, recoverInterrupted).
THEOREM StoppedTasksAreInert ==
  ASSUME MaxResuming <= 1
  PROVE  Spec => []InertWhenStopped
<1>1. ThreadInv => InertWhenStopped
  BY DEF ThreadInv, Inert, IsStopped, InertWhenStopped
<1> QED
  BY <1>1, ThreadInvariance, PTL

-----------------------------------------------------------------------------
(* Which steps are possible where. *)

LEMMA WhileRunning ==
  ASSUME IInv, ThreadInv, [Next]_vars, effect.type # "NONE"
  PROVE  \/ RunHarness \/ HarnessTurn \/ EvaluateIntent \/ Precheck \/ EvaluateReadBundle
         \/ ExecuteIntent \/ ExecutionEnds \/ BuildObservation \/ ReduceContext
         \/ EvaluateProgress \/ RunMutationVerification \/ ChecksEnd \/ VerifyCompletion
         \/ UserPause \/ UserCancel \/ DeadlinePasses \/ Restart \/ UNCHANGED vars
<1>1. /\ ~IsStopped(record.status) /\ record.status # "awaiting_approval"
      /\ resuming = 0 /\ ~timer
  BY RunningIsNotStopped
<1>2. ~(ApprovalShown /\ Interruptible)
  BY <1>1, ShownIsAwaited
<1>3. /\ ~(\E forTask \in BOOLEAN : Approve(forTask))
      /\ ~(\E choice \in {"reject", "cancel_task", "expired"} : Decline(choice))
      /\ ~ReviseApproval
  BY <1>2 DEF Approve, Decline, ReviseApproval
<1>4. ~IgnoreCommand /\ ~RejectCommand /\ ~AcceptCommand
  BY DEF IgnoreCommand, RejectCommand, AcceptCommand
<1>5. ~UserResume /\ ~ResumeBound /\ ~ApprovalTimerFires
  BY <1>1 DEF UserResume, ResumeBound, ApprovalTimerFires, IsStopped
<1> QED
  BY <1>3, <1>4, <1>5 DEF Next, Worker, User

LEMMA WhileQueued ==
  ASSUME [Next]_vars, effect.type = "NONE", queue # <<>>
  PROVE  IgnoreCommand \/ RejectCommand \/ AcceptCommand \/ Restart \/ UNCHANGED vars
<1>1. ~Interruptible
  BY DEF Interruptible, Idle, AwaitEffects
<1> QED
  BY <1>1 DEF Next, Worker, User, RunHarness, HarnessTurn, EvaluateIntent, Precheck,
     EvaluateReadBundle, ExecuteIntent, ExecutionEnds, BuildObservation, ReduceContext,
     EvaluateProgress, RunMutationVerification, ChecksEnd, VerifyCompletion, UserPause, UserCancel,
     UserResume, ResumeBound, ApprovalTimerFires, DeadlinePasses, Approve, Decline, ReviseApproval

LEMMA WhileIdle ==
  ASSUME [Next]_vars, Idle
  PROVE  User \/ ResumeBound \/ ApprovalTimerFires \/ DeadlinePasses \/ Restart \/ UNCHANGED vars
  BY DEF Idle, Next, Worker, IgnoreCommand, RejectCommand, AcceptCommand, RunHarness,
     HarnessTurn, EvaluateIntent, Precheck, EvaluateReadBundle, ExecuteIntent, ExecutionEnds,
     BuildObservation, ReduceContext, EvaluateProgress, RunMutationVerification, ChecksEnd,
     VerifyCompletion

\* An effect ends, waits for its result, or stays as it is.
LEMMA EffectMoves ==
  ASSUME IInv, ThreadInv, [Next]_vars, effect.type # "NONE", ~Restart
  PROVE  \/ effect' = NoEffect
         \/ effect' = effect
         \/ effect'.type \in AwaitEffects /\ effect'.intents = effect.intents
<1>1. effect \in Effects
  BY DEF IInv, TypeOK
<1>2. CASE RunHarness
  BY <1>1, <1>2 DEF RunHarness, Enqueue, Effects, AwaitEffects
<1>3. CASE HarnessTurn
  BY <1>3 DEF HarnessTurn, Enqueue, Throw
<1>4. CASE EvaluateIntent
  <2>1. \/ effect' = NoEffect
        \/ effect' = [effect EXCEPT !.type = "PRECHECK", !.result = PolicyOutcome(effect.intents[1])]
    BY <1>4 DEF EvaluateIntent, Enqueue, Throw
  <2> QED BY <1>1, <2>1 DEF Effects, AwaitEffects
<1>5. CASE Precheck
  BY <1>5 DEF Precheck, Enqueue
<1>6. CASE EvaluateReadBundle
  BY <1>6 DEF EvaluateReadBundle, Enqueue, Throw
<1>7. CASE ExecuteIntent
  BY <1>1, <1>7 DEF ExecuteIntent, Throw, Effects, AwaitEffects
<1>8. CASE ExecutionEnds
  BY <1>8 DEF ExecutionEnds, Enqueue, Throw
<1>9. CASE BuildObservation
  BY <1>9 DEF BuildObservation, Enqueue, Throw
<1>10. CASE ReduceContext
  BY <1>10 DEF ReduceContext, Enqueue
<1>11. CASE EvaluateProgress
  BY <1>11 DEF EvaluateProgress, Enqueue
<1>12. CASE RunMutationVerification
  BY <1>1, <1>12 DEF RunMutationVerification, Effects, AwaitEffects
<1>13. CASE ChecksEnd
  BY <1>13 DEF ChecksEnd, Enqueue, Throw
<1>14. CASE VerifyCompletion
  BY <1>14 DEF VerifyCompletion, Enqueue
<1>15. CASE UserPause \/ UserCancel
  BY <1>1, <1>15 DEF UserPause, UserCancel, Preempt, Effects, AwaitEffects
<1>16. CASE DeadlinePasses \/ UNCHANGED vars
  BY <1>16 DEF DeadlinePasses, vars
<1> QED
  BY <1>2, <1>3, <1>4, <1>5, <1>6, <1>7, <1>8, <1>9, <1>10, <1>11, <1>12, <1>13, <1>14, <1>15,
     <1>16, WhileRunning

LEMMA RestartPauses ==
  ASSUME IInv, Restart
  PROVE  record'.status = "paused" /\ record'.approval = NoIntent
<1>1. Retained(record) \in Records
  BY RetainedType DEF IInv, TypeOK
<1> QED BY <1>1 DEF Restart, Records

\* Only commands and crashes move the task.
LEMMA OnlyTheseMove ==
  ASSUME IInv, [Next]_vars, ~AcceptCommand, ~Restart
  PROVE  /\ record'.status = record.status /\ record'.approval = record.approval
         /\ record'.invocation = record.invocation
<1>1. record \in Records
  BY DEF IInv, TypeOK
<1>2. CASE EvaluateIntent \/ EvaluateReadBundle
  <2>1. \/ UNCHANGED record
        \/ \E s : Prepare(s)
    BY <1>2 DEF EvaluateIntent, EvaluateReadBundle
  <2> QED BY <1>1, <2>1 DEF Prepare, Records
<1>3. CASE RunHarness \/ Precheck \/ ChecksEnd
  BY <1>1, <1>3 DEF RunHarness, Precheck, ChecksEnd, Records
<1>4. CASE BuildObservation
  BY <1>1, <1>4 DEF BuildObservation, CheckObserved, Records
<1>5. CASE ReduceContext
  <2> DEFINE r == [record EXCEPT !.errors = ErrorsAfter(@, effect.result)]
  <2>1. /\ r.status = record.status /\ r.approval = record.approval
        /\ r.invocation = record.invocation
    BY <1>1 DEF Records
  <2>2. /\ Recorded(r).status = r.status /\ Recorded(r).approval = r.approval
        /\ Recorded(r).invocation = r.invocation
    BY <1>1 DEF Recorded, Records
  <2> QED BY <1>5, <2>1, <2>2 DEF ReduceContext
<1>6. CASE \/ IgnoreCommand \/ RejectCommand \/ HarnessTurn \/ ExecuteIntent \/ ExecutionEnds
           \/ EvaluateProgress \/ RunMutationVerification \/ VerifyCompletion
  BY <1>6 DEF IgnoreCommand, RejectCommand, HarnessTurn, ExecuteIntent, ExecutionEnds,
              EvaluateProgress, RunMutationVerification, VerifyCompletion
<1>7. CASE User
  BY <1>7 DEF User, UserPause, UserCancel, UserResume, Approve, Decline, ReviseApproval
<1>8. CASE ResumeBound \/ ApprovalTimerFires \/ DeadlinePasses \/ UNCHANGED vars
  BY <1>8 DEF ResumeBound, ApprovalTimerFires, DeadlinePasses, vars
<1> QED
  BY <1>2, <1>3, <1>4, <1>5, <1>6, <1>7, <1>8 DEF Next, Worker

-----------------------------------------------------------------------------
(* A change that was sent is recorded: until it is, it is the invocation of   *)
(* the record, and the one thread is on its way from sending to recording it. *)

InvocationFits ==
  /\ effect.type = "EXECUTE_INTENT" => record.invocation = effect.intents[1]
  /\ record.status = "awaiting_approval" =>
       \A k \in 1 .. Len(queue) :
         queue[k].type = "APPROVAL_RESOLVED" /\ queue[k].result = "approve" =>
           record.invocation = queue[k].intents[1]

UnderWay ==
  \/ /\ effect.type \in {"EXECUTING", "BUILD_OBSERVATION", "REDUCE_CONTEXT"}
     /\ queue = <<>>
  \/ /\ effect.type = "NONE" /\ Len(queue) = 1
     /\ \/ record.status = "executing" /\ queue[1].type = "EXECUTION_FINISHED"
        \/ record.status = "observing" /\ queue[1].type = "OBSERVATION_READY"

UnrecordedIsUnderWay ==
  \A k \in 1 .. Len(ran) : record.changes[ran[k].id] = "none" =>
    record.invocation = ran[k] /\ VerifiableChange(ran[k]) /\ UnderWay

\* What leads to "executing", and what it carries.
LEMMA LeadsToExecuting ==
  ASSUME NEW c \in Messages, Target(record, c) = "executing"
  PROVE  \/ c.type = "POLICY_DECIDED" /\ c.result = "allow"
         \/ c.type = "APPROVAL_RESOLVED" /\ c.result = "approve"
<1>1. /\ c.type \in CommandTypes /\ WellFormed(c)
  BY DEF Messages, Commands
<1>2. CASE c.type \in DOMAIN PlainTarget
  BY <1>2 DEF Target, PlainTarget
<1>3. CASE c.type \notin DOMAIN PlainTarget
  BY <1>1, <1>3 DEF CommandTypes, Target, WellFormed, PlannerTarget, PolicyTarget, ApprovalTarget,
                    VerifiedTarget, Verdicts
<1> QED BY <1>2, <1>3

LEMMA InvocationStep ==
  ASSUME IInv, IInv', ThreadInv, InvocationFits, [Next]_vars
  PROVE  InvocationFits'
<1>1. CASE AcceptCommand
  <2> DEFINE c == Head(queue)
  <2>1. /\ c \in Messages /\ Legal(record, c) /\ queue \in Seq(Messages) /\ queue # <<>>
        /\ queue' = Tail(queue) /\ effect' = EffectAfter(c)
        /\ record'.status = StatusAfter(c) /\ record'.invocation = InvocationAfter(record, c)
    BY <1>1, Accepted
  <2>2. ~IsStop(c) => queue' = <<>>
    BY <2>1, LineShrinks DEF ThreadInv
  <2>3. 1 \in 1 .. Len(queue) /\ queue[1] = c
    BY <2>1, TailElements
  <2> HIDE DEF c
  <2>4. ASSUME effect'.type = "EXECUTE_INTENT" PROVE record'.invocation = effect'.intents[1]
    <3>1. NextEffect(record, c) = "EXECUTE_INTENT" /\ effect'.intents = c.intents
      BY <2>1, <2>4, EffectAfterStatus DEF EffectAfter, NoEffect
    <3>2. Target(record, c) = "executing"
      BY <2>1, <2>4, EffectAfterStatus DEF StatusOfEffect
    <3>3. CASE c.type = "POLICY_DECIDED"
      BY <2>1, <3>1, <3>3 DEF InvocationAfter
    <3>4. CASE c.type = "APPROVAL_RESOLVED" /\ c.result = "approve"
      <4>1. record.status = "awaiting_approval"
        BY <2>1, <3>4 DEF Legal, RequiredStatus
      <4> QED BY <2>1, <2>3, <3>1, <3>4, <4>1 DEF InvocationAfter, InvocationFits
    <3> QED BY <2>1, <3>2, <3>3, <3>4, LeadsToExecuting
  <2>5. ASSUME record'.status = "awaiting_approval" PROVE queue' = <<>>
    <3>1. ~IsStop(c)
      BY <2>1, <2>5, AbortsStop DEF IsStop, Stops, Aborts, IsStopped, IsTerminalStatus, TerminalStatuses
    <3> QED BY <2>2, <3>1
  <2> QED BY <2>4, <2>5 DEF InvocationFits
<1>2. CASE Restart
  BY <1>2 DEF Restart, NoEffect, InvocationFits
<1>3. CASE ~AcceptCommand /\ ~Restart
  <2>1. record'.status = record.status /\ record'.invocation = record.invocation
    BY <1>3, OnlyTheseMove
  <2>2. CASE effect.type # "NONE"
    <3>1. record.status # "awaiting_approval"
      BY <2>2, RunningIsNotStopped
    <3>2. effect'.type = "EXECUTE_INTENT" => effect' = effect
      BY <1>3, <2>2, EffectMoves DEF AwaitEffects, NoEffect
    <3> QED BY <2>1, <3>1, <3>2 DEF InvocationFits
  <2>3. CASE effect.type = "NONE" /\ queue # <<>>
    <3>1. effect' = effect
      BY <1>3, <2>3, WhileQueued DEF IgnoreCommand, RejectCommand, vars
    <3>2. \A k \in 1 .. Len(queue') : \/ \E j \in 1 .. Len(queue) : queue'[k] = queue[j]
                                      \/ queue'[k].type = "FAIL"
      <4>1. /\ Tail(queue) \in Seq(Messages)
            /\ \A k \in 1 .. Len(Tail(queue)) : \E j \in 1 .. Len(queue) : Tail(queue)[k] = queue[j]
        BY <2>3, LineShrinks, TailElements DEF IInv, ThreadInv
      <4>2. Command("FAIL", <<>>, "none") \in Messages
        BY PlainMessage
      <4>3. \/ queue' = queue \/ queue' = Tail(queue)
            \/ queue' = Append(Tail(queue), Command("FAIL", <<>>, "none"))
        BY <1>3, <2>3, WhileQueued DEF IgnoreCommand, RejectCommand, QueueAfterError, vars
      <4>4. CASE queue' = Append(Tail(queue), Command("FAIL", <<>>, "none"))
        BY <4>1, <4>2, <4>4, TypeInQueue DEF Command
      <4> QED BY <4>1, <4>3, <4>4
    <3> QED BY <2>1, <2>3, <3>1, <3>2 DEF InvocationFits
  <2>4. CASE Idle
    <3>1. queue = <<>> /\ effect.type = "NONE" /\ effect'.type = "NONE"
      BY <1>3, <2>4, WhileIdle DEF Idle, User, UserPause, UserCancel, UserResume, Approve, Decline,
        ReviseApproval, ResumeBound, ApprovalTimerFires, DeadlinePasses, vars, Preempt
    <3>2. \A k \in 1 .. Len(queue') :
            queue'[k].type = "APPROVAL_RESOLVED" /\ queue'[k].result = "approve" =>
              record.invocation = queue'[k].intents[1]
      <4>1. CASE \E forTask \in BOOLEAN : Approve(forTask)
        <5>1. record.invocation = entry.intent
          BY <4>1, ShownIsAwaited DEF Approve
        <5>2. CASE Answer("HANDOFF_APPROVED", <<entry.intent>>, "none", "user")
          BY <3>1, <5>2 DEF Answer
        <5>3. CASE Answer("APPROVAL_RESOLVED", <<entry.intent>>, "approve", "user")
          BY <3>1, <5>1, <5>3 DEF Answer
        <5> QED BY <4>1, <5>2, <5>3 DEF Approve
      <4>2. CASE \E choice \in {"reject", "cancel_task", "expired"} : Decline(choice)
        BY <3>1, <4>2 DEF Decline, Answer
      <4>3. CASE ReviseApproval
        BY <3>1, <4>3 DEF ReviseApproval, Answer
      <4>4. CASE ApprovalTimerFires
        BY <3>1, <4>4 DEF ApprovalTimerFires, Answer
      <4>5. CASE UserPause \/ UserCancel \/ ResumeBound
        BY <3>1, <4>5 DEF UserPause, UserCancel, ResumeBound, UserCommand
      <4>6. CASE UserResume \/ DeadlinePasses \/ UNCHANGED vars
        BY <3>1, <4>6 DEF UserResume, DeadlinePasses, vars
      <4> QED BY <1>3, <2>4, <4>1, <4>2, <4>3, <4>4, <4>5, <4>6, WhileIdle DEF User
    <3> QED BY <2>1, <3>1, <3>2 DEF InvocationFits
  <2> QED BY <2>2, <2>3, <2>4 DEF Idle
<1> QED BY <1>1, <1>2, <1>3

\* A change that has a record keeps one.
LEMMA RecordsStay ==
  ASSUME IInv, [Next]_vars, NEW id \in Ids, record.changes[id] # "none"
  PROVE  record'.changes[id] # "none"
<1>1. record \in Records /\ record.changes \in [Ids -> ChangeStatuses]
  BY DEF IInv, TypeOK, Records
<1>2. CASE AcceptCommand
  <2> DEFINE c == Head(queue)
  <2>1. c \in Messages /\ Legal(record, c) /\ record'.changes = ChangesAfter(record, c)
    BY <1>2, Accepted
  <2> HIDE DEF c
  <2>2. c.type = "MUTATION_VERIFIED" => c.result \in Verdicts
    BY <2>1 DEF Messages, WellFormed
  <2> QED BY <1>1, <2>1, <2>2 DEF ChangesAfter, Verdicts
<1>3. CASE BuildObservation
  <2>1. CASE UNCHANGED record
    BY <2>1
  <2>2. ASSUME NEW verdict \in {"passed", "failed", "inconclusive"}, CheckObserved(verdict)
        PROVE  record'.changes[id] # "none"
    <3> DEFINE o == Head(record.obligations)
               worst == Worse(o.worst, verdict)
    <3>1. worst # "none"
      BY DEF Worse
    <3> HIDE DEF worst
    <3>2. \/ record'.changes = record.changes
          \/ record'.changes = [record.changes EXCEPT ![o.id] = IF @ = "none" THEN @ ELSE worst]
      BY <1>1, <2>2 DEF CheckObserved, worst, Records
    <3> HIDE DEF o
    <3> QED BY <1>1, <3>1, <3>2
  <2> QED BY <1>3, <2>1, <2>2 DEF BuildObservation
<1>4. CASE ReduceContext
  <2> DEFINE r == [record EXCEPT !.errors = ErrorsAfter(@, effect.result)]
  <2>1. r.changes = record.changes /\ DOMAIN r = DOMAIN record
    BY <1>1 DEF Records
  <2>2. Recorded(r).changes[id] # "none"
    BY <1>1, <2>1 DEF Recorded, Records
  <2> QED BY <1>4, <2>2 DEF ReduceContext
<1>5. CASE Restart
  <2>1. Retained(record).changes[id] # "none" /\ Retained(record) \in Records
    BY <1>1, RetainedType DEF Retained, Records
  <2> QED BY <1>5, <2>1 DEF Restart, Records
<1>6. CASE ~AcceptCommand /\ ~BuildObservation /\ ~ReduceContext /\ ~Restart
  BY <1>6, OnlyTheseJudge
<1> QED
  BY <1>2, <1>3, <1>4, <1>5, <1>6

\* What is about to run and is a change is one the policy let through, and that
\* no run has had.
LEMMA SentChange ==
  ASSUME IInv, IdsInv, ExecuteIntent, ran' # ran
  PROVE  /\ effect.intents[1] \in issued /\ effect.intents[1] \in Intents
         /\ Mutates(effect.intents[1]) /\ Runnable(effect.intents[1])
         /\ signal # "aborted" /\ effect'.type = "EXECUTING" /\ queue' = queue
         /\ issued' = issued \ Elements(effect.intents)
         /\ ran' = Append(ran, effect.intents[1])
         /\ consentOnce' = consentOnce \ {effect.intents[1]}
<1>1. Carries(effect) /\ effect \in Effects /\ issued \subseteq Intents
  BY DEF IInv, EffectFits, ExecuteIntent, TypeOK
<1>2. 1 \in 1 .. Len(effect.intents)
  <2>1. Len(effect.intents) = 1 \/ Len(effect.intents) = 2
    BY <1>1 DEF Carries
  <2> QED BY <2>1
<1>3. /\ Elements(effect.intents) \subseteq issued
      /\ effect' = [effect EXCEPT !.type = "EXECUTING", !.doomed = (signal = "aborted")]
      /\ issued' = issued \ Elements(effect.intents)
      /\ Mutates(effect.intents[1]) /\ signal # "aborted"
      /\ ran' = Append(ran, effect.intents[1])
      /\ consentOnce' = consentOnce \ {effect.intents[1]}
      /\ queue' = queue
  BY DEF ExecuteIntent, ghostVars
<1>4. effect.intents[1] \in issued
  BY <1>2, <1>3 DEF Elements
<1>5. Runnable(effect.intents[1])
  BY <1>3, <1>4 DEF IdsInv, RunsOnce
<1>6. effect'.type = "EXECUTING"
  BY <1>1, <1>3 DEF Effects
<1> QED
  BY <1>1, <1>3, <1>4, <1>5, <1>6

\* Recording, or recovery, leaves no change of the invocation without a record.
LEMMA RecordingRecords ==
  ASSUME IInv, VerifiableChange(record.invocation),
         \/ ReduceContext
         \/ Restart /\ record.status \in {"executing", "observing", "reducing"}
  PROVE  record'.changes[record.invocation.id] # "none"
<1>1. record \in Records /\ record.invocation \in Intents
  BY DEF IInv, TypeOK, Records, VerifiableChange
<1>2. record.invocation.id \in Ids /\ record.changes \in [Ids -> ChangeStatuses]
  BY <1>1 DEF Intents, Records
<1>3. CASE ReduceContext
  <2> DEFINE r == [record EXCEPT !.errors = ErrorsAfter(@, effect.result)]
  <2>1. r.changes = record.changes /\ r.invocation = record.invocation /\ DOMAIN r = DOMAIN record
    BY <1>1 DEF Records
  <2>2. Recorded(r).changes[record.invocation.id] # "none"
    BY <1>1, <1>2, <2>1 DEF Recorded, Records
  <2> QED BY <1>3, <2>2 DEF ReduceContext
<1>4. CASE Restart /\ record.status \in {"executing", "observing", "reducing"}
  <2>1. Retained(record).changes[record.invocation.id] # "none" /\ Retained(record) \in Records
    BY <1>1, <1>2, <1>4, RetainedType DEF Retained, Records
  <2> QED BY <1>4, <2>1 DEF Restart, Records
<1> QED BY <1>3, <1>4

LEMMA UnrecordedStep ==
  ASSUME {"invalid_result", "observation"} \cap Faults = {},
         IInv, IInv', ThreadInv, ThreadInv', IdsInv, InvocationFits, UnrecordedIsUnderWay, [Next]_vars
  PROVE  UnrecordedIsUnderWay'
<1> SUFFICES ASSUME NEW k \in 1 .. Len(ran'), record'.changes[ran'[k].id] = "none"
             PROVE  record'.invocation = ran'[k] /\ VerifiableChange(ran'[k]) /\ UnderWay'
  BY DEF UnrecordedIsUnderWay
<1>1. ran \in Seq(Intents) /\ \A j \in 1 .. Len(ran) : ran[j] \in Intents /\ ran[j].id \in Ids
  BY IdTypes
<1>2. CASE ExecuteIntent /\ ran' # ran
  <2> DEFINE i == effect.intents[1]
  <2>1. /\ i \in Intents /\ Mutates(i) /\ Runnable(i) /\ ran' = Append(ran, i)
        /\ effect'.type = "EXECUTING" /\ queue' = queue
    BY <1>2, SentChange
  <2>2. record' = record
    BY <1>2 DEF ExecuteIntent
  <2>3. record.invocation = i
    BY <1>2 DEF InvocationFits, ExecuteIntent
  <2> HIDE DEF i
  <2>4. ran'[k] = i
    <3>1. \/ k \in 1 .. Len(ran) /\ ran'[k] = ran[k]
          \/ ran'[k] = i
      BY <1>1, <2>1, AppendElements
    <3>2. ASSUME k \in 1 .. Len(ran), ran'[k] = ran[k] PROVE FALSE
      <4>1. UnderWay
        BY <2>2, <3>2 DEF UnrecordedIsUnderWay
      <4> QED BY <1>2, <4>1 DEF UnderWay, ExecuteIntent
    <3> QED BY <3>1, <3>2
  <2>5. queue' = <<>>
    BY <1>2, <2>1 DEF ThreadInv, Working, ExecuteIntent, AwaitEffects
  <2>6. VerifiableChange(i)
    BY <2>1, NoIntentAssumption DEF VerifiableChange, Runnable
  <2> QED BY <2>1, <2>2, <2>3, <2>4, <2>5, <2>6 DEF UnderWay
<1>3. CASE ran' = ran
  <2> DEFINE i == ran[k]
  <2>1. i \in Intents /\ i.id \in Ids /\ ran'[k] = i /\ k \in 1 .. Len(ran)
    BY <1>1, <1>3
  <2>2. record.changes[i.id] = "none"
    BY <2>1, RecordsStay
  <2>3. record.invocation = i /\ VerifiableChange(i) /\ UnderWay
    BY <2>1, <2>2 DEF UnrecordedIsUnderWay
  <2>4. record'.changes[i.id] = "none"
    BY <2>1
  <2> HIDE DEF i
  <2>5. MutationInFlight <=> record.status \in {"executing", "observing", "reducing", "evaluating", "verifying"}
    BY <2>3 DEF MutationInFlight, VerifiableChange
  <2>6. ~ReduceContext
    BY <2>3, <2>4, RecordingRecords
  <2>7. ~Restart
    <3>1. record.status \in {"executing", "observing", "reducing"}
      BY <2>3 DEF UnderWay, ThreadInv, Working, StatusOfEffect
    <3> QED BY <2>3, <2>4, <3>1, RecordingRecords
  <2>8. CASE effect.type \in {"EXECUTING", "BUILD_OBSERVATION", "REDUCE_CONTEXT"} /\ queue = <<>>
    <3>1. /\ record.status \in {"executing", "observing", "reducing"}
          /\ effect.type = "EXECUTING" => record.status = "executing"
          /\ effect.type = "BUILD_OBSERVATION" => record.status = "observing"
      BY <2>8 DEF ThreadInv, Working, StatusOfEffect
    <3>2. ~AcceptCommand
      BY <2>8 DEF AcceptCommand
    <3>3. record'.invocation = i /\ record'.status = record.status
      BY <2>3, <2>7, <3>2, OnlyTheseMove
    <3>4. CASE ExecutionEnds
      <4>1. PICK result : Enqueue(Command("EXECUTION_FINISHED", effect.intents, result))
        BY <3>4 DEF ExecutionEnds
      <4>2. Len(queue') = 1 /\ queue'[1].type = "EXECUTION_FINISHED" /\ effect'.type = "NONE"
        BY <2>8, <4>1 DEF Enqueue, Command, NoEffect
      <4> QED BY <2>1, <2>3, <3>1, <3>3, <3>4, <4>2 DEF UnderWay, ExecutionEnds
    <3>5. CASE BuildObservation
      <4>1. Enqueue(Command("OBSERVATION_READY", effect.intents, effect.result))
        BY <3>5 DEF BuildObservation
      <4>2. Len(queue') = 1 /\ queue'[1].type = "OBSERVATION_READY" /\ effect'.type = "NONE"
        BY <2>8, <4>1 DEF Enqueue, Command, NoEffect
      <4> QED BY <2>1, <2>3, <3>1, <3>3, <3>5, <4>2 DEF UnderWay, BuildObservation
    <3>6. CASE UserPause \/ UserCancel
      <4>1. MutationInFlight
        BY <2>5, <3>1
      <4>2. queue' = queue
        BY <3>6, <4>1 DEF UserPause, UserCancel
      <4>3. effect'.type = effect.type
        BY <3>6 DEF UserPause, UserCancel, Preempt, IInv, TypeOK, Effects
      <4> QED BY <2>1, <2>3, <2>8, <3>3, <4>2, <4>3 DEF UnderWay
    <3>7. CASE DeadlinePasses \/ UNCHANGED vars
      <4>1. queue' = queue /\ effect' = effect
        BY <3>7 DEF DeadlinePasses, vars
      <4> QED BY <2>1, <2>3, <2>8, <3>3, <4>1 DEF UnderWay
    <3>8. ~(\/ RunHarness \/ HarnessTurn \/ EvaluateIntent \/ Precheck \/ EvaluateReadBundle
            \/ ExecuteIntent \/ EvaluateProgress \/ RunMutationVerification \/ ChecksEnd
            \/ VerifyCompletion)
      BY <2>8 DEF RunHarness, HarnessTurn, EvaluateIntent, Precheck, EvaluateReadBundle,
        ExecuteIntent, EvaluateProgress, RunMutationVerification, ChecksEnd, VerifyCompletion
    <3> QED
      BY <2>6, <2>7, <2>8, <3>4, <3>5, <3>6, <3>7, <3>8, WhileRunning
  <2>9. CASE /\ effect.type = "NONE" /\ Len(queue) = 1
             /\ \/ record.status = "executing" /\ queue[1].type = "EXECUTION_FINISHED"
                \/ record.status = "observing" /\ queue[1].type = "OBSERVATION_READY"
    <3> DEFINE c == Head(queue)
    <3>1. queue # <<>> /\ c = queue[1]
      <4>1. Len(queue) = 1
        BY <2>9
      <4>2. queue \in Seq(Messages)
        BY DEF IInv
      <4>3. queue # <<>>
        BY <4>1, <4>2, OneIsNotEmpty
      <4> QED BY <4>2, <4>3, TailElements
    <3>2. ~IsTerminalStatus(record.status)
      BY <2>9 DEF IsTerminalStatus, TerminalStatuses
    <3> HIDE DEF c
    <3>3. Legal(record, c)
      BY <2>9, <3>1 DEF Legal, RequiredStatus, Target, PlainTarget, CanTransition, allowedTransitions
    <3>4. ~IgnoreCommand /\ ~RejectCommand
      BY <3>2, <3>3 DEF IgnoreCommand, RejectCommand, c
    <3>5. CASE UNCHANGED vars
      BY <2>1, <2>3, <3>5 DEF UnderWay, vars
    <3>6. CASE AcceptCommand
      <4>1. /\ queue' = Tail(queue) /\ effect' = EffectAfter(c)
            /\ record'.invocation = InvocationAfter(record, c)
            /\ queue \in Seq(Messages)
        BY <3>6, Accepted DEF c
      <4>2. queue' = <<>>
        BY <2>9, <4>1, TailElements, EmptySeq
      <4>3. record'.invocation = i
        BY <2>3, <2>9, <3>1, <4>1 DEF InvocationAfter
      <4>4. effect'.type \in {"BUILD_OBSERVATION", "REDUCE_CONTEXT"}
        BY <2>9, <3>1, <4>1 DEF EffectAfter, SafePointReached, NextEffect, Target, PlainTarget, EffectOf
      <4> QED BY <2>1, <2>3, <4>2, <4>3, <4>4 DEF UnderWay
    <3> QED BY <2>7, <2>9, <3>1, <3>4, <3>5, <3>6, WhileQueued
  <2> QED BY <2>3, <2>8, <2>9 DEF UnderWay
<1> QED
  BY <1>2, <1>3, OnlyExecutionSends

LEMMA UnrecordedInvariance ==
  ASSUME MaxResuming <= 1, {"invalid_result", "observation"} \cap Faults = {}
  PROVE  Spec => []UnrecordedIsUnderWay
<1>1. Init => InvocationFits /\ UnrecordedIsUnderWay
  BY DEF Init, InvocationFits, UnrecordedIsUnderWay, NoEffect, InitialRecord
<1>2. IInv /\ IInv' /\ ThreadInv /\ ThreadInv' /\ IdsInv /\ InvocationFits /\ UnrecordedIsUnderWay
        /\ [Next]_vars
      => InvocationFits' /\ UnrecordedIsUnderWay'
  BY InvocationStep, UnrecordedStep
<1> QED
  BY <1>1, <1>2, Invariance, ThreadInvariance, IdsInvariance, PTL DEF Spec

\* A change that was sent to the host is in the change records whenever the worker
\* rests, however it ended (context-manager.js, retainUncertainMutation).
\* Without the two faults only: a result the runtime refuses, or an observation that
\* cannot be built, throws before the change is recorded.
THEOREM StartedChangesAreRecorded ==
  ASSUME MaxResuming <= 1, {"invalid_result", "observation"} \cap Faults = {}
  PROVE  Spec => []StartedChangeIsRecorded
<1>1. UnrecordedIsUnderWay => StartedChangeIsRecorded
  BY DEF UnrecordedIsUnderWay, UnderWay, StartedChangeIsRecorded, Idle
<1> QED
  BY <1>1, UnrecordedInvariance, PTL

-----------------------------------------------------------------------------
(* A completion is earned: no change lacks its verdict when COMPLETE is       *)
(* pushed, none is made before it is reduced, and none after.                 *)

AllPassed == \A k \in 1 .. Len(ran) : record.changes[ran[k].id] = "passed"
Completing(q) == \E k \in 1 .. Len(q) : q[k].type = "COMPLETE"

CompletionIsEarned ==
  /\ record.status = "verifying" /\ Completing(queue) => AllPassed
  /\ record.status = "complete" => AllPassed

LEMMA LeadsToComplete ==
  ASSUME NEW c \in Messages, StatusAfter(c) = "complete"
  PROVE  c.type = "COMPLETE"
<1>1. c.type \in CommandTypes /\ WellFormed(c) /\ Target(record, c) = "complete"
  BY DEF Messages, Commands, StatusAfter
<1>2. CASE c.type \in DOMAIN PlainTarget
  BY <1>1, <1>2 DEF Target, PlainTarget
<1>3. CASE c.type \notin DOMAIN PlainTarget
  BY <1>1, <1>3 DEF CommandTypes, Target, WellFormed, PlannerTarget, PolicyTarget, ApprovalTarget,
                    VerifiedTarget, Verdicts
<1> QED BY <1>2, <1>3

\* COMPLETE is pushed by the verification of the completion alone.
LEMMA OnlyVerificationCompletes ==
  ASSUME IInv, IInv', ThreadInv, [Next]_vars, ~AcceptCommand, ~Restart,
         record.status = "verifying", Completing(queue'), ~Completing(queue)
  PROVE  VerifyCompletion /\ Enqueue(Command("COMPLETE", <<>>, "none"))
<1>1. queue \in Seq(Messages) /\ queue' \in Seq(Messages)
  BY DEF IInv
<1>2. ASSUME NEW m, queue' = Append(queue, m) PROVE m.type = "COMPLETE"
  <2>1. m \in Messages
    BY <1>1, <1>2, AppendedIsMessage
  <2> QED BY <1>1, <1>2, <2>1, TypeInQueue DEF Completing
<1>3. queue' # queue
  OBVIOUS
<1>4. CASE effect.type # "NONE"
  <2>1. effect.type \in {"RUN_MUTATION_VERIFICATION", "RUN_CHECKS", "VERIFY_COMPLETION"}
    BY <1>4 DEF ThreadInv, Working, StatusOfEffect, IInv, TypeOK, Effects, EffectTypes
  <2>2. ~UserPause /\ ~UserCancel
    BY <1>2, <1>3 DEF UserPause, UserCancel, UserCommand
  <2>3. ~ChecksEnd
    <3>1. ASSUME NEW id, NEW v, Enqueue(Verified(id, v)) PROVE FALSE
      BY <1>2, <3>1 DEF Enqueue, Verified
    <3>2. ~Throw
      BY <1>2, <1>3 DEF Throw, QueueAfterError, Command
    <3> QED BY <3>1, <3>2 DEF ChecksEnd
  <2>4. ~RunMutationVerification /\ ~DeadlinePasses /\ ~UNCHANGED vars
    BY <1>3 DEF RunMutationVerification, DeadlinePasses, vars
  <2>5. VerifyCompletion
    BY <1>4, <2>1, <2>2, <2>3, <2>4, WhileRunning DEF RunHarness, HarnessTurn, EvaluateIntent,
       Precheck, EvaluateReadBundle, ExecuteIntent, ExecutionEnds, BuildObservation, ReduceContext,
       EvaluateProgress
  <2>6. PICK type \in {"COMPLETE", "INCONCLUSIVE", "FAIL"} : Enqueue(Command(type, <<>>, "none"))
    BY <2>5 DEF VerifyCompletion
  <2>7. type = "COMPLETE"
    BY <1>2, <2>6 DEF Enqueue, Command
  <2> QED BY <2>5, <2>6, <2>7
<1>5. CASE effect.type = "NONE" /\ queue # <<>>
  <2>1. queue' = Tail(queue) \/ queue' = Append(Tail(queue), Command("FAIL", <<>>, "none"))
    BY <1>3, <1>5, WhileQueued DEF IgnoreCommand, RejectCommand, QueueAfterError, vars
  <2>2. /\ Tail(queue) \in Seq(Messages)
        /\ \A k \in 1 .. Len(Tail(queue)) : \E j \in 1 .. Len(queue) : Tail(queue)[k] = queue[j]
    BY <1>1, <1>5, LineShrinks, TailElements DEF ThreadInv
  <2>3. Command("FAIL", <<>>, "none") \in Messages
    BY PlainMessage
  <2>4. CASE queue' = Append(Tail(queue), Command("FAIL", <<>>, "none"))
    BY <2>2, <2>3, <2>4, TypeInQueue DEF Command, Completing
  <2> QED BY <2>1, <2>2, <2>4 DEF Completing
<1>6. CASE Idle
  <2>1. ~ResumeBound /\ ~UserPause /\ ~UserCancel
    BY <1>2, <1>3 DEF ResumeBound, UserPause, UserCancel, UserCommand
  <2>2. ~(ApprovalShown /\ Interruptible)
    BY ShownIsAwaited
  <2>3. /\ ~(\E forTask \in BOOLEAN : Approve(forTask))
        /\ ~(\E choice \in {"reject", "cancel_task", "expired"} : Decline(choice))
        /\ ~ReviseApproval
    BY <2>2 DEF Approve, Decline, ReviseApproval
  <2>4. ~ApprovalTimerFires
    BY DEF ApprovalTimerFires, ThreadInv, Approvals
  <2>5. ~UserResume /\ ~DeadlinePasses /\ ~UNCHANGED vars
    BY <1>3 DEF UserResume, DeadlinePasses, vars
  <2> QED BY <1>6, <2>1, <2>3, <2>4, <2>5, WhileIdle DEF User
<1> QED BY <1>4, <1>5, <1>6 DEF Idle

LEMMA EarnedStep ==
  ASSUME TRUE \notin DirectAnswers,
         IInv, IInv', ThreadInv, UnrecordedIsUnderWay, CompletionIsEarned, [Next]_vars
  PROVE  CompletionIsEarned'
<1>1. ran \in Seq(Intents) /\ \A k \in 1 .. Len(ran) : ran[k].id \in Ids
  BY IdTypes
<1>2. CASE AcceptCommand
  <2> DEFINE c == Head(queue)
  <2>1. /\ c \in Messages /\ Legal(record, c) /\ queue \in Seq(Messages) /\ queue # <<>>
        /\ queue' = Tail(queue) /\ record'.status = StatusAfter(c)
        /\ record'.changes = ChangesAfter(record, c)
        /\ ~IsTerminalStatus(record.status) /\ record \in Records
    BY <1>2, Accepted
  <2>2. 1 \in 1 .. Len(queue) /\ queue[1] = c
    BY <2>1, TailElements
  <2>3. /\ ~IsStop(c) => queue' = <<>>
        /\ Fits(c.type, record.status)
    BY <2>1, LineShrinks DEF ThreadInv
  <2>4. ran' = ran
    BY <1>2 DEF AcceptCommand, ghostVars
  <2> HIDE DEF c
  <2>5. record'.status = "verifying" => ~Completing(queue')
    <3>1. record'.status = "verifying" => ~IsStop(c)
      BY <2>1, AbortsStop DEF IsStop, Stops, Aborts, IsStopped, IsTerminalStatus, TerminalStatuses
    <3> QED BY <2>3, <3>1 DEF Completing
  <2>6. ASSUME record'.status = "complete" PROVE AllPassed'
    <3>1. c.type = "COMPLETE"
      BY <2>1, <2>6, LeadsToComplete
    <3>2. record.status # "paused"
      BY <2>1, <3>1, LegalFromPaused DEF Replans
    <3>3. record.status = "verifying"
      BY <2>1, <2>3, <3>1, <3>2 DEF Fits, Fresh, SourceOf
    <3>4. AllPassed
      BY <2>2, <3>1, <3>3 DEF CompletionIsEarned, Completing
    <3>5. record'.changes = record.changes
      BY <2>1, <3>1 DEF ChangesAfter
    <3> QED BY <2>4, <3>4, <3>5 DEF AllPassed
  <2> QED BY <2>5, <2>6 DEF CompletionIsEarned
<1>3. CASE Restart
  BY <1>3, RestartPauses DEF CompletionIsEarned
<1>4. CASE ~AcceptCommand /\ ~Restart
  <2>1. record'.status = record.status
    BY <1>4, OnlyTheseMove
  <2>2. ASSUME record.status = "complete" \/ (record.status = "verifying" /\ Completing(queue))
        PROVE  AllPassed'
    <3>1. effect.type = "NONE"
      <4>1. CASE record.status = "complete"
        BY <4>1 DEF IInv, FinishedIsIdle, IsTerminalStatus, TerminalStatuses
      <4>2. CASE Completing(queue)
        BY <4>2 DEF Completing, ThreadInv, Working, IsStop, Stops
      <4> QED BY <2>2, <4>1, <4>2
    <3>2. ~BuildObservation /\ ~ReduceContext /\ ~ExecuteIntent
      BY <3>1 DEF BuildObservation, ReduceContext, ExecuteIntent
    <3>3. record'.changes = record.changes /\ ran' = ran
      BY <1>4, <3>2, OnlyTheseJudge, OnlyExecutionSends
    <3> QED BY <2>2, <3>3 DEF AllPassed, CompletionIsEarned
  <2>3. ASSUME record.status = "verifying", Completing(queue'), ~Completing(queue)
        PROVE  AllPassed'
    <3>1. VerifyCompletion /\ Enqueue(Command("COMPLETE", <<>>, "none"))
      BY <1>4, <2>3, OnlyVerificationCompletes
    <3>2. UnverifiedChanges = {}
      <4>1. PICK direct \in DirectAnswers, type \in {"COMPLETE", "INCONCLUSIVE", "FAIL"} :
              /\ ~direct => (type = "FAIL" <=> UnverifiedChanges # {})
              /\ Enqueue(Command(type, <<>>, "none"))
        BY <3>1 DEF VerifyCompletion
      <4>2. ~direct
        BY <4>1, SessionAssumption
      <4>3. type = "COMPLETE"
        <5>1. queue \in Seq(Messages) /\ Command(type, <<>>, "none") \in Messages
              /\ Command("COMPLETE", <<>>, "none") \in Messages
          BY PlainMessage DEF IInv
        <5>2. Command(type, <<>>, "none") = Command("COMPLETE", <<>>, "none")
          BY <3>1, <4>1, <5>1, AppendElements DEF Enqueue
        <5> QED BY <5>2 DEF Command
      <4> QED BY <4>1, <4>2, <4>3
    <3>3. record' = record /\ ran' = ran /\ effect.type = "VERIFY_COMPLETION"
      BY <3>1 DEF VerifyCompletion, ghostVars
    <3>4. AllPassed
      <4>1. ~UnderWay
        BY <3>3 DEF UnderWay
      <4> QED BY <1>1, <3>2, <4>1 DEF AllPassed, UnverifiedChanges, UnrecordedIsUnderWay
    <3> QED BY <3>3, <3>4 DEF AllPassed
  <2> QED BY <2>1, <2>2, <2>3 DEF CompletionIsEarned
<1> QED BY <1>2, <1>3, <1>4

\* A task reported complete has verified every change it made (completion-evaluator.js,
\* completionOutcome), wherever it was paused, resumed or restarted in between.
\* A direct answer is excluded: it completes the task whatever its changes say.
THEOREM CompletionsAreEarned ==
  ASSUME MaxResuming <= 1, {"invalid_result", "observation"} \cap Faults = {},
         TRUE \notin DirectAnswers
  PROVE  Spec => []CompleteImpliesVerified
<1>1. Init => CompletionIsEarned
  BY DEF Init, CompletionIsEarned, InitialRecord
<1>2. IInv /\ IInv' /\ ThreadInv /\ UnrecordedIsUnderWay /\ CompletionIsEarned /\ [Next]_vars
      => CompletionIsEarned'
  BY EarnedStep
<1>3. CompletionIsEarned => CompleteImpliesVerified
  BY DEF CompletionIsEarned, AllPassed, CompleteImpliesVerified
<1> QED
  BY <1>1, <1>2, <1>3, Invariance, ThreadInvariance, UnrecordedInvariance, PTL DEF Spec

-----------------------------------------------------------------------------
(* What is planned.  The checks a change still owes come from its plan.      *)

PlannedKinds == UNION {Elements(p) : p \in Plans}
PlannedIn(obligations) ==
  \A k \in 1 .. Len(obligations) : Elements(obligations[k].checks) \subseteq PlannedKinds

LEMMA PlannedAreChecks == PlannedKinds \subseteq CheckKinds
<1> SUFFICES ASSUME NEW p \in Plans PROVE Elements(p) \subseteq CheckKinds
  BY DEF PlannedKinds
<1>1. p \in Seq(CheckKinds)
  BY PlansAssumption
<1> QED BY <1>1, ElementOfSeq DEF Elements

LEMMA PlannedTail ==
  ASSUME NEW S, NEW s \in Seq(S), s # <<>>
  PROVE  Elements(Tail(s)) \subseteq Elements(s) /\ Head(s) \in Elements(s)
<1>1. /\ Head(s) = s[1] /\ Len(s) \in Nat /\ Len(s) >= 1
      /\ \A k \in 1 .. Len(Tail(s)) : Tail(s)[k] = s[k + 1] /\ k + 1 \in 1 .. Len(s)
  BY TailElements
<1> QED BY <1>1 DEF Elements

LEMMA PlannedRest ==
  ASSUME NEW s \in Seq(Obligations), s # <<>>, PlannedIn(s)
  PROVE  PlannedIn(Tail(s)) /\ Elements(Head(s).checks) \subseteq PlannedKinds
<1>1. /\ Head(s) = s[1] /\ 1 \in 1 .. Len(s)
      /\ \A k \in 1 .. Len(Tail(s)) : Tail(s)[k] = s[k + 1] /\ k + 1 \in 1 .. Len(s)
  BY TailElements
<1> QED BY <1>1 DEF PlannedIn

LEMMA PlannedAdded ==
  ASSUME NEW s \in Seq(Obligations), PlannedIn(s), NEW owed \in Obligations,
         Elements(owed.checks) \subseteq PlannedKinds
  PROVE  PlannedIn(Append(s, owed))
<1> DEFINE more == Append(s, owed)
<1>1. /\ Len(s) \in Nat /\ Len(more) = Len(s) + 1 /\ more[Len(s) + 1] = owed
      /\ \A k \in 1 .. Len(s) : more[k] = s[k]
  BY AppendElements
<1> HIDE DEF more
<1>2. \A k \in 1 .. Len(more) : k \in 1 .. Len(s) \/ k = Len(s) + 1
  BY <1>1
<1>3. PlannedIn(more)
  BY <1>1, <1>2 DEF PlannedIn
<1> QED BY <1>3 DEF more

LEMMA PlannedChecked ==
  ASSUME IInv, PlannedIn(record.obligations), NEW verdict \in Verdicts,
         record.obligations # <<>>, CheckObserved(verdict)
  PROVE  PlannedIn(record'.obligations)
<1> DEFINE obligation == Head(record.obligations)
           worst      == Worse(obligation.worst, verdict)
           remaining  == Tail(obligation.checks)
           new        == [id |-> obligation.id, checks |-> remaining, worst |-> worst]
<1>1. record \in Records /\ record.obligations \in Seq(Obligations)
  BY DEF IInv, TypeOK, Records
<1>2. obligation \in Obligations /\ 1 \in 1 .. Len(record.obligations)
  BY <1>1, TailElements
<1>3. Elements(obligation.checks) \subseteq PlannedKinds /\ PlannedIn(Tail(record.obligations))
  BY <1>1, PlannedRest
<1>4. CASE remaining # <<>>
  <2>1. record' = [record EXCEPT !.obligations[1] = new]
    BY <1>4 DEF CheckObserved
  <2>2. record'.obligations = [record.obligations EXCEPT ![1] = new]
    BY <1>1, <2>1 DEF Records
  <2>3. Elements(new.checks) \subseteq PlannedKinds
    <3>1. obligation.checks \in Seq(CheckKinds) /\ obligation.checks # <<>>
      BY <1>2 DEF Obligations
    <3>2. Elements(remaining) \subseteq Elements(obligation.checks)
      BY <3>1, PlannedTail
    <3> QED BY <1>3, <3>2
  <2> HIDE DEF new, obligation
  <2>4. /\ Len(record'.obligations) = Len(record.obligations)
        /\ \A k \in 1 .. Len(record.obligations) :
             record'.obligations[k] = IF k = 1 THEN new ELSE record.obligations[k]
    BY <1>1, <1>2, <2>2
  <2> QED BY <2>3, <2>4 DEF PlannedIn
<1>5. CASE remaining = <<>>
  <2>1. record' = [record EXCEPT
                     !.changes[obligation.id] = IF @ = "none" THEN @ ELSE worst,
                     !.obligations = Tail(@)]
    BY <1>5 DEF CheckObserved
  <2>2. record'.obligations = Tail(record.obligations)
    BY <1>1, <2>1 DEF Records
  <2> QED BY <1>3, <2>2
<1> QED BY <1>4, <1>5

LEMMA PlannedRecorded ==
  ASSUME NEW r \in Records, PlannedIn(r.obligations)
  PROVE  PlannedIn(Recorded(r).obligations) /\ PlannedIn(Retained(r).obligations)
<1> DEFINE i == r.invocation
           owed == [id |-> i.id, checks |-> i.plan, worst |-> "passed"]
<1>1. r.obligations \in Seq(Obligations)
  BY DEF Records
<1>2. ASSUME VerifiableChange(i)
      PROVE  owed \in Obligations /\ Elements(owed.checks) \subseteq PlannedKinds
  <2>1. i \in Intents /\ i.plan # <<>>
    BY <1>2 DEF VerifiableChange, Records
  <2>2. i.id \in Ids /\ i.plan \in Plans /\ i.plan \in Seq(CheckKinds) \ {<<>>}
    BY <2>1, PlansAssumption DEF Intents
  <2> QED BY <2>2 DEF Obligations, Verdicts, PlannedKinds
<1>3. ASSUME VerifiableChange(i) PROVE PlannedIn(Append(r.obligations, owed))
  BY <1>1, <1>2, <1>3, PlannedAdded
<1>4. Recorded(r).obligations \in {r.obligations, Append(r.obligations, owed)}
      /\ (Recorded(r).obligations # r.obligations => VerifiableChange(i))
  BY DEF Recorded, Records
<1>5. Retained(r).obligations \in {r.obligations, Append(r.obligations, owed)}
      /\ (Retained(r).obligations # r.obligations => VerifiableChange(i))
  BY DEF Retained, Records
<1> QED BY <1>3, <1>4, <1>5

LEMMA PlannedStep ==
  IInv /\ PlannedIn(record.obligations) /\ [Next]_vars => PlannedIn(record.obligations)'
<1> SUFFICES ASSUME IInv, PlannedIn(record.obligations), [Next]_vars
             PROVE  PlannedIn(record'.obligations)
  OBVIOUS
<1>1. record \in Records /\ record.obligations \in Seq(Obligations)
  BY DEF IInv, TypeOK, Records
<1>2. CASE AcceptCommand
  <2>1. record'.obligations = ObligationsAfter(record, Head(queue))
    BY <1>2, Accepted
  <2> QED BY <1>1, <2>1, PlannedRest DEF ObligationsAfter
<1>3. CASE BuildObservation
  BY <1>3, PlannedChecked DEF BuildObservation, Verdicts
<1>4. CASE ReduceContext
  <2> DEFINE r == [record EXCEPT !.errors = ErrorsAfter(@, effect.result)]
  <2>1. r \in Records
    <3>1. record.errors \in 0 .. (MaxErrors + 1)
      BY <1>1 DEF Records
    <3>2. ErrorsAfter(record.errors, effect.result) \in 0 .. (MaxErrors + 1)
      BY <3>1, BudgetAssumption DEF ErrorsAfter, Capped
    <3> QED BY <1>1, <3>2 DEF Records
  <2>2. r.obligations = record.obligations
    BY <1>1 DEF Records
  <2>3. record' = Recorded(r)
    BY <1>4 DEF ReduceContext
  <2> HIDE DEF r
  <2> QED BY <2>1, <2>2, <2>3, PlannedRecorded
<1>5. CASE Restart
  <2>1. Retained(record) \in Records
    BY <1>1, RetainedType
  <2>2. record'.obligations = Retained(record).obligations
    BY <1>5, <2>1 DEF Restart, Records
  <2> QED BY <1>1, <2>2, PlannedRecorded
<1>6. CASE ~AcceptCommand /\ ~BuildObservation /\ ~ReduceContext /\ ~Restart
  BY <1>6, OnlyTheseJudge
<1> QED BY <1>2, <1>3, <1>4, <1>5, <1>6

LEMMA PlannedInvariance == Spec => []PlannedIn(record.obligations)
<1>1. Init => PlannedIn(record.obligations)
  BY DEF Init, InitialRecord, PlannedIn
<1> QED BY <1>1, PlannedStep, Invariance, PTL DEF Spec

-----------------------------------------------------------------------------
(* What is offered.  Every intent the runtime handles is of a kind that is   *)
(* offered, or is one of the checks it planned, which change nothing.        *)

Offered(i) == i.kind \in OfferedKinds \cup PlannedKinds /\ (i.check => i.kind \in PlannedKinds)
AllOffered(s) == \A n \in 1 .. Len(s) : Offered(s[n])
QueueOffered(q) == \A k \in 1 .. Len(q) : AllOffered(q[k].intents)

OfferedInv ==
  /\ QueueOffered(queue) /\ AllOffered(effect.intents)
  /\ entry.state = "live" => Offered(entry.intent)
  /\ \A i \in issued : Offered(i)

LEMMA OfferedPass ==
  ASSUME IInv, IInv', OfferedInv,
         \/ queue' = queue
         \/ \E m : AllOffered(m.intents) /\ queue' = Append(queue, m),
         AllOffered(effect'.intents),
         entry'.state = "live" => Offered(entry'.intent),
         \A i \in issued' : Offered(i)
  PROVE  OfferedInv'
<1>1. CASE queue' = queue
  BY <1>1 DEF OfferedInv
<1>2. ASSUME NEW m, AllOffered(m.intents), queue' = Append(queue, m)
      PROVE  OfferedInv'
  <2>1. queue \in Seq(Messages) /\ Append(queue, m) \in Seq(Messages)
    BY <1>2 DEF IInv
  <2>2. m \in Messages
    BY <2>1, AppendedIsMessage
  <2>3. \A k \in 1 .. Len(queue') : queue'[k] = m \/ \E j \in 1 .. Len(queue) : queue'[k] = queue[j]
    BY <1>2, <2>1, <2>2, TypeInQueue
  <2>4. QueueOffered(queue)'
    BY <1>2, <2>3 DEF QueueOffered, OfferedInv
  <2> QED BY <2>4 DEF OfferedInv
<1> QED BY <1>1, <1>2

LEMMA OfferedKept ==
  ASSUME OfferedInv, entry' = entry \/ entry' = Resolved(entry), issued' \subseteq issued
  PROVE  /\ entry'.state = "live" => Offered(entry'.intent)
         /\ \A i \in issued' : Offered(i)
<1>1. Resolved(entry).state # "live"
  BY DEF Resolved
<1> QED BY <1>1 DEF OfferedInv

LEMMA OfferedOutcome ==
  ASSUME IInv, IInv', OfferedInv,
         \/ \E m : AllOffered(m.intents) /\ Enqueue(m)
         \/ Throw
         \/ queue' = queue /\ effect'.intents = effect.intents,
         entry' = entry \/ entry' = Resolved(entry), issued' \subseteq issued
  PROVE  OfferedInv'
<1>1. /\ entry'.state = "live" => Offered(entry'.intent)
      /\ \A i \in issued' : Offered(i)
  BY OfferedKept
<1>2. AllOffered(<<>>)
  BY DEF AllOffered
<1>3. CASE \E m : AllOffered(m.intents) /\ Enqueue(m)
  <2>1. PICK m : AllOffered(m.intents) /\ Enqueue(m)
    BY <1>3
  <2>2. queue' = Append(queue, m) /\ AllOffered(effect'.intents)
    BY <2>1, <1>2 DEF Enqueue, NoEffect
  <2> QED BY <1>1, <2>1, <2>2, OfferedPass
<1>4. CASE Throw
  <2>1. AllOffered(effect'.intents)
    BY <1>4, <1>2 DEF Throw, NoEffect
  <2>2. AllOffered(Command("FAIL", <<>>, "none").intents)
    BY <1>2 DEF Command
  <2>3. queue' = queue \/ queue' = Append(queue, Command("FAIL", <<>>, "none"))
    BY <1>4 DEF Throw, QueueAfterError
  <2> QED BY <1>1, <2>1, <2>2, <2>3, OfferedPass
<1>5. CASE queue' = queue /\ effect'.intents = effect.intents
  <2>1. AllOffered(effect'.intents)
    BY <1>5 DEF OfferedInv
  <2> QED BY <1>1, <1>5, <2>1, OfferedPass
<1> QED BY <1>3, <1>4, <1>5

LEMMA OfferedPlain ==
  ASSUME NEW t, NEW res
  PROVE  AllOffered(Command(t, <<>>, res).intents)
  BY DEF Command, AllOffered

LEMMA ProposalsOffered ==
  ASSUME IInv, NEW s \in Proposals
  PROVE  AllOffered(s)
<1>1. \A id \in {2 * record.steps, 2 * record.steps + 1} : \A i \in Proposable(id) : Offered(i)
  BY DEF Proposable, Offered
<1>2. CASE \E i \in Proposable(2 * record.steps) : s = <<i>>
  BY <1>1, <1>2 DEF AllOffered
<1>3. CASE s \in Proposable(2 * record.steps) \X Proposable(2 * record.steps + 1)
  <2>1. Len(s) = 2 /\ s[1] \in Proposable(2 * record.steps) /\ s[2] \in Proposable(2 * record.steps + 1)
    BY <1>3
  <2> QED BY <1>1, <2>1 DEF AllOffered
<1> QED BY <1>2, <1>3 DEF Proposals

LEMMA OfferedHarness ==
  IInv /\ IInv' /\ OfferedInv /\ (RunHarness \/ HarnessTurn) => OfferedInv'
<1> SUFFICES ASSUME IInv, IInv', OfferedInv, RunHarness \/ HarnessTurn
             PROVE  OfferedInv'
  OBVIOUS
<1>1. CASE RunHarness
  <2>1. \/ \E m : AllOffered(m.intents) /\ Enqueue(m)
        \/ queue' = queue /\ effect'.intents = effect.intents
    <3>1. AllOffered(Command("INCONCLUSIVE", <<>>, "none").intents)
      BY OfferedPlain
    <3>2. \/ Enqueue(Command("INCONCLUSIVE", <<>>, "none"))
          \/ queue' = queue /\ effect' = [effect EXCEPT !.type = "HARNESS_TURN"]
      BY <1>1 DEF RunHarness
    <3>3. effect \in Effects
      BY DEF IInv, TypeOK
    <3> QED BY <3>1, <3>2, <3>3 DEF Effects
  <2> QED BY <1>1, <2>1, OfferedOutcome DEF RunHarness, gatewayVars
<1>2. CASE HarnessTurn
  <2>1. \A result : \A intents \in (IF result = "continue" THEN Proposals ELSE {<<>>}) :
          AllOffered(Command("PLANNER_DECISION", intents, result).intents)
    <3>1. \A intents \in Proposals : AllOffered(intents)
      BY ProposalsOffered
    <3> QED BY <3>1 DEF Command, AllOffered
  <2>2. (\E m : AllOffered(m.intents) /\ Enqueue(m)) \/ Throw
    BY <1>2, <2>1 DEF HarnessTurn
  <2> QED BY <1>2, <2>2, OfferedOutcome DEF HarnessTurn, gatewayVars
<1> QED BY <1>1, <1>2

LEMMA OfferedEffects ==
  IInv /\ IInv' /\ OfferedInv /\ (\/ Precheck \/ ExecuteIntent \/ ExecutionEnds \/ BuildObservation
                                  \/ ReduceContext \/ RunMutationVerification \/ ChecksEnd
                                  \/ VerifyCompletion)
    => OfferedInv'
<1> SUFFICES ASSUME IInv, IInv', OfferedInv
             PROVE  (\/ Precheck \/ ExecuteIntent \/ ExecutionEnds \/ BuildObservation
                     \/ ReduceContext \/ RunMutationVerification \/ ChecksEnd
                     \/ VerifyCompletion) => OfferedInv'
  OBVIOUS
<1> DEFINE Ends == \/ \E m : AllOffered(m.intents) /\ Enqueue(m)
                   \/ Throw
                   \/ queue' = queue /\ effect'.intents = effect.intents
<1>0. \A t, res : AllOffered(Command(t, effect.intents, res).intents)
  BY DEF Command, OfferedInv
<1>1. ASSUME Precheck PROVE OfferedInv'
  <2>1. Ends
    BY <1>1, <1>0 DEF Precheck, PolicyDecided
  <2> QED BY <1>1, <2>1, OfferedOutcome DEF Precheck, gatewayVars
<1>2. ASSUME ExecuteIntent PROVE OfferedInv'
  <2>1. Ends /\ issued' \subseteq issued
    <3>1. CASE Throw /\ issued' = issued
      BY <3>1
    <3>2. CASE /\ issued' = issued \ Elements(effect.intents) /\ queue' = queue
               /\ effect' = [effect EXCEPT !.type = "EXECUTING", !.doomed = (signal = "aborted")]
      <4>1. effect \in Effects
        BY DEF IInv, TypeOK
      <4> QED BY <3>2, <4>1 DEF Effects
    <3> QED BY <1>2, <3>1, <3>2 DEF ExecuteIntent
  <2> QED BY <1>2, <2>1, OfferedOutcome DEF ExecuteIntent
<1>3. ASSUME ExecutionEnds PROVE OfferedInv'
  <2>1. Ends
    BY <1>3, <1>0 DEF ExecutionEnds
  <2> QED BY <1>3, <2>1, OfferedOutcome DEF ExecutionEnds, gatewayVars
<1>4. ASSUME BuildObservation PROVE OfferedInv'
  <2>1. Ends
    BY <1>4, <1>0 DEF BuildObservation
  <2> QED BY <1>4, <2>1, OfferedOutcome DEF BuildObservation, gatewayVars
<1>5. ASSUME ReduceContext PROVE OfferedInv'
  <2>1. Ends
    BY <1>5, OfferedPlain DEF ReduceContext
  <2> QED BY <1>5, <2>1, OfferedOutcome DEF ReduceContext, gatewayVars
<1>6. ASSUME RunMutationVerification PROVE OfferedInv'
  <2>1. Ends
    BY <1>6 DEF RunMutationVerification
  <2> QED BY <1>6, <2>1, OfferedOutcome DEF RunMutationVerification, gatewayVars
<1>7. ASSUME ChecksEnd PROVE OfferedInv'
  <2>1. \A id, v : AllOffered(Verified(id, v).intents)
    BY DEF Verified, AllOffered
  <2>2. Ends
    BY <1>7, <2>1 DEF ChecksEnd
  <2> QED BY <1>7, <2>2, OfferedOutcome DEF ChecksEnd, gatewayVars
<1>8. ASSUME VerifyCompletion PROVE OfferedInv'
  <2>1. Ends
    BY <1>8, OfferedPlain DEF VerifyCompletion
  <2> QED BY <1>8, <2>1, OfferedOutcome DEF VerifyCompletion, gatewayVars
<1> QED BY <1>1, <1>2, <1>3, <1>4, <1>5, <1>6, <1>7, <1>8

LEMMA OfferedEvaluateProgress ==
  IInv /\ IInv' /\ PlannedIn(record.obligations) /\ OfferedInv /\ EvaluateProgress => OfferedInv'
<1> SUFFICES ASSUME IInv, IInv', PlannedIn(record.obligations), OfferedInv, EvaluateProgress
             PROVE  OfferedInv'
  OBVIOUS
<1>1. ASSUME record.obligations # <<>>
      PROVE  Head(Head(record.obligations).checks) \in PlannedKinds
  <2>1. record.obligations \in Seq(Obligations)
    BY DEF IInv, TypeOK, Records
  <2>2. Head(record.obligations) \in Obligations
    BY <1>1, <2>1, TailElements
  <2>3. Head(record.obligations).checks \in Seq(CheckKinds) /\ Head(record.obligations).checks # <<>>
    BY <2>2 DEF Obligations
  <2>4. Elements(Head(record.obligations).checks) \subseteq PlannedKinds
    BY <1>1, <2>1, PlannedRest
  <2> QED BY <2>3, <2>4, PlannedTail
<1>2. \A kind \in PlannedKinds :
        AllOffered(Command("FOLLOW_UP_PROPOSED", <<FollowUp(kind)>>, "none").intents)
  BY DEF Command, AllOffered, FollowUp, Offered
<1>3. AllOffered(ProgressCommand.intents)
  <2> DEFINE check == Head(Head(record.obligations).checks)
  <2>1. CASE record.obligations # <<>>
    <3>1. AllOffered(Command("FOLLOW_UP_PROPOSED", <<FollowUp(check)>>, "none").intents)
      BY <1>1, <1>2, <2>1
    <3> QED BY <2>1, <3>1, OfferedPlain DEF ProgressCommand
  <2>2. CASE record.obligations = <<>>
    BY <2>2, OfferedPlain DEF ProgressCommand
  <2> QED BY <2>1, <2>2
<1>4. Enqueue(ProgressCommand)
  BY DEF EvaluateProgress
<1> QED BY <1>3, <1>4, OfferedOutcome DEF EvaluateProgress, gatewayVars

LEMMA OfferedPrepared ==
  ASSUME IInv, OfferedInv, NEW s \in Seq(Intents), Len(s) \in {1, 2}, AllOffered(s), Prepare(s)
  PROVE  /\ entry'.state = "live" => Offered(entry'.intent)
         /\ \A i \in issued' : Offered(i)
<1>1. Len(s) \in 1 .. Len(s)
  OBVIOUS
<1>2. Offered(s[Len(s)])
  BY <1>1 DEF AllOffered
<1>3. entry' = [intent |-> s[Len(s)], state |-> "live"] \/ entry' = entry
  BY DEF Prepare
<1>4. entry'.state = "live" => Offered(entry'.intent)
  BY <1>2, <1>3 DEF OfferedInv
<1>5. \A i \in issued' : i \in issued \/ \E k \in 1 .. Len(s) : i = s[k]
  BY DEF Prepare
<1> QED BY <1>4, <1>5 DEF OfferedInv, AllOffered

LEMMA OfferedEvaluate ==
  IInv /\ IInv' /\ OfferedInv /\ (EvaluateIntent \/ EvaluateReadBundle) => OfferedInv'
<1> SUFFICES ASSUME IInv, IInv', OfferedInv, EvaluateIntent \/ EvaluateReadBundle
             PROVE  OfferedInv'
  OBVIOUS
<1>0. ASSUME Throw, gatewayVars' = gatewayVars PROVE OfferedInv'
  BY <1>0, OfferedOutcome DEF gatewayVars
<1>1. effect.intents \in Seq(Intents) /\ AllOffered(effect.intents) /\ AllOffered(<<>>)
  BY DEF IInv, TypeOK, Effects, OfferedInv, AllOffered
<1>2. CASE EvaluateIntent
  <2> DEFINE i == effect.intents[1]
  <2>1. Len(effect.intents) = 1
    BY <1>2 DEF EvaluateIntent
  <2>2. i \in Intents /\ Offered(i)
    BY <1>1, <2>1 DEF AllOffered
  <2> HIDE DEF i
  <2>3. <<i>> \in Seq(Intents) /\ Len(<<i>>) = 1 /\ AllOffered(<<i>>)
    BY <2>2 DEF AllOffered
  <2>4. CASE Throw /\ gatewayVars' = gatewayVars
    BY <2>4, <1>0
  <2>5. CASE Prepare(<<i>>) /\ Enqueue(PolicyDecided(<<i>>, PolicyOutcome(i)))
    <3>1. /\ queue' = Append(queue, PolicyDecided(<<i>>, PolicyOutcome(i)))
          /\ AllOffered(effect'.intents)
          /\ AllOffered(PolicyDecided(<<i>>, PolicyOutcome(i)).intents)
      BY <1>1, <2>3, <2>5 DEF Enqueue, NoEffect, PolicyDecided, Command
    <3> QED BY <2>3, <2>5, <3>1, OfferedPrepared, OfferedPass
  <2>6. CASE /\ Prepare(<<i>>) /\ queue' = queue
             /\ effect' = [effect EXCEPT !.type = "PRECHECK", !.result = PolicyOutcome(i)]
    <3>1. AllOffered(effect'.intents)
      BY <1>1, <2>6 DEF IInv, TypeOK, Effects
    <3> QED BY <2>3, <2>6, <3>1, OfferedPrepared, OfferedPass
  <2> QED BY <1>2, <2>4, <2>5, <2>6 DEF EvaluateIntent, i
<1>3. CASE EvaluateReadBundle
  <2> DEFINE a == effect.intents[1]
             b == effect.intents[2]
  <2>1. Len(effect.intents) = 2
    BY <1>3 DEF EvaluateReadBundle
  <2>2. a \in Intents /\ b \in Intents /\ Offered(a) /\ Offered(b)
    BY <1>1, <2>1 DEF AllOffered
  <2>3. \/ Throw /\ gatewayVars' = gatewayVars
        \/ \E prepared, chosen \in {<<a>>, <<b>>, <<a, b>>} : \E verdict :
             Prepare(prepared) /\ Enqueue(PolicyDecided(chosen, verdict))
    BY <1>3, Zenon DEF EvaluateReadBundle, a, b
  <2> HIDE DEF a, b
  <2>4. \A s \in {<<a>>, <<b>>, <<a, b>>} : s \in Seq(Intents) /\ Len(s) \in {1, 2} /\ AllOffered(s)
    <3>1. <<a>> \in Seq(Intents) /\ Len(<<a>>) = 1 /\ AllOffered(<<a>>)
      BY <2>2 DEF AllOffered
    <3>2. <<b>> \in Seq(Intents) /\ Len(<<b>>) = 1 /\ AllOffered(<<b>>)
      BY <2>2 DEF AllOffered
    <3>3. <<a, b>> \in Seq(Intents) /\ Len(<<a, b>>) = 2
      BY <2>2
    <3>4. \A n \in 1 .. 2 : Offered(<<a, b>>[n])
      BY <2>2
    <3> QED BY <3>1, <3>2, <3>3, <3>4 DEF AllOffered
  <2>5. CASE Throw /\ gatewayVars' = gatewayVars
    BY <2>5, <1>0
  <2>6. ASSUME NEW prepared \in {<<a>>, <<b>>, <<a, b>>}, NEW chosen \in {<<a>>, <<b>>, <<a, b>>},
               NEW verdict, Prepare(prepared), Enqueue(PolicyDecided(chosen, verdict))
        PROVE  OfferedInv'
    <3>1. /\ queue' = Append(queue, PolicyDecided(chosen, verdict))
          /\ AllOffered(effect'.intents)
          /\ AllOffered(PolicyDecided(chosen, verdict).intents)
      BY <1>1, <2>4, <2>6 DEF Enqueue, NoEffect, PolicyDecided, Command
    <3> QED BY <2>4, <2>6, <3>1, OfferedPrepared, OfferedPass
  <2> QED BY <2>3, <2>5, <2>6
<1> QED BY <1>2, <1>3

LEMMA OfferedAnswers ==
  IInv /\ IInv' /\ OfferedInv /\ (\/ \E forTask \in BOOLEAN : Approve(forTask)
                                  \/ \E choice \in {"reject", "cancel_task", "expired"} : Decline(choice)
                                  \/ ReviseApproval \/ ApprovalTimerFires)
    => OfferedInv'
<1> SUFFICES ASSUME IInv, IInv', OfferedInv
             PROVE  (\/ \E forTask \in BOOLEAN : Approve(forTask)
                     \/ \E choice \in {"reject", "cancel_task", "expired"} : Decline(choice)
                     \/ ReviseApproval \/ ApprovalTimerFires) => OfferedInv'
  OBVIOUS
<1>1. AllOffered(effect.intents) /\ AllOffered(<<>>)
  BY DEF OfferedInv, AllOffered
<1>2. ASSUME NEW t, NEW s, NEW res, NEW origin, AllOffered(s), Answer(t, s, res, origin)
      PROVE  \E m : AllOffered(m.intents) /\ queue' = Append(queue, m)
  <2> DEFINE m == [type |-> t, origin |-> origin, intents |-> s, result |-> res, change |-> 0]
  <2>1. AllOffered(m.intents) /\ queue' = Append(queue, m)
    BY <1>2 DEF Answer
  <2> QED BY <2>1
<1>3. entry.state = "live" => entry.intent \in Intents /\ AllOffered(<<entry.intent>>)
  BY DEF OfferedInv, AllOffered, IInv, TypeOK, Entries, NoEntry
<1>4. ASSUME NEW forTask \in BOOLEAN, Approve(forTask) PROVE OfferedInv'
  <2>1. entry.state = "live" /\ Offered(entry.intent)
    BY <1>4 DEF Approve, ApprovalShown, OfferedInv
  <2>2. \E m : AllOffered(m.intents) /\ queue' = Append(queue, m)
    BY <1>2, <1>3, <1>4, <2>1 DEF Approve
  <2>3. entry' = Resolved(entry) /\ issued' \subseteq issued \cup {entry.intent} /\ effect' = effect
    BY <1>4 DEF Approve
  <2>4. entry'.state # "live"
    BY <2>3 DEF Resolved
  <2>5. \A i \in issued' : Offered(i)
    BY <2>1, <2>3 DEF OfferedInv
  <2> QED BY <1>1, <2>2, <2>3, <2>4, <2>5, OfferedPass
<1>5. ASSUME NEW choice \in {"reject", "cancel_task", "expired"}, Decline(choice) PROVE OfferedInv'
  <2>1. \E m : AllOffered(m.intents) /\ queue' = Append(queue, m)
    BY <1>1, <1>2, <1>5 DEF Decline
  <2>2. entry' = Resolved(entry) /\ issued' = issued /\ effect' = effect
    BY <1>5 DEF Decline
  <2> QED BY <1>1, <2>1, <2>2, OfferedKept, OfferedPass
<1>6. ASSUME ReviseApproval PROVE OfferedInv'
  <2>1. entry.intent \in Intents
    BY <1>3, <1>6 DEF ReviseApproval, ApprovalShown
  <2>2. ASSUME NEW content \in Contents, NEW kind \in OfferedKinds
        PROVE  AllOffered(<<[entry.intent EXCEPT !.content = content, !.kind = kind,
                                                 !.check = FALSE]>>)
    <3> DEFINE i == [entry.intent EXCEPT !.content = content, !.kind = kind, !.check = FALSE]
    <3>1. i.kind = kind /\ i.check = FALSE
      BY <2>1 DEF Intents
    <3> HIDE DEF i
    <3>2. AllOffered(<<i>>)
      BY <3>1 DEF AllOffered, Offered
    <3> QED BY <3>2 DEF i
  <2>3. \E m : AllOffered(m.intents) /\ queue' = Append(queue, m)
    BY <1>2, <1>6, <2>2 DEF ReviseApproval
  <2>4. entry' = Resolved(entry) /\ issued' = issued /\ effect' = effect
    BY <1>6 DEF ReviseApproval
  <2> QED BY <1>1, <2>3, <2>4, OfferedKept, OfferedPass
<1>7. ASSUME ApprovalTimerFires PROVE OfferedInv'
  <2>1. queue' = queue \/ \E m : AllOffered(m.intents) /\ queue' = Append(queue, m)
    BY <1>1, <1>2, <1>7 DEF ApprovalTimerFires
  <2>2. entry' = Resolved(entry) /\ issued' = issued /\ effect' = effect
    BY <1>7 DEF ApprovalTimerFires
  <2> QED BY <1>1, <2>1, <2>2, OfferedKept, OfferedPass
<1> QED BY <1>4, <1>5, <1>6, <1>7

LEMMA OfferedControls ==
  IInv /\ IInv' /\ OfferedInv /\ (\/ UserPause \/ UserCancel \/ UserResume \/ ResumeBound
                                  \/ DeadlinePasses \/ UNCHANGED vars)
    => OfferedInv'
<1> SUFFICES ASSUME IInv, IInv', OfferedInv
             PROVE  (\/ UserPause \/ UserCancel \/ UserResume \/ ResumeBound
                     \/ DeadlinePasses \/ UNCHANGED vars) => OfferedInv'
  OBVIOUS
<1>1. AllOffered(effect.intents) /\ \A t, res : AllOffered(UserCommand(t, <<>>, res).intents)
  BY DEF OfferedInv, AllOffered, UserCommand
<1>2. ASSUME queue' = queue \/ \E t, res : queue' = Append(queue, UserCommand(t, <<>>, res)),
             effect'.intents = effect.intents,
             entry' = entry \/ entry' = Resolved(entry), issued' \subseteq issued
      PROVE  OfferedInv'
  BY <1>1, <1>2, OfferedKept, OfferedPass
<1>3. ASSUME Preempt PROVE effect'.intents = effect.intents
  BY <1>3, PreemptType
<1>4. UserPause => OfferedInv'
  BY <1>2, <1>3 DEF UserPause, gatewayVars
<1>5. UserCancel => OfferedInv'
  BY <1>2, <1>3 DEF UserCancel, gatewayVars
<1>6. UserResume => OfferedInv'
  BY <1>2 DEF UserResume, gatewayVars
<1>7. ResumeBound => OfferedInv'
  BY <1>2 DEF ResumeBound, RevokeTask, gatewayVars
<1>8. DeadlinePasses => OfferedInv'
  BY <1>2 DEF DeadlinePasses, gatewayVars
<1>9. UNCHANGED vars => OfferedInv'
  BY <1>2 DEF vars
<1> QED BY <1>4, <1>5, <1>6, <1>7, <1>8, <1>9

LEMMA OfferedMailbox ==
  IInv /\ IInv' /\ OfferedInv /\ (IgnoreCommand \/ RejectCommand \/ AcceptCommand \/ Restart)
    => OfferedInv'
<1> SUFFICES ASSUME IInv, IInv', OfferedInv
             PROVE  (IgnoreCommand \/ RejectCommand \/ AcceptCommand \/ Restart) => OfferedInv'
  OBVIOUS
<1>1. queue \in Seq(Messages) /\ AllOffered(<<>>) /\ AllOffered(effect.intents)
  BY DEF IInv, AllOffered, OfferedInv
<1>2. ASSUME queue # <<>>
      PROVE  AllOffered(Head(queue).intents) /\ QueueOffered(Tail(queue))
    BY <1>1, <1>2, TailElements DEF QueueOffered, OfferedInv
<1>3. ASSUME IgnoreCommand PROVE OfferedInv'
  BY <1>2, <1>3, OfferedKept DEF IgnoreCommand, OfferedInv, gatewayVars
<1>4. ASSUME RejectCommand PROVE OfferedInv'
  <2>1. Tail(queue) \in Seq(Messages) /\ QueueOffered(Tail(queue))
    BY <1>1, <1>2, <1>4, TailElements DEF RejectCommand
  <2>2. \A q \in Seq(Messages) : QueueOffered(q) =>
          QueueOffered(Append(q, Command("FAIL", <<>>, "none")))
    BY PlainMessage, TypeInQueue, OfferedPlain DEF QueueOffered
  <2>3. QueueOffered(queue')
    BY <1>4, <2>1, <2>2 DEF RejectCommand, QueueAfterError
  <2> QED BY <1>4, <2>3 DEF RejectCommand, OfferedInv, QueueOffered, gatewayVars
<1>5. ASSUME AcceptCommand PROVE OfferedInv'
  <2> DEFINE c == Head(queue)
  <2>1. queue # <<>> /\ queue' = Tail(queue) /\ effect' = EffectAfter(c)
    BY <1>5, Accepted
  <2>2. QueueOffered(queue') /\ AllOffered(c.intents)
    BY <1>2, <2>1
  <2> HIDE DEF c
  <2>3. EffectAfter(c).intents \in {c.intents, <<>>}
    BY DEF EffectAfter, NoEffect
  <2>4. AllOffered(effect'.intents)
    BY <1>1, <2>1, <2>2, <2>3
  <2>5. (entry' = entry \/ entry' = Resolved(entry)) /\ issued' \subseteq issued
    BY <1>5 DEF AcceptCommand, RevokeTask, gatewayVars
  <2> QED BY <2>2, <2>4, <2>5, OfferedKept DEF OfferedInv, QueueOffered
<1>6. ASSUME Restart PROVE OfferedInv'
  BY <1>1, <1>6 DEF Restart, OfferedInv, QueueOffered, NoEffect, NoEntry
<1> QED BY <1>3, <1>4, <1>5, <1>6

LEMMA OfferedStep ==
  IInv /\ IInv' /\ PlannedIn(record.obligations) /\ OfferedInv /\ [Next]_vars => OfferedInv'
  BY OfferedHarness, OfferedEffects, OfferedEvaluateProgress, OfferedEvaluate, OfferedAnswers,
     OfferedControls, OfferedMailbox DEF Next, Worker, User

LEMMA OfferedInvariance == Spec => []OfferedInv
<1>1. Init => OfferedInv
  <2>1. Init => Len(queue) = 1 /\ queue[1] = Command("OBJECTIVE_READY", <<>>, "none")
    BY DEF Init
  <2> QED BY <2>1, OfferedPlain
        DEF Init, OfferedInv, QueueOffered, AllOffered, NoEffect, NoEntry
<1>2. /\ IInv /\ IInv' /\ PlannedIn(record.obligations) /\ OfferedInv /\ [Next]_vars
      => OfferedInv'
  BY OfferedStep
<1> QED BY <1>1, <1>2, Invariance, PlannedInvariance, PTL DEF Spec

-----------------------------------------------------------------------------
(* The approval asked for is open until it is answered. *)

Asked(x) == x.type \in {"POLICY_DECIDED", "PRECHECK"} /\ x.result = "require_approval"
Open(i) == entry.state = "live" /\ entry.intent = i
AnswerTypes == Stops \cup {"APPROVAL_RESOLVED", "APPROVAL_REVISED"}

AskedIsOpen ==
  /\ Asked(effect) => Open(effect.intents[1])
  /\ record.status = "policy_check" =>
       \A k \in 1 .. Len(queue) : Asked(queue[k]) => Open(queue[k].intents[1])
  /\ record.status = "awaiting_approval" =>
       /\ \A k \in 1 .. Len(queue) : queue[k].type \in AnswerTypes
       /\ (\A k \in 1 .. Len(queue) : IsStop(queue[k])) => Open(record.approval) /\ timer

LEMMA AskedElsewhere ==
  ASSUME IInv', ThreadInv', record'.status \notin {"policy_check", "awaiting_approval"}
  PROVE  AskedIsOpen'
<1>1. effect'.type # "NONE" => record'.status = StatusOfEffect[effect'.type]
  BY DEF ThreadInv, Working
<1>2. effect'.type # "PRECHECK"
  BY <1>1 DEF StatusOfEffect
<1>3. effect'.type # "POLICY_DECIDED"
  BY DEF IInv, TypeOK, Effects, EffectTypes
<1> QED BY <1>2, <1>3 DEF AskedIsOpen, Asked

\* While the policy decides, what is asked is what the newest entry shows.
LEMMA AskedDecided ==
  ASSUME IInv, IInv', ThreadInv, effect.type \in {"EVALUATE_INTENT", "PRECHECK"},
         record'.status = record.status, effect'.type = "NONE",
         NEW m \in Messages, queue' = queue \/ queue' = Append(queue, m),
         Asked(m) => entry'.state = "live" /\ entry'.intent = m.intents[1]
  PROVE  AskedIsOpen'
<1>1. record'.status = "policy_check"
  BY DEF ThreadInv, Working, StatusOfEffect
<1>2. queue \in Seq(Messages) /\ \A k \in 1 .. Len(queue) : IsStop(queue[k])
  BY DEF ThreadInv, Working, IInv
<1>3. \A k \in 1 .. Len(queue') : queue'[k] = m \/ \E j \in 1 .. Len(queue) : queue'[k] = queue[j]
  BY <1>2, TypeInQueue
<1>4. \A k \in 1 .. Len(queue') : Asked(queue'[k]) => queue'[k] = m
  BY <1>2, <1>3 DEF IsStop, Stops, Asked
<1>5. \A k \in 1 .. Len(queue') : Asked(queue'[k]) =>
        entry'.state = "live" /\ entry'.intent = queue'[k].intents[1]
  BY <1>4
<1> QED BY <1>1, <1>5 DEF AskedIsOpen, Asked, Open

LEMMA AskedThrow ==
  ASSUME IInv, IInv', ThreadInv, effect.type \in {"EVALUATE_INTENT", "PRECHECK"},
         record'.status = record.status, Throw
  PROVE  AskedIsOpen'
<1>1. Command("FAIL", <<>>, "none") \in Messages /\ ~Asked(Command("FAIL", <<>>, "none"))
  BY PlainMessage DEF Asked, Command
<1>2. queue' = queue \/ queue' = Append(queue, Command("FAIL", <<>>, "none"))
  BY DEF Throw, QueueAfterError
<1>3. effect'.type = "NONE"
  BY DEF Throw, NoEffect
<1> QED BY <1>1, <1>2, <1>3, AskedDecided

LEMMA AskedPrepared ==
  ASSUME IInv, IInv', ThreadInv, effect.type = "EVALUATE_INTENT",
         record'.status = record.status,
         NEW s \in Seq(Intents), Len(s) \in {1, 2}, Prepare(s),
         NEW t \in Seq(Intents), Len(t) \in {1, 2}, NEW verdict \in DOMAIN PolicyTarget,
         verdict = "require_approval" => t[1] = s[Len(s)] /\ PolicyOutcome(s[Len(s)]) = verdict,
         Enqueue(PolicyDecided(t, verdict))
  PROVE  AskedIsOpen'
<1> DEFINE m == PolicyDecided(t, verdict)
<1>1. m \in Messages /\ m.type = "POLICY_DECIDED" /\ m.result = verdict /\ m.intents = t
  BY PolicyMessage DEF PolicyDecided, Command
<1>2. queue' = Append(queue, m) /\ effect'.type = "NONE"
  BY DEF Enqueue, NoEffect
<1>3. PolicyOutcome(s[Len(s)]) = "require_approval" =>
        entry' = [intent |-> s[Len(s)], state |-> "live"]
  BY DEF Prepare
<1> HIDE DEF m
<1>4. Asked(m) => entry'.state = "live" /\ entry'.intent = m.intents[1]
  BY <1>1, <1>3 DEF Asked
<1> QED BY <1>1, <1>2, <1>4, AskedDecided

LEMMA AskedEvaluateIntent ==
  IInv /\ IInv' /\ ThreadInv /\ EvaluateIntent => AskedIsOpen'
<1> SUFFICES ASSUME IInv, IInv', ThreadInv, EvaluateIntent
             PROVE  AskedIsOpen'
  OBVIOUS
<1> DEFINE i == effect.intents[1]
<1>1. effect.type = "EVALUATE_INTENT" /\ Len(effect.intents) = 1 /\ effect.intents \in Seq(Intents)
  BY DEF EvaluateIntent, IInv, TypeOK, Effects
<1>2. i \in Intents
  BY <1>1
<1>3. \/ Throw /\ UNCHANGED record
      \/ Prepare(<<i>>) /\ Enqueue(PolicyDecided(<<i>>, PolicyOutcome(i)))
      \/ /\ Prepare(<<i>>) /\ queue' = queue
         /\ effect' = [effect EXCEPT !.type = "PRECHECK", !.result = PolicyOutcome(i)]
  BY DEF EvaluateIntent
<1>4. record.status = "policy_check" /\ queue = <<>>
  BY <1>1 DEF ThreadInv, Working, StatusOfEffect, AwaitEffects
<1>5. ASSUME Prepare(<<i>>) PROVE record'.status = record.status
  <2>1. record \in Records
    BY DEF IInv, TypeOK
  <2> QED BY <1>5, <2>1 DEF Prepare, Records
<1> HIDE DEF i
<1>6. <<i>> \in Seq(Intents) /\ Len(<<i>>) = 1 /\ <<i>>[1] = i
  BY <1>2
<1>7. CASE Throw /\ UNCHANGED record
  BY <1>1, <1>7, AskedThrow
<1>8. CASE Prepare(<<i>>) /\ Enqueue(PolicyDecided(<<i>>, PolicyOutcome(i)))
  BY <1>1, <1>5, <1>6, <1>8, AskedPrepared, PolicyOutcomeType
<1>9. CASE /\ Prepare(<<i>>) /\ queue' = queue
           /\ effect' = [effect EXCEPT !.type = "PRECHECK", !.result = PolicyOutcome(i)]
  <2>1. effect'.result = PolicyOutcome(i) /\ effect'.intents[1] = i
    BY <1>9 DEF i, IInv, TypeOK, Effects
  <2>2. PolicyOutcome(i) = "require_approval" => entry' = [intent |-> i, state |-> "live"]
    BY <1>6, <1>9 DEF Prepare
  <2>3. record'.status = "policy_check" /\ queue' = <<>>
    BY <1>4, <1>5, <1>9
  <2> QED BY <2>1, <2>2, <2>3 DEF AskedIsOpen, Asked, Open
<1> QED BY <1>3, <1>7, <1>8, <1>9

LEMMA AskedEvaluateReadBundle ==
  IInv /\ IInv' /\ ThreadInv /\ EvaluateReadBundle => AskedIsOpen'
<1> SUFFICES ASSUME IInv, IInv', ThreadInv, EvaluateReadBundle
             PROVE  AskedIsOpen'
  OBVIOUS
<1> DEFINE a == effect.intents[1]
           b == effect.intents[2]
<1>1. effect.type = "EVALUATE_INTENT" /\ Len(effect.intents) = 2 /\ effect.intents \in Seq(Intents)
  BY DEF EvaluateReadBundle, IInv, TypeOK, Effects
<1>2. a \in Intents /\ b \in Intents
  BY <1>1
<1>3. \/ Throw /\ UNCHANGED record
      \/ Prepare(<<b>>) /\ Enqueue(PolicyDecided(<<b>>, PolicyOutcome(b)))
      \/ Prepare(<<a>>) /\ Enqueue(PolicyDecided(<<a>>, PolicyOutcome(a)))
      \/ Prepare(<<a, b>>) /\ Enqueue(PolicyDecided(<<b>>, PolicyOutcome(b)))
      \/ Prepare(<<a, b>>) /\ Enqueue(PolicyDecided(<<a, b>>, "allow"))
  BY Zenon DEF EvaluateReadBundle, a, b
<1>4. ASSUME NEW s, Prepare(s) PROVE record'.status = record.status
  <2>1. record \in Records
    BY DEF IInv, TypeOK
  <2> QED BY <1>4, <2>1 DEF Prepare, Records
<1> HIDE DEF a, b
<1>5. /\ <<a>> \in Seq(Intents) /\ Len(<<a>>) = 1 /\ <<a>>[1] = a
      /\ <<b>> \in Seq(Intents) /\ Len(<<b>>) = 1 /\ <<b>>[1] = b
      /\ <<a, b>> \in Seq(Intents) /\ Len(<<a, b>>) = 2 /\ <<a, b>>[2] = b
  BY <1>2
<1>6. CASE Throw /\ UNCHANGED record
  BY <1>1, <1>6, AskedThrow
<1>7. CASE Prepare(<<b>>) /\ Enqueue(PolicyDecided(<<b>>, PolicyOutcome(b)))
  BY <1>1, <1>4, <1>5, <1>7, AskedPrepared, PolicyOutcomeType
<1>8. CASE Prepare(<<a>>) /\ Enqueue(PolicyDecided(<<a>>, PolicyOutcome(a)))
  BY <1>1, <1>4, <1>5, <1>8, AskedPrepared, PolicyOutcomeType
<1>9. CASE Prepare(<<a, b>>) /\ Enqueue(PolicyDecided(<<b>>, PolicyOutcome(b)))
  BY <1>1, <1>4, <1>5, <1>9, AskedPrepared, PolicyOutcomeType
<1>10. CASE Prepare(<<a, b>>) /\ Enqueue(PolicyDecided(<<a, b>>, "allow"))
  <2>1. "allow" \in DOMAIN PolicyTarget
    BY DEF PolicyTarget
  <2> QED BY <1>1, <1>4, <1>5, <1>10, <2>1, AskedPrepared
<1> QED BY <1>3, <1>6, <1>7, <1>8, <1>9, <1>10

LEMMA AskedPrecheck ==
  IInv /\ IInv' /\ ThreadInv /\ AskedIsOpen /\ Precheck => AskedIsOpen'
<1> SUFFICES ASSUME IInv, IInv', ThreadInv, AskedIsOpen, Precheck
             PROVE  AskedIsOpen'
  OBVIOUS
<1> DEFINE m == PolicyDecided(effect.intents, effect.result)
           d == PolicyDecided(effect.intents, "deny")
<1>1. effect.type = "PRECHECK" /\ (Enqueue(m) \/ Enqueue(d)) /\ entry' = entry
  BY DEF Precheck, gatewayVars
<1>2. effect.intents \in Seq(Intents) /\ Len(effect.intents) \in {1, 2}
      /\ effect.result \in DOMAIN PolicyTarget /\ "deny" \in DOMAIN PolicyTarget
  BY <1>1 DEF IInv, EffectFits, Carries, PolicyTarget
<1>3. /\ m \in Messages /\ m.type = "POLICY_DECIDED" /\ m.result = effect.result
      /\ m.intents = effect.intents
  BY <1>2, PolicyMessage DEF PolicyDecided, Command
<1>4. d \in Messages /\ d.result = "deny"
  BY <1>2, PolicyMessage DEF PolicyDecided, Command
<1> HIDE DEF m, d
<1>5. record'.status = record.status
  <2>1. record \in Records
    BY DEF IInv, TypeOK
  <2> QED BY <2>1 DEF Precheck, Records
<1>6. Asked(m) => entry'.state = "live" /\ entry'.intent = m.intents[1]
  BY <1>1, <1>3 DEF AskedIsOpen, Asked, Open
<1>7. CASE Enqueue(m)
  <2>1. queue' = Append(queue, m) /\ effect'.type = "NONE"
    BY <1>7 DEF Enqueue, NoEffect
  <2> QED BY <1>1, <1>3, <1>5, <1>6, <2>1, AskedDecided
<1>8. CASE Enqueue(d)
  <2>1. queue' = Append(queue, d) /\ effect'.type = "NONE" /\ ~Asked(d)
    BY <1>4, <1>8 DEF Enqueue, NoEffect, Asked
  <2> QED BY <1>1, <1>4, <1>5, <2>1, AskedDecided
<1> QED BY <1>1, <1>7, <1>8

LEMMA AskedWhileRunning ==
  ASSUME IInv, IInv', ThreadInv, ThreadInv', AskedIsOpen, [Next]_vars, effect.type # "NONE"
  PROVE  AskedIsOpen'
<1>1. CASE Restart
  <2>1. record'.status = "paused"
    BY <1>1, RestartPauses
  <2> QED BY <2>1, AskedElsewhere
<1>2. CASE ~Restart
  <2>1. record.status = StatusOfEffect[effect.type] /\ effect.type \in EffectTypes
    BY DEF ThreadInv, Working, IInv, TypeOK, Effects
  <2>2. record'.status = record.status
    BY <1>2, OnlyTheseMove DEF AcceptCommand
  <2>3. record.status # "awaiting_approval"
    BY RunningIsNotStopped
  <2>4. CASE record.status # "policy_check"
    BY <2>2, <2>3, <2>4, AskedElsewhere
  <2>5. CASE record.status = "policy_check"
    <3>1. effect.type \in {"EVALUATE_INTENT", "PRECHECK"}
      BY <2>1, <2>5 DEF StatusOfEffect, EffectTypes
    <3>2. \/ EvaluateIntent \/ EvaluateReadBundle \/ Precheck
          \/ UserPause \/ UserCancel \/ DeadlinePasses \/ UNCHANGED vars
      BY <1>2, <3>1, WhileRunning
        DEF RunHarness, HarnessTurn, ExecuteIntent, ExecutionEnds, BuildObservation,
            ReduceContext, EvaluateProgress, RunMutationVerification, ChecksEnd, VerifyCompletion
    <3>3. CASE UserPause \/ UserCancel \/ DeadlinePasses \/ UNCHANGED vars
      <4>1. effect' = effect /\ entry' = entry
        BY <3>1, <3>3 DEF UserPause, UserCancel, DeadlinePasses, vars, Preempt, gatewayVars
      <4>2. queue \in Seq(Messages) /\ \A k \in 1 .. Len(queue) : IsStop(queue[k])
        BY <3>1 DEF IInv, ThreadInv, Working
      <4>3. queue' = queue \/ \E t \in Stops : queue' = Append(queue, UserCommand(t, <<>>, "none"))
        BY <3>3 DEF UserPause, UserCancel, DeadlinePasses, vars, Stops
      <4>4. \A k \in 1 .. Len(queue') : queue'[k].type \in Stops
        <5>1. CASE queue' = queue
          BY <4>2, <5>1 DEF IsStop
        <5>2. ASSUME NEW t \in Stops, queue' = Append(queue, UserCommand(t, <<>>, "none"))
              PROVE  \A k \in 1 .. Len(queue') : queue'[k].type \in Stops
          <6> DEFINE m == UserCommand(t, <<>>, "none")
          <6>1. m.type = t
            BY DEF UserCommand
          <6>2. Append(queue, m) \in Seq(Messages)
            BY <5>2 DEF IInv
          <6> HIDE DEF m
          <6>3. m \in Messages
            BY <4>2, <6>2, AppendedIsMessage
          <6> QED BY <4>2, <5>2, <6>1, <6>3, TypeInQueue DEF IsStop, m
        <5> QED BY <4>3, <5>1, <5>2
      <4>5. \A k \in 1 .. Len(queue') : ~Asked(queue'[k])
        BY <4>4 DEF Asked, Stops
      <4> QED BY <2>2, <2>3, <4>1, <4>5 DEF AskedIsOpen, Open
    <3> QED BY <3>2, <3>3, AskedEvaluateIntent, AskedEvaluateReadBundle, AskedPrecheck
  <2> QED BY <2>4, <2>5
<1> QED BY <1>1, <1>2

\* The answers that can wait in the mailbox are all accepted.
LEMMA AnswersAreLegal ==
  ASSUME NEW r \in Records, NEW c \in Messages, r.status = "awaiting_approval", c.type \in AnswerTypes
  PROVE  Legal(r, c) /\ Target(r, c) \notin {"awaiting_approval", "complete"}
<1>1. CASE c.type = "APPROVAL_RESOLVED"
  <2>1. c.result \in DOMAIN ApprovalTarget
    BY <1>1 DEF Messages, WellFormed
  <2>2. Target(r, c) = ApprovalTarget[c.result]
    BY <1>1 DEF Target
  <2>3. Target(r, c) \in {"executing", "evaluating", "cancelled"}
    BY <2>1, <2>2 DEF ApprovalTarget
  <2> QED BY <1>1, <2>3 DEF Legal, RequiredStatus, CanTransition, allowedTransitions
<1>2. CASE c.type \in {"APPROVAL_REVISED", "PAUSE", "CANCEL"}
  <2>1. Target(r, c) \in {"policy_check", "paused", "cancelled"}
    BY <1>2 DEF Target, PlainTarget
  <2> QED BY <1>2, <2>1 DEF Legal, RequiredStatus, CanTransition, allowedTransitions
<1> QED BY <1>1, <1>2 DEF AnswerTypes, Stops

LEMMA AskedAccepted ==
  IInv /\ IInv' /\ ThreadInv /\ ThreadInv' /\ AskedIsOpen /\ AcceptCommand => AskedIsOpen'
<1> SUFFICES ASSUME IInv, IInv', ThreadInv, ThreadInv', AskedIsOpen, AcceptCommand
             PROVE  AskedIsOpen'
  OBVIOUS
<1> DEFINE c == Head(queue)
<1>1. /\ c \in Messages /\ Legal(record, c) /\ queue \in Seq(Messages) /\ queue # <<>>
      /\ ~IsTerminalStatus(record.status) /\ effect.type = "NONE" /\ record \in Records
      /\ queue' = Tail(queue) /\ effect' = EffectAfter(c)
      /\ record'.status = StatusAfter(c)
      /\ record'.approval = ApprovalAfter(record, c)
  BY Accepted
<1>2. c = queue[1] /\ 1 \in 1 .. Len(queue)
  BY <1>1, TailElements
<1>3. ~IsStop(c) => Tail(queue) = <<>>
  BY <1>1, LineShrinks DEF ThreadInv
<1>4. /\ timer' = (StatusAfter(c) = "awaiting_approval" /\ record'.approval # NoIntent)
      /\ resourcesRevoked' = (resourcesRevoked \/ Aborts(c) \/ IsTerminalStatus(StatusAfter(c)))
      /\ IF resourcesRevoked' /\ ~resourcesRevoked THEN RevokeTask ELSE UNCHANGED gatewayVars
  BY <1>1 DEF AcceptCommand
<1> HIDE DEF c
<1>5. CASE record'.status \notin {"policy_check", "awaiting_approval"}
  BY <1>5, AskedElsewhere
<1>6. CASE record'.status \in {"policy_check", "awaiting_approval"}
  <2>1. ~IsStopped(record'.status) /\ ~IsTerminalStatus(record'.status)
    BY <1>6 DEF IsStopped, IsTerminalStatus, TerminalStatuses
  <2>2. ~Aborts(c)
    BY <1>1, <2>1, AbortsStop
  <2>3. queue' = <<>>
    BY <1>1, <1>3, <2>2 DEF Aborts, IsStop, Stops
  <2>4. effect'.type \notin {"PRECHECK", "POLICY_DECIDED"}
    BY <1>1, EffectAfterType DEF Effects, EffectTypes
  <2>5. StatusAfter(c) = Target(record, c)
    BY <2>2 DEF StatusAfter, Aborts
  <2>6. CASE record'.status = "policy_check"
    BY <2>3, <2>4, <2>6 DEF AskedIsOpen, Asked
  <2>7. CASE record'.status = "awaiting_approval"
    <3>1. c.type = "POLICY_DECIDED" /\ c.result = "require_approval"
      <4>1. CASE c.type = "POLICY_DECIDED"
        <5>1. c.result \in DOMAIN PolicyTarget /\ Target(record, c) = PolicyTarget[c.result]
          BY <1>1, <4>1 DEF Messages, WellFormed, Target
        <5> QED BY <1>1, <2>5, <2>7, <4>1, <5>1 DEF PolicyTarget
      <4>2. CASE c.type # "POLICY_DECIDED"
        BY <1>1, <2>5, <2>7, <4>2
          DEF Messages, WellFormed, Commands, CommandTypes, Target, PlainTarget, PlannerTarget,
              ApprovalTarget, VerifiedTarget, Verdicts
      <4> QED BY <4>1, <4>2
    <3>2. record.status = "policy_check"
      BY <1>1, <3>1 DEF Legal, RequiredStatus
    <3>3. Open(c.intents[1])
      BY <1>2, <3>1, <3>2 DEF AskedIsOpen, Asked
    <3>4. record'.approval = c.intents[1]
      BY <1>1, <3>1 DEF ApprovalAfter
    <3>5. c.intents[1] \in Intents
      BY <1>1, <3>1 DEF Messages, WellFormed, Carries
    <3>6. entry' = entry
      BY <1>1, <1>4, <2>1, <2>2 DEF gatewayVars
    <3>7. timer'
      BY <1>1, <1>4, <2>7, <3>4, <3>5, NoIntentAssumption
    <3> QED BY <2>3, <2>4, <2>7, <3>3, <3>4, <3>6, <3>7 DEF AskedIsOpen, Asked, Open
  <2> QED BY <1>6, <2>6, <2>7
<1> QED BY <1>5, <1>6

LEMMA AskedWhileQueued ==
  ASSUME IInv, IInv', ThreadInv, ThreadInv', AskedIsOpen, [Next]_vars,
         effect.type = "NONE", queue # <<>>
  PROVE  AskedIsOpen'
<1>1. CASE IgnoreCommand
  <2>1. IsTerminalStatus(record'.status)
    BY <1>1 DEF IgnoreCommand
  <2> QED BY <2>1, AskedElsewhere DEF IsTerminalStatus, TerminalStatuses
<1>2. CASE RejectCommand
  <2>1. queue \in Seq(Messages) /\ record \in Records /\ UNCHANGED <<record, effect, entry>>
    BY <1>2 DEF IInv, TypeOK, RejectCommand, gatewayVars
  <2>2. Head(queue) \in Messages /\ Head(queue) = queue[1] /\ 1 \in 1 .. Len(queue)
    BY <1>2, <2>1, TailElements DEF RejectCommand
  <2>3. record.status # "awaiting_approval"
    <3>1. ASSUME record.status = "awaiting_approval" PROVE FALSE
      <4>1. Head(queue).type \in AnswerTypes
        BY <2>2, <3>1 DEF AskedIsOpen
      <4>2. Legal(record, Head(queue))
        BY <2>1, <2>2, <3>1, <4>1, AnswersAreLegal
      <4> QED BY <1>2, <4>2 DEF RejectCommand
    <3> QED BY <3>1
  <2>4. CASE record.status = "policy_check"
    <3>1. /\ Tail(queue) \in Seq(Messages)
          /\ \A k \in 1 .. Len(Tail(queue)) : \E j \in 1 .. Len(queue) : Tail(queue)[k] = queue[j]
      BY <2>1, TailElements
    <3>2. Command("FAIL", <<>>, "none") \in Messages /\ ~Asked(Command("FAIL", <<>>, "none"))
      BY PlainMessage DEF Asked, Command
    <3>3. queue' = Tail(queue) \/ queue' = Append(Tail(queue), Command("FAIL", <<>>, "none"))
      BY <1>2 DEF RejectCommand, QueueAfterError
    <3>4. \A k \in 1 .. Len(queue') :
            ~Asked(queue'[k]) \/ \E j \in 1 .. Len(queue) : queue'[k] = queue[j]
      <4> DEFINE rest == Tail(queue)
                 m == Command("FAIL", <<>>, "none")
      <4>1. \A k \in 1 .. Len(Append(rest, m)) :
              \/ k \in 1 .. Len(rest) /\ Append(rest, m)[k] = rest[k]
              \/ Append(rest, m)[k] = m
        BY <3>1, <3>2, TypeInQueue
      <4> HIDE DEF rest, m
      <4>2. CASE queue' = rest
        BY <3>1, <4>2 DEF rest
      <4>3. CASE queue' = Append(rest, m)
        BY <3>1, <3>2, <4>1, <4>3 DEF rest, m
      <4> QED BY <3>3, <4>2, <4>3 DEF rest, m
    <3> QED BY <2>1, <2>3, <2>4, <3>4 DEF AskedIsOpen, Open
  <2>5. CASE record.status # "policy_check"
    BY <2>1, <2>3, <2>5, AskedElsewhere
  <2> QED BY <2>4, <2>5
<1>3. CASE Restart
  <2>1. record'.status = "paused"
    BY <1>3, RestartPauses
  <2> QED BY <2>1, AskedElsewhere
<1>4. CASE UNCHANGED vars
  BY <1>4 DEF AskedIsOpen, Open, vars
<1> QED BY <1>1, <1>2, <1>3, <1>4, WhileQueued, AskedAccepted

LEMMA AskedWhileIdle ==
  ASSUME "interactive" \notin OfferedKinds, OfferedInv,
         IInv, IInv', ThreadInv, ThreadInv', AskedIsOpen, [Next]_vars, Idle
  PROVE  AskedIsOpen'
<1>1. CASE Restart
  <2>1. record'.status = "paused"
    BY <1>1, RestartPauses
  <2> QED BY <2>1, AskedElsewhere
<1>2. CASE UNCHANGED vars
  BY <1>2 DEF AskedIsOpen, Open, vars
<1>3. CASE ~Restart /\ ~UNCHANGED vars
  <2>1. record'.status = record.status /\ record'.approval = record.approval
    BY <1>3, OnlyTheseMove DEF AcceptCommand, Idle
  <2>2. CASE record.status \notin {"policy_check", "awaiting_approval"}
    BY <2>1, <2>2, AskedElsewhere
  <2>3. \A m : queue' = Append(queue, m) => Len(queue') = 1 /\ queue'[1] = m
    BY DEF Idle
  <2>4. User \/ ResumeBound \/ ApprovalTimerFires \/ DeadlinePasses
    BY <1>3, WhileIdle
  <2>5. effect.type = "NONE" /\ queue = <<>>
    BY DEF Idle
  <2>6. effect' = effect
    BY <2>4, <2>5 DEF User, UserPause, UserCancel, UserResume, Approve, Decline, ReviseApproval,
      ResumeBound, ApprovalTimerFires, DeadlinePasses, Preempt
  <2>7. ~Asked(effect)
    BY <2>5 DEF Asked
  <2>8. CASE record.status = "policy_check"
    <3>1. ~ApprovalShown /\ ~timer /\ resuming = 0
      <4>1. ~ApprovalShown
        BY <2>8, ShownIsAwaited DEF Interruptible
      <4>2. ~timer
        BY <2>8 DEF ThreadInv, Approvals
      <4>3. ~IsStopped(record.status) /\ resuming \in Nat
        BY <2>8 DEF IsStopped, IsTerminalStatus, TerminalStatuses, IInv, TypeOK
      <4>4. ~(resuming > 0)
        BY <4>3 DEF ThreadInv, Resumes
      <4> QED BY <4>1, <4>2, <4>3, <4>4
    <3>2. UserPause \/ UserCancel \/ DeadlinePasses
      BY <2>4, <2>8, <3>1 DEF User, UserResume, Approve, Decline, ReviseApproval, ResumeBound,
         ApprovalTimerFires
    <3>3. queue' = queue \/ \E t \in Stops : queue' = Append(queue, UserCommand(t, <<>>, "none"))
      BY <3>2 DEF UserPause, UserCancel, DeadlinePasses, Stops
    <3>4. \A k \in 1 .. Len(queue') : ~Asked(queue'[k])
      BY <2>3, <2>5, <3>3 DEF Asked, UserCommand, Stops
    <3> QED BY <2>1, <2>6, <2>7, <2>8, <3>4 DEF AskedIsOpen
  <2>9. CASE record.status = "awaiting_approval"
    <3>1. Open(record.approval) /\ timer
      BY <2>5, <2>9 DEF AskedIsOpen
    <3>2. ASSUME NEW m, queue' = Append(queue, m), m.type \in AnswerTypes, ~IsStop(m)
          PROVE  AskedIsOpen'
      BY <2>1, <2>3, <2>6, <2>7, <2>9, <3>2 DEF AskedIsOpen
    <3>3. ASSUME UNCHANGED <<entry, timer>>,
                 queue' = queue \/ \E t \in Stops : queue' = Append(queue, UserCommand(t, <<>>, "none"))
          PROVE  AskedIsOpen'
      <4>1. \A k \in 1 .. Len(queue') : queue'[k].type \in AnswerTypes
        BY <2>3, <2>5, <3>3 DEF UserCommand, Stops, AnswerTypes
      <4> QED BY <2>1, <2>6, <2>7, <2>9, <3>1, <3>3, <4>1 DEF AskedIsOpen, Open
    <3>4. CASE UserPause
      BY <3>3, <3>4 DEF UserPause, gatewayVars, Stops
    <3>5. CASE UserCancel
      BY <3>3, <3>5 DEF UserCancel, gatewayVars, Stops
    <3>6. CASE DeadlinePasses
      BY <3>3, <3>6 DEF DeadlinePasses, gatewayVars
    <3>7. ASSUME NEW t \in {"APPROVAL_RESOLVED", "APPROVAL_REVISED"}, NEW s, NEW res, NEW origin,
                 Answer(t, s, res, origin)
          PROVE  AskedIsOpen'
      <4> DEFINE m == [type |-> t, origin |-> origin, intents |-> s, result |-> res, change |-> 0]
      <4>1. queue' = Append(queue, m) /\ m.type \in AnswerTypes /\ ~IsStop(m)
        BY <3>7 DEF Answer, AnswerTypes, IsStop, Stops
      <4> QED BY <3>2, <4>1
    <3>8. ASSUME NEW forTask \in BOOLEAN, Approve(forTask) PROVE AskedIsOpen'
      <4>1. Offered(entry.intent)
        BY <3>1 DEF OfferedInv, Open
      <4>2. entry.intent.kind # "interactive"
        BY <4>1, PlannedAreChecks DEF Offered, CheckKinds
      <4> QED BY <3>7, <3>8, <4>2 DEF Approve
    <3>9. ASSUME NEW choice \in {"reject", "cancel_task", "expired"}, Decline(choice)
          PROVE  AskedIsOpen'
      BY <3>7, <3>9 DEF Decline
    <3>10. CASE ReviseApproval
      BY <3>7, <3>10 DEF ReviseApproval
    <3>11. CASE ApprovalTimerFires
      BY <3>1, <3>7, <3>11 DEF ApprovalTimerFires, Open
    <3>12. ~UserResume /\ ~ResumeBound
      BY <2>9 DEF UserResume, ResumeBound, ThreadInv, Resumes, IsStopped, IsTerminalStatus,
         TerminalStatuses, IInv, TypeOK
    <3> QED BY <2>4, <3>4, <3>5, <3>6, <3>8, <3>9, <3>10, <3>11, <3>12 DEF User
  <2> QED BY <2>2, <2>8, <2>9
<1> QED BY <1>1, <1>2, <1>3

LEMMA AskedStep ==
  ASSUME "interactive" \notin OfferedKinds, OfferedInv,
         IInv, IInv', ThreadInv, ThreadInv', AskedIsOpen, [Next]_vars
  PROVE  AskedIsOpen'
  BY AskedWhileRunning, AskedWhileQueued, AskedWhileIdle DEF Idle

\* A task that waits for an approval can still get one: the entry on the card is
\* open and its expiry timer runs (approval-manager.js create and supersede,
\* session-manager.js process), through revisions, pauses and crashes.  Without
\* interactive actions: approving one resolves the entry, and the command that
\* follows is refused.
THEOREM AwaitedApprovalStaysOpen ==
  ASSUME MaxResuming <= 1, "interactive" \notin OfferedKinds
  PROVE  Spec => []AwaitedApprovalIsOpen
<1>1. Init => AskedIsOpen
  BY DEF Init, AskedIsOpen, Asked, NoEffect, InitialRecord
<1>2. /\ IInv /\ IInv' /\ ThreadInv /\ ThreadInv' /\ OfferedInv /\ AskedIsOpen /\ [Next]_vars
      => AskedIsOpen'
  BY AskedStep
<1>3. AskedIsOpen => AwaitedApprovalIsOpen
  <2> SUFFICES ASSUME AskedIsOpen, Idle, record.status = "awaiting_approval"
               PROVE  entry.state = "live" /\ entry.intent = record.approval /\ timer
    BY DEF AwaitedApprovalIsOpen
  <2>1. \A k \in 1 .. Len(queue) : IsStop(queue[k])
    BY DEF Idle
  <2> QED BY <2>1 DEF AskedIsOpen, Open
<1> QED
  BY <1>1, <1>2, <1>3, Invariance, ThreadInvariance, OfferedInvariance, PTL DEF Spec

-----------------------------------------------------------------------------
(* Where a task rests.  While it runs, a command that moves it is queued when *)
(* nothing is being done, but where an error of an effect moves nothing: one  *)
(* that rejects to the caller of resume or of the approval (its effects have  *)
(* the origin "user"), or one the policy check has no way out of.             *)

ReadsOf(checks) == Cardinality({k \in 1 .. Len(checks) : checks[k] = "read"})

Stalled ==
  \/ record.status = "planning" /\ "turn_error" \in Faults
  \/ record.status = "executing" /\ Faults \cap {"capability_expired", "invalid_result"} # {}
  \/ /\ record.status = "policy_check"
     /\ \/ deadlinePassed \/ record.reads >= MaxReads
        \/ "broken" \in OfferedKinds \cup PlannedKinds
  \/ /\ record.status = "verifying" /\ record.obligations # <<>>
     /\ \/ deadlinePassed \/ "broken" \in Elements(Head(record.obligations).checks)
        \/ record.reads + ReadsOf(Head(record.obligations).checks) > MaxReads

\* "blocked" is no way out of planning: refused, it fails the task.
Refused(m) ==
  record.status = "planning" /\ m.type = "PLANNER_DECISION" /\ m.origin = "runtime"

Runs(status) == ~IsStopped(status) /\ status # "awaiting_approval"

CarriedOn ==
  effect.type = "NONE" /\ Runs(record.status) =>
    \/ queue # <<>> /\ (Legal(record, Head(queue)) \/ Refused(Head(queue)))
    \/ Stalled

\* Who aborts a turn has a pause or a cancel in the mailbox.
AbortIsQueued == effect.type = "HARNESS_TURN" /\ signal = "aborted" => queue # <<>>

\* Until it is used, what the policy or the user allowed has its capability.
Allowed(x) ==
  \/ x.type \in {"POLICY_DECIDED", "PRECHECK"} /\ x.result = "allow"
  \/ x.type = "APPROVAL_RESOLVED" /\ x.result = "approve"
  \/ x.type = "EXECUTE_INTENT"

Backed(x) == Allowed(x) => Elements(x.intents) \subseteq issued

TokensHeld ==
  ~IsStopped(record.status) => Backed(effect) /\ \A k \in 1 .. Len(queue) : Backed(queue[k])

\* What the worker observes it has executed itself.
OfRuntime(x) == x.type \in {"EXECUTION_FINISHED", "BUILD_OBSERVATION"} => x.origin = "runtime"
Observes == OfRuntime(effect) /\ \A k \in 1 .. Len(queue) : OfRuntime(queue[k])

RestInv == CarriedOn /\ AbortIsQueued /\ TokensHeld /\ Observes

LEMMA StopsAreLegal ==
  ASSUME NEW r \in Records, NEW c \in Messages, IsStop(c), ~IsStopped(r.status)
  PROVE  Legal(r, c)
<1>1. Target(r, c) = IF c.type = "PAUSE" THEN "paused" ELSE "cancelled"
  BY DEF IsStop, Stops, Target, PlainTarget
<1>2. r.status \in SessionStatuses
  BY DEF Records
<1> QED BY <1>1, <1>2 DEF Legal, IsStop, Stops, RequiredStatus, CanTransition, allowedTransitions,
      SessionStatuses, IsStopped, IsTerminalStatus, TerminalStatuses

LEMMA HeadOfMore ==
  ASSUME NEW q \in Seq(Messages), NEW m \in Messages
  PROVE  /\ Append(q, m) # <<>>
         /\ q = <<>> => Head(Append(q, m)) = m
         /\ q # <<>> => Head(Append(q, m)) = q[1] /\ 1 \in 1 .. Len(q)
<1> DEFINE more == Append(q, m)
<1>1. /\ more \in Seq(Messages) /\ more # <<>> /\ Len(q) \in Nat /\ more[Len(q) + 1] = m
      /\ \A k \in 1 .. Len(q) : more[k] = q[k]
  BY AppendElements
<1> HIDE DEF more
<1>2. Head(more) = more[1]
  BY <1>1, TailElements
<1>3. q = <<>> => Len(q) = 0
  OBVIOUS
<1>4. q # <<>> => 1 \in 1 .. Len(q)
  BY TailElements
<1> QED BY <1>1, <1>2, <1>3, <1>4 DEF more

\* The statuses in which something is being done.
LEMMA RunningStatus ==
  ASSUME IInv, ThreadInv, effect.type # "NONE"
  PROVE  /\ record.status = StatusOfEffect[effect.type] /\ effect.type \in DOMAIN StatusOfEffect
         /\ record.status \in {"planning", "policy_check", "executing", "observing", "reducing",
                               "evaluating", "verifying"}
         /\ queue \in Seq(Messages) /\ \A k \in 1 .. Len(queue) : IsStop(queue[k])
<1>1. effect.type \in DOMAIN StatusOfEffect
  BY DEF IInv, TypeOK, Effects, EffectTypes, StatusOfEffect
<1> QED BY <1>1 DEF ThreadInv, Working, IInv, StatusOfEffect

\* What an effect pushes in the status it runs in.
Outcomes ==
  [planning     |-> {"INCONCLUSIVE"},       policy_check |-> {"POLICY_DECIDED"},
   executing    |-> {"EXECUTION_FINISHED"}, observing    |-> {"OBSERVATION_READY"},
   reducing     |-> {"CONTEXT_REDUCED"},
   evaluating   |-> {"CONTINUE_PLANNING", "FOLLOW_UP_PROPOSED", "INCONCLUSIVE", "FAIL"},
   verifying    |-> {"MUTATION_VERIFIED", "COMPLETE", "INCONCLUSIVE", "FAIL"}]

LEMMA OutcomesAreLegal ==
  ASSUME NEW r, NEW c \in Messages, r.status \in DOMAIN Outcomes, c.type \in Outcomes[r.status]
  PROVE  Legal(r, c)
<1>1. CASE c.type \in DOMAIN PlainTarget
  <2>1. Target(r, c) = PlainTarget[c.type]
    BY <1>1 DEF Target, PlainTarget
  <2> QED BY <1>1, <2>1 DEF Outcomes, PlainTarget, Legal, RequiredStatus, CanTransition,
                            allowedTransitions
<1>2. CASE c.type \notin DOMAIN PlainTarget
  <2>1. \/ c.type = "POLICY_DECIDED" /\ r.status = "policy_check"
        \/ c.type = "MUTATION_VERIFIED" /\ r.status = "verifying"
    BY <1>2 DEF Outcomes, PlainTarget
  <2>2. Target(r, c) \in allowedTransitions[r.status]
    BY <2>1 DEF Messages, WellFormed, Target, PolicyTarget, VerifiedTarget, Verdicts,
       allowedTransitions
  <2> QED BY <2>1, <2>2 DEF Legal, RequiredStatus, CanTransition
<1> QED BY <1>1, <1>2

\* What an effect pushes moves the task, or the stop queued before it does.
LEMMA PushMoves ==
  ASSUME IInv, IInv', ThreadInv, effect.type # "NONE", record'.status = record.status,
         NEW m \in Messages, queue' = Append(queue, m),
         Legal(record', m) \/ Refused(m)' \/ queue # <<>>
  PROVE  queue' # <<>> /\ (Legal(record, Head(queue)) \/ Refused(Head(queue)))'
<1>1. queue \in Seq(Messages) /\ \A k \in 1 .. Len(queue) : IsStop(queue[k])
  BY RunningStatus
<1>2. ~IsStopped(record'.status) /\ record' \in Records
  BY RunningIsNotStopped DEF IInv, TypeOK
<1>3. CASE queue = <<>>
  <2>1. queue' # <<>> /\ Head(queue') = m
    BY <1>1, <1>3, HeadOfMore
  <2> QED BY <1>3, <2>1
<1>4. CASE queue # <<>>
  <2>1. queue' # <<>> /\ Head(queue') = queue[1] /\ 1 \in 1 .. Len(queue)
    BY <1>1, <1>4, HeadOfMore
  <2>2. queue[1] \in Messages /\ IsStop(queue[1])
    BY <1>1, <2>1, ElementOfSeq
  <2>3. Legal(record', queue[1])
    BY <1>2, <2>2, StopsAreLegal
  <2> QED BY <2>1, <2>3
<1> QED BY <1>3, <1>4

\* An effect ends: its outcome is in the mailbox.
LEMMA RestEnds ==
  ASSUME IInv, IInv', ThreadInv, effect.type # "NONE", record'.status = record.status,
         NEW m, Enqueue(m), m.type \in Outcomes[record.status] \/ Refused(m)',
         Allowed(m) => Elements(m.intents) \subseteq issued', OfRuntime(m)
  PROVE  RestInv'
<1>1. queue' = Append(queue, m) /\ effect' = NoEffect /\ effect'.type = "NONE"
  BY DEF Enqueue, NoEffect
<1>2. queue \in Seq(Messages) /\ \A k \in 1 .. Len(queue) : IsStop(queue[k])
  BY RunningStatus
<1>3. m \in Messages
  BY <1>1, <1>2, AppendedIsMessage DEF IInv
<1>4. CarriedOn'
  <2>1. record'.status \in DOMAIN Outcomes
    BY RunningStatus DEF Outcomes
  <2>2. Legal(record', m) \/ Refused(m)'
    BY <1>3, <2>1, OutcomesAreLegal
  <2> QED BY <1>1, <1>3, <2>2, PushMoves DEF CarriedOn
<1>5. \A k \in 1 .. Len(queue') : queue'[k] = m \/ IsStop(queue'[k])
  BY <1>1, <1>2, <1>3, TypeInQueue
<1>6. TokensHeld'
  BY <1>1, <1>5 DEF TokensHeld, Backed, Allowed, IsStop, Stops
<1>7. Observes'
  BY <1>1, <1>5 DEF Observes, OfRuntime, IsStop, Stops
<1> QED BY <1>1, <1>4, <1>6, <1>7 DEF RestInv, AbortIsQueued

\* An effect throws.
LEMMA RestThrows ==
  ASSUME IInv, IInv', ThreadInv, effect.type # "NONE", record'.status = record.status, Throw,
         \/ Stalled'
         \/ queue # <<>>
         \/ effect.origin = "runtime" /\ record.status # "policy_check"
  PROVE  RestInv'
<1> DEFINE m == Command("FAIL", <<>>, "none")
<1>1. m \in Messages /\ m.type = "FAIL"
  BY PlainMessage DEF Command
<1>2. /\ queue' = queue \/ queue' = Append(queue, m)
      /\ effect.origin = "runtime" => queue' = Append(queue, m)
  BY DEF Throw, QueueAfterError
<1>3. /\ queue \in Seq(Messages) /\ \A k \in 1 .. Len(queue) : IsStop(queue[k])
      /\ record.status \in {"planning", "policy_check", "executing", "observing", "reducing",
                            "evaluating", "verifying"}
  BY RunningStatus
<1>4. effect'.type = "NONE"
  BY DEF Throw, NoEffect
<1>5. record.status # "policy_check" => Legal(record', m)
  BY <1>1, <1>3 DEF Legal, RequiredStatus, CanTransition, Target, PlainTarget, allowedTransitions
<1> HIDE DEF m
<1>6. CarriedOn'
  <2>1. CASE Stalled'
    BY <2>1 DEF CarriedOn
  <2>2. CASE queue' = Append(queue, m) /\ (queue # <<>> \/ record.status # "policy_check")
    BY <1>1, <1>5, <2>2, PushMoves DEF CarriedOn
  <2>3. CASE queue' = queue /\ queue # <<>>
    <3>1. Head(queue) = queue[1] /\ 1 \in 1 .. Len(queue) /\ queue[1] \in Messages
      BY <1>3, <2>3, TailElements
    <3>2. ~IsStopped(record'.status) /\ record' \in Records
      BY RunningIsNotStopped DEF IInv, TypeOK
    <3>3. Legal(record', Head(queue'))
      BY <1>3, <2>3, <3>1, <3>2, StopsAreLegal
    <3> QED BY <2>3, <3>3 DEF CarriedOn
  <2> QED BY <1>2, <2>1, <2>2, <2>3
<1>7. \A k \in 1 .. Len(queue') : queue'[k] = m \/ IsStop(queue'[k])
  BY <1>1, <1>2, <1>3, TypeInQueue
<1>8. TokensHeld'
  BY <1>1, <1>4, <1>7 DEF TokensHeld, Backed, Allowed, IsStop, Stops
<1>9. Observes'
  BY <1>1, <1>4, <1>7 DEF Observes, OfRuntime, IsStop, Stops
<1> QED BY <1>4, <1>6, <1>8, <1>9 DEF RestInv, AbortIsQueued

\* An effect goes on; a stop may be pushed.
LEMMA RestGoesOn ==
  ASSUME IInv, ThreadInv, effect.type # "NONE", effect'.type # "NONE",
         \/ queue' = queue
         \/ \E m \in Messages : IsStop(m) /\ queue' = Append(queue, m),
         AbortIsQueued', OfRuntime(effect'),
         Allowed(effect') => Elements(effect'.intents) \subseteq issued'
  PROVE  RestInv'
<1>1. queue \in Seq(Messages) /\ \A k \in 1 .. Len(queue) : IsStop(queue[k])
  BY RunningStatus
<1>2. \A k \in 1 .. Len(queue') : IsStop(queue'[k])
  BY <1>1, TypeInQueue
<1>3. TokensHeld'
  BY <1>2 DEF TokensHeld, Backed, Allowed, IsStop, Stops
<1>4. Observes'
  BY <1>2 DEF Observes, OfRuntime, IsStop, Stops
<1> QED BY <1>3, <1>4 DEF RestInv, CarriedOn

LEMMA RestHarness ==
  IInv /\ IInv' /\ ThreadInv /\ RestInv /\ (RunHarness \/ HarnessTurn) => RestInv'
<1> SUFFICES ASSUME IInv, IInv', ThreadInv, RestInv, RunHarness \/ HarnessTurn PROVE RestInv'
  OBVIOUS
<1>1. effect.type # "NONE" /\ record.status = "planning"
  BY EffectStatus DEF RunHarness, HarnessTurn, StatusOfEffect
<1>2. record'.status = record.status
  <2>1. record \in Records
    BY DEF IInv, TypeOK
  <2> QED BY <2>1 DEF RunHarness, HarnessTurn, Records
<1>3. CASE Enqueue(Command("INCONCLUSIVE", <<>>, "none"))
  BY <1>1, <1>2, <1>3, RestEnds DEF Command, Outcomes, Allowed, OfRuntime
<1>4. CASE /\ effect' = [effect EXCEPT !.type = "HARNESS_TURN"] /\ queue' = queue
           /\ signal' = "live"
  <2>1. effect'.type = "HARNESS_TURN"
    BY <1>4 DEF IInv, TypeOK, Effects
  <2> QED BY <1>1, <1>4, <2>1, RestGoesOn DEF AbortIsQueued, Allowed, OfRuntime
<1>5. ASSUME NEW intents, NEW result, Enqueue(Command("PLANNER_DECISION", intents, result))
      PROVE  RestInv'
  BY <1>1, <1>2, <1>5, RestEnds DEF Command, Refused, Allowed, OfRuntime
<1>6. CASE Throw /\ HarnessTurn /\ "turn_error" \in Faults
  <2>1. Stalled'
    BY <1>1, <1>2, <1>6 DEF Stalled
  <2> QED BY <1>1, <1>2, <1>6, <2>1, RestThrows
<1>7. CASE Throw /\ HarnessTurn /\ signal = "aborted"
  <2>1. queue # <<>>
    BY <1>7 DEF RestInv, AbortIsQueued, HarnessTurn
  <2> QED BY <1>1, <1>2, <1>7, <2>1, RestThrows
<1> QED
  BY <1>3, <1>4, <1>5, <1>6, <1>7 DEF RunHarness, HarnessTurn

\* The policy check throws for good when the deadline or the read budget is gone.
LEMMA ThrownIsStalled ==
  ASSUME NEW i, Offered(i), PrepareThrows(i, record.reads), record.status = "policy_check",
         UNCHANGED <<record, deadlinePassed>>
  PROVE  Stalled'
<1>1. deadlinePassed' \/ record'.reads >= MaxReads \/ "broken" \in OfferedKinds \cup PlannedKinds
  BY DEF PrepareThrows, Offered
<1> QED BY <1>1 DEF Stalled

LEMMA RestPrepared ==
  ASSUME IInv, IInv', ThreadInv, effect.type = "EVALUATE_INTENT", record'.status = record.status,
         NEW s, Prepare(s), NEW t, NEW verdict, Enqueue(PolicyDecided(t, verdict)),
         verdict = "allow" =>
           \A n \in 1 .. Len(t) : \E k \in 1 .. Len(s) :
             t[n] = s[k] /\ PolicyOutcome(s[k]) = "allow"
  PROVE  RestInv'
<1> DEFINE m == PolicyDecided(t, verdict)
<1>1. m.type = "POLICY_DECIDED" /\ m.intents = t /\ m.result = verdict /\ Enqueue(m)
  BY DEF PolicyDecided, Command
<1>2. record.status = "policy_check"
  BY EffectStatus DEF StatusOfEffect
<1> HIDE DEF m
<1>3. Allowed(m) => Elements(m.intents) \subseteq issued'
  <2>1. \A k \in 1 .. Len(s) : PolicyOutcome(s[k]) = "allow" => s[k] \in issued'
    BY DEF Prepare
  <2> QED BY <1>1, <2>1 DEF Allowed, Elements
<1> QED BY <1>1, <1>2, <1>3, RestEnds DEF Outcomes, OfRuntime

LEMMA RestEvaluateIntent ==
  IInv /\ IInv' /\ ThreadInv /\ OfferedInv /\ EvaluateIntent => RestInv'
<1> SUFFICES ASSUME IInv, IInv', ThreadInv, OfferedInv, EvaluateIntent
             PROVE  RestInv'
  OBVIOUS
<1> DEFINE i == effect.intents[1]
<1>1. /\ effect.type = "EVALUATE_INTENT" /\ Len(effect.intents) = 1
      /\ record.status = "policy_check" /\ UNCHANGED <<deadlinePassed, signal>>
  BY EffectStatus DEF EvaluateIntent, StatusOfEffect, clockVars
<1>2. Offered(i)
  BY <1>1 DEF OfferedInv, AllOffered
<1>3. \/ Throw /\ UNCHANGED record /\ PrepareThrows(i, record.reads)
      \/ Prepare(<<i>>) /\ Enqueue(PolicyDecided(<<i>>, PolicyOutcome(i)))
      \/ /\ Prepare(<<i>>) /\ queue' = queue
         /\ effect' = [effect EXCEPT !.type = "PRECHECK", !.result = PolicyOutcome(i)]
  BY DEF EvaluateIntent
<1>4. ASSUME Prepare(<<i>>) PROVE record'.status = record.status
  <2>1. record \in Records
    BY DEF IInv, TypeOK
  <2> QED BY <1>4, <2>1 DEF Prepare, Records
<1>5. CASE Throw /\ UNCHANGED record /\ PrepareThrows(i, record.reads)
  BY <1>1, <1>2, <1>5, ThrownIsStalled, RestThrows
<1>6. effect \in Effects
  BY DEF IInv, TypeOK
<1>7. \A n \in 1 .. Len(effect.intents) : effect.intents[n] = i
  BY <1>1
<1> HIDE DEF i
<1>8. CASE Prepare(<<i>>) /\ Enqueue(PolicyDecided(<<i>>, PolicyOutcome(i)))
  <2>1. Len(<<i>>) = 1 /\ <<i>>[1] = i
    OBVIOUS
  <2>2. \A n \in 1 .. Len(<<i>>) : \E k \in 1 .. Len(<<i>>) : <<i>>[n] = <<i>>[k] /\ <<i>>[k] = i
    BY <2>1
  <2> QED BY <1>1, <1>4, <1>8, <2>2, RestPrepared
<1>9. CASE /\ Prepare(<<i>>) /\ queue' = queue
           /\ effect' = [effect EXCEPT !.type = "PRECHECK", !.result = PolicyOutcome(i)]
  <2>1. effect'.type = "PRECHECK" /\ effect'.result = PolicyOutcome(i)
        /\ effect'.intents = effect.intents
    BY <1>6, <1>9 DEF Effects
  <2>2. PolicyOutcome(i) = "allow" => i \in issued'
    <3>1. Len(<<i>>) = 1 /\ <<i>>[1] = i
      OBVIOUS
    <3> QED BY <1>9, <3>1 DEF Prepare
  <2>3. Allowed(effect') => Elements(effect'.intents) \subseteq issued'
    BY <1>7, <2>1, <2>2 DEF Allowed, Elements
  <2> QED BY <1>1, <1>9, <2>1, <2>3, RestGoesOn DEF AbortIsQueued, OfRuntime
<1> QED BY <1>3, <1>5, <1>8, <1>9

LEMMA RestEvaluateReadBundle ==
  IInv /\ IInv' /\ ThreadInv /\ OfferedInv /\ EvaluateReadBundle => RestInv'
<1> SUFFICES ASSUME IInv, IInv', ThreadInv, OfferedInv, EvaluateReadBundle
             PROVE  RestInv'
  OBVIOUS
<1> DEFINE a == effect.intents[1]
           b == effect.intents[2]
<1>1. /\ effect.type = "EVALUATE_INTENT" /\ Len(effect.intents) = 2
      /\ record.status = "policy_check" /\ UNCHANGED deadlinePassed
  BY EffectStatus DEF EvaluateReadBundle, StatusOfEffect, clockVars
<1>2. Offered(a) /\ Offered(b)
  BY <1>1 DEF OfferedInv, AllOffered
<1>3. \/ /\ Throw /\ UNCHANGED record
         /\ PrepareThrows(a, record.reads) \/ PrepareThrows(b, record.reads)
      \/ Prepare(<<b>>) /\ Enqueue(PolicyDecided(<<b>>, PolicyOutcome(b)))
      \/ Prepare(<<a>>) /\ Enqueue(PolicyDecided(<<a>>, PolicyOutcome(a)))
      \/ Prepare(<<a, b>>) /\ Enqueue(PolicyDecided(<<b>>, PolicyOutcome(b)))
      \/ /\ Prepare(<<a, b>>) /\ Enqueue(PolicyDecided(<<a, b>>, "allow"))
         /\ a.kind = "read" /\ b.kind = "read"
  BY Zenon DEF EvaluateReadBundle, a, b
<1>4. ASSUME NEW s, Prepare(s) PROVE record'.status = record.status
  <2>1. record \in Records
    BY DEF IInv, TypeOK
  <2> QED BY <1>4, <2>1 DEF Prepare, Records
<1> HIDE DEF a, b
<1>5. /\ \A n \in 1 .. Len(<<a>>) : n = 1 /\ <<a>>[n] = a
      /\ \A n \in 1 .. Len(<<b>>) : n = 1 /\ <<b>>[n] = b
      /\ Len(<<a>>) = 1 /\ Len(<<b>>) = 1
      /\ <<a, b>>[1] = a /\ <<a, b>>[2] = b /\ Len(<<a, b>>) = 2
      /\ \A n \in 1 .. Len(<<a, b>>) : <<a, b>>[n] \in {a, b}
  <2>1. Len(<<a>>) = 1 /\ <<a>>[1] = a /\ \A n \in 1 .. 1 : n = 1
    OBVIOUS
  <2>2. Len(<<b>>) = 1 /\ <<b>>[1] = b
    OBVIOUS
  <2>3. Len(<<a, b>>) = 2 /\ <<a, b>>[1] = a /\ <<a, b>>[2] = b
    OBVIOUS
  <2>4. \A n \in 1 .. 2 : n = 1 \/ n = 2
    OBVIOUS
  <2>5. \A n \in 1 .. Len(<<a>>) : n = 1 /\ <<a>>[n] = a
    BY <2>1
  <2>6. \A n \in 1 .. Len(<<b>>) : n = 1 /\ <<b>>[n] = b
    BY <2>1, <2>2
  <2>7. \A n \in 1 .. Len(<<a, b>>) : <<a, b>>[n] \in {a, b}
    BY <2>3, <2>4
  <2> QED BY <2>1, <2>2, <2>3, <2>5, <2>6, <2>7
<1>6. CASE /\ Throw /\ UNCHANGED record
           /\ PrepareThrows(a, record.reads) \/ PrepareThrows(b, record.reads)
  BY <1>1, <1>2, <1>6, ThrownIsStalled, RestThrows
<1>7. CASE Prepare(<<b>>) /\ Enqueue(PolicyDecided(<<b>>, PolicyOutcome(b)))
  BY <1>1, <1>4, <1>5, <1>7, RestPrepared
<1>8. CASE Prepare(<<a>>) /\ Enqueue(PolicyDecided(<<a>>, PolicyOutcome(a)))
  BY <1>1, <1>4, <1>5, <1>8, RestPrepared
<1>9. CASE Prepare(<<a, b>>) /\ Enqueue(PolicyDecided(<<b>>, PolicyOutcome(b)))
  <2>1. 2 \in 1 .. Len(<<a, b>>)
    BY <1>5
  <2> QED BY <1>1, <1>4, <1>5, <1>9, <2>1, RestPrepared
<1>10. CASE /\ Prepare(<<a, b>>) /\ Enqueue(PolicyDecided(<<a, b>>, "allow"))
            /\ a.kind = "read" /\ b.kind = "read"
  <2>1. PolicyOutcome(a) = "allow" /\ PolicyOutcome(b) = "allow"
    BY <1>10 DEF PolicyOutcome
  <2>2. \A n \in 1 .. Len(<<a, b>>) : PolicyOutcome(<<a, b>>[n]) = "allow"
    BY <1>5, <2>1
  <2> QED BY <1>1, <1>4, <1>10, <2>2, RestPrepared
<1> QED BY <1>3, <1>6, <1>7, <1>8, <1>9, <1>10

LEMMA RestPrecheck ==
  IInv /\ IInv' /\ ThreadInv /\ RestInv /\ Precheck => RestInv'
<1> SUFFICES ASSUME IInv, IInv', ThreadInv, RestInv, Precheck
             PROVE  RestInv'
  OBVIOUS
<1>1. effect.type = "PRECHECK" /\ record.status = "policy_check" /\ issued' = issued
  BY EffectStatus DEF Precheck, StatusOfEffect, gatewayVars
<1>2. record'.status = record.status
  <2>1. record \in Records
    BY DEF IInv, TypeOK
  <2> QED BY <2>1 DEF Precheck, Records
<1>3. effect.result = "allow" => Elements(effect.intents) \subseteq issued
  BY <1>1 DEF RestInv, TokensHeld, Backed, Allowed, IsStopped, IsTerminalStatus, TerminalStatuses
<1>4. \/ Enqueue(PolicyDecided(effect.intents, effect.result))
      \/ Enqueue(PolicyDecided(effect.intents, "deny"))
  BY DEF Precheck
<1>5. ASSUME NEW verdict \in {effect.result, "deny"},
             Enqueue(PolicyDecided(effect.intents, verdict))
      PROVE  RestInv'
  <2> DEFINE m == PolicyDecided(effect.intents, verdict)
  <2>1. m.type = "POLICY_DECIDED" /\ m.intents = effect.intents /\ m.result = verdict /\ Enqueue(m)
    BY <1>5 DEF PolicyDecided, Command
  <2> HIDE DEF m
  <2>2. Allowed(m) => Elements(m.intents) \subseteq issued'
    BY <1>1, <1>3, <1>5, <2>1 DEF Allowed
  <2> QED BY <1>1, <1>2, <2>1, <2>2, RestEnds DEF Outcomes, OfRuntime
<1> QED BY <1>4, <1>5

LEMMA RestExecute ==
  IInv /\ IInv' /\ ThreadInv /\ RestInv /\ (ExecuteIntent \/ ExecutionEnds) => RestInv'
<1> SUFFICES ASSUME IInv, IInv', ThreadInv, RestInv, ExecuteIntent \/ ExecutionEnds
             PROVE  RestInv'
  OBVIOUS
<1>1. /\ effect.type # "NONE" /\ record.status = "executing" /\ record' = record
      /\ effect \in Effects
  BY EffectStatus DEF ExecuteIntent, ExecutionEnds, StatusOfEffect, IInv, TypeOK
<1>2. CASE Throw /\ Faults \cap {"capability_expired", "invalid_result"} # {}
  <2>1. Stalled'
    BY <1>1, <1>2 DEF Stalled
  <2> QED BY <1>1, <1>2, <2>1, RestThrows
<1>3. ASSUME ExecuteIntent PROVE Elements(effect.intents) \subseteq issued
  BY <1>1, <1>3 DEF RestInv, TokensHeld, Backed, Allowed, ExecuteIntent, IsStopped,
     IsTerminalStatus, TerminalStatuses
<1>4. CASE /\ effect' = [effect EXCEPT !.type = "EXECUTING", !.doomed = (signal = "aborted")]
           /\ queue' = queue
  <2>1. effect'.type = "EXECUTING"
    BY <1>1, <1>4 DEF Effects
  <2> QED BY <1>1, <1>4, <2>1, RestGoesOn DEF AbortIsQueued, Allowed, OfRuntime
<1>5. ASSUME NEW result, Enqueue(Command("EXECUTION_FINISHED", effect.intents, result))
      PROVE  RestInv'
  BY <1>1, <1>5, RestEnds DEF Command, Outcomes, Allowed, OfRuntime
<1>6. CASE ExecuteIntent
  <2>1. \/ Throw /\ "capability_expired" \in Faults
        \/ /\ effect' = [effect EXCEPT !.type = "EXECUTING", !.doomed = (signal = "aborted")]
           /\ queue' = queue
    BY <1>3, <1>6 DEF ExecuteIntent
  <2> QED BY <1>2, <1>4, <2>1
<1>7. CASE ExecutionEnds
  BY <1>2, <1>5, <1>7 DEF ExecutionEnds
<1> QED BY <1>6, <1>7

LEMMA RestObserve ==
  IInv /\ IInv' /\ ThreadInv /\ RestInv /\ BuildObservation => RestInv'
<1> SUFFICES ASSUME IInv, IInv', ThreadInv, RestInv, BuildObservation
             PROVE  RestInv'
  OBVIOUS
<1>1. effect.type = "BUILD_OBSERVATION" /\ record.status = "observing"
  BY EffectStatus DEF BuildObservation, StatusOfEffect
<1>2. record'.status = record.status
  <2>1. record \in Records
    BY DEF IInv, TypeOK
  <2> QED BY <2>1 DEF BuildObservation, CheckObserved, Records
<1>3. CASE Enqueue(Command("OBSERVATION_READY", effect.intents, effect.result))
  BY <1>1, <1>2, <1>3, RestEnds DEF Command, Outcomes, Allowed, OfRuntime
<1>4. CASE Throw
  <2>1. effect.origin = "runtime"
    BY <1>1 DEF RestInv, Observes, OfRuntime
  <2> QED BY <1>1, <1>2, <1>4, <2>1, RestThrows
<1> QED BY <1>3, <1>4 DEF BuildObservation

LEMMA RestEvaluateProgress ==
  ASSUME IInv, IInv', ThreadInv, [Next]_vars, ReduceContext \/ EvaluateProgress \/ VerifyCompletion
  PROVE  RestInv'
<1>1. record'.status = record.status
  <2>1. ~AcceptCommand
    BY DEF ReduceContext, EvaluateProgress, VerifyCompletion, AcceptCommand
  <2>2. restarts' = restarts /\ restarts \in Nat
    BY DEF ReduceContext, EvaluateProgress, VerifyCompletion, clockVars, IInv, TypeOK
  <2>3. ~Restart
    BY <2>2 DEF Restart
  <2> QED BY <2>1, <2>3, OnlyTheseMove
<1>2. CASE ReduceContext
  <2>1. /\ effect.type = "REDUCE_CONTEXT" /\ record.status = "reducing"
        /\ Enqueue(Command("CONTEXT_REDUCED", <<>>, "none"))
    BY <1>2, EffectStatus DEF ReduceContext, StatusOfEffect
  <2> QED BY <1>1, <2>1, RestEnds DEF Command, Outcomes, Allowed, OfRuntime
<1>3. CASE EvaluateProgress
  <2>1. /\ effect.type = "EVALUATE_PROGRESS" /\ record.status = "evaluating"
        /\ Enqueue(ProgressCommand)
    BY <1>3, EffectStatus DEF EvaluateProgress, StatusOfEffect
  <2>2. ProgressCommand.type \in Outcomes["evaluating"]
    BY DEF ProgressCommand, Command, Outcomes
  <2> QED BY <1>1, <2>1, <2>2, RestEnds DEF Outcomes, Allowed, OfRuntime
<1>4. CASE VerifyCompletion
  <2>1. PICK type \in {"COMPLETE", "INCONCLUSIVE", "FAIL"} : Enqueue(Command(type, <<>>, "none"))
    BY <1>4 DEF VerifyCompletion
  <2>2. effect.type = "VERIFY_COMPLETION" /\ record.status = "verifying"
    BY <1>4, EffectStatus DEF VerifyCompletion, StatusOfEffect
  <2> QED BY <1>1, <2>1, <2>2, RestEnds DEF Command, Outcomes, Allowed, OfRuntime
<1> QED BY <1>2, <1>3, <1>4

LEMMA ReadsType == ASSUME NEW checks \in Seq(CheckKinds) PROVE ReadsOf(checks) \in Nat
<1> DEFINE reads == {k \in 1 .. Len(checks) : checks[k] = "read"}
<1>1. IsFiniteSet(1 .. Len(checks))
  BY FS_Interval
<1>2. IsFiniteSet(reads)
  BY <1>1, FS_Subset
<1> QED BY <1>2, FS_CardinalityType DEF ReadsOf

LEMMA RestVerify ==
  IInv /\ IInv' /\ ThreadInv /\ (RunMutationVerification \/ ChecksEnd) => RestInv'
<1> SUFFICES ASSUME IInv, IInv', ThreadInv, RunMutationVerification \/ ChecksEnd
             PROVE  RestInv'
  OBVIOUS
<1>1. /\ effect.type # "NONE" /\ record.status = "verifying" /\ effect \in Effects
      /\ record \in Records
  BY EffectStatus DEF RunMutationVerification, ChecksEnd, StatusOfEffect, IInv, TypeOK
<1>2. CASE RunMutationVerification
  <2>1. effect'.type = "RUN_CHECKS" /\ queue' = queue
    BY <1>1, <1>2 DEF RunMutationVerification, Effects
  <2> QED BY <1>1, <2>1, RestGoesOn DEF AbortIsQueued, Allowed, OfRuntime
<1>3. CASE ChecksEnd
  <2> DEFINE checks     == Head(record.obligations).checks
             reads      == ReadsOf(checks)
             affordable == Capped(reads, MaxReads - record.reads)
  <2>1. record'.status = record.status
    BY <1>1, <1>3 DEF ChecksEnd, Records
  <2>2. ASSUME NEW id, NEW verdict, Enqueue(Verified(id, verdict)) PROVE RestInv'
    BY <1>1, <2>1, <2>2, RestEnds DEF Verified, Outcomes, Allowed, OfRuntime
  <2>3. ASSUME Throw, UNCHANGED record,
               deadlinePassed \/ reads > affordable \/ "broken" \in Elements(checks)
        PROVE  RestInv'
    <3>1. record.obligations # <<>> /\ record.obligations \in Seq(Obligations)
      BY <1>1, <1>3 DEF IInv, EffectFits, ChecksEnd, Records
    <3>2. checks \in Seq(CheckKinds)
      <4>1. Head(record.obligations) \in Obligations
        BY <3>1, TailElements
      <4> QED BY <4>1 DEF Obligations
    <3>3. reads \in Nat /\ record.reads \in Nat /\ MaxReads \in Nat
      BY <1>1, <3>2, ReadsType, BudgetAssumption DEF Records
    <3>4. reads > affordable => record.reads + reads > MaxReads
      <4> HIDE DEF reads, checks
      <4>1. \A n, r, m \in Nat : n > (IF n > m - r THEN m - r ELSE n) => r + n > m
        OBVIOUS
      <4> QED BY <3>3, <4>1 DEF Capped
    <3>5. deadlinePassed' = deadlinePassed
      BY <1>3 DEF ChecksEnd, clockVars
    <3> HIDE DEF affordable
    <3>6. Stalled'
      BY <1>1, <2>3, <3>1, <3>4, <3>5 DEF Stalled
    <3> QED BY <1>1, <2>1, <2>3, <3>6, RestThrows
  <2> QED BY <1>3, <2>2, <2>3, Zenon DEF ChecksEnd, ReadsOf
<1> QED BY <1>2, <1>3

LEMMA RestStopped ==
  ASSUME NEW t \in Stops
  PROVE  UserCommand(t, <<>>, "none") \in Messages /\ IsStop(UserCommand(t, <<>>, "none"))
<1>1. UserCommand(t, <<>>, "none") \in Messages
  BY CommandInMessages, EmptySeq DEF Stops, PlainTarget, CommandResults
<1> QED BY <1>1 DEF IsStop, UserCommand

\* A pause, a cancel or the deadline while something is being done.
LEMMA RestInterrupted ==
  ASSUME IInv, IInv', ThreadInv, RestInv, effect.type # "NONE",
         UserPause \/ UserCancel \/ DeadlinePasses
  PROVE  RestInv'
<1>1. effect \in Effects /\ issued' = issued
  BY DEF IInv, TypeOK, UserPause, UserCancel, DeadlinePasses, gatewayVars
<1>2. /\ effect'.type = effect.type /\ effect'.origin = effect.origin
      /\ effect'.result = effect.result /\ effect'.intents = effect.intents
  BY <1>1 DEF UserPause, UserCancel, DeadlinePasses, Preempt, Effects
<1>3. queue' = queue \/ \E t \in Stops : queue' = Append(queue, UserCommand(t, <<>>, "none"))
  BY DEF UserPause, UserCancel, DeadlinePasses, Stops
<1>4. queue' = queue \/ \E m \in Messages : IsStop(m) /\ queue' = Append(queue, m)
  BY <1>3, RestStopped
<1>5. AbortIsQueued'
  <2> SUFFICES ASSUME effect.type = "HARNESS_TURN", signal' = "aborted" PROVE queue' # <<>>
    BY <1>2 DEF AbortIsQueued
  <2>1. record.status = "planning" /\ queue \in Seq(Messages)
    BY RunningStatus DEF StatusOfEffect
  <2>2. \A m \in Messages : Append(queue, m) # <<>>
    BY <2>1, HeadOfMore
  <2>3. CASE queue' = queue
    <3>1. DeadlinePasses
      <4>1. ~MutationInFlight
        BY <2>1 DEF MutationInFlight
      <4>2. ASSUME NEW t \in Stops, queue' = Append(queue, UserCommand(t, <<>>, "none")) PROVE FALSE
        <5> DEFINE m == UserCommand(t, <<>>, "none")
        <5>1. m \in Messages
          BY RestStopped
        <5> HIDE DEF m
        <5>2. Len(Append(queue, m)) = Len(queue) + 1 /\ Len(queue) \in Nat
          BY <2>1, <5>1, AppendElements
        <5>3. Append(queue, m) = queue
          BY <2>3, <4>2 DEF m
        <5> QED BY <5>2, <5>3
      <4> QED BY <4>1, <4>2 DEF UserPause, UserCancel, Stops
    <3>2. signal' = signal
      BY <3>1 DEF DeadlinePasses
    <3> QED BY <2>3, <3>2 DEF RestInv, AbortIsQueued
  <2> QED BY <1>4, <2>2, <2>3
<1>6. Allowed(effect') => Elements(effect'.intents) \subseteq issued'
  <2>1. ~IsStopped(record.status)
    BY RunningIsNotStopped
  <2> QED BY <1>1, <1>2, <2>1 DEF RestInv, TokensHeld, Backed, Allowed
<1>7. OfRuntime(effect')
  BY <1>2 DEF RestInv, Observes, OfRuntime
<1> QED BY <1>2, <1>4, <1>5, <1>6, <1>7, RestGoesOn

LEMMA LeadsToObserving ==
  ASSUME NEW r, NEW c \in Messages, Target(r, c) = "observing"
  PROVE  c.type = "EXECUTION_FINISHED"
BY DEF Messages, WellFormed, Commands, CommandTypes, Target, PlainTarget, PlannerTarget,
       PolicyTarget, ApprovalTarget, VerifiedTarget, Verdicts

\* A command that leaves the task running starts an effect.
LEMMA AcceptedGoesOn ==
  ASSUME IInv, NEW c \in Messages, Legal(record, c), Runs(StatusAfter(c))
  PROVE  EffectAfter(c).type # "NONE"
<1>1. ~Aborts(c)
  BY AbortsStop DEF Runs
<1>2. StatusAfter(c) = Target(record, c) /\ ~SafePointReached(c)
  BY <1>1 DEF Aborts, StatusAfter
<1>3. record.status \in SessionStatuses /\ Target(record, c) \in SessionStatuses
  BY TargetType DEF IInv, TypeOK, Records, Messages
<1>4. Target(record, c) \in allowedTransitions[record.status]
  BY DEF Legal, CanTransition
<1>5. Target(record, c) # "intake"
  BY <1>3, <1>4 DEF SessionStatuses, TerminalStatuses, allowedTransitions
<1>6. Target(record, c) # "awaiting_user"
  <2> SUFFICES ASSUME Target(record, c) = "awaiting_user" PROVE FALSE
    OBVIOUS
  <2>1. c.type = "HANDOFF_APPROVED"
    BY DEF Messages, WellFormed, Commands, CommandTypes, Target, PlainTarget, PlannerTarget,
           PolicyTarget, ApprovalTarget, VerifiedTarget, Verdicts
  <2>2. record.status = "awaiting_approval"
    BY <2>1 DEF Legal, RequiredStatus
  <2> QED BY <1>4, <2>2 DEF allowedTransitions
<1>7. NextEffect(record, c) # "NONE"
  <2>1. Target(record, c) \in {"planning", "policy_check", "executing", "observing", "reducing",
                               "evaluating", "verifying"}
    BY <1>2, <1>3, <1>5, <1>6 DEF Runs, IsStopped, IsTerminalStatus, SessionStatuses
  <2> QED BY <2>1 DEF NextEffect, EffectOf
<1> QED BY <1>2, <1>7 DEF EffectAfter

LEMMA RestAccept == IInv /\ IInv' /\ ThreadInv /\ RestInv /\ AcceptCommand => RestInv'
<1> SUFFICES ASSUME IInv, IInv', ThreadInv, RestInv, AcceptCommand PROVE RestInv'
  OBVIOUS
<1> DEFINE c == Head(queue)
<1>1. /\ c \in Messages /\ Legal(record, c) /\ queue \in Seq(Messages) /\ queue # <<>>
      /\ queue' = Tail(queue) /\ effect' = EffectAfter(c) /\ record'.status = StatusAfter(c)
  BY Accepted
<1>2. c = queue[1] /\ 1 \in 1 .. Len(queue)
  BY <1>1, TailElements
<1>3. ~IsStop(c) => queue' = <<>>
  BY <1>1, LineShrinks DEF ThreadInv
<1>4. /\ resourcesRevoked' = (resourcesRevoked \/ Aborts(c) \/ IsTerminalStatus(StatusAfter(c)))
      /\ IF resourcesRevoked' /\ ~resourcesRevoked THEN RevokeTask ELSE UNCHANGED gatewayVars
  BY DEF AcceptCommand
<1> HIDE DEF c
<1>5. CarriedOn'
  BY <1>1, AcceptedGoesOn DEF CarriedOn
<1>6. AbortIsQueued'
  BY <1>1, EffectAfterType DEF AbortIsQueued
<1>7. TokensHeld'
  <2> SUFFICES ASSUME ~IsStopped(record'.status)
               PROVE  (Backed(effect) /\ \A k \in 1 .. Len(queue) : Backed(queue[k]))'
    BY DEF TokensHeld
  <2>1. ~Aborts(c) /\ ~IsTerminalStatus(StatusAfter(c))
    BY <1>1, AbortsStop DEF IsStopped
  <2>2. queue' = <<>> /\ issued' = issued
    BY <1>3, <1>4, <2>1 DEF IsStop, Stops, Aborts, gatewayVars
  <2>3. ASSUME Allowed(effect') PROVE Elements(effect'.intents) \subseteq issued'
    <3>1. effect'.type = "EXECUTE_INTENT"
      BY <1>1, <2>3, EffectAfterType DEF Allowed, Effects, EffectTypes
    <3>2. StatusAfter(c) = "executing" /\ StatusAfter(c) = Target(record, c)
          /\ effect'.intents = c.intents
      BY <1>1, <3>1, EffectAfterStatus DEF StatusOfEffect, EffectAfter, NoEffect
    <3>3. \/ c.type = "POLICY_DECIDED" /\ c.result = "allow"
          \/ c.type = "APPROVAL_RESOLVED" /\ c.result = "approve"
      BY <1>1, <3>2, LeadsToExecuting
    <3>4. record.status \in {"policy_check", "awaiting_approval"}
      BY <1>1, <3>3 DEF Legal, RequiredStatus
    <3>5. Backed(c)
      BY <1>2, <3>4 DEF RestInv, TokensHeld, IsStopped, IsTerminalStatus, TerminalStatuses
    <3> QED BY <2>2, <3>2, <3>3, <3>5 DEF Backed, Allowed
  <2> QED BY <2>2, <2>3 DEF Backed
<1>8. Observes'
  <2>1. \A k \in 1 .. Len(queue') : OfRuntime(queue'[k])
    BY <1>1, LineShrinks DEF RestInv, Observes, ThreadInv
  <2>2. ASSUME effect'.type = "BUILD_OBSERVATION" PROVE effect'.origin = "runtime"
    <3>1. Target(record, c) = "observing" /\ effect'.origin = c.origin
      BY <1>1, <2>2, EffectAfterStatus DEF StatusOfEffect, EffectAfter, NoEffect
    <3>2. c.type = "EXECUTION_FINISHED"
      BY <1>1, <3>1, LeadsToObserving
    <3> QED BY <1>2, <3>1, <3>2 DEF RestInv, Observes, OfRuntime
  <2>3. effect'.type # "EXECUTION_FINISHED"
    BY DEF IInv, TypeOK, Effects, EffectTypes
  <2> QED BY <2>1, <2>2, <2>3 DEF Observes, OfRuntime
<1> QED BY <1>5, <1>6, <1>7, <1>8 DEF RestInv

\* A refused command of a running task is a planner's "blocked", and FAIL follows.
LEMMA RestDrop ==
  IInv /\ IInv' /\ ThreadInv /\ RestInv /\ (IgnoreCommand \/ RejectCommand) => RestInv'
<1> SUFFICES ASSUME IInv, IInv', ThreadInv, RestInv, IgnoreCommand \/ RejectCommand PROVE RestInv'
  OBVIOUS
<1> DEFINE c == Head(queue)
           m == Command("FAIL", <<>>, "none")
<1>1. /\ queue \in Seq(Messages) /\ queue # <<>> /\ effect.type = "NONE" /\ record \in Records
      /\ UNCHANGED <<record, effect, deadlinePassed, issued, signal>>
  BY DEF IInv, TypeOK, IgnoreCommand, RejectCommand, gatewayVars, clockVars
<1>2. /\ c \in Messages /\ c = queue[1] /\ Tail(queue) \in Seq(Messages)
      /\ \A k \in 1 .. Len(Tail(queue)) : \E j \in 1 .. Len(queue) : Tail(queue)[k] = queue[j]
  BY <1>1, TailElements
<1>3. ~IsStop(c) => Tail(queue) = <<>>
  BY <1>1, LineShrinks DEF ThreadInv
<1>4. m \in Messages /\ m.type = "FAIL"
  BY PlainMessage DEF Command
<1>5. queue' = Tail(queue) \/ queue' = Append(Tail(queue), m)
  BY DEF IgnoreCommand, RejectCommand, QueueAfterError
<1>6. RejectCommand => ~Legal(record, c) /\ queue' = QueueAfterError(Tail(queue), c.origin, c.type)
  BY DEF RejectCommand
<1> HIDE DEF c, m
<1>7. \A k \in 1 .. Len(queue') : queue'[k] = m \/ \E j \in 1 .. Len(queue) : queue'[k] = queue[j]
  BY <1>2, <1>4, <1>5, TypeInQueue
<1>8. CarriedOn'
  <2> SUFFICES ASSUME Runs(record.status), ~Stalled'
               PROVE  queue' # <<>> /\ Legal(record', Head(queue'))
    BY <1>1 DEF CarriedOn
  <2>1. RejectCommand
    BY DEF Runs, IsStopped, IgnoreCommand
  <2>2. ~Stalled
    BY <1>1 DEF Stalled
  <2>3. Refused(c)
    BY <1>1, <1>6, <2>1, <2>2 DEF RestInv, CarriedOn, c
  <2>4. Tail(queue) = <<>>
    BY <1>3, <2>3 DEF Refused, IsStop, Stops
  <2>5. queue' = Append(Tail(queue), m)
    BY <1>6, <2>1, <2>3 DEF QueueAfterError, Refused, m
  <2>6. queue' # <<>> /\ Head(queue') = m
    BY <1>2, <1>4, <2>4, <2>5, HeadOfMore
  <2>7. record'.status = "planning"
    BY <1>1, <2>3 DEF Refused
  <2>8. Legal(record', m)
    BY <1>4, <2>7 DEF Legal, RequiredStatus, CanTransition, Target, PlainTarget, allowedTransitions
  <2> QED BY <2>6, <2>8
<1>9. TokensHeld'
  BY <1>1, <1>4, <1>7 DEF RestInv, TokensHeld, Backed, Allowed
<1>10. Observes'
  BY <1>1, <1>4, <1>7 DEF RestInv, Observes, OfRuntime
<1> QED BY <1>1, <1>8, <1>9, <1>10 DEF RestInv, AbortIsQueued

\* While nothing is done and nothing queued, only the user and time act.
LEMMA RestIdle ==
  ASSUME IInv, IInv', ThreadInv, RestInv, Idle,
         User \/ ResumeBound \/ ApprovalTimerFires \/ DeadlinePasses
  PROVE  RestInv'
<1>1. effect.type = "NONE" /\ queue = <<>> /\ resuming \in Nat
  BY DEF Idle, IInv, TypeOK
<1>2. effect' = effect /\ record' = record /\ (deadlinePassed => deadlinePassed')
  <2>1. CASE UserPause \/ UserCancel
    <3>1. effect' = effect
      BY <1>1, <2>1 DEF UserPause, UserCancel, Preempt
    <3>2. record' = record /\ deadlinePassed' = deadlinePassed
      BY <2>1 DEF UserPause, UserCancel, clockVars
    <3> QED BY <3>1, <3>2
  <2>2. CASE UserResume \/ ResumeBound \/ ApprovalTimerFires \/ DeadlinePasses
    BY <2>2 DEF UserResume, ResumeBound, ApprovalTimerFires, DeadlinePasses, clockVars
  <2>3. CASE ReviseApproval
    BY <2>3 DEF ReviseApproval, clockVars
  <2>4. ASSUME NEW forTask \in BOOLEAN, Approve(forTask)
        PROVE  effect' = effect /\ record' = record /\ deadlinePassed' = deadlinePassed
    BY <2>4 DEF Approve, clockVars
  <2>5. ASSUME NEW choice \in {"reject", "cancel_task", "expired"}, Decline(choice)
        PROVE  effect' = effect /\ record' = record /\ deadlinePassed' = deadlinePassed
    BY <2>5 DEF Decline, clockVars
  <2> QED BY <2>1, <2>2, <2>3, <2>4, <2>5 DEF User
<1>3. CarriedOn'
  <2> SUFFICES ASSUME Runs(record.status) PROVE Stalled'
    BY <1>2 DEF CarriedOn
  <2>1. Stalled
    BY <1>1 DEF RestInv, CarriedOn
  <2> QED BY <1>2, <2>1 DEF Stalled
<1>4. \/ queue' = <<>>
      \/ \E m : /\ queue' = Append(<<>>, m)
                /\ m.type # "EXECUTION_FINISHED" /\ m.type # "BUILD_OBSERVATION"
                /\ Allowed(m) /\ ~IsStopped(record.status) =>
                     Elements(m.intents) \subseteq issued'
  <2> DEFINE Pushes(m) ==
               /\ queue' = Append(<<>>, m)
               /\ m.type # "EXECUTION_FINISHED" /\ m.type # "BUILD_OBSERVATION"
               /\ Allowed(m) /\ ~IsStopped(record.status) =>
                    Elements(m.intents) \subseteq issued'
  <2> SUFFICES queue' = <<>> \/ \E m : Pushes(m)
    OBVIOUS
  <2>1. CASE UserPause \/ UserCancel
    <3>1. queue' = queue \/ \E t \in Stops : queue' = Append(queue, UserCommand(t, <<>>, "none"))
      BY <2>1 DEF UserPause, UserCancel, Stops
    <3>2. ASSUME NEW t \in Stops, queue' = Append(queue, UserCommand(t, <<>>, "none"))
          PROVE  Pushes(UserCommand(t, <<>>, "none"))
      BY <1>1, <3>2 DEF UserCommand, Stops, Allowed
    <3> HIDE DEF Pushes
    <3> QED BY <1>1, <3>1, <3>2
  <2>2. CASE UserResume \/ DeadlinePasses
    BY <1>1, <2>2 DEF UserResume, DeadlinePasses
  <2>3. CASE ResumeBound
    <3>1. queue' = queue \/ queue' = Append(queue, UserCommand("RESUME", <<>>, "none"))
      BY <2>3 DEF ResumeBound
    <3>2. ASSUME queue' = Append(queue, UserCommand("RESUME", <<>>, "none"))
          PROVE  Pushes(UserCommand("RESUME", <<>>, "none"))
      BY <1>1, <3>2 DEF UserCommand, Allowed
    <3> HIDE DEF Pushes
    <3> QED BY <1>1, <3>1, <3>2
  <2>4. ASSUME NEW t \in {"APPROVAL_RESOLVED", "APPROVAL_REVISED", "HANDOFF_APPROVED"},
               NEW s, NEW res, NEW origin, Answer(t, s, res, origin),
               t = "APPROVAL_RESOLVED" /\ res = "approve" => Elements(s) \subseteq issued'
        PROVE  \E m : Pushes(m)
    <3> DEFINE m == [type |-> t, origin |-> origin, intents |-> s, result |-> res, change |-> 0]
    <3>1. Pushes(m)
      BY <1>1, <2>4 DEF Answer, Allowed
    <3> HIDE DEF m, Pushes
    <3> QED BY <3>1
  <2> HIDE DEF Pushes
  <2>5. ASSUME NEW forTask \in BOOLEAN, Approve(forTask) PROVE \E m : Pushes(m)
    <3>1. \A i : Elements(<<i>>) = {i}
      <4>1. \A i : Len(<<i>>) = 1 /\ <<i>>[1] = i
        OBVIOUS
      <4> QED BY <4>1 DEF Elements
    <3>2. \/ Answer("HANDOFF_APPROVED", <<entry.intent>>, "none", "user")
          \/ /\ Answer("APPROVAL_RESOLVED", <<entry.intent>>, "approve", "user")
             /\ issued' = issued \cup {entry.intent}
      BY <2>5 DEF Approve
    <3> QED BY <2>4, <3>1, <3>2
  <2>6. ASSUME NEW choice \in {"reject", "cancel_task", "expired"}, Decline(choice)
        PROVE  \E m : Pushes(m)
    BY <2>4, <2>6 DEF Decline
  <2>7. CASE ReviseApproval
    BY <2>4, <2>7 DEF ReviseApproval
  <2>8. CASE ApprovalTimerFires
    <3>1. queue' = queue \/ Answer("APPROVAL_RESOLVED", <<>>, "expired", "runtime")
      BY <2>8 DEF ApprovalTimerFires
    <3> QED BY <1>1, <2>4, <3>1
  <2> QED BY <2>1, <2>2, <2>3, <2>5, <2>6, <2>7, <2>8 DEF User
<1>5. \A k \in 1 .. Len(queue') :
        /\ queue'[k].type # "EXECUTION_FINISHED" /\ queue'[k].type # "BUILD_OBSERVATION"
        /\ Allowed(queue'[k]) /\ ~IsStopped(record.status) =>
             Elements(queue'[k].intents) \subseteq issued'
  <2>1. CASE queue' = <<>>
    BY <2>1
  <2>2. ASSUME NEW m, queue' = Append(<<>>, m) PROVE \A k \in 1 .. Len(queue') : queue'[k] = m
    BY <2>2
  <2> QED BY <1>4, <2>1, <2>2
<1>6. TokensHeld'
  BY <1>1, <1>2, <1>5 DEF TokensHeld, Backed, Allowed
<1>7. Observes'
  BY <1>1, <1>2, <1>5 DEF Observes, OfRuntime
<1> QED BY <1>1, <1>2, <1>3, <1>6, <1>7 DEF RestInv, AbortIsQueued

LEMMA RestStep ==
  ASSUME IInv, IInv', ThreadInv, OfferedInv, RestInv, [Next]_vars
  PROVE  RestInv'
<1>1. CASE Restart
  <2>1. record'.status = "paused" /\ queue' = <<>> /\ effect' = NoEffect
    BY <1>1, RestartPauses DEF Restart
  <2> QED BY <2>1 DEF RestInv, CarriedOn, Runs, AbortIsQueued, TokensHeld, Observes, OfRuntime,
                      NoEffect, IsStopped
<1>2. CASE UNCHANGED vars
  BY <1>2 DEF RestInv, CarriedOn, Stalled, Refused, AbortIsQueued, TokensHeld, Backed, Observes, vars
<1>3. CASE effect.type # "NONE"
  BY <1>1, <1>2, <1>3, WhileRunning, RestHarness, RestEvaluateIntent, RestEvaluateReadBundle,
     RestPrecheck, RestExecute, RestObserve, RestEvaluateProgress, RestVerify, RestInterrupted
<1>4. CASE effect.type = "NONE" /\ queue # <<>>
  BY <1>1, <1>2, <1>4, WhileQueued, RestAccept, RestDrop
<1>5. CASE Idle
  BY <1>1, <1>2, <1>5, WhileIdle, RestIdle
<1> QED BY <1>3, <1>4, <1>5 DEF Idle

LEMMA RestInit == Init => RestInv
<1> SUFFICES ASSUME Init PROVE RestInv
  OBVIOUS
<1> DEFINE m == Command("OBJECTIVE_READY", <<>>, "none")
<1>1. /\ queue = <<m>> /\ record.status = "intake" /\ effect.type = "NONE"
      /\ m.type = "OBJECTIVE_READY"
  BY DEF Init, InitialRecord, NoEffect, Command
<1> HIDE DEF m
<1>2. queue # <<>> /\ Head(queue) = m /\ \A k \in 1 .. Len(queue) : queue[k] = m
  BY <1>1
<1>3. Legal(record, m)
  BY <1>1 DEF Legal, RequiredStatus, CanTransition, Target, PlainTarget, allowedTransitions
<1> QED BY <1>1, <1>2, <1>3
     DEF RestInv, CarriedOn, AbortIsQueued, TokensHeld, Backed, Allowed, Observes, OfRuntime

\* A task nobody works on is finished, paused or waits for an approval, or it is in
\* one of four places where the code lets an error go nowhere: a model's turn or an
\* execution that throws to the caller of resume or of the approval; a policy check
\* that throws, from which failed is no transition (state-machine.js); and the
\* verification after a resume, cut off with its budget gone.  Under every fault,
\* with crashes and stops at any time.
THEOREM RestIsExplained ==
  ASSUME MaxResuming <= 1
  PROVE  Spec => [](RestsOnlyWhereItCanBeWoken \/ Stalled)
<1>1. IInv /\ IInv' /\ ThreadInv /\ OfferedInv /\ RestInv /\ [Next]_vars => RestInv'
  BY RestStep
<1>2. RestInv => RestsOnlyWhereItCanBeWoken \/ Stalled
  BY DEF RestInv, CarriedOn, Runs, IsStopped, RestsOnlyWhereItCanBeWoken, Idle
<1> QED
  BY <1>1, <1>2, RestInit, Invariance, ThreadInvariance, OfferedInvariance, PTL DEF Spec

\* The budget covers the checks that are owed next.
WithinBudget ==
  /\ ~deadlinePassed /\ record.reads < MaxReads
  /\ record.obligations # <<>> =>
       record.reads + ReadsOf(Head(record.obligations).checks) <= MaxReads

\* While there is budget, a task rests only where it can be woken, provided that a
\* turn, a token and an execution do not throw and every tool call proposed or planned
\* fits its schema: a stop, a crash, a failed observation, a refused decision and a
\* full context never leave it hanging.
THEOREM TasksRestWhereTheyCanBeWoken ==
  ASSUME MaxResuming <= 1,
         Faults \cap {"turn_error", "capability_expired", "invalid_result"} = {},
         "broken" \notin OfferedKinds, \A p \in Plans : "broken" \notin Elements(p)
  PROVE  Spec => [](WithinBudget => RestsOnlyWhereItCanBeWoken)
<1>1. "broken" \notin PlannedKinds
  BY DEF PlannedKinds
<1>2. IInv /\ PlannedIn(record.obligations) /\ WithinBudget => ~Stalled
  <2> SUFFICES ASSUME IInv, PlannedIn(record.obligations), WithinBudget, Stalled PROVE FALSE
    OBVIOUS
  <2>1. record \in Records /\ record.reads \in Nat /\ MaxReads \in Nat
    BY BudgetAssumption DEF IInv, TypeOK, Records
  <2>2. /\ record.status = "verifying" /\ record.obligations # <<>>
        /\ \/ "broken" \in Elements(Head(record.obligations).checks)
           \/ record.reads + ReadsOf(Head(record.obligations).checks) > MaxReads
    BY <1>1, <2>1 DEF WithinBudget, Stalled
  <2>3. record.obligations \in Seq(Obligations)
    BY <2>1 DEF Records
  <2>4. Elements(Head(record.obligations).checks) \subseteq PlannedKinds
    BY <2>2, <2>3, PlannedRest
  <2>5. ReadsOf(Head(record.obligations).checks) \in Nat
    <3>1. Head(record.obligations) \in Obligations
      BY <2>2, <2>3, TailElements
    <3> QED BY <3>1, ReadsType DEF Obligations
  <2> QED BY <1>1, <2>1, <2>2, <2>4, <2>5 DEF WithinBudget
<1> QED
  BY <1>2, RestIsExplained, Invariance, PlannedInvariance, PTL

-----------------------------------------------------------------------------
(* Doubt.  Without pauses and crashes a change is judged by its follow-up      *)
(* checks alone, one after the other, and what one of them found stays.        *)

NeverPaused ==
  /\ record.status # "paused" /\ safePoint # "pause"
  /\ \A k \in 1 .. Len(queue) : queue[k].type \notin {"PAUSE", "MUTATION_VERIFIED"}
  /\ effect.type \notin {"RUN_MUTATION_VERIFICATION", "RUN_CHECKS"}

DoubtIn(r, d) ==
  /\ \A k \in 1 .. Len(r.obligations) : r.changes[r.obligations[k].id] = "pending"
  /\ \A id \in d : r.changes[id] \notin {"passed", "none"}
  /\ \A id \in d : \A k \in 1 .. Len(r.obligations) :
       r.obligations[k].id = id => r.obligations[k].worst # "passed"

LEMMA LeadsToPaused ==
  ASSUME NEW c \in Messages, Target(record, c) = "paused"
  PROVE  c.type = "PAUSE"
<1>1. c.type \in CommandTypes /\ WellFormed(c)
  BY DEF Messages, Commands
<1>2. CASE c.type \in DOMAIN PlainTarget
  BY <1>1, <1>2 DEF Target, PlainTarget
<1>3. CASE c.type \notin DOMAIN PlainTarget
  BY <1>1, <1>3 DEF CommandTypes, Target, WellFormed, PlannerTarget, PolicyTarget, ApprovalTarget,
                    VerifiedTarget, Verdicts
<1> QED BY <1>2, <1>3

LEMMA NeverPausedStep ==
  ASSUME "pause" \notin UserControls, MaxRestarts = 0,
         IInv, IInv', NeverPaused, [Next]_vars
  PROVE  NeverPaused'
<1>1. /\ queue \in Seq(Messages) /\ queue' \in Seq(Messages) /\ ~Restart /\ ~UserPause
      /\ effect.type \notin {"RUN_MUTATION_VERIFICATION", "RUN_CHECKS"}
      /\ record.status # "paused"
  BY DEF IInv, TypeOK, Restart, UserPause, NeverPaused
<1>2. CASE AcceptCommand
  <2> DEFINE c == Head(queue)
  <2>1. /\ c \in Messages /\ Legal(record, c) /\ queue # <<>>
        /\ queue' = Tail(queue) /\ effect' = EffectAfter(c) /\ record'.status = StatusAfter(c)
    BY <1>2, Accepted
  <2>2. /\ c = queue[1] /\ 1 \in 1 .. Len(queue)
        /\ \A k \in 1 .. Len(queue') : \E j \in 1 .. Len(queue) : queue'[k] = queue[j]
    BY <1>1, <2>1, TailElements
  <2>3. c.type \notin {"PAUSE", "MUTATION_VERIFIED", "RESUME"}
    BY <1>1, <2>1, <2>2 DEF NeverPaused, Legal, RequiredStatus
  <2>4. safePoint' \in {"none", safePoint}
    BY <1>2 DEF AcceptCommand
  <2> HIDE DEF c
  <2>5. StatusAfter(c) = Target(record, c) /\ Target(record, c) # "paused"
    <3>1. StatusAfter(c) = Target(record, c)
      BY <2>3 DEF StatusAfter, SafePointReached
    <3> QED BY <2>1, <2>3, <3>1, LeadsToPaused
  <2>6. EffectAfter(c).type \notin {"RUN_MUTATION_VERIFICATION", "RUN_CHECKS"}
    BY <2>1, <2>3, EffectAfterType
  <2> QED BY <2>1, <2>2, <2>4, <2>5, <2>6 DEF NeverPaused
<1>3. CASE ~AcceptCommand
  <2>1. record'.status = record.status
    BY <1>1, <1>3, OnlyTheseMove
  <2>2. safePoint' # "pause"
    BY <1>1, <1>3
      DEF NeverPaused, Next, Worker, User, vars, IgnoreCommand, RejectCommand, RunHarness,
          HarnessTurn, EvaluateIntent, Precheck, EvaluateReadBundle, ExecuteIntent,
          ExecutionEnds, BuildObservation, ReduceContext, EvaluateProgress,
          RunMutationVerification, ChecksEnd, VerifyCompletion, UserCancel, UserResume, Approve,
          Decline, ReviseApproval, ResumeBound, ApprovalTimerFires, DeadlinePasses
  <2> DEFINE Quiet(m) == m.type \notin {"PAUSE", "MUTATION_VERIFIED"}
  <2>3. ASSUME queue' = queue \/ \E m : Quiet(m) /\ queue' = Append(queue, m),
               effect'.type \notin {"RUN_MUTATION_VERIFICATION", "RUN_CHECKS"}
        PROVE  NeverPaused'
    <3>1. \A k \in 1 .. Len(queue') : Quiet(queue'[k])
      <4>1. CASE queue' = queue
        BY <4>1 DEF NeverPaused
      <4>2. ASSUME NEW m, Quiet(m), queue' = Append(queue, m)
            PROVE  \A k \in 1 .. Len(queue') : Quiet(queue'[k])
        <5>1. m \in Messages
          BY <1>1, <4>2, AppendedIsMessage
        <5> QED BY <1>1, <4>2, <5>1, TypeInQueue DEF NeverPaused
      <4> QED BY <2>3, <4>1, <4>2
    <3> QED BY <1>1, <2>1, <2>2, <2>3, <3>1 DEF NeverPaused
  <2> HIDE DEF Quiet
  <2>4. /\ \A t \in CommandTypes \ {"PAUSE", "MUTATION_VERIFIED"} : \A s, res :
             Quiet(Command(t, s, res)) /\ Quiet(UserCommand(t, s, res))
        /\ \A s, res : Quiet(PolicyDecided(s, res))
    BY DEF Quiet, Command, UserCommand, PolicyDecided
  <2>5. ASSUME (\E m : Quiet(m) /\ Enqueue(m)) \/ Throw PROVE NeverPaused'
    <3>1. effect'.type = "NONE"
      BY <2>5 DEF Enqueue, Throw, NoEffect
    <3>2. queue' = queue \/ \E m : Quiet(m) /\ queue' = Append(queue, m)
      BY <2>4, <2>5 DEF Enqueue, Throw, QueueAfterError, CommandTypes, PlainTarget
    <3> QED BY <2>3, <3>1, <3>2
  <2>6. CASE IgnoreCommand \/ RejectCommand
    <3>1. queue # <<>> /\ effect' = effect
      BY <2>6 DEF IgnoreCommand, RejectCommand
    <3>2. Tail(queue) \in Seq(Messages) /\ \A k \in 1 .. Len(Tail(queue)) : Quiet(Tail(queue)[k])
      BY <1>1, <3>1, TailElements DEF NeverPaused, Quiet
    <3>3. Command("FAIL", <<>>, "none") \in Messages /\ Quiet(Command("FAIL", <<>>, "none"))
      BY PlainMessage DEF Quiet, Command
    <3>4. queue' = Tail(queue) \/ queue' = Append(Tail(queue), Command("FAIL", <<>>, "none"))
      BY <2>6 DEF IgnoreCommand, RejectCommand, QueueAfterError
    <3>5. \A k \in 1 .. Len(queue') : Quiet(queue'[k])
      <4>1. CASE queue' = Tail(queue)
        BY <3>2, <4>1
      <4>2. CASE queue' = Append(Tail(queue), Command("FAIL", <<>>, "none"))
        BY <3>2, <3>3, <4>2, TypeInQueue
      <4> QED BY <3>4, <4>1, <4>2
    <3> QED BY <1>1, <2>1, <2>2, <3>1, <3>5 DEF NeverPaused, Quiet
  <2>7. CASE RunHarness
    <3>1. \/ Enqueue(Command("INCONCLUSIVE", <<>>, "none"))
          \/ queue' = queue /\ effect' = [effect EXCEPT !.type = "HARNESS_TURN"]
      BY <2>7 DEF RunHarness
    <3>2. effect' = [effect EXCEPT !.type = "HARNESS_TURN"] => effect'.type = "HARNESS_TURN"
      BY DEF IInv, TypeOK, Effects
    <3> QED BY <2>3, <2>4, <2>5, <3>1, <3>2 DEF CommandTypes, PlainTarget
  <2>8. CASE HarnessTurn
    BY <2>4, <2>5, <2>8 DEF HarnessTurn, CommandTypes
  <2>9. CASE EvaluateIntent
    <3>1. \/ Throw \/ \E s, res : Enqueue(PolicyDecided(s, res))
          \/ \E o : queue' = queue /\ effect' = [effect EXCEPT !.type = "PRECHECK", !.result = o]
      BY <2>9 DEF EvaluateIntent
    <3>2. \A o : effect' = [effect EXCEPT !.type = "PRECHECK", !.result = o] => effect'.type = "PRECHECK"
      BY DEF IInv, TypeOK, Effects
    <3> QED BY <2>3, <2>4, <2>5, <3>1, <3>2
  <2>10. CASE EvaluateReadBundle \/ Precheck
    <3>1. Throw \/ \E s, res : Enqueue(PolicyDecided(s, res))
      BY <2>10, Zenon DEF EvaluateReadBundle, Precheck
    <3> QED BY <2>4, <2>5, <3>1
  <2>11. CASE ExecuteIntent
    <3>1. \/ Throw
          \/ \E d : queue' = queue /\ effect' = [effect EXCEPT !.type = "EXECUTING", !.doomed = d]
      BY <2>11 DEF ExecuteIntent
    <3>2. \A d : effect' = [effect EXCEPT !.type = "EXECUTING", !.doomed = d] => effect'.type = "EXECUTING"
      BY DEF IInv, TypeOK, Effects
    <3> QED BY <2>3, <2>5, <3>1, <3>2
  <2>12. CASE ExecutionEnds
    BY <2>4, <2>5, <2>12 DEF ExecutionEnds, CommandTypes, PlainTarget
  <2>13. CASE BuildObservation
    BY <2>4, <2>5, <2>13 DEF BuildObservation, CommandTypes, PlainTarget
  <2>14. CASE ReduceContext
    BY <2>4, <2>5, <2>14 DEF ReduceContext, CommandTypes, PlainTarget
  <2>15. CASE EvaluateProgress
    <3>1. Quiet(ProgressCommand)
      BY <2>4 DEF ProgressCommand, CommandTypes, PlainTarget
    <3> QED BY <2>5, <2>15, <3>1 DEF EvaluateProgress
  <2>16. CASE VerifyCompletion
    BY <2>4, <2>5, <2>16 DEF VerifyCompletion, CommandTypes, PlainTarget
  <2>17. ~RunMutationVerification /\ ~ChecksEnd
    BY <1>1 DEF RunMutationVerification, ChecksEnd
  <2>18. CASE UserCancel
    <3>1. effect'.type = effect.type
      BY <2>18, PreemptType DEF UserCancel
    <3> QED BY <1>1, <2>3, <2>4, <2>18, <3>1 DEF UserCancel, CommandTypes, PlainTarget
  <2>19. CASE UserResume \/ DeadlinePasses \/ UNCHANGED vars
    BY <1>1, <2>3, <2>19 DEF UserResume, DeadlinePasses, vars
  <2>20. CASE ResumeBound
    BY <1>1, <2>3, <2>4, <2>20 DEF ResumeBound, CommandTypes
  <2>21. \A t \in CommandTypes \ {"PAUSE", "MUTATION_VERIFIED"} : \A s, res, origin :
           Answer(t, s, res, origin) => \E m : Quiet(m) /\ queue' = Append(queue, m)
    BY DEF Answer, Quiet
  <2>22. ASSUME NEW forTask \in BOOLEAN, Approve(forTask) PROVE NeverPaused'
    BY <1>1, <2>3, <2>21, <2>22 DEF Approve, CommandTypes, PlainTarget
  <2>23. ASSUME NEW choice \in {"reject", "cancel_task", "expired"}, Decline(choice)
         PROVE  NeverPaused'
    BY <1>1, <2>3, <2>21, <2>23 DEF Decline, CommandTypes, PlainTarget
  <2>24. CASE ReviseApproval
    BY <1>1, <2>3, <2>21, <2>24 DEF ReviseApproval, CommandTypes, PlainTarget
  <2>25. CASE ApprovalTimerFires
    BY <1>1, <2>3, <2>21, <2>25 DEF ApprovalTimerFires, CommandTypes, PlainTarget
  <2> QED
    BY <1>1, <1>3, <2>6, <2>7, <2>8, <2>9, <2>10, <2>11, <2>12, <2>13, <2>14, <2>15, <2>16, <2>17,
       <2>18, <2>19, <2>20, <2>22, <2>23, <2>24, <2>25 DEF Next, Worker, User
<1> QED BY <1>2, <1>3

LEMMA DoubtChecked ==
  ASSUME IInv, OwedIn(record), DoubtIn(record, doubted), NEW verdict \in Verdicts,
         record.obligations # <<>>, CheckObserved(verdict)
  PROVE  DoubtIn(record', doubted')
<1> DEFINE owed  == Head(record.obligations)
           worst == Worse(owed.worst, verdict)
           rest  == Tail(owed.checks)
<1>1. /\ record \in Records /\ record.obligations \in Seq(Obligations)
      /\ record.changes \in [Ids -> ChangeStatuses]
  BY DEF IInv, TypeOK, Records
<1>2. owed \in Obligations /\ owed = record.obligations[1]
      /\ Len(record.obligations) \in Nat /\ Len(record.obligations) >= 1
  BY <1>1, TailElements
<1>3. owed.id \in Ids /\ worst \in Verdicts /\ owed.worst \in Verdicts
  BY <1>2, WorseType DEF Obligations
<1>4. record.changes[owed.id] = "pending"
  BY <1>2 DEF DoubtIn
<1>5. doubted' = IF verdict = "passed" THEN doubted ELSE doubted \cup {owed.id}
  BY DEF CheckObserved
<1>6. owed.id \in doubted' => worst # "passed"
  <2>1. owed.id \in doubted => owed.worst # "passed"
    BY <1>2 DEF DoubtIn
  <2>2. owed.worst # "passed" \/ verdict # "passed" => worst # "passed"
    BY <1>3 DEF Worse, Verdicts
  <2> QED BY <1>5, <2>1, <2>2
<1>7. CASE rest # <<>>
  <2> DEFINE new == [id |-> owed.id, checks |-> rest, worst |-> worst]
  <2>1. record' = [record EXCEPT !.obligations[1] = new]
    BY <1>7 DEF CheckObserved
  <2>2. new.id = owed.id /\ new.worst = worst
    OBVIOUS
  <2> HIDE DEF new, owed, worst, rest
  <2>3. /\ record'.obligations = [record.obligations EXCEPT ![1] = new]
        /\ record'.changes = record.changes
    BY <1>1, <2>1 DEF Records
  <2>4. /\ Len(record'.obligations) = Len(record.obligations)
        /\ record'.obligations[1] = new
        /\ \A k \in 1 .. Len(record.obligations) : k # 1 =>
             record'.obligations[k] = record.obligations[k]
    BY <1>1, <1>2, <2>3
  <2>5. \A k \in 1 .. Len(record.obligations) : k # 1 => record.obligations[k].id # owed.id
    BY <1>2 DEF OwedIn
  <2>6. \A k \in 1 .. Len(record'.obligations) : record'.changes[record'.obligations[k].id] = "pending"
    BY <1>4, <2>2, <2>3, <2>4 DEF DoubtIn
  <2>7. \A id \in doubted' : record'.changes[id] \notin {"passed", "none"}
    BY <1>4, <1>5, <2>3 DEF DoubtIn
  <2>8. \A id \in doubted' : \A k \in 1 .. Len(record'.obligations) :
          record'.obligations[k].id = id => record'.obligations[k].worst # "passed"
    BY <1>5, <1>6, <2>2, <2>4, <2>5 DEF DoubtIn
  <2> QED BY <2>6, <2>7, <2>8 DEF DoubtIn
<1>8. CASE rest = <<>>
  <2>1. record' = [record EXCEPT
                     !.changes[owed.id] = IF @ = "none" THEN @ ELSE worst,
                     !.obligations = Tail(@)]
    BY <1>8 DEF CheckObserved
  <2> HIDE DEF owed, worst, rest
  <2>2. /\ record'.obligations = Tail(record.obligations)
        /\ record'.changes = [record.changes EXCEPT
                                ![owed.id] = IF @ = "none" THEN @ ELSE worst]
    BY <1>1, <1>3, <2>1 DEF Records
  <2>3. /\ record'.changes[owed.id] = worst
        /\ \A id \in Ids : id # owed.id => record'.changes[id] = record.changes[id]
    BY <1>1, <1>3, <1>4, <2>2
  <2>4. \A k \in 1 .. Len(record'.obligations) :
          /\ record'.obligations[k] = record.obligations[k + 1] /\ k + 1 \in 1 .. Len(record.obligations)
          /\ record'.obligations[k].id # owed.id /\ record'.obligations[k].id \in Ids
    <3> SUFFICES ASSUME NEW k \in 1 .. Len(record'.obligations)
                 PROVE  /\ record'.obligations[k] = record.obligations[k + 1]
                        /\ k + 1 \in 1 .. Len(record.obligations)
                        /\ record'.obligations[k].id # owed.id /\ record'.obligations[k].id \in Ids
      OBVIOUS
    <3>1. record.obligations # <<>>
      OBVIOUS
    <3>2. record'.obligations[k] = record.obligations[k + 1] /\ k + 1 \in 1 .. Len(record.obligations)
      BY <1>1, <2>2, <3>1, TailElements
    <3>3. k \in Nat /\ k + 1 # 1
      <4>1. Len(record'.obligations) \in Nat
        BY <1>1, <2>2, <3>1, TailElements
      <4> QED BY <4>1
    <3>4. record.obligations[k + 1].id # record.obligations[1].id
      BY <1>2, <3>2, <3>3 DEF OwedIn
    <3>5. record.obligations[k + 1] \in Obligations
      BY <1>1, <3>2
    <3> QED BY <1>2, <3>2, <3>4, <3>5 DEF Obligations
  <2>5. \A k \in 1 .. Len(record'.obligations) : record'.changes[record'.obligations[k].id] = "pending"
    BY <2>3, <2>4 DEF DoubtIn
  <2>6. \A id \in doubted' : record'.changes[id] \notin {"passed", "none"}
    <3>1. doubted \subseteq Ids
      BY DEF IInv, TypeOK
    <3> QED BY <1>3, <1>5, <1>6, <2>3, <3>1 DEF DoubtIn, Verdicts
  <2>7. \A id \in doubted' : \A k \in 1 .. Len(record'.obligations) :
          record'.obligations[k].id = id => record'.obligations[k].worst # "passed"
    BY <1>5, <2>4 DEF DoubtIn
  <2> QED BY <2>5, <2>6, <2>7 DEF DoubtIn
<1> QED BY <1>7, <1>8

LEMMA DoubtRecorded ==
  ASSUME NEW r \in Records, NEW d \in SUBSET Ids, OwedIn(r), DoubtIn(r, d)
  PROVE  DoubtIn(Recorded(r), d)
<1> DEFINE i == r.invocation
           owed == [id |-> i.id, checks |-> i.plan, worst |-> "passed"]
<1>1. r.obligations \in Seq(Obligations) /\ r.changes \in [Ids -> ChangeStatuses]
  BY DEF Records
<1>2. CASE VerifiableChange(i) /\ r.changes[i.id] = "none"
  <2>1. Recorded(r) = [r EXCEPT !.changes[i.id] = "pending", !.obligations = Append(@, owed)]
    BY <1>2 DEF Recorded
  <2>2. i \in Intents
    BY <1>2 DEF VerifiableChange, Records
  <2>3. owed \in Obligations /\ owed.id = i.id /\ i.id \in Ids
    BY <1>2, <2>2, PlansAssumption DEF VerifiableChange, Intents, Obligations, Verdicts
  <2> HIDE DEF owed, i
  <2>4. /\ Recorded(r).obligations = Append(r.obligations, owed)
        /\ Recorded(r).changes = [r.changes EXCEPT ![owed.id] = "pending"]
    BY <1>1, <2>1, <2>3 DEF Records
  <2>5. /\ Len(Recorded(r).obligations) = Len(r.obligations) + 1 /\ Len(r.obligations) \in Nat
        /\ Recorded(r).obligations[Len(r.obligations) + 1] = owed
        /\ \A k \in 1 .. Len(r.obligations) : Recorded(r).obligations[k] = r.obligations[k]
    BY <1>1, <2>3, <2>4, AppendElements
  <2>6. \A k \in 1 .. Len(Recorded(r).obligations) :
          \/ k \in 1 .. Len(r.obligations)
          \/ k = Len(r.obligations) + 1
    BY <2>5
  <2>7. owed.id \notin d
    BY <1>2, <2>3 DEF DoubtIn
  <2>8. /\ Recorded(r).changes[owed.id] = "pending"
        /\ \A id \in Ids : id # owed.id => Recorded(r).changes[id] = r.changes[id]
    BY <1>1, <2>3, <2>4
  <2>9. \A k \in 1 .. Len(r.obligations) : r.obligations[k].id \in Ids
    <3>1. \A k \in 1 .. Len(r.obligations) : r.obligations[k] \in Obligations
      BY <1>1
    <3> QED BY <3>1 DEF Obligations
  <2>10. \A k \in 1 .. Len(Recorded(r).obligations) :
           Recorded(r).changes[Recorded(r).obligations[k].id] = "pending"
    BY <2>5, <2>6, <2>8, <2>9 DEF DoubtIn
  <2>11. \A id \in d : Recorded(r).changes[id] \notin {"passed", "none"}
    BY <2>7, <2>8 DEF DoubtIn
  <2>12. \A id \in d : \A k \in 1 .. Len(Recorded(r).obligations) :
           Recorded(r).obligations[k].id = id => Recorded(r).obligations[k].worst # "passed"
    BY <2>5, <2>6, <2>7 DEF DoubtIn
  <2> QED BY <2>10, <2>11, <2>12 DEF DoubtIn
<1>3. CASE ~(VerifiableChange(i) /\ r.changes[i.id] = "none")
  BY <1>3 DEF Recorded
<1> QED BY <1>2, <1>3

LEMMA OnlyObservationDoubts ==
  ASSUME [Next]_vars, ~BuildObservation, ~Restart
  PROVE  doubted' = doubted
<1>1. CASE Worker
  BY <1>1 DEF Worker, IgnoreCommand, RejectCommand, AcceptCommand, RunHarness, HarnessTurn,
     EvaluateIntent, Precheck, EvaluateReadBundle, ExecuteIntent, ExecutionEnds, ReduceContext,
     EvaluateProgress, RunMutationVerification, ChecksEnd, VerifyCompletion, ghostVars
<1>2. CASE User
  BY <1>2 DEF User, UserPause, UserCancel, UserResume, Approve, Decline, ReviseApproval, ghostVars
<1>3. CASE ResumeBound \/ ApprovalTimerFires \/ DeadlinePasses \/ UNCHANGED vars
  BY <1>3 DEF ResumeBound, ApprovalTimerFires, DeadlinePasses, vars, ghostVars
<1> QED BY <1>1, <1>2, <1>3 DEF Next

LEMMA DoubtStep ==
  ASSUME "pause" \notin UserControls, MaxRestarts = 0,
         IInv, IInv', OwedIn(record), NeverPaused, DoubtIn(record, doubted), [Next]_vars
  PROVE  DoubtIn(record', doubted')
<1>1. record \in Records /\ ~Restart /\ doubted \in SUBSET Ids
  BY DEF IInv, TypeOK, Restart
<1>2. CASE BuildObservation
  <2>1. CASE UNCHANGED <<record, doubted>>
    BY <2>1
  <2>2. CASE \E verdict \in {"passed", "failed", "inconclusive"} :
               CheckObserved(verdict) /\ record.obligations # <<>>
    BY <2>2, DoubtChecked DEF Verdicts
  <2> QED BY <1>2, <2>1, <2>2 DEF BuildObservation
<1>3. CASE ReduceContext
  <2> DEFINE r == [record EXCEPT !.errors = ErrorsAfter(@, effect.result)]
  <2>1. r \in Records
    <3>1. record.errors \in 0 .. (MaxErrors + 1)
      BY <1>1 DEF Records
    <3>2. ErrorsAfter(record.errors, effect.result) \in 0 .. (MaxErrors + 1)
      BY <3>1, BudgetAssumption DEF ErrorsAfter, Capped
    <3> QED BY <1>1, <3>2 DEF Records
  <2>2. OwedIn(r) /\ DoubtIn(r, doubted)
    BY <1>1 DEF OwedIn, DoubtIn, Records
  <2>3. record' = Recorded(r) /\ doubted' = doubted
    BY <1>3 DEF ReduceContext, ghostVars
  <2> HIDE DEF r
  <2> QED BY <1>1, <2>1, <2>2, <2>3, DoubtRecorded
<1>4. CASE AcceptCommand
  <2>1. /\ record'.changes = ChangesAfter(record, Head(queue))
        /\ record'.obligations = ObligationsAfter(record, Head(queue))
        /\ queue # <<>> /\ queue \in Seq(Messages)
    BY <1>4, Accepted
  <2>2. Head(queue).type # "MUTATION_VERIFIED"
    BY <2>1, TailElements DEF NeverPaused
  <2>3. record'.changes = record.changes /\ record'.obligations = record.obligations
    BY <2>1, <2>2 DEF ChangesAfter, ObligationsAfter
  <2>4. doubted' = doubted
    BY <1>4 DEF AcceptCommand, ghostVars
  <2> QED BY <2>3, <2>4 DEF DoubtIn
<1>5. CASE ~AcceptCommand /\ ~BuildObservation /\ ~ReduceContext
  <2>1. record'.changes = record.changes /\ record'.obligations = record.obligations
    BY <1>1, <1>5, OnlyTheseJudge
  <2>2. doubted' = doubted
    BY <1>1, <1>5, OnlyObservationDoubts
  <2> QED BY <2>1, <2>2 DEF DoubtIn
<1> QED BY <1>2, <1>3, <1>4, <1>5

\* A change one of whose checks did not pass is never judged "passed"
\* (verification-runner.js evaluate, progress of follow-up checks in
\* session-manager.js).  Without pauses and crashes: the verification after a
\* resume starts from what is left of the checks, and forgets the verdict so far.
THEOREM FailedChecksStay ==
  ASSUME "pause" \notin UserControls, MaxRestarts = 0
  PROVE  Spec => []FailedCheckNeverPasses
<1> DEFINE I == OwedIn(record) /\ NeverPaused /\ DoubtIn(record, doubted)
<1>1. Init => I
  <2>1. Init => queue = <<Command("OBJECTIVE_READY", <<>>, "none")>>
    BY DEF Init
  <2> QED BY <2>1 DEF Init, InitialRecord, OwedIn, NeverPaused, DoubtIn, NoEffect, Command
<1>2. IInv /\ IInv' /\ I /\ [Next]_vars => I'
  <2> SUFFICES ASSUME IInv, IInv', I, [Next]_vars PROVE I'
    OBVIOUS
  <2>1. OwedIn(record)'
    BY OwedStep
  <2>2. NeverPaused'
    BY NeverPausedStep
  <2>3. DoubtIn(record', doubted')
    BY DoubtStep
  <2> QED BY <2>1, <2>2, <2>3
<1>3. I => FailedCheckNeverPasses
  BY DEF DoubtIn, FailedCheckNeverPasses
<1> HIDE DEF I
<1> QED
  BY <1>1, <1>2, <1>3, Invariance, PTL DEF Spec

-----------------------------------------------------------------------------
(* The signal under which a change runs.  While nothing stops the task, what   *)
(* the model proposed is on its way under a live signal; an aborted one is left *)
(* only to the follow-up checks of a change that a cancel waits for.            *)

Ours(i) == i.kind \in {"shell", "tool", "interactive"}
SomeOfOurs(s) == \E n \in 1 .. Len(s) : Ours(s[n])
Proposing(x) ==
  \/ x.type \in {"PLANNER_DECISION", "FOLLOW_UP_PROPOSED", "APPROVAL_REVISED", "POLICY_DECIDED",
                 "EVALUATE_INTENT", "PRECHECK", "EXECUTE_INTENT"}
  \/ x.type = "APPROVAL_RESOLVED" /\ x.result = "approve"
Carried(x) == Proposing(x) /\ SomeOfOurs(x.intents)

Unstopped(q, status) == ~IsStopped(status) /\ \A k \in 1 .. Len(q) : ~IsStop(q[k])

SignalIsLive ==
  Unstopped(queue, record.status) =>
    /\ effect.type = "HARNESS_TURN" \/ Carried(effect) => signal = "live"
    /\ \A k \in 1 .. Len(queue) : Carried(queue[k]) => signal = "live"
    /\ record.status = "awaiting_approval" /\ record.approval # NoIntent /\ Ours(record.approval) =>
         signal = "live"

\* What a step pushes while it leaves the signal alone.
LEMMA SignalPass ==
  ASSUME IInv, IInv', SignalIsLive, record'.status = record.status,
         record'.approval = record.approval,
         NEW m, queue' = queue \/ queue' = Append(queue, m),
         signal' = signal \/ signal' = "live",
         Unstopped(queue, record.status) /\ Carried(m) => signal' = "live",
         Unstopped(queue, record.status) /\ (effect'.type = "HARNESS_TURN" \/ Carried(effect')) =>
           signal' = "live"
  PROVE  SignalIsLive'
<1>1. queue \in Seq(Messages) /\ queue' \in Seq(Messages)
  BY DEF IInv
<1>2. CASE queue' = queue
  BY <1>2 DEF SignalIsLive
<1>3. CASE queue' = Append(queue, m)
  <2>1. m \in Messages
    BY <1>1, <1>3, AppendedIsMessage
  <2>2. /\ \A k \in 1 .. Len(queue') : queue'[k] = m \/ \E j \in 1 .. Len(queue) : queue'[k] = queue[j]
        /\ \A j \in 1 .. Len(queue) : j \in 1 .. Len(queue') /\ queue'[j] = queue[j]
    BY <1>1, <1>3, <2>1, TypeInQueue, AppendElements
  <2>3. Unstopped(queue', record'.status) => Unstopped(queue, record.status)
    BY <2>2 DEF Unstopped
  <2> QED BY <2>2, <2>3 DEF SignalIsLive
<1> QED BY <1>2, <1>3

LEMMA SignalOutcome ==
  ASSUME IInv, IInv', SignalIsLive, record'.status = record.status,
         record'.approval = record.approval,
         \/ \E m : Enqueue(m) /\ (Unstopped(queue, record.status) /\ Carried(m) => signal' = "live")
         \/ Throw,
         signal' = signal \/ signal' = "live"
  PROVE  SignalIsLive'
<1>1. effect'.type = "NONE" /\ ~Carried(effect')
  BY DEF Enqueue, Throw, NoEffect, Carried, Proposing
<1>2. ASSUME NEW m, Enqueue(m), Unstopped(queue, record.status) /\ Carried(m) => signal' = "live"
      PROVE  SignalIsLive'
  <2>1. queue' = Append(queue, m)
    BY <1>2 DEF Enqueue
  <2> QED BY <1>1, <1>2, <2>1, SignalPass
<1>3. CASE Throw
  <2>1. queue' = queue \/ queue' = Append(queue, Command("FAIL", <<>>, "none"))
    BY <1>3 DEF Throw, QueueAfterError
  <2>2. ~Carried(Command("FAIL", <<>>, "none"))
    BY DEF Carried, Proposing, Command
  <2> QED BY <1>1, <2>1, <2>2, SignalPass
<1> QED BY <1>2, <1>3

LEMMA SignalHarness ==
  IInv /\ IInv' /\ SignalIsLive /\ (RunHarness \/ HarnessTurn) => SignalIsLive'
<1> SUFFICES ASSUME IInv, IInv', SignalIsLive, RunHarness \/ HarnessTurn
             PROVE  SignalIsLive'
  OBVIOUS
<1>1. record'.status = record.status /\ record'.approval = record.approval
  BY OnlyTheseMove DEF Next, Worker, RunHarness, HarnessTurn, AcceptCommand, Restart, IInv, TypeOK,
     Records
<1>2. CASE RunHarness
  <2>1. CASE Enqueue(Command("INCONCLUSIVE", <<>>, "none"))
    <3>1. ~Carried(Command("INCONCLUSIVE", <<>>, "none"))
      BY DEF Carried, Proposing, Command
    <3> QED BY <1>1, <1>2, <2>1, <3>1, SignalOutcome DEF RunHarness
  <2>2. CASE signal' = "live" /\ queue' = queue
    BY <1>1, <2>2, SignalPass
  <2> QED BY <1>2, <2>1, <2>2 DEF RunHarness
<1>3. CASE HarnessTurn
  <2>1. Unstopped(queue, record.status) => signal' = "live"
    BY <1>3 DEF HarnessTurn, SignalIsLive
  <2>2. signal' = signal /\ ((\E m : Enqueue(m)) \/ Throw)
    BY <1>3 DEF HarnessTurn
  <2> QED BY <1>1, <2>1, <2>2, SignalOutcome
<1> QED BY <1>2, <1>3

LEMMA SignalEvaluate ==
  IInv /\ IInv' /\ SignalIsLive /\ (EvaluateIntent \/ EvaluateReadBundle \/ Precheck)
    => SignalIsLive'
<1> SUFFICES ASSUME IInv, IInv', SignalIsLive, EvaluateIntent \/ EvaluateReadBundle \/ Precheck
             PROVE  SignalIsLive'
  OBVIOUS
<1>1. record'.status = record.status /\ record'.approval = record.approval
  <2>1. record \in Records
    BY DEF IInv, TypeOK
  <2>2. CASE Precheck
    BY <2>1, <2>2 DEF Precheck, Records
  <2>3. CASE EvaluateIntent \/ EvaluateReadBundle
    <3>1. UNCHANGED record \/ \E s : Prepare(s)
      BY <2>3 DEF EvaluateIntent, EvaluateReadBundle
    <3> QED BY <2>1, <3>1 DEF Prepare, Records
  <2> QED BY <2>2, <2>3
<1>2. signal' = signal
  BY DEF EvaluateIntent, EvaluateReadBundle, Precheck
<1>3. effect.intents \in Seq(Intents)
  BY DEF IInv, TypeOK, Effects
<1>4. Unstopped(queue, record.status) /\ SomeOfOurs(effect.intents) => signal = "live"
  BY DEF SignalIsLive, Carried, Proposing, EvaluateIntent, EvaluateReadBundle, Precheck
<1>5. ASSUME NEW s, NEW res, Enqueue(PolicyDecided(s, res)), SomeOfOurs(s) => SomeOfOurs(effect.intents)
      PROVE  SignalIsLive'
  <2>1. Carried(PolicyDecided(s, res)) => SomeOfOurs(effect.intents)
    BY <1>5 DEF Carried, PolicyDecided, Command
  <2> QED BY <1>1, <1>2, <1>4, <1>5, <2>1, SignalOutcome
<1>6. ASSUME Throw PROVE SignalIsLive'
  BY <1>1, <1>2, <1>6, SignalOutcome
<1>7. CASE EvaluateIntent
  <2> DEFINE i == effect.intents[1]
  <2>1. Len(effect.intents) = 1
    BY <1>7 DEF EvaluateIntent
  <2>2. SomeOfOurs(<<i>>) => SomeOfOurs(effect.intents)
    BY <1>3, <2>1 DEF SomeOfOurs
  <2>3. \/ Throw \/ Enqueue(PolicyDecided(<<i>>, PolicyOutcome(i)))
        \/ queue' = queue /\ effect' = [effect EXCEPT !.type = "PRECHECK", !.result = PolicyOutcome(i)]
    BY <1>7 DEF EvaluateIntent
  <2> HIDE DEF i
  <2>4. CASE queue' = queue /\ effect' = [effect EXCEPT !.type = "PRECHECK", !.result = PolicyOutcome(i)]
    <3>1. effect'.type = "PRECHECK" /\ effect'.intents = effect.intents
      BY <2>4 DEF IInv, TypeOK, Effects
    <3>2. Unstopped(queue, record.status) /\ (effect'.type = "HARNESS_TURN" \/ Carried(effect')) =>
            signal' = "live"
      BY <1>2, <1>4, <3>1 DEF Carried
    <3>3. SignalIsLive'
      BY <1>1, <1>2, <2>4, <3>2 DEF SignalIsLive
    <3> QED BY <3>3
  <2> QED BY <1>5, <1>6, <2>2, <2>3, <2>4
<1>8. CASE EvaluateReadBundle
  <2> DEFINE a == effect.intents[1]
             b == effect.intents[2]
  <2>1. Len(effect.intents) = 2
    BY <1>8 DEF EvaluateReadBundle
  <2>2. \/ Throw
        \/ \E chosen \in {<<a>>, <<b>>, <<a, b>>} : \E verdict : Enqueue(PolicyDecided(chosen, verdict))
    BY <1>8, Zenon DEF EvaluateReadBundle, a, b
  <2>3. 1 \in 1 .. Len(effect.intents) /\ 2 \in 1 .. Len(effect.intents)
    BY <2>1
  <2>4. Ours(a) \/ Ours(b) => SomeOfOurs(effect.intents)
    BY <2>3 DEF SomeOfOurs
  <2> HIDE DEF a, b
  <2>5. \A chosen \in {<<a>>, <<b>>, <<a, b>>} : SomeOfOurs(chosen) => Ours(a) \/ Ours(b)
    <3>1. SomeOfOurs(<<a>>) => Ours(a)
      BY DEF SomeOfOurs
    <3>2. SomeOfOurs(<<b>>) => Ours(b)
      BY DEF SomeOfOurs
    <3>3. SomeOfOurs(<<a, b>>) => Ours(a) \/ Ours(b)
      BY DEF SomeOfOurs
    <3> QED BY <3>1, <3>2, <3>3
  <2> QED BY <1>5, <1>6, <2>2, <2>4, <2>5
<1>9. CASE Precheck
  BY <1>5, <1>9 DEF Precheck
<1> QED BY <1>7, <1>8, <1>9

LEMMA SignalEffects ==
  IInv /\ IInv' /\ SignalIsLive /\ (\/ ExecuteIntent \/ ExecutionEnds \/ BuildObservation
                                    \/ ReduceContext \/ ChecksEnd \/ VerifyCompletion
                                    \/ RunMutationVerification)
    => SignalIsLive'
<1> SUFFICES ASSUME IInv, IInv', SignalIsLive, [Next]_vars
             PROVE  (\/ ExecuteIntent \/ ExecutionEnds \/ BuildObservation
                     \/ ReduceContext \/ ChecksEnd \/ VerifyCompletion
                     \/ RunMutationVerification) => SignalIsLive'
  BY DEF Next, Worker
<1>0. /\ \A t \in {"EXECUTION_FINISHED", "OBSERVATION_READY", "CONTEXT_REDUCED", "COMPLETE",
                   "INCONCLUSIVE", "FAIL"} : \A s, res : ~Carried(Command(t, s, res))
      /\ \A id, v : ~Carried(Verified(id, v))
  BY DEF Carried, Proposing, Command, Verified
<1>1. ASSUME (\E m : Enqueue(m) /\ ~Carried(m)) \/ Throw, signal' = signal,
             effect.type # "NONE", ~Restart
      PROVE  SignalIsLive'
  <2>1. record'.status = record.status /\ record'.approval = record.approval
    BY <1>1, OnlyTheseMove DEF AcceptCommand
  <2> QED BY <1>1, <2>1, SignalOutcome
<1>2. ASSUME queue' = queue, signal' \in {signal, "live"}, effect'.type \in {"EXECUTING", "RUN_CHECKS"},
             record' = record
      PROVE  SignalIsLive'
  <2>1. ~Carried(effect')
    BY <1>2 DEF Carried, Proposing
  <2> QED BY <1>2, <2>1 DEF SignalIsLive
<1>3. restarts \in Nat /\ effect \in Effects
  BY DEF IInv, TypeOK
<1>4. ASSUME restarts' = restarts PROVE ~Restart
  BY <1>3, <1>4 DEF Restart
<1>5. ASSUME ExecuteIntent PROVE SignalIsLive'
  <2>1. Throw \/ (queue' = queue /\ effect'.type = "EXECUTING")
    <3>1. \/ Throw
          \/ /\ queue' = queue
             /\ effect' = [effect EXCEPT !.type = "EXECUTING", !.doomed = (signal = "aborted")]
      BY <1>5 DEF ExecuteIntent
    <3>2. CASE effect' = [effect EXCEPT !.type = "EXECUTING", !.doomed = (signal = "aborted")]
      <4>1. effect'.type = "EXECUTING"
        BY <1>3, <3>2 DEF Effects
      <4> QED BY <3>1, <4>1
    <3> QED BY <3>1, <3>2
  <2> QED BY <1>1, <1>2, <1>4, <1>5, <2>1 DEF ExecuteIntent, clockVars
<1>6. ASSUME ExecutionEnds PROVE SignalIsLive'
  <2>1. (\E m : Enqueue(m) /\ ~Carried(m)) \/ Throw
    BY <1>0, <1>6 DEF ExecutionEnds
  <2> QED BY <1>1, <1>4, <1>6, <2>1 DEF ExecutionEnds, clockVars
<1>7. ASSUME BuildObservation PROVE SignalIsLive'
  <2>1. (\E m : Enqueue(m) /\ ~Carried(m)) \/ Throw
    BY <1>0, <1>7 DEF BuildObservation
  <2> QED BY <1>1, <1>4, <1>7, <2>1 DEF BuildObservation, clockVars
<1>8. ASSUME ReduceContext PROVE SignalIsLive'
  BY <1>0, <1>1, <1>4, <1>8 DEF ReduceContext, clockVars
<1>9. ASSUME ChecksEnd PROVE SignalIsLive'
  <2>1. (\E m : Enqueue(m) /\ ~Carried(m)) \/ Throw
    BY <1>0, <1>9 DEF ChecksEnd
  <2> QED BY <1>1, <1>4, <1>9, <2>1 DEF ChecksEnd, clockVars
<1>10. ASSUME VerifyCompletion PROVE SignalIsLive'
  <2>1. \E m : Enqueue(m) /\ ~Carried(m)
    BY <1>0, <1>10 DEF VerifyCompletion
  <2> QED BY <1>1, <1>4, <1>10, <2>1 DEF VerifyCompletion, clockVars
<1>11. ASSUME RunMutationVerification PROVE SignalIsLive'
  <2>1. effect' = [effect EXCEPT !.type = "RUN_CHECKS"]
    BY <1>11 DEF RunMutationVerification
  <2>2. effect'.type = "RUN_CHECKS"
    BY <1>3, <2>1 DEF Effects
  <2> QED BY <1>2, <1>11, <2>2 DEF RunMutationVerification
<1> QED BY <1>5, <1>6, <1>7, <1>8, <1>9, <1>10, <1>11

\* The runtime's own checks change nothing.
LEMMA SignalEvaluateProgress ==
  IInv /\ IInv' /\ SignalIsLive /\ EvaluateProgress => SignalIsLive'
<1> SUFFICES ASSUME IInv, IInv', SignalIsLive, EvaluateProgress
             PROVE  SignalIsLive'
  OBVIOUS
<1>1. ASSUME record.obligations # <<>>
      PROVE  Head(Head(record.obligations).checks) \in CheckKinds
  <2>1. record.obligations \in Seq(Obligations)
    BY DEF IInv, TypeOK, Records
  <2>2. Head(record.obligations) \in Obligations
    BY <1>1, <2>1, TailElements
  <2>3. Head(record.obligations).checks \in Seq(CheckKinds) /\ Head(record.obligations).checks # <<>>
    BY <2>2 DEF Obligations
  <2> QED BY <2>3, TailElements
<1>2. \A kind \in CheckKinds : ~Carried(Command("FOLLOW_UP_PROPOSED", <<FollowUp(kind)>>, "none"))
  BY DEF Command, FollowUp, Carried, SomeOfOurs, Ours, CheckKinds
<1>3. \A t \in {"FAIL", "INCONCLUSIVE", "CONTINUE_PLANNING"} : ~Carried(Command(t, <<>>, "none"))
  BY DEF Command, Carried, SomeOfOurs
<1>4. ~Carried(ProgressCommand)
  <2> DEFINE check == Head(Head(record.obligations).checks)
  <2>1. CASE record.obligations # <<>>
    <3>1. ~Carried(Command("FOLLOW_UP_PROPOSED", <<FollowUp(check)>>, "none"))
      BY <1>1, <1>2, <2>1
    <3> QED BY <1>3, <2>1, <3>1 DEF ProgressCommand
  <2>2. CASE record.obligations = <<>>
    BY <1>3, <2>2 DEF ProgressCommand
  <2> QED BY <2>1, <2>2
<1> QED BY <1>4, SignalOutcome DEF EvaluateProgress

LEMMA SignalControls ==
  IInv /\ IInv' /\ ThreadInv /\ SignalIsLive /\ (UserPause \/ UserCancel) => SignalIsLive'
<1> SUFFICES ASSUME IInv, IInv', ThreadInv, SignalIsLive, UserPause \/ UserCancel
             PROVE  SignalIsLive'
  OBVIOUS
<1>1. queue \in Seq(Messages) /\ record' = record /\ effect \in Effects
  BY DEF IInv, TypeOK, UserPause, UserCancel
<1>2. ASSUME NEW t \in Stops, queue' = Append(queue, UserCommand(t, <<>>, "none"))
      PROVE  SignalIsLive'
  <2> DEFINE m == UserCommand(t, <<>>, "none")
  <2>1. IsStop(m)
    BY DEF IsStop, UserCommand
  <2> HIDE DEF m
  <2>2. Append(queue, m) \in Seq(Messages)
    BY <1>2 DEF IInv, m
  <2>3. m \in Messages
    BY <1>1, <2>2, AppendedIsMessage
  <2>4. Len(queue) + 1 \in 1 .. Len(queue') /\ queue'[Len(queue) + 1] = m
    BY <1>1, <1>2, <2>3, AppendElements DEF m
  <2>5. ~Unstopped(queue', record'.status)
    BY <2>1, <2>4 DEF Unstopped
  <2> QED BY <2>5 DEF SignalIsLive
<1>3. CASE UNCHANGED <<queue, effect, signal>>
  BY <1>1, <1>3 DEF SignalIsLive
<1>4. CASE UserCancel /\ MutationInFlight
  <2>1. record.status \in {"executing", "observing", "reducing", "evaluating", "verifying"}
    BY <1>4 DEF MutationInFlight
  <2>2. queue' = queue /\ effect'.type = effect.type
    BY <1>4, PreemptType DEF UserCancel
  <2>3. CASE Idle
    <3>1. queue' = <<>> /\ effect'.type = "NONE" /\ ~Carried(effect')
      BY <2>2, <2>3 DEF Idle, Carried, Proposing
    <3> QED BY <1>1, <2>1, <3>1 DEF SignalIsLive
  <2>4. CASE effect.type \in AwaitEffects
    <3>1. effect.type \in {"EXECUTING", "BUILD_OBSERVATION", "RUN_CHECKS", "VERIFY_COMPLETION"}
      BY <2>1, <2>4 DEF ThreadInv, Working, StatusOfEffect, AwaitEffects
    <3>2. effect'.type # "HARNESS_TURN" /\ ~Carried(effect')
      BY <2>2, <3>1 DEF Carried, Proposing
    <3>3. \A k \in 1 .. Len(queue') : IsStop(queue'[k])
      BY <2>2, <3>1 DEF ThreadInv, Working
    <3>4. \A k \in 1 .. Len(queue') : ~Carried(queue'[k])
      BY <3>3 DEF Carried, Proposing, IsStop, Stops
    <3> QED BY <1>1, <2>1, <3>2, <3>4 DEF SignalIsLive
  <2> QED BY <1>4, <2>3, <2>4 DEF UserCancel, Interruptible
<1>5. CASE UserPause
  BY <1>2, <1>3, <1>5 DEF UserPause, Stops
<1>6. CASE UserCancel /\ ~MutationInFlight
  BY <1>2, <1>6 DEF UserCancel, Stops
<1> QED BY <1>4, <1>5, <1>6

LEMMA SignalAnswers ==
  IInv /\ IInv' /\ ThreadInv /\ SignalIsLive
    /\ (\/ \E forTask \in BOOLEAN : Approve(forTask)
        \/ \E choice \in {"reject", "cancel_task", "expired"} : Decline(choice)
        \/ ReviseApproval \/ ApprovalTimerFires)
    => SignalIsLive'
<1> SUFFICES ASSUME IInv, IInv', ThreadInv, SignalIsLive
             PROVE  (\/ \E forTask \in BOOLEAN : Approve(forTask)
                     \/ \E choice \in {"reject", "cancel_task", "expired"} : Decline(choice)
                     \/ ReviseApproval \/ ApprovalTimerFires) => SignalIsLive'
  OBVIOUS
<1>1. ASSUME NEW t, NEW s, NEW res, NEW origin, Answer(t, s, res, origin),
             UNCHANGED <<record, effect, signal>>,
             \/ t = "APPROVAL_RESOLVED" /\ res # "approve"
             \/ t = "HANDOFF_APPROVED"
             \/ ApprovalShown /\ Interruptible /\ (SomeOfOurs(s) => Ours(entry.intent))
      PROVE  SignalIsLive'
  <2> DEFINE m == [type |-> t, origin |-> origin, intents |-> s, result |-> res, change |-> 0]
  <2>1. queue' = Append(queue, m) /\ m.type = t /\ m.result = res /\ m.intents = s
    BY <1>1 DEF Answer
  <2> HIDE DEF m
  <2>2. ASSUME ApprovalShown, Interruptible, SomeOfOurs(s) => Ours(entry.intent),
               Unstopped(queue, record.status), Carried(m)
        PROVE  signal = "live"
    <3>1. Ours(entry.intent)
      BY <2>1, <2>2 DEF Carried
    <3>2. /\ record.status = "awaiting_approval" /\ record.approval = entry.intent
          /\ entry.intent \in Intents
      BY <2>2, ShownIsAwaited
    <3>3. record.approval # NoIntent
      BY <3>2, NoIntentAssumption
    <3> QED BY <2>2, <3>1, <3>2, <3>3 DEF SignalIsLive
  <2>3. Unstopped(queue, record.status) /\ Carried(m) => signal = "live"
    <3>1. CASE ApprovalShown /\ Interruptible /\ (SomeOfOurs(s) => Ours(entry.intent))
      BY <2>2, <3>1
    <3>2. CASE (t = "APPROVAL_RESOLVED" /\ res # "approve") \/ t = "HANDOFF_APPROVED"
      BY <2>1, <3>2 DEF Carried, Proposing
    <3> QED BY <1>1, <3>1, <3>2
  <2>4. Unstopped(queue, record.status) /\ (effect'.type = "HARNESS_TURN" \/ Carried(effect')) =>
          signal' = "live"
    BY <1>1 DEF SignalIsLive
  <2> QED BY <1>1, <2>1, <2>3, <2>4, SignalPass
<1>2. ASSUME NEW forTask \in BOOLEAN, Approve(forTask) PROVE SignalIsLive'
  <2>1. SomeOfOurs(<<entry.intent>>) => Ours(entry.intent)
    BY DEF SomeOfOurs
  <2>2. ApprovalShown /\ Interruptible /\ UNCHANGED <<record, effect, signal>>
    BY <1>2 DEF Approve
  <2>3. \/ Answer("HANDOFF_APPROVED", <<entry.intent>>, "none", "user")
        \/ Answer("APPROVAL_RESOLVED", <<entry.intent>>, "approve", "user")
    BY <1>2 DEF Approve
  <2> QED BY <1>1, <2>1, <2>2, <2>3
<1>3. ASSUME NEW choice \in {"reject", "cancel_task", "expired"}, Decline(choice)
      PROVE  SignalIsLive'
  BY <1>1, <1>3 DEF Decline
<1>4. ASSUME ReviseApproval PROVE SignalIsLive'
  <2>1. PICK content \in Contents, kind \in RevisedKinds(entry.intent.kind) \cap OfferedKinds :
          Answer("APPROVAL_REVISED",
                 <<[entry.intent EXCEPT !.content = content, !.kind = kind, !.check = FALSE]>>,
                 "none", "user")
    BY <1>4 DEF ReviseApproval
  <2> DEFINE i == [entry.intent EXCEPT !.content = content, !.kind = kind, !.check = FALSE]
  <2>2. entry.intent \in Intents
    BY <1>4, ShownIntent DEF ReviseApproval
  <2>3. i.kind = kind
    BY <2>2 DEF Intents
  <2> HIDE DEF i
  <2>4. SomeOfOurs(<<i>>) => Ours(i)
    BY DEF SomeOfOurs
  <2>5. Ours(i) => Ours(entry.intent)
    <3>1. kind \in RevisedKinds(entry.intent.kind)
      OBVIOUS
    <3> QED BY <2>3, <3>1 DEF Ours, RevisedKinds
  <2>6. ApprovalShown /\ Interruptible /\ UNCHANGED <<record, effect, signal>>
    BY <1>4 DEF ReviseApproval
  <2> QED BY <1>1, <2>1, <2>4, <2>5, <2>6 DEF i
<1>5. ASSUME ApprovalTimerFires PROVE SignalIsLive'
  <2>1. UNCHANGED <<record, effect, signal>>
    BY <1>5 DEF ApprovalTimerFires
  <2>2. CASE queue' = queue
    BY <2>1, <2>2 DEF SignalIsLive
  <2> QED BY <1>1, <1>5, <2>1, <2>2 DEF ApprovalTimerFires
<1> QED BY <1>2, <1>3, <1>4, <1>5

LEMMA SignalElsewhere ==
  ASSUME MaxResuming <= 1, IInv, IInv', ThreadInv, SignalIsLive,
         \/ UserResume \/ ResumeBound \/ DeadlinePasses \/ Restart \/ UNCHANGED vars
  PROVE  SignalIsLive'
<1>1. CASE UserResume \/ DeadlinePasses \/ UNCHANGED vars
  BY <1>1 DEF UserResume, DeadlinePasses, vars, SignalIsLive
<1>2. CASE Restart
  <2>1. record'.status = "paused"
    BY <1>2, RestartPauses
  <2> QED BY <2>1 DEF SignalIsLive, Unstopped, IsStopped
<1>3. CASE ResumeBound
  <2>1. IsStopped(record.status) /\ record' = record
    BY <1>3 DEF ResumeBound, ThreadInv, Resumes
  <2> QED BY <2>1 DEF SignalIsLive, Unstopped
<1> QED BY <1>1, <1>2, <1>3

LEMMA SignalDrop ==
  IInv /\ IInv' /\ ThreadInv /\ SignalIsLive /\ (IgnoreCommand \/ RejectCommand) => SignalIsLive'
<1> SUFFICES ASSUME IInv, IInv', ThreadInv, SignalIsLive, IgnoreCommand \/ RejectCommand
             PROVE  SignalIsLive'
  OBVIOUS
<1>1. /\ queue \in Seq(Messages) /\ queue # <<>> /\ record \in Records
      /\ UNCHANGED <<record, effect, signal>>
  BY DEF IInv, TypeOK, IgnoreCommand, RejectCommand
<1>2. CASE IsStopped(record.status)
  BY <1>1, <1>2 DEF SignalIsLive, Unstopped
<1>3. CASE ~IsStopped(record.status)
  <2>1. RejectCommand
    BY <1>3 DEF IgnoreCommand, IsStopped
  <2>2. Head(queue) \in Messages /\ Head(queue) = queue[1] /\ 1 \in 1 .. Len(queue)
    BY <1>1, TailElements
  <2>3. ~IsStop(Head(queue))
    BY <1>1, <1>3, <2>1, <2>2, StopsAreLegal DEF RejectCommand
  <2>4. Tail(queue) = <<>>
    BY <1>1, <2>3, LineShrinks DEF ThreadInv
  <2> DEFINE f == Command("FAIL", <<>>, "none")
  <2>5. queue' = <<>> \/ queue' = Append(<<>>, f)
    BY <2>1, <2>4 DEF RejectCommand, QueueAfterError
  <2>6. ~Carried(f)
    BY DEF Carried, Proposing, Command
  <2> HIDE DEF f
  <2>7. \A k \in 1 .. Len(queue') : ~Carried(queue'[k])
    BY <2>5, <2>6
  <2>8. Unstopped(queue, record.status)
    <3>1. \A k \in 1 .. Len(queue) : k = 1
      <4>0. Len(<<>>) = 0
        OBVIOUS
      <4>1. Len(Tail(queue)) = 0
        BY <2>4, <4>0
      <4>2. Len(queue) \in Nat /\ Len(Tail(queue)) = Len(queue) - 1
        BY <1>1, TailElements
      <4>3. Len(queue) = 1
        BY <4>1, <4>2
      <4> QED BY <4>3
    <3> QED BY <1>3, <2>2, <2>3, <3>1 DEF Unstopped
  <2> QED BY <1>1, <2>7, <2>8 DEF SignalIsLive
<1> QED BY <1>2, <1>3

LEMMA LeadsToAwaiting ==
  ASSUME NEW c \in Messages, Target(record, c) = "awaiting_approval"
  PROVE  c.type = "POLICY_DECIDED" /\ c.result = "require_approval" /\ Carries(c)
<1>1. CASE c.type = "POLICY_DECIDED"
  <2>1. c.result \in DOMAIN PolicyTarget /\ Target(record, c) = PolicyTarget[c.result] /\ Carries(c)
    BY <1>1 DEF Messages, WellFormed, Target
  <2> QED BY <1>1, <2>1 DEF PolicyTarget
<1>2. CASE c.type # "POLICY_DECIDED"
  BY <1>2 DEF Messages, WellFormed, Commands, CommandTypes, Target, PlainTarget, PlannerTarget,
              ApprovalTarget, VerifiedTarget, Verdicts
<1> QED BY <1>1, <1>2

\* A command that does not stop the task is the only one; what it carries goes on.
LEMMA SignalAccept ==
  IInv /\ IInv' /\ ThreadInv /\ SignalIsLive /\ AcceptCommand => SignalIsLive'
<1> SUFFICES ASSUME IInv, IInv', ThreadInv, SignalIsLive, AcceptCommand,
                    Unstopped(queue', record'.status)
             PROVE  SignalIsLive'
  BY DEF SignalIsLive
<1> DEFINE c == Head(queue)
<1>1. /\ c \in Messages /\ Legal(record, c) /\ queue \in Seq(Messages) /\ queue # <<>>
      /\ queue' = Tail(queue) /\ effect' = EffectAfter(c)
      /\ record'.status = StatusAfter(c) /\ record'.approval = ApprovalAfter(record, c)
      /\ effect.type = "NONE" /\ ~IsTerminalStatus(record.status) /\ record \in Records
  BY Accepted
<1>2. signal' = IF IsTerminalStatus(StatusAfter(c)) THEN "none"
                ELSE IF Aborts(c) /\ signal = "live" THEN "aborted" ELSE signal
  BY DEF AcceptCommand
<1>3. 1 \in 1 .. Len(queue) /\ queue[1] = c
  BY <1>1, TailElements
<1>4. ASSUME Tail(queue) = <<>> PROVE \A k \in 1 .. Len(queue) : k = 1
  <2>1. Len(<<>>) = 0
    OBVIOUS
  <2>2. Len(queue) \in Nat /\ Len(Tail(queue)) = Len(queue) - 1
    BY <1>1, TailElements
  <2>3. Len(Tail(queue)) = 0
    BY <1>4, <2>1
  <2>4. Len(queue) = 1
    BY <2>2, <2>3
  <2> QED BY <2>4
<1>5. ~IsStop(c) => Tail(queue) = <<>>
  BY <1>1, LineShrinks DEF ThreadInv
<1> HIDE DEF c
<1>6. ~Aborts(c)
  BY <1>1, AbortsStop DEF Unstopped
<1>7. signal' = signal
  BY <1>1, <1>2, <1>6 DEF Unstopped, IsStopped
<1>8. ~IsStop(c) /\ queue' = <<>> /\ \A k \in 1 .. Len(queue) : k = 1
  BY <1>1, <1>4, <1>5, <1>6 DEF Aborts, IsStop, Stops
<1>9. StatusAfter(c) = Target(record, c)
  BY <1>6 DEF StatusAfter, Aborts
<1>10. Carried(c) => signal = "live"
  <2> SUFFICES ASSUME Carried(c) PROVE signal = "live"
    OBVIOUS
  <2>1. record.status # "paused"
    BY <1>1, <1>6, LegalFromPaused DEF Carried, Proposing, Replans, Aborts
  <2>2. Unstopped(queue, record.status)
    BY <1>1, <1>3, <1>8, <2>1 DEF Unstopped, IsStopped
  <2> QED BY <1>3, <2>2 DEF SignalIsLive
<1>11. Carried(effect') => Carried(c)
  <2> SUFFICES ASSUME Carried(effect') PROVE Carried(c)
    OBVIOUS
  <2>1. effect'.type \in EffectTypes
    BY DEF IInv, TypeOK, Effects
  <2>2. effect'.type \in {"EVALUATE_INTENT", "EXECUTE_INTENT"}
    BY <1>1, <2>1, EffectAfterType DEF Carried, Proposing, EffectTypes
  <2>3. effect'.intents = c.intents
    BY <1>1, <2>2 DEF EffectAfter, NoEffect
  <2>4. CASE effect'.type = "EVALUATE_INTENT"
    BY <1>1, <2>3, <2>4, EvaluatedHolds DEF Carried, Proposing
  <2>5. CASE effect'.type = "EXECUTE_INTENT"
    <3>1. Target(record, c) = "executing"
      BY <1>1, <1>9, <2>5, EffectAfterStatus DEF StatusOfEffect
    <3> QED BY <1>1, <2>3, <3>1, LeadsToExecuting DEF Carried, Proposing
  <2> QED BY <2>2, <2>4, <2>5
<1>12. effect'.type # "HARNESS_TURN"
  BY <1>1, EffectAfterType
<1>13. ASSUME record'.status = "awaiting_approval", Ours(record'.approval) PROVE signal = "live"
  <2>1. c.type = "POLICY_DECIDED" /\ c.result = "require_approval" /\ Carries(c)
    BY <1>1, <1>9, <1>13, LeadsToAwaiting
  <2>2. record'.approval = c.intents[1]
    BY <1>1, <2>1 DEF ApprovalAfter
  <2>3. 1 \in 1 .. Len(c.intents)
    <3>1. Len(c.intents) = 1 \/ Len(c.intents) = 2
      BY <2>1 DEF Carries
    <3> QED BY <3>1
  <2>4. Carried(c)
    BY <1>13, <2>1, <2>2, <2>3 DEF Carried, Proposing, SomeOfOurs
  <2> QED BY <1>10, <2>4
<1> QED BY <1>7, <1>8, <1>10, <1>11, <1>12, <1>13 DEF SignalIsLive

LEMMA SignalStep ==
  ASSUME MaxResuming <= 1, IInv, IInv', ThreadInv, SignalIsLive, [Next]_vars
  PROVE  SignalIsLive'
  BY SignalAccept, SignalDrop, SignalHarness, SignalEvaluate, SignalEffects, SignalEvaluateProgress,
   SignalControls, SignalAnswers, SignalElsewhere DEF Next, Worker, User

-----------------------------------------------------------------------------
(* What is being executed was sent.  From the call to the host until the      *)
(* record of it, the invocation of the record, if it is a change, is one of    *)
(* those sent: the call was not made under an aborted signal.                 *)

Flying(x) ==
  \/ x.type \in {"EXECUTING", "BUILD_OBSERVATION", "REDUCE_CONTEXT"}
  \/ x.type = "EXECUTION_FINISHED" /\ record.status = "executing"
  \/ x.type = "OBSERVATION_READY" /\ record.status = "observing"

InvocationSent == \E k \in 1 .. Len(ran) : ran[k] = record.invocation

FlightIsSent ==
  Flying(effect) \/ (\E k \in 1 .. Len(queue) : Flying(queue[k])) =>
    (VerifiableChange(record.invocation) => InvocationSent)

LEMMA FlightPass ==
  ASSUME IInv, IInv', FlightIsSent, record'.status = record.status,
         record'.invocation = record.invocation, ran' = ran,
         \/ queue' = queue
         \/ \E m : queue' = Append(queue, m) /\ (Flying(m) => Flying(effect)),
         effect'.type \in {"EXECUTING", "BUILD_OBSERVATION", "REDUCE_CONTEXT"} => Flying(effect)
  PROVE  FlightIsSent'
<1>2. effect'.type \in EffectTypes
  BY DEF IInv, TypeOK, Effects
<1>3. Flying(effect)' => Flying(effect)
  BY <1>2 DEF Flying, EffectTypes
<1>4. CASE queue' = queue
  <2>1. \A k \in 1 .. Len(queue') : Flying(queue[k])' => Flying(queue[k])
    BY <1>4 DEF Flying
  <2> QED BY <1>3, <1>4, <2>1 DEF FlightIsSent, InvocationSent
<1>5. ASSUME NEW m, queue' = Append(queue, m), Flying(m) => Flying(effect) PROVE FlightIsSent'
  <2>1. queue \in Seq(Messages) /\ Append(queue, m) \in Seq(Messages)
    BY <1>5 DEF IInv
  <2>2. m \in Messages
    BY <2>1, AppendedIsMessage
  <2>3. \A k \in 1 .. Len(queue') : queue'[k] = m \/ \E j \in 1 .. Len(queue) : queue'[k] = queue[j]
    BY <1>5, <2>1, <2>2, TypeInQueue
  <2>4. \A k \in 1 .. Len(queue') : Flying(queue[k])' =>
          Flying(m) \/ \E j \in 1 .. Len(queue) : Flying(queue[j])
    BY <2>3 DEF Flying
  <2> QED BY <1>3, <1>5, <2>4 DEF FlightIsSent, InvocationSent
<1> QED BY <1>4, <1>5

LEMMA FlightOutcome ==
  ASSUME IInv, IInv', FlightIsSent, record'.status = record.status,
         record'.invocation = record.invocation, ran' = ran,
         \/ \E m : Enqueue(m) /\ (Flying(m) => Flying(effect))
         \/ Throw
  PROVE  FlightIsSent'
<1>1. effect'.type = "NONE"
  BY DEF Enqueue, Throw, NoEffect
<1>2. ~Flying(Command("FAIL", <<>>, "none"))
  BY DEF Flying, Command
<1> QED BY <1>1, <1>2, FlightPass DEF Enqueue, Throw, QueueAfterError

\* A change that is issued goes to the host, for its signal is live.
LEMMA FlightStarts ==
  ASSUME IInv, IInv', ThreadInv, IdsInv, InvocationFits, SignalIsLive, FlightIsSent, ExecuteIntent
  PROVE  FlightIsSent'
<1>1. record' = record
  BY DEF ExecuteIntent
<1>2. CASE Throw /\ ran' = ran
  BY <1>1, <1>2, FlightOutcome
<1>3. CASE ~(Throw /\ ran' = ran)
  <2> DEFINE i == effect.intents[1]
  <2>0. Elements(effect.intents) \subseteq issued
    BY <1>3 DEF ExecuteIntent, ghostVars
  <2>1. record.invocation = i
    BY DEF InvocationFits, ExecuteIntent
  <2>2. Carries(effect) /\ ran \in Seq(Intents)
    BY DEF IInv, TypeOK, EffectFits, ExecuteIntent
  <2>3. 1 \in 1 .. Len(effect.intents) /\ i \in Intents
    <3>1. Len(effect.intents) = 1 \/ Len(effect.intents) = 2
      BY <2>2 DEF Carries
    <3>2. 1 \in 1 .. Len(effect.intents)
      BY <3>1
    <3> QED BY <2>2, <3>2 DEF Carries
  <2>4. i \in issued
    BY <2>0, <2>3 DEF Elements
  <2>5. ran' = IF Mutates(i) /\ signal # "aborted" THEN Append(ran, i) ELSE ran
    BY <1>3 DEF ExecuteIntent, ghostVars
  <2>6. queue = <<>> /\ record.status = "executing"
    BY DEF ThreadInv, Working, StatusOfEffect, AwaitEffects, ExecuteIntent
  <2> HIDE DEF i
  <2>7. ASSUME VerifiableChange(i) PROVE Mutates(i) /\ signal # "aborted"
    <3>1. Mutates(i)
      BY <2>7 DEF VerifiableChange
    <3>2. Ours(i)
      BY <2>4, <3>1 DEF IdsInv, RunsOnce, Runnable, Ours
    <3>3. Carried(effect)
      BY <2>3, <3>2 DEF Carried, Proposing, SomeOfOurs, ExecuteIntent, i
    <3>4. Unstopped(queue, record.status)
      BY <2>6 DEF Unstopped, IsStopped, IsTerminalStatus, TerminalStatuses
    <3> QED BY <3>1, <3>3, <3>4 DEF SignalIsLive
  <2>8. VerifiableChange(i) => \E k \in 1 .. Len(ran') : ran'[k] = i
    <3> SUFFICES ASSUME VerifiableChange(i) PROVE \E k \in 1 .. Len(ran') : ran'[k] = i
      OBVIOUS
    <3>1. ran' = Append(ran, i)
      BY <2>5, <2>7
    <3>2. Len(ran') = Len(ran) + 1 /\ Len(ran) \in Nat /\ ran'[Len(ran) + 1] = i
      BY <2>2, <2>3, <3>1, AppendElements
    <3>3. Len(ran) + 1 \in 1 .. Len(ran')
      BY <3>2
    <3> QED BY <3>2, <3>3
  <2> QED BY <1>1, <2>1, <2>8 DEF FlightIsSent, InvocationSent
<1> QED BY <1>2, <1>3

LEMMA FlightEffects ==
  ASSUME IInv, IInv', ThreadInv, FlightIsSent, [Next]_vars, effect.type # "NONE",
         ~ExecuteIntent, ~Restart
  PROVE  FlightIsSent'
<1>1. ~AcceptCommand
  BY DEF AcceptCommand
<1>2. /\ record'.status = record.status /\ record'.invocation = record.invocation /\ ran' = ran
  BY <1>1, OnlyTheseMove, OnlyExecutionSends
<1>3. ASSUME NEW m, Enqueue(m), m.type \notin {"EXECUTION_FINISHED", "OBSERVATION_READY"},
             m.type \notin EffectTypes
      PROVE  FlightIsSent'
  <2>1. ~Flying(m)
    BY <1>3 DEF Flying, EffectTypes
  <2> QED BY <1>2, <1>3, <2>1, FlightOutcome
<1>4. ASSUME Throw PROVE FlightIsSent'
  BY <1>2, <1>4, FlightOutcome
<1>5. ASSUME queue' = queue, effect'.type \in {"HARNESS_TURN", "PRECHECK", "RUN_CHECKS", effect.type}
      PROVE  FlightIsSent'
  BY <1>2, <1>5, FlightPass DEF Flying
<1>6. ASSUME NEW t, NEW s, NEW res, Enqueue(Command(t, s, res)),
             t \in {"INCONCLUSIVE", "PLANNER_DECISION", "POLICY_DECIDED", "CONTEXT_REDUCED",
                    "COMPLETE", "FAIL", "CONTINUE_PLANNING", "FOLLOW_UP_PROPOSED"}
      PROVE  FlightIsSent'
  <2>1. Command(t, s, res).type = t
    BY DEF Command
  <2> QED BY <1>3, <1>6, <2>1 DEF EffectTypes
<1>7. CASE RunHarness
  <2>1. CASE Enqueue(Command("INCONCLUSIVE", <<>>, "none"))
    BY <1>6, <2>1
  <2>2. CASE effect' = [effect EXCEPT !.type = "HARNESS_TURN"] /\ queue' = queue
    <3>1. effect'.type = "HARNESS_TURN"
      BY <2>2 DEF IInv, TypeOK, Effects
    <3> QED BY <1>5, <2>2, <3>1
  <2> QED BY <1>7, <2>1, <2>2 DEF RunHarness
<1>8. CASE HarnessTurn
  BY <1>4, <1>6, <1>8 DEF HarnessTurn
<1>9. CASE EvaluateIntent
  <2>1. \/ Throw \/ \E s, res : Enqueue(Command("POLICY_DECIDED", s, res))
        \/ /\ queue' = queue
           /\ effect' = [effect EXCEPT !.type = "PRECHECK", !.result = PolicyOutcome(effect.intents[1])]
    BY <1>9 DEF EvaluateIntent, PolicyDecided
  <2>2. CASE /\ queue' = queue
             /\ effect' = [effect EXCEPT !.type = "PRECHECK", !.result = PolicyOutcome(effect.intents[1])]
    <3>1. effect'.type = "PRECHECK"
      BY <2>2 DEF IInv, TypeOK, Effects
    <3> QED BY <1>5, <2>2, <3>1
  <2> QED BY <1>4, <1>6, <2>1, <2>2
<1>10. CASE EvaluateReadBundle
  <2>1. Throw \/ \E s, res : Enqueue(PolicyDecided(s, res))
    BY <1>10, Zenon DEF EvaluateReadBundle
  <2> QED BY <1>4, <1>6, <2>1 DEF PolicyDecided
<1>11. CASE Precheck
  BY <1>6, <1>11 DEF Precheck, PolicyDecided
<1>12. CASE ExecutionEnds \/ BuildObservation
  <2>1. Flying(effect)
    BY <1>12 DEF ExecutionEnds, BuildObservation, Flying
  <2>2. Throw \/ \E m : Enqueue(m)
    BY <1>12 DEF ExecutionEnds, BuildObservation
  <2> QED BY <1>2, <2>1, <2>2, FlightOutcome
<1>13. CASE ReduceContext
  BY <1>6, <1>13 DEF ReduceContext
<1>14. CASE EvaluateProgress
  <2>1. \E t \in {"FAIL", "INCONCLUSIVE", "CONTINUE_PLANNING", "FOLLOW_UP_PROPOSED"} : \E s :
          ProgressCommand = Command(t, s, "none")
    BY DEF ProgressCommand
  <2> QED BY <1>6, <1>14, <2>1 DEF EvaluateProgress
<1>15. CASE RunMutationVerification
  <2>1. effect' = [effect EXCEPT !.type = "RUN_CHECKS"] /\ queue' = queue
    BY <1>15 DEF RunMutationVerification
  <2>2. effect'.type = "RUN_CHECKS"
    BY <2>1 DEF IInv, TypeOK, Effects
  <2> QED BY <1>5, <2>1, <2>2
<1>16. CASE ChecksEnd
  <2>1. Throw \/ \E id, v : Enqueue(Verified(id, v))
    BY <1>16 DEF ChecksEnd
  <2>2. \A id, v : Verified(id, v).type = "MUTATION_VERIFIED"
    BY DEF Verified
  <2> QED BY <1>3, <1>4, <2>1, <2>2 DEF EffectTypes
<1>17. CASE VerifyCompletion
  BY <1>6, <1>17 DEF VerifyCompletion
<1>18. CASE UserPause \/ UserCancel
  <2>1. effect'.type = effect.type
    <3>1. effect' = effect \/ Preempt
      BY <1>18 DEF UserPause, UserCancel
    <3> QED BY <3>1, PreemptType
  <2>2. queue' = queue \/ \E t \in Stops : queue' = Append(queue, UserCommand(t, <<>>, "none"))
    BY <1>18 DEF UserPause, UserCancel, Stops
  <2>3. \A t \in Stops : ~Flying(UserCommand(t, <<>>, "none"))
    BY DEF Stops, Flying, UserCommand
  <2> QED BY <1>2, <2>1, <2>2, <2>3, FlightPass DEF Flying
<1>19. CASE DeadlinePasses \/ UNCHANGED vars
  BY <1>5, <1>19 DEF DeadlinePasses, vars
<1> QED
  BY <1>7, <1>8, <1>9, <1>10, <1>11, <1>12, <1>13, <1>14, <1>15, <1>16, <1>17, <1>18, <1>19, WhileRunning

LEMMA FlightAccept ==
  ASSUME IInv, IInv', ThreadInv, FlightIsSent, AcceptCommand
  PROVE  FlightIsSent'
<1> DEFINE c == Head(queue)
<1>1. /\ c \in Messages /\ Legal(record, c) /\ queue \in Seq(Messages) /\ queue # <<>>
      /\ queue' = Tail(queue) /\ effect' = EffectAfter(c)
      /\ record'.status = StatusAfter(c) /\ record'.invocation = InvocationAfter(record, c)
      /\ ran' = ran
  BY Accepted DEF AcceptCommand, ghostVars
<1>2. 1 \in 1 .. Len(queue) /\ queue[1] = c
  BY <1>1, TailElements
<1>3. IsStop(c) \/ queue' = <<>>
  BY <1>1, LineShrinks DEF ThreadInv
<1> HIDE DEF c
<1>4. \A k \in 1 .. Len(queue') : ~Flying(queue[k])'
  <2>1. CASE IsStop(c)
    <3>1. record'.status \notin {"executing", "observing"}
      BY <1>1, <2>1, AbortsStop DEF IsStop, Stops, Aborts, IsStopped, IsTerminalStatus, TerminalStatuses
    <3>2. queue' \in Seq(Messages)
      BY DEF IInv
    <3>3. \A k \in 1 .. Len(queue') : queue'[k].type \in CommandTypes
      BY <3>2 DEF Messages, Commands
    <3> QED BY <3>1, <3>3 DEF Flying, CommandTypes, PlainTarget
  <2>2. CASE queue' = <<>>
    BY <2>2
  <2> QED BY <1>3, <2>1, <2>2
<1>5. ASSUME Flying(effect)' PROVE Flying(c) /\ record'.invocation = record.invocation
  <2>1. effect'.type \in EffectTypes
    BY DEF IInv, TypeOK, Effects
  <2>2. effect'.type \in {"BUILD_OBSERVATION", "REDUCE_CONTEXT"}
    BY <1>1, <1>5, <2>1, EffectAfterType DEF Flying, EffectTypes
  <2>3. \/ Target(record, c) = "observing" \/ Target(record, c) = "reducing"
    BY <1>1, <2>2, EffectAfterStatus DEF StatusOfEffect
  <2>4. c.type \in {"EXECUTION_FINISHED", "OBSERVATION_READY"}
    BY <1>1, <2>3 DEF Messages, WellFormed, Commands, CommandTypes, Target, PlainTarget,
      PlannerTarget, PolicyTarget, ApprovalTarget, VerifiedTarget, Verdicts
  <2>5. /\ c.type = "EXECUTION_FINISHED" => record.status = "executing"
        /\ c.type = "OBSERVATION_READY" => record.status = "observing"
    BY <1>1 DEF Legal, RequiredStatus
  <2> QED BY <1>1, <2>4, <2>5 DEF Flying, InvocationAfter
<1> QED BY <1>1, <1>2, <1>4, <1>5 DEF FlightIsSent, InvocationSent

LEMMA FlightStep ==
  ASSUME IInv, IInv', ThreadInv, IdsInv, InvocationFits, SignalIsLive, FlightIsSent, [Next]_vars
  PROVE  FlightIsSent'
<1>1. CASE Restart
  <2>1. record'.status = "paused" /\ queue' = <<>> /\ effect' = NoEffect
    BY <1>1, RestartPauses DEF Restart
  <2> QED BY <2>1 DEF FlightIsSent, Flying, NoEffect
<1>2. CASE effect.type # "NONE" /\ ~Restart
  BY <1>2, FlightStarts, FlightEffects
<1>3. CASE effect.type = "NONE" /\ queue # <<>> /\ ~Restart
  <2>1. CASE AcceptCommand
    BY <2>1, FlightAccept
  <2>2. CASE UNCHANGED vars
    BY <2>2 DEF vars, FlightIsSent, Flying, InvocationSent
  <2>3. CASE IgnoreCommand \/ RejectCommand
    <3>1. UNCHANGED <<record, effect, ran>>
      BY <2>3 DEF IgnoreCommand, RejectCommand, ghostVars
    <3>2. /\ Tail(queue) \in Seq(Messages)
          /\ \A k \in 1 .. Len(Tail(queue)) : \E j \in 1 .. Len(queue) : Tail(queue)[k] = queue[j]
      BY <1>3, LineShrinks, TailElements DEF IInv, ThreadInv
    <3>3. Command("FAIL", <<>>, "none") \in Messages /\ ~Flying(Command("FAIL", <<>>, "none"))
      BY PlainMessage DEF Flying, Command
    <3>4. \/ queue' = Tail(queue)
          \/ queue' = Append(Tail(queue), Command("FAIL", <<>>, "none"))
      BY <2>3 DEF IgnoreCommand, RejectCommand, QueueAfterError
    <3>5. \A k \in 1 .. Len(queue') : \/ \E j \in 1 .. Len(queue) : queue'[k] = queue[j]
                                      \/ queue'[k] = Command("FAIL", <<>>, "none")
      BY <3>2, <3>3, <3>4, TypeInQueue
    <3>6. \A k \in 1 .. Len(queue') : Flying(queue[k])' => \E j \in 1 .. Len(queue) : Flying(queue[j])
      BY <3>1, <3>3, <3>5 DEF Flying
    <3> QED BY <3>1, <3>6 DEF FlightIsSent, Flying, InvocationSent
  <2> QED BY <1>3, <2>1, <2>2, <2>3, WhileQueued
<1>4. CASE Idle /\ ~Restart
  <2>0. /\ ran' = ran /\ record'.status = record.status /\ record'.invocation = record.invocation
    BY <1>4, OnlyTheseMove, OnlyExecutionSends DEF Idle, AcceptCommand, ExecuteIntent
  <2>1. effect'.type = "NONE" /\ queue = <<>>
    BY <1>4, WhileIdle DEF Idle, User, UserPause, UserCancel, UserResume, Approve, Decline,
      ReviseApproval, ResumeBound, ApprovalTimerFires, DeadlinePasses, vars, Preempt
  <2>2. \A k \in 1 .. Len(queue') : queue'[k].type \notin {"EXECUTION_FINISHED", "OBSERVATION_READY"}
    <3>1. \/ queue' = queue
          \/ \E t \in {"PAUSE", "CANCEL", "RESUME"} : queue' = Append(queue, UserCommand(t, <<>>, "none"))
          \/ \E t \in {"APPROVAL_RESOLVED", "APPROVAL_REVISED", "HANDOFF_APPROVED"} :
               \E s, res, origin : Answer(t, s, res, origin)
      BY <1>4, WhileIdle DEF User, UserPause, UserCancel, UserResume, Approve, Decline,
        ReviseApproval, ResumeBound, ApprovalTimerFires, DeadlinePasses, vars
    <3> QED BY <2>1, <3>1 DEF Answer, UserCommand
  <2>3. queue' \in Seq(Messages)
    BY DEF IInv
  <2>4. \A k \in 1 .. Len(queue') : ~Flying(queue[k])'
    <3>1. \A k \in 1 .. Len(queue') : queue'[k].type \in CommandTypes
      BY <2>3 DEF Messages, Commands
    <3> QED BY <2>2, <3>1 DEF Flying, CommandTypes, PlainTarget
  <2> QED BY <2>1, <2>4 DEF FlightIsSent, Flying
<1> QED BY <1>1, <1>2, <1>3, <1>4 DEF Idle

-----------------------------------------------------------------------------
(* The ledger, step by step. *)

LEMMA LedgerConsents ==
  ASSUME IInv, IdsInv, OfferedInv, NEW forTask \in BOOLEAN, Approve(forTask)
  PROVE  Ledger!Next \/ UNCHANGED Ledger!ledger
<1> DEFINE i == entry.intent
<1>1. entry.state = "live" /\ i \in Intents
  BY ShownIntent DEF Approve, ApprovalShown
<1>2. UNCHANGED <<record, ran>>
  BY DEF Approve
<1>3. CASE UNCHANGED <<consentOnce, consentTask>>
  BY <1>2, <1>3 DEF Ledger!ledger
<1>4. CASE i.kind # "interactive" /\ Consented(i, forTask) /\ Mutates(i)
  <2>1. i \in Changes
    <3>1. i.kind \in {"shell", "tool"}
      BY <1>1, <1>4 DEF IdsInv, EntryFits, Askable, Mutates
    <3>2. ~i.check
      BY <1>1, <3>1, PlannedAreChecks DEF OfferedInv, Offered, CheckKinds
    <3> QED BY <1>1, <3>1, <3>2 DEF Changes
  <2>2. /\ consentOnce' = consentOnce \cup {i}
        /\ consentTask' \in {consentTask, consentTask \cup {Digest(i)}}
    BY <1>4 DEF Consented
  <2>3. Ledger!Consent(i)
    BY <1>2, <2>2 DEF Ledger!Consent
  <2> QED BY <2>1, <2>3 DEF Ledger!Next
<1> QED BY <1>3, <1>4 DEF Approve, Consented

LEMMA LedgerSends ==
  ASSUME IInv, IdsInv, OfferedInv, ExecuteIntent
  PROVE  Ledger!Next \/ UNCHANGED Ledger!ledger
<1> DEFINE i == effect.intents[1]
<1>1. UNCHANGED <<record, consentTask>>
  BY DEF ExecuteIntent, ghostVars
<1>2. CASE ran' # ran
  <2>1. /\ i \in issued /\ i \in Intents /\ Mutates(i) /\ Runnable(i)
        /\ ran' = Append(ran, i) /\ consentOnce' = consentOnce \ {i}
    BY <1>2, SentChange
  <2> HIDE DEF i
  <2>2. i \in Changes
    <3>1. i.kind \in {"shell", "tool"} /\ Offered(i)
      BY <2>1 DEF Runnable, OfferedInv
    <3> QED BY <2>1, <3>1, PlannedAreChecks DEF Changes, Offered, CheckKinds
  <2>3. i \in consentOnce \/ Digest(i) \in consentTask
    BY <2>1 DEF IInv, AuthorityIsBacked, Authorized
  <2>4. \A k \in 1 .. Len(ran) : Id(ran[k]) # Id(i)
    BY <2>1 DEF IdsInv, RunsOnce, Id
  <2>5. Ledger!Send(i)
    BY <1>1, <2>1, <2>3, <2>4 DEF Ledger!Send
  <2> QED BY <2>2, <2>5 DEF Ledger!Next
<1>3. CASE ran' = ran
  <2>1. effect.intents[1] \in Intents /\ ran \in Seq(Intents)
    <3>1. Carries(effect)
      BY DEF IInv, EffectFits, ExecuteIntent
    <3>2. Len(effect.intents) = 1 \/ Len(effect.intents) = 2
      BY <3>1 DEF Carries
    <3>3. 1 \in 1 .. 1 /\ 1 \in 1 .. 2
      OBVIOUS
    <3>4. 1 \in 1 .. Len(effect.intents)
      BY <3>2, <3>3, Zenon
    <3> QED BY <3>1, <3>4 DEF Carries, IInv, TypeOK
  <2>2. ran' # Append(ran, i)
    <3>1. Len(Append(ran, i)) = Len(ran) + 1 /\ Len(ran) \in Nat
      BY <2>1, AppendElements
    <3>2. Len(Append(ran, i)) # Len(ran)
      BY <3>1
    <3> QED BY <1>3, <3>2
  <2>3. consentOnce' = consentOnce
    BY <2>2 DEF ExecuteIntent, ghostVars
  <2> QED BY <1>1, <1>3, <2>3 DEF Ledger!ledger
<1> QED BY <1>2, <1>3

LEMMA LedgerRecords ==
  ASSUME IInv, FlightIsSent, ReduceContext
  PROVE  Ledger!Next \/ UNCHANGED Ledger!ledger
<1> DEFINE r  == [record EXCEPT !.errors = ErrorsAfter(@, effect.result)]
           id == record.invocation.id
<1>1. record \in Records /\ UNCHANGED <<ran, consentOnce, consentTask>> /\ record' = Recorded(r)
  BY DEF IInv, TypeOK, ReduceContext, ghostVars
<1>2. r.changes = record.changes /\ r.invocation = record.invocation /\ DOMAIN r = DOMAIN record
  BY <1>1 DEF Records
<1> HIDE DEF r
<1>3. CASE VerifiableChange(record.invocation) /\ record.changes[id] = "none"
  <2>1. record.changes' = [record.changes EXCEPT ![id] = "pending"]
    BY <1>1, <1>2, <1>3 DEF Recorded, Records, r
  <2>2. record.invocation \in Intents
    BY <1>1, <1>3 DEF Records, VerifiableChange
  <2>3. id \in Ids
    BY <2>2 DEF Intents
  <2>4. InvocationSent
    BY <1>3 DEF FlightIsSent, Flying, ReduceContext
  <2>5. \E k \in 1 .. Len(ran) : Id(ran[k]) = id
    BY <2>4 DEF InvocationSent, Id
  <2> HIDE DEF id
  <2>6. Ledger!Record(id)
    BY <1>1, <1>3, <2>1, <2>5 DEF Ledger!Record
  <2> QED BY <2>3, <2>6 DEF Ledger!Next
<1>4. CASE ~(VerifiableChange(record.invocation) /\ record.changes[id] = "none")
  <2>1. record' = r
    BY <1>1, <1>2, <1>4 DEF Recorded
  <2> QED BY <1>1, <1>2, <2>1 DEF Ledger!ledger
<1> QED BY <1>3, <1>4

\* A verdict for an invocation that is recorded is the ledger's, for any other none.
LEMMA LedgerJudges ==
  ASSUME record \in Records, NEW id \in Ids, NEW verdict \in Verdicts,
         record.changes' = [record.changes EXCEPT ![id] = IF @ = "none" THEN @ ELSE verdict],
         UNCHANGED <<ran, consentOnce, consentTask>>
  PROVE  Ledger!Next \/ UNCHANGED Ledger!ledger
<1>1. record.changes \in [Ids -> ChangeStatuses]
  BY DEF Records
<1>2. CASE record.changes[id] = "none"
  <2>1. record.changes' = record.changes
    BY <1>1, <1>2
  <2> QED BY <2>1 DEF Ledger!ledger
<1>3. CASE record.changes[id] # "none"
  <2>1. Ledger!Judge(id, verdict)
    BY <1>1, <1>3 DEF Ledger!Judge
  <2>2. verdict \in Ledger!Verdicts
    BY DEF Verdicts, Ledger!Verdicts
  <2> QED BY <2>1, <2>2 DEF Ledger!Next
<1> QED BY <1>2, <1>3

LEMMA LedgerObserves ==
  ASSUME IInv, BuildObservation
  PROVE  Ledger!Next \/ UNCHANGED Ledger!ledger
<1>1. record \in Records /\ UNCHANGED <<ran, consentOnce, consentTask>>
  BY DEF IInv, TypeOK, BuildObservation
<1>2. CASE record' = record
  BY <1>1, <1>2 DEF Ledger!ledger
<1>3. ASSUME NEW v \in Verdicts, record.obligations # <<>>, CheckObserved(v)
      PROVE  Ledger!Next \/ UNCHANGED Ledger!ledger
  <2> DEFINE o == Head(record.obligations)
             w == Worse(o.worst, v)
  <2>1. o \in Obligations
    BY <1>1, <1>3, TailElements DEF Records
  <2>2. o.id \in Ids /\ w \in Verdicts
    BY <2>1, WorseType DEF Obligations
  <2>3. \/ record.changes' = record.changes
        \/ record.changes' = [record.changes EXCEPT ![o.id] = IF @ = "none" THEN @ ELSE w]
    BY <1>1, <1>3 DEF CheckObserved, Records
  <2> HIDE DEF o, w
  <2> QED BY <1>1, <2>2, <2>3, LedgerJudges DEF Ledger!ledger
<1> QED BY <1>2, <1>3 DEF BuildObservation, Verdicts

LEMMA LedgerAccepts ==
  ASSUME IInv, AcceptCommand
  PROVE  Ledger!Next \/ UNCHANGED Ledger!ledger
<1> DEFINE c == Head(queue)
<1>1. /\ c \in Messages /\ record \in Records /\ record'.changes = ChangesAfter(record, c)
      /\ UNCHANGED <<ran, consentOnce, consentTask>>
  BY Accepted DEF AcceptCommand, ghostVars
<1> HIDE DEF c
<1>2. c.type = "MUTATION_VERIFIED" => c.result \in Verdicts /\ c.change \in Ids
  BY <1>1 DEF Messages, WellFormed, Commands
<1>3. CASE c.type = "MUTATION_VERIFIED"
  BY <1>1, <1>2, <1>3, LedgerJudges DEF ChangesAfter
<1>4. CASE c.type # "MUTATION_VERIFIED"
  BY <1>1, <1>4 DEF ChangesAfter, Ledger!ledger
<1> QED BY <1>3, <1>4

LEMMA LedgerElsewhere ==
  ASSUME IInv, [Next]_vars, ~AcceptCommand, ~BuildObservation, ~ReduceContext, ~Restart,
         ~ExecuteIntent, ~(\E forTask \in BOOLEAN : Approve(forTask)), ~ResumeBound
  PROVE  UNCHANGED Ledger!ledger
<1>1. record.changes' = record.changes
  BY OnlyTheseJudge
<1>2. UNCHANGED <<ran, consentOnce, consentTask>>
  BY DEF Next, Worker, User, IgnoreCommand, RejectCommand, RunHarness, HarnessTurn, EvaluateIntent,
    Precheck, EvaluateReadBundle, ExecutionEnds, EvaluateProgress, RunMutationVerification,
    ChecksEnd, VerifyCompletion, UserPause, UserCancel, UserResume, Decline, ReviseApproval,
    ApprovalTimerFires, DeadlinePasses, ghostVars, vars
<1> QED BY <1>1, <1>2 DEF Ledger!ledger

LEMMA LedgerStep ==
  ASSUME MaxRestarts = 0, IInv, IdsInv, OfferedInv, FlightIsSent, [Next]_vars
  PROVE  Ledger!Next \/ UNCHANGED Ledger!ledger
<1>1. ~Restart
  BY DEF Restart, IInv, TypeOK
<1>2. CASE ResumeBound
  <2>1. CASE consentOnce' = {} /\ consentTask' = {}
    <3>1. Ledger!Withdraw
      BY <1>2, <2>1 DEF ResumeBound, Ledger!Withdraw
    <3> QED BY <3>1 DEF Ledger!Next
  <2>2. CASE UNCHANGED <<consentOnce, consentTask>>
    BY <1>2, <2>2 DEF ResumeBound, Ledger!ledger
  <2> QED BY <1>2, <2>1, <2>2 DEF ResumeBound
<1> QED BY <1>1, <1>2, LedgerConsents, LedgerSends, LedgerRecords, LedgerObserves, LedgerAccepts,
           LedgerElsewhere

\* A task keeps the ledger of its changes: none is sent without a consent in force,
\* none twice, none recorded that was not sent, none judged that is not recorded
\* (session-manager.js with gateway.js, approval/*.js and verification/*.js).  With
\* at most one resume at a time, and without crashes: one between the status
\* "executing" and the call to the host records a change that was not made.
THEOREM LedgerImplemented ==
  ASSUME MaxResuming <= 1, MaxRestarts = 0
  PROVE  Spec => ImplementsLedger
<1>1. Init => /\ InvocationFits /\ SignalIsLive /\ FlightIsSent
              /\ Ledger!Init
  <2> SUFFICES ASSUME Init PROVE InvocationFits /\ SignalIsLive /\ FlightIsSent /\ Ledger!Init
    OBVIOUS
  <2>1. /\ record = InitialRecord /\ effect = NoEffect
        /\ queue = <<Command("OBJECTIVE_READY", <<>>, "none")>>
        /\ ran = <<>> /\ consentOnce = {} /\ consentTask = {}
    BY DEF Init
  <2>2. InvocationFits /\ SignalIsLive /\ FlightIsSent
    BY <2>1 DEF InvocationFits, SignalIsLive, FlightIsSent, InitialRecord, NoEffect, Command,
      Carried, Proposing, Flying
  <2>3. Ledger!Init
    BY <2>1 DEF Ledger!Init, InitialRecord
  <2> QED BY <2>2, <2>3
<1>2. IInv /\ IInv' /\ ThreadInv /\ IdsInv /\ InvocationFits /\ SignalIsLive /\ FlightIsSent
        /\ [Next]_vars
      => InvocationFits' /\ SignalIsLive' /\ FlightIsSent'
  BY InvocationStep, SignalStep, FlightStep
<1>3. IInv /\ IdsInv /\ OfferedInv /\ FlightIsSent /\ [Next]_vars => [Ledger!Next]_(Ledger!ledger)
  BY LedgerStep
<1> QED
  BY <1>1, <1>2, <1>3, Invariance, ThreadInvariance, IdsInvariance, OfferedInvariance, PTL
    DEF Spec, ImplementsLedger, Ledger!Spec
=============================================================================
