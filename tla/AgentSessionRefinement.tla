----------------------- MODULE AgentSessionRefinement ------------------------
(***************************************************************************)
(* AgentSession implements ChangeLedger: the consents and the changes sent *)
(* are its history variables, the ledger's status the change records.      *)
(***************************************************************************)
EXTENDS AgentSession

Id(intent) == intent.id
Changes == {intent \in Intents : intent.kind \in {"shell", "tool"} /\ ~intent.check}

Ledger == INSTANCE ChangeLedger
            WITH Intents <- Changes, once <- consentOnce, always <- consentTask,
                 sent <- ran, status <- record.changes

\* Every step of the runtime is a step of the ledger or leaves it alone: no
\* change without a consent in force, none sent twice, none recorded that was
\* not sent, none judged that is not recorded.
ImplementsLedger == Ledger!Spec
=============================================================================
