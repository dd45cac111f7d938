----------------------------- MODULE ChangeLedger ----------------------------
(***************************************************************************)
(* What an Agent task promises about changes, whatever the runtime does    *)
(* between: a change is sent only under a consent in force, each           *)
(* invocation at most once, what was sent is recorded, and only a recorded *)
(* change is judged.  AgentSession is shown to implement it.               *)
(***************************************************************************)
EXTENDS Naturals, Sequences

CONSTANTS Intents,       \* actions that may be proposed
          Ids,           \* their invocation ids
          Digests,       \* what a consent for the whole task covers
          Id(_),         \* the invocation id of an intent
          Digest(_)      \* the digest of an intent

Verdicts == {"passed", "failed", "inconclusive"}

VARIABLES once,          \* intents approved once and not yet sent
          always,        \* digests approved for the task
          sent,          \* changes sent to the host, in order
          status         \* the record of each invocation

ledger == <<once, always, sent, status>>

Init == /\ once = {} /\ always = {} /\ sent = <<>>
        /\ status = [id \in Ids |-> "none"]

\* The user approves one action, or every equal one for the rest of the task.
Consent(intent) ==
  /\ once' = once \cup {intent}
  /\ always' \in {always, always \cup {Digest(intent)}}
  /\ UNCHANGED <<sent, status>>

\* Resuming and restarting void every consent.
Withdraw == once' = {} /\ always' = {} /\ UNCHANGED <<sent, status>>

Send(intent) ==
  /\ intent \in once \/ Digest(intent) \in always
  /\ \A k \in 1 .. Len(sent) : Id(sent[k]) # Id(intent)
  /\ once' = once \ {intent}
  /\ sent' = Append(sent, intent)
  /\ UNCHANGED <<always, status>>

Record(id) ==
  /\ status[id] = "none"
  /\ \E k \in 1 .. Len(sent) : Id(sent[k]) = id
  /\ status' = [status EXCEPT ![id] = "pending"]
  /\ UNCHANGED <<once, always, sent>>

Judge(id, verdict) ==
  /\ status[id] # "none"
  /\ status' = [status EXCEPT ![id] = verdict]
  /\ UNCHANGED <<once, always, sent>>

Next == \/ \E intent \in Intents : Consent(intent) \/ Send(intent)
        \/ Withdraw
        \/ \E id \in Ids : Record(id) \/ \E verdict \in Verdicts : Judge(id, verdict)

Spec == Init /\ [][Next]_ledger
=============================================================================
