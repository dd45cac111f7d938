------------------------- MODULE TransferListState -------------------------
(***************************************************************************)
(* The state of the renderer's list of file transfers and what holds of it *)
(* at every moment.  TransferList has the steps.                           *)
(***************************************************************************)
EXTENDS Naturals, FiniteSets, Sequences, SequencesExt

CONSTANTS Transfers,
          Batch,        \* the batch each transfer was added with
          Given,        \* transfers added with their fromFile
          MaxTransport, \* transfers that may run at once
          McpPolicies,  \* conflict policies a tool call may bring
          MaxClicks     \* bound: cancellations, pauses and moves by the user

ASSUME TransferListAssumption ==
  /\ IsFiniteSet(Transfers) /\ "none" \notin Transfers /\ "stuck" \notin Transfers
  /\ Given \subseteq Transfers /\ "none" \notin McpPolicies
  /\ MaxTransport \in Nat \ {0} /\ MaxClicks \in Nat

None == "none"
Answers == {"skip", "mergeOrOverwrite", "rename"}
FileActions == Answers \cup {"cancel", "skipAll", "mergeOrOverwriteAll", "renameAll"}

VARIABLES
  fileTransfers, \* the list
  inited, paused,   \* fields of its entries: inited, pausing
  knows,      \* transfers whose component knows the file it copies
  stage,      \* what each component waits for
  found,      \* the lookup of the target: exists, absent, or unknown when it failed
  wrote,      \* where the copy was opened: on the target or under a new name
  held,       \* running copies the server was told to pause
  resolvePolicy, \* the policy an answer "for all" left with a component
  answer,     \* what decided last: the user's answer, or a tool call's policy
  history,    \* how each transfer got into the history
  opQueue, current, \* the queue of changes, and the start being applied
  pendingInitIds,   \* transfers whose start is queued
  asking, active,   \* the dialog: transfers waiting for it, and the one shown
  globalPolicy,     \* window._transferConflictPolicy
  resumed,    \* some transfer was resumed after a pause
  clicks

Listed == ToSet(fileTransfers)
Active == {t \in Listed : t \in inited \ paused}

---------------------------------------------------------------------------
(* What holds of it.                                                       *)

CopiedAsAnswered(t) ==
  /\ wrote[t] = "target" =>
       \/ found[t] \in {"absent", "unknown"}
       \/ found[t] = "exists" /\ answer[t] = "mergeOrOverwrite"
       \/ found[t] = "exists" /\ globalPolicy # None
            /\ answer[t] \in FileActions \ {"skip", "cancel", "rename"}
       \/ found[t] = None /\ t \notin Listed
  /\ wrote[t] = "renamed" => found[t] = "exists" /\ answer[t] = "rename"

(* Until a tool call has brought a policy, a target that was found to      *)
(* exist is replaced only where the user said so for the transfer or for   *)
(* its batch; what was skipped is not copied, and a new name is taken only *)
(* where one was asked for.  From then on nobody is asked: the policy of   *)
(* the last tool call decides for every transfer without an answer of its  *)
(* batch, those of the user included, and every policy but skip, cancel    *)
(* and rename replaces the target - renameAll, too.  A lookup that failed  *)
(* counts as an absent target, so that what is there may be replaced       *)
(* unasked, and a transfer cancelled while its source was looked up skips  *)
(* the lookup of the target.                                               *)
CopiesAsAnswered == \A t \in Transfers : CopiedAsAnswered(t)

(* At most MaxTransport transfers run, however starts are queued, ended,   *)
(* cancelled and moved, until a paused one is resumed: its place may have  *)
(* been taken meanwhile.                                                   *)
SlotsRespected == ~resumed => Cardinality(Active) <= MaxTransport

=============================================================================
