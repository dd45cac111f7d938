---------------------------- MODULE TransferList ----------------------------
(***************************************************************************)
(* The renderer's list of file transfers: the scheduler that lets at most  *)
(* MaxTransport of them run (transports-action-store.jsx), the queue every *)
(* change of the list goes through (transfer-queue.jsx), the component of  *)
(* each transfer (transfer.jsx), and the dialog that asks about targets    *)
(* that exist (conflict-resolve.jsx).                                      *)
(*                                                                         *)
(* A transfer's component is mounted as long as the transfer is listed;    *)
(* what it waits for arrives later all the same.  The page is rendered     *)
(* before the next message or click is handled.                            *)
(***************************************************************************)
EXTENDS TransferListState

Ops == [do : {"init", "delete", "pause", "resume", "file", "top"}, id : Transfers]

listVars == <<fileTransfers, inited, paused, held>>
copyVars == <<knows, stage, found, wrote, history>>
dialogVars == <<asking, active, resolvePolicy, answer, globalPolicy>>
queueVars == <<opQueue, current, pendingInitIds>>
userVars == <<resumed, clicks>>
vars == <<listVars, copyVars, dialogVars, queueVars, userVars>>

Stages == {"new", "waiting", "source", "target", "asked", "opening", "running", "over", "lost"}

TypeOK ==
  /\ fileTransfers \in Seq(Transfers) /\ IsInjective(fileTransfers)
  /\ inited \subseteq Transfers /\ paused \subseteq Transfers
  /\ held \subseteq Transfers /\ knows \subseteq Transfers
  /\ stage \in [Transfers -> Stages]
  /\ found \in [Transfers -> {None, "exists", "absent", "unknown"}]
  /\ wrote \in [Transfers -> {None, "target", "renamed"}]
  /\ resolvePolicy \in [Transfers -> Answers \cup {None}]
  /\ answer \in [Transfers -> FileActions \cup {None}]
  /\ history \in [Transfers -> {None, "ended", "error"}]
  /\ opQueue \in Seq(Ops) /\ current \in Transfers \cup {None, "stuck"}
  /\ pendingInitIds \subseteq Transfers
  /\ asking \in Seq(Transfers) /\ active \in Transfers \cup {None}
  /\ globalPolicy \in McpPolicies \cup {None}
  /\ resumed \in BOOLEAN /\ clicks \in 0..MaxClicks

Init ==
  /\ fileTransfers = << >>
  /\ inited = {} /\ paused = {} /\ held = {}
  /\ knows = Given
  /\ stage = [t \in Transfers |-> "new"]
  /\ found = [t \in Transfers |-> None]
  /\ wrote = [t \in Transfers |-> None]
  /\ history = [t \in Transfers |-> None]
  /\ resolvePolicy = [t \in Transfers |-> None]
  /\ answer = [t \in Transfers |-> None]
  /\ opQueue = << >> /\ current = None /\ pendingInitIds = {}
  /\ asking = << >> /\ active = None /\ globalPolicy = None
  /\ resumed = FALSE /\ clicks = 0

Op(do, t) == [do |-> do, id |-> t]

(* The members of a set in the order a sequence has them in. *)
InOrder(set, seq) ==
  {s \in [1..Cardinality(set) -> set] :
     \A i, j \in DOMAIN s :
       i < j => \E p, q \in DOMAIN seq : p < q /\ seq[p] = s[i] /\ seq[q] = s[j]}

Click == clicks < MaxClicks /\ clicks' = clicks + 1

(* addTransferList: the transfers of one batch, in some order. *)
AddBatch(b) ==
  LET ts == {t \in Transfers : Batch[t] = b}
  IN  /\ \A t \in ts : stage[t] = "new"
      /\ \E order \in SetToSeqs(ts) : fileTransfers' = fileTransfers \o order
      /\ stage' = [t \in Transfers |-> IF t \in ts THEN "waiting" ELSE stage[t]]
      /\ UNCHANGED <<inited, paused, held, knows, found, wrote, history, dialogVars, queueVars,
                     userVars>>

---------------------------------------------------------------------------
(* The scheduler.                                                          *)

FirstOf(seq, n) == SubSeq(seq, 1, IF n < Len(seq) THEN n ELSE Len(seq))

Starts(pending, starting) ==
  /\ <<pending, starting>> # <<pendingInitIds, << >>>>
  /\ pendingInitIds' = pending \cup ToSet(starting)
  /\ opQueue' = opQueue \o [i \in DOMAIN starting |-> Op("init", starting[i])]
  /\ UNCHANGED <<listVars, copyVars, dialogVars, current, userVars>>

DeviationControl ==
  LET pending == {t \in pendingInitIds \cap Listed : t \notin inited}
      count == Cardinality(Active)
      free == IF count >= MaxTransport THEN 0 ELSE MaxTransport - count
  IN  \E waiting \in InOrder(Listed \ (inited \cup pending), fileTransfers) :
        Starts(pending, FirstOf(waiting, free))

(* control: runs after every change of the list.  A start that is queued   *)
(* counts already; a transfer that is paused does not count.               *)
Control ==
  LET pending == {t \in pendingInitIds \cap Listed : t \notin inited}
      count == Cardinality(Active \cup (pending \ paused))
      free == IF count >= MaxTransport THEN 0 ELSE MaxTransport - count
  IN  \E waiting \in InOrder(Listed \ (inited \cup pending), fileTransfers) :
        Starts(pending, FirstOf(waiting, free))

---------------------------------------------------------------------------
(* A transfer leaves the list: its component is unmounted, a running copy  *)
(* is destroyed, and what it had learnt of its file is forgotten unless    *)
(* the entry holds it.  What it still waits for is not cancelled.          *)
Unmounted(ts) ==
  /\ stage' = [t \in Transfers |->
                 IF t \in ts /\ stage[t] \in {"waiting", "running"} THEN "over" ELSE stage[t]]
  /\ held' = held \ ts

(* initTransfer, up to its first await. *)
Started(t) ==
  stage' = [stage EXCEPT ![t] = IF t \in Given THEN "target" ELSE "source"]

(* The queue of changes.  A start is applied a moment after it was taken   *)
(* from the queue; every other change at once.                             *)
ProcessOp ==
  /\ opQueue # << >> /\ current = None
  /\ opQueue' = Tail(opQueue)
  /\ LET op == Head(opQueue)
         t == op.id
     IN  \/ /\ op.do = "init"
            /\ current' = IF t \in Listed THEN t ELSE None
            /\ UNCHANGED <<listVars, copyVars, resumed>>
         \/ /\ op.do = "delete"
            /\ fileTransfers' = RemoveFirst(fileTransfers, t)
            /\ IF t \in Listed THEN Unmounted({t}) ELSE UNCHANGED <<stage, held>>
            /\ UNCHANGED <<inited, paused, current, knows, found, wrote, history, resumed>>
         \/ /\ op.do = "pause"
            /\ paused' = IF t \in Listed THEN paused \cup {t} ELSE paused
            /\ held' = IF t \in Listed /\ stage[t] = "running" THEN held \cup {t} ELSE held
            /\ UNCHANGED <<fileTransfers, inited, current, copyVars, resumed>>
         \/ /\ op.do = "resume"
            /\ paused' = paused \ {t}
            /\ held' = held \ {t}
            /\ resumed' = TRUE
            /\ UNCHANGED <<fileTransfers, inited, current, copyVars>>
         \/ /\ op.do = "file"
            /\ knows' = IF t \in Listed THEN knows \cup {t} ELSE knows
            /\ UNCHANGED <<listVars, current, stage, found, wrote, history, resumed>>
         \/ /\ op.do = "top"
            /\ fileTransfers' = IF t \in Listed THEN <<t>> \o RemoveFirst(fileTransfers, t)
                                ELSE fileTransfers
            /\ UNCHANGED <<inited, paused, held, current, copyVars, resumed>>
  /\ UNCHANGED <<dialogVars, pendingInitIds, clicks>>

ApplyInit ==
  /\ current \in Transfers
  /\ current' = None
  /\ inited' = inited \cup {current}
  /\ Started(current)
  /\ UNCHANGED <<fileTransfers, paused, held, knows, found, wrote, history, dialogVars,
                 opQueue, pendingInitIds, userVars>>

---------------------------------------------------------------------------
(* A transfer.                                                             *)

Enqueued(op) == opQueue' = Append(opQueue, op)

(* onEnd: also the end of a transfer that failed or was skipped; the       *)
(* history does not tell them apart.                                       *)
Ended(t) ==
  /\ stage' = [stage EXCEPT ![t] = "over"]
  /\ history' = [history EXCEPT ![t] = "ended"]
  /\ Enqueued(Op("delete", t))

Opening(t, where) ==
  /\ stage' = [stage EXCEPT ![t] = "opening"]
  /\ wrote' = [wrote EXCEPT ![t] = where]

(* startTransfer: without the file it knows of, the component does nothing. *)
StartTransfer(t) ==
  IF t \in Listed \cup knows THEN Opening(t, "target")
  ELSE stage' = [stage EXCEPT ![t] = "over"] /\ UNCHANGED wrote

(* checkExist of the source.  A transfer cancelled meanwhile is no longer  *)
(* listed; checkConflict then finds no conflict and the copy starts.       *)
SourceFound(t) ==
  /\ stage[t] = "source"
  /\ Enqueued(Op("file", t))
  /\ IF t \in Listed
     THEN stage' = [stage EXCEPT ![t] = "target"] /\ UNCHANGED <<knows, wrote>>
     ELSE knows' = knows \cup {t} /\ Opening(t, "target")
  /\ UNCHANGED <<listVars, found, history, dialogVars, current, pendingInitIds, userVars>>

(* tagTransferError. *)
SourceMissing(t) ==
  /\ stage[t] = "source"
  /\ stage' = [stage EXCEPT ![t] = "over"]
  /\ IF t \in Listed
     THEN Enqueued(Op("delete", t)) /\ history' = [history EXCEPT ![t] = "error"]
     ELSE UNCHANGED <<opQueue, history>>
  /\ UNCHANGED <<listVars, knows, found, wrote, dialogVars, current, pendingInitIds, userVars>>

(* A lookup that fails says the same as a target that does not exist. *)
TargetAbsent(t) ==
  /\ stage[t] = "target"
  /\ \E said \in {"absent", "unknown"} : found' = [found EXCEPT ![t] = said]
  /\ StartTransfer(t)
  /\ UNCHANGED <<listVars, knows, history, dialogVars, queueVars, userVars>>

(* onDecision, for any of FileActions: only skip, cancel and rename are    *)
(* told apart from replacing the target.                                   *)
Decided(t, policy) ==
  \/ /\ policy \in {"skip", "cancel"}
     /\ Ended(t)
     /\ UNCHANGED wrote
  \/ /\ policy = "rename"
     /\ Opening(t, "renamed")
     /\ UNCHANGED <<history, opQueue>>
  \/ /\ policy \notin {"skip", "cancel", "rename"}
     /\ StartTransfer(t)
     /\ UNCHANGED <<history, opQueue>>

DeviationTargetFound(t) ==
  /\ stage[t] = "target"
  /\ found' = [found EXCEPT ![t] = "exists"]
  /\ Decided(t, IF resolvePolicy[t] = "skip" THEN "skip" ELSE "mergeOrOverwrite")
  /\ UNCHANGED <<listVars, knows, dialogVars, current, pendingInitIds, userVars>>

(* The target exists: the policy left by an answer for the whole batch or  *)
(* by a tool call decides, and the dialog otherwise.                       *)
TargetFound(t) ==
  /\ stage[t] = "target"
  /\ found' = [found EXCEPT ![t] = "exists"]
  /\ \/ /\ resolvePolicy[t] # None
        /\ Decided(t, resolvePolicy[t])
        /\ UNCHANGED <<asking, active, answer>>
     \/ /\ resolvePolicy[t] = None /\ globalPolicy \in FileActions
        /\ answer' = [answer EXCEPT ![t] = globalPolicy]
        /\ IF t \in Listed THEN Decided(t, globalPolicy)
           ELSE stage' = [stage EXCEPT ![t] = "over"] /\ UNCHANGED <<wrote, history, opQueue>>
        /\ UNCHANGED <<asking, active>>
     \/ /\ resolvePolicy[t] = None /\ globalPolicy \notin FileActions
        /\ stage' = [stage EXCEPT ![t] = "asked"]
        /\ IF active = None THEN active' = t /\ UNCHANGED asking
                            ELSE asking' = Append(asking, t) /\ UNCHANGED active
        /\ UNCHANGED <<wrote, history, opQueue, answer>>
  /\ UNCHANGED <<listVars, knows, resolvePolicy, globalPolicy, current, pendingInitIds, userVars>>

(* The copy is under way, also for a transfer that has left the list. *)
Opened(t) ==
  /\ stage[t] = "opening"
  /\ stage' = [stage EXCEPT ![t] = "running"]
  /\ UNCHANGED <<listVars, knows, found, wrote, history, dialogVars, queueVars, userVars>>

(* What the component waits for never comes: the session's panel is gone   *)
(* when the copy is to be opened, or the socket the answer was to come on  *)
(* has been closed, which drops those who wait for it.                     *)
Lost(t) ==
  /\ stage[t] \in {"source", "target", "opening", "running"}
  /\ stage' = [stage EXCEPT ![t] = "lost"]
  /\ UNCHANGED <<listVars, knows, found, wrote, history, dialogVars, queueVars, userVars>>

(* transfer:end or transfer:err. *)
Finishes(t) ==
  /\ stage[t] = "running" /\ t \notin held
  /\ Ended(t)
  /\ UNCHANGED <<listVars, knows, found, wrote, dialogVars, current, pendingInitIds, userVars>>

---------------------------------------------------------------------------
(* The dialog.                                                             *)

Undecided == {t \in Transfers : stage[t] \in {"waiting", "source", "target", "asked"}}
Mates(t) == {u \in Listed : Batch[u] = Batch[t]}

(* The answer is left with the components of the batch. *)
Answer(batch, policy) ==
  /\ resolvePolicy' = [u \in Transfers |-> IF u \in batch THEN policy ELSE resolvePolicy[u]]
  /\ answer' = [u \in Transfers |->
                  IF u \in (batch \cap Undecided) \cup {active} THEN policy ELSE answer[u]]

ShowNext(rest) ==
  IF rest = << >> THEN active' = None /\ asking' = rest
                  ELSE active' = Head(rest) /\ asking' = Tail(rest)

(* onDecision for the transfer shown and, for an answer to all, for those  *)
(* of its batch that wait for the dialog.  A transfer that has left the    *)
(* list has no component to tell.                                          *)
AllDecided(ts, policy) ==
  LET live == {u \in ts : u \in Listed}
  IN  \/ /\ policy = "skip"
         /\ stage' = [u \in Transfers |-> IF u \in live THEN "over" ELSE stage[u]]
         /\ history' = [u \in Transfers |-> IF u \in live THEN "ended" ELSE history[u]]
         /\ \E order \in SetToSeqs(live) :
              opQueue' = opQueue \o [i \in DOMAIN order |-> Op("delete", order[i])]
         /\ UNCHANGED wrote
      \/ /\ policy # "skip"
         /\ stage' = [u \in Transfers |-> IF u \in live THEN "opening" ELSE stage[u]]
         /\ wrote' = [u \in Transfers |->
                        IF u \notin live THEN wrote[u]
                        ELSE IF policy = "rename" THEN "renamed" ELSE "target"]
         /\ UNCHANGED <<history, opQueue>>

DeviationAct(policy, all) ==
  /\ active # None
  /\ LET queued == IF all THEN {u \in ToSet(asking) : Batch[u] = Batch[active]} ELSE {}
     IN  /\ Answer(IF all THEN Mates(active) ELSE {}, policy)
         /\ AllDecided({active}, policy)
         /\ \E rest \in InOrder(ToSet(asking) \ queued, asking) : ShowNext(rest)
  /\ UNCHANGED <<listVars, knows, found, globalPolicy, current, pendingInitIds, userVars>>

(* act, and showNext after it. *)
Act(policy, all) ==
  /\ active # None
  /\ LET queued == IF all THEN {u \in ToSet(asking) : Batch[u] = Batch[active]} ELSE {}
     IN  /\ Answer(IF all THEN Mates(active) ELSE {}, policy)
         /\ AllDecided(queued \cup {active}, policy)
         /\ \E rest \in InOrder(ToSet(asking) \ queued, asking) : ShowNext(rest)
  /\ UNCHANGED <<listVars, knows, found, globalPolicy, current, pendingInitIds, userVars>>

---------------------------------------------------------------------------
(* The user and tool calls.                                                *)

(* The buttons of one transfer: cancel, pause or resume, move to the top. *)
Press(t) ==
  /\ t \in Listed
  /\ Click
  /\ \E do \in {"delete", "top", IF t \in paused THEN "resume" ELSE "pause"} :
       Enqueued(Op(do, t))
  /\ UNCHANGED <<listVars, copyVars, dialogVars, current, pendingInitIds, resumed>>

PauseAll ==
  /\ Click
  /\ paused' = paused \cup Listed
  /\ held' = held \cup {t \in Listed : stage[t] = "running"}
  /\ UNCHANGED <<fileTransfers, inited, copyVars, dialogVars, queueVars, resumed>>

ResumeAll ==
  /\ Listed \cap paused # {}
  /\ paused' = paused \ Listed
  /\ held' = held \ Listed
  /\ resumed' = TRUE
  /\ UNCHANGED <<fileTransfers, inited, copyVars, dialogVars, queueVars, clicks>>

(* cancelAll replaces the list.  A start that is being applied then looks  *)
(* at the new list for a change it makes to the old one, and never ends.   *)
CancelAll ==
  /\ Listed # {}
  /\ Click
  /\ fileTransfers' = << >>
  /\ Unmounted(Listed)
  /\ current' = IF current = None THEN None ELSE "stuck"
  /\ UNCHANGED <<inited, paused, knows, found, wrote, history, dialogVars, opQueue,
                 pendingInitIds, resumed>>

(* mcpSftpUpload, mcpSftpDownload: the policy of the last call stays. *)
ToolCall ==
  /\ globalPolicy' \in McpPolicies
  /\ UNCHANGED <<listVars, copyVars, asking, active, resolvePolicy, answer, queueVars,
                 userVars>>

---------------------------------------------------------------------------
Answered ==
  \E t \in Transfers : SourceFound(t) \/ SourceMissing(t) \/ TargetAbsent(t) \/ TargetFound(t)
                       \/ Opened(t) \/ Finishes(t)

UserDecides == \E policy \in Answers, all \in BOOLEAN : Act(policy, all)

Next ==
  \/ \E b \in {Batch[t] : t \in Transfers} : AddBatch(b)
  \/ Control \/ ProcessOp \/ ApplyInit
  \/ Answered \/ \E t \in Transfers : Lost(t)
  \/ UserDecides
  \/ \E t \in Transfers : Press(t)
  \/ PauseAll \/ ResumeAll \/ CancelAll
  \/ ToolCall

Spec == Init /\ [][Next]_vars

(* The page runs; every lookup is answered and every copy that is not      *)
(* paused ends, or it is lost; the user answers the dialog.                *)
FairSpec ==
  /\ Spec
  /\ WF_vars(Control) /\ WF_vars(ProcessOp) /\ WF_vars(ApplyInit)
  /\ WF_vars(UserDecides)
  /\ \A t \in Transfers :
       WF_vars(SourceFound(t) \/ SourceMissing(t) \/ TargetAbsent(t) \/ TargetFound(t)
               \/ Opened(t) \/ Finishes(t))

---------------------------------------------------------------------------
(* Every transfer leaves the list in the end unless it stays paused or is  *)
(* lost, through conflicts, answers for a whole batch and the cancelling   *)
(* of others.  A lost transfer stays listed and keeps its place until the  *)
(* user cancels it: with all places lost no other starts.  When everything *)
(* is cancelled at the moment a start is being applied, the queue stops    *)
(* and no later transfer starts or leaves.                                 *)
TransfersLeave == \A t \in Transfers :
  t \in Listed ~>
    \/ t \notin Listed \/ t \in paused \/ stage[t] = "lost"
    \/ Cardinality({u \in Active : stage[u] = "lost"}) >= MaxTransport
    \/ current = "stuck"

=============================================================================
