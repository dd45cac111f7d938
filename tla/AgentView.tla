------------------------------ MODULE AgentView ------------------------------
(***************************************************************************)
(* One task as its window sees it: the events the main process publishes,  *)
(* the snapshots the window asks for, and the projection it keeps          *)
(* (client/store/agent-session.js, ipc/register-agent-ipc.js, getSnapshot  *)
(* in session-manager.js).                                                 *)
(*                                                                         *)
(* Electron's IPC delivers events and replies of one window in the order   *)
(* in which the main process sent them.  getSnapshot is computed and       *)
(* answered in one turn of the main process's event loop, so no event      *)
(* falls between; on the window's side every await is one in which other   *)
(* events are handled.  A control call is checked when it arrives, taken   *)
(* from the task's mailbox later, and answered when its effects have run.  *)
(***************************************************************************)
EXTENDS Naturals, Sequences

CONSTANTS
  MaxEvents,    \* bound: events before which the task goes on from planning
  MaxControls,  \* bound: control calls of the user
  MaxFaults     \* bound: reloads, refused fetches, commits and effects that throw

ASSUME ViewAssumption ==
  MaxEvents \in Nat /\ MaxControls \in Nat /\ MaxFaults \in Nat

VARIABLES
  record,     \* the task's record in the main process
  events,     \* its event log
  safePoint,  \* the pause or cancellation that waits for a change to be verified
  failing,    \* a commit threw: failRuntime has a FAIL in the mailbox
  commands,   \* the control commands in its mailbox
  inbox,      \* what is on its way to the window
  requests,   \* what is on its way to the main process
  view,       \* sessions.get(taskId) in the window
  control,    \* the control call of the window
  dropped,    \* history: up to which event one was lost and not made up for, or 0
  spent       \* bounded events so far: controls and faults

mainVars == <<record, events, safePoint, failing, commands>>
vars == <<record, events, safePoint, failing, commands,
          inbox, requests, view, control, dropped, spent>>

\* "executing": a change is the current invocation, from its execution to the
\* evaluation of what came of it; "completing" and "verifying": the code's
\* verifying, of the task's completion and of a change after a resume.
Statuses == {"planning", "awaiting_approval", "executing", "completing", "verifying",
             "paused", "ended"}

\* since: the events before the latest commit; owed: a change is yet to be judged.
Records == [status : Statuses, since : Nat, approval : BOOLEAN, result : BOOLEAN,
            owed : BOOLEAN]

\* What an event says: its type and, for a change of status, the new one.
Event(type, to) == [type |-> type, to |-> to]
\* "final" brings the task's result; "cancelled" ends it without one.
EventTypes == {"created", "state_changed", "approval.requested", "approval.resolved",
               "paused", "resumed", "final", "cancelled", "other"}

\* The timeline a snapshot's events extend is left out, and so are those events.
NoView == [sequence |-> 0, status |-> "none", approval |-> FALSE, result |-> FALSE]
HasView == view # NoView

NoControl == [phase |-> "none", action |-> "none"]

-----------------------------------------------------------------------------
(* The main process. *)

\* commit: the record, the numbered events, and one message for each.
Published(drafts) ==
  [i \in 1 .. Len(drafts) |-> [kind |-> "event", sequence |-> Len(events) + i,
                               event |-> drafts[i]]]

Commit(next, drafts) ==
  /\ record' = [next EXCEPT !.since = Len(events)]
  /\ events' = events \o drafts

\* A change of status, and the event that names it.
Change(to, type) == <<Event("state_changed", to), Event(type, "none")>>
EndDrafts == Change("ended", "final")

\* The commands of the task itself (state-machine.js).  An approval that
\* expires leaves its change, unexecuted, as the current invocation.
Moves ==
  {[from |-> "planning", to |-> "awaiting_approval", approval |-> TRUE, judges |-> FALSE,
    drafts |-> Change("awaiting_approval", "approval.requested")],
   [from |-> "planning", to |-> "executing", approval |-> FALSE, judges |-> FALSE,
    drafts |-> Change("executing", "other")],
   [from |-> "awaiting_approval", to |-> "executing", approval |-> FALSE, judges |-> FALSE,
    drafts |-> Change("executing", "approval.resolved")],
   [from |-> "executing", to |-> "planning", approval |-> FALSE, judges |-> TRUE,
    drafts |-> Change("planning", "other")],
   [from |-> "executing", to |-> "ended", approval |-> FALSE, judges |-> FALSE,
    drafts |-> EndDrafts],
   [from |-> "planning", to |-> "planning", approval |-> FALSE, judges |-> TRUE,
    drafts |-> <<Event("other", "none")>>],
   [from |-> "planning", to |-> "completing", approval |-> FALSE, judges |-> FALSE,
    drafts |-> Change("completing", "other")],
   [from |-> "completing", to |-> "ended", approval |-> FALSE, judges |-> FALSE,
    drafts |-> EndDrafts]}

\* A commit of the task's own: the window gets its events, or the store throws
\* when the numbers have been given out, and failRuntime follows.
Sent(drafts) ==
  inbox' = inbox \o Published(drafts) /\ UNCHANGED <<failing, dropped, spent>>

Threw(next, sent) ==
  /\ spent.faults < MaxFaults
  /\ spent' = [spent EXCEPT !.faults = @ + 1]
  /\ failing' = (next.status # "ended")
  /\ dropped' = Len(events')
  /\ inbox' = inbox \o Published(sent)

OwnCommit(next, drafts) ==
  Commit(next, drafts) /\ (Sent(drafts) \/ Threw(next, <<>>))

Move ==
  /\ ~failing
  /\ \E m \in Moves, owed \in BOOLEAN :
       /\ record.status = m.from
       /\ m.from = "planning" => Len(events) + Len(m.drafts) <= MaxEvents
       /\ owed # record.owed => m.judges
       /\ OwnCommit([record EXCEPT !.status = m.to, !.approval = m.approval,
                                   !.result = (m.to = "ended"), !.owed = owed], m.drafts)
  /\ UNCHANGED <<safePoint, commands, requests, view, control>>

\* FAIL, which the table refuses to a task that is paused or awaits an approval.
Fail ==
  /\ failing /\ failing' = FALSE
  /\ IF record.status \in {"paused", "awaiting_approval", "ended"}
       THEN UNCHANGED <<record, events, inbox>>
       ELSE /\ Commit([record EXCEPT !.status = "ended", !.result = TRUE], EndDrafts)
            /\ inbox' = inbox \o Published(EndDrafts)
  /\ UNCHANGED <<safePoint, commands, requests, view, control, dropped, spent>>

\* MUTATION_VERIFIED, the end of the checks a resume ran: a change that did not
\* pass ends the task, and after one that did, the command that was waiting runs.
PauseDrafts == Change("paused", "paused")
VerifiedDrafts == Change("planning", "other")

Awaited == [status |-> IF safePoint = "cancel" THEN "ended" ELSE "paused",
            drafts |-> IF safePoint = "cancel" THEN EndDrafts ELSE PauseDrafts]

Verified ==
  /\ record.status = "verifying" /\ ~failing
  /\ \/ /\ OwnCommit([record EXCEPT !.status = "ended", !.result = TRUE], EndDrafts)
        /\ UNCHANGED safePoint
     \/ \E owed \in BOOLEAN :
          LET passed == [record EXCEPT !.status = "planning", !.owed = owed]
              next == [passed EXCEPT !.status = Awaited.status,
                                     !.result = (safePoint = "cancel")]
              drafts == VerifiedDrafts \o Awaited.drafts
          IN /\ owed => record.owed
             /\ \/ /\ safePoint = "none" /\ OwnCommit(passed, VerifiedDrafts)
                   /\ UNCHANGED safePoint
                \/ /\ safePoint # "none" /\ Commit(passed, VerifiedDrafts)
                   /\ Threw(passed, <<>>) /\ UNCHANGED safePoint
                \/ /\ safePoint # "none" /\ safePoint' = "none"
                   /\ Commit(next, drafts)
                   /\ Sent(drafts) \/ Threw(next, VerifiedDrafts)
  /\ UNCHANGED <<commands, requests, view, control>>

\* Deviation: control ends with a snapshot numbered before the latest commit.
LateReply(request) ==
  [kind |-> "snapshot", why |-> request.why, record |-> record,
   sequence |-> IF request.why = "control" THEN record.since ELSE Len(events)]

\* getSnapshot: the record, with the number of its last event.
SnapshotReply(request) ==
  [kind |-> "snapshot", why |-> request.why, record |-> record, sequence |-> Len(events)]

\* The limiter answers instead, or the reply carries the snapshot.
AnswerFetch ==
  /\ requests # <<>> /\ Head(requests).kind = "fetch"
  /\ requests' = Tail(requests)
  /\ \/ inbox' = Append(inbox, SnapshotReply(Head(requests))) /\ UNCHANGED spent
     \/ /\ spent.faults < MaxFaults
        /\ inbox' = Append(inbox, [kind |-> "refused", why |-> Head(requests).why])
        /\ spent' = [spent EXCEPT !.faults = @ + 1]
  /\ UNCHANGED <<mainVars, view, control, dropped>>

\* control, as it arrives.  A pause or cancellation of a change in hand is kept
\* for the safe point and answered; while a task is verified, its current
\* invocation is a change or not.
MustDefer(action) == action \in {"pause", "cancel"} /\ record.status = "executing"
MayDefer(action) ==
  action \in {"pause", "cancel"} /\ record.status \in {"executing", "verifying", "completing"}

\* expectedSnapshotVersion: the window had seen an event of the latest commit.
Fresh(call) == call.after > record.since

Reply(outcome) == [kind |-> "control", outcome |-> outcome]

\* A pause never takes the place of a cancellation.  Calls are refused by the
\* limiter, for a stale snapshot, and when the terminal's identity has changed.
AcceptControl ==
  /\ requests # <<>> /\ Head(requests).kind = "control"
  /\ requests' = Tail(requests)
  /\ LET call == Head(requests)
     IN \/ /\ MayDefer(call.action)
           /\ safePoint' = IF safePoint = "cancel" THEN "cancel" ELSE call.action
           /\ inbox' = Append(inbox, Reply("pending"))
           /\ UNCHANGED commands
        \/ /\ ~MustDefer(call.action)
           /\ call.action \in {"resume", "answer"} => Fresh(call)
           /\ commands' = Append(commands, [action |-> call.action, committed |-> FALSE,
                                            lost |-> FALSE])
           /\ UNCHANGED <<safePoint, inbox>>
        \/ /\ inbox' = Append(inbox, Reply("refused"))
           /\ UNCHANGED <<safePoint, commands>>
  /\ UNCHANGED <<record, events, failing, view, control, dropped, spent>>

\* What a command does to the task.  PAUSE keeps the pending approval in the
\* record, RESUME clears it without an event.  cancel_task ends the task with
\* no result and with the approval still there.
Effect(to, approval, result, drafts) ==
  [next |-> [record EXCEPT !.status = to, !.approval = approval, !.result = result],
   drafts |-> drafts]

ResumedStatus == IF record.owed THEN "verifying" ELSE "planning"

Controlled(action) ==
  IF record.status = "ended" THEN {Effect("ended", record.approval, record.result, <<>>)}
  ELSE CASE action = "pause" /\ record.status # "paused" ->
              {Effect("paused", record.approval, FALSE, PauseDrafts)}
         [] action = "cancel" -> {Effect("ended", record.approval, TRUE, EndDrafts)}
         [] action = "resume" /\ record.status = "paused" ->
              {Effect(ResumedStatus, FALSE, FALSE, Change(ResumedStatus, "resumed"))}
         [] action = "answer" /\ record.status = "awaiting_approval" ->
              {Effect("executing", FALSE, FALSE, Change("executing", "approval.resolved")),
               Effect("planning", FALSE, FALSE, Change("planning", "approval.resolved")),
               Effect("ended", record.approval, FALSE, Change("ended", "cancelled"))}
         [] OTHER -> {}

\* The answer to a call of the window before its reload reaches nobody.
AnswerTo(command, outcome) == Reply(IF command.lost THEN "lost" ELSE outcome)

\* process: the command is refused by the table, or its commit throws, or its
\* events are published and its effects begin.
RunControl ==
  /\ commands # <<>> /\ ~Head(commands).committed
  /\ LET command == Head(commands)
     IN \/ /\ Controlled(command.action) = {}
           /\ inbox' = Append(inbox, AnswerTo(command, "refused"))
           /\ commands' = Tail(commands)
           /\ UNCHANGED <<record, events, dropped, spent>>
        \/ \E effect \in Controlled(command.action) :
             /\ IF effect.drafts = <<>> THEN UNCHANGED <<record, events>>
                                        ELSE Commit(effect.next, effect.drafts)
             /\ \/ /\ inbox' = inbox \o Published(effect.drafts)
                   /\ commands' = <<[command EXCEPT !.committed = TRUE]>> \o Tail(commands)
                   /\ UNCHANGED <<dropped, spent>>
                \/ /\ spent.faults < MaxFaults
                   /\ spent' = [spent EXCEPT !.faults = @ + 1]
                   /\ dropped' = Len(events')
                   /\ inbox' = Append(inbox, AnswerTo(command, "failed"))
                   /\ commands' = Tail(commands)
  /\ UNCHANGED <<safePoint, failing, requests, view, control>>

\* The effects have run, or one of them threw.
ReplyControl ==
  /\ commands # <<>> /\ Head(commands).committed
  /\ commands' = Tail(commands)
  /\ \/ inbox' = Append(inbox, AnswerTo(Head(commands), "accepted")) /\ UNCHANGED spent
     \/ /\ spent.faults < MaxFaults
        /\ spent' = [spent EXCEPT !.faults = @ + 1]
        /\ inbox' = Append(inbox, AnswerTo(Head(commands), "failed"))
  /\ UNCHANGED <<record, events, safePoint, failing, requests, view, control, dropped>>

-----------------------------------------------------------------------------
(* The window. *)

\* getSnapshot is asked for by an event, by start and at the end of control.
Fetch(why) == [kind |-> "fetch", why |-> why]

\* project: one event in its turn.
Project(old, sequence, event) ==
  [sequence |-> sequence,
   status |-> CASE event.type = "state_changed" -> event.to
                [] event.type = "paused" -> "paused"
                [] event.type = "resumed" -> "planning"
                [] OTHER -> old.status,
   approval |-> IF event.type = "approval.requested" THEN TRUE
                ELSE IF event.type = "approval.resolved" THEN FALSE ELSE old.approval,
   result |-> old.result \/ event.type \in {"final", "cancelled"}]

\* Deviation: fields the view has already are kept.
ReplacedKeepsApproval(reply) ==
  [sequence |-> reply.sequence, status |-> reply.record.status,
   approval |-> reply.record.approval \/ view.approval, result |-> reply.record.result]

\* Deviation: the number of the last event is not taken over.
ReplacedKeepsNumber(reply) ==
  [sequence |-> IF HasView THEN view.sequence ELSE reply.sequence,
   status |-> reply.record.status, approval |-> reply.record.approval,
   result |-> reply.record.result]

\* replaceSnapshot: everything a view is compared in comes from the reply.
Replaced(reply) ==
  [sequence |-> reply.sequence, status |-> reply.record.status,
   approval |-> reply.record.approval, result |-> reply.record.result]

\* isIncompleteTerminalSession: such a view is stored and nobody is told.
Incomplete(v) == v.status = "ended" /\ ~v.result

\* notify: a waiter whose status has come is resolved, and control goes on to
\* fetch the snapshot.
WaitsFor(action, status) == status = "ended" \/ (action = "pause" /\ status = "paused")

Notify(v, queued) ==
  IF control.phase = "waiting" /\ ~Incomplete(v) /\ WaitsFor(control.action, v.status)
    THEN /\ control' = [control EXCEPT !.phase = "fetching"]
         /\ requests' = queued \o <<Fetch("control")>>
    ELSE /\ control' = control
         /\ requests' = queued

\* Deviation: nobody is told of an event that was applied.
ApplySilently(old, sequence, event) ==
  IF sequence <= old.sequence THEN view' = old /\ UNCHANGED <<control, requests>>
  ELSE IF sequence > old.sequence + 1
    THEN /\ view' = old
         /\ requests' = Append(requests, Fetch("event"))
         /\ UNCHANGED control
  ELSE view' = Project(old, sequence, event) /\ UNCHANGED <<control, requests>>

\* applyEvent on the session `old`: old events are ignored, a gap is fetched.
Apply(old, sequence, event) ==
  \/ /\ sequence <= old.sequence
     /\ view' = old
     /\ UNCHANGED <<control, requests>>
  \/ /\ sequence > old.sequence + 1
     /\ view' = old
     /\ requests' = Append(requests, Fetch("event"))
     /\ UNCHANGED control
  \/ /\ sequence = old.sequence + 1
     /\ view' = Project(old, sequence, event)
     /\ Notify(view', requests)

ReceiveEvent ==
  /\ inbox # <<>> /\ Head(inbox).kind = "event"
  /\ inbox' = Tail(inbox)
  /\ LET message == Head(inbox)
     IN IF HasView
          THEN Apply(view, message.sequence, message.event)
          ELSE /\ requests' = Append(requests, Fetch("event"))
               /\ UNCHANGED <<view, control>>
  /\ UNCHANGED <<mainVars, dropped, spent>>

\* The answer to start: its own fetch.
ReceiveStarted ==
  /\ inbox # <<>> /\ Head(inbox).kind = "started"
  /\ inbox' = Tail(inbox)
  /\ requests' = Append(requests, Fetch("start"))
  /\ UNCHANGED <<mainVars, view, control, dropped, spent>>

\* A snapshot: the event that found no session is not newer and is ignored;
\* control returns with it.
ReceiveSnapshot ==
  /\ inbox # <<>> /\ Head(inbox).kind = "snapshot"
  /\ inbox' = Tail(inbox)
  /\ dropped' = IF Head(inbox).sequence >= dropped THEN 0 ELSE dropped
  /\ LET reply == Head(inbox)
     IN /\ view' = Replaced(reply)
        /\ IF reply.why = "control" THEN control' = NoControl /\ requests' = requests
                   ELSE Notify(view', requests)
  /\ UNCHANGED <<mainVars, spent>>

\* The fetch is refused: applyEvent rejects and its event is gone, or control does.
ReceiveRefusal ==
  /\ inbox # <<>> /\ Head(inbox).kind = "refused"
  /\ inbox' = Tail(inbox)
  /\ dropped' = Len(events)
  /\ control' = IF Head(inbox).why = "control" THEN NoControl ELSE control
  /\ UNCHANGED <<mainVars, requests, view, spent>>

\* controlAgentSession: the call carries the number of the last event seen.
CallControl(action) ==
  /\ HasView /\ control = NoControl /\ spent.controls < MaxControls
  /\ control' = [phase |-> "asked", action |-> action]
  /\ requests' = Append(requests, [kind |-> "control", action |-> action,
                                   after |-> view.sequence])
  /\ spent' = [spent EXCEPT !.controls = @ + 1]
  /\ UNCHANGED <<mainVars, inbox, view, dropped>>

\* waitForTaskStatus resolves at once when the status is there already.
ReceiveControl ==
  /\ inbox # <<>> /\ Head(inbox).kind = "control"
  /\ inbox' = Tail(inbox)
  /\ LET outcome == Head(inbox).outcome
     IN \/ /\ outcome = "accepted" \/ (outcome = "pending" /\ WaitsFor(control.action, view.status))
           /\ control' = [control EXCEPT !.phase = "fetching"]
           /\ requests' = Append(requests, Fetch("control"))
           /\ UNCHANGED dropped
        \/ /\ outcome = "pending" /\ ~WaitsFor(control.action, view.status)
           /\ control' = [control EXCEPT !.phase = "waiting"]
           /\ UNCHANGED <<requests, dropped>>
        \/ /\ outcome = "refused" /\ control' = NoControl
           /\ UNCHANGED <<requests, dropped>>
        \/ /\ outcome \in {"failed", "lost"}
           /\ control' = IF outcome = "failed" THEN NoControl ELSE control
           /\ dropped' = Len(events)
           /\ UNCHANGED requests
  /\ UNCHANGED <<mainVars, view, spent>>

\* waitForTaskStatus gives up after 125 s and control rejects.
GiveUpWaiting ==
  /\ control.phase = "waiting"
  /\ control' = NoControl
  /\ UNCHANGED <<mainVars, inbox, requests, view, dropped, spent>>

\* The window is reloaded: its projection starts empty and asks for nothing.
Reload ==
  /\ spent.faults < MaxFaults
  /\ spent' = [spent EXCEPT !.faults = @ + 1]
  /\ view' = NoView /\ control' = NoControl /\ dropped' = 0
  /\ inbox' = <<>> /\ requests' = <<>>
  /\ commands' = [k \in DOMAIN commands |-> [commands[k] EXCEPT !.lost = TRUE]]
  /\ UNCHANGED <<record, events, safePoint, failing>>

-----------------------------------------------------------------------------
\* start has committed the task and its two events and has answered.
Init ==
  /\ record = [status |-> "planning", since |-> 1, approval |-> FALSE, result |-> FALSE,
               owed |-> FALSE]
  /\ events = <<Event("created", "none"), Event("state_changed", "planning")>>
  /\ safePoint = "none" /\ failing = FALSE /\ commands = <<>>
  /\ inbox = <<[kind |-> "event", sequence |-> 1, event |-> Event("created", "none")],
               [kind |-> "event", sequence |-> 2, event |-> Event("state_changed", "planning")],
               [kind |-> "started"]>>
  /\ requests = <<>> /\ view = NoView /\ control = NoControl /\ dropped = 0
  /\ spent = [controls |-> 0, faults |-> 0]

Receive == ReceiveEvent \/ ReceiveStarted \/ ReceiveSnapshot \/ ReceiveRefusal \/ ReceiveControl
Answer == AnswerFetch \/ AcceptControl
Run == RunControl \/ ReplyControl

Next ==
  \/ Move \/ Verified \/ Fail \/ Answer \/ Run \/ Receive \/ GiveUpWaiting \/ Reload
  \/ \E action \in {"pause", "resume", "cancel", "answer"} : CallControl(action)

Spec == Init /\ [][Next]_vars

\* Both event loops take what is in their queues, the mailbox what is in it, and
\* checks of a change come to an end: each is a read with a timeout.
Fairness == /\ WF_vars(Receive) /\ WF_vars(Answer) /\ WF_vars(Run)
            /\ WF_vars(Verified) /\ WF_vars(Fail)
FairSpec == Spec /\ Fairness

-----------------------------------------------------------------------------
(* Properties. *)

TypeOK ==
  /\ record \in Records
  /\ \A i \in DOMAIN events : events[i].type \in EventTypes
  /\ safePoint \in {"none", "pause", "cancel"} /\ failing \in BOOLEAN
  /\ dropped \in 0 .. Len(events)
  /\ HasView => /\ view.sequence \in 1 .. Len(events) /\ view.status \in Statuses
                /\ view.approval \in BOOLEAN /\ view.result \in BOOLEAN
  /\ control.phase \in {"none", "asked", "waiting", "fetching"}

\* The status after the first n events.
StatusAt(n) ==
  LET changes == {i \in 1 .. n : events[i].type = "state_changed"}
  IN IF changes = {} THEN "planning"
     ELSE events[CHOOSE i \in changes : \A j \in changes : j <= i].to

\* Nothing is on its way between the task and its window, and nothing was lost.
Quiet == inbox = <<>> /\ requests = <<>> /\ commands = <<>> /\ control = NoControl /\ dropped = 0

\* The window never shows a mixture: the status and the result it shows are
\* those the task had at the event it says it is at.  After the resume of a task
\* with a change to be judged it shows planning for verifying, but only while the
\* answer that corrects it is coming or was lost; of a task that was cancelled
\* with no result it shows one or none.
ViewIsAMomentOfTheTask ==
  HasView =>
    /\ \/ view.status = StatusAt(view.sequence)
       \/ view.status = "planning" /\ StatusAt(view.sequence) = "verifying" /\ ~Quiet
    /\ view.result => \E i \in 1 .. view.sequence : events[i].type \in {"final", "cancelled"}
    /\ (\E i \in 1 .. view.sequence : events[i].type = "final") => view.result

\* A snapshot fetched for a gap never undoes events applied while it was on its way.
ViewNeverGoesBack == [][HasView /\ view' # NoView => view'.sequence >= view.sequence]_vars

\* When nothing is on its way, the window shows the record exactly, the pending
\* approval included, unless an answer was lost and none has come since.  Only of
\* a task cancelled with no result it may show an empty one.
QuietViewIsExact ==
  HasView /\ Quiet
    => /\ view.sequence = Len(events)
       /\ view.status = record.status /\ view.approval = record.approval
       /\ view.result # record.result => view.result /\ record.status = "ended"

\* A control call is answered, and one that waits while a change is verified, or
\* when the status it waits for has come, returns without its timer of 125 s,
\* unless an event or an answer is lost meanwhile.
ControlReturns ==
  /\ control.phase \in {"asked", "fetching"} ~>
       (control.phase \in {"none", "waiting"} \/ dropped # 0)
  /\ (control.phase = "waiting"
       /\ (record.status = "verifying" \/ WaitsFor(control.action, record.status))) ~>
       (control.phase = "none" \/ dropped # 0)
=============================================================================
