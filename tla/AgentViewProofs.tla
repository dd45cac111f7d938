--------------------------- MODULE AgentViewProofs ---------------------------
(***************************************************************************)
(* Proofs about AgentView, for any number of events, control calls,        *)
(* reloads and faults: the window shows a moment of the task, never an     *)
(* older one than before, and the present one when nothing is on its way.  *)
(*                                                                         *)
(* The first two rest on the numbers of what is on its way to the window:  *)
(* they never decrease along the channel, and none is below what is shown. *)
(* The third needs to know why the newest event will still arrive, and why *)
(* what a resume leaves wrong in the window, the approval it cleared and   *)
(* the status verifying, will be corrected.                                *)
(***************************************************************************)
EXTENDS AgentView, SequenceTheorems, TLAPS

-----------------------------------------------------------------------------
(* The task at an event: what the log says of it. *)

Drafts == [type : EventTypes, to : Statuses \cup {"none"}]

\* The event that names a change of control follows the change, of which it
\* does not say whether the task was resumed to plan or to verify.
PutsIn(type) == IF type = "paused" THEN {"paused"} ELSE {"planning", "verifying"}

EventFits(e, i) ==
  /\ e[i].type = "state_changed" => e[i].to \in Statuses
  /\ e[i].type \in {"paused", "resumed"} =>
       i > 1 /\ e[i - 1].type = "state_changed" /\ e[i - 1].to \in PutsIn(e[i].type)

LogFits(e) ==
  e \in Seq(Drafts) /\ Len(e) >= 2 /\ \A i \in 1 .. Len(e) : EventFits(e, i)

\* Change i is the last of the first n events, and it leads to s.
LatestLeadsTo(e, n, i, s) ==
  /\ i \in 1 .. n /\ e[i].type = "state_changed" /\ e[i].to = s
  /\ \A j \in 1 .. n : e[j].type = "state_changed" => j <= i

StatusIs(e, n, s) ==
  \/ \E i \in 1 .. n : LatestLeadsTo(e, n, i, s)
  \/ s = "planning" /\ \A j \in 1 .. n : e[j].type # "state_changed"

HasType(e, n, types) == \E i \in 1 .. n : e[i].type \in types
Finals == {"final"}
Ends == {"final", "cancelled"}

\* An approval is pending from its request until its answer or a resume.
ApprovalAt(e, n) ==
  \E i \in 1 .. n : /\ e[i].type = "approval.requested"
                    /\ \A j \in 1 .. n : e[j].type \in {"approval.resolved", "resumed"} => j < i

\* A record is the task after n events.
IsAt(e, n, r) ==
  StatusIs(e, n, r.status) /\ r.result \in BOOLEAN /\ (r.result <=> HasType(e, n, Finals))

\* A view shows the task after n events, but for what the window cannot tell.
Shows(e, n, v) ==
  /\ StatusIs(e, n, v.status) \/ (v.status = "planning" /\ StatusIs(e, n, "verifying"))
  /\ v.result \in BOOLEAN
  /\ (v.result => HasType(e, n, Ends)) /\ (HasType(e, n, Finals) => v.result)

\* It shows the status and the approval exactly.
Exact(e, v) ==
  StatusIs(e, v.sequence, v.status) /\ (v.approval <=> ApprovalAt(e, v.sequence))

LEMMA StatusOfLog ==
  ASSUME NEW n \in Nat, NEW s, StatusIs(events, n, s)
  PROVE  StatusAt(n) = s
<1> DEFINE changes == {i \in 1 .. n : events[i].type = "state_changed"}
<1>1. CASE changes = {}
  BY <1>1 DEF StatusAt, StatusIs, LatestLeadsTo
<1>2. CASE changes # {}
  <2>1. PICK i \in 1 .. n : LatestLeadsTo(events, n, i, s)
    BY <1>2 DEF StatusIs
  <2>2. i \in changes /\ \A j \in changes : j <= i
    BY <2>1 DEF LatestLeadsTo
  <2>3. \A k \in changes : (\A j \in changes : j <= k) => k = i
    BY <2>2
  <2>4. (CHOOSE k \in changes : \A j \in changes : j <= k) = i
    BY <2>2, <2>3
  <2> QED
    BY <1>2, <2>1, <2>4 DEF StatusAt, LatestLeadsTo
<1> QED BY <1>1, <1>2

\* One more event.
LEMMA NextStatus ==
  ASSUME NEW e \in Seq(Drafts), NEW n \in Nat, n + 1 <= Len(e), NEW s, StatusIs(e, n, s)
  PROVE  /\ e[n + 1].type # "state_changed" => StatusIs(e, n + 1, s)
         /\ e[n + 1].type = "state_changed" => StatusIs(e, n + 1, e[n + 1].to)
<1>1. \A j \in 1 .. (n + 1) : j \in 1 .. n \/ j = n + 1
  OBVIOUS
<1>2. n + 1 \in 1 .. (n + 1) /\ \A j \in 1 .. n : j \in 1 .. (n + 1) /\ j <= n + 1
  OBVIOUS
<1>3. e[n + 1].type # "state_changed" => StatusIs(e, n + 1, s)
  BY <1>1, <1>2 DEF StatusIs, LatestLeadsTo
<1>4. ASSUME e[n + 1].type = "state_changed" PROVE StatusIs(e, n + 1, e[n + 1].to)
  <2>1. LatestLeadsTo(e, n + 1, n + 1, e[n + 1].to)
    BY <1>1, <1>2, <1>4 DEF LatestLeadsTo
  <2> QED BY <1>2, <2>1 DEF StatusIs
<1> QED BY <1>3, <1>4

LEMMA NextApproval ==
  ASSUME NEW e \in Seq(Drafts), NEW n \in Nat, n + 1 <= Len(e)
  PROVE  /\ e[n + 1].type = "approval.requested" => ApprovalAt(e, n + 1)
         /\ e[n + 1].type \in {"approval.resolved", "resumed"} => ~ApprovalAt(e, n + 1)
         /\ e[n + 1].type \notin {"approval.requested", "approval.resolved", "resumed"}
              => (ApprovalAt(e, n + 1) <=> ApprovalAt(e, n))
<1>1. \A j \in 1 .. (n + 1) : j \in 1 .. n \/ j = n + 1
  OBVIOUS
<1>2. n + 1 \in 1 .. (n + 1) /\ \A j \in 1 .. n : j \in 1 .. (n + 1) /\ j < n + 1
  OBVIOUS
<1>3. ASSUME e[n + 1].type = "approval.requested" PROVE ApprovalAt(e, n + 1)
  <2>1. \A j \in 1 .. (n + 1) : e[j].type \in {"approval.resolved", "resumed"} => j < n + 1
    BY <1>1, <1>2, <1>3
  <2> QED BY <1>2, <1>3, <2>1 DEF ApprovalAt
<1>4. ASSUME e[n + 1].type \in {"approval.resolved", "resumed"} PROVE ~ApprovalAt(e, n + 1)
  <2> SUFFICES ASSUME NEW i \in 1 .. (n + 1), n + 1 < i PROVE FALSE
    BY <1>2, <1>4 DEF ApprovalAt
  <2> QED OBVIOUS
<1>5. ASSUME e[n + 1].type \notin {"approval.requested", "approval.resolved", "resumed"}
      PROVE  ApprovalAt(e, n + 1) <=> ApprovalAt(e, n)
  BY <1>1, <1>2, <1>5 DEF ApprovalAt
<1> QED BY <1>3, <1>4, <1>5

LEMMA NextType ==
  ASSUME NEW e \in Seq(Drafts), NEW n \in Nat, n + 1 <= Len(e), NEW types
  PROVE  HasType(e, n + 1, types) <=> HasType(e, n, types) \/ e[n + 1].type \in types
<1>1. \A j \in 1 .. (n + 1) : j \in 1 .. n \/ j = n + 1
  OBVIOUS
<1>2. n + 1 \in 1 .. (n + 1) /\ \A j \in 1 .. n : j \in 1 .. (n + 1)
  OBVIOUS
<1> QED BY <1>1, <1>2 DEF HasType

\* project: the next event applied to a moment of the task gives the next
\* moment, exactly unless it is the one of a resume.
LEMMA ProjectedMoment ==
  ASSUME NEW e, LogFits(e), NEW n \in Nat, n + 1 <= Len(e),
         NEW old, Shows(e, n, old),
         NEW new, new = Project(old, n + 1, e[n + 1])
  PROVE  /\ Shows(e, n + 1, new)
         /\ StatusIs(e, n, old.status) /\ e[n + 1].type # "resumed"
              => StatusIs(e, n + 1, new.status)
<1>1. e \in Seq(Drafts) /\ n + 1 \in 1 .. Len(e)
  BY DEF LogFits
<1>2. /\ StatusIs(e, n, old.status) \/ (old.status = "planning" /\ StatusIs(e, n, "verifying"))
      /\ old.result \in BOOLEAN
      /\ (old.result => HasType(e, n, Ends)) /\ (HasType(e, n, Finals) => old.result)
  BY DEF Shows
<1>3. /\ new.result \in BOOLEAN
      /\ (new.result => HasType(e, n + 1, Ends)) /\ (HasType(e, n + 1, Finals) => new.result)
  <2>1. new.result = (old.result \/ e[n + 1].type \in Ends)
    BY DEF Project, Ends
  <2>2. /\ HasType(e, n + 1, Ends) <=> HasType(e, n, Ends) \/ e[n + 1].type \in Ends
        /\ HasType(e, n + 1, Finals) <=> HasType(e, n, Finals) \/ e[n + 1].type \in Finals
    BY <1>1, NextType
  <2>3. e[n + 1].type \in Finals => e[n + 1].type \in Ends
    BY DEF Finals, Ends
  <2> QED BY <1>2, <2>1, <2>2, <2>3
<1>4. CASE e[n + 1].type = "state_changed"
  <2>1. new.status = e[n + 1].to
    BY <1>4 DEF Project
  <2>2. StatusIs(e, n + 1, new.status)
    BY <1>1, <1>2, <1>4, <2>1, NextStatus
  <2> QED BY <1>3, <2>2 DEF Shows
<1>5. CASE e[n + 1].type \in {"paused", "resumed"}
  <2>1. /\ n + 1 > 1 /\ e[(n + 1) - 1].type = "state_changed"
        /\ e[(n + 1) - 1].to \in PutsIn(e[n + 1].type)
    BY <1>1, <1>5 DEF LogFits, EventFits
  <2>2. n \in Nat \ {0} /\ e[n].type = "state_changed" /\ e[n].to \in PutsIn(e[n + 1].type)
    <3>1. (n + 1) - 1 = n
      OBVIOUS
    <3> QED BY <2>1, <3>1
  <2>3. LatestLeadsTo(e, n, n, e[n].to)
    BY <2>2 DEF LatestLeadsTo
  <2>4. StatusIs(e, n, e[n].to)
    <3>1. n \in 1 .. n
      BY <2>2
    <3> QED BY <2>3, <3>1 DEF StatusIs
  <2>5. StatusIs(e, n + 1, e[n].to)
    BY <1>1, <1>5, <2>4, NextStatus
  <2>6. CASE e[n + 1].type = "paused"
    <3>1. new.status = e[n].to
      BY <2>2, <2>6 DEF Project, PutsIn
    <3> QED BY <1>3, <2>5, <3>1 DEF Shows
  <2>7. CASE e[n + 1].type = "resumed"
    <3>1. new.status = "planning" /\ e[n].to \in {"planning", "verifying"}
      BY <2>2, <2>7 DEF Project, PutsIn
    <3> QED BY <1>3, <2>5, <2>7, <3>1 DEF Shows
  <2> QED BY <1>5, <2>6, <2>7
<1>6. CASE e[n + 1].type \notin {"state_changed", "paused", "resumed"}
  <2>1. new.status = old.status
    BY <1>6 DEF Project
  <2>2. \A s : StatusIs(e, n, s) => StatusIs(e, n + 1, s)
    BY <1>1, <1>6, NextStatus
  <2> QED BY <1>2, <1>3, <2>1, <2>2 DEF Shows
<1> QED BY <1>4, <1>5, <1>6

\* What the log says of its first n events does not depend on later ones.
LEMMA LongerLog ==
  ASSUME NEW e \in Seq(Drafts), NEW f \in Seq(Drafts), NEW n \in Nat, n <= Len(e),
         Len(e) <= Len(f), \A i \in 1 .. Len(e) : f[i] = e[i]
  PROVE  /\ \A x : IsAt(e, n, x) => IsAt(f, n, x)
         /\ \A x : Shows(e, n, x) => Shows(f, n, x)
         /\ ApprovalAt(f, n) <=> ApprovalAt(e, n)
         /\ \A s : StatusIs(e, n, s) => StatusIs(f, n, s)
         /\ \A types : HasType(f, n, types) <=> HasType(e, n, types)
<1>1. \A i \in 1 .. n : f[i] = e[i]
  OBVIOUS
<1>2. \A s : StatusIs(e, n, s) => StatusIs(f, n, s)
  BY <1>1 DEF StatusIs, LatestLeadsTo
<1>3. \A types : HasType(f, n, types) <=> HasType(e, n, types)
  BY <1>1 DEF HasType
<1>4. ApprovalAt(f, n) <=> ApprovalAt(e, n)
  BY <1>1 DEF ApprovalAt
<1>5. \A x : IsAt(e, n, x) => IsAt(f, n, x)
  BY <1>2, <1>3 DEF IsAt
<1>6. \A x : Shows(e, n, x) => Shows(f, n, x)
  BY <1>2, <1>3 DEF Shows
<1> QED BY <1>2, <1>3, <1>4, <1>5, <1>6

-----------------------------------------------------------------------------
(* The inductive invariant. *)

Whys == {"event", "start", "control"}
Actions == {"pause", "resume", "cancel", "answer"}
Outcomes == {"accepted", "pending", "refused", "failed", "lost"}

Fetches == [kind : {"fetch"}, why : Whys]
Requests == Fetches \cup [kind : {"control"}, action : Actions, after : Nat]
Commands == [action : Actions, committed : BOOLEAN, lost : BOOLEAN]
Controls == [phase : {"none", "asked", "waiting", "fetching"}, action : Actions \cup {"none"}]

Replies == [kind : {"control"}, outcome : Outcomes]
Messages ==
  [kind : {"event"}, sequence : Nat, event : Drafts]
    \cup [kind : {"snapshot"}, why : Whys, record : Records, sequence : Nat]
    \cup [kind : {"refused"}, why : Whys]
    \cup Replies \cup {[kind |-> "started"]}

\* The statuses in which no approval is pending.
Unasking == {"planning", "executing", "completing", "verifying"}

\* What the log and the record say of each other.
LogInv(e, r) ==
  /\ LogFits(e)
  /\ r \in Records /\ IsAt(e, Len(e), r) /\ (r.approval <=> ApprovalAt(e, Len(e)))
  /\ r.status = "ended" <=> HasType(e, Len(e), Ends)
  /\ r.status \in Unasking => ~r.approval

StateTyped ==
  /\ safePoint \in {"none", "pause", "cancel"} /\ failing \in BOOLEAN
  /\ dropped \in 0 .. Len(events) /\ commands \in Seq(Commands) /\ control \in Controls
  /\ inbox \in Seq(Messages) /\ requests \in Seq(Requests)

\* A message carries an event of the log, or the task as it was at one.
Fits(e, m) ==
  /\ m.kind = "event" => m.sequence \in 1 .. Len(e) /\ m.event = e[m.sequence]
  /\ m.kind = "snapshot" =>
       /\ m.sequence \in 2 .. Len(e)
       /\ IsAt(e, m.sequence, m.record) /\ (m.record.approval <=> ApprovalAt(e, m.sequence))

InboxFits == \A k \in 1 .. Len(inbox) : Fits(events, inbox[k])

ViewFits ==
  HasView => /\ view.sequence \in 1 .. Len(events) /\ view.status \in Statuses
             /\ view.approval \in BOOLEAN /\ Shows(events, view.sequence, view)

\* Numbers never decrease from the window to the end of the channel.
Numbered(m) == m.kind \in {"event", "snapshot"}
NumbersGrow ==
  /\ \A j, k \in 1 .. Len(inbox) :
       j <= k /\ Numbered(inbox[j]) /\ Numbered(inbox[k])
         => inbox[j].sequence <= inbox[k].sequence
  /\ HasView => \A k \in 1 .. Len(inbox) :
       Numbered(inbox[k]) => view.sequence <= inbox[k].sequence

\* A resume is followed by its answer, with which the window fetches the task
\* or learns that something was lost, or its effects still run.
Running == commands # <<>> /\ Head(commands).committed
Refreshing(m) == m.kind = "control" /\ m.outcome \in {"accepted", "failed", "lost"}
ResumesAnswered ==
  \A k \in 1 .. Len(inbox) : inbox[k].kind = "event" /\ inbox[k].event.type = "resumed" =>
    Running \/ \E j \in 1 .. Len(inbox) : k < j /\ Refreshing(inbox[j])

\* What is on its way: the event or snapshot of that number, a snapshot, the
\* news of a loss, a question for a snapshot.
HasNumber(q, n) == \E k \in 1 .. Len(q) : Numbered(q[k]) /\ q[k].sequence = n
HasSnapshot(q) == \E k \in 1 .. Len(q) : q[k].kind = "snapshot"
Loses(m) == m.kind = "refused" \/ (m.kind = "control" /\ m.outcome \in {"failed", "lost"})
HasLoss(q) == \E k \in 1 .. Len(q) : Loses(q[k])
HasFetch(q) == \E k \in 1 .. Len(q) : q[k].kind = "fetch"
HasRefresh(q) == \E k \in 1 .. Len(q) : Refreshing(q[k])

\* Nothing shown or on its way is as new as what was lost.
LossIsNewer ==
  /\ HasView => view.sequence < dropped
  /\ \A k \in 1 .. Len(inbox) : Numbered(inbox[k]) => inbox[k].sequence < dropped

\* The newest event is shown or will be, unless one was lost.
NewestIsComing ==
  HasView \/ HasSnapshot(inbox) =>
    \/ HasView /\ view.sequence = Len(events)
    \/ HasNumber(inbox, Len(events)) \/ HasLoss(inbox) \/ HasFetch(requests)
    \/ LossIsNewer

\* What is shown is exact, or will be corrected.
ViewIsCorrected ==
  HasView =>
    \/ Exact(events, view)
    \/ HasFetch(requests) \/ HasSnapshot(inbox) \/ HasLoss(inbox) \/ HasRefresh(inbox)
    \/ Running \/ dropped # 0

ViewInv ==
  /\ LogInv(events, record) /\ StateTyped /\ InboxFits /\ ViewFits /\ NumbersGrow
  /\ ResumesAnswered /\ NewestIsComing /\ ViewIsCorrected

-----------------------------------------------------------------------------
(* Channels, element by element. *)

LEMMA TailElements ==
  ASSUME NEW S, NEW q \in Seq(S), q # <<>>
  PROVE  /\ Tail(q) \in Seq(S) /\ Head(q) \in S /\ Head(q) = q[1] /\ 1 \in 1 .. Len(q)
         /\ \A k \in 1 .. Len(Tail(q)) : k + 1 \in 1 .. Len(q) /\ Tail(q)[k] = q[k + 1]
         /\ \A k \in 1 .. Len(q) :
              k = 1 \/ (k - 1 \in 1 .. Len(Tail(q)) /\ Tail(q)[k - 1] = q[k])
<1>1. Tail(q) \in Seq(S) /\ Len(Tail(q)) = Len(q) - 1 /\ Head(q) \in S /\ Head(q) = q[1]
  OBVIOUS
<1>2. Len(q) \in Nat /\ Len(q) >= 1
  OBVIOUS
<1>3. \A k \in 1 .. Len(Tail(q)) : Tail(q)[k] = q[k + 1]
  OBVIOUS
<1>4. \A k \in 1 .. Len(q) : k = 1 \/ k - 1 \in 1 .. Len(Tail(q))
  BY <1>1, <1>2
<1>5. \A k \in 2 .. Len(q) : Tail(q)[k - 1] = q[k]
  BY <1>1, <1>2, <1>3
<1> QED BY <1>1, <1>2, <1>3, <1>4, <1>5

LEMMA AppendElements ==
  ASSUME NEW S, NEW q \in Seq(S), NEW m \in S
  PROVE  /\ Append(q, m) \in Seq(S) /\ Len(q) \in Nat
         /\ Len(Append(q, m)) = Len(q) + 1
         /\ \A k \in 1 .. Len(q) : Append(q, m)[k] = q[k]
         /\ Append(q, m)[Len(q) + 1] = m
OBVIOUS

LEMMA JoinElements ==
  ASSUME NEW S, NEW a \in Seq(S), NEW b \in Seq(S)
  PROVE  /\ a \o b \in Seq(S) /\ Len(a \o b) = Len(a) + Len(b)
         /\ Len(a) \in Nat /\ Len(b) \in Nat
         /\ \A i \in 1 .. Len(a) : (a \o b)[i] = a[i]
         /\ \A i \in 1 .. Len(b) : (a \o b)[Len(a) + i] = b[i]
OBVIOUS

LEMMA JoinedDrafts ==
  ASSUME NEW a \in Seq(Drafts), NEW b \in Seq(Drafts)
  PROVE  /\ a \o b \in Seq(Drafts) /\ Len(a \o b) = Len(a) + Len(b)
         /\ \A i \in 1 .. Len(a) : (a \o b)[i] = a[i]
         /\ \A i \in 1 .. Len(b) : (a \o b)[Len(a) + i] = b[i]
BY JoinElements

LEMMA RequestsGrow ==
  ASSUME NEW q \in Seq(Requests), NEW why \in Whys
  PROVE  LET r == Append(q, Fetch(why))
         IN  r \in Seq(Requests) /\ HasFetch(r)
<1>1. Fetch(why) \in Requests /\ Fetch(why).kind = "fetch"
  BY DEF Fetch, Requests, Fetches
<1> QED BY <1>1, AppendElements DEF HasFetch

LEMMA RequestTaken ==
  ASSUME requests \in Seq(Requests), requests # <<>>, Head(requests).kind # "fetch"
  PROVE  HasFetch(requests) => HasFetch(Tail(requests))
<1>1. /\ Head(requests) = requests[1]
      /\ \A k \in 1 .. Len(requests) :
           k = 1 \/ (k - 1 \in 1 .. Len(Tail(requests)) /\ Tail(requests)[k - 1] = requests[k])
  BY TailElements
<1>2. ASSUME NEW k \in 1 .. Len(requests), requests[k].kind = "fetch"
      PROVE  HasFetch(Tail(requests))
  <2>1. k - 1 \in 1 .. Len(Tail(requests)) /\ Tail(requests)[k - 1] = requests[k]
    BY <1>1, <1>2
  <2> QED BY <1>2, <2>1 DEF HasFetch
<1> QED BY <1>2 DEF HasFetch

LEMMA TailHas ==
  ASSUME NEW q \in Seq(Messages), q # <<>>
  PROVE  /\ \A n : HasNumber(q, n) =>
              HasNumber(Tail(q), n) \/ (Numbered(Head(q)) /\ Head(q).sequence = n)
         /\ HasSnapshot(q) => HasSnapshot(Tail(q)) \/ Head(q).kind = "snapshot"
         /\ HasSnapshot(Tail(q)) => HasSnapshot(q)
         /\ HasLoss(q) => HasLoss(Tail(q)) \/ Loses(Head(q))
         /\ HasRefresh(q) => HasRefresh(Tail(q)) \/ Refreshing(Head(q))
<1>1. /\ Head(q) = q[1]
      /\ \A k \in 1 .. Len(Tail(q)) : k + 1 \in 1 .. Len(q) /\ Tail(q)[k] = q[k + 1]
      /\ \A k \in 1 .. Len(q) :
           k = 1 \/ (k - 1 \in 1 .. Len(Tail(q)) /\ Tail(q)[k - 1] = q[k])
  BY TailElements
<1>2. \A n : HasNumber(q, n) =>
        HasNumber(Tail(q), n) \/ (Numbered(Head(q)) /\ Head(q).sequence = n)
  BY <1>1, Zenon DEF HasNumber
<1>3. /\ HasSnapshot(q) => HasSnapshot(Tail(q)) \/ Head(q).kind = "snapshot"
      /\ HasSnapshot(Tail(q)) => HasSnapshot(q)
  BY <1>1, Zenon DEF HasSnapshot
<1>4. HasLoss(q) => HasLoss(Tail(q)) \/ Loses(Head(q))
  BY <1>1, Zenon DEF HasLoss
<1>5. HasRefresh(q) => HasRefresh(Tail(q)) \/ Refreshing(Head(q))
  BY <1>1, Zenon DEF HasRefresh
<1> QED BY <1>2, <1>3, <1>4, <1>5

-----------------------------------------------------------------------------
(* What the task commits. *)

Kinds == EventTypes \ {"created", "state_changed"}

LEMMA ChangeIsDrafts ==
  ASSUME NEW s \in Statuses, NEW type \in Kinds
  PROVE  /\ Change(s, type) \in Seq(Drafts) /\ Len(Change(s, type)) = 2
         /\ Change(s, type)[1] = Event("state_changed", s)
         /\ Change(s, type)[2] = Event(type, "none")
<1>1. Event("state_changed", s) \in Drafts /\ Event(type, "none") \in Drafts
  BY DEF Event, Drafts, EventTypes, Kinds
<1> QED BY <1>1 DEF Change

LEMMA ChangeLogged ==
  ASSUME NEW e, NEW r, LogInv(e, r), r.status # "ended",
         NEW s \in Statuses, NEW type \in Kinds,
         type \in {"paused", "resumed"} => s \in PutsIn(type),
         type \in Ends <=> s = "ended",
         NEW q \in Records, q.status = s, q.result <=> type = "final",
         type = "approval.requested" => q.approval,
         type \in {"approval.resolved", "resumed"} => ~q.approval,
         type \notin {"approval.requested", "approval.resolved", "resumed"} =>
           q.approval = r.approval,
         s \in Unasking => ~q.approval
  PROVE  LogInv(e \o Change(s, type), q)
<1> DEFINE f == e \o Change(s, type)
           n == Len(e)
<1>1. /\ e \in Seq(Drafts) /\ n \in Nat /\ n >= 2 /\ f \in Seq(Drafts) /\ Len(f) = n + 2
      /\ \A i \in 1 .. n : f[i] = e[i]
      /\ f[n + 1] = Event("state_changed", s) /\ f[n + 2] = Event(type, "none")
  <2>1. e \in Seq(Drafts) /\ n >= 2
    BY DEF LogInv, LogFits
  <2>2. /\ Change(s, type) \in Seq(Drafts) /\ Len(Change(s, type)) = 2
        /\ Change(s, type)[1] = Event("state_changed", s)
        /\ Change(s, type)[2] = Event(type, "none")
    BY ChangeIsDrafts
  <2>3. 1 \in 1 .. Len(Change(s, type)) /\ 2 \in 1 .. Len(Change(s, type))
    BY <2>2
  <2>4. /\ f \in Seq(Drafts) /\ Len(f) = n + Len(Change(s, type)) /\ n \in Nat
        /\ \A i \in 1 .. n : f[i] = e[i]
        /\ \A i \in 1 .. Len(Change(s, type)) : f[n + i] = Change(s, type)[i]
    <3> DEFINE d == Change(s, type)
    <3>1. d \in Seq(Drafts) /\ e \in Seq(Drafts)
      BY <2>1, <2>2
    <3> HIDE DEF d
    <3>2. /\ e \o d \in Seq(Drafts) /\ Len(e \o d) = Len(e) + Len(d) /\ Len(e) \in Nat
          /\ \A i \in 1 .. Len(e) : (e \o d)[i] = e[i]
          /\ \A i \in 1 .. Len(d) : (e \o d)[Len(e) + i] = d[i]
      BY <3>1, JoinElements
    <3> QED BY <3>2 DEF d
  <2> HIDE DEF f, n
  <2>5. f[n + 1] = Change(s, type)[1] /\ f[n + 2] = Change(s, type)[2]
    BY <2>3, <2>4
  <2>6. n >= 2
    BY <2>1 DEF n
  <2> QED BY <2>1, <2>2, <2>4, <2>5, <2>6
<1> HIDE DEF f, n
<1>2. /\ f[n + 1].type = "state_changed" /\ f[n + 1].to = s
      /\ f[n + 2].type = type /\ type \in EventTypes \ {"state_changed"}
  BY <1>1 DEF Event, Kinds
<1>3. LogFits(f)
  <2> SUFFICES ASSUME NEW i \in 1 .. (n + 2) PROVE EventFits(f, i)
    BY <1>1 DEF LogFits
  <2>1. CASE i \in 1 .. n
    <3>1. EventFits(e, i)
      BY <2>1 DEF LogInv, LogFits, n
    <3>2. i > 1 => i - 1 \in 1 .. n
      BY <1>1, <2>1
    <3> QED BY <1>1, <2>1, <3>1, <3>2 DEF EventFits
  <2>2. CASE i = n + 1
    BY <1>1, <1>2, <2>2 DEF EventFits
  <2>3. CASE i = n + 2
    <3>1. i > 1 /\ i - 1 = n + 1
      BY <1>1, <2>3
    <3> QED BY <1>1, <1>2, <2>3, <3>1 DEF EventFits
  <2> QED BY <1>1, <2>1, <2>2, <2>3
<1>4. /\ r \in Records /\ IsAt(e, n, r) /\ (r.approval <=> ApprovalAt(e, n))
      /\ ~HasType(e, n, Ends)
  BY DEF LogInv, n
<1>5. /\ IsAt(f, n, r) /\ (ApprovalAt(f, n) <=> ApprovalAt(e, n))
      /\ ~HasType(f, n, Ends) /\ ~HasType(f, n, Finals)
  <2>1. n \in Nat /\ n <= Len(e) /\ Len(e) <= Len(f) /\ \A i \in 1 .. Len(e) : f[i] = e[i]
    BY <1>1 DEF n
  <2>2. /\ IsAt(f, n, r) /\ (ApprovalAt(f, n) <=> ApprovalAt(e, n))
        /\ HasType(f, n, Ends) <=> HasType(e, n, Ends)
    BY <1>1, <1>4, <2>1, LongerLog
  <2>3. HasType(f, n, Finals) => HasType(f, n, Ends)
    BY DEF HasType, Finals, Ends
  <2> QED BY <1>4, <2>2, <2>3
<1>6. n + 1 <= Len(f) /\ (n + 1) + 1 <= Len(f) /\ (n + 1) + 1 = n + 2 /\ n + 1 \in Nat
  BY <1>1
<1>7. StatusIs(f, n + 2, s)
  <2>1. StatusIs(f, n, r.status)
    BY <1>5 DEF IsAt
  <2>2. StatusIs(f, n + 1, s)
    BY <1>1, <1>2, <1>6, <2>1, NextStatus
  <2>3. f[(n + 1) + 1].type # "state_changed"
    BY <1>2, <1>6
  <2>4. StatusIs(f, (n + 1) + 1, s)
    BY <1>1, <1>6, <2>2, <2>3, NextStatus
  <2> QED BY <1>6, <2>4
<1>8. /\ HasType(f, n + 2, Ends) <=> s = "ended"
      /\ HasType(f, n + 2, Finals) <=> type = "final"
  <2> SUFFICES ASSUME NEW types \in {Ends, Finals}
               PROVE  HasType(f, n + 2, types) <=> type \in types
    BY DEF Finals
  <2>1. ~HasType(f, n, types)
    BY <1>5
  <2>2. HasType(f, n + 1, types) <=> HasType(f, n, types) \/ f[n + 1].type \in types
    BY <1>1, <1>6, NextType
  <2>3. HasType(f, (n + 1) + 1, types)
          <=> HasType(f, n + 1, types) \/ f[(n + 1) + 1].type \in types
    BY <1>1, <1>6, NextType
  <2>4. f[n + 1].type \notin types
    BY <1>2 DEF Ends, Finals
  <2> QED BY <1>2, <1>6, <2>1, <2>2, <2>3, <2>4
<1>9. q.approval <=> ApprovalAt(f, n + 2)
  <2>1. ApprovalAt(f, n + 1) <=> ApprovalAt(f, n)
    BY <1>1, <1>2, <1>6, NextApproval
  <2>2. /\ type = "approval.requested" => ApprovalAt(f, n + 2)
        /\ type \in {"approval.resolved", "resumed"} => ~ApprovalAt(f, n + 2)
        /\ type \notin {"approval.requested", "approval.resolved", "resumed"} =>
             (ApprovalAt(f, n + 2) <=> ApprovalAt(f, n + 1))
    <3>1. f[(n + 1) + 1].type = type
      BY <1>2, <1>6
    <3>2. /\ f[(n + 1) + 1].type = "approval.requested" => ApprovalAt(f, (n + 1) + 1)
          /\ f[(n + 1) + 1].type \in {"approval.resolved", "resumed"} =>
               ~ApprovalAt(f, (n + 1) + 1)
          /\ f[(n + 1) + 1].type \notin {"approval.requested", "approval.resolved", "resumed"}
               => (ApprovalAt(f, (n + 1) + 1) <=> ApprovalAt(f, n + 1))
      BY <1>1, <1>6, NextApproval
    <3> QED BY <1>6, <3>1, <3>2
  <2> QED BY <1>4, <1>5, <2>1, <2>2
<1>10. q.result \in BOOLEAN
  BY DEF Records
<1> QED
  <2>1. Len(f) = n + 2
    BY <1>1
  <2>2. IsAt(f, n + 2, q)
    BY <1>7, <1>8, <1>10 DEF IsAt
  <2>3. LogInv(f, q)
    BY <1>3, <1>8, <1>9, <2>1, <2>2 DEF LogInv
  <2> QED BY <2>3 DEF f

\* An event that changes nothing the log is read for.
LEMMA OtherLogged ==
  ASSUME NEW e, NEW r, LogInv(e, r),
         NEW q \in Records, q.status = r.status, q.result = r.result, q.approval = r.approval
  PROVE  LogInv(e \o <<Event("other", "none")>>, q)
<1> DEFINE d == <<Event("other", "none")>>
           f == e \o d
           n == Len(e)
<1>1. /\ e \in Seq(Drafts) /\ n \in Nat /\ n >= 2 /\ f \in Seq(Drafts) /\ Len(f) = n + 1
      /\ \A i \in 1 .. n : f[i] = e[i]
      /\ f[n + 1] = Event("other", "none")
  <2>1. e \in Seq(Drafts) /\ n >= 2
    BY DEF LogInv, LogFits
  <2>2. Event("other", "none") \in Drafts
    BY DEF Event, Drafts, EventTypes
  <2>3. d \in Seq(Drafts) /\ Len(d) = 1 /\ d[1] = Event("other", "none") /\ 1 \in 1 .. Len(d)
    BY <2>2
  <2> QED BY <2>1, <2>3, JoinElements
<1> HIDE DEF f, n, d
<1>2. f[n + 1].type = "other"
  BY <1>1 DEF Event
<1>3. LogFits(f)
  <2> SUFFICES ASSUME NEW i \in 1 .. (n + 1) PROVE EventFits(f, i)
    BY <1>1 DEF LogFits
  <2>1. CASE i \in 1 .. n
    <3>1. EventFits(e, i)
      BY <2>1 DEF LogInv, LogFits, n
    <3>2. i > 1 => i - 1 \in 1 .. n
      BY <1>1, <2>1
    <3> QED BY <1>1, <2>1, <3>1, <3>2 DEF EventFits
  <2>2. CASE i = n + 1
    BY <1>1, <1>2, <2>2 DEF EventFits
  <2> QED BY <1>1, <2>1, <2>2
<1>4. /\ r \in Records /\ IsAt(e, n, r) /\ (r.approval <=> ApprovalAt(e, n))
      /\ r.status = "ended" <=> HasType(e, n, Ends)
      /\ r.status \in Unasking => ~r.approval
  BY DEF LogInv, n
<1>5. /\ IsAt(f, n, r) /\ (ApprovalAt(f, n) <=> ApprovalAt(e, n))
      /\ HasType(f, n, Ends) <=> HasType(e, n, Ends)
  <2>1. n \in Nat /\ n <= Len(e) /\ Len(e) <= Len(f) /\ \A i \in 1 .. Len(e) : f[i] = e[i]
    BY <1>1 DEF n
  <2> QED BY <1>1, <1>4, <2>1, LongerLog
<1>6. n + 1 <= Len(f)
  BY <1>1
<1>7. StatusIs(f, n + 1, r.status)
  BY <1>1, <1>2, <1>5, <1>6, NextStatus DEF IsAt
<1>8. /\ HasType(f, n + 1, Ends) <=> HasType(f, n, Ends)
      /\ HasType(f, n + 1, Finals) <=> HasType(f, n, Finals)
  <2>1. f[n + 1].type \notin Ends /\ f[n + 1].type \notin Finals
    BY <1>2 DEF Ends, Finals
  <2> QED BY <1>1, <1>6, <2>1, NextType
<1>9. ApprovalAt(f, n + 1) <=> ApprovalAt(f, n)
  BY <1>1, <1>2, <1>6, NextApproval
<1> QED
  <2>1. IsAt(f, n + 1, q)
    BY <1>5, <1>7, <1>8 DEF IsAt
  <2>2. q.status = "ended" <=> HasType(f, n + 1, Ends)
    BY <1>4, <1>5, <1>8
  <2>3. q.approval <=> ApprovalAt(f, n + 1)
    BY <1>4, <1>5, <1>9
  <2>4. LogInv(f, q)
    BY <1>1, <1>3, <1>4, <2>1, <2>2, <2>3 DEF LogInv
  <2> QED BY <2>4 DEF f, d

\* A commit stamps the record with the number of events before it.
LEMMA StampedRecord ==
  ASSUME NEW next \in Records, NEW d, Commit(next, d), Len(events) \in Nat
  PROVE  /\ record' \in Records /\ record'.status = next.status
         /\ record'.approval = next.approval /\ record'.result = next.result
<1>1. record' = [next EXCEPT !.since = Len(events)]
  BY DEF Commit
<1> QED BY <1>1 DEF Records

LEMMA CommittedChange ==
  ASSUME LogInv(events, record), record.status # "ended",
         NEW s \in Statuses, NEW type \in Kinds,
         type \in {"paused", "resumed"} => s \in PutsIn(type),
         type \in Ends <=> s = "ended",
         NEW next \in Records, next.status = s, next.result <=> type = "final",
         type = "approval.requested" => next.approval,
         type \in {"approval.resolved", "resumed"} => ~next.approval,
         type \notin {"approval.requested", "approval.resolved", "resumed"} =>
           next.approval = record.approval,
         s \in Unasking => ~next.approval,
         Commit(next, Change(s, type))
  PROVE  events' = events \o Change(s, type) /\ LogInv(events', record')
<1>1. events' = events \o Change(s, type)
  BY DEF Commit
<1>2. Len(events) \in Nat
  BY DEF LogInv, LogFits
<1>3. /\ record' \in Records /\ record'.status = next.status
      /\ record'.approval = next.approval /\ record'.result = next.result
  BY <1>2, StampedRecord
<1>4. LogInv(events \o Change(s, type), record')
  BY <1>3, ChangeLogged
<1> QED BY <1>1, <1>4

\* A task that is not over has no result, and no approval in most statuses.
LEMMA RunningTask ==
  ASSUME LogInv(events, record), record.status # "ended"
  PROVE  record.result = FALSE /\ (record.status \in Unasking => record.approval = FALSE)
<1>1. ~HasType(events, Len(events), Ends) /\ record \in Records
  BY DEF LogInv
<1>2. ~HasType(events, Len(events), Finals)
  BY <1>1 DEF HasType, Finals, Ends
<1>3. record.result <=> HasType(events, Len(events), Finals)
  BY DEF LogInv, IsAt
<1> QED BY <1>1, <1>2, <1>3 DEF LogInv, Records

\* Of the changes only a resume brings the event of one.
LEMMA NoResume ==
  ASSUME NEW s \in Statuses, NEW type \in Kinds \ {"resumed"}
  PROVE  \A i \in 1 .. Len(Change(s, type)) : Change(s, type)[i].type # "resumed"
<1>1. /\ Len(Change(s, type)) = 2
      /\ Change(s, type)[1] = Event("state_changed", s)
      /\ Change(s, type)[2] = Event(type, "none")
  BY ChangeIsDrafts
<1>2. Change(s, type)[1].type = "state_changed" /\ Change(s, type)[2].type = type
  BY <1>1 DEF Event
<1>3. \A i \in 1 .. 2 : i = 1 \/ i = 2
  OBVIOUS
<1> QED BY <1>1, <1>2, <1>3

-----------------------------------------------------------------------------
(* What the main process sends. *)

Numbering(i, draft) == [kind |-> "event", sequence |-> Len(events) + i, event |-> draft]

LEMMA PublishedElements ==
  ASSUME NEW sent \in Seq(Drafts), Len(events) \in Nat
  PROVE  /\ Published(sent) \in Seq(Messages) /\ Len(Published(sent)) = Len(sent)
         /\ \A i \in 1 .. Len(sent) : Published(sent)[i] = Numbering(i, sent[i])
<1>1. \A i \in 1 .. Len(sent) : Numbering(i, sent[i]) \in Messages
  BY DEF Numbering, Messages
<1>2. Published(sent) = [i \in 1 .. Len(sent) |-> Numbering(i, sent[i])]
  BY DEF Published, Numbering
<1>3. [i \in 1 .. Len(sent) |-> Numbering(i, sent[i])] \in Seq(Messages)
  BY <1>1
<1> QED BY <1>2, <1>3

\* A commit appends d to the log, sends the events of `sent`, and answers with
\* tail; a command whose effects run is answered when they no longer do.
InboxGains(sent, tail) ==
  /\ inbox' \in Seq(Messages) /\ Len(inbox') = Len(inbox) + Len(sent) + Len(tail)
  /\ \A k \in 1 .. Len(inbox) : inbox'[k] = inbox[k]
  /\ \A i \in 1 .. Len(sent) : inbox'[Len(inbox) + i] = Numbering(i, sent[i])
  /\ \A i \in 1 .. Len(tail) : inbox'[Len(inbox) + Len(sent) + i] = tail[i]

Sends(d, sent, tail) ==
  /\ d \in Seq(Drafts) /\ sent \in Seq(Drafts) /\ tail \in Seq(Replies)
  /\ Len(sent) <= Len(d) /\ \A i \in 1 .. Len(sent) : sent[i] = d[i]
  /\ events' = events \o d /\ LogInv(events', record')
  /\ InboxGains(sent, tail)
  /\ view' = view /\ control' = control
  /\ requests' \in Seq(Requests) /\ (HasFetch(requests) => HasFetch(requests'))
  /\ safePoint' \in {"none", "pause", "cancel"} /\ failing' \in BOOLEAN
  /\ commands' \in Seq(Commands)
  /\ \/ sent = d /\ dropped' = dropped
     \/ /\ dropped' = Len(events')
        /\ Len(sent) < Len(d) \/ \E k \in 1 .. Len(tail) : Loses(tail[k])
  /\ Running => Running' \/ \E k \in 1 .. Len(tail) : Refreshing(tail[k])
  /\ (\E i \in 1 .. Len(sent) : sent[i].type = "resumed") => Running'

LEMMA GainsJoined ==
  ASSUME NEW sent \in Seq(Drafts), NEW tail \in Seq(Replies), inbox \in Seq(Messages),
         Len(events) \in Nat,
         \/ inbox' = (inbox \o Published(sent)) \o tail
         \/ tail = <<>> /\ inbox' = inbox \o Published(sent)
         \/ sent = <<>> /\ inbox' = inbox \o tail
         \/ sent = <<>> /\ tail = <<>> /\ inbox' = inbox
  PROVE  InboxGains(sent, tail)
<1>1. PICK p \in Seq(Messages) :
        p = Published(sent) /\ Len(p) = Len(sent)
        /\ \A i \in 1 .. Len(sent) : p[i] = Numbering(i, sent[i])
  BY PublishedElements
<1>2. PICK q \in Seq(Messages) : q = inbox
  OBVIOUS
<1>3. PICK b \in Seq(Messages) : b = tail
  BY DEF Messages
<1>4. (sent = <<>> => Len(p) = 0) /\ (tail = <<>> => Len(b) = 0)
  BY <1>1, <1>3
<1>5. Len(p) \in Nat /\ Len(q) \in Nat /\ Len(b) \in Nat
  OBVIOUS
<1>6. CASE inbox' = (q \o p) \o b
  <2>1. PICK r \in Seq(Messages) :
          /\ r = q \o p /\ Len(r) = Len(q) + Len(p)
          /\ \A k \in 1 .. Len(q) : r[k] = q[k]
          /\ \A i \in 1 .. Len(p) : r[Len(q) + i] = p[i]
    <3>1. /\ q \o p \in Seq(Messages) /\ Len(q \o p) = Len(q) + Len(p)
          /\ \A k \in 1 .. Len(q) : (q \o p)[k] = q[k]
          /\ \A i \in 1 .. Len(p) : (q \o p)[Len(q) + i] = p[i]
      BY JoinElements
    <3> QED BY <3>1
  <2>2. /\ r \o b \in Seq(Messages) /\ Len(r \o b) = Len(r) + Len(b)
        /\ \A k \in 1 .. Len(r) : (r \o b)[k] = r[k]
        /\ \A i \in 1 .. Len(b) : (r \o b)[Len(r) + i] = b[i]
    BY JoinElements
  <2>3. /\ \A k \in 1 .. Len(q) : k \in 1 .. Len(r)
        /\ \A i \in 1 .. Len(p) : Len(q) + i \in 1 .. Len(r)
    BY <1>5, <2>1
  <2>4. /\ Len(r \o b) = Len(q) + Len(p) + Len(b)
        /\ \A k \in 1 .. Len(q) : (r \o b)[k] = q[k]
        /\ \A i \in 1 .. Len(p) : (r \o b)[Len(q) + i] = p[i]
        /\ \A i \in 1 .. Len(b) : (r \o b)[Len(q) + Len(p) + i] = b[i]
    BY <1>5, <2>1, <2>2, <2>3
  <2>5. inbox' = r \o b
    BY <1>6, <2>1
  <2> QED BY <1>1, <1>2, <1>3, <2>2, <2>4, <2>5 DEF InboxGains
<1>7. CASE tail = <<>> /\ inbox' = q \o p
  <2>1. /\ q \o p \in Seq(Messages) /\ Len(q \o p) = Len(q) + Len(p)
        /\ \A k \in 1 .. Len(q) : (q \o p)[k] = q[k]
        /\ \A i \in 1 .. Len(p) : (q \o p)[Len(q) + i] = p[i]
    BY JoinElements
  <2>2. Len(q) + Len(p) = Len(q) + Len(p) + Len(b) /\ 1 .. Len(b) = {}
    BY <1>4, <1>5, <1>7
  <2> QED BY <1>1, <1>2, <1>3, <1>7, <2>1, <2>2 DEF InboxGains
<1>8. CASE sent = <<>> /\ inbox' = q \o b
  <2>1. /\ q \o b \in Seq(Messages) /\ Len(q \o b) = Len(q) + Len(b)
        /\ \A k \in 1 .. Len(q) : (q \o b)[k] = q[k]
        /\ \A i \in 1 .. Len(b) : (q \o b)[Len(q) + i] = b[i]
    BY JoinElements
  <2>2. Len(q) + Len(p) = Len(q) /\ 1 .. Len(p) = {}
    BY <1>4, <1>5, <1>8
  <2> QED BY <1>1, <1>2, <1>3, <1>8, <2>1, <2>2 DEF InboxGains
<1>9. CASE sent = <<>> /\ tail = <<>> /\ inbox' = q
  <2>1. Len(q) = Len(q) + Len(p) + Len(b) /\ 1 .. Len(p) = {} /\ 1 .. Len(b) = {}
    BY <1>4, <1>5, <1>9
  <2> QED BY <1>1, <1>2, <1>3, <1>9, <2>1 DEF InboxGains
<1> QED BY <1>1, <1>2, <1>3, <1>6, <1>7, <1>8, <1>9

\* The positions of the longer channel.
LEMMA GainedPlaces ==
  ASSUME inbox \in Seq(Messages), NEW sent \in Seq(Drafts), NEW tail \in Seq(Replies),
         InboxGains(sent, tail), NEW k \in 1 .. Len(inbox')
  PROVE  \/ k \in 1 .. Len(inbox) /\ inbox'[k] = inbox[k]
         \/ \E i \in 1 .. Len(sent) :
              k = Len(inbox) + i /\ inbox'[k] = Numbering(i, sent[i])
         \/ \E i \in 1 .. Len(tail) :
              k = Len(inbox) + Len(sent) + i /\ inbox'[k] = tail[i]
<1>1. Len(inbox) \in Nat /\ Len(sent) \in Nat /\ Len(tail) \in Nat
  OBVIOUS
<1>2. Len(inbox') = Len(inbox) + Len(sent) + Len(tail) /\ k \in 1 .. Len(inbox')
  BY DEF InboxGains
<1>3. CASE k <= Len(inbox)
  BY <1>1, <1>2, <1>3 DEF InboxGains
<1>4. CASE Len(inbox) < k /\ k <= Len(inbox) + Len(sent)
  <2>1. k - Len(inbox) \in 1 .. Len(sent) /\ k = Len(inbox) + (k - Len(inbox))
    BY <1>1, <1>2, <1>4
  <2> QED BY <2>1 DEF InboxGains
<1>5. CASE Len(inbox) + Len(sent) < k
  <2>1. /\ k - (Len(inbox) + Len(sent)) \in 1 .. Len(tail)
        /\ k = Len(inbox) + Len(sent) + (k - (Len(inbox) + Len(sent)))
    BY <1>1, <1>2, <1>5
  <2> QED BY <2>1 DEF InboxGains
<1> QED BY <1>1, <1>2, <1>3, <1>4, <1>5

-----------------------------------------------------------------------------
(* A step of the main process keeps the invariant. *)

LEMMA LogGrows ==
  ASSUME ViewInv, NEW d, NEW sent, NEW tail, Sends(d, sent, tail)
  PROVE  /\ events \in Seq(Drafts) /\ events' \in Seq(Drafts)
         /\ Len(events) \in Nat /\ Len(events) >= 2 /\ Len(d) \in Nat /\ Len(sent) \in Nat
         /\ Len(events') = Len(events) + Len(d)
         /\ \A i \in 1 .. Len(events) : events'[i] = events[i]
         /\ \A i \in 1 .. Len(sent) : /\ Len(events) + i \in 1 .. Len(events')
                                      /\ events'[Len(events) + i] = sent[i]
<1>1. events \in Seq(Drafts) /\ events' \in Seq(Drafts) /\ Len(events) >= 2
  BY DEF ViewInv, LogInv, LogFits, Sends
<1>2. d \in Seq(Drafts) /\ sent \in Seq(Drafts) /\ events' = events \o d
  BY DEF Sends
<1>3. /\ Len(events \o d) = Len(events) + Len(d)
      /\ \A i \in 1 .. Len(events) : (events \o d)[i] = events[i]
      /\ \A i \in 1 .. Len(d) : (events \o d)[Len(events) + i] = d[i]
  BY <1>1, <1>2, JoinElements
<1>4. Len(events) \in Nat /\ Len(d) \in Nat /\ Len(sent) \in Nat
  BY <1>1, <1>2
<1>5. Len(sent) <= Len(d) /\ \A i \in 1 .. Len(sent) : sent[i] = d[i]
  BY DEF Sends
<1>6. \A i \in 1 .. Len(sent) : i \in 1 .. Len(d) /\ Len(events) + i \in 1 .. (Len(events) + Len(d))
  BY <1>4, <1>5
<1> QED BY <1>1, <1>2, <1>3, <1>4, <1>5, <1>6

LEMMA FitsLater ==
  ASSUME ViewInv, NEW d, NEW sent, NEW tail, Sends(d, sent, tail)
  PROVE  /\ \A m \in Messages : Fits(events, m) => Fits(events', m)
         /\ \A n \in 1 .. Len(events) :
              /\ \A x : IsAt(events, n, x) => IsAt(events', n, x)
              /\ \A x : Shows(events, n, x) => Shows(events', n, x)
              /\ \A x : StatusIs(events, n, x) => StatusIs(events', n, x)
              /\ ApprovalAt(events', n) <=> ApprovalAt(events, n)
<1>1. /\ events \in Seq(Drafts) /\ events' \in Seq(Drafts)
      /\ Len(events) \in Nat /\ Len(d) \in Nat /\ Len(events') = Len(events) + Len(d)
      /\ \A i \in 1 .. Len(events) : events'[i] = events[i]
  BY LogGrows
<1>2. Len(events) <= Len(events')
  BY <1>1
<1>3. \A n \in 1 .. Len(events) :
        /\ \A x : IsAt(events, n, x) => IsAt(events', n, x)
        /\ \A x : Shows(events, n, x) => Shows(events', n, x)
        /\ \A x : StatusIs(events, n, x) => StatusIs(events', n, x)
        /\ ApprovalAt(events', n) <=> ApprovalAt(events, n)
  <2> SUFFICES ASSUME NEW n \in 1 .. Len(events)
               PROVE  /\ \A x : IsAt(events, n, x) => IsAt(events', n, x)
                      /\ \A x : Shows(events, n, x) => Shows(events', n, x)
                      /\ \A x : StatusIs(events, n, x) => StatusIs(events', n, x)
                      /\ ApprovalAt(events', n) <=> ApprovalAt(events, n)
    OBVIOUS
  <2>1. n \in Nat /\ n <= Len(events)
    BY <1>1
  <2> QED BY <1>1, <1>2, <2>1, LongerLog
<1>4. ASSUME NEW m \in Messages, Fits(events, m) PROVE Fits(events', m)
  <2>1. CASE m.kind = "event"
    <3>1. m.sequence \in 1 .. Len(events) /\ m.event = events[m.sequence]
      BY <1>4, <2>1 DEF Fits
    <3>2. m.sequence \in 1 .. Len(events')
      BY <1>1, <1>2, <3>1
    <3> QED BY <1>1, <2>1, <3>1, <3>2 DEF Fits
  <2>2. CASE m.kind = "snapshot"
    <3>1. /\ m.sequence \in 2 .. Len(events)
          /\ IsAt(events, m.sequence, m.record)
          /\ (m.record.approval <=> ApprovalAt(events, m.sequence))
      BY <1>4, <2>2 DEF Fits
    <3>2. m.sequence \in 1 .. Len(events) /\ m.sequence \in 2 .. Len(events')
      BY <1>1, <1>2, <3>1
    <3> QED BY <1>3, <2>2, <3>1, <3>2 DEF Fits
  <2> QED BY <2>1, <2>2 DEF Fits
<1> QED BY <1>3, <1>4

LEMMA SendsFits ==
  ASSUME ViewInv, NEW d, NEW sent, NEW tail, Sends(d, sent, tail)
  PROVE  InboxFits'
<1>1. sent \in Seq(Drafts) /\ tail \in Seq(Replies) /\ InboxGains(sent, tail)
  BY DEF Sends
<1>2. inbox \in Seq(Messages)
  BY DEF ViewInv, StateTyped
<1>3. ASSUME NEW k \in 1 .. Len(inbox') PROVE Fits(events', inbox'[k])
  <2>1. \/ k \in 1 .. Len(inbox) /\ inbox'[k] = inbox[k]
        \/ \E i \in 1 .. Len(sent) : inbox'[k] = Numbering(i, sent[i])
        \/ \E i \in 1 .. Len(tail) : inbox'[k] = tail[i]
    BY <1>1, <1>2, GainedPlaces
  <2>2. CASE k \in 1 .. Len(inbox) /\ inbox'[k] = inbox[k]
    <3>1. inbox[k] \in Messages
      BY <1>2, <2>2, ElementOfSeq
    <3>2. Fits(events, inbox[k])
      BY <2>2 DEF ViewInv, InboxFits
    <3> QED BY <2>2, <3>1, <3>2, FitsLater
  <2>3. CASE \E i \in 1 .. Len(sent) : inbox'[k] = Numbering(i, sent[i])
    <3>1. PICK i \in 1 .. Len(sent) : inbox'[k] = Numbering(i, sent[i])
      BY <2>3
    <3>2. Len(events) + i \in 1 .. Len(events') /\ events'[Len(events) + i] = sent[i]
      BY LogGrows
    <3> QED BY <3>1, <3>2 DEF Numbering, Fits
  <2>4. CASE \E i \in 1 .. Len(tail) : inbox'[k] = tail[i]
    <3>1. PICK i \in 1 .. Len(tail) : inbox'[k] = tail[i]
      BY <2>4
    <3>2. tail[i] \in Replies
      BY <1>1, <3>1, ElementOfSeq
    <3>3. inbox'[k].kind = "control"
      BY <3>1, <3>2 DEF Replies
    <3> QED BY <3>3 DEF Fits
  <2> QED BY <2>1, <2>2, <2>3, <2>4
<1> QED BY <1>3 DEF InboxFits

\* The number of a message that was there is at most Len(events), and that of
\* a new one is above it.
LEMMA NumbersOfPlaces ==
  ASSUME ViewInv, NEW d, NEW sent, NEW tail, Sends(d, sent, tail),
         NEW k \in 1 .. Len(inbox'), Numbered(inbox'[k])
  PROVE  \/ /\ k \in 1 .. Len(inbox) /\ inbox'[k] = inbox[k]
            /\ inbox[k].sequence \in 1 .. Len(events)
         \/ \E i \in 1 .. Len(sent) :
              k = Len(inbox) + i /\ inbox'[k].sequence = Len(events) + i
<1>1. sent \in Seq(Drafts) /\ tail \in Seq(Replies) /\ InboxGains(sent, tail)
  BY DEF Sends
<1>2. inbox \in Seq(Messages) /\ Len(events) \in Nat
  BY LogGrows DEF ViewInv, StateTyped
<1>3. \/ k \in 1 .. Len(inbox) /\ inbox'[k] = inbox[k]
      \/ \E i \in 1 .. Len(sent) : k = Len(inbox) + i /\ inbox'[k] = Numbering(i, sent[i])
      \/ \E i \in 1 .. Len(tail) : inbox'[k] = tail[i]
  BY <1>1, <1>2, GainedPlaces
<1>4. CASE k \in 1 .. Len(inbox) /\ inbox'[k] = inbox[k]
  <2>1. Fits(events, inbox[k]) /\ Numbered(inbox[k])
    BY <1>4 DEF ViewInv, InboxFits
  <2>2. inbox[k].sequence \in 1 .. Len(events)
    BY <1>2, <2>1 DEF Fits, Numbered
  <2> QED BY <1>4, <2>2
<1>5. CASE \E i \in 1 .. Len(sent) : k = Len(inbox) + i /\ inbox'[k] = Numbering(i, sent[i])
  BY <1>5 DEF Numbering
<1>6. CASE \E i \in 1 .. Len(tail) : inbox'[k] = tail[i]
  <2>1. PICK i \in 1 .. Len(tail) : inbox'[k] = tail[i]
    BY <1>6
  <2>2. tail[i] \in Replies
    BY <1>1, <2>1, ElementOfSeq
  <2> QED BY <2>1, <2>2 DEF Replies, Numbered
<1> QED BY <1>3, <1>4, <1>5, <1>6

LEMMA SendsNumbers ==
  ASSUME ViewInv, NEW d, NEW sent, NEW tail, Sends(d, sent, tail)
  PROVE  NumbersGrow'
<1>1. Len(events) \in Nat /\ Len(inbox) \in Nat /\ Len(sent) \in Nat /\ view' = view
  <2>1. inbox \in Seq(Messages)
    BY DEF ViewInv, StateTyped
  <2> QED BY <2>1, LogGrows DEF Sends
<1>2. ASSUME NEW j \in 1 .. Len(inbox'), NEW k \in 1 .. Len(inbox'), j <= k,
             Numbered(inbox'[j]), Numbered(inbox'[k])
      PROVE  inbox'[j].sequence <= inbox'[k].sequence
  <2>1. \/ /\ k \in 1 .. Len(inbox) /\ inbox'[k] = inbox[k]
           /\ inbox[k].sequence \in 1 .. Len(events)
        \/ \E i \in 1 .. Len(sent) :
             k = Len(inbox) + i /\ inbox'[k].sequence = Len(events) + i
    BY <1>2, NumbersOfPlaces
  <2>2. \/ /\ j \in 1 .. Len(inbox) /\ inbox'[j] = inbox[j]
           /\ inbox[j].sequence \in 1 .. Len(events)
        \/ \E i \in 1 .. Len(sent) :
             j = Len(inbox) + i /\ inbox'[j].sequence = Len(events) + i
    BY <1>2, NumbersOfPlaces
  <2>3. CASE k \in 1 .. Len(inbox) /\ inbox'[k] = inbox[k]
    <3>1. j \in 1 .. Len(inbox) /\ inbox'[j] = inbox[j]
      BY <1>1, <1>2, <2>2, <2>3
    <3> QED BY <1>2, <2>3, <3>1 DEF ViewInv, NumbersGrow
  <2>4. CASE \E i \in 1 .. Len(sent) :
               k = Len(inbox) + i /\ inbox'[k].sequence = Len(events) + i
    BY <1>1, <1>2, <2>2, <2>4
  <2> QED BY <2>1, <2>3, <2>4
<1>3. ASSUME HasView, NEW k \in 1 .. Len(inbox'), Numbered(inbox'[k])
      PROVE  view.sequence <= inbox'[k].sequence
  <2>1. \/ /\ k \in 1 .. Len(inbox) /\ inbox'[k] = inbox[k]
           /\ inbox[k].sequence \in 1 .. Len(events)
        \/ \E i \in 1 .. Len(sent) :
             k = Len(inbox) + i /\ inbox'[k].sequence = Len(events) + i
    BY <1>3, NumbersOfPlaces
  <2>2. CASE k \in 1 .. Len(inbox) /\ inbox'[k] = inbox[k]
    BY <1>3, <2>2 DEF ViewInv, NumbersGrow
  <2>3. CASE \E i \in 1 .. Len(sent) :
               k = Len(inbox) + i /\ inbox'[k].sequence = Len(events) + i
    <3>1. view.sequence \in 1 .. Len(events)
      BY <1>3 DEF ViewInv, ViewFits
    <3> QED BY <1>1, <2>3, <3>1
  <2> QED BY <2>1, <2>2, <2>3
<1> QED BY <1>1, <1>2, <1>3 DEF NumbersGrow, HasView

LEMMA SendsView ==
  ASSUME ViewInv, NEW d, NEW sent, NEW tail, Sends(d, sent, tail)
  PROVE  StateTyped' /\ ViewFits'
<1>1. /\ Len(events) \in Nat /\ Len(d) \in Nat /\ Len(events') = Len(events) + Len(d)
      /\ Len(events) >= 2
  BY LogGrows
<1>2. StateTyped'
  <2>1. dropped \in 0 .. Len(events)
    BY DEF ViewInv, StateTyped
  <2>2. dropped' = dropped \/ dropped' = Len(events')
    BY DEF Sends
  <2>3. dropped' \in 0 .. Len(events')
    BY <1>1, <2>1, <2>2
  <2>4. inbox' \in Seq(Messages)
    BY DEF Sends, InboxGains
  <2>5. control' \in Controls
    BY DEF ViewInv, StateTyped, Sends
  <2> QED BY <2>3, <2>4, <2>5 DEF StateTyped, Sends
<1>3. ViewFits'
  <2>1. view' = view
    BY DEF Sends
  <2>2. ASSUME HasView
        PROVE  /\ view.sequence \in 1 .. Len(events') /\ view.status \in Statuses
               /\ view.approval \in BOOLEAN /\ Shows(events', view.sequence, view)
    <3>1. /\ view.sequence \in 1 .. Len(events) /\ view.status \in Statuses
          /\ view.approval \in BOOLEAN /\ Shows(events, view.sequence, view)
      BY <2>2 DEF ViewInv, ViewFits
    <3>2. Shows(events', view.sequence, view)
      BY <3>1, FitsLater
    <3>3. 1 .. Len(events) \subseteq 1 .. Len(events')
      BY <1>1
    <3> QED BY <3>1, <3>2, <3>3
  <2> QED BY <2>1, <2>2 DEF ViewFits, HasView
<1> QED BY <1>2, <1>3

\* What was on its way still is.
LEMMA SendsKeep ==
  ASSUME ViewInv, NEW d, NEW sent, NEW tail, Sends(d, sent, tail)
  PROVE  /\ HasSnapshot(inbox') <=> HasSnapshot(inbox)
         /\ \A n : HasNumber(inbox, n) => HasNumber(inbox', n)
         /\ HasLoss(inbox) => HasLoss(inbox')
         /\ HasRefresh(inbox) => HasRefresh(inbox')
         /\ (\E k \in 1 .. Len(tail) : Loses(tail[k])) => HasLoss(inbox')
         /\ (\E k \in 1 .. Len(tail) : Refreshing(tail[k])) => HasRefresh(inbox')
<1>1. sent \in Seq(Drafts) /\ tail \in Seq(Replies) /\ InboxGains(sent, tail)
  BY DEF Sends
<1>2. inbox \in Seq(Messages) /\ Len(inbox) \in Nat /\ Len(sent) \in Nat /\ Len(tail) \in Nat
  BY <1>1 DEF ViewInv, StateTyped
<1>3. \A k \in 1 .. Len(inbox) : k \in 1 .. Len(inbox') /\ inbox'[k] = inbox[k]
  BY <1>1, <1>2 DEF InboxGains
<1>4. ASSUME NEW k \in 1 .. Len(tail)
      PROVE  /\ Len(inbox) + Len(sent) + k \in 1 .. Len(inbox')
             /\ inbox'[Len(inbox) + Len(sent) + k] = tail[k] /\ tail[k].kind = "control"
  <2>1. tail[k] \in Replies
    BY <1>1, ElementOfSeq
  <2>2. tail[k].kind = "control"
    BY <2>1 DEF Replies
  <2>3. Len(inbox') = Len(inbox) + Len(sent) + Len(tail)
    BY <1>1 DEF InboxGains
  <2>4. Len(inbox) + Len(sent) + k \in 1 .. Len(inbox')
    BY <1>2, <2>3
  <2> QED BY <1>1, <2>2, <2>4 DEF InboxGains
<1>5. HasSnapshot(inbox') <=> HasSnapshot(inbox)
  <2>1. ASSUME NEW k \in 1 .. Len(inbox'), inbox'[k].kind = "snapshot"
        PROVE  HasSnapshot(inbox)
    <3>1. \/ k \in 1 .. Len(inbox) /\ inbox'[k] = inbox[k]
          \/ \E i \in 1 .. Len(sent) : inbox'[k] = Numbering(i, sent[i])
          \/ \E i \in 1 .. Len(tail) : inbox'[k] = tail[i]
      BY <1>1, <1>2, GainedPlaces
    <3>2. ASSUME NEW i \in 1 .. Len(sent), inbox'[k] = Numbering(i, sent[i]) PROVE FALSE
      <4>1. inbox'[k].kind = "event"
        BY <3>2 DEF Numbering
      <4> QED BY <2>1, <4>1
    <3>3. ~ \E i \in 1 .. Len(tail) : inbox'[k] = tail[i]
      BY <1>4, <2>1
    <3> QED BY <2>1, <3>1, <3>2, <3>3 DEF HasSnapshot
  <2> QED BY <1>3, <2>1 DEF HasSnapshot
<1>6. \A n : HasNumber(inbox, n) => HasNumber(inbox', n)
  BY <1>3 DEF HasNumber
<1>7. HasLoss(inbox) => HasLoss(inbox')
  BY <1>3 DEF HasLoss
<1>8. HasRefresh(inbox) => HasRefresh(inbox')
  BY <1>3 DEF HasRefresh
<1>9. (\E k \in 1 .. Len(tail) : Loses(tail[k])) => HasLoss(inbox')
  BY <1>4 DEF HasLoss
<1>10. (\E k \in 1 .. Len(tail) : Refreshing(tail[k])) => HasRefresh(inbox')
  BY <1>4 DEF HasRefresh
<1> QED BY <1>5, <1>6, <1>7, <1>8, <1>9, <1>10

LEMMA SendsResumes ==
  ASSUME ViewInv, NEW d, NEW sent, NEW tail, Sends(d, sent, tail)
  PROVE  ResumesAnswered'
<1>1. sent \in Seq(Drafts) /\ tail \in Seq(Replies) /\ InboxGains(sent, tail)
  BY DEF Sends
<1>2. inbox \in Seq(Messages) /\ Len(inbox) \in Nat /\ Len(sent) \in Nat /\ Len(tail) \in Nat
  BY <1>1 DEF ViewInv, StateTyped
<1>3. Len(inbox') = Len(inbox) + Len(sent) + Len(tail)
  BY <1>1 DEF InboxGains
<1> SUFFICES ASSUME NEW k \in 1 .. Len(inbox'), inbox'[k].kind = "event",
                    inbox'[k].event.type = "resumed"
             PROVE  Running' \/ \E j \in 1 .. Len(inbox') : k < j /\ Refreshing(inbox'[j])
  BY DEF ResumesAnswered
<1>4. \/ k \in 1 .. Len(inbox) /\ inbox'[k] = inbox[k]
      \/ \E i \in 1 .. Len(sent) : k = Len(inbox) + i /\ inbox'[k] = Numbering(i, sent[i])
      \/ \E i \in 1 .. Len(tail) : inbox'[k] = tail[i]
  BY <1>1, <1>2, GainedPlaces
<1>5. CASE k \in 1 .. Len(inbox) /\ inbox'[k] = inbox[k]
  <2>1. Running \/ \E j \in 1 .. Len(inbox) : k < j /\ Refreshing(inbox[j])
    BY <1>5 DEF ViewInv, ResumesAnswered
  <2>2. ASSUME NEW j \in 1 .. Len(inbox), k < j, Refreshing(inbox[j])
        PROVE  \E i \in 1 .. Len(inbox') : k < i /\ Refreshing(inbox'[i])
    <3>1. j \in 1 .. Len(inbox') /\ inbox'[j] = inbox[j]
      BY <1>1, <1>2, <1>3, <2>2 DEF InboxGains
    <3> QED BY <2>2, <3>1
  <2>3. ASSUME NEW m \in 1 .. Len(tail), Refreshing(tail[m])
        PROVE  \E i \in 1 .. Len(inbox') : k < i /\ Refreshing(inbox'[i])
    <3>1. inbox'[Len(inbox) + Len(sent) + m] = tail[m]
      BY <1>1 DEF InboxGains
    <3>2. Len(inbox) + Len(sent) + m \in 1 .. Len(inbox') /\ k < Len(inbox) + Len(sent) + m
      BY <1>2, <1>3, <1>5
    <3> QED BY <2>3, <3>1, <3>2
  <2>4. Running => Running' \/ \E m \in 1 .. Len(tail) : Refreshing(tail[m])
    BY DEF Sends
  <2> QED BY <2>1, <2>2, <2>3, <2>4
<1>6. CASE \E i \in 1 .. Len(sent) : k = Len(inbox) + i /\ inbox'[k] = Numbering(i, sent[i])
  <2>1. PICK i \in 1 .. Len(sent) : inbox'[k] = Numbering(i, sent[i])
    BY <1>6
  <2>2. sent[i].type = "resumed"
    BY <2>1 DEF Numbering
  <2> QED BY <2>2 DEF Sends
<1>7. CASE \E i \in 1 .. Len(tail) : inbox'[k] = tail[i]
  <2>1. PICK i \in 1 .. Len(tail) : inbox'[k] = tail[i]
    BY <1>7
  <2>2. tail[i] \in Replies
    BY <1>1, <2>1, ElementOfSeq
  <2> QED BY <2>1, <2>2 DEF Replies
<1> QED BY <1>4, <1>5, <1>6, <1>7

LEMMA SendsNewest ==
  ASSUME ViewInv, NEW d, NEW sent, NEW tail, Sends(d, sent, tail)
  PROVE  NewestIsComing'
<1>1. /\ view' = view /\ sent \in Seq(Drafts) /\ InboxGains(sent, tail)
      /\ (HasFetch(requests) => HasFetch(requests'))
  BY DEF Sends
<1>2. /\ Len(events) \in Nat /\ Len(d) \in Nat /\ Len(sent) \in Nat
      /\ Len(events') = Len(events) + Len(d)
  BY LogGrows
<1>3. inbox \in Seq(Messages) /\ Len(inbox) \in Nat
  BY DEF ViewInv, StateTyped
<1>4. tail \in Seq(Replies) /\ Len(tail) \in Nat
  BY DEF Sends
<1> SUFFICES ASSUME HasView \/ HasSnapshot(inbox)
             PROVE  \/ HasView /\ view.sequence = Len(events')
                    \/ HasNumber(inbox', Len(events')) \/ HasLoss(inbox') \/ HasFetch(requests')
                    \/ LossIsNewer'
  BY <1>1, SendsKeep DEF NewestIsComing, HasView
<1>5. CASE sent = d /\ dropped' = dropped /\ Len(d) > 0
  <2>1. /\ Len(inbox) + Len(d) \in 1 .. Len(inbox') /\ Len(d) \in 1 .. Len(sent)
        /\ Len(inbox') = Len(inbox) + Len(sent) + Len(tail)
    BY <1>1, <1>2, <1>3, <1>4, <1>5 DEF InboxGains
  <2>2. inbox'[Len(inbox) + Len(d)] = Numbering(Len(d), sent[Len(d)])
    BY <1>1, <2>1 DEF InboxGains
  <2>3. HasNumber(inbox', Len(events'))
    BY <1>2, <2>1, <2>2 DEF HasNumber, Numbered, Numbering
  <2> QED BY <2>3
<1>6. CASE sent = d /\ dropped' = dropped /\ Len(d) = 0
  <2>1. Len(events') = Len(events) /\ Len(sent) = 0
    BY <1>2, <1>6
  <2>2. \/ HasView /\ view.sequence = Len(events)
        \/ HasNumber(inbox, Len(events)) \/ HasLoss(inbox) \/ HasFetch(requests)
        \/ LossIsNewer
    BY DEF ViewInv, NewestIsComing
  <2>3. ASSUME LossIsNewer PROVE LossIsNewer'
    <3>1. ASSUME NEW k \in 1 .. Len(inbox'), Numbered(inbox'[k])
          PROVE  inbox'[k].sequence < dropped
      <4>1. k \in 1 .. Len(inbox) /\ inbox'[k] = inbox[k]
        BY <2>1, <3>1, NumbersOfPlaces
      <4> QED BY <2>3, <3>1, <4>1 DEF LossIsNewer
    <3> QED BY <1>1, <1>6, <2>3, <3>1 DEF LossIsNewer, HasView
  <2> QED BY <1>1, <2>1, <2>2, <2>3, SendsKeep
<1>7. CASE Len(sent) < Len(d) /\ dropped' = Len(events')
  <2>1. HasView => view.sequence < dropped'
    BY <1>2, <1>7 DEF ViewInv, ViewFits
  <2>2. ASSUME NEW k \in 1 .. Len(inbox'), Numbered(inbox'[k])
        PROVE  inbox'[k].sequence < dropped'
    <3>1. \/ /\ inbox'[k] = inbox[k] /\ inbox[k].sequence \in 1 .. Len(events)
          \/ \E i \in 1 .. Len(sent) : inbox'[k].sequence = Len(events) + i
      BY <2>2, NumbersOfPlaces
    <3> QED BY <1>2, <1>7, <3>1
  <2> QED BY <1>1, <2>1, <2>2 DEF LossIsNewer, HasView
<1>8. CASE \E k \in 1 .. Len(tail) : Loses(tail[k])
  BY <1>8, SendsKeep
<1>9. \/ sent = d /\ dropped' = dropped
      \/ Len(sent) < Len(d) /\ dropped' = Len(events')
      \/ \E k \in 1 .. Len(tail) : Loses(tail[k])
  BY DEF Sends
<1> QED BY <1>2, <1>5, <1>6, <1>7, <1>8, <1>9

LEMMA SendsExact ==
  ASSUME ViewInv, NEW d, NEW sent, NEW tail, Sends(d, sent, tail)
  PROVE  ViewIsCorrected'
<1>1. view' = view /\ (HasFetch(requests) => HasFetch(requests'))
  BY DEF Sends
<1>2. Len(events) \in Nat /\ Len(d) \in Nat /\ Len(events') = Len(events) + Len(d)
      /\ Len(events) >= 2
  BY LogGrows
<1>3. dropped # 0 => dropped' # 0
  BY <1>2 DEF Sends
<1>4. Running => Running' \/ HasRefresh(inbox')
  BY SendsKeep DEF Sends
<1> SUFFICES ASSUME HasView
             PROVE  \/ Exact(events', view)
                    \/ HasFetch(requests') \/ HasSnapshot(inbox') \/ HasLoss(inbox')
                    \/ HasRefresh(inbox') \/ Running' \/ dropped' # 0
  BY <1>1 DEF ViewIsCorrected, HasView
<1>5. \/ Exact(events, view)
      \/ HasFetch(requests) \/ HasSnapshot(inbox) \/ HasLoss(inbox) \/ HasRefresh(inbox)
      \/ Running \/ dropped # 0
  BY DEF ViewInv, ViewIsCorrected
<1>6. view.sequence \in 1 .. Len(events)
  BY DEF ViewInv, ViewFits
<1>7. Exact(events, view) => Exact(events', view)
  BY <1>6, FitsLater DEF Exact
<1> QED BY <1>1, <1>3, <1>4, <1>5, <1>7, SendsKeep

LEMMA SendsInv ==
  ASSUME ViewInv, NEW d, NEW sent, NEW tail, Sends(d, sent, tail)
  PROVE  ViewInv'
<1>1. LogInv(events, record)'
  BY DEF Sends
<1>2. StateTyped' /\ ViewFits'
  BY SendsView
<1>3. InboxFits'
  BY SendsFits
<1>4. NumbersGrow'
  BY SendsNumbers
<1>5. ResumesAnswered'
  BY SendsResumes
<1>6. NewestIsComing'
  BY SendsNewest
<1>7. ViewIsCorrected'
  BY SendsExact
<1> QED BY <1>1, <1>2, <1>3, <1>4, <1>5, <1>6, <1>7 DEF ViewInv

-----------------------------------------------------------------------------
(* The actions of the main process. *)

LEMMA InitialLog ==
  ASSUME NEW owed \in BOOLEAN, NEW since \in Nat
  PROVE  LET e == <<Event("created", "none"), Event("state_changed", "planning")>>
             r == [status |-> "planning", since |-> since, approval |-> FALSE,
                   result |-> FALSE, owed |-> owed]
         IN  LogInv(e, r)
<1> DEFINE e == <<Event("created", "none"), Event("state_changed", "planning")>>
           r == [status |-> "planning", since |-> since, approval |-> FALSE,
                 result |-> FALSE, owed |-> owed]
<1>1. /\ e \in Seq(Drafts) /\ Len(e) = 2
      /\ e[1] = Event("created", "none") /\ e[2] = Event("state_changed", "planning")
  <2>1. Event("created", "none") \in Drafts /\ Event("state_changed", "planning") \in Drafts
    BY DEF Event, Drafts, EventTypes, Statuses
  <2> QED BY <2>1
<1> HIDE DEF e
<1>2. /\ e[1].type = "created" /\ e[2].type = "state_changed" /\ e[2].to = "planning"
      /\ \A i \in 1 .. 2 : i = 1 \/ i = 2
  BY <1>1 DEF Event
<1>3. LogFits(e)
  BY <1>1, <1>2 DEF LogFits, EventFits, Statuses
<1>4. StatusIs(e, 2, "planning")
  <2>1. LatestLeadsTo(e, 2, 2, "planning")
    BY <1>2 DEF LatestLeadsTo
  <2> QED BY <2>1 DEF StatusIs
<1>5. ~HasType(e, 2, Finals) /\ ~HasType(e, 2, Ends) /\ ~ApprovalAt(e, 2)
  BY <1>2 DEF HasType, Finals, Ends, ApprovalAt
<1>6. r \in Records /\ r.status = "planning" /\ r.result = FALSE /\ r.approval = FALSE
  BY DEF Records, Statuses
<1> HIDE DEF r
<1>7. LogInv(e, r)
  BY <1>1, <1>3, <1>4, <1>5, <1>6 DEF LogInv, IsAt
<1> QED BY <1>7 DEF e, r

LEMMA Typed ==
  ASSUME ViewInv
  PROVE  /\ record \in Records /\ LogInv(events, record) /\ events \in Seq(Drafts)
         /\ Len(events) \in Nat /\ Len(events) >= 2
         /\ inbox \in Seq(Messages) /\ requests \in Seq(Requests) /\ control \in Controls
         /\ safePoint \in {"none", "pause", "cancel"} /\ failing \in BOOLEAN
         /\ commands \in Seq(Commands) /\ dropped \in 0 .. Len(events)
BY DEF ViewInv, LogInv, LogFits, StateTyped

\* A commit whose first events go to the window, and all of them unless it throws.
LEMMA PublishedKeeps ==
  ASSUME ViewInv, NEW d \in Seq(Drafts), NEW sent \in Seq(Drafts),
         Len(sent) <= Len(d), \A i \in 1 .. Len(sent) : sent[i] = d[i],
         events' = events \o d, LogInv(events', record'), inbox' = inbox \o Published(sent),
         \/ sent = d /\ dropped' = dropped
         \/ Len(sent) < Len(d) /\ dropped' = Len(events'),
         \A i \in 1 .. Len(sent) : sent[i].type # "resumed",
         safePoint' \in {"none", "pause", "cancel"}, failing' \in BOOLEAN,
         UNCHANGED <<commands, requests, view, control>>
  PROVE  ViewInv'
<1>1. <<>> \in Seq(Replies)
  OBVIOUS
<1>2. /\ inbox \in Seq(Messages) /\ Len(events) \in Nat /\ commands \in Seq(Commands)
      /\ requests \in Seq(Requests)
  BY Typed
<1>3. InboxGains(sent, <<>>)
  BY <1>1, <1>2, GainsJoined, Zenon
<1>4. Running' <=> Running
  BY DEF Running
<1>5. /\ view' = view /\ control' = control /\ requests' \in Seq(Requests)
      /\ (HasFetch(requests) => HasFetch(requests')) /\ commands' \in Seq(Commands)
  BY <1>2
<1>6. (\E i \in 1 .. Len(sent) : sent[i].type = "resumed") => Running'
  OBVIOUS
<1>7. Sends(d, sent, <<>>)
  BY <1>1, <1>3, <1>4, <1>5, <1>6, Zenon DEF Sends
<1> QED BY <1>7, SendsInv

LEMMA OwnCommitKeeps ==
  ASSUME ViewInv, NEW next, NEW d \in Seq(Drafts), Len(d) > 0, OwnCommit(next, d),
         LogInv(events', record'), \A i \in 1 .. Len(d) : d[i].type # "resumed",
         safePoint' \in {"none", "pause", "cancel"},
         UNCHANGED <<commands, requests, view, control>>
  PROVE  ViewInv'
<1>1. events' = events \o d /\ Len(d) \in Nat
  BY DEF OwnCommit, Commit
<1>2. CASE Sent(d)
  <2>1. inbox' = inbox \o Published(d) /\ failing' \in BOOLEAN /\ dropped' = dropped
    BY <1>2, Typed DEF Sent
  <2>2. Len(d) <= Len(d)
    BY <1>1
  <2> QED BY <1>1, <2>1, <2>2, PublishedKeeps
<1>3. CASE Threw(next, <<>>)
  <2>1. /\ inbox' = inbox \o Published(<<>>) /\ dropped' = Len(events') /\ failing' \in BOOLEAN
    BY <1>3 DEF Threw
  <2>2. <<>> \in Seq(Drafts) /\ Len(<<>>) = 0 /\ \A i \in 1 .. 0 : FALSE
    OBVIOUS
  <2>3. Len(<<>>) <= Len(d) /\ Len(<<>>) < Len(d)
    BY <1>1, <2>2
  <2> QED BY <1>1, <2>1, <2>2, <2>3, PublishedKeeps
<1> QED BY <1>2, <1>3 DEF OwnCommit

\* A change of status that brings no approval into the world without its event.
LEMMA OwnChangeKeeps ==
  ASSUME ViewInv, record.status # "ended",
         NEW s \in Statuses, NEW type \in Kinds \ {"resumed"},
         type = "paused" => s = "paused", type \in Ends <=> s = "ended",
         NEW next \in Records, next.status = s, next.result <=> type = "final",
         type = "approval.requested" => next.approval,
         type = "approval.resolved" => ~next.approval,
         type \notin {"approval.requested", "approval.resolved"} =>
           next.approval = record.approval,
         s \in Unasking => ~next.approval,
         OwnCommit(next, Change(s, type)), UNCHANGED <<safePoint, commands, requests, view, control>>
  PROVE  ViewInv'
<1>1. LogInv(events, record) /\ safePoint' \in {"none", "pause", "cancel"}
  BY Typed
<1>2. type \in Kinds /\ Commit(next, Change(s, type))
  BY Zenon DEF OwnCommit
<1>3. type \in {"paused", "resumed"} => s \in PutsIn(type)
  BY DEF PutsIn
<1>4. LogInv(events', record')
  BY <1>1, <1>2, <1>3, CommittedChange
<1>5. /\ Change(s, type) \in Seq(Drafts) /\ Len(Change(s, type)) > 0
  BY <1>2, ChangeIsDrafts
<1>6. \A i \in 1 .. Len(Change(s, type)) : Change(s, type)[i].type # "resumed"
  BY NoResume
<1> QED BY <1>1, <1>4, <1>5, <1>6, OwnCommitKeeps

LEMMA MoveKeeps == ViewInv /\ Move => ViewInv'
<1> SUFFICES ASSUME ViewInv, Move PROVE ViewInv'
  OBVIOUS
<1>1. PICK m \in Moves, owed \in BOOLEAN :
        /\ record.status = m.from
        /\ OwnCommit([record EXCEPT !.status = m.to, !.approval = m.approval,
                                    !.result = (m.to = "ended"), !.owed = owed], m.drafts)
  BY Zenon DEF Move
<1> DEFINE next == [record EXCEPT !.status = m.to, !.approval = m.approval,
                                  !.result = (m.to = "ended"), !.owed = owed]
           Leads(type) ==
           /\ m.drafts = Change(m.to, type)
           /\ m.from \in Unasking \cup {"awaiting_approval"}
           /\ m.to \in {"awaiting_approval", "executing", "planning", "completing", "ended"}
           /\ m.approval = (type = "approval.requested")
           /\ m.from = "awaiting_approval" => type = "approval.resolved"
           /\ m.to = "awaiting_approval" <=> type = "approval.requested"
           /\ m.to = "ended" <=> type = "final"
<1>2. record \in Records /\ LogInv(events, record) /\ Len(events) \in Nat
  BY Typed
<1>3. UNCHANGED <<safePoint, commands, requests, view, control>>
  BY DEF Move
<1>4. \/ m.from = "planning" /\ m.to = "planning" /\ m.approval = FALSE
         /\ m.drafts = <<Event("other", "none")>>
      \/ \E type \in {"approval.requested", "approval.resolved", "other", "final"} : Leads(type)
  <2>1. \/ /\ m.from = "planning" /\ m.to = "awaiting_approval" /\ m.approval = TRUE
           /\ m.drafts = Change("awaiting_approval", "approval.requested")
        \/ /\ m.from = "planning" /\ m.to = "executing" /\ m.approval = FALSE
           /\ m.drafts = Change("executing", "other")
        \/ /\ m.from = "awaiting_approval" /\ m.to = "executing" /\ m.approval = FALSE
           /\ m.drafts = Change("executing", "approval.resolved")
        \/ /\ m.from = "executing" /\ m.to = "planning" /\ m.approval = FALSE
           /\ m.drafts = Change("planning", "other")
        \/ /\ m.from = "executing" /\ m.to = "ended" /\ m.approval = FALSE
           /\ m.drafts = EndDrafts
        \/ /\ m.from = "planning" /\ m.to = "planning" /\ m.approval = FALSE
           /\ m.drafts = <<Event("other", "none")>>
        \/ /\ m.from = "planning" /\ m.to = "completing" /\ m.approval = FALSE
           /\ m.drafts = Change("completing", "other")
        \/ /\ m.from = "completing" /\ m.to = "ended" /\ m.approval = FALSE
           /\ m.drafts = EndDrafts
    BY DEF Moves
  <2>2. m.drafts = EndDrafts => m.drafts = Change("ended", "final")
    BY DEF EndDrafts
  <2>3. m.from \in {"planning", "executing", "completing"} => m.from \in Unasking
    BY DEF Unasking
  <2>4. CASE m.to = "awaiting_approval" /\ m.drafts = Change("awaiting_approval", "approval.requested")
    <3>1. m.from = "planning" /\ m.approval = TRUE
      BY <2>1, <2>4
    <3>2. Leads("approval.requested")
      BY <2>3, <2>4, <3>1
    <3> QED BY <3>2
  <2>5. CASE m.from = "awaiting_approval" /\ m.drafts = Change("executing", "approval.resolved")
    <3>1. m.to = "executing" /\ m.approval = FALSE
      BY <2>1, <2>5
    <3>2. Leads("approval.resolved")
      BY <2>5, <3>1
    <3> QED BY <3>2
  <2>6. CASE /\ m.from \in Unasking /\ m.to \in {"executing", "planning", "completing"}
             /\ m.approval = FALSE /\ m.drafts = Change(m.to, "other")
    <3>1. m.from # "awaiting_approval"
      BY <2>6 DEF Unasking
    <3>2. Leads("other")
      BY <2>6, <3>1
    <3> QED BY <3>2
  <2>7. CASE /\ m.from \in Unasking /\ m.to = "ended" /\ m.approval = FALSE
             /\ m.drafts = Change("ended", "final")
    <3>1. m.from # "awaiting_approval"
      BY <2>7 DEF Unasking
    <3>2. Leads("final")
      BY <2>7, <3>1
    <3> QED BY <3>2
  <2> HIDE DEF Leads
  <2> QED BY <2>1, <2>2, <2>3, <2>4, <2>5, <2>6, <2>7
<1>5. m.to \in Statuses /\ m.approval \in BOOLEAN
  BY <1>4 DEF Statuses
<1>6. next \in Records /\ next.status = m.to /\ next.approval = m.approval
      /\ next.result = (m.to = "ended")
  BY <1>2, <1>5 DEF Records
<1>7. OwnCommit(next, m.drafts)
  BY <1>1
<1> HIDE DEF next
<1>8. CASE /\ m.from = "planning" /\ m.to = "planning" /\ m.approval = FALSE
           /\ m.drafts = <<Event("other", "none")>>
  <2>1. record.status # "ended" /\ record.status \in Unasking
    BY <1>1, <1>8 DEF Unasking
  <2>2. record.approval = FALSE /\ record.result = FALSE
    BY <1>2, <2>1, RunningTask
  <2>3. Commit(next, m.drafts)
    BY <1>7 DEF OwnCommit
  <2>4. /\ record' \in Records /\ record'.status = record.status
        /\ record'.approval = record.approval /\ record'.result = record.result
    BY <1>1, <1>2, <1>6, <1>8, <2>2, <2>3, StampedRecord
  <2>5. LogInv(events \o <<Event("other", "none")>>, record')
    BY <1>2, <2>4, OtherLogged
  <2>6. events' = events \o m.drafts
    BY <2>3 DEF Commit
  <2>7. LogInv(events', record')
    BY <1>8, <2>5, <2>6
  <2>8. Event("other", "none") \in Drafts /\ Event("other", "none").type = "other"
    BY DEF Event, Drafts, EventTypes
  <2>9. m.drafts \in Seq(Drafts) /\ Len(m.drafts) = 1 /\ m.drafts[1].type = "other"
    BY <1>8, <2>8
  <2>10. Len(m.drafts) > 0 /\ \A i \in 1 .. Len(m.drafts) : m.drafts[i].type # "resumed"
    BY <2>9
  <2>11. safePoint' \in {"none", "pause", "cancel"}
    BY <1>3, Typed
  <2> QED BY <1>3, <1>7, <2>7, <2>9, <2>10, <2>11, OwnCommitKeeps
<1>9. ASSUME NEW type \in {"approval.requested", "approval.resolved", "other", "final"},
             m.drafts = Change(m.to, type),
             m.from \in Unasking \cup {"awaiting_approval"},
             m.to \in {"awaiting_approval", "executing", "planning", "completing", "ended"},
             m.approval = (type = "approval.requested"),
             m.from = "awaiting_approval" => type = "approval.resolved",
             m.to = "awaiting_approval" <=> type = "approval.requested",
             m.to = "ended" <=> type = "final"
      PROVE  ViewInv'
  <2>1. record.status # "ended" /\ (record.status \in Unasking => record.approval = FALSE)
    <3>1. record.status # "ended"
      BY <1>1, <1>9 DEF Unasking
    <3> QED BY <1>2, <3>1, RunningTask
  <2>2. type \in Kinds \ {"resumed"} /\ type # "paused"
    BY DEF Kinds, EventTypes
  <2>3. type \in Ends <=> m.to = "ended"
    BY <1>9 DEF Ends
  <2>4. /\ type = "approval.requested" => next.approval = TRUE
        /\ type # "approval.requested" => next.approval = FALSE
    BY <1>6, <1>9
  <2>5. next.result <=> type = "final"
    BY <1>6, <1>9
  <2>6. type \notin {"approval.requested", "approval.resolved"} => next.approval = record.approval
    BY <1>1, <1>9, <2>1, <2>4
  <2>7. m.to \in Unasking => ~next.approval
    BY <1>9, <2>4 DEF Unasking
  <2>8. OwnCommit(next, Change(m.to, type))
    BY <1>7, <1>9
  <2> QED BY <1>3, <1>5, <1>6, <2>1, <2>2, <2>3, <2>4, <2>5, <2>6, <2>7, <2>8, OwnChangeKeeps
<1> QED BY <1>4, <1>8, <1>9, Zenon

LEMMA EndOfTask ==
  /\ EndDrafts = Change("ended", "final") /\ "ended" \in Statuses /\ "final" \in Kinds
  /\ "final" \in Kinds \ {"resumed"} /\ "final" \in Ends /\ "ended" \notin Unasking
BY DEF EndDrafts, Statuses, Kinds, EventTypes, Ends, Unasking

LEMMA FailKeeps == ViewInv /\ Fail => ViewInv'
<1> SUFFICES ASSUME ViewInv, Fail PROVE ViewInv'
  OBVIOUS
<1>1. /\ record \in Records /\ LogInv(events, record) /\ events \in Seq(Drafts)
      /\ Len(events) \in Nat /\ inbox \in Seq(Messages)
  BY Typed
<1>2. /\ failing' \in BOOLEAN /\ UNCHANGED <<commands, requests, view, control, dropped>>
      /\ safePoint' \in {"none", "pause", "cancel"}
  BY Typed DEF Fail
<1>3. CASE UNCHANGED <<record, events, inbox>>
  <2>1. <<>> \in Seq(Drafts) /\ Len(<<>>) = 0 /\ \A i \in 1 .. 0 : FALSE
    OBVIOUS
  <2>2. events' = events \o <<>>
    BY <1>1, <1>3, ConcatEmptySeq
  <2>3. Published(<<>>) = <<>>
    <3>1. Len(Published(<<>>)) = 0 /\ Published(<<>>) \in Seq(Messages)
      BY <1>1, <2>1, PublishedElements
    <3> QED BY <3>1, EmptySeq
  <2>4. inbox' = inbox \o Published(<<>>)
    BY <1>1, <1>3, <2>3, ConcatEmptySeq
  <2>5. LogInv(events', record') /\ Len(<<>>) <= Len(<<>>)
    BY <1>1, <1>3, <2>1
  <2> QED BY <1>2, <2>1, <2>2, <2>4, <2>5, PublishedKeeps
<1>4. CASE /\ record.status \notin {"paused", "awaiting_approval", "ended"}
           /\ Commit([record EXCEPT !.status = "ended", !.result = TRUE], EndDrafts)
           /\ inbox' = inbox \o Published(EndDrafts)
  <2> DEFINE next == [record EXCEPT !.status = "ended", !.result = TRUE]
  <2>1. next \in Records /\ next.status = "ended" /\ next.result = TRUE
        /\ next.approval = record.approval
    BY <1>1 DEF Records, Statuses
  <2>2. Commit(next, EndDrafts)
    BY <1>4
  <2> HIDE DEF next
  <2>3. events' = events \o Change("ended", "final") /\ LogInv(events', record')
    BY <1>1, <1>4, <2>1, <2>2, EndOfTask, CommittedChange
  <2>4. EndDrafts \in Seq(Drafts) /\ Len(EndDrafts) <= Len(EndDrafts)
    BY EndOfTask, ChangeIsDrafts
  <2>5. \A i \in 1 .. Len(EndDrafts) : EndDrafts[i].type # "resumed"
    BY EndOfTask, NoResume
  <2> QED BY <1>2, <1>4, <2>3, <2>4, <2>5, EndOfTask, PublishedKeeps
<1> QED BY <1>3, <1>4 DEF Fail

\* The end of the checks after a resume: the verdict, and with it the pause or
\* the cancellation that was waiting for it, in one commit.
LEMMA VerifiedKeeps == ViewInv /\ Verified => ViewInv'
<1> SUFFICES ASSUME ViewInv, Verified PROVE ViewInv'
  OBVIOUS
<1>1. /\ record \in Records /\ LogInv(events, record) /\ events \in Seq(Drafts)
      /\ Len(events) \in Nat /\ record.status = "verifying"
  BY Typed DEF Verified
<1>2. record.status # "ended" /\ record.approval = FALSE /\ record.result = FALSE
  BY <1>1, RunningTask DEF Unasking
<1>3. UNCHANGED <<commands, requests, view, control>>
  BY DEF Verified
<1>4. CASE /\ OwnCommit([record EXCEPT !.status = "ended", !.result = TRUE], EndDrafts)
           /\ UNCHANGED safePoint
  <2> DEFINE next == [record EXCEPT !.status = "ended", !.result = TRUE]
  <2>1. /\ next \in Records /\ next.status = "ended" /\ next.result = TRUE
        /\ next.approval = record.approval
    BY <1>1 DEF Records, Statuses
  <2>2. OwnCommit(next, Change("ended", "final"))
    BY <1>4, EndOfTask
  <2> HIDE DEF next
  <2> QED BY <1>2, <1>3, <1>4, <2>1, <2>2, EndOfTask, OwnChangeKeeps
<1>5. ASSUME NEW owed \in BOOLEAN,
             LET passed == [record EXCEPT !.status = "planning", !.owed = owed]
                 next == [passed EXCEPT !.status = Awaited.status,
                                        !.result = (safePoint = "cancel")]
                 drafts == VerifiedDrafts \o Awaited.drafts
             IN \/ OwnCommit(passed, VerifiedDrafts) /\ UNCHANGED safePoint
                \/ /\ safePoint' = "none" /\ Commit(next, drafts)
                   /\ Sent(drafts) \/ Threw(next, VerifiedDrafts)
      PROVE  ViewInv'
  <2> DEFINE passed == [record EXCEPT !.status = "planning", !.owed = owed]
             next == [passed EXCEPT !.status = Awaited.status,
                                    !.result = (safePoint = "cancel")]
             drafts == VerifiedDrafts \o Awaited.drafts
  <2>1. /\ passed \in Records /\ passed.status = "planning" /\ passed.result = FALSE
        /\ passed.approval = FALSE
    BY <1>1, <1>2 DEF Records, Statuses
  <2>2. /\ VerifiedDrafts = Change("planning", "other") /\ "planning" \in Statuses
        /\ "other" \in Kinds \ {"resumed"} /\ "other" \in Kinds /\ "other" \notin Ends
    BY DEF VerifiedDrafts, Statuses, Kinds, EventTypes, Ends
  <2>3. CASE OwnCommit(passed, VerifiedDrafts) /\ UNCHANGED safePoint
    <3> HIDE DEF passed
    <3> QED BY <1>2, <1>3, <2>1, <2>2, <2>3, OwnChangeKeeps
  <2>4. CASE /\ safePoint' = "none" /\ Commit(next, drafts)
             /\ Sent(drafts) \/ Threw(next, VerifiedDrafts)
    <3> DEFINE s == Awaited.status
               type == IF safePoint = "cancel" THEN "final" ELSE "paused"
    <3>1. /\ s \in Statuses /\ type \in Kinds \ {"resumed"} /\ type \in Kinds
          /\ Awaited.drafts = Change(s, type) /\ (type = "paused" => s = "paused")
          /\ type \in Ends <=> s = "ended"
          /\ s \notin Unasking
          /\ safePoint = "cancel" <=> type = "final"
          /\ type \notin {"approval.requested", "approval.resolved", "resumed"}
      BY DEF Awaited, EndDrafts, PauseDrafts, Statuses, Kinds, EventTypes, Ends, Unasking
    <3>2. /\ next \in Records /\ next.status = s /\ next.approval = FALSE
          /\ next.result <=> type = "final"
      <4>1. s \in Statuses /\ (safePoint = "cancel") \in BOOLEAN
        BY <3>1
      <4> HIDE DEF passed, s
      <4>2. next = [passed EXCEPT !.status = s, !.result = (safePoint = "cancel")]
        BY DEF s
      <4>3. next \in Records /\ next.status = s /\ next.approval = FALSE
            /\ next.result = (safePoint = "cancel")
        BY <2>1, <4>1, <4>2 DEF Records
      <4> QED BY <3>1, <4>3
    <3>3. next.status = s /\ drafts = Change("planning", "other") \o Change(s, type)
      BY <2>2, <3>1, <3>2
    <3>4. CASE TRUE
      <4> HIDE DEF next, passed, s, type
      <4>1. /\ record' \in Records /\ record'.status = s
            /\ record'.approval = FALSE
            /\ record'.result <=> type = "final"
        BY <1>1, <2>4, <3>2, StampedRecord
      <4>2. LogInv(events \o Change("planning", "other"), passed)
        <5>1. /\ passed.result <=> "other" = "final"
              /\ "planning" \in Unasking => ~passed.approval
              /\ passed.approval = record.approval
              /\ "other" \in Ends <=> "planning" = "ended"
          BY <1>2, <2>1, <2>2
        <5> QED BY <1>1, <1>2, <2>1, <2>2, <5>1, ChangeLogged
      <4>3. LogInv((events \o Change("planning", "other")) \o Change(s, type), record')
        <5>1. /\ passed.status # "ended" /\ record'.approval = passed.approval
              /\ s \in Unasking => ~record'.approval
          BY <2>1, <3>1, <4>1
        <5>0. type \in {"paused", "resumed"} => s \in PutsIn(type)
          BY <3>1 DEF PutsIn
        <5> DEFINE e == events \o Change("planning", "other")
        <5>2. LogInv(e, passed)
          BY <4>2
        <5> HIDE DEF e
        <5>3. LogInv(e \o Change(s, type), record')
          BY <3>1, <4>1, <5>0, <5>1, <5>2, ChangeLogged
        <5> QED BY <5>3 DEF e
      <4> DEFINE a == Change("planning", "other")
                 b == Change(s, type)
      <4>4. /\ a \in Seq(Drafts) /\ Len(a) = 2 /\ b \in Seq(Drafts) /\ Len(b) = 2
            /\ \A i \in 1 .. 2 : a[i].type # "resumed" /\ b[i].type # "resumed"
        <5>1. a \in Seq(Drafts) /\ Len(a) = 2
          BY <2>2, ChangeIsDrafts
        <5>2. b \in Seq(Drafts) /\ Len(b) = 2
          BY <3>1, ChangeIsDrafts
        <5>3. \A i \in 1 .. Len(a) : a[i].type # "resumed"
          BY <2>2, NoResume
        <5>4. \A i \in 1 .. Len(b) : b[i].type # "resumed"
          BY <3>1, NoResume
        <5> QED BY <5>1, <5>2, <5>3, <5>4
      <4>5. drafts = a \o b /\ VerifiedDrafts = a
        BY <2>2, <3>3
      <4>6. LogInv((events \o a) \o b, record')
        BY <4>3
      <4>7. Commit(next, drafts) /\ (Sent(drafts) \/ Threw(next, VerifiedDrafts))
            /\ safePoint' \in {"none", "pause", "cancel"}
        BY <2>4
      <4> HIDE DEF a, b, drafts
      <4>8. events' = events \o (a \o b) /\ LogInv(events', record')
        <5>1. (events \o a) \o b = events \o (a \o b)
          BY <1>1, <4>4, ConcatAssociative
        <5> QED BY <4>5, <4>6, <4>7, <5>1 DEF Commit
      <4>9. /\ a \o b \in Seq(Drafts) /\ Len(a \o b) = 4
            /\ \A i \in 1 .. Len(a) : (a \o b)[i] = a[i]
            /\ \A i \in 1 .. Len(b) : (a \o b)[Len(a) + i] = b[i]
        <5>1. /\ a \o b \in Seq(Drafts) /\ Len(a \o b) = Len(a) + Len(b)
              /\ \A i \in 1 .. Len(a) : (a \o b)[i] = a[i]
              /\ \A i \in 1 .. Len(b) : (a \o b)[Len(a) + i] = b[i]
          BY <4>4, JoinedDrafts
        <5>2. Len(a) + Len(b) = 4
          BY <4>4
        <5> QED BY <5>1, <5>2
      <4>10. CASE Sent(drafts)
        <5>1. \A i \in 1 .. Len(a \o b) : (a \o b)[i].type # "resumed"
          <6>1. \A i \in 1 .. 4 : i \in 1 .. 2 \/ i - 2 \in 1 .. 2
            OBVIOUS
          <6>2. \A i \in 1 .. 4 : i = 2 + (i - 2)
            OBVIOUS
          <6> QED BY <4>4, <4>9, <6>1, <6>2
        <5>2. inbox' = inbox \o Published(a \o b) /\ failing' \in BOOLEAN /\ dropped' = dropped
          BY <4>5, <4>10, Typed DEF Sent
        <5>3. Len(a \o b) <= Len(a \o b)
          BY <4>9
        <5> QED BY <1>3, <4>7, <4>8, <4>9, <5>1, <5>2, <5>3, PublishedKeeps
      <4>11. CASE Threw(next, VerifiedDrafts)
        <5>1. /\ inbox' = inbox \o Published(a) /\ failing' \in BOOLEAN
              /\ dropped' = Len(events')
          BY <4>5, <4>11 DEF Threw
        <5>2. /\ Len(a) < Len(a \o b) /\ Len(a) <= Len(a \o b)
              /\ \A i \in 1 .. Len(a) : a[i] = (a \o b)[i]
              /\ \A i \in 1 .. Len(a) : a[i].type # "resumed"
          BY <4>4, <4>9
        <5> QED BY <1>3, <4>4, <4>7, <4>8, <4>9, <5>1, <5>2, PublishedKeeps
      <4> QED BY <4>7, <4>10, <4>11
    <3> QED BY <3>4
  <2> QED BY <1>5, <2>3, <2>4
<1> QED
  <2>1. \/ /\ OwnCommit([record EXCEPT !.status = "ended", !.result = TRUE], EndDrafts)
           /\ UNCHANGED safePoint
        \/ \E owed \in BOOLEAN :
             LET passed == [record EXCEPT !.status = "planning", !.owed = owed]
                 next == [passed EXCEPT !.status = Awaited.status,
                                        !.result = (safePoint = "cancel")]
                 drafts == VerifiedDrafts \o Awaited.drafts
             IN \/ OwnCommit(passed, VerifiedDrafts) /\ UNCHANGED safePoint
                \/ /\ safePoint' = "none" /\ Commit(next, drafts)
                   /\ Sent(drafts) \/ Threw(next, VerifiedDrafts)
    BY Zenon DEF Verified, OwnCommit
  <2> QED BY <1>4, <1>5, <2>1, Zenon

\* An answer alone, or nothing: the log and the record stay as they are.
LEMMA AnsweredKeeps ==
  ASSUME ViewInv, NEW tail \in Seq(Replies), inbox' = inbox \o tail,
         UNCHANGED <<record, events, view, control>>, failing' \in BOOLEAN,
         safePoint' \in {"none", "pause", "cancel"}, commands' \in Seq(Commands),
         requests' \in Seq(Requests), HasFetch(requests) => HasFetch(requests'),
         Running => Running' \/ \E k \in 1 .. Len(tail) : Refreshing(tail[k]),
         \/ dropped' = dropped
         \/ dropped' = Len(events) /\ \E k \in 1 .. Len(tail) : Loses(tail[k])
  PROVE  ViewInv'
<1>1. <<>> \in Seq(Drafts) /\ Len(<<>>) = 0 /\ \A i \in 1 .. 0 : FALSE
  OBVIOUS
<1>2. /\ events \in Seq(Drafts) /\ Len(events) \in Nat /\ LogInv(events, record)
      /\ inbox \in Seq(Messages)
  BY Typed
<1>3. events' = events \o <<>> /\ LogInv(events', record') /\ Len(<<>>) <= Len(<<>>)
  BY <1>1, <1>2, ConcatEmptySeq
<1>4. InboxGains(<<>>, tail)
  BY <1>1, <1>2, GainsJoined, Zenon
<1>5. /\ \A i \in 1 .. Len(<<>>) : <<>>[i] = <<>>[i]
      /\ ~\E i \in 1 .. Len(<<>>) : <<>>[i].type = "resumed"
  BY <1>1
<1>6. \/ dropped' = dropped
      \/ dropped' = Len(events') /\ \E k \in 1 .. Len(tail) : Loses(tail[k])
  OBVIOUS
<1>7. view' = view /\ control' = control
  OBVIOUS
<1>8. Sends(<<>>, <<>>, tail)
  BY <1>1, <1>3, <1>4, <1>5, <1>6, <1>7, Zenon DEF Sends
<1> QED BY <1>8, SendsInv

\* One answer, as a sequence.
LEMMA OneAnswer ==
  ASSUME NEW m \in Replies, inbox \in Seq(Messages)
  PROVE  /\ <<m>> \in Seq(Replies) /\ Append(inbox, m) = inbox \o <<m>>
         /\ Loses(m) => \E k \in 1 .. Len(<<m>>) : Loses(<<m>>[k])
         /\ Refreshing(m) => \E k \in 1 .. Len(<<m>>) : Refreshing(<<m>>[k])
<1>1. m \in Messages
  BY DEF Messages
<1>2. Append(inbox, m) = inbox \o <<m>>
  BY <1>1, AppendIsConcat
<1>3. Len(<<m>>) = 1 /\ <<m>>[1] = m /\ 1 \in 1 .. 1
  OBVIOUS
<1> QED BY <1>2, <1>3

LEMMA AnswersAreReplies ==
  ASSUME NEW command \in Commands, NEW outcome \in Outcomes
  PROVE  /\ Reply(outcome) \in Replies /\ AnswerTo(command, outcome) \in Replies
         /\ outcome = "failed" => Loses(AnswerTo(command, outcome))
         /\ outcome \in {"accepted", "failed"} => Refreshing(AnswerTo(command, outcome))
BY DEF Reply, AnswerTo, Replies, Outcomes, Commands, Loses, Refreshing

LEMMA AcceptControlKeeps == ViewInv /\ AcceptControl => ViewInv'
<1> SUFFICES ASSUME ViewInv, AcceptControl PROVE ViewInv'
  OBVIOUS
<1> DEFINE call == Head(requests)
           command == [action |-> call.action, committed |-> FALSE, lost |-> FALSE]
<1>1. /\ inbox \in Seq(Messages) /\ requests \in Seq(Requests) /\ commands \in Seq(Commands)
      /\ safePoint \in {"none", "pause", "cancel"} /\ failing \in BOOLEAN
  BY Typed
<1>2. /\ requests # <<>> /\ call.kind = "control" /\ requests' = Tail(requests)
      /\ UNCHANGED <<record, events, failing, view, control, dropped>>
  BY DEF AcceptControl
<1>3. call \in Requests /\ requests' \in Seq(Requests)
  BY <1>1, <1>2, TailElements
<1>4. call.action \in Actions
  BY <1>2, <1>3 DEF Requests, Fetches
<1>5. HasFetch(requests) => HasFetch(requests')
  BY <1>1, <1>2, RequestTaken
<1>6. failing' \in BOOLEAN /\ dropped' = dropped
  BY <1>1, <1>2
<1>7. ASSUME NEW outcome \in {"pending", "refused"}, inbox' = Append(inbox, Reply(outcome)),
             safePoint' \in {"none", "pause", "cancel"}, UNCHANGED commands
      PROVE  ViewInv'
  <2>1. Reply(outcome) \in Replies
    BY DEF Reply, Replies, Outcomes
  <2>2. /\ <<Reply(outcome)>> \in Seq(Replies) /\ inbox' = inbox \o <<Reply(outcome)>>
    BY <1>1, <1>7, <2>1, OneAnswer
  <2>3. (Running <=> Running') /\ commands' \in Seq(Commands)
    BY <1>1, <1>7 DEF Running
  <2> QED BY <1>2, <1>3, <1>5, <1>6, <1>7, <2>2, <2>3, AnsweredKeeps
<1>8. CASE /\ MayDefer(call.action)
           /\ safePoint' = IF safePoint = "cancel" THEN "cancel" ELSE call.action
           /\ inbox' = Append(inbox, Reply("pending"))
           /\ UNCHANGED commands
  <2>1. safePoint' \in {"none", "pause", "cancel"}
    BY <1>8 DEF MayDefer
  <2> QED BY <1>7, <1>8, <2>1
<1>9. CASE /\ commands' = Append(commands, command)
           /\ UNCHANGED <<safePoint, inbox>>
  <2>1. command \in Commands
    BY <1>4 DEF Commands
  <2> HIDE DEF command
  <2>2. /\ commands' \in Seq(Commands)
        /\ commands # <<>> => commands' # <<>> /\ Head(commands') = Head(commands)
    BY <1>1, <1>9, <2>1
  <2>3. Running => Running'
    BY <2>2 DEF Running
  <2>4. <<>> \in Seq(Replies) /\ inbox' = inbox \o <<>>
    BY <1>1, <1>9, ConcatEmptySeq
  <2> QED BY <1>1, <1>2, <1>3, <1>5, <1>6, <1>9, <2>2, <2>3, <2>4, AnsweredKeeps
<1>10. CASE inbox' = Append(inbox, Reply("refused")) /\ UNCHANGED <<safePoint, commands>>
  BY <1>1, <1>7, <1>10
<1>11. \/ /\ MayDefer(call.action)
          /\ safePoint' = IF safePoint = "cancel" THEN "cancel" ELSE call.action
          /\ inbox' = Append(inbox, Reply("pending"))
          /\ UNCHANGED commands
       \/ /\ commands' = Append(commands, command)
          /\ UNCHANGED <<safePoint, inbox>>
       \/ inbox' = Append(inbox, Reply("refused")) /\ UNCHANGED <<safePoint, commands>>
  BY Zenon DEF AcceptControl
<1> QED BY <1>8, <1>9, <1>10, <1>11

\* What a command commits is a change the log can tell.
LEMMA EffectLogged ==
  ASSUME LogInv(events, record), NEW action \in Actions, NEW effect \in Controlled(action),
         IF effect.drafts = <<>> THEN UNCHANGED <<record, events>>
                                 ELSE Commit(effect.next, effect.drafts)
  PROVE  /\ effect.drafts \in Seq(Drafts) /\ events' = events \o effect.drafts
         /\ LogInv(events', record')
<1>1. record \in Records /\ events \in Seq(Drafts)
  BY DEF LogInv, LogFits
<1> DEFINE Changes(s, type, approval, result) ==
             effect = Effect(s, approval, result, Change(s, type))
<1>2. \/ effect.drafts = <<>>
      \/ /\ record.status # "ended"
         /\ \/ Changes("paused", "paused", record.approval, FALSE)
            \/ Changes("ended", "final", record.approval, TRUE)
            \/ Changes(ResumedStatus, "resumed", FALSE, FALSE)
            \/ /\ record.status = "awaiting_approval"
               /\ \/ Changes("executing", "approval.resolved", FALSE, FALSE)
                  \/ Changes("planning", "approval.resolved", FALSE, FALSE)
                  \/ Changes("ended", "cancelled", record.approval, FALSE)
  <2>1. CASE record.status = "ended"
    BY <2>1 DEF Controlled, Effect
  <2>2. CASE record.status # "ended" /\ action = "pause"
    BY <2>2 DEF Controlled, PauseDrafts
  <2>3. CASE record.status # "ended" /\ action = "cancel"
    BY <2>3 DEF Controlled, EndDrafts
  <2>4. CASE record.status # "ended" /\ action = "resume"
    BY <2>4 DEF Controlled
  <2>5. CASE record.status # "ended" /\ action = "answer"
    BY <2>5 DEF Controlled
  <2> QED BY <2>1, <2>2, <2>3, <2>4, <2>5 DEF Actions
<1>3. CASE effect.drafts = <<>>
  <2>1. effect.drafts \in Seq(Drafts) /\ record' = record /\ events' = events
    BY <1>3
  <2> QED BY <1>1, <1>3, <2>1, ConcatEmptySeq
<1>4. ASSUME record.status # "ended",
             NEW s \in Statuses, NEW type \in Kinds, NEW approval \in BOOLEAN,
             NEW result \in BOOLEAN, Changes(s, type, approval, result),
             type \in {"paused", "resumed"} => s \in PutsIn(type),
             type \in Ends <=> s = "ended", result <=> type = "final",
             type \in {"approval.resolved", "resumed"} => approval = FALSE,
             type \notin {"approval.resolved", "resumed"} => approval = record.approval,
             type # "approval.requested", s \in Unasking => approval = FALSE
      PROVE  /\ effect.drafts \in Seq(Drafts) /\ events' = events \o effect.drafts
             /\ LogInv(events', record')
  <2> DEFINE next == [record EXCEPT !.status = s, !.approval = approval, !.result = result]
  <2>1. effect.next = next /\ effect.drafts = Change(s, type)
    BY <1>4 DEF Effect
  <2>2. /\ next \in Records /\ next.status = s /\ next.approval = approval
        /\ next.result = result
    BY <1>1, <1>4 DEF Records
  <2>3. effect.drafts \in Seq(Drafts) /\ Len(effect.drafts) = 2
    BY <1>4, <2>1, ChangeIsDrafts
  <2>4. Commit(next, Change(s, type))
    <3>1. Len(<<>>) = 0 /\ 2 # 0
      OBVIOUS
    <3>2. effect.drafts # <<>>
      BY <2>3, <3>1, Zenon
    <3> QED BY <2>1, <3>2
  <2> HIDE DEF next
  <2>5. type \notin {"approval.requested", "approval.resolved", "resumed"}
          => next.approval = record.approval
    BY <1>4, <2>2
  <2>6. events' = events \o Change(s, type) /\ LogInv(events', record')
    BY <1>4, <2>2, <2>4, <2>5, CommittedChange
  <2> QED BY <2>1, <2>3, <2>6
<1>5. /\ record.approval \in BOOLEAN
      /\ ResumedStatus \in {"planning", "verifying"}
  BY <1>1 DEF Records, ResumedStatus
<1> HIDE DEF Changes
<1>6. CASE record.status # "ended" /\ Changes("paused", "paused", record.approval, FALSE)
  <2>1. "paused" \in Statuses /\ "paused" \in Kinds /\ "paused" \in PutsIn("paused")
        /\ "paused" \notin Ends /\ "paused" \notin Unasking
    BY DEF Statuses, Kinds, EventTypes, PutsIn, Ends, Unasking
  <2> QED BY <1>4, <1>5, <1>6, <2>1
<1>7. CASE record.status # "ended" /\ Changes("ended", "final", record.approval, TRUE)
  BY <1>4, <1>5, <1>7, EndOfTask
<1>8. CASE record.status # "ended" /\ Changes(ResumedStatus, "resumed", FALSE, FALSE)
  <2>1. ResumedStatus \in Statuses /\ "resumed" \in Kinds /\ ResumedStatus \in PutsIn("resumed")
        /\ "resumed" \notin Ends /\ ResumedStatus # "ended"
    BY <1>5 DEF Statuses, Kinds, EventTypes, PutsIn, Ends
  <2> QED BY <1>4, <1>8, <2>1
<1>9. ASSUME record.status # "ended", NEW s \in {"executing", "planning"},
             Changes(s, "approval.resolved", FALSE, FALSE)
      PROVE  /\ effect.drafts \in Seq(Drafts) /\ events' = events \o effect.drafts
             /\ LogInv(events', record')
  <2>1. s \in Statuses /\ "approval.resolved" \in Kinds
        /\ "approval.resolved" \notin Ends /\ s # "ended"
    BY DEF Statuses, Kinds, EventTypes, Ends
  <2> QED BY <1>4, <1>9, <2>1
<1>10. CASE /\ record.status = "awaiting_approval"
            /\ Changes("ended", "cancelled", record.approval, FALSE)
  <2>1. "cancelled" \in Kinds /\ "cancelled" \in Ends
    BY DEF Kinds, EventTypes, Ends
  <2>2. record.status # "ended"
    BY <1>10
  <2> QED BY <1>4, <1>5, <1>10, <2>1, <2>2, EndOfTask
<1> QED BY <1>2, <1>3, <1>6, <1>7, <1>8, <1>9, <1>10

LEMMA HeadCommand ==
  ASSUME ViewInv, commands # <<>>
  PROVE  /\ Head(commands) \in Commands /\ Tail(commands) \in Seq(Commands)
         /\ Head(commands).action \in Actions
<1>1. Head(commands) \in Commands /\ Tail(commands) \in Seq(Commands)
  BY Typed, TailElements
<1> QED BY <1>1 DEF Commands

\* The command is refused, or its events go out and its effects run, or its
\* commit throws and the window only learns that something went wrong.
LEMMA RunControlKeeps == ViewInv /\ RunControl => ViewInv'
<1> SUFFICES ASSUME ViewInv, RunControl PROVE ViewInv'
  OBVIOUS
<1> DEFINE command == Head(commands)
<1>1. /\ inbox \in Seq(Messages) /\ requests \in Seq(Requests) /\ commands \in Seq(Commands)
      /\ safePoint \in {"none", "pause", "cancel"} /\ failing \in BOOLEAN
      /\ Len(events) \in Nat /\ LogInv(events, record)
  BY Typed
<1>2. /\ commands # <<>> /\ ~Running
      /\ UNCHANGED <<safePoint, failing, requests, view, control>>
  BY DEF RunControl, Running
<1>3. command \in Commands /\ Tail(commands) \in Seq(Commands) /\ command.action \in Actions
  BY <1>2, HeadCommand
<1>4. /\ failing' \in BOOLEAN /\ safePoint' \in {"none", "pause", "cancel"}
      /\ requests' \in Seq(Requests) /\ (HasFetch(requests) => HasFetch(requests'))
      /\ view' = view /\ control' = control
  BY <1>1, <1>2
<1>5. CASE /\ inbox' = Append(inbox, AnswerTo(command, "refused"))
           /\ commands' = Tail(commands)
           /\ UNCHANGED <<record, events, dropped, spent>>
  <2>1. AnswerTo(command, "refused") \in Replies
    BY <1>3, AnswersAreReplies DEF Outcomes
  <2>2. /\ <<AnswerTo(command, "refused")>> \in Seq(Replies)
        /\ inbox' = inbox \o <<AnswerTo(command, "refused")>>
    BY <1>1, <1>5, <2>1, OneAnswer
  <2>3. commands' \in Seq(Commands) /\ UNCHANGED <<record, events, view, control>>
        /\ dropped' = dropped
    BY <1>3, <1>4, <1>5
  <2> HIDE DEF command
  <2> QED BY <1>2, <1>4, <2>2, <2>3, AnsweredKeeps
<1>6. ASSUME NEW effect \in Controlled(command.action),
             IF effect.drafts = <<>> THEN UNCHANGED <<record, events>>
                                     ELSE Commit(effect.next, effect.drafts),
             \/ /\ inbox' = inbox \o Published(effect.drafts)
                /\ commands' = <<[command EXCEPT !.committed = TRUE]>> \o Tail(commands)
                /\ UNCHANGED <<dropped, spent>>
             \/ /\ dropped' = Len(events')
                /\ inbox' = Append(inbox, AnswerTo(command, "failed"))
                /\ commands' = Tail(commands)
      PROVE  ViewInv'
  <2> DEFINE d == effect.drafts
  <2>1. d \in Seq(Drafts) /\ events' = events \o d /\ LogInv(events', record')
    BY <1>1, <1>3, <1>6, EffectLogged
  <2>2. Len(d) \in Nat /\ Len(d) <= Len(d) /\ 0 <= Len(d)
    BY <2>1
  <2>3. CASE /\ inbox' = inbox \o Published(d)
             /\ commands' = <<[command EXCEPT !.committed = TRUE]>> \o Tail(commands)
             /\ UNCHANGED <<dropped, spent>>
    <3> DEFINE c == [command EXCEPT !.committed = TRUE]
    <3>1. c \in Commands /\ c.committed = TRUE
      BY <1>3 DEF Commands
    <3>2. commands' = <<c>> \o Tail(commands)
      BY <2>3
    <3> HIDE DEF c, d, command
    <3>3. commands' \in Seq(Commands) /\ Len(<<c>> \o Tail(commands)) = 1 + Len(Tail(commands))
          /\ (<<c>> \o Tail(commands))[1] = c /\ Len(Tail(commands)) \in Nat
      BY <1>3, <3>1, <3>2
    <3>4. Running'
      <4>1. commands' # <<>>
        BY <3>2, <3>3
      <4>2. Head(commands') = c
        BY <3>2, <3>3
      <4> QED BY <3>1, <4>1, <4>2 DEF Running
    <3>5. <<>> \in Seq(Replies) /\ dropped' = dropped
      BY <2>3
    <3>6. InboxGains(d, <<>>)
      BY <1>1, <2>1, <2>3, <3>5, GainsJoined, Zenon
    <3>7. Sends(d, d, <<>>)
      BY <1>4, <2>1, <2>2, <3>3, <3>4, <3>5, <3>6, Zenon DEF Sends
    <3> QED BY <3>7, SendsInv
  <2>4. CASE /\ dropped' = Len(events')
             /\ inbox' = Append(inbox, AnswerTo(command, "failed"))
             /\ commands' = Tail(commands)
    <3> DEFINE m == AnswerTo(command, "failed")
    <3>1. m \in Replies /\ Loses(m)
      BY <1>3, AnswersAreReplies DEF Outcomes
    <3>2. commands' \in Seq(Commands)
      BY <1>3, <2>4
    <3>3. inbox' = Append(inbox, m) /\ dropped' = Len(events')
      BY <2>4
    <3> HIDE DEF m, d, command
    <3>4. /\ <<m>> \in Seq(Replies) /\ inbox' = inbox \o <<m>>
          /\ \E k \in 1 .. Len(<<m>>) : Loses(<<m>>[k])
      BY <1>1, <3>1, <3>3, OneAnswer
    <3>5. <<>> \in Seq(Drafts) /\ Len(<<>>) = 0 /\ \A i \in 1 .. 0 : FALSE
      OBVIOUS
    <3>6. InboxGains(<<>>, <<m>>)
      BY <1>1, <3>4, <3>5, GainsJoined, Zenon
    <3>7. /\ Len(<<>>) <= Len(d) /\ \A i \in 1 .. Len(<<>>) : <<>>[i] = d[i]
          /\ ~\E i \in 1 .. Len(<<>>) : <<>>[i].type = "resumed"
      BY <2>2, <3>5
    <3>8. Sends(d, <<>>, <<m>>)
      BY <1>2, <1>4, <2>1, <3>2, <3>3, <3>4, <3>5, <3>6, <3>7, Zenon DEF Sends
    <3> QED BY <3>8, SendsInv
  <2> QED BY <1>6, <2>3, <2>4
<1>7. \/ /\ inbox' = Append(inbox, AnswerTo(command, "refused"))
         /\ commands' = Tail(commands)
         /\ UNCHANGED <<record, events, dropped, spent>>
      \/ \E effect \in Controlled(command.action) :
           /\ IF effect.drafts = <<>> THEN UNCHANGED <<record, events>>
                                      ELSE Commit(effect.next, effect.drafts)
           /\ \/ /\ inbox' = inbox \o Published(effect.drafts)
                 /\ commands' = <<[command EXCEPT !.committed = TRUE]>> \o Tail(commands)
                 /\ UNCHANGED <<dropped, spent>>
              \/ /\ dropped' = Len(events')
                 /\ inbox' = Append(inbox, AnswerTo(command, "failed"))
                 /\ commands' = Tail(commands)
  BY Zenon DEF RunControl
<1> QED BY <1>5, <1>6, <1>7, Zenon

LEMMA ReplyControlKeeps == ViewInv /\ ReplyControl => ViewInv'
<1> SUFFICES ASSUME ViewInv, ReplyControl PROVE ViewInv'
  OBVIOUS
<1> DEFINE command == Head(commands)
<1>1. /\ commands # <<>> /\ commands' = Tail(commands)
      /\ UNCHANGED <<record, events, safePoint, failing, requests, view, control, dropped>>
  BY DEF ReplyControl
<1>2. /\ inbox \in Seq(Messages) /\ requests \in Seq(Requests) /\ failing \in BOOLEAN
      /\ safePoint \in {"none", "pause", "cancel"}
  BY Typed
<1>3. command \in Commands /\ commands' \in Seq(Commands)
  BY <1>1, HeadCommand
<1>4. PICK outcome \in {"accepted", "failed"} : inbox' = Append(inbox, AnswerTo(command, outcome))
  BY Zenon DEF ReplyControl
<1> DEFINE m == AnswerTo(command, outcome)
<1>5. m \in Replies /\ Refreshing(m)
  BY <1>3, AnswersAreReplies DEF Outcomes
<1>6. inbox' = Append(inbox, m)
  BY <1>4
<1> HIDE DEF m, command
<1>7. /\ <<m>> \in Seq(Replies) /\ inbox' = inbox \o <<m>>
      /\ \E k \in 1 .. Len(<<m>>) : Refreshing(<<m>>[k])
  BY <1>2, <1>5, <1>6, OneAnswer
<1> QED BY <1>1, <1>2, <1>3, <1>7, AnsweredKeeps

\* A question for a snapshot is answered with the task as it is, or refused.
LEMMA AnswerFetchKeeps == ViewInv /\ AnswerFetch => ViewInv'
<1> SUFFICES ASSUME ViewInv, AnswerFetch PROVE ViewInv'
  OBVIOUS
<1> DEFINE request == Head(requests)
           n == Len(events)
<1>1. /\ record \in Records /\ LogInv(events, record) /\ events \in Seq(Drafts)
      /\ n \in Nat /\ n >= 2 /\ inbox \in Seq(Messages) /\ requests \in Seq(Requests)
      /\ IsAt(events, n, record) /\ (record.approval <=> ApprovalAt(events, n))
  BY DEF ViewInv, LogInv, LogFits, StateTyped
<1>2. /\ requests # <<>> /\ request.kind = "fetch" /\ requests' = Tail(requests)
      /\ UNCHANGED <<record, events, safePoint, failing, commands, view, control, dropped>>
  BY DEF AnswerFetch, mainVars
<1>3. request \in Requests /\ requests' \in Seq(Requests)
  BY <1>1, <1>2, TailElements
<1>4. request \in Fetches
  BY <1>2, <1>3 DEF Requests
<1>5. PICK m : /\ inbox' = Append(inbox, m)
               /\ \/ m = SnapshotReply(request)
                  \/ m = [kind |-> "refused", why |-> request.why]
  BY Zenon DEF AnswerFetch
<1>6. m = SnapshotReply(request) =>
        /\ m \in Messages /\ m.kind = "snapshot" /\ m.sequence = n /\ Fits(events, m)
  <2> SUFFICES ASSUME m = SnapshotReply(request)
               PROVE  m \in Messages /\ m.kind = "snapshot" /\ m.sequence = n /\ Fits(events, m)
    OBVIOUS
  <2>1. m = [kind |-> "snapshot", why |-> request.why, record |-> record, sequence |-> n]
    BY DEF SnapshotReply
  <2>2. request.why \in Whys
    BY <1>4 DEF Fetches
  <2>3. m \in [kind : {"snapshot"}, why : Whys, record : Records, sequence : Nat]
    BY <1>1, <2>1, <2>2
  <2>4. m \in Messages
    BY <2>3 DEF Messages
  <2>5. m.kind = "snapshot" /\ m.sequence = n /\ m.record = record
    BY <2>1
  <2>6. m.sequence \in 2 .. Len(events)
    BY <1>1, <2>5
  <2> QED BY <1>1, <2>4, <2>5, <2>6 DEF Fits
<1>7. m = [kind |-> "refused", why |-> request.why] =>
        m \in Messages /\ m.kind = "refused" /\ Loses(m) /\ Fits(events, m)
  BY <1>4 DEF Messages, Fetches, Loses, Fits
<1>8. m \in Messages /\ Fits(events, m) /\ m.kind \in {"snapshot", "refused"}
      /\ (m.kind = "snapshot" => m.sequence = n) /\ (m.kind = "refused" => Loses(m))
  BY <1>5, <1>6, <1>7
<1>9. /\ inbox' \in Seq(Messages) /\ Len(inbox') = Len(inbox) + 1 /\ Len(inbox) \in Nat
      /\ \A k \in 1 .. Len(inbox) : inbox'[k] = inbox[k]
      /\ inbox'[Len(inbox) + 1] = m
  BY <1>1, <1>5, <1>8, AppendElements
<1>10. /\ \A k \in 1 .. Len(inbox') : k \in 1 .. Len(inbox) \/ k = Len(inbox) + 1
       /\ \A k \in 1 .. Len(inbox) : k \in 1 .. Len(inbox')
       /\ Len(inbox) + 1 \in 1 .. Len(inbox')
  BY <1>9
<1>11. StateTyped'
  BY <1>2, <1>3, <1>9 DEF ViewInv, StateTyped
<1>12. LogInv(events, record)' /\ ViewFits'
  BY <1>1, <1>2 DEF ViewInv, ViewFits, HasView
<1>13. InboxFits'
  BY <1>2, <1>8, <1>9, <1>10 DEF ViewInv, InboxFits
<1>14. \A k \in 1 .. Len(inbox) : Numbered(inbox[k]) => inbox[k].sequence \in 1 .. n
  BY <1>1 DEF ViewInv, InboxFits, Fits, Numbered
<1>15. NumbersGrow'
  <2>1. ASSUME NEW j \in 1 .. Len(inbox'), NEW k \in 1 .. Len(inbox'), j <= k,
               Numbered(inbox'[j]), Numbered(inbox'[k])
        PROVE  inbox'[j].sequence <= inbox'[k].sequence
    <3>1. CASE k \in 1 .. Len(inbox)
      <4>1. j \in 1 .. Len(inbox)
        BY <1>9, <2>1, <3>1
      <4> QED BY <1>9, <2>1, <3>1, <4>1 DEF ViewInv, NumbersGrow
    <3>2. CASE k = Len(inbox) + 1
      <4>1. inbox'[k].sequence = n
        BY <1>8, <1>9, <2>1, <3>2 DEF Numbered
      <4>2. CASE j \in 1 .. Len(inbox)
        BY <1>1, <1>9, <1>14, <2>1, <4>1, <4>2
      <4>3. CASE j = Len(inbox) + 1
        BY <1>1, <3>2, <4>1, <4>3
      <4> QED BY <1>10, <4>2, <4>3
    <3> QED BY <1>10, <3>1, <3>2
  <2>2. ASSUME HasView, NEW k \in 1 .. Len(inbox'), Numbered(inbox'[k])
        PROVE  view.sequence <= inbox'[k].sequence
    <3>1. CASE k \in 1 .. Len(inbox)
      BY <1>9, <2>2, <3>1 DEF ViewInv, NumbersGrow
    <3>2. CASE k = Len(inbox) + 1
      <4>1. inbox'[k].sequence = n
        BY <1>8, <1>9, <2>2, <3>2 DEF Numbered
      <4>2. view.sequence \in 1 .. n
        BY <2>2 DEF ViewInv, ViewFits
      <4> QED BY <1>1, <4>1, <4>2
    <3> QED BY <1>10, <3>1, <3>2
  <2> QED BY <1>2, <2>1, <2>2 DEF NumbersGrow, HasView
<1>16. ResumesAnswered'
  <2> SUFFICES ASSUME NEW k \in 1 .. Len(inbox'), inbox'[k].kind = "event",
                      inbox'[k].event.type = "resumed"
               PROVE  Running' \/ \E j \in 1 .. Len(inbox') : k < j /\ Refreshing(inbox'[j])
    BY DEF ResumesAnswered
  <2>1. k \in 1 .. Len(inbox) /\ inbox'[k] = inbox[k]
    BY <1>8, <1>9, <1>10
  <2>2. Running \/ \E j \in 1 .. Len(inbox) : k < j /\ Refreshing(inbox[j])
    BY <2>1 DEF ViewInv, ResumesAnswered
  <2>3. Running <=> Running'
    BY <1>2 DEF Running
  <2> QED BY <1>9, <1>10, <2>2, <2>3
<1>17. NewestIsComing' /\ ViewIsCorrected'
  <2>1. CASE m.kind = "snapshot"
    <3>1. HasNumber(inbox', Len(events')) /\ HasSnapshot(inbox')
      BY <1>2, <1>8, <1>9, <1>10, <2>1 DEF HasNumber, HasSnapshot, Numbered
    <3> QED BY <3>1 DEF NewestIsComing, ViewIsCorrected
  <2>2. CASE m.kind = "refused"
    <3>1. HasLoss(inbox')
      BY <1>8, <1>9, <1>10, <2>2 DEF HasLoss
    <3> QED BY <3>1 DEF NewestIsComing, ViewIsCorrected
  <2> QED BY <1>8, <2>1, <2>2
<1> QED BY <1>11, <1>12, <1>13, <1>15, <1>16, <1>17 DEF ViewInv

-----------------------------------------------------------------------------
(* The window takes a message. *)

LEMMA HeadTaken ==
  ASSUME ViewInv, inbox # <<>>, inbox' = Tail(inbox), UNCHANGED mainVars
  PROVE  /\ LogInv(events, record)' /\ InboxFits' /\ ResumesAnswered'
         /\ inbox' \in Seq(Messages) /\ Head(inbox) \in Messages /\ Fits(events, Head(inbox))
         /\ \A j, k \in 1 .. Len(inbox') :
              j <= k /\ Numbered(inbox'[j]) /\ Numbered(inbox'[k])
                => inbox'[j].sequence <= inbox'[k].sequence
         /\ \A k \in 1 .. Len(inbox') : Numbered(inbox'[k]) =>
              /\ inbox'[k].sequence \in 1 .. Len(events)
              /\ Numbered(Head(inbox)) => Head(inbox).sequence <= inbox'[k].sequence
              /\ HasView => view.sequence <= inbox'[k].sequence
              /\ LossIsNewer => inbox'[k].sequence < dropped
         /\ HasView /\ Numbered(Head(inbox)) => view.sequence <= Head(inbox).sequence
         /\ LossIsNewer /\ Numbered(Head(inbox)) => Head(inbox).sequence < dropped
         /\ Head(inbox).kind = "event" /\ Head(inbox).event.type = "resumed"
              => Running' \/ HasRefresh(inbox')
<1>1. inbox \in Seq(Messages)
  BY DEF ViewInv, StateTyped
<1>2. /\ inbox' \in Seq(Messages) /\ Head(inbox) \in Messages
      /\ Head(inbox) = inbox[1] /\ 1 \in 1 .. Len(inbox)
      /\ \A k \in 1 .. Len(inbox') : k + 1 \in 1 .. Len(inbox) /\ inbox'[k] = inbox[k + 1]
      /\ \A k \in 1 .. Len(inbox) :
           k = 1 \/ (k - 1 \in 1 .. Len(inbox') /\ inbox'[k - 1] = inbox[k])
  BY <1>1, TailElements
<1>3. /\ LogInv(events, record)' /\ events' = events
      /\ Running <=> Running'
  BY DEF ViewInv, mainVars, Running
<1>4. InboxFits' /\ Fits(events, Head(inbox))
  BY <1>2, <1>3 DEF ViewInv, InboxFits
<1>5. ResumesAnswered'
  <2> SUFFICES ASSUME NEW k \in 1 .. Len(inbox'), inbox'[k].kind = "event",
                      inbox'[k].event.type = "resumed"
               PROVE  Running' \/ \E j \in 1 .. Len(inbox') : k < j /\ Refreshing(inbox'[j])
    BY DEF ResumesAnswered
  <2>1. k + 1 \in 1 .. Len(inbox) /\ inbox'[k] = inbox[k + 1]
    BY <1>2
  <2>2. Running \/ \E j \in 1 .. Len(inbox) : k + 1 < j /\ Refreshing(inbox[j])
    BY <2>1 DEF ViewInv, ResumesAnswered
  <2>3. ASSUME NEW j \in 1 .. Len(inbox), k + 1 < j, Refreshing(inbox[j])
        PROVE  \E i \in 1 .. Len(inbox') : k < i /\ Refreshing(inbox'[i])
    <3>1. j # 1 /\ k < j - 1
      BY <2>1, <2>3
    <3>2. j - 1 \in 1 .. Len(inbox') /\ inbox'[j - 1] = inbox[j]
      BY <1>2, <3>1
    <3> QED BY <2>3, <3>1, <3>2
  <2> QED BY <1>3, <2>2, <2>3
<1>6. ASSUME NEW j \in 1 .. Len(inbox'), NEW k \in 1 .. Len(inbox'), j <= k,
             Numbered(inbox'[j]), Numbered(inbox'[k])
      PROVE  inbox'[j].sequence <= inbox'[k].sequence
  <2>1. j + 1 \in 1 .. Len(inbox) /\ k + 1 \in 1 .. Len(inbox) /\ j + 1 <= k + 1
        /\ inbox'[j] = inbox[j + 1] /\ inbox'[k] = inbox[k + 1]
    BY <1>2, <1>6
  <2> QED BY <1>6, <2>1 DEF ViewInv, NumbersGrow
<1>7. ASSUME NEW k \in 1 .. Len(inbox'), Numbered(inbox'[k])
      PROVE  /\ inbox'[k].sequence \in 1 .. Len(events)
             /\ Numbered(Head(inbox)) => Head(inbox).sequence <= inbox'[k].sequence
             /\ HasView => view.sequence <= inbox'[k].sequence
             /\ LossIsNewer => inbox'[k].sequence < dropped
  <2>1. k + 1 \in 1 .. Len(inbox) /\ inbox'[k] = inbox[k + 1] /\ 1 <= k + 1
    BY <1>2
  <2>2. Numbered(inbox[k + 1]) /\ Fits(events, inbox[k + 1])
    BY <1>7, <2>1 DEF ViewInv, InboxFits
  <2>3. inbox[k + 1].sequence \in 1 .. Len(events)
    <3>1. Len(events) \in Nat
      BY DEF ViewInv, LogInv, LogFits
    <3> QED BY <2>2, <3>1 DEF Fits, Numbered
  <2>4. Numbered(inbox[1]) => inbox[1].sequence <= inbox[k + 1].sequence
    BY <1>2, <2>1, <2>2 DEF ViewInv, NumbersGrow
  <2>5. HasView => view.sequence <= inbox[k + 1].sequence
    BY <2>1, <2>2 DEF ViewInv, NumbersGrow
  <2>6. LossIsNewer => inbox[k + 1].sequence < dropped
    BY <2>1, <2>2 DEF LossIsNewer
  <2> QED BY <1>2, <2>1, <2>3, <2>4, <2>5, <2>6
<1>8. /\ HasView /\ Numbered(Head(inbox)) => view.sequence <= Head(inbox).sequence
      /\ LossIsNewer /\ Numbered(Head(inbox)) => Head(inbox).sequence < dropped
  BY <1>2 DEF ViewInv, NumbersGrow, LossIsNewer
<1>9. ASSUME Head(inbox).kind = "event", Head(inbox).event.type = "resumed"
      PROVE  Running' \/ HasRefresh(inbox')
  <2>1. Running \/ \E j \in 1 .. Len(inbox) : 1 < j /\ Refreshing(inbox[j])
    BY <1>2, <1>9 DEF ViewInv, ResumesAnswered
  <2>2. ASSUME NEW j \in 1 .. Len(inbox), 1 < j, Refreshing(inbox[j])
        PROVE  HasRefresh(inbox')
    <3>1. j - 1 \in 1 .. Len(inbox') /\ inbox'[j - 1] = inbox[j]
      BY <1>2, <2>2
    <3> QED BY <2>2, <3>1 DEF HasRefresh
  <2> QED BY <1>3, <2>1, <2>2
<1> QED BY <1>2, <1>3, <1>4, <1>5, <1>6, <1>7, <1>8, <1>9

\* The numbers of what is left are not below what is shown then.
LEMMA TakenNumbers ==
  ASSUME ViewInv, inbox # <<>>, inbox' = Tail(inbox), UNCHANGED mainVars,
         \/ view' = view
         \/ view' = NoView
         \/ Numbered(Head(inbox)) /\ view'.sequence = Head(inbox).sequence
  PROVE  NumbersGrow'
<1>1. /\ \A j, k \in 1 .. Len(inbox') :
           j <= k /\ Numbered(inbox'[j]) /\ Numbered(inbox'[k])
             => inbox'[j].sequence <= inbox'[k].sequence
      /\ \A k \in 1 .. Len(inbox') : Numbered(inbox'[k]) =>
           /\ Numbered(Head(inbox)) => Head(inbox).sequence <= inbox'[k].sequence
           /\ HasView => view.sequence <= inbox'[k].sequence
  BY HeadTaken
<1> QED BY <1>1 DEF NumbersGrow, HasView

LEMMA TakenNewest ==
  ASSUME ViewInv, inbox # <<>>, inbox' = Tail(inbox), UNCHANGED mainVars,
         HasView' => HasView \/ Head(inbox).kind = "snapshot",
         HasView /\ view.sequence = Len(events) => HasView' /\ view'.sequence = Len(events),
         Numbered(Head(inbox)) /\ Head(inbox).sequence = Len(events) =>
           (HasView' /\ view'.sequence = Len(events)) \/ HasFetch(requests'),
         HasFetch(requests) => HasFetch(requests'),
         Loses(Head(inbox)) => dropped' = Len(events),
         dropped' = Len(events) \/ dropped' = dropped \/ ~LossIsNewer,
         HasView' => \/ view'.sequence \in 1 .. Len(events) /\ view' = view
                     \/ view'.sequence \in 1 .. Len(events)
                        /\ Numbered(Head(inbox)) /\ view'.sequence = Head(inbox).sequence
  PROVE  NewestIsComing'
<1> DEFINE n == Len(events)
<1>1. /\ inbox \in Seq(Messages) /\ n \in Nat /\ events' = events
  BY DEF ViewInv, StateTyped, LogInv, LogFits, mainVars
<1>2. \A k \in 1 .. Len(inbox') : Numbered(inbox'[k]) =>
        inbox'[k].sequence \in 1 .. n /\ (LossIsNewer => inbox'[k].sequence < dropped)
  BY HeadTaken
<1> SUFFICES ASSUME HasView' \/ HasSnapshot(inbox')
             PROVE  \/ HasView' /\ view'.sequence = n
                    \/ HasNumber(inbox', n) \/ HasLoss(inbox') \/ HasFetch(requests')
                    \/ LossIsNewer'
  BY <1>1 DEF NewestIsComing
<1>3. HasView \/ HasSnapshot(inbox)
  <2>1. Head(inbox).kind = "snapshot" => HasSnapshot(inbox)
    <3>1. Head(inbox) = inbox[1] /\ 1 \in 1 .. Len(inbox)
      BY <1>1, TailElements
    <3> QED BY <3>1 DEF HasSnapshot
  <2> QED BY <1>1, <2>1, TailHas
<1>4. \/ HasView /\ view.sequence = n
      \/ HasNumber(inbox, n) \/ HasLoss(inbox) \/ HasFetch(requests) \/ LossIsNewer
  BY <1>3 DEF ViewInv, NewestIsComing
<1>5. CASE dropped' = n
  <2>1. CASE HasNumber(inbox', n) \/ (HasView' /\ view'.sequence = n)
    BY <2>1
  <2>2. CASE ~HasNumber(inbox', n) /\ ~(HasView' /\ view'.sequence = n)
    <3>1. ASSUME NEW k \in 1 .. Len(inbox'), Numbered(inbox'[k])
          PROVE  inbox'[k].sequence < n
      <4>1. inbox'[k].sequence # n
        BY <2>2, <3>1 DEF HasNumber
      <4> QED BY <1>1, <1>2, <3>1, <4>1
    <3>2. HasView' => view'.sequence < n
      BY <1>1, <2>2
    <3> QED BY <1>5, <3>1, <3>2 DEF LossIsNewer
  <2> QED BY <2>1, <2>2
<1>6. CASE LossIsNewer /\ dropped' = dropped
  <2>1. HasView' => view'.sequence < dropped
    <3>1. Numbered(Head(inbox)) => Head(inbox).sequence < dropped
      BY <1>6, HeadTaken
    <3>2. view' = view => HasView = HasView'
      BY DEF HasView
    <3>3. HasView => view.sequence < dropped
      BY <1>6 DEF LossIsNewer
    <3> QED BY <3>1, <3>2, <3>3
  <2> QED BY <1>2, <1>6, <2>1 DEF LossIsNewer
<1>7. CASE HasNumber(inbox, n)
  BY <1>1, <1>7, TailHas
<1>8. CASE HasLoss(inbox)
  BY <1>1, <1>5, <1>8, TailHas
<1> QED BY <1>4, <1>5, <1>6, <1>7, <1>8

LEMMA TakenExact ==
  ASSUME ViewInv, inbox # <<>>, inbox' = Tail(inbox), UNCHANGED mainVars,
         HasView' =>
           \/ Exact(events, view')
           \/ /\ HasView /\ Head(inbox).kind # "snapshot"
              /\ ~Exact(events, view) \/ HasRefresh(inbox') \/ Running',
         HasFetch(requests) => HasFetch(requests'),
         Head(inbox).kind # "snapshot" => (dropped # 0 => dropped' # 0),
         Loses(Head(inbox)) => dropped' # 0,
         Refreshing(Head(inbox)) => HasFetch(requests') \/ dropped' # 0
  PROVE  ViewIsCorrected'
<1>1. /\ inbox \in Seq(Messages) /\ events' = events
      /\ Running <=> Running'
  BY DEF ViewInv, StateTyped, mainVars, Running
<1> SUFFICES ASSUME HasView', ~Exact(events, view')
             PROVE  \/ HasFetch(requests') \/ HasSnapshot(inbox') \/ HasLoss(inbox')
                    \/ HasRefresh(inbox') \/ Running' \/ dropped' # 0
  BY <1>1 DEF ViewIsCorrected
<1>2. CASE HasRefresh(inbox') \/ Running'
  BY <1>2
<1>3. CASE ~HasRefresh(inbox') /\ ~Running'
  <2>1. HasView /\ Head(inbox).kind # "snapshot" /\ ~Exact(events, view)
    BY <1>3
  <2>2. \/ HasFetch(requests) \/ HasSnapshot(inbox) \/ HasLoss(inbox) \/ HasRefresh(inbox)
        \/ Running \/ dropped # 0
    BY <2>1 DEF ViewInv, ViewIsCorrected
  <2> QED BY <1>1, <1>3, <2>1, <2>2, TailHas
<1> QED BY <1>2, <1>3

LEMMA NotifyTypes ==
  ASSUME ViewInv, NEW v, NEW queued \in Seq(Requests), Notify(v, queued)
  PROVE  /\ control' \in Controls
         /\ requests' \in Seq(Requests) /\ (HasFetch(queued) => HasFetch(requests'))
<1>1. control \in Controls
  BY Typed
<1>2. CASE control' = control /\ requests' = queued
  BY <1>1, <1>2
<1>3. CASE /\ control' = [control EXCEPT !.phase = "fetching"]
           /\ requests' = queued \o <<Fetch("control")>>
  <2> DEFINE m == Fetch("control")
  <2>1. m \in Requests /\ Append(queued, m) \in Seq(Requests) /\ HasFetch(Append(queued, m))
    BY RequestsGrow DEF Fetch, Requests, Fetches, Whys
  <2>2. requests' = Append(queued, m)
    <3>1. requests' = queued \o <<m>>
      BY <1>3
    <3> HIDE DEF m
    <3> QED BY <2>1, <3>1, AppendIsConcat
  <2>3. control' \in Controls
    BY <1>1, <1>3 DEF Controls
  <2> QED BY <2>1, <2>2, <2>3
<1> QED BY <1>2, <1>3 DEF Notify

LEMMA ReceiveStartedKeeps == ViewInv /\ ReceiveStarted => ViewInv'
<1> SUFFICES ASSUME ViewInv, ReceiveStarted PROVE ViewInv'
  OBVIOUS
<1>1. /\ inbox # <<>> /\ inbox' = Tail(inbox) /\ Head(inbox).kind = "started"
      /\ UNCHANGED mainVars /\ UNCHANGED <<view, control, dropped>>
      /\ requests' = Append(requests, Fetch("start"))
  BY DEF ReceiveStarted
<1>2. requests \in Seq(Requests)
  BY DEF ViewInv, StateTyped
<1>3. requests' \in Seq(Requests) /\ HasFetch(requests')
  BY <1>1, <1>2, RequestsGrow DEF Whys
<1>4. /\ LogInv(events, record)' /\ InboxFits' /\ ResumesAnswered' /\ inbox' \in Seq(Messages)
  BY <1>1, HeadTaken
<1>5. StateTyped' /\ ViewFits'
  BY <1>1, <1>3, <1>4 DEF ViewInv, StateTyped, ViewFits, HasView, mainVars
<1>6. NumbersGrow'
  BY <1>1, TakenNumbers
<1>7. NewestIsComing' /\ ViewIsCorrected'
  BY <1>3 DEF NewestIsComing, ViewIsCorrected
<1> QED BY <1>4, <1>5, <1>6, <1>7 DEF ViewInv

LEMMA ReceiveRefusalKeeps == ViewInv /\ ReceiveRefusal => ViewInv'
<1> SUFFICES ASSUME ViewInv, ReceiveRefusal PROVE ViewInv'
  OBVIOUS
<1>1. /\ inbox # <<>> /\ inbox' = Tail(inbox) /\ Head(inbox).kind = "refused"
      /\ UNCHANGED mainVars /\ UNCHANGED <<requests, view>> /\ dropped' = Len(events)
      /\ control' = NoControl \/ control' = control
  BY DEF ReceiveRefusal
<1>2. Len(events) \in Nat /\ Len(events) >= 2
  BY DEF ViewInv, LogInv, LogFits
<1>3. /\ LogInv(events, record)' /\ InboxFits' /\ ResumesAnswered' /\ inbox' \in Seq(Messages)
  BY <1>1, HeadTaken
<1>4. StateTyped' /\ ViewFits'
  <2>1. NoControl \in Controls
    BY DEF NoControl, Controls
  <2> QED BY <1>1, <1>2, <1>3, <2>1 DEF ViewInv, StateTyped, ViewFits, HasView, mainVars
<1>5. NumbersGrow'
  BY <1>1, TakenNumbers
<1>6. HasView' = HasView /\ ~Numbered(Head(inbox))
  BY <1>1 DEF HasView, Numbered
<1>7. HasView => view.sequence \in 1 .. Len(events)
  BY DEF ViewInv, ViewFits
<1>8. NewestIsComing'
  BY <1>1, <1>6, <1>7, TakenNewest
<1>9. ViewIsCorrected'
  BY <1>1, <1>2 DEF ViewIsCorrected
<1> QED BY <1>3, <1>4, <1>5, <1>8, <1>9 DEF ViewInv

LEMMA ReceiveControlKeeps == ViewInv /\ ReceiveControl => ViewInv'
<1> SUFFICES ASSUME ViewInv, ReceiveControl PROVE ViewInv'
  OBVIOUS
<1> DEFINE m == Head(inbox)
<1>1. /\ inbox # <<>> /\ inbox' = Tail(inbox) /\ m.kind = "control"
      /\ UNCHANGED mainVars /\ view' = view
  BY DEF ReceiveControl
<1>2. Len(events) \in Nat /\ Len(events) >= 2 /\ requests \in Seq(Requests)
      /\ control \in Controls
  BY DEF ViewInv, LogInv, LogFits, StateTyped
<1>3. /\ LogInv(events, record)' /\ InboxFits' /\ ResumesAnswered' /\ inbox' \in Seq(Messages)
  BY <1>1, HeadTaken
<1>4. \/ /\ control' = [control EXCEPT !.phase = "fetching"] /\ dropped' = dropped
         /\ requests' = Append(requests, Fetch("control"))
         /\ m.outcome \in {"accepted", "pending"}
      \/ /\ control' \in {[control EXCEPT !.phase = "waiting"], NoControl}
         /\ requests' = requests /\ dropped' = dropped /\ m.outcome \in {"pending", "refused"}
      \/ /\ control' \in {NoControl, control} /\ requests' = requests
         /\ dropped' = Len(events) /\ m.outcome \in {"failed", "lost"}
  BY DEF ReceiveControl
<1>5. requests' = Append(requests, Fetch("control"))
        => requests' \in Seq(Requests) /\ HasFetch(requests')
  BY <1>2, RequestsGrow DEF Whys
<1>6. requests' \in Seq(Requests) /\ (HasFetch(requests) => HasFetch(requests'))
  BY <1>2, <1>4, <1>5
<1>7. control' \in Controls
  BY <1>2, <1>4 DEF NoControl, Controls
<1>8. dropped' = dropped \/ dropped' = Len(events)
  BY <1>4
<1>9. StateTyped' /\ ViewFits'
  BY <1>1, <1>2, <1>3, <1>6, <1>7, <1>8 DEF ViewInv, StateTyped, ViewFits, HasView, mainVars
<1>10. NumbersGrow'
  BY <1>1, TakenNumbers
<1>11. HasView' = HasView /\ ~Numbered(m)
  BY <1>1 DEF HasView, Numbered
<1>12. HasView => view.sequence \in 1 .. Len(events)
  BY DEF ViewInv, ViewFits
<1>13. Loses(m) => dropped' = Len(events)
  BY <1>1, <1>4 DEF Loses
<1>14. NewestIsComing'
  BY <1>1, <1>6, <1>8, <1>11, <1>12, <1>13, TakenNewest
<1>15. Refreshing(m) => HasFetch(requests') \/ dropped' # 0
  BY <1>2, <1>4, <1>5 DEF Refreshing
<1>16. ViewIsCorrected'
  <2>1. dropped # 0 => dropped' # 0
    BY <1>2, <1>8
  <2>2. Loses(m) => dropped' # 0
    BY <1>2, <1>13
  <2>3. HasView' => Exact(events, view')
          \/ (HasView /\ m.kind # "snapshot" /\ ~Exact(events, view))
    BY <1>1, <1>11
  <2> QED BY <1>1, <1>6, <1>15, <2>1, <2>2, <2>3, TakenExact
<1> QED BY <1>3, <1>9, <1>10, <1>14, <1>16 DEF ViewInv

LEMMA ReceiveEventKeeps == ViewInv /\ ReceiveEvent => ViewInv'
<1> SUFFICES ASSUME ViewInv, ReceiveEvent PROVE ViewInv'
  OBVIOUS
<1> DEFINE m == Head(inbox)
           n == Len(events)
<1>1. /\ inbox # <<>> /\ inbox' = Tail(inbox) /\ m.kind = "event"
      /\ UNCHANGED mainVars /\ dropped' = dropped
  BY DEF ReceiveEvent
<1>2. /\ n \in Nat /\ requests \in Seq(Requests) /\ LogFits(events) /\ events \in Seq(Drafts)
      /\ control \in Controls
      /\ events' = events
  BY <1>1 DEF ViewInv, LogInv, LogFits, StateTyped, mainVars
<1>3. /\ LogInv(events, record)' /\ InboxFits' /\ ResumesAnswered' /\ inbox' \in Seq(Messages)
      /\ m \in Messages /\ Fits(events, m)
      /\ m.event.type = "resumed" => Running' \/ HasRefresh(inbox')
  BY <1>1, HeadTaken
<1>4. m.sequence \in 1 .. n /\ m.event = events[m.sequence] /\ m.event \in Drafts
  <2>1. m.sequence \in 1 .. n /\ m.event = events[m.sequence]
    BY <1>1, <1>3 DEF Fits
  <2> QED BY <1>2, <2>1
<1>5. Numbered(m) /\ ~Loses(m) /\ ~Refreshing(m) /\ m.kind # "snapshot"
  BY <1>1 DEF Numbered, Loses, Refreshing
<1>6. HasView => view.sequence \in 1 .. n /\ view.sequence <= m.sequence
  <2>1. HasView => view.sequence \in 1 .. n
    BY DEF ViewInv, ViewFits
  <2> QED BY <1>1, <1>5, <2>1, HeadTaken
<1>7. ASSUME control' = control, requests' \in Seq(Requests), view' = view,
             HasFetch(requests')
      PROVE  ViewInv'
  <2>1. StateTyped' /\ ViewFits'
    BY <1>1, <1>2, <1>3, <1>7 DEF ViewInv, StateTyped, ViewFits, HasView, mainVars
  <2>2. NumbersGrow'
    BY <1>1, <1>7, TakenNumbers
  <2>3. NewestIsComing' /\ ViewIsCorrected'
    BY <1>7 DEF NewestIsComing, ViewIsCorrected
  <2> QED BY <1>3, <2>1, <2>2, <2>3 DEF ViewInv
<1>8. CASE ~HasView
  <2>1. /\ requests' = Append(requests, Fetch("event"))
        /\ view' = view /\ control' = control
    BY <1>8 DEF ReceiveEvent
  <2>2. requests' \in Seq(Requests) /\ HasFetch(requests')
    BY <1>2, <2>1, RequestsGrow DEF Whys
  <2> QED BY <1>7, <2>1, <2>2
<1>9. CASE HasView /\ m.sequence <= view.sequence /\ view' = view
           /\ UNCHANGED <<control, requests>>
  <2>1. StateTyped' /\ ViewFits'
    BY <1>1, <1>2, <1>3, <1>9 DEF ViewInv, StateTyped, ViewFits, HasView, mainVars
  <2>2. NumbersGrow'
    BY <1>1, <1>9, TakenNumbers
  <2>3. HasView' /\ HasView
    BY <1>9 DEF HasView
  <2>4. m.sequence = n => view'.sequence = n
    BY <1>4, <1>6, <1>9
  <2>5. view'.sequence \in 1 .. n
    BY <1>6, <1>9
  <2>6. NewestIsComing'
    BY <1>1, <1>5, <1>9, <2>3, <2>4, <2>5, TakenNewest
  <2>7. Exact(events, view') \/ ~Exact(events, view)
    BY <1>9
  <2>8. ViewIsCorrected'
    BY <1>1, <1>5, <1>9, <2>3, <2>7, TakenExact
  <2> QED BY <1>3, <2>1, <2>2, <2>6, <2>8 DEF ViewInv
<1>10. CASE HasView /\ view' = view /\ control' = control
            /\ requests' = Append(requests, Fetch("event"))
  <2>1. requests' \in Seq(Requests) /\ HasFetch(requests')
    BY <1>2, <1>10, RequestsGrow DEF Whys
  <2> QED BY <1>7, <1>10, <2>1
<1>11. CASE /\ HasView /\ m.sequence = view.sequence + 1
            /\ view' = Project(view, m.sequence, m.event) /\ Notify(view', requests)
  <2> DEFINE k == view.sequence
  <2>1. /\ k \in 1 .. n /\ k + 1 <= n /\ m.sequence = k + 1 /\ k + 1 \in 1 .. n
        /\ m.event = events[k + 1]
    BY <1>2, <1>4, <1>6, <1>11
  <2>2. Shows(events, k, view) /\ view.status \in Statuses /\ view.approval \in BOOLEAN
    BY <1>11 DEF ViewInv, ViewFits
  <2>3. view' = Project(view, k + 1, events[k + 1])
    BY <1>11, <2>1
  <2>4. /\ Shows(events, k + 1, view')
        /\ StatusIs(events, k, view.status) /\ events[k + 1].type # "resumed"
             => StatusIs(events, k + 1, view'.status)
    <3>1. k \in Nat
      BY <2>1
    <3> HIDE DEF k
    <3> QED BY <1>2, <2>1, <2>2, <2>3, <3>1, ProjectedMoment
  <2>5. /\ view'.sequence = k + 1
        /\ view'.status \in Statuses /\ view'.approval \in BOOLEAN
    <3>1. events[k + 1].type = "state_changed" => events[k + 1].to \in Statuses
      BY <1>2, <2>1 DEF LogFits, EventFits
    <3> QED BY <2>2, <2>3, <3>1 DEF Project, Statuses
  <2>6. HasView' /\ HasView
    <3>1. view'.sequence # 0
      BY <2>1, <2>5
    <3> QED BY <1>11, <3>1 DEF HasView, NoView
  <2>7. ViewFits'
    <3>1. view'.sequence \in 1 .. n
      BY <2>1, <2>5
    <3>2. Shows(events, view'.sequence, view')
      BY <2>4, <2>5
    <3> QED BY <1>2, <2>5, <3>1, <3>2 DEF ViewFits
  <2>8. /\ control' \in Controls
        /\ requests' \in Seq(Requests) /\ (HasFetch(requests) => HasFetch(requests'))
    BY <1>2, <1>11, NotifyTypes
  <2>9. StateTyped'
    BY <1>1, <1>2, <1>3, <2>8 DEF ViewInv, StateTyped, mainVars
  <2>10. NumbersGrow'
    <3>1. view'.sequence = m.sequence
      BY <2>1, <2>5
    <3> QED BY <1>1, <1>5, <3>1, TakenNumbers
  <2>11. NewestIsComing'
    <3>1. view'.sequence = m.sequence /\ view'.sequence \in 1 .. n
      BY <2>1, <2>5
    <3>2. view.sequence # n
      BY <1>2, <2>1
    <3> QED BY <1>1, <1>5, <2>6, <2>8, <3>1, <3>2, TakenNewest
  <2>12. Exact(events, view') \/ ~Exact(events, view) \/ HasRefresh(inbox') \/ Running'
    <3> DEFINE type == events[k + 1].type
    <3>1. k \in Nat
      BY <2>1
    <3>2. /\ type = "approval.requested" => ApprovalAt(events, k + 1)
          /\ type \in {"approval.resolved", "resumed"} => ~ApprovalAt(events, k + 1)
          /\ type \notin {"approval.requested", "approval.resolved", "resumed"}
               => (ApprovalAt(events, k + 1) <=> ApprovalAt(events, k))
      <4> HIDE DEF k
      <4> QED BY <1>2, <2>1, <3>1, NextApproval
    <3>3. /\ type = "approval.requested" => view'.approval = TRUE
          /\ type = "approval.resolved" => view'.approval = FALSE
          /\ type \notin {"approval.requested", "approval.resolved"}
               => view'.approval = view.approval
      BY <2>3 DEF Project
    <3>4. CASE type = "resumed"
      BY <1>3, <2>1, <3>4
    <3>5. ASSUME type # "resumed", view.approval <=> ApprovalAt(events, k)
          PROVE  view'.approval <=> ApprovalAt(events, k + 1)
      <4>1. CASE type = "approval.requested"
        BY <3>2, <3>3, <4>1
      <4>2. CASE type = "approval.resolved"
        BY <3>2, <3>3, <4>2
      <4>3. CASE type \notin {"approval.requested", "approval.resolved"}
        BY <3>2, <3>3, <3>5, <4>3
      <4> QED BY <4>1, <4>2, <4>3
    <3>6. ASSUME type # "resumed", Exact(events, view) PROVE Exact(events, view')
      <4>1. view.approval <=> ApprovalAt(events, k)
        BY <3>6 DEF Exact
      <4>2. StatusIs(events, k, view.status)
        BY <3>6 DEF Exact
      <4>3. /\ view'.approval <=> ApprovalAt(events, k + 1)
            /\ StatusIs(events, k + 1, view'.status)
        BY <2>4, <3>5, <3>6, <4>1, <4>2
      <4> QED BY <2>5, <4>3 DEF Exact
    <3> QED BY <3>4, <3>6
  <2>13. ViewIsCorrected'
    BY <1>1, <1>5, <2>6, <2>8, <2>12, TakenExact
  <2> QED BY <1>3, <2>7, <2>9, <2>10, <2>11, <2>13 DEF ViewInv
<1>12. HasView => Apply(view, m.sequence, m.event)
  BY DEF ReceiveEvent
<1>13. HasView => \/ m.sequence <= view.sequence /\ view' = view
                     /\ UNCHANGED <<control, requests>>
                  \/ /\ view' = view /\ control' = control
                     /\ requests' = Append(requests, Fetch("event"))
                  \/ /\ m.sequence = view.sequence + 1
                     /\ view' = Project(view, m.sequence, m.event) /\ Notify(view', requests)
  <2> HIDE DEF m
  <2> QED BY <1>12, Zenon DEF Apply
<1> QED BY <1>8, <1>9, <1>10, <1>11, <1>13

LEMMA ReceiveSnapshotKeeps == ViewInv /\ ReceiveSnapshot => ViewInv'
<1> SUFFICES ASSUME ViewInv, ReceiveSnapshot PROVE ViewInv'
  OBVIOUS
<1> DEFINE m == Head(inbox)
           n == Len(events)
<1>1. /\ inbox # <<>> /\ inbox' = Tail(inbox) /\ m.kind = "snapshot"
      /\ UNCHANGED mainVars /\ dropped' = IF m.sequence >= dropped THEN 0 ELSE dropped
      /\ view' = Replaced(m)
      /\ (control' = NoControl /\ requests' = requests) \/ Notify(view', requests)
  BY DEF ReceiveSnapshot
<1>2. /\ n \in Nat /\ requests \in Seq(Requests) /\ dropped \in 0 .. n /\ events' = events
      /\ safePoint' = safePoint /\ failing' = failing
  BY <1>1 DEF ViewInv, LogInv, LogFits, StateTyped, mainVars
<1>3. /\ LogInv(events, record)' /\ InboxFits' /\ ResumesAnswered' /\ inbox' \in Seq(Messages)
      /\ m \in Messages /\ Fits(events, m)
  BY <1>1, HeadTaken
<1>4. /\ m.sequence \in 2 .. n
      /\ IsAt(events, m.sequence, m.record)
      /\ m.record.approval <=> ApprovalAt(events, m.sequence)
      /\ m.record \in Records
  BY <1>1, <1>3 DEF Fits, Messages, Replies
<1>5. Numbered(m) /\ ~Loses(m) /\ ~Refreshing(m)
  BY <1>1 DEF Numbered, Loses, Refreshing
<1>6. HasView => view.sequence \in 1 .. n /\ view.sequence <= m.sequence
  <2>1. HasView => view.sequence \in 1 .. n
    BY DEF ViewInv, ViewFits
  <2> QED BY <1>1, <1>5, <2>1, HeadTaken
<1>7. /\ view'.sequence = m.sequence /\ view'.status = m.record.status
      /\ view'.approval = m.record.approval /\ view'.result = m.record.result
  BY <1>1 DEF Replaced
<1>8. HasView'
  <2>1. view'.sequence # 0
    BY <1>4, <1>7
  <2> QED BY <2>1 DEF HasView, NoView
<1>9. ViewFits' /\ Exact(events, view')
  <2>1. view'.sequence \in 1 .. n
    BY <1>2, <1>4, <1>7
  <2>2. view'.status \in Statuses /\ view'.approval \in BOOLEAN
    BY <1>4, <1>7 DEF Records
  <2>3. StatusIs(events, view'.sequence, view'.status)
    BY <1>4, <1>7 DEF IsAt
  <2>4. HasType(events, view'.sequence, Finals) => HasType(events, view'.sequence, Ends)
    BY DEF HasType, Finals, Ends
  <2>5. Shows(events, view'.sequence, view')
    BY <1>4, <1>7, <2>3, <2>4 DEF IsAt, Shows
  <2>6. Exact(events, view')
    BY <1>4, <1>7, <2>3 DEF Exact
  <2> QED BY <1>2, <2>1, <2>2, <2>5, <2>6 DEF ViewFits
<1>10. /\ control' \in Controls
       /\ requests' \in Seq(Requests) /\ (HasFetch(requests) => HasFetch(requests'))
  <2>1. CASE control' = NoControl /\ requests' = requests
    BY <1>2, <2>1 DEF NoControl, Controls
  <2>2. CASE Notify(view', requests)
    BY <1>2, <2>2, NotifyTypes
  <2> QED BY <1>1, <2>1, <2>2
<1>11. StateTyped'
  <2>1. dropped' \in 0 .. n
    BY <1>1, <1>2
  <2>2. /\ safePoint' \in {"none", "pause", "cancel"} /\ failing' \in BOOLEAN
        /\ commands' \in Seq(Commands)
    BY <1>1 DEF ViewInv, StateTyped, mainVars
  <2> QED BY <1>2, <1>3, <1>10, <2>1, <2>2 DEF StateTyped
<1>12. NumbersGrow'
  BY <1>1, <1>5, <1>7, TakenNumbers
<1>13. NewestIsComing'
  <2>1. dropped' = dropped \/ ~LossIsNewer
    <3>1. LossIsNewer => m.sequence < dropped
      BY <1>1, <1>5, HeadTaken
    <3> QED BY <1>1, <1>2, <1>4, <3>1
  <2>2. HasView /\ view.sequence = n => view'.sequence = n
    BY <1>2, <1>4, <1>6, <1>7
  <2>3. view'.sequence \in 1 .. n
    BY <1>4, <1>7
  <2> QED BY <1>1, <1>5, <1>7, <1>8, <1>10, <2>1, <2>2, <2>3, TakenNewest
<1>14. ViewIsCorrected'
  BY <1>2, <1>9 DEF ViewIsCorrected
<1> QED BY <1>3, <1>9, <1>11, <1>12, <1>13, <1>14 DEF ViewInv

-----------------------------------------------------------------------------
(* The window asks, gives up, or starts anew. *)

LEMMA AskedKeeps ==
  ASSUME ViewInv, UNCHANGED <<mainVars, inbox, view, dropped>>,
         control' \in Controls,
         requests' \in Seq(Requests), HasFetch(requests) => HasFetch(requests')
  PROVE  ViewInv'
<1>1. /\ events' = events /\ record' = record /\ safePoint' = safePoint /\ failing' = failing
      /\ commands' = commands /\ inbox' = inbox /\ view' = view /\ dropped' = dropped
  BY DEF mainVars
<1>2. LogInv(events, record)' /\ InboxFits' /\ NumbersGrow' /\ ResumesAnswered' /\ ViewFits'
  BY <1>1 DEF ViewInv, InboxFits, NumbersGrow, ResumesAnswered, ViewFits, HasView, Running
<1>3. StateTyped'
  BY <1>1 DEF ViewInv, StateTyped
<1>4. NewestIsComing' /\ ViewIsCorrected'
  BY <1>1 DEF ViewInv, NewestIsComing, ViewIsCorrected, LossIsNewer, HasView, Running
<1> QED BY <1>2, <1>3, <1>4 DEF ViewInv

LEMMA CallControlKeeps ==
  ASSUME ViewInv, NEW action \in Actions, CallControl(action)
  PROVE  ViewInv'
<1> DEFINE m == [kind |-> "control", action |-> action, after |-> view.sequence]
<1>1. /\ requests \in Seq(Requests) /\ view.sequence \in Nat
  BY DEF ViewInv, StateTyped, ViewFits, CallControl
<1>2. control' \in Controls
  BY DEF CallControl, Controls
<1>3. requests' = Append(requests, m) /\ m \in Requests
  BY <1>1 DEF CallControl, Requests
<1> HIDE DEF m
<1>4. requests' \in Seq(Requests) /\ (HasFetch(requests) => HasFetch(requests'))
  BY <1>1, <1>3, AppendElements DEF HasFetch
<1>5. UNCHANGED <<mainVars, inbox, view, dropped>>
  BY DEF CallControl
<1> QED BY <1>2, <1>4, <1>5, AskedKeeps

LEMMA GiveUpWaitingKeeps == ViewInv /\ GiveUpWaiting => ViewInv'
<1> SUFFICES ASSUME ViewInv, GiveUpWaiting PROVE ViewInv'
  OBVIOUS
<1>1. UNCHANGED <<mainVars, inbox, view, dropped>> /\ requests' = requests
  BY DEF GiveUpWaiting
<1>2. control' \in Controls
  BY DEF GiveUpWaiting, NoControl, Controls
<1>3. requests' \in Seq(Requests)
  BY <1>1 DEF ViewInv, StateTyped
<1> QED BY <1>1, <1>2, <1>3, AskedKeeps

\* A window without a task, with nothing on its way, has nothing to be wrong about.
LEMMA ReloadKeeps == ViewInv /\ Reload => ViewInv'
<1> SUFFICES ASSUME ViewInv, Reload PROVE ViewInv'
  OBVIOUS
<1>1. /\ UNCHANGED <<record, events, safePoint, failing>>
      /\ view' = NoView /\ control' = NoControl /\ dropped' = 0
      /\ inbox' = <<>> /\ requests' = <<>>
      /\ commands' = [k \in DOMAIN commands |-> [commands[k] EXCEPT !.lost = TRUE]]
  BY DEF Reload
<1>2. LogInv(events, record)' /\ Len(events) \in Nat /\ events' = events
  BY <1>1 DEF ViewInv, LogInv, LogFits
<1>3. Len(<<>>) = 0 /\ \A i \in 1 .. 0 : FALSE
  OBVIOUS
<1>4. ~HasView' /\ ~HasSnapshot(inbox')
  BY <1>1, <1>3 DEF HasView, HasSnapshot
<1>5. StateTyped'
  <2>1. safePoint' \in {"none", "pause", "cancel"} /\ failing' \in BOOLEAN
    BY <1>1 DEF ViewInv, StateTyped
  <2>2. NoControl \in Controls
    BY DEF NoControl, Controls
  <2>3. <<>> \in Seq(Messages) /\ <<>> \in Seq(Requests)
    OBVIOUS
  <2>4. 0 \in 0 .. Len(events)
    BY <1>2
  <2>5. commands' \in Seq(Commands)
    <3>1. commands \in Seq(Commands) /\ Len(commands) \in Nat
      BY DEF ViewInv, StateTyped
    <3>2. \A k \in 1 .. Len(commands) : [commands[k] EXCEPT !.lost = TRUE] \in Commands
      <4> TAKE k \in 1 .. Len(commands)
      <4>1. commands[k] \in Commands
        BY <3>1, ElementOfSeq
      <4> QED BY <4>1 DEF Commands
    <3>3. commands' = [k \in 1 .. Len(commands) |-> [commands[k] EXCEPT !.lost = TRUE]]
      BY <1>1, <3>1
    <3> QED BY <3>1, <3>2, <3>3
  <2> QED BY <1>1, <1>2, <2>1, <2>2, <2>3, <2>4, <2>5 DEF StateTyped
<1>6. InboxFits' /\ NumbersGrow' /\ ResumesAnswered'
  BY <1>1, <1>3, <1>4 DEF InboxFits, NumbersGrow, ResumesAnswered
<1>7. ViewFits' /\ NewestIsComing' /\ ViewIsCorrected'
  BY <1>4 DEF ViewFits, NewestIsComing, ViewIsCorrected
<1> QED BY <1>2, <1>5, <1>6, <1>7 DEF ViewInv

-----------------------------------------------------------------------------
(* The theorems. *)

LEMMA InitFits == Init => ViewInv
<1> SUFFICES ASSUME Init PROVE ViewInv
  OBVIOUS
<1> DEFINE a == [kind |-> "event", sequence |-> 1, event |-> Event("created", "none")]
           b == [kind |-> "event", sequence |-> 2,
                 event |-> Event("state_changed", "planning")]
           c == [kind |-> "started"]
<1>1. /\ inbox = <<a, b, c>> /\ requests = <<>> /\ view = NoView /\ control = NoControl
      /\ dropped = 0 /\ safePoint = "none" /\ failing = FALSE /\ commands = <<>>
      /\ events = <<Event("created", "none"), Event("state_changed", "planning")>>
  BY DEF Init
<1>2. LogInv(events, record)
  <2>1. 1 \in Nat /\ FALSE \in BOOLEAN
    OBVIOUS
  <2> QED BY <2>1, InitialLog DEF Init
<1>3. /\ Len(events) = 2 /\ events[1] = Event("created", "none")
      /\ events[2] = Event("state_changed", "planning")
  BY <1>1
<1>4. a \in Messages /\ b \in Messages /\ c \in Messages
  <2>1. Event("created", "none") \in Drafts /\ Event("state_changed", "planning") \in Drafts
    BY DEF Event, Drafts, EventTypes, Statuses
  <2>2. a \in Messages
    BY <2>1 DEF Messages
  <2>3. b \in Messages
    BY <2>1 DEF Messages
  <2>4. c \in Messages
    BY DEF Messages
  <2> QED BY <2>2, <2>3, <2>4
<1>5. Fits(events, a) /\ Fits(events, b) /\ Fits(events, c)
  BY <1>3 DEF Fits
<1>6. /\ a.kind = "event" /\ a.sequence = 1 /\ a.event.type = "created"
      /\ b.kind = "event" /\ b.sequence = 2 /\ b.event.type = "state_changed"
      /\ c.kind = "started"
  BY DEF Event
<1> HIDE DEF a, b, c
<1>7. /\ inbox \in Seq(Messages) /\ Len(inbox) = 3
      /\ inbox[1] = a /\ inbox[2] = b /\ inbox[3] = c
  BY <1>1, <1>4
<1>8. \A k \in 1 .. 3 : k = 1 \/ k = 2 \/ k = 3
  OBVIOUS
<1>9. ~HasView /\ ~HasSnapshot(inbox)
  BY <1>1, <1>6, <1>7, <1>8 DEF HasView, HasSnapshot
<1>10. StateTyped
  <2>1. requests \in Seq(Requests) /\ commands \in Seq(Commands)
    BY <1>1
  <2>2. control \in Controls
    BY <1>1 DEF NoControl, Controls
  <2>3. /\ dropped \in 0 .. Len(events) /\ safePoint \in {"none", "pause", "cancel"}
        /\ failing \in BOOLEAN
    <3>1. 0 \in 0 .. 2 /\ FALSE \in BOOLEAN
      OBVIOUS
    <3> QED BY <1>1, <1>3, <3>1, Zenon
  <2> QED BY <1>7, <2>1, <2>2, <2>3 DEF StateTyped
<1>11. InboxFits
  BY <1>5, <1>7, <1>8 DEF InboxFits
<1>12. NumbersGrow
  <2>1. ~Numbered(c)
    BY <1>6 DEF Numbered
  <2> QED BY <1>6, <1>7, <1>8, <1>9, <2>1 DEF NumbersGrow
<1>13. ResumesAnswered
  BY <1>6, <1>7, <1>8 DEF ResumesAnswered
<1>14. ViewFits /\ NewestIsComing /\ ViewIsCorrected
  BY <1>9 DEF ViewFits, NewestIsComing, ViewIsCorrected
<1> QED BY <1>2, <1>10, <1>11, <1>12, <1>13, <1>14 DEF ViewInv

LEMMA StepKeeps == ViewInv /\ [Next]_vars => ViewInv'
<1> SUFFICES ASSUME ViewInv, [Next]_vars PROVE ViewInv'
  OBVIOUS
<1>1. CASE Move
  BY <1>1, MoveKeeps
<1>2. CASE Verified
  BY <1>2, VerifiedKeeps
<1>3. CASE Fail
  BY <1>3, FailKeeps
<1>4. CASE Answer
  BY <1>4, AnswerFetchKeeps, AcceptControlKeeps DEF Answer
<1>5. CASE Receive
  BY <1>5, ReceiveEventKeeps, ReceiveStartedKeeps, ReceiveSnapshotKeeps,
     ReceiveRefusalKeeps, ReceiveControlKeeps DEF Receive
<1>6. CASE GiveUpWaiting
  BY <1>6, GiveUpWaitingKeeps
<1>7. CASE Reload
  BY <1>7, ReloadKeeps
<1>8. CASE \E action \in {"pause", "resume", "cancel", "answer"} : CallControl(action)
  BY <1>8, CallControlKeeps DEF Actions
<1>10. CASE Run
  BY <1>10, RunControlKeeps, ReplyControlKeeps DEF Run
<1>9. CASE UNCHANGED vars
  <2>1. UNCHANGED <<mainVars, inbox, view, dropped>> /\ requests' = requests /\ control' = control
    BY <1>9 DEF vars, mainVars
  <2>2. requests' \in Seq(Requests)
        /\ control' \in Controls
    BY <2>1 DEF ViewInv, StateTyped
  <2> QED BY <2>1, <2>2, AskedKeeps
<1> QED BY <1>1, <1>2, <1>3, <1>4, <1>5, <1>6, <1>7, <1>8, <1>9, <1>10, Zenon DEF Next

LEMMA TypesFollow == ViewInv => TypeOK
<1> SUFFICES ASSUME ViewInv PROVE TypeOK
  OBVIOUS
<1>1. record \in Records /\ events \in Seq(Drafts)
  BY DEF ViewInv, LogInv, LogFits
<1>2. \A i \in DOMAIN events : events[i].type \in EventTypes
  <2>1. \A i \in DOMAIN events : events[i] \in Drafts
    BY <1>1, ElementOfSeq, LenProperties
  <2>2. \A d \in Drafts : d.type \in EventTypes
    BY DEF Drafts
  <2> QED BY <2>1, <2>2
<1>3. /\ safePoint \in {"none", "pause", "cancel"} /\ failing \in BOOLEAN
      /\ dropped \in 0 .. Len(events)
      /\ control.phase \in {"none", "asked", "waiting", "fetching"}
  BY DEF ViewInv, StateTyped, Controls
<1>4. HasView => /\ view.sequence \in 1 .. Len(events) /\ view.status \in Statuses
                 /\ view.approval \in BOOLEAN /\ view.result \in BOOLEAN
  BY DEF ViewInv, ViewFits, Shows
<1> QED BY <1>1, <1>2, <1>3, <1>4 DEF TypeOK

\* The types, and what relates the log, the record, what is on its way in both
\* directions and what the window shows (commit, getSnapshot, applyEvent and
\* replaceSnapshot): events and snapshots reach the window in the order of
\* their numbers, each saying what the log says; the newest event is shown or
\* still to come unless one was lost; and what a resume leaves wrong in the
\* window, the approval it cleared in the record alone and the status planning
\* for verifying, is put right by what is still on its way.
THEOREM ViewInvariance == Spec => [](TypeOK /\ ViewInv)
<1>1. Init => ViewInv
  BY InitFits
<1>2. ViewInv /\ [Next]_vars => ViewInv'
  BY StepKeeps
<1>3. ViewInv => TypeOK
  BY TypesFollow
<1> QED BY <1>1, <1>2, <1>3, PTL DEF Spec

\* Nothing is on its way, so nothing is left to correct what is shown.
LEMMA QuietIsExact ==
  ASSUME ViewInv, HasView, Quiet
  PROVE  /\ Exact(events, view)
         /\ \A k : ~HasNumber(inbox, k)
         /\ ~HasSnapshot(inbox) /\ ~HasLoss(inbox) /\ ~HasFetch(requests)
<1>1. Len(<<>>) = 0 /\ \A i \in 1 .. 0 : FALSE
  OBVIOUS
<1>2. inbox = <<>> /\ requests = <<>> /\ commands = <<>> /\ dropped = 0
  BY DEF Quiet
<1>3. /\ \A k : ~HasNumber(inbox, k)
      /\ ~HasSnapshot(inbox) /\ ~HasLoss(inbox) /\ ~HasRefresh(inbox) /\ ~HasFetch(requests)
      /\ ~Running
  BY <1>1, <1>2 DEF HasNumber, HasSnapshot, HasLoss, HasRefresh, HasFetch, Running
<1> QED BY <1>2, <1>3 DEF ViewInv, ViewIsCorrected

\* However events, snapshots fetched for a gap, controls and their answers
\* interleave, the window shows a status and a result the task had at the event
\* the window says it is at, and never parts of two moments: but for planning
\* in place of verifying after a resume, which never stays when nothing is on
\* its way, and a cancellation, which may show a result or none.
THEOREM ViewIsAMoment == Spec => []ViewIsAMomentOfTheTask
<1>1. ViewInv => ViewIsAMomentOfTheTask
  <2> SUFFICES ASSUME ViewInv, HasView
               PROVE  /\ \/ view.status = StatusAt(view.sequence)
                         \/ /\ view.status = "planning"
                            /\ StatusAt(view.sequence) = "verifying" /\ ~Quiet
                      /\ view.result =>
                           \E i \in 1 .. view.sequence : events[i].type \in {"final", "cancelled"}
                      /\ (\E i \in 1 .. view.sequence : events[i].type = "final")
                           => view.result
    BY DEF ViewIsAMomentOfTheTask
  <2>1. view.sequence \in Nat /\ Shows(events, view.sequence, view)
    BY DEF ViewInv, ViewFits
  <2>2. /\ view.result => \E i \in 1 .. view.sequence : events[i].type \in {"final", "cancelled"}
        /\ (\E i \in 1 .. view.sequence : events[i].type = "final") => view.result
    <3>1. /\ view.result => HasType(events, view.sequence, Ends)
          /\ HasType(events, view.sequence, Finals) => view.result
      BY <2>1 DEF Shows
    <3> QED BY <3>1 DEF HasType, Ends, Finals
  <2>3. CASE StatusIs(events, view.sequence, view.status)
    <3>1. StatusAt(view.sequence) = view.status
      BY <2>1, <2>3, StatusOfLog
    <3> QED BY <2>2, <3>1
  <2>4. CASE ~StatusIs(events, view.sequence, view.status)
    <3>1. view.status = "planning" /\ StatusIs(events, view.sequence, "verifying")
      BY <2>1, <2>4 DEF Shows
    <3>2. StatusAt(view.sequence) = "verifying"
      BY <2>1, <3>1, StatusOfLog
    <3>3. ~Quiet
      BY <2>4, QuietIsExact DEF Exact
    <3> QED BY <2>2, <3>1, <3>2, <3>3
  <2> QED BY <2>3, <2>4
<1> QED BY <1>1, ViewInvariance, PTL

\* When the channels and the mailbox are empty, no control is under way and
\* nothing was lost since the last answer, the window shows the record itself:
\* no event can be missing without a fetch or a loss, and no resume leaves its
\* approval or its status behind.
THEOREM ViewExactWhenQuiet == Spec => []QuietViewIsExact
<1>1. ViewInv => QuietViewIsExact
  <2> SUFFICES ASSUME ViewInv, HasView, Quiet
               PROVE  /\ view.sequence = Len(events)
                      /\ view.status = record.status /\ view.approval = record.approval
                      /\ view.result # record.result =>
                           view.result /\ record.status = "ended"
    BY DEF QuietViewIsExact
  <2> DEFINE n == Len(events)
  <2>1. n \in Nat /\ dropped = 0
    BY Typed DEF Quiet
  <2>2. /\ Exact(events, view) /\ ~HasNumber(inbox, n)
        /\ ~HasSnapshot(inbox) /\ ~HasLoss(inbox) /\ ~HasFetch(requests)
    BY QuietIsExact
  <2>3. /\ view.sequence \in 1 .. n /\ Shows(events, view.sequence, view)
        /\ view.approval \in BOOLEAN
        /\ record \in Records /\ IsAt(events, n, record)
        /\ record.approval <=> ApprovalAt(events, n)
        /\ record.status = "ended" <=> HasType(events, n, Ends)
    BY DEF ViewInv, ViewFits, LogInv, LogFits
  <2>4. ~LossIsNewer
    BY <2>1, <2>3 DEF LossIsNewer
  <2>5. view.sequence = n
    BY <2>2, <2>4 DEF ViewInv, NewestIsComing
  <2>6. view.status = record.status
    <3>1. StatusIs(events, n, view.status) /\ StatusIs(events, n, record.status)
      BY <2>2, <2>3, <2>5 DEF IsAt, Exact
    <3>2. StatusAt(n) = view.status /\ StatusAt(n) = record.status
      BY <2>1, <3>1, StatusOfLog
    <3> QED BY <3>2
  <2>7. view.result # record.result => view.result /\ record.status = "ended"
    <3>1. /\ view.result \in BOOLEAN /\ record.result \in BOOLEAN
          /\ view.result => HasType(events, n, Ends)
          /\ HasType(events, n, Finals) => view.result
          /\ record.result <=> HasType(events, n, Finals)
      BY <2>3, <2>5 DEF Shows, IsAt
    <3> QED BY <2>3, <3>1
  <2>8. view.approval <=> ApprovalAt(events, n)
    BY <2>2, <2>5 DEF Exact
  <2>9. view.approval = record.approval
    BY <2>3, <2>8 DEF Records
  <2> QED BY <2>5, <2>6, <2>7, <2>9
<1> QED BY <1>1, ViewInvariance, PTL

\* No event and no snapshot takes the window back: a snapshot, whether it was
\* asked for by a gap, a start or a control, is answered after every event that
\* was sent before it and is applied in that place.
THEOREM ViewMovesForward == Spec => ViewNeverGoesBack
<1>1. ViewInv /\ [Next]_vars => [HasView /\ view' # NoView => view'.sequence >= view.sequence]_vars
  <2> SUFFICES ASSUME ViewInv, Next, HasView, view' # NoView
               PROVE  view'.sequence >= view.sequence
    OBVIOUS
  <2>1. view.sequence \in Nat
    BY DEF ViewInv, ViewFits
  <2>2. CASE view' = view
    BY <2>1, <2>2
  <2>3. CASE ReceiveEvent
    <3>1. Apply(view, Head(inbox).sequence, Head(inbox).event)
      BY <2>3 DEF ReceiveEvent
    <3>2. \/ view' = view
          \/ /\ Head(inbox).sequence = view.sequence + 1
             /\ view' = Project(view, Head(inbox).sequence, Head(inbox).event)
      BY <3>1, Zenon DEF Apply
    <3>3. CASE view' = view
      BY <2>1, <3>3
    <3>4. CASE /\ Head(inbox).sequence = view.sequence + 1
               /\ view' = Project(view, Head(inbox).sequence, Head(inbox).event)
      <4>1. view'.sequence = view.sequence + 1
        BY <3>4 DEF Project
      <4> QED BY <2>1, <4>1
    <3> QED BY <3>2, <3>3, <3>4
  <2>4. CASE ReceiveSnapshot
    <3>1. /\ inbox # <<>> /\ Numbered(Head(inbox)) /\ UNCHANGED mainVars
          /\ inbox' = Tail(inbox) /\ view'.sequence = Head(inbox).sequence
      BY <2>4 DEF ReceiveSnapshot, Replaced, Numbered
    <3>2. view.sequence <= Head(inbox).sequence
      BY <3>1, HeadTaken
    <3>3. Head(inbox).sequence \in Nat
      <4>1. inbox \in Seq(Messages) /\ Len(events) \in Nat
        BY DEF ViewInv, StateTyped, LogInv, LogFits
      <4>2. Head(inbox) \in Messages
        BY <3>1, <4>1
      <4> QED BY <3>1, <4>2 DEF Messages, Replies, Numbered
    <3> QED BY <2>1, <3>1, <3>2, <3>3
  <2>5. \/ view' = view \/ view' = NoView \/ ReceiveEvent \/ ReceiveSnapshot
    <3>1. (Move \/ Verified \/ Fail \/ Answer \/ Run \/ GiveUpWaiting) => view' = view
      BY Zenon DEF Move, Verified, Fail, Answer, AnswerFetch, AcceptControl, Run, RunControl,
                   ReplyControl, GiveUpWaiting
    <3>2. Reload => view' = NoView
      BY DEF Reload
    <3>3. Receive => view' = view \/ ReceiveEvent \/ ReceiveSnapshot
      BY DEF Receive, ReceiveStarted, ReceiveRefusal, ReceiveControl
    <3>4. \A action : CallControl(action) => view' = view
      BY DEF CallControl
    <3> QED BY <3>1, <3>2, <3>3, <3>4, Zenon DEF Next
  <2> QED BY <2>2, <2>3, <2>4, <2>5
<1> QED BY <1>1, ViewInvariance, PTL DEF Spec, ViewNeverGoesBack
=============================================================================
