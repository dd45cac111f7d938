---------------------------- MODULE McpTasksProofs ----------------------------
(***************************************************************************)
(* Proofs about McpTasks, for any number of commands, request slots, table *)
(* places and requests: a task reported completed belongs to a command     *)
(* whose wrapper has ended, unless something else was taken for an answer  *)
(* of its host, and what a task ended with is only overturned by a         *)
(* cancellation.                                                           *)
(*                                                                         *)
(* Both rest on what each call of the renderer has already heard of the    *)
(* host: the host only goes on, so what a call has heard stays true while  *)
(* the call waits for its next remote command.                             *)
(***************************************************************************)
EXTENDS McpTasks, SequenceTheorems, TLAPS

-----------------------------------------------------------------------------
(* The inductive invariant. *)

Launched(c) == process[c] \notin {Nothing, "typed"} \/ c \in misheard
Over(c) == process[c] \notin {Nothing, "typed", "running"} \/ c \in misheard

TableTyped == tasks \in Seq(Commands) /\ IsInjective(tasks)
AnswersTyped ==
  /\ status \in [Commands -> Terminal \cup {"working", Nothing}]
  /\ request \in [Slots -> [do : {"start", "get", "cancel"}, cmd : Commands] \cup {Idle}]
CallsTyped == calls \subseteq Call
HostTyped ==
  /\ process \in [Commands -> {Nothing, "typed", "running", "exiting", "ended", "killed"}]
  /\ pidFile \subseteq Commands /\ exitFile \subseteq Commands
RestTyped ==
  /\ backgroundTasks \subseteq Commands /\ up \in BOOLEAN /\ requests \in 0..MaxRequests
  /\ misheard \subseteq Flaky /\ leftBehind \subseteq Commands

\* Only commands that were typed are in the table.
TableStarted == \A i \in DOMAIN tasks : process[tasks[i]] # Nothing

\* What a call has heard of its command.
CallFits(k) ==
  /\ k.tool = "run" <=> process[k.cmd] = Nothing
  /\ k.at \in {"alive", "kill"} => Launched(k.cmd)
  /\ k.at = "code" \/ k.tool = "log" => Over(k.cmd)
CallsFit == \A k \in calls : CallFits(k)

\* A command is typed once.
RunOnce == \A j, k \in calls : j.tool = "run" /\ k.tool = "run" /\ j.cmd = k.cmd => j = k

\* What is misheard is about a command that was typed.
MisheardStarted == \A c \in misheard : process[c] # Nothing

FilesFit == (\A c \in pidFile : Launched(c)) /\ (\A c \in exitFile : Over(c))

StatusFits ==
  \A c \in Commands : /\ process[c] = Nothing => status[c] = Nothing
                      /\ status[c] = "completed" => Over(c)

Typed == TableTyped /\ AnswersTyped /\ CallsTyped /\ HostTyped /\ RestTyped
McpInv ==
  Typed /\ TableStarted /\ CallsFit /\ RunOnce /\ MisheardStarted /\ FilesFit /\ StatusFits

LEMMA TypesByPart == TypeOK <=> Typed
BY DEF TypeOK, Typed, TableTyped, AnswersTyped, CallsTyped, HostTyped, RestTyped

-----------------------------------------------------------------------------
(* The table. *)

LEMMA JoinedPlaces ==
  ASSUME NEW a \in Seq(Commands), NEW b \in Seq(Commands)
  PROVE  /\ a \o b \in Seq(Commands) /\ Len(a \o b) = Len(a) + Len(b)
         /\ \A i \in 1 .. Len(a) : (a \o b)[i] = a[i]
         /\ \A i \in 1 .. Len(b) : (a \o b)[Len(a) + i] = b[i]
  OBVIOUS

\* A task that leaves the table keeps the others and their order.
LEMMA RemovedPlace ==
  ASSUME NEW s \in Seq(Commands), IsInjective(s), NEW v \in DOMAIN s
  PROVE  LET r == RemoveAt(s, v)
         IN  /\ r \in Seq(Commands) /\ IsInjective(r)
             /\ \A i \in DOMAIN r : \E j \in DOMAIN s : r[i] = s[j]
<1> DEFINE r == RemoveAt(s, v)
           a == SubSeq(s, 1, v - 1)
           b == SubSeq(s, v + 1, Len(s))
           old(i) == IF i < v THEN i ELSE i + 1
<1>1. v \in 1 .. Len(s) /\ DOMAIN s = 1 .. Len(s) /\ Len(s) \in Nat
  OBVIOUS
<1>2. r = a \o b
  BY DEF RemoveAt
<1>3. /\ a \in Seq(Commands) /\ Len(a) = v - 1
      /\ \A i \in 1 .. v - 1 : a[i] = s[i]
  BY <1>1
<1>4. /\ b \in Seq(Commands) /\ Len(b) = Len(s) - v
      /\ \A i \in 1 .. Len(s) - v : b[i] = s[v + i]
  BY <1>1
<1> HIDE DEF r, a, b
<1>5. /\ r \in Seq(Commands) /\ Len(r) = Len(a) + Len(b)
      /\ \A i \in 1 .. Len(a) : r[i] = a[i]
      /\ \A i \in 1 .. Len(b) : r[Len(a) + i] = b[i]
  BY <1>2, <1>3, <1>4, JoinedPlaces
<1>6. Len(r) = Len(s) - 1 /\ DOMAIN r = 1 .. Len(s) - 1
  BY <1>1, <1>3, <1>4, <1>5
<1>7. \A i \in 1 .. Len(s) - 1 : r[i] = s[old(i)] /\ old(i) \in DOMAIN s
  <2> SUFFICES ASSUME NEW i \in 1 .. Len(s) - 1
               PROVE  r[i] = s[old(i)] /\ old(i) \in DOMAIN s
    OBVIOUS
  <2>1. CASE i < v
    BY <1>1, <1>3, <1>5, <2>1
  <2>2. CASE ~(i < v)
    <3> DEFINE j == i - (v - 1)
    <3>1. j \in 1 .. Len(s) - v /\ Len(a) + j = i /\ v + j = i + 1
      BY <1>1, <1>3, <2>2
    <3> HIDE DEF j
    <3>2. r[i] = b[j] /\ b[j] = s[i + 1]
      BY <1>4, <1>5, <3>1
    <3> QED BY <1>1, <2>2, <3>2
  <2> QED BY <2>1, <2>2
<1>8. \A i, j \in 1 .. Len(s) - 1 : old(i) = old(j) => i = j
  BY <1>1
<1> HIDE DEF old
<1>9. IsInjective(r)
  BY <1>6, <1>7, <1>8 DEF IsInjective
<1> QED
  BY <1>5, <1>6, <1>7, <1>9 DEF r

\* A new task goes to the end of the table.
LEMMA AppendedPlace ==
  ASSUME NEW s \in Seq(Commands), IsInjective(s), NEW c \in Commands,
         \A i \in DOMAIN s : s[i] # c
  PROVE  /\ Append(s, c) \in Seq(Commands) /\ IsInjective(Append(s, c))
         /\ \A i \in DOMAIN Append(s, c) : Append(s, c)[i] = c \/ \E j \in DOMAIN s : Append(s, c)[i] = s[j]
<1> DEFINE r == Append(s, c)
<1>1. /\ r \in Seq(Commands) /\ Len(s) \in Nat /\ DOMAIN r = 1 .. Len(s) + 1
      /\ DOMAIN s = 1 .. Len(s) /\ r[Len(s) + 1] = c /\ \A i \in 1 .. Len(s) : r[i] = s[i]
  OBVIOUS
<1> HIDE DEF r
<1>2. \A i \in DOMAIN r : i \in DOMAIN s \/ i = Len(s) + 1
  BY <1>1
<1>3. IsInjective(r)
  BY <1>1, <1>2 DEF IsInjective
<1> QED
  BY <1>1, <1>2, <1>3 DEF r

LEMMA InTable ==
  ASSUME TableTyped, NEW c
  PROVE  c \in ToSet(tasks) <=> \E i \in DOMAIN tasks : tasks[i] = c
BY DEF ToSet, TableTyped

-----------------------------------------------------------------------------
(* What a step does to each part.                                          *)

\* The host never goes back, and its files tell the truth.
HostGoesOn ==
  /\ HostTyped'
  /\ \A c \in Commands : /\ process'[c] = Nothing <=> process[c] = Nothing
                         /\ Launched(c) => Launched(c)'
                         /\ Over(c) => Over(c)'
  /\ \A c \in pidFile' : c \in pidFile \/ Launched(c)'
  /\ \A c \in exitFile' : c \in exitFile \/ Over(c)'
  /\ misheard \subseteq misheard'
  /\ \A c \in misheard' : c \in misheard \/ process'[c] # Nothing

\* A task ends as it should, or is cancelled.
AnswerEffect ==
  /\ AnswersTyped'
  /\ \A d \in Commands :
       \/ status'[d] = status[d]
       \/ /\ process[d] # Nothing
          /\ status'[d] = "completed" => Over(d)
          /\ status[d] \in Terminal => status'[d] = "cancelled"

CallsEffect ==
  /\ \A n \in calls' : n \in calls \/ (n \in Call /\ CallFits(n)')
  /\ RunOnce'

TableEffect ==
  TableTyped' /\ \A i \in DOMAIN tasks' : \E j \in DOMAIN tasks : tasks'[i] = tasks[j]

\* A step of these four effects preserves the invariant: the argument that
\* all actions but the start of a command share.
LEMMA EffectsKeep ==
  ASSUME McpInv, HostGoesOn, AnswerEffect, CallsEffect, TableEffect, RestTyped'
  PROVE  McpInv'
<1>1. HostTyped' /\ AnswersTyped' /\ RunOnce' /\ TableTyped'
  BY DEF HostGoesOn, AnswerEffect, CallsEffect, TableEffect
<1>2. CallsTyped'
  BY DEF McpInv, Typed, CallsTyped, CallsEffect
<1>3. \A i \in DOMAIN tasks : tasks[i] \in Commands
  BY DEF McpInv, Typed, TableTyped
<1>4. TableStarted'
  BY <1>3 DEF McpInv, TableStarted, TableEffect, HostGoesOn
<1>5. CallsFit'
  <2> SUFFICES ASSUME NEW n \in calls' PROVE CallFits(n)'
    BY DEF CallsFit
  <2>1. CASE n \in calls
    <3>1. n.cmd \in Commands /\ CallFits(n)
      BY <2>1 DEF McpInv, Typed, CallsTyped, Call, CallsFit
    <3>2. /\ process'[n.cmd] = Nothing <=> process[n.cmd] = Nothing
          /\ Launched(n.cmd) => process'[n.cmd] \notin {Nothing, "typed"} \/ n.cmd \in misheard'
          /\ Over(n.cmd) => process'[n.cmd] \notin {Nothing, "typed", "running"}
                            \/ n.cmd \in misheard'
      BY <3>1 DEF HostGoesOn, Launched, Over
    <3> QED BY <3>1, <3>2 DEF CallFits, Launched, Over
  <2>2. CASE n \notin calls
    BY <2>2 DEF CallsEffect
  <2> QED BY <2>1, <2>2
<1>6. FilesFit'
  <2>1. \A c \in pidFile \cup exitFile : c \in Commands
    BY DEF McpInv, Typed, HostTyped
  <2>2. \A c \in pidFile' : Launched(c)'
    BY <2>1 DEF McpInv, FilesFit, HostGoesOn
  <2>3. \A c \in exitFile' : Over(c)'
    BY <2>1 DEF McpInv, FilesFit, HostGoesOn
  <2> QED BY <2>2, <2>3 DEF FilesFit
<1>7. StatusFits'
  <2> SUFFICES ASSUME NEW d \in Commands
               PROVE  /\ process'[d] = Nothing => status'[d] = Nothing
                      /\ status'[d] = "completed" => Over(d)'
    BY DEF StatusFits, Over
  <2>1. /\ process[d] = Nothing => status[d] = Nothing
        /\ status[d] = "completed" => Over(d)
    BY DEF McpInv, StatusFits
  <2>2. (process'[d] = Nothing <=> process[d] = Nothing) /\ (Over(d) => Over(d)')
    BY DEF HostGoesOn
  <2>3. status'[d] = status[d]
        \/ (process[d] # Nothing /\ (status'[d] = "completed" => Over(d)))
    BY DEF AnswerEffect
  <2> QED BY <2>1, <2>2, <2>3
<1>8. MisheardStarted'
  <2>1. misheard \subseteq Commands /\ \A c \in misheard : process[c] # Nothing
    BY McpTasksAssumption DEF McpInv, Typed, RestTyped, MisheardStarted
  <2>2. \A c \in misheard : process'[c] # Nothing
    BY <2>1 DEF HostGoesOn
  <2> QED BY <2>2 DEF HostGoesOn, MisheardStarted
<1> QED
  BY <1>1, <1>2, <1>4, <1>5, <1>6, <1>7, <1>8 DEF McpInv, Typed

LEMMA HostAtRest ==
  ASSUME McpInv, process' = process, pidFile' \subseteq pidFile, exitFile' \subseteq exitFile,
         misheard' = misheard
  PROVE  HostGoesOn
BY DEF McpInv, Typed, HostTyped, HostGoesOn, Launched, Over

\* An answer is so, or it was misheard.
LEMMA Heard ==
  ASSUME NEW c, NEW truth, NEW said, RemoteSays(c, truth, said)
  PROVE  said = truth \/ c \in misheard'
BY DEF RemoteSays

LEMMA HostHeard ==
  ASSUME McpInv, process' = process, pidFile' = pidFile, exitFile' = exitFile,
         NEW c, process[c] # Nothing, misheard \subseteq misheard',
         \A d \in misheard' : d \in misheard \/ d = c
  PROVE  HostGoesOn
BY DEF McpInv, Typed, HostTyped, HostGoesOn, Launched, Over

LEMMA NoAnswer ==
  ASSUME McpInv, status' = status, AnswersTyped'
  PROVE  AnswerEffect
BY DEF AnswerEffect

LEMMA SameTable ==
  ASSUME McpInv, tasks' = tasks
  PROVE  TableEffect
BY DEF McpInv, Typed, TableTyped, TableEffect

LEMMA RequestTyped ==
  ASSUME McpInv, NEW s, NEW do \in {"start", "get", "cancel"}, NEW c \in Commands
  PROVE  /\ [request EXCEPT ![s] = [do |-> do, cmd |-> c]]
              \in [Slots -> [do : {"start", "get", "cancel"}, cmd : Commands] \cup {Idle}]
         /\ [request EXCEPT ![s] = Idle]
              \in [Slots -> [do : {"start", "get", "cancel"}, cmd : Commands] \cup {Idle}]
BY DEF McpInv, Typed, AnswersTyped

\* Calls that are not for the first start of a command.
LEMMA LaterCalls ==
  ASSUME McpInv, \A n \in calls' : n \in calls \/ (n \in Call /\ CallFits(n)' /\ n.tool # "run")
  PROVE  CallsEffect
<1>1. RunOnce'
  BY DEF RunOnce, McpInv
<1> QED BY <1>1 DEF CallsEffect

\* A poll's or a cancellation's answer.
LEMMA FailedEffect ==
  ASSUME McpInv, NEW k \in calls, NEW verdict \in {"failed", "completed"},
         verdict = "completed" => Over(k.cmd), Settled(k.cmd, verdict), Free(k.slot)
  PROVE  AnswerEffect
<1>1. k.cmd \in Commands /\ status \in [Commands -> Terminal \cup {"working", Nothing}]
  BY DEF McpInv, Typed, CallsTyped, Call, AnswersTyped
<1>2. AnswersTyped'
  BY <1>1, RequestTyped DEF AnswersTyped, Settled, Free, Terminal, McpInv, Typed
<1>3. \A d \in Commands : status'[d] = status[d]
        \/ (d = k.cmd /\ d \in ToSet(tasks) /\ status[d] \notin Terminal /\ status'[d] = verdict)
  BY <1>1 DEF Settled
<1>4. k.cmd \in ToSet(tasks) => process[k.cmd] # Nothing
  BY InTable DEF McpInv, Typed, TableStarted
<1> QED
  BY <1>2, <1>3, <1>4 DEF AnswerEffect

LEMMA CancelledEffect ==
  ASSUME McpInv, NEW k \in calls, k.tool = "cancel", Cancelled(k)
  PROVE  AnswerEffect
<1>1. k.cmd \in Commands /\ status \in [Commands -> Terminal \cup {"working", Nothing}]
  BY DEF McpInv, Typed, CallsTyped, Call, AnswersTyped
<1>2. AnswersTyped'
  BY <1>1, RequestTyped DEF AnswersTyped, Cancelled, Free, Terminal, McpInv, Typed
<1>3. \A d \in Commands : status'[d] = status[d] \/ (d = k.cmd /\ status'[d] = "cancelled")
  BY <1>1 DEF Cancelled
<1>4. process[k.cmd] # Nothing
  BY DEF McpInv, CallsFit, CallFits
<1> QED
  BY <1>2, <1>3, <1>4 DEF AnswerEffect

LEMMA UnheardEffect ==
  ASSUME McpInv, status' = status, request' = request
  PROVE  AnswerEffect
<1>1. AnswersTyped'
  BY DEF McpInv, Typed, AnswersTyped
<1> QED BY <1>1, NoAnswer

LEMMA FreeEffect ==
  ASSUME McpInv, NEW s, status' = status, Free(s)
  PROVE  AnswerEffect
<1>1. AnswersTyped'
  BY RequestTyped DEF McpInv, Typed, AnswersTyped, Free
<1> QED BY <1>1, NoAnswer

LEMMA ErrsEffect ==
  ASSUME McpInv, NEW k \in calls, Errs(k)
  PROVE  AnswerEffect /\ calls' = calls \ {k}
<1>1. calls' = calls \ {k}
  BY DEF Errs
<1>2. CASE k.tool \in {"status", "log"} /\ Failed(k)
  BY <1>1, <1>2, FailedEffect DEF Failed
<1>3. CASE k.tool = "cancel" /\ Cancelled(k)
  BY <1>1, <1>3, CancelledEffect
<1>4. CASE Unheard
  BY <1>1, <1>4, UnheardEffect DEF Unheard
<1> QED
  BY <1>1, <1>2, <1>3, <1>4 DEF Errs

-----------------------------------------------------------------------------
(* Each action. *)

LEMMA CallTyped ==
  ASSUME McpInv, NEW k \in calls
  PROVE  /\ k \in Call /\ k.cmd \in Commands /\ CallFits(k)
         /\ \A at \in {"start", "exit", "alive", "code", "kill"} : [k EXCEPT !.at = at] \in Call
         /\ [k EXCEPT !.live = FALSE] \in Call
BY DEF McpInv, Typed, CallsTyped, Call, CallsFit

LEMMA NewCallTyped ==
  ASSUME McpInv, NEW s \in Slots \cup {Sweeper}, NEW c \in Commands,
         NEW tool \in {"run", "status", "log", "cancel", "cleanup"}
  PROVE  /\ NewCall(s, tool, c) \in Call
         /\ NewCall(s, tool, c).tool = tool /\ NewCall(s, tool, c).cmd = c
         /\ NewCall(s, tool, c).at = "start"
BY DEF NewCall, Call

\* The end of a call.
LEMMA CallEnds ==
  ASSUME McpInv, calls' \subseteq calls
  PROVE  CallsEffect
BY LaterCalls

\* The next remote command of a call, and the log after a status.
LEMMA ContinueEffect ==
  ASSUME McpInv, NEW k \in calls, k.tool # "run", process' = process, misheard \subseteq misheard',
         NEW at \in {"exit", "alive", "code", "kill"},
         at \in {"alive", "kill"} => Launched(k.cmd)', at = "code" => Over(k.cmd)',
         Continue(k, at)
  PROVE  CallsEffect /\ AnswerEffect
<1> DEFINE n == [k EXCEPT !.at = at]
<1>1. k \in Call
  BY CallTyped
<1>2. n \in Call /\ n.tool = k.tool /\ n.cmd = k.cmd /\ n.at = at
  BY <1>1 DEF Call
<1>3. CallFits(n)'
  BY <1>2, CallTyped DEF CallFits, Launched, Over
<1>4. calls' = (calls \ {k}) \cup {n}
  BY DEF Continue
<1> HIDE DEF n
<1>5. CallsEffect
  BY <1>2, <1>3, <1>4, LaterCalls
<1> QED BY <1>5, UnheardEffect DEF Continue, Unheard

LEMMA CompleteEffect ==
  ASSUME McpInv, NEW k \in calls, process' = process, k.tool # "run", Over(k.cmd)', Complete(k)
  PROVE  CallsEffect /\ AnswerEffect
<1> DEFINE n == NewCall(k.slot, "log", k.cmd)
<1>1. n \in Call /\ n.tool = "log" /\ n.cmd = k.cmd /\ n.at = "start"
  <2>1. k.slot \in Slots \cup {Sweeper} /\ k.cmd \in Commands
    BY CallTyped DEF Call
  <2> QED BY <2>1, NewCallTyped
<1>2. CallFits(n)'
  <2>1. process[k.cmd] # Nothing
    BY CallTyped DEF CallFits
  <2> QED BY <1>1, <2>1 DEF CallFits, Launched, Over
<1>3. \A m \in calls' : m \in calls \/ m = n
  BY DEF Complete
<1> HIDE DEF n
<1>4. CallsEffect
  BY <1>1, <1>2, <1>3, LaterCalls
<1> QED BY <1>4, UnheardEffect DEF Complete, Unheard

LEMMA RestStays ==
  ASSUME McpInv, backgroundTasks' \subseteq Commands, up' \in BOOLEAN, requests' \in 0..MaxRequests,
         misheard' \subseteq Flaky, leftBehind' \subseteq Commands
  PROVE  RestTyped'
BY DEF RestTyped

LEMMA LogStep ==
  ASSUME McpInv, NEW k \in calls, Log(k)
  PROVE  McpInv'
<1>1. RestTyped' /\ TableEffect /\ HostGoesOn
  BY SameTable, HostAtRest DEF Log, hostVars, history, McpInv, Typed, RestTyped
<1>2. Over(k.cmd)
  BY CallTyped DEF Log, CallFits
<1>3. AnswerEffect /\ calls' \subseteq calls
  <2>1. CASE k.cmd \notin backgroundTasks
    BY <2>1, ErrsEffect DEF Log
  <2>2. CASE k.cmd \in backgroundTasks
    BY <1>2, <2>2, FailedEffect DEF Log
  <2> QED BY <2>1, <2>2 DEF Log
<1> QED BY <1>1, <1>3, CallEnds, EffectsKeep

LEMMA StatusStep ==
  ASSUME McpInv, NEW k \in calls, Status(k)
  PROVE  McpInv'
<1>1. /\ k.tool = "status" /\ process' = process /\ pidFile' = pidFile /\ exitFile' = exitFile
      /\ tasks' = tasks /\ backgroundTasks' = backgroundTasks /\ up' = up
      /\ requests' = requests /\ leftBehind' = leftBehind
  BY DEF Status, hostVars
<1>2. k.cmd \in Commands /\ CallFits(k) /\ process[k.cmd] # Nothing
  BY <1>1, CallTyped DEF CallFits
<1>3. misheard' = misheard \/ (k.cmd \in Flaky /\ misheard' = misheard \cup {k.cmd})
  BY Zenon DEF Status, RemoteSays
<1>4. /\ misheard \subseteq misheard' /\ misheard' \subseteq Flaky
      /\ \A d \in misheard' : d \in misheard \/ d = k.cmd
  BY <1>3 DEF McpInv, Typed, RestTyped
<1>5. RestTyped' /\ TableEffect /\ HostGoesOn
  BY <1>1, <1>2, <1>4, SameTable, HostHeard DEF McpInv, Typed, RestTyped
<1>6. CallsEffect /\ AnswerEffect
  <2>1. CASE Errs(k)
    BY <2>1, ErrsEffect, CallEnds
  <2>2. ASSUME NEW there \in BOOLEAN, RemoteSays(k.cmd, k.cmd \in pidFile, there),
               Continue(k, IF there THEN "alive" ELSE "exit")
        PROVE  CallsEffect /\ AnswerEffect
    <3>1. CASE there
      <4>1. k.cmd \in pidFile \/ k.cmd \in misheard'
        BY <2>2, <3>1, Heard, Zenon
      <4>2. Launched(k.cmd)'
        BY <1>1, <1>4, <4>1 DEF McpInv, FilesFit, Launched
      <4>3. Continue(k, "alive")
        BY <2>2, <3>1
      <4> QED BY <1>1, <1>4, <4>2, <4>3, ContinueEffect
    <3>2. CASE ~there
      <4>1. Continue(k, "exit")
        BY <2>2, <3>2
      <4> QED BY <1>1, <1>4, <4>1, ContinueEffect
    <3> QED BY <3>1, <3>2
  <2>3. ASSUME NEW there \in BOOLEAN, RemoteSays(k.cmd, k.cmd \in exitFile, there),
               there, Complete(k)
        PROVE  CallsEffect /\ AnswerEffect
    <3>1. k.cmd \in exitFile \/ k.cmd \in misheard'
      BY <2>3, Heard, Zenon
    <3>2. Over(k.cmd)'
      BY <1>1, <1>4, <3>1 DEF McpInv, FilesFit, Over
    <3> QED BY <1>1, <2>3, <3>2, CompleteEffect
  <2>4. CASE StillRuns(k)
    BY <2>4, CallEnds, FreeEffect DEF StillRuns
  <2>5. ASSUME k.at = "alive", NEW alive \in BOOLEAN, RemoteSays(k.cmd, Alive(k.cmd), alive),
               ~alive, Continue(k, "code")
        PROVE  CallsEffect /\ AnswerEffect
    <3>1. ~Alive(k.cmd) \/ k.cmd \in misheard'
      BY <2>5, Heard, Zenon
    <3>2. Launched(k.cmd)
      BY <1>2, <2>5 DEF CallFits
    <3>3. Over(k.cmd)'
      BY <1>1, <1>4, <3>1, <3>2 DEF Launched, Over, Alive
    <3> QED BY <1>1, <1>4, <2>5, <3>3, ContinueEffect
  <2>6. CASE k.at = "code" /\ Complete(k)
    <3>1. Over(k.cmd)'
      BY <1>1, <1>2, <1>4, <2>6 DEF CallFits, Over
    <3> QED BY <1>1, <2>6, <3>1, CompleteEffect
  <2> QED BY <2>1, <2>2, <2>3, <2>4, <2>5, <2>6 DEF Status
<1> QED BY <1>5, <1>6, EffectsKeep

LEMMA CleanupStep ==
  ASSUME McpInv, NEW k \in calls, Cleanup(k) \/ CleanupLost(k)
  PROVE  McpInv'
<1>1. /\ process' = process /\ pidFile' \subseteq pidFile /\ exitFile' \subseteq exitFile
      /\ misheard' = misheard /\ status' = status /\ request' = request /\ tasks' = tasks
      /\ up' = up /\ requests' = requests /\ calls' = calls \ {k}
      /\ backgroundTasks' \subseteq backgroundTasks
      /\ leftBehind' \subseteq leftBehind \cup {k.cmd}
  BY DEF Cleanup, CleanupLost, hostVars
<1>2. k.cmd \in Commands
  BY CallTyped
<1>3. RestTyped' /\ TableEffect /\ HostGoesOn
  BY <1>1, <1>2, SameTable, HostAtRest DEF McpInv, Typed, RestTyped
<1>4. AnswerEffect /\ CallsEffect
  BY <1>1, CallEnds, UnheardEffect
<1> QED BY <1>3, <1>4, EffectsKeep

LEMMA RefusedStep ==
  ASSUME McpInv, NEW k \in calls, RunRefused(k)
  PROVE  McpInv'
<1>1. RestTyped' /\ TableEffect /\ HostGoesOn
  BY SameTable, HostAtRest DEF RunRefused, hostVars, history, McpInv, Typed, RestTyped
<1>2. AnswerEffect /\ CallsEffect
  BY CallEnds, FreeEffect, UnheardEffect DEF RunRefused, Unheard
<1> QED BY <1>1, <1>2, EffectsKeep

\* kill: a wrapper that had begun is over, and so is one that had ended.
LEMMA CancelStep ==
  ASSUME McpInv, NEW k \in calls, CancelBackground(k)
  PROVE  McpInv'
<1>1. /\ tasks' = tasks /\ backgroundTasks' = backgroundTasks /\ up' = up
      /\ requests' = requests /\ leftBehind' = leftBehind /\ pidFile' = pidFile
  BY DEF CancelBackground
<1>2. k.cmd \in Commands /\ CallFits(k) /\ k.tool # "run" /\ process[k.cmd] # Nothing
  BY CallTyped DEF CancelBackground, CallFits
<1>3. misheard' = misheard \/ (k.cmd \in Flaky /\ misheard' = misheard \cup {k.cmd})
  BY Zenon DEF CancelBackground, RemoteSays
<1>4. /\ misheard \subseteq misheard' /\ misheard' \subseteq Flaky
      /\ \A d \in misheard' : d \in misheard \/ d = k.cmd
  BY <1>3 DEF McpInv, Typed, RestTyped
<1>5. RestTyped' /\ TableEffect
  BY <1>1, <1>4, SameTable DEF McpInv, Typed, RestTyped
<1>6. CASE /\ k.at = "start" /\ process' = process /\ exitFile' = exitFile
           /\ \E there \in BOOLEAN : /\ RemoteSays(k.cmd, k.cmd \in pidFile, there)
                                     /\ IF there THEN Continue(k, "kill") ELSE Errs(k)
  <2>1. PICK there \in BOOLEAN : /\ RemoteSays(k.cmd, k.cmd \in pidFile, there)
                                 /\ IF there THEN Continue(k, "kill") ELSE Errs(k)
    BY <1>6
  <2>2. CallsEffect /\ AnswerEffect
    <3>1. CASE there
      <4>1. k.cmd \in pidFile \/ k.cmd \in misheard'
        BY <2>1, <3>1, Heard, Zenon
      <4>2. Launched(k.cmd)'
        BY <1>4, <1>6, <4>1 DEF McpInv, FilesFit, Launched
      <4>3. Continue(k, "kill")
        BY <2>1, <3>1
      <4> QED BY <1>2, <1>4, <1>6, <4>2, <4>3, ContinueEffect
    <3>2. CASE ~there
      BY <2>1, <3>2, ErrsEffect, CallEnds
    <3> QED BY <3>1, <3>2
  <2>3. HostGoesOn
    BY <1>1, <1>2, <1>4, <1>6, HostHeard
  <2> QED BY <1>5, <2>2, <2>3, EffectsKeep
<1>7. CASE Errs(k) /\ process' = process /\ exitFile' = exitFile
  <2>1. HostGoesOn
    BY <1>1, <1>2, <1>4, <1>7, HostHeard
  <2>2. CallsEffect /\ AnswerEffect
    BY <1>7, ErrsEffect, CallEnds
  <2> QED BY <1>5, <2>1, <2>2, EffectsKeep
<1>8. ASSUME k.at = "kill", Errs(k), NEW killed \in BOOLEAN, NEW written \in BOOLEAN,
             RemoteSays(k.cmd, TRUE, killed /\ written),
             process' = IF killed /\ Alive(k.cmd)
                        THEN [process EXCEPT ![k.cmd] = "killed"] ELSE process,
             exitFile' = IF written THEN exitFile \cup {k.cmd} ELSE exitFile
      PROVE  McpInv'
  <2>1. Launched(k.cmd)
    BY <1>2, <1>8 DEF CallFits
  <2>2. process \in [Commands -> {Nothing, "typed", "running", "exiting", "ended", "killed"}]
        /\ pidFile \subseteq Commands /\ exitFile \subseteq Commands
    BY DEF McpInv, Typed, HostTyped
  <2>3. HostTyped'
    BY <1>1, <1>2, <1>8, <2>2 DEF HostTyped
  <2>4. (killed /\ written) \/ k.cmd \in misheard'
    BY <1>8, Heard, Zenon
  <2>5. Over(k.cmd)'
    BY <1>2, <1>4, <1>8, <2>1, <2>2, <2>4 DEF Launched, Over, Alive, Nothing
  <2>6. \A c \in Commands : \/ process'[c] = process[c]
                            \/ c = k.cmd /\ process'[c] = "killed" /\ process[c] # Nothing
    BY <1>2, <1>8, <2>2
  <2>7. \A c \in Commands : /\ process'[c] = Nothing <=> process[c] = Nothing
                            /\ Launched(c) => Launched(c)'
                            /\ Over(c) => Over(c)'
    BY <1>4, <2>6 DEF Over, Launched, Nothing
  <2>8. \A c \in misheard' : c \in misheard \/ process'[c] # Nothing
    BY <1>2, <1>4, <2>7
  <2>9. HostGoesOn
    BY <1>1, <1>4, <1>8, <2>3, <2>5, <2>7, <2>8 DEF HostGoesOn
  <2>10. CallsEffect /\ AnswerEffect
    BY <1>8, ErrsEffect, CallEnds
  <2> QED BY <1>5, <2>9, <2>10, EffectsKeep
<1> QED BY <1>6, <1>7, <1>8 DEF CancelBackground

\* A call nobody waits for any more has heard what it had heard.
LEMMA GoneUnheard ==
  ASSUME McpInv, NEW k \in calls
  PROVE  \A n \in GoesOnUnheard(k) :
            n \in Call /\ n.tool = k.tool /\ n.cmd = k.cmd /\ n.at = k.at /\ n = [k EXCEPT !.live = FALSE]
<1>1. k \in Call
  BY CallTyped
<1> QED BY <1>1 DEF GoesOnUnheard, Call

LEMMA TimeoutStep ==
  ASSUME McpInv, NEW k \in calls, Timeout(k)
  PROVE  McpInv'
<1>1. RestTyped' /\ TableEffect /\ HostGoesOn /\ process' = process /\ misheard' = misheard
  BY SameTable, HostAtRest DEF Timeout, hostVars, history, McpInv, Typed, RestTyped
<1>2. k \in Call /\ CallFits(k)
  BY CallTyped
<1>3. calls' = (calls \ {k}) \cup GoesOnUnheard(k)
  BY DEF Timeout
<1>4. \A n \in GoesOnUnheard(k) : n \in Call /\ CallFits(n)'
  <2> SUFFICES ASSUME NEW n \in GoesOnUnheard(k) PROVE n \in Call /\ CallFits(n)'
    OBVIOUS
  <2>1. n \in Call /\ n.tool = k.tool /\ n.cmd = k.cmd /\ n.at = k.at
    BY GoneUnheard
  <2> QED BY <1>1, <1>2, <2>1 DEF CallFits, Launched, Over
<1>5. RunOnce'
  <2> DEFINE gone == [k EXCEPT !.live = FALSE]
  <2>1. \A n \in calls' : \/ n \in calls /\ n # k
                          \/ n = gone /\ n.tool = k.tool /\ n.cmd = k.cmd
    BY <1>3, GoneUnheard
  <2> HIDE DEF gone
  <2> QED BY <2>1 DEF RunOnce, McpInv
<1>6. CallsEffect
  BY <1>3, <1>4, <1>5 DEF CallsEffect
<1>7. AnswerEffect
  <2>1. CASE Failed(k)
    BY <2>1, FailedEffect DEF Failed
  <2>2. CASE k.tool = "cancel" /\ Cancelled(k)
    BY <2>2, CancelledEffect
  <2>3. CASE Free(k.slot) /\ UNCHANGED status
    BY <2>3, FreeEffect
  <2> QED BY <2>1, <2>2, <2>3 DEF Timeout
<1> QED BY <1>1, <1>6, <1>7, EffectsKeep

LEMMA StopStep ==
  ASSUME McpInv, Stop
  PROVE  McpInv'
<1>1. RestTyped' /\ HostGoesOn /\ process' = process /\ misheard' = misheard
  BY HostAtRest DEF Stop, hostVars, history, McpInv, Typed, RestTyped
<1>2. TableEffect
  BY DEF Stop, TableEffect, TableTyped, IsInjective
<1>3. AnswerEffect
  BY NoAnswer DEF Stop, McpInv, Typed, AnswersTyped
<1>4. \A n \in calls' : \E k \in calls : n \in GoesOnUnheard(k)
  BY DEF Stop
<1>5. \A n \in calls' : n \in Call /\ CallFits(n)'
  <2> SUFFICES ASSUME NEW n \in calls' PROVE n \in Call /\ CallFits(n)'
    OBVIOUS
  <2>1. PICK k \in calls : n \in GoesOnUnheard(k)
    BY <1>4
  <2>2. CallFits(k)
    BY CallTyped
  <2> QED BY <1>1, <2>1, <2>2, GoneUnheard DEF CallFits, Launched, Over
<1>6. RunOnce'
  <2> SUFFICES ASSUME NEW m \in calls', NEW n \in calls',
                      m.tool = "run", n.tool = "run", m.cmd = n.cmd
               PROVE  m = n
    BY DEF RunOnce
  <2>1. PICK j \in calls : m \in GoesOnUnheard(j)
    BY <1>4
  <2>2. PICK k \in calls : n \in GoesOnUnheard(k)
    BY <1>4
  <2>3. j = k
    BY <2>1, <2>2, GoneUnheard DEF McpInv, RunOnce
  <2> QED BY <2>1, <2>2, <2>3, GoneUnheard
<1>7. CallsEffect
  BY <1>5, <1>6 DEF CallsEffect
<1> QED BY <1>1, <1>2, <1>3, <1>7, EffectsKeep

LEMMA SweepStep ==
  ASSUME McpInv, NEW c \in Commands, Sweep(c)
  PROVE  McpInv'
<1>1. RestTyped' /\ HostGoesOn /\ AnswerEffect /\ process' = process
  BY HostAtRest, UnheardEffect DEF Sweep, hostVars, history, McpInv, Typed, RestTyped
<1>2. PICK i \in DOMAIN tasks : tasks[i] = c /\ tasks' = RemoveAt(tasks, i)
  BY DEF Sweep
<1>3. TableEffect
  BY <1>2, RemovedPlace DEF TableEffect, TableTyped, McpInv, Typed
<1>4. process[c] # Nothing
  BY <1>2 DEF McpInv, TableStarted
<1> DEFINE n == CleanupCall(c)
<1>5. n \in Call /\ n.tool = "cleanup" /\ n.cmd = c /\ n.at = "start"
  BY NewCallTyped DEF CleanupCall
<1>6. CallFits(n)'
  BY <1>1, <1>4, <1>5 DEF CallFits
<1>7. calls' = calls \cup {n}
  BY DEF Sweep
<1> HIDE DEF n
<1>8. CallsEffect
  BY <1>5, <1>6, <1>7, LaterCalls
<1> QED BY <1>1, <1>3, <1>8, EffectsKeep

LEMMA RequestStep ==
  ASSUME McpInv, NEW s \in Slots, NEW c \in Commands,
         StartCommand(s, c) \/ Get(s, c) \/ Cancel(s, c)
  PROVE  McpInv'
<1>1. /\ process' = process /\ pidFile' = pidFile /\ exitFile' = exitFile
      /\ status' = status /\ tasks' = tasks
      /\ backgroundTasks' = backgroundTasks /\ up' = up
      /\ requests' = requests \/ (requests < MaxRequests /\ requests' = requests + 1)
      /\ misheard' = misheard /\ leftBehind' = leftBehind
  BY DEF StartCommand, Get, Cancel, hostVars, history
<1>2. RestTyped' /\ TableEffect /\ HostGoesOn
  BY <1>1, SameTable, HostAtRest, McpTasksAssumption DEF McpInv, Typed, RestTyped
<1>3. AnswerEffect
  <2>1. PICK do \in {"start", "get", "cancel"} : Busy(s, do, c)
    BY DEF StartCommand, Get, Cancel
  <2>2. AnswersTyped'
    BY <1>1, <2>1, RequestTyped DEF Busy, AnswersTyped, McpInv, Typed
  <2> QED BY <1>1, <2>2, NoAnswer
<1>4. CallsEffect
  <2>1. CASE StartCommand(s, c)
    <3> DEFINE n == NewCall(s, "run", c)
    <3>1. n \in Call /\ n.tool = "run" /\ n.cmd = c /\ n.at = "start"
      BY NewCallTyped
    <3>2. calls' = calls \cup {n} /\ process[c] = Nothing /\ \A k \in calls : k.cmd # c
      BY <2>1 DEF StartCommand
    <3>3. CallFits(n)'
      BY <1>1, <3>1, <3>2 DEF CallFits
    <3> HIDE DEF n
    <3>4. RunOnce'
      BY <3>1, <3>2 DEF RunOnce, McpInv
    <3> QED BY <3>1, <3>2, <3>3, <3>4 DEF CallsEffect
  <2>2. CASE Get(s, c) \/ Cancel(s, c)
    <3>1. PICK tool \in {"status", "cancel"} : calls' = calls \cup {NewCall(s, tool, c)}
      BY <2>2 DEF Get, Cancel
    <3>2. process[c] # Nothing
      <4>1. c \in ToSet(tasks)
        BY <2>2 DEF Get, Cancel
      <4> QED BY <4>1, InTable DEF McpInv, Typed, TableStarted
    <3> DEFINE n == NewCall(s, tool, c)
    <3>3. n \in Call /\ n.tool = tool /\ n.cmd = c /\ n.at = "start"
      BY NewCallTyped
    <3>4. CallFits(n)'
      BY <1>1, <3>2, <3>3 DEF CallFits
    <3>5. calls' = calls \cup {n}
      BY <3>1
    <3> HIDE DEF n
    <3> QED BY <3>3, <3>4, <3>5, LaterCalls
  <2> QED BY <2>1, <2>2
<1> QED BY <1>2, <1>3, <1>4, EffectsKeep

LEMMA HostStepKeeps ==
  ASSUME McpInv, NEW c \in Commands, HostStep(c)
  PROVE  McpInv'
<1>1. RestTyped' /\ TableEffect /\ AnswerEffect /\ calls' = calls /\ misheard' = misheard
  BY SameTable, UnheardEffect DEF HostStep, history, McpInv, Typed, RestTyped
<1>2. /\ process \in [Commands -> {Nothing, "typed", "running", "exiting", "ended", "killed"}]
      /\ pidFile \subseteq Commands /\ exitFile \subseteq Commands
  BY DEF McpInv, Typed, HostTyped
<1>3. CallsEffect
  BY <1>1, CallEnds
<1>4. HostGoesOn
  <2>1. CASE /\ process[c] = "typed" /\ process' = [process EXCEPT ![c] = "running"]
             /\ pidFile' = pidFile \cup {c} /\ exitFile' = exitFile
    BY <1>1, <1>2, <2>1 DEF HostGoesOn, HostTyped, Launched, Over, Nothing
  <2>2. CASE /\ process[c] = "running" /\ process' = [process EXCEPT ![c] = "exiting"]
             /\ exitFile' = exitFile \cup {c} /\ pidFile' = pidFile
    BY <1>1, <1>2, <2>2 DEF HostGoesOn, HostTyped, Launched, Over, Nothing
  <2>3. CASE /\ process[c] = "exiting" /\ process' = [process EXCEPT ![c] = "ended"]
             /\ pidFile' = pidFile \ {c} /\ exitFile' = exitFile
    BY <1>1, <1>2, <2>3 DEF HostGoesOn, HostTyped, Launched, Over, Nothing
  <2> QED BY <2>1, <2>2, <2>3 DEF HostStep
<1> QED BY <1>1, <1>3, <1>4, EffectsKeep

\* The start of a command: nobody but this call has it, so nothing that was
\* seen of it can change.
LEMMA RunStep ==
  ASSUME McpInv, NEW k \in calls, RunBackground(k)
  PROVE  McpInv'
<1> DEFINE c == k.cmd
<1>1. c \in Commands /\ k.tool = "run" /\ process[c] = Nothing /\ status[c] = Nothing
  BY CallTyped DEF RunBackground, CallFits, McpInv, StatusFits
<1>2. /\ process' = [process EXCEPT ![c] = "typed"]
      /\ pidFile' = pidFile /\ exitFile' = exitFile /\ up' = up /\ requests' = requests
      /\ backgroundTasks' = backgroundTasks \cup {c}
      /\ misheard' = misheard /\ leftBehind' = leftBehind /\ c \notin misheard
  BY <1>1 DEF RunBackground, history, McpInv, MisheardStarted
<1>3. /\ process \in [Commands -> {Nothing, "typed", "running", "exiting", "ended", "killed"}]
      /\ pidFile \subseteq Commands /\ exitFile \subseteq Commands
      /\ status \in [Commands -> Terminal \cup {"working", Nothing}]
      /\ tasks \in Seq(Commands) /\ IsInjective(tasks)
      /\ calls \subseteq Call
  BY DEF McpInv, Typed, HostTyped, AnswersTyped, TableTyped, CallsTyped
<1>4. \A j \in calls \ {k} : j.cmd # c
  BY <1>1 DEF McpInv, CallsFit, CallFits, RunOnce
<1>5. \A i \in DOMAIN tasks : tasks[i] # c /\ tasks[i] \in Commands /\ process[tasks[i]] # Nothing
  BY <1>1, <1>3 DEF McpInv, TableStarted
<1>6. HostTyped' /\ RestTyped'
  BY <1>1, <1>2, <1>3 DEF HostTyped, RestTyped, McpInv, Typed
<1>7. FilesFit'
  <2>1. \A d \in pidFile \cup exitFile : d \in Commands /\ d # c
    BY <1>1, <1>2, <1>3 DEF McpInv, FilesFit, Launched, Over
  <2> QED BY <1>1, <1>2, <1>3, <2>1 DEF McpInv, FilesFit, Launched, Over
<1> DEFINE kept == calls \ {k}
<1>8. /\ AnswersTyped'
      /\ \A d \in Commands \ {c} : status'[d] = status[d]
      /\ status'[c] # "completed"
  <2>1. CASE k.live
    <3>1. status' = [status EXCEPT ![c] = "working"] /\ Free(k.slot)
      BY <2>1 DEF RunBackground, Create
    <3> QED BY <1>1, <1>3, <3>1, RequestTyped DEF AnswersTyped, Free
  <2>2. CASE ~k.live
    BY <1>1, <1>3, <2>2 DEF RunBackground, AnswersTyped, McpInv, Typed, Nothing
  <2> QED BY <2>1, <2>2
<1>9. StatusFits'
  <2> SUFFICES ASSUME NEW d \in Commands
               PROVE  /\ process'[d] = Nothing => status'[d] = Nothing
                      /\ status'[d] = "completed" => Over(d)'
    BY DEF StatusFits, Over
  <2>1. CASE d = c
    BY <1>1, <1>2, <1>3, <1>8, <2>1 DEF Nothing
  <2>2. CASE d # c
    BY <1>2, <1>3, <1>8, <2>2 DEF McpInv, StatusFits, Over
  <2> QED BY <2>1, <2>2
<1>10. /\ TableTyped'
       /\ \A i \in DOMAIN tasks' : tasks'[i] = c \/ \E j \in DOMAIN tasks : tasks'[i] = tasks[j]
       /\ \A n \in calls' : n \in kept \/ \E j \in DOMAIN tasks : n = CleanupCall(tasks[j])
  <2>1. CASE k.live /\ Len(tasks) < MaxTasks
    <3>1. tasks' = Append(tasks, c) /\ calls' = kept
      BY <1>3, <2>1, McpTasksAssumption DEF RunBackground, Create
    <3> QED BY <1>1, <1>3, <1>5, <3>1, AppendedPlace DEF TableTyped
  <2>2. CASE k.live /\ ~(Len(tasks) < MaxTasks)
    <3>1. PICK v \in DOMAIN tasks : /\ tasks' = Append(RemoveAt(tasks, v), c)
                                    /\ calls' = kept \cup {CleanupCall(tasks[v])}
      BY <2>2 DEF RunBackground, Create
    <3> DEFINE r == RemoveAt(tasks, v)
    <3>2. /\ r \in Seq(Commands) /\ IsInjective(r)
          /\ \A i \in DOMAIN r : \E j \in DOMAIN tasks : r[i] = tasks[j]
      BY <1>3, RemovedPlace
    <3>3. tasks' = Append(r, c)
      BY <3>1
    <3> HIDE DEF r
    <3>4. \A i \in DOMAIN r : r[i] # c
      BY <1>5, <3>2
    <3>5. /\ Append(r, c) \in Seq(Commands) /\ IsInjective(Append(r, c))
          /\ \A i \in DOMAIN Append(r, c) :
               Append(r, c)[i] = c \/ \E j \in DOMAIN r : Append(r, c)[i] = r[j]
      BY <1>1, <3>2, <3>4, AppendedPlace
    <3> QED BY <3>1, <3>2, <3>3, <3>5 DEF TableTyped
  <2>3. CASE ~k.live
    BY <1>3, <2>3 DEF RunBackground, TableTyped
  <2> QED BY <2>1, <2>2, <2>3
<1>11. TableStarted'
  <2> SUFFICES ASSUME NEW i \in DOMAIN tasks' PROVE process'[tasks'[i]] # Nothing
    BY DEF TableStarted
  <2>1. CASE tasks'[i] = c
    BY <1>1, <1>2, <1>3, <2>1 DEF Nothing
  <2>2. CASE \E j \in DOMAIN tasks : tasks'[i] = tasks[j]
    BY <1>2, <1>3, <1>5, <2>2
  <2> QED BY <1>10, <2>1, <2>2
<1>12. \A n \in calls' : n \in Call /\ CallFits(n)' /\ (n.tool = "run" => n \in calls)
  <2> SUFFICES ASSUME NEW n \in calls'
               PROVE  n \in Call /\ CallFits(n)' /\ (n.tool = "run" => n \in calls)
    OBVIOUS
  <2>1. CASE n \in kept
    <3>1. n \in calls /\ n.cmd \in Commands /\ CallFits(n) /\ n \in Call
      BY <2>1, CallTyped
    <3>2. n.cmd # c
      BY <1>4, <2>1
    <3>3. process'[n.cmd] = process[n.cmd]
      BY <1>2, <1>3, <3>1, <3>2
    <3> QED BY <1>2, <3>1, <3>3 DEF CallFits, Launched, Over
  <2>2. CASE \E j \in DOMAIN tasks : n = CleanupCall(tasks[j])
    <3>1. PICK j \in DOMAIN tasks : n = CleanupCall(tasks[j])
      BY <2>2
    <3>2. n \in Call /\ n.tool = "cleanup" /\ n.cmd = tasks[j] /\ n.at = "start"
      BY <1>5, <3>1, NewCallTyped DEF CleanupCall
    <3>3. process'[n.cmd] # Nothing
      BY <1>2, <1>3, <1>5, <3>2
    <3> QED BY <3>2, <3>3 DEF CallFits
  <2> QED BY <1>10, <2>1, <2>2
<1>13. CallsTyped' /\ CallsFit' /\ RunOnce'
  <2>1. CallsTyped' /\ CallsFit'
    BY <1>12 DEF CallsTyped, CallsFit
  <2>2. RunOnce'
    BY <1>12 DEF RunOnce, McpInv
  <2> QED BY <2>1, <2>2
<1>14. MisheardStarted'
  BY <1>2, <1>3, McpTasksAssumption DEF MisheardStarted, McpInv, Typed, RestTyped, Nothing
<1> QED
  BY <1>6, <1>7, <1>8, <1>9, <1>10, <1>11, <1>13, <1>14 DEF McpInv, Typed

LEMMA Stutter ==
  ASSUME McpInv, UNCHANGED vars
  PROVE  McpInv'
<1>1. RestTyped' /\ HostGoesOn /\ AnswerEffect /\ TableEffect /\ CallsEffect
  BY HostAtRest, UnheardEffect, SameTable, CallEnds DEF vars, hostVars, history, McpInv, Typed, RestTyped
<1> QED BY <1>1, EffectsKeep

LEMMA McpStep ==
  ASSUME McpInv, [Next]_vars
  PROVE  McpInv'
<1>1. ASSUME NEW s \in Slots, NEW c \in Commands,
             StartCommand(s, c) \/ Get(s, c) \/ Cancel(s, c)
      PROVE  McpInv'
  BY <1>1, RequestStep
<1>2. ASSUME NEW c \in Commands, Sweep(c) \/ HostStep(c) PROVE McpInv'
  BY <1>2, SweepStep, HostStepKeeps
<1>3. ASSUME NEW k \in calls, Renderer(k) PROVE McpInv'
  BY <1>3, RunStep, RefusedStep, LogStep, StatusStep, CancelStep, CleanupStep DEF Renderer
<1>4. ASSUME NEW k \in calls, Timeout(k) \/ CleanupLost(k) PROVE McpInv'
  BY <1>4, TimeoutStep, CleanupStep
<1> QED
  BY <1>1, <1>2, <1>3, <1>4, StopStep, Stutter DEF Next

LEMMA McpInit ==
  ASSUME Init
  PROVE  McpInv
<1>1. TableTyped /\ AnswersTyped /\ CallsTyped /\ RestTyped
  BY McpTasksAssumption
     DEF Init, TableTyped, IsInjective, AnswersTyped, CallsTyped, RestTyped
<1>2. HostTyped
  BY DEF Init, HostTyped
<1>3. TableStarted /\ CallsFit /\ RunOnce /\ MisheardStarted /\ FilesFit
  BY DEF Init, TableStarted, CallsFit, RunOnce, MisheardStarted, FilesFit
<1>4. StatusFits
  BY DEF Init, StatusFits, Nothing
<1> QED BY <1>1, <1>2, <1>3, <1>4 DEF McpInv, Typed

-----------------------------------------------------------------------------
(* The theorems. *)

\* The table, the calls and the host keep in step in every reachable state:
\* what a call has heard of its command is still so, unless it was misheard,
\* and TypeOK holds.
THEOREM McpInvariance == Spec => [](TypeOK /\ McpInv)
<1>1. Init => McpInv
  BY McpInit
<1>2. McpInv /\ [Next]_vars => McpInv'
  BY McpStep
<1>3. McpInv => TypeOK
  BY TypesByPart DEF McpInv
<1> QED BY <1>1, <1>2, <1>3, PTL DEF Spec

\* refreshTask and mcpGetBackgroundTaskStatus: a task is reported completed
\* only when the wrapper of its command has ended or was killed, however many
\* polls, cancellations and time-outs interleave with the remote commands a
\* poll consists of, as long as runMonitorCmd got every answer from the host.
THEOREM CompletedMeansEnded == Spec => []CompletedCommandHasEnded
<1>1. McpInv => CompletedCommandHasEnded
  BY DEF McpInv, StatusFits, CompletedCommandHasEnded, Over
<1> QED BY <1>1, McpInvariance, PTL

\* complete, fail and cancel: what a task ended with stays, unless a
\* cancellation that was under way overturns it.
THEOREM EndedStaysEnded == Spec => OnlyACancellationOverturns
<1> DEFINE Stays == \A c \in Commands : status[c] \in Terminal => status'[c] \in {status[c], "cancelled"}
<1>1. ASSUME McpInv, AnswerEffect PROVE Stays
  BY <1>1 DEF AnswerEffect
<1>2. ASSUME McpInv, status' = status PROVE Stays
  BY <1>2
<1>3. ASSUME McpInv, NEW k \in calls, RunBackground(k) PROVE Stays
  <2>1. k.cmd \in Commands /\ status[k.cmd] = Nothing
    BY <1>3, CallTyped DEF RunBackground, CallFits, McpInv, StatusFits
  <2>2. \A d \in Commands : status'[d] = status[d] \/ d = k.cmd
    BY <1>3 DEF RunBackground, Create, McpInv, Typed, AnswersTyped
  <2> QED BY <2>1, <2>2 DEF Terminal, Nothing
<1>4. ASSUME McpInv, NEW k \in calls, Log(k) PROVE AnswerEffect
  <2>1. Over(k.cmd)
    BY <1>4, CallTyped DEF Log, CallFits
  <2>2. CASE k.cmd \notin backgroundTasks
    BY <1>4, <2>2, ErrsEffect DEF Log
  <2>3. CASE k.cmd \in backgroundTasks
    BY <1>4, <2>1, <2>3, FailedEffect DEF Log
  <2> QED BY <1>4, <2>2, <2>3 DEF Log
<1>5. ASSUME McpInv, NEW k \in calls, Status(k) \/ CancelBackground(k) PROVE Stays
  <2>1. Errs(k) \/ status' = status
    BY <1>5 DEF Status, CancelBackground, Continue, Complete, StillRuns, Unheard
  <2> QED BY <1>1, <1>2, <1>5, <2>1, ErrsEffect
<1>6. ASSUME McpInv, NEW k \in calls, Timeout(k) PROVE AnswerEffect
  <2>1. CASE Failed(k)
    BY <1>6, <2>1, FailedEffect DEF Failed
  <2>2. CASE k.tool = "cancel" /\ Cancelled(k)
    BY <1>6, <2>2, CancelledEffect
  <2>3. CASE Free(k.slot) /\ UNCHANGED status
    BY <1>6, <2>3, FreeEffect
  <2> QED BY <1>6, <2>1, <2>2, <2>3 DEF Timeout
<1>7. ASSUME McpInv, [Next]_vars PROVE Stays
  <2>1. ASSUME NEW k \in calls, Renderer(k) PROVE Stays
    <3>1. CASE Cleanup(k) \/ RunRefused(k)
      BY <1>2, <1>7, <3>1 DEF Cleanup, RunRefused, Unheard
    <3> QED BY <1>1, <1>3, <1>4, <1>5, <1>7, <2>1, <3>1 DEF Renderer
  <2>2. ASSUME NEW k \in calls, Timeout(k) \/ CleanupLost(k) PROVE Stays
    BY <1>1, <1>2, <1>6, <1>7, <2>2 DEF CleanupLost
  <2>3. CASE \/ \E s \in Slots, c \in Commands : StartCommand(s, c) \/ Get(s, c) \/ Cancel(s, c)
             \/ \E c \in Commands : Sweep(c) \/ HostStep(c)
             \/ Stop \/ UNCHANGED vars
    BY <1>2, <1>7, <2>3 DEF StartCommand, Get, Cancel, Sweep, HostStep, Stop, vars
  <2> QED BY <1>7, <2>1, <2>2, <2>3 DEF Next
<1>8. McpInv /\ [Next]_vars => [Stays]_vars
  BY <1>7
<1> QED
  BY <1>8, McpInvariance, PTL DEF Spec, OnlyACancellationOverturns
=============================================================================
