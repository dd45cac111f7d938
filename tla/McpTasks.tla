------------------------------ MODULE McpTasks ------------------------------
(***************************************************************************)
(* Long commands run for MCP clients: the server in the main process keeps *)
(* a table of tasks (mcp/server/tasks.js) and asks the renderer, by        *)
(* messages that may time out (widget-mcp-server.js), to start, look at,   *)
(* stop and clean up the command each task stands for.  The command is run *)
(* by a wrapper (bash -c) typed into a terminal.  The renderer reads the   *)
(* pid and exit files the wrapper leaves on its host, one remote command   *)
(* at a time (mcp-handler.js), while the host runs on; a remote command    *)
(* that cannot be run is typed into the terminal too, and what is on the   *)
(* screen then counts as its output.                                       *)
(*                                                                         *)
(* A slot is a client's HTTP request under way.  calls holds the           *)
(* renderer's work: a call whose request has timed out goes on, unheard,   *)
(* and is left out when all it still does is to read.                      *)
(***************************************************************************)
EXTENDS Naturals, FiniteSets, Sequences, SequencesExt

CONSTANTS Commands,   \* commands clients run in the background, each once
          Flaky,      \* those whose remote commands and clean-up may be lost
          Slots,      \* requests under way at once
          MaxTasks,   \* maxTasks
          MaxRequests \* bound: polls and cancellations

ASSUME McpTasksAssumption ==
  Flaky \subseteq Commands /\ MaxTasks \in Nat \ {0} /\ MaxRequests \in Nat

Sweeper == "sweeper"
Nothing == "none"
Terminal == {"completed", "failed", "cancelled"}

VARIABLES
  tasks,     \* the task table, oldest first: the command of each
  status,    \* task.status, also of a task no longer in the table
  request,   \* what each slot is busy with
  calls,     \* the renderer's calls under way
  backgroundTasks, \* the renderer's own record of commands
  process,   \* each command's wrapper on its host
  pidFile, exitFile, \* commands whose file is there
  up,        \* the server runs
  requests,
  misheard,  \* history: commands about which text that is not their host's
             \* answer was taken for it
  leftBehind \* history: commands whose clean-up was lost or came too soon

hostVars == <<process, pidFile, exitFile>>
history == <<misheard, leftBehind>>
vars == <<tasks, status, request, calls, backgroundTasks, hostVars, up, requests, history>>

Idle == [do |-> "idle", cmd |-> Nothing]
Call == [slot : Slots \cup {Sweeper}, tool : {"run", "status", "log", "cancel", "cleanup"},
         cmd : Commands, at : {"start", "exit", "alive", "code", "kill"}, live : BOOLEAN]

TypeOK ==
  /\ tasks \in Seq(Commands) /\ IsInjective(tasks)
  /\ status \in [Commands -> Terminal \cup {"working", Nothing}]
  /\ request \in [Slots -> [do : {"start", "get", "cancel"}, cmd : Commands] \cup {Idle}]
  /\ calls \subseteq Call
  /\ backgroundTasks \subseteq Commands
  /\ process \in [Commands -> {Nothing, "typed", "running", "exiting", "ended", "killed"}]
  /\ pidFile \subseteq Commands /\ exitFile \subseteq Commands
  /\ up \in BOOLEAN /\ requests \in 0..MaxRequests
  /\ misheard \subseteq Flaky /\ leftBehind \subseteq Commands

Init ==
  /\ tasks = << >>
  /\ status = [c \in Commands |-> Nothing]
  /\ request = [s \in Slots |-> Idle]
  /\ calls = {}
  /\ backgroundTasks = {}
  /\ process = [c \in Commands |-> Nothing]
  /\ pidFile = {} /\ exitFile = {}
  /\ up = TRUE
  /\ requests = 0
  /\ misheard = {} /\ leftBehind = {}

NewCall(slot, tool, c) ==
  [slot |-> slot, tool |-> tool, cmd |-> c, at |-> "start", live |-> TRUE]

Busy(s, do, c) == request' = [request EXCEPT ![s] = [do |-> do, cmd |-> c]]
Free(s) == request' = [request EXCEPT ![s] = Idle]
\* Slots are alike: a request takes one certain free slot.
IsFree(s) == request[s] = Idle /\ s = CHOOSE t \in Slots : request[t] = Idle

---------------------------------------------------------------------------
(* The task table.                                                         *)

(* _evictOldest: the oldest finished task, and the oldest of all if none   *)
(* is finished; v is its place in the table.                               *)
Victim(v) ==
  LET finished == {i \in DOMAIN tasks : status[tasks[i]] \in Terminal}
      candidates == IF finished = {} THEN DOMAIN tasks ELSE finished
  IN  v \in candidates /\ \A i \in candidates : v <= i

(* onSweep: the renderer is asked to clean up after a task that is dropped. *)
CleanupCall(c) == NewCall(Sweeper, "cleanup", c)

DeviationCreate(c, others) ==
  /\ status' = [status EXCEPT ![c] = "working"]
  /\ calls' = others
  /\ \/ Len(tasks) < MaxTasks /\ tasks' = Append(tasks, c)
     \/ /\ Len(tasks) >= MaxTasks
        /\ \E v \in DOMAIN tasks : Victim(v) /\ tasks' = Append(RemoveAt(tasks, v), c)

(* create: at the limit another task makes room. *)
Create(c, others) ==
  /\ status' = [status EXCEPT ![c] = "working"]
  /\ \/ /\ Len(tasks) < MaxTasks
        /\ tasks' = Append(tasks, c)
        /\ calls' = others
     \/ /\ Len(tasks) >= MaxTasks
        /\ \E v \in DOMAIN tasks :
             /\ Victim(v)
             /\ tasks' = Append(RemoveAt(tasks, v), c)
             /\ calls' = others \cup {CleanupCall(tasks[v])}

DeviationSettled(c, verdict) ==
  status' = [status EXCEPT ![c] = IF c \in ToSet(tasks) THEN verdict ELSE @]

(* complete, fail: only a task that is in the table and still works. *)
Settled(c, verdict) ==
  status' = [status EXCEPT ![c] =
               IF c \in ToSet(tasks) /\ @ \notin Terminal THEN verdict ELSE @]

(* The sweep timer: a finished task whose time has passed. *)
Sweep(c) ==
  /\ up
  /\ status[c] \in Terminal
  /\ \E i \in DOMAIN tasks : tasks[i] = c /\ tasks' = RemoveAt(tasks, i)
  /\ calls' = calls \cup {CleanupCall(c)}
  /\ UNCHANGED <<status, request, backgroundTasks, hostVars, up, requests, history>>

---------------------------------------------------------------------------
(* A client's requests, up to the first call of the renderer.              *)

StartCommand(s, c) ==
  /\ up /\ IsFree(s)
  /\ process[c] = Nothing /\ \A k \in calls : k.cmd # c
  /\ Busy(s, "start", c)
  /\ calls' = calls \cup {NewCall(s, "run", c)}
  /\ UNCHANGED <<tasks, status, backgroundTasks, hostVars, up, requests, history>>

(* tasks/get: a task that has ended is answered at once. *)
Get(s, c) ==
  /\ up /\ IsFree(s)
  /\ c \in ToSet(tasks) /\ status[c] = "working"
  /\ requests < MaxRequests /\ requests' = requests + 1
  /\ Busy(s, "get", c)
  /\ calls' = calls \cup {NewCall(s, "status", c)}
  /\ UNCHANGED <<tasks, status, backgroundTasks, hostVars, up, history>>

(* tasks/cancel: on a task that has ended it does nothing. *)
Cancel(s, c) ==
  /\ up /\ IsFree(s)
  /\ c \in ToSet(tasks) /\ status[c] \notin Terminal
  /\ requests < MaxRequests /\ requests' = requests + 1
  /\ Busy(s, "cancel", c)
  /\ calls' = calls \cup {NewCall(s, "cancel", c)}
  /\ UNCHANGED <<tasks, status, backgroundTasks, hostVars, up, history>>

---------------------------------------------------------------------------
(* What the request does with the renderer's answer.  A request that has   *)
(* timed out is not there any more.                                        *)

(* refreshTask: completed is settled after the log has been fetched; a     *)
(* command in no known state, an error and a timeout all fail the task.    *)
Failed(k) ==
  /\ Settled(k.cmd, "failed")
  /\ Free(k.slot)

(* cancelTaskRemote: whatever the renderer said, cancel then marks the     *)
(* task, without looking at it again.                                      *)
Cancelled(k) ==
  /\ status' = [status EXCEPT ![k.cmd] = "cancelled"]
  /\ Free(k.slot)

Unheard == UNCHANGED <<status, request>>

Errs(k) ==
  /\ calls' = calls \ {k}
  /\ \/ k.tool \in {"status", "log"} /\ Failed(k)
     \/ k.tool = "cancel" /\ k.live /\ Cancelled(k)
     \/ k.tool = "cancel" /\ ~k.live /\ Unheard

---------------------------------------------------------------------------
(* The renderer's calls.                                                   *)

(* mcpRunBackgroundCommand types the command into the terminal. *)
RunBackground(k) ==
  /\ k.tool = "run"
  /\ process' = [process EXCEPT ![k.cmd] = "typed"]
  /\ backgroundTasks' = backgroundTasks \cup {k.cmd}
  /\ IF k.live THEN Create(k.cmd, calls \ {k}) /\ Free(k.slot)
               ELSE calls' = calls \ {k} /\ UNCHANGED <<tasks, status, request>>
  /\ UNCHANGED <<pidFile, exitFile, up, requests, history>>

(* It throws without a terminal to type into. *)
RunRefused(k) ==
  /\ k.tool = "run"
  /\ calls' = calls \ {k}
  /\ IF k.live THEN Free(k.slot) /\ UNCHANGED status ELSE Unheard
  /\ UNCHANGED <<tasks, backgroundTasks, hostVars, up, requests, history>>

(* mcpGetBackgroundTaskLog, and the end of refreshTask. *)
Log(k) ==
  /\ k.tool = "log"
  /\ IF k.cmd \in backgroundTasks
     THEN /\ calls' = calls \ {k}
          /\ Settled(k.cmd, "completed") /\ Free(k.slot)
     ELSE Errs(k)
  /\ UNCHANGED <<tasks, backgroundTasks, hostVars, up, requests, history>>

Continue(k, at) == calls' = (calls \ {k}) \cup {[k EXCEPT !.at = at]} /\ Unheard

(* A status of completed: the log is asked for next. *)
Complete(k) ==
  /\ calls' = (calls \ {k}) \cup {NewCall(k.slot, "log", k.cmd)}
  /\ Unheard

(* A status of running. *)
StillRuns(k) ==
  /\ calls' = calls \ {k}
  /\ Free(k.slot) /\ UNCHANGED status

(* runMonitorCmd: the host answers, or the last lines of the terminal are  *)
(* taken for its answer (the channel was refused, a local tab has none),   *)
(* or nothing is (the session is gone).                                    *)
RemoteSays(c, truth, said) ==
  \/ said = truth /\ UNCHANGED misheard
  \/ c \in Flaky /\ misheard' = misheard \cup {c}

Alive(c) == process[c] \in {"running", "exiting"}

DeviationStatus(k) ==
  /\ k.tool = "status"
  /\ \/ /\ k.at = "start" /\ k.cmd \notin backgroundTasks
        /\ Errs(k) /\ UNCHANGED misheard
     \/ /\ k.at = "start" /\ k.cmd \in backgroundTasks
        /\ \E there \in BOOLEAN : /\ RemoteSays(k.cmd, k.cmd \in pidFile, there)
                                  /\ IF there THEN Continue(k, "alive") ELSE Complete(k)
     \/ /\ k.at = "alive"
        /\ \E alive \in BOOLEAN : /\ RemoteSays(k.cmd, Alive(k.cmd), alive)
                                  /\ IF alive THEN StillRuns(k) ELSE Continue(k, "code")
     \/ k.at = "code" /\ Complete(k) /\ UNCHANGED misheard
  /\ UNCHANGED <<tasks, backgroundTasks, hostVars, up, requests, leftBehind>>

(* mcpGetBackgroundTaskStatus: the pid file, then either whether the       *)
(* process is alive or the exit file, each by a remote command of its own. *)
(* Anything but "alive" counts as ended, whatever the exit file says.      *)
Status(k) ==
  /\ k.tool = "status"
  /\ \/ /\ k.at = "start" /\ k.cmd \notin backgroundTasks
        /\ Errs(k) /\ UNCHANGED misheard
     \/ /\ k.at = "start" /\ k.cmd \in backgroundTasks
        /\ \E there \in BOOLEAN : /\ RemoteSays(k.cmd, k.cmd \in pidFile, there)
                                  /\ Continue(k, IF there THEN "alive" ELSE "exit")
     \/ /\ k.at = "exit"
        /\ \E there \in BOOLEAN : /\ RemoteSays(k.cmd, k.cmd \in exitFile, there)
                                  /\ IF there THEN Complete(k) ELSE Errs(k)
     \/ /\ k.at = "alive"
        /\ \E alive \in BOOLEAN : /\ RemoteSays(k.cmd, Alive(k.cmd), alive)
                                  /\ IF alive THEN StillRuns(k) ELSE Continue(k, "code")
     \/ k.at = "code" /\ Complete(k) /\ UNCHANGED misheard
  /\ UNCHANGED <<tasks, backgroundTasks, hostVars, up, requests, leftBehind>>

(* mcpCancelBackgroundTask: the wrapper named by the pid file is killed    *)
(* and the outcome of kill is written as its exit code.  The command the   *)
(* wrapper had started survives it.  A kill that is typed into the         *)
(* terminal, or of what the screen showed instead of the pid, may do all,  *)
(* a part or nothing of that.                                              *)
CancelBackground(k) ==
  /\ k.tool = "cancel"
  /\ \/ /\ k.at = "start" /\ k.cmd \in backgroundTasks
        /\ \E there \in BOOLEAN : /\ RemoteSays(k.cmd, k.cmd \in pidFile, there)
                                  /\ IF there THEN Continue(k, "kill") ELSE Errs(k)
        /\ UNCHANGED <<process, exitFile>>
     \/ /\ k.at = "start" /\ k.cmd \notin backgroundTasks
        /\ Errs(k)
        /\ UNCHANGED <<process, exitFile, misheard>>
     \/ /\ k.at = "kill"
        /\ Errs(k)
        /\ \E killed, written \in BOOLEAN :
             /\ RemoteSays(k.cmd, TRUE, killed /\ written)
             /\ process' = IF killed /\ Alive(k.cmd)
                           THEN [process EXCEPT ![k.cmd] = "killed"] ELSE process
             /\ exitFile' = IF written THEN exitFile \cup {k.cmd} ELSE exitFile
  /\ UNCHANGED <<tasks, backgroundTasks, pidFile, up, requests, leftBehind>>

(* Nobody is left who writes the command's files. *)
FilesRest(c) == process[c] \in {"ended", "killed"} /\ \A k \in calls : k.cmd = c => k.tool # "cancel"

(* mcpCleanupBackgroundTask: the record goes, whatever became of rm. *)
Cleanup(k) ==
  /\ k.tool = "cleanup"
  /\ calls' = calls \ {k}
  /\ \/ /\ k.cmd \in backgroundTasks
        /\ pidFile' = pidFile \ {k.cmd} /\ exitFile' = exitFile \ {k.cmd}
        /\ leftBehind' = IF FilesRest(k.cmd) THEN leftBehind ELSE leftBehind \cup {k.cmd}
     \/ /\ k.cmd \in backgroundTasks \cap Flaky
        /\ UNCHANGED <<pidFile, exitFile>>
        /\ leftBehind' = leftBehind \cup {k.cmd}
     \/ k.cmd \notin backgroundTasks /\ UNCHANGED <<pidFile, exitFile, leftBehind>>
  /\ backgroundTasks' = backgroundTasks \ {k.cmd}
  /\ UNCHANGED <<tasks, status, request, process, up, requests, misheard>>

(* A clean-up for which there is no window, or that never comes back: it   *)
(* is not asked for again.                                                 *)
CleanupLost(k) ==
  /\ k.tool = "cleanup" /\ k.cmd \in Flaky
  /\ calls' = calls \ {k}
  /\ leftBehind' = leftBehind \cup {k.cmd}
  /\ UNCHANGED <<tasks, status, request, backgroundTasks, hostVars, up, requests, misheard>>

(* A call nobody waits for any more. *)
GoesOnUnheard(k) ==
  IF k.tool \in {"status", "log"} THEN {} ELSE {[k EXCEPT !.live = FALSE]}

(* sendToRenderer: the request is rejected, the renderer goes on. *)
Timeout(k) ==
  /\ k.live /\ k.slot # Sweeper
  /\ calls' = (calls \ {k}) \cup GoesOnUnheard(k)
  /\ \/ k.tool \in {"status", "log"} /\ Failed(k)
     \/ k.tool = "cancel" /\ Cancelled(k)
     \/ k.tool = "run" /\ Free(k.slot) /\ UNCHANGED status
  /\ UNCHANGED <<tasks, backgroundTasks, hostVars, up, requests, history>>

(* stop: the table is dropped, and every request is answered with an error. *)
Stop ==
  /\ up
  /\ up' = FALSE
  /\ tasks' = << >>
  /\ request' = [s \in Slots |-> Idle]
  /\ calls' = UNION {GoesOnUnheard(k) : k \in calls}
  /\ UNCHANGED <<status, backgroundTasks, hostVars, requests, history>>

---------------------------------------------------------------------------
(* The host: the wrapper typed into the terminal starts the command,       *)
(* writes its pid, and at its end writes the exit file and removes the     *)
(* pid file.                                                               *)
HostStep(c) ==
  /\ \/ /\ process[c] = "typed"
        /\ process' = [process EXCEPT ![c] = "running"]
        /\ pidFile' = pidFile \cup {c}
        /\ UNCHANGED exitFile
     \/ /\ process[c] = "running"
        /\ process' = [process EXCEPT ![c] = "exiting"]
        /\ exitFile' = exitFile \cup {c}
        /\ UNCHANGED pidFile
     \/ /\ process[c] = "exiting"
        /\ process' = [process EXCEPT ![c] = "ended"]
        /\ pidFile' = pidFile \ {c}
        /\ UNCHANGED exitFile
  /\ UNCHANGED <<tasks, status, request, calls, backgroundTasks, up, requests, history>>

Renderer(k) ==
  RunBackground(k) \/ RunRefused(k) \/ Log(k) \/ Status(k) \/ CancelBackground(k) \/ Cleanup(k)

Next ==
  \/ \E s \in Slots, c \in Commands : StartCommand(s, c) \/ Get(s, c) \/ Cancel(s, c)
  \/ \E c \in Commands : Sweep(c) \/ HostStep(c)
  \/ \E k \in calls : Renderer(k) \/ Timeout(k) \/ CleanupLost(k)
  \/ Stop

Spec == Init /\ [][Next]_vars

(* The renderer comes to what it was asked to clean up, and time passes. *)
FairSpec ==
  /\ Spec
  /\ WF_vars(\E k \in calls : Cleanup(k))
  /\ WF_vars(\E c \in Commands : Sweep(c))

---------------------------------------------------------------------------
(* Properties.                                                             *)

(* A task is reported completed only when the wrapper of its command has   *)
(* ended, by itself or by the kill of a cancellation (which the command    *)
(* survives), whatever the host does between the remote commands a poll    *)
(* consists of.  This is so as long as the host answered them itself: of   *)
(* a text on the screen the code makes "completed" while the command runs. *)
CompletedCommandHasEnded == \A c \in Commands :
  status[c] = "completed" =>
    process[c] \notin {Nothing, "typed", "running"} \/ c \in misheard

(* Of two requests for one task that are under way at once, the later      *)
(* answer of a poll never overturns what the task ended with: only a       *)
(* cancellation that was already under way does.                           *)
OnlyACancellationOverturns ==
  [][\A c \in Commands : status[c] \in Terminal => status'[c] \in {status[c], "cancelled"}]_vars

(* Once its task has ended or was evicted, the renderer's record of a      *)
(* command and its pid and exit files are given up for good, unless the    *)
(* server was stopped, the one clean-up was lost, its rm was not run, or   *)
(* it came while the wrapper or a cancellation was still to write a file.  *)
EndedTasksAreCleanedUp == \A c \in Commands :
  (status[c] \in Terminal \/ (status[c] = "working" /\ c \notin ToSet(tasks)))
    ~> [](c \notin backgroundTasks \cup pidFile \cup exitFile \/ c \in leftBehind \/ ~up)

=============================================================================
