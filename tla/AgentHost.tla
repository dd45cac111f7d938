------------------------------ MODULE AgentHost ------------------------------
(***************************************************************************)
(* The tasks of one window in the main process, their files, and the       *)
(* configuration they run under: AgentSessionManager.start, process and    *)
(* commit (session/session-manager.js), SessionStore (session-store.js),   *)
(* the deferred refresh (runtime-config-refresh.js) and the start-up of    *)
(* index.js.                                                               *)
(*                                                                         *)
(* What a task does is AgentSession's subject; here it is active, paused   *)
(* or ended, and what matters is that every change of it is committed to   *)
(* files that a crash can cut short and a full disk can refuse.            *)
(***************************************************************************)
EXTENDS Naturals, FiniteSets

CONSTANTS
  Tasks,        \* task ids, a set of positive numbers given out in order
  Clicks,       \* start calls that carry one and the same clientRequestId
  Faults,       \* a subset of {"crash", "full"}
  MaxSequence,  \* bound: events of one task
  MaxConfigs,   \* bound: configurations saved
  MaxRefusals,  \* bound: commits the disk refuses
  MaxRestarts   \* bound: crashes of the application

ASSUME HostAssumption ==
  /\ Tasks \subseteq Nat \ {0} /\ Faults \subseteq {"crash", "full"}
  /\ MaxSequence \in Nat /\ MaxConfigs \in Nat \ {0}
  /\ MaxRefusals \in Nat /\ MaxRestarts \in Nat

VARIABLES
  process,      \* the application: down, booting, up
  sessions,     \* AgentSessionManager.sessions: the record of each task
  settling,     \* tasks that have stopped and not yet told the refresher
  failing,      \* tasks for which failRuntime is about to push FAIL
  finished,     \* tasks whose runtime has been closed (runtime.finished)
  driven,       \* tasks that have a running effect, or a FAIL, ahead of them
  click,        \* the start calls, each with its phase and its answer
  clientRequests, \* the task remembered for the clientRequestId, 0 if none
  config,       \* the saved configuration: its number and the Agent switch
  policy,       \* the number of the configuration in force
  pendingConfig,  \* the one waiting for the tasks to settle, 0 if none
  disk,         \* the files of each task
  published,    \* history: the newest event of each task sent to the window
  refused,      \* history: tasks one of whose commits threw
  restarts

hostVars == <<process, sessions, settling, failing, finished, driven>>
startVars == <<click, clientRequests>>
configVars == <<config, policy, pendingConfig>>
vars == <<process, sessions, settling, failing, finished, driven, click, clientRequests,
          config, policy, pendingConfig, disk, published, refused, restarts>>

Statuses == {"active", "paused", "ended"}
NoRecord == [status |-> "none", version |-> 0, sequence |-> 0]
Records == [status : Statuses, version : Nat, sequence : Nat]
NoFiles == [snapshot |-> NoRecord, manifest |-> NoRecord, events |-> {}]

NoClick == [phase |-> "idle", task |-> 0]

-----------------------------------------------------------------------------
(* The store. *)

\* The files after the first `done` writes of commit(record, events): the
\* snapshot, the manifest with its digest, then one line per event.
Written(files, record, count, done) ==
  [snapshot |-> IF done >= 1 THEN record ELSE files.snapshot,
   manifest |-> IF done >= 2 THEN record ELSE files.manifest,
   events   |-> files.events \cup
                  {e \in record.sequence - count + 1 .. record.sequence :
                     e + 2 <= record.sequence - count + done}]

\* load refuses a snapshot whose digest is not the manifest's; without a
\* manifest it takes the snapshot as it is.
Torn(files) == files.manifest # NoRecord /\ files.manifest # files.snapshot
Readable(files) == files.snapshot # NoRecord /\ ~Torn(files)

\* Deviation: the window is told before the files are written.
PublishEarly(task, record) == published' = [published EXCEPT ![task] = record]
PublishNothing(task, record) == UNCHANGED published

\* isRuntimeBlockingConfigRefresh
Blocking(record) == record.status = "active"

\* flush, called when a task has settled, over the records it finds.
FlushKept(records) == UNCHANGED configVars       \* Deviation: nothing flushes.
Flush(records) ==
  IF pendingConfig = 0 \/ \E t \in Tasks : Blocking(records[t])
    THEN UNCHANGED configVars
    ELSE /\ policy' = pendingConfig
         /\ pendingConfig' = 0
         /\ UNCHANGED config

\* The application is gone; the files stay as they are.
Down(files) ==
  /\ process' = "down"
  /\ sessions' = [t \in Tasks |-> NoRecord]
  /\ settling' = {} /\ failing' = {} /\ driven' = {} /\ finished' = {}
  /\ click' = [c \in Clicks |-> IF click[c].phase = "idle" THEN NoClick
                                ELSE [click[c] EXCEPT !.phase = "over"]]
  /\ clientRequests' = 0
  /\ pendingConfig' = 0
  /\ disk' = files
  /\ UNCHANGED <<config, policy, published>>

Die(files) ==
  /\ "crash" \in Faults /\ restarts < MaxRestarts
  /\ restarts' = restarts + 1
  /\ Down(files)
  /\ UNCHANGED refused

\* commit: record goes to the files with `count` events, and on to the window.
\* Ok, Thrown: what the caller does next.  The disk may refuse any of the writes
\* (or enforceQuota throw after it), and any may be the last one before a crash.
Commit(task, record, count, Ok, Thrown) ==
  \/ /\ disk' = [disk EXCEPT ![task] = Written(@, record, count, count + 2)]
     /\ published' = [published EXCEPT ![task] = record]
     /\ sessions' = [sessions EXCEPT ![task] = record]
     /\ Ok
     /\ UNCHANGED <<process, finished, config, policy, pendingConfig, refused, restarts>>
  \/ /\ "full" \in Faults /\ Cardinality(refused) < MaxRefusals
     /\ \E done \in 0 .. count + 2 :
          disk' = [disk EXCEPT ![task] = Written(@, record, count, done)]
     /\ PublishNothing(task, record)
     /\ sessions' = [sessions EXCEPT ![task] = record]
     /\ refused' = refused \cup {task}
     /\ Thrown
     /\ UNCHANGED <<process, finished, config, policy, pendingConfig, restarts>>
  \/ \E done \in 0 .. count + 2 :
       Die([disk EXCEPT ![task] = Written(@, record, count, done)])

-----------------------------------------------------------------------------
(* Starting a task. *)

Room(task, count) == sessions[task].sequence + count <= MaxSequence

FreshTasks ==
  {t \in Tasks : /\ sessions[t] = NoRecord /\ disk[t] = NoFiles
                 /\ published[t] = NoRecord /\ t \notin refused}
NextTask(t) == t \in FreshTasks /\ \A s \in FreshTasks : t <= s

\* start, up to the question to the session service: the guards and the cache.
Start(c) ==
  /\ process = "up" /\ click[c].phase = "idle"
  /\ config.agentMode /\ pendingConfig = 0
  /\ click' = [click EXCEPT ![c] =
       IF clientRequests # 0
         THEN [phase |-> "answered", task |-> clientRequests]
         ELSE [phase |-> "resolving", task |-> 0]]
  /\ UNCHANGED <<hostVars, clientRequests, configVars, disk, published, refused, restarts>>

\* The service knows no such terminal.
StartRejected(c) ==
  /\ process = "up" /\ click[c].phase = "resolving"
  /\ click' = [click EXCEPT ![c].phase = "over"]
  /\ UNCHANGED <<hostVars, clientRequests, configVars, disk, published, refused, restarts>>

\* The binding is there: the task is attached and committed with two events.
\* When the commit throws, the caller gets the error and the task stays attached.
StartBound(c) ==
  /\ process = "up" /\ click[c].phase = "resolving"
  /\ \E t \in Tasks :
       /\ NextTask(t)
       /\ Commit(t, [status |-> "active", version |-> 1, sequence |-> 2], 2,
            /\ click' = [click EXCEPT ![c].phase = "answered", ![c].task = t]
            /\ clientRequests' = t
            /\ driven' = driven \cup {t}
            /\ UNCHANGED <<settling, failing>>,
            /\ click' = [click EXCEPT ![c].phase = "over"]
            /\ UNCHANGED <<clientRequests, settling, failing, driven>>)

-----------------------------------------------------------------------------
(* process: one command of a task's mailbox. *)

\* The mailbox takes a command only when the last one has been dealt with.
MailboxFree(t) == process = "up" /\ t \notin settling \cup failing

Moved(t, status, count) ==
  [status |-> status, version |-> sessions[t].version + 1,
   sequence |-> sessions[t].sequence + count]

\* The window has seen an event of the task: its controls name it.
KnownToUser(t) == published[t] # NoRecord

\* A step of the task itself; when it cannot be committed, failRuntime.
Step(t) ==
  /\ MailboxFree(t) /\ t \in driven /\ sessions[t].status = "active"
  /\ Room(t, 3)
  /\ Commit(t, Moved(t, "active", 1), 1,
       UNCHANGED <<settling, failing, driven, click, clientRequests>>,
       failing' = failing \cup {t} /\ UNCHANGED <<settling, driven, click, clientRequests>>)

\* The task comes to its end by itself.  failRuntime leaves an ended record alone.
Conclude(t) ==
  /\ MailboxFree(t) /\ t \in driven /\ sessions[t].status = "active"
  /\ Commit(t, Moved(t, "ended", 2), 2,
       settling' = settling \cup {t} /\ UNCHANGED <<failing, driven, click, clientRequests>>,
       driven' = driven \ {t} /\ UNCHANGED <<settling, failing, click, clientRequests>>)

\* failRuntime: FAIL is refused in "paused", and its own error is swallowed.
Fail(t) ==
  /\ process = "up" /\ t \in failing
  /\ IF sessions[t].status = "active"
       THEN Commit(t, Moved(t, "ended", 2), 2,
              /\ failing' = failing \ {t} /\ settling' = settling \cup {t}
              /\ driven' = driven \ {t} /\ UNCHANGED <<click, clientRequests>>,
              /\ failing' = failing \ {t} /\ driven' = driven \ {t}
              /\ UNCHANGED <<settling, click, clientRequests>>)
       ELSE /\ failing' = failing \ {t}
            /\ UNCHANGED <<process, sessions, settling, finished, driven, startVars, configVars,
                           disk, published, refused, restarts>>

\* control: the user's own commands reject to the caller when they throw.
Pause(t) ==
  /\ MailboxFree(t) /\ KnownToUser(t) /\ sessions[t].status = "active" /\ Room(t, 2)
  /\ Commit(t, Moved(t, "paused", 2), 2,
       /\ settling' = settling \cup {t} /\ driven' = driven \ {t}
       /\ UNCHANGED <<failing, click, clientRequests>>,
       driven' = driven \ {t} /\ UNCHANGED <<settling, failing, click, clientRequests>>)

Resume(t) ==
  /\ MailboxFree(t) /\ KnownToUser(t) /\ sessions[t].status = "paused" /\ Room(t, 2)
  /\ Commit(t, Moved(t, "active", 2), 2,
       driven' = driven \cup {t} /\ UNCHANGED <<settling, failing, click, clientRequests>>,
       UNCHANGED <<settling, failing, driven, click, clientRequests>>)

Cancel(t) ==
  /\ MailboxFree(t) /\ KnownToUser(t) /\ sessions[t].status \in {"active", "paused"}
  /\ Commit(t, Moved(t, "ended", 2), 2,
       /\ settling' = settling \cup {t} /\ driven' = driven \ {t}
       /\ UNCHANGED <<failing, click, clientRequests>>,
       driven' = driven \ {t} /\ UNCHANGED <<settling, failing, click, clientRequests>>)

\* The end of process: the effects are over, finishRuntime has closed the
\* provider session, and the refresher is told.
Settle(t) ==
  /\ process = "up" /\ t \in settling
  /\ settling' = settling \ {t}
  /\ finished' = IF sessions[t].status = "ended" THEN finished \cup {t} ELSE finished
  /\ Flush(sessions)
  /\ UNCHANGED <<process, sessions, failing, driven, startVars, disk, published,
                 refused, restarts>>

\* EVIDENCE_DELETED: allowed in every status; process then looks at the status
\* as after any command, so a runtime that was never closed is closed now.
DeleteEvidence(t) ==
  /\ MailboxFree(t) /\ KnownToUser(t) /\ sessions[t].status \in {"paused", "ended"}
  /\ Room(t, 1)
  /\ Commit(t, Moved(t, sessions[t].status, 1), 1,
       /\ settling' = IF t \in finished THEN settling ELSE settling \cup {t}
       /\ UNCHANGED <<failing, driven, click, clientRequests>>,
       UNCHANGED <<settling, failing, driven, click, clientRequests>>)

\* ownedRuntime: a call about a task of an earlier life takes it from its files.
Load(t) ==
  /\ process = "up" /\ KnownToUser(t) /\ sessions[t] = NoRecord /\ Readable(disk[t])
  /\ sessions' = [sessions EXCEPT ![t] = disk[t].snapshot]
  /\ finished' = IF disk[t].snapshot.status = "ended" THEN finished \cup {t} ELSE finished
  /\ UNCHANGED <<process, settling, failing, driven, startVars, configVars, disk,
                 published, refused, restarts>>

-----------------------------------------------------------------------------
(* The configuration. *)

\* Deviation: a refresh that finds active tasks is applied at once.
RefreshAtOnce(on) ==
  /\ policy' = config.number + 1
  /\ pendingConfig' = 0

\* refresh: applied at once, or kept until the tasks have settled.
Deferred(on) ==
  IF \E t \in Tasks : Blocking(sessions[t])
    THEN /\ pendingConfig' = config.number + 1
         /\ UNCHANGED policy
    ELSE /\ policy' = config.number + 1
         /\ pendingConfig' = 0

SaveConfig(on) ==
  /\ process = "up" /\ config.number < MaxConfigs
  /\ config' = [number |-> config.number + 1, agentMode |-> on]
  /\ Deferred(on)
  /\ UNCHANGED <<hostVars, startVars, disk, published, refused, restarts>>

-----------------------------------------------------------------------------
(* The application starts again. *)

Crash ==
  /\ process # "down"
  /\ Die(disk)

\* initAgentRuntime: the policy is read from the saved configuration.
Boot ==
  /\ process = "down"
  /\ process' = "booting"
  /\ policy' = config.number
  /\ UNCHANGED <<sessions, settling, failing, finished, driven, startVars, config, pendingConfig,
                 disk, published, refused, restarts>>

\* Deviation: only paused tasks are taken up again.
UnfinishedPaused(t) ==
  Readable(disk[t]) /\ disk[t].snapshot.status = "paused" /\ sessions[t] = NoRecord

\* recoverInterrupted, one task: paused, under a new version, without an event.
Unfinished(t) ==
  Readable(disk[t]) /\ disk[t].snapshot.status # "ended" /\ sessions[t] = NoRecord

Interrupted(t) ==
  [disk[t].snapshot EXCEPT !.status = "paused", !.version = @ + 1]

\* A write that throws ends the start-up: initIpc throws before the page is
\* loaded, and the user can only start the application again.
Recover(t) ==
  /\ process = "booting" /\ Unfinished(t)
  /\ \/ /\ disk' = [disk EXCEPT ![t] = Written(@, Interrupted(t), 0, 2)]
        /\ sessions' = [sessions EXCEPT ![t] = Interrupted(t)]
        /\ UNCHANGED <<process, settling, failing, finished, driven, startVars, configVars,
                       published, refused, restarts>>
     \/ /\ "full" \in Faults /\ Cardinality(refused) < MaxRefusals
        /\ refused' = refused \cup {t}
        /\ \E done \in 0 .. 2 : Down([disk EXCEPT ![t] = Written(@, Interrupted(t), 0, done)])
        /\ UNCHANGED restarts
     \/ \E done \in 0 .. 2 :
          Die([disk EXCEPT ![t] = Written(@, Interrupted(t), 0, done)])

\* cleanup drops ended tasks that have grown old; then the window can call.
Booted ==
  /\ process = "booting" /\ \A t \in Tasks : ~Unfinished(t)
  /\ \E old \in SUBSET {t \in Tasks : Readable(disk[t]) /\ disk[t].snapshot.status = "ended"} :
       disk' = [t \in Tasks |-> IF t \in old THEN NoFiles ELSE disk[t]]
  /\ process' = "up"
  /\ UNCHANGED <<sessions, settling, failing, finished, driven, startVars, configVars,
                 published, refused, restarts>>

-----------------------------------------------------------------------------
Init ==
  /\ process = "up"
  /\ sessions = [t \in Tasks |-> NoRecord]
  /\ settling = {} /\ failing = {} /\ driven = {} /\ finished = {}
  /\ click = [c \in Clicks |-> NoClick]
  /\ clientRequests = 0
  /\ config = [number |-> 1, agentMode |-> TRUE]
  /\ policy = 1 /\ pendingConfig = 0
  /\ disk = [t \in Tasks |-> NoFiles]
  /\ published = [t \in Tasks |-> NoRecord]
  /\ refused = {} /\ restarts = 0

Next ==
  \/ \E c \in Clicks : Start(c) \/ StartRejected(c) \/ StartBound(c)
  \/ \E t \in Tasks : \/ Step(t) \/ Conclude(t) \/ Fail(t) \/ Settle(t)
                      \/ Pause(t) \/ Resume(t) \/ Cancel(t) \/ Recover(t)
                      \/ DeleteEvidence(t) \/ Load(t)
  \/ \E on \in BOOLEAN : SaveConfig(on)
  \/ Crash \/ Boot \/ Booted

Spec == Init /\ [][Next]_vars

-----------------------------------------------------------------------------
(* Properties. *)

TypeOK ==
  /\ process \in {"down", "booting", "up"}
  /\ sessions \in [Tasks -> Records \cup {NoRecord}]
  /\ settling \subseteq Tasks /\ failing \subseteq Tasks
  /\ finished \subseteq Tasks /\ driven \subseteq Tasks
  /\ click \in [Clicks -> [phase : {"idle", "resolving", "answered", "over"},
                           task : Tasks \cup {0}]]
  /\ clientRequests \in Tasks \cup {0}
  /\ config \in [number : 1 .. MaxConfigs, agentMode : BOOLEAN]
  /\ policy \in 1 .. MaxConfigs /\ pendingConfig \in 0 .. MaxConfigs
  /\ disk \in [Tasks -> [snapshot : Records \cup {NoRecord},
                         manifest : Records \cup {NoRecord}, events : SUBSET Nat]]
  /\ published \in [Tasks -> Records \cup {NoRecord}]
  /\ refused \subseteq Tasks /\ restarts \in 0 .. MaxRestarts

\* What the window has been shown is in the files: the event itself and a
\* snapshot that is at least as new, whatever was cut short or refused since.
\* (Files are only removed from tasks that have ended.)
PublishedIsDurable ==
  \A t \in Tasks :
    published[t] # NoRecord /\ disk[t] # NoFiles
      => /\ published[t].sequence \in disk[t].events
         /\ disk[t].snapshot.version >= published[t].version

\* A restart loses no task the user has seen and that had not ended, unless
\* the crash came between the renames of its snapshot and its manifest, or the
\* manifest had been refused; every other one is there, and paused or on its way.
OnlyATornSnapshotLosesATask ==
  \A t \in Tasks :
    process = "up" /\ published[t].status \in {"active", "paused"} /\ ~Torn(disk[t])
      => \/ sessions[t] # NoRecord
         \/ disk[t].snapshot.status = "ended" \/ disk[t] = NoFiles

\* The policy does not change under a task that is active before and after.
PolicyFrozenWhileActive ==
  [][policy' # policy => \A t \in Tasks : ~(Blocking(sessions[t]) /\ Blocking(sessions'[t]))]_vars

\* A configuration waits only while some task is active or on its way to
\* telling the refresher that it has stopped, or has had a commit refused.
PendingConfigHasAReason ==
  pendingConfig # 0 =>
    \/ \E t \in Tasks : sessions[t].status = "active"
    \/ settling # {} \/ refused # {}
=============================================================================
