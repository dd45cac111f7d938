---------------------------- MODULE AgentHostProofs ----------------------------
(***************************************************************************)
(* Proofs about AgentHost, for any set of tasks and clicks and any bounds: *)
(* what the window was shown stays in the files, a restart loses only a    *)
(* task whose snapshot was torn, a configuration waits for a reason, and   *)
(* the policy does not change under an active task.                        *)
(*                                                                         *)
(* The files are safe because only tasks the window knows are ever moved,  *)
(* because their records' versions never fall behind what was shown, and   *)
(* because files are removed while no ended task is loaded.                *)
(***************************************************************************)
EXTENDS AgentHost, TLAPS

Files == [snapshot : Records \cup {NoRecord}, manifest : Records \cup {NoRecord},
          events : SUBSET Nat]

-----------------------------------------------------------------------------
(* The inductive invariant. *)

\* A task that has files has a snapshot.
FilesHaveSnapshot ==
  \A t \in Tasks : disk[t] = NoFiles \/ disk[t].snapshot # NoRecord

\* What is in memory is never behind what the window has been shown.
MemoryIsAhead ==
  \A t \in Tasks :
    published[t] # NoRecord /\ sessions[t] # NoRecord
      => disk[t].snapshot # NoRecord /\ sessions[t].version >= published[t].version

\* Only tasks the window knows have work or a failure ahead of them.
OnlyKnownTasksMove == \A t \in driven \cup failing : published[t] # NoRecord

\* Before the window can call, memory holds recovered tasks only.
BootLoadsPaused ==
  \A t \in Tasks :
    sessions[t] # NoRecord => /\ process # "down"
                              /\ process = "booting" => disk[t].snapshot.status = "paused"

HostInv ==
  /\ TypeOK
  /\ FilesHaveSnapshot /\ MemoryIsAhead /\ OnlyKnownTasksMove /\ BootLoadsPaused
  /\ PublishedIsDurable /\ OnlyATornSnapshotLosesATask /\ PendingConfigHasAReason

\* What every commit of a task does, whoever asked for it.
Saved(t, record, count) ==
  /\ disk' = [disk EXCEPT ![t] = Written(@, record, count, count + 2)]
  /\ published' = [published EXCEPT ![t] = record]
  /\ sessions' = [sessions EXCEPT ![t] = record]
  /\ UNCHANGED <<process, finished, config, policy, pendingConfig, refused, restarts>>
Refused(t, record, count) ==
  /\ \E done \in 0 .. count + 2 : disk' = [disk EXCEPT ![t] = Written(@, record, count, done)]
  /\ sessions' = [sessions EXCEPT ![t] = record]
  /\ refused' = refused \cup {t}
  /\ UNCHANGED <<process, finished, config, policy, pendingConfig, published, restarts>>
CutShort(t, record, count) ==
  \E done \in 0 .. count + 2 : Die([disk EXCEPT ![t] = Written(@, record, count, done)])

-----------------------------------------------------------------------------
(* The files. *)

LEMMA RecordFacts ==
  /\ NoRecord \notin Records
  /\ \A r \in Records : r # NoRecord /\ r.version \in Nat /\ r.sequence \in Nat
                        /\ r.status \in Statuses
BY DEF NoRecord, Records, Statuses

LEMMA FilesOfTasks ==
  TypeOK => /\ disk \in [Tasks -> Files]
            /\ sessions \in [Tasks -> Records \cup {NoRecord}]
            /\ published \in [Tasks -> Records \cup {NoRecord}]
BY DEF TypeOK, Files

\* What the writes of a commit do to the files of its task.
LEMMA WrittenFiles ==
  ASSUME NEW files \in Files, NEW record \in Records, NEW count \in Nat,
         count <= record.sequence, NEW done \in 0 .. count + 2
  PROVE  /\ Written(files, record, count, done) \in Files
         /\ files.events \subseteq Written(files, record, count, done).events
         /\ done = 0 => Written(files, record, count, done) = files
         /\ done >= 1 => Written(files, record, count, done).snapshot = record
         /\ done >= 2 => Written(files, record, count, done).manifest = record
         /\ count >= 1 /\ done = count + 2
              => record.sequence \in Written(files, record, count, done).events
<1> DEFINE w == Written(files, record, count, done)
           added == {e \in record.sequence - count + 1 .. record.sequence :
                       e + 2 <= record.sequence - count + done}
<1>1. record.sequence \in Nat /\ record.sequence - count \in Nat
  BY RecordFacts
<1>2. added \subseteq Nat
  BY <1>1
<1>3. files.events \subseteq Nat /\ files.snapshot \in Records \cup {NoRecord}
      /\ files.manifest \in Records \cup {NoRecord}
  BY DEF Files
<1>4. /\ w.snapshot = IF done >= 1 THEN record ELSE files.snapshot
      /\ w.manifest = IF done >= 2 THEN record ELSE files.manifest
      /\ w.events = files.events \cup added
      /\ w = [snapshot |-> w.snapshot, manifest |-> w.manifest, events |-> w.events]
  BY DEF Written
<1>5. w \in Files
  BY <1>2, <1>3, <1>4 DEF Files
<1>6. ASSUME done = 0 PROVE w = files
  <2>1. added = {}
    BY <1>1, <1>6
  <2>2. w.snapshot = files.snapshot /\ w.manifest = files.manifest /\ w.events = files.events
    BY <1>4, <1>6, <2>1
  <2> QED BY <1>5, <2>2 DEF Files
<1>7. ASSUME count >= 1, done = count + 2 PROVE record.sequence \in added
  BY <1>1, <1>7
<1> HIDE DEF w, added
<1>8. /\ w \in Files /\ files.events \subseteq w.events
      /\ done = 0 => w = files
      /\ done >= 1 => w.snapshot = record
      /\ done >= 2 => w.manifest = record
      /\ count >= 1 /\ done = count + 2 => record.sequence \in w.events
  BY <1>4, <1>5, <1>6, <1>7
<1> QED
  BY <1>8 DEF w

-----------------------------------------------------------------------------
(* Crashes and commits. *)

StartTyped ==
  /\ click \in [Clicks -> [phase : {"idle", "resolving", "answered", "over"},
                           task : Tasks \cup {0}]]
  /\ clientRequests \in Tasks \cup {0}

\* The files a crash leaves behind keep what was shown.
Holding(files) ==
  /\ files \in [Tasks -> Files]
  /\ \A t \in Tasks : files[t] = NoFiles \/ files[t].snapshot # NoRecord
  /\ \A t \in Tasks :
       published[t] # NoRecord /\ files[t] # NoFiles
         => /\ published[t].sequence \in files[t].events
            /\ files[t].snapshot.version >= published[t].version

LEMMA HoldingNow == HostInv => Holding(disk)
BY FilesOfTasks DEF HostInv, Holding, FilesHaveSnapshot, PublishedIsDurable

LEMMA DownKeeps ==
  ASSUME HostInv, NEW files, Holding(files), Down(files),
         refused' \subseteq Tasks, restarts' \in 0 .. MaxRestarts
  PROVE  HostInv'
<1>1. /\ process' = "down" /\ settling' = {} /\ failing' = {} /\ driven' = {} /\ finished' = {}
      /\ sessions' = [t \in Tasks |-> NoRecord] /\ pendingConfig' = 0
      /\ disk' = files /\ UNCHANGED <<config, policy, published>>
      /\ clientRequests' = 0
      /\ click' = [c \in Clicks |-> IF click[c].phase = "idle" THEN NoClick
                                    ELSE [click[c] EXCEPT !.phase = "over"]]
  BY DEF Down
<1>2. StartTyped'
  BY <1>1 DEF HostInv, TypeOK, StartTyped, NoClick
<1>3. TypeOK'
  <2>1. /\ process' \in {"down", "booting", "up"}
        /\ sessions' \in [Tasks -> Records \cup {NoRecord}]
        /\ settling' \subseteq Tasks /\ failing' \subseteq Tasks
        /\ finished' \subseteq Tasks /\ driven' \subseteq Tasks
    BY <1>1
  <2>2. /\ config' \in [number : 1 .. MaxConfigs, agentMode : BOOLEAN]
        /\ policy' \in 1 .. MaxConfigs /\ pendingConfig' \in 0 .. MaxConfigs
        /\ published' \in [Tasks -> Records \cup {NoRecord}] /\ refused' \subseteq Tasks
    BY <1>1, HostAssumption DEF HostInv, TypeOK
  <2>3. restarts' \in 0 .. MaxRestarts
    OBVIOUS
  <2>4. disk' \in [Tasks -> [snapshot : Records \cup {NoRecord},
                             manifest : Records \cup {NoRecord}, events : SUBSET Nat]]
    BY <1>1 DEF Holding, Files
  <2> QED BY <1>2, <2>1, <2>2, <2>3, <2>4 DEF TypeOK, StartTyped
<1>4. FilesHaveSnapshot' /\ PublishedIsDurable'
  BY <1>1 DEF Holding, FilesHaveSnapshot, PublishedIsDurable
<1>5. MemoryIsAhead' /\ OnlyKnownTasksMove' /\ BootLoadsPaused'
  BY <1>1 DEF MemoryIsAhead, OnlyKnownTasksMove, BootLoadsPaused
<1>6. OnlyATornSnapshotLosesATask' /\ PendingConfigHasAReason'
  BY <1>1 DEF OnlyATornSnapshotLosesATask, PendingConfigHasAReason
<1> QED
  BY <1>3, <1>4, <1>5, <1>6 DEF HostInv

LEMMA DieKeeps == ASSUME HostInv, NEW files, Holding(files), Die(files) PROVE HostInv'
<1>1. refused' \subseteq Tasks /\ restarts' \in 0 .. MaxRestarts
  BY HostAssumption DEF Die, HostInv, TypeOK
<1> QED
  BY <1>1, DownKeeps DEF Die

\* A record that may follow the one in memory, with one event or more.
Follows(t, record, count) ==
  /\ t \in Tasks /\ record \in Records /\ count \in Nat \ {0} /\ count <= record.sequence
  /\ process = "up"
  /\ published[t] # NoRecord
       => sessions[t] # NoRecord /\ record.version >= sessions[t].version

\* However many of a commit's writes are made, the files hold what was shown.
LEMMA PartlyWrittenHolds ==
  ASSUME HostInv, NEW t, NEW record, NEW count, Follows(t, record, count),
         NEW done \in 0 .. count + 2
  PROVE  Holding([disk EXCEPT ![t] = Written(@, record, count, done)])
<1> DEFINE w == Written(disk[t], record, count, done)
           files == [disk EXCEPT ![t] = w]
<1>1. t \in Tasks /\ record \in Records /\ disk \in [Tasks -> Files] /\ disk[t] \in Files
  BY FilesOfTasks DEF HostInv, Follows
<1>2. /\ w \in Files /\ disk[t].events \subseteq w.events
      /\ done = 0 => w = disk[t]
      /\ done >= 1 => w.snapshot = record
  BY <1>1, WrittenFiles DEF Follows
<1>3. done = 0 \/ done >= 1
  OBVIOUS
<1> HIDE DEF w
<1>4. files \in [Tasks -> Files] /\ files[t] = w /\ \A s \in Tasks : s # t => files[s] = disk[s]
  BY <1>1, <1>2
<1>5. w = NoFiles \/ w.snapshot # NoRecord
  BY <1>1, <1>2, <1>3, RecordFacts DEF HostInv, FilesHaveSnapshot
<1>6. ASSUME published[t] # NoRecord, w # NoFiles
      PROVE  published[t].sequence \in w.events /\ w.snapshot.version >= published[t].version
  <2>1. /\ sessions[t] # NoRecord /\ record.version >= sessions[t].version
        /\ disk[t].snapshot # NoRecord /\ sessions[t].version >= published[t].version
    BY <1>1, <1>6 DEF Follows, HostInv, MemoryIsAhead
  <2>2. disk[t] # NoFiles
    BY <2>1 DEF NoFiles
  <2>3. /\ published[t].sequence \in disk[t].events
        /\ disk[t].snapshot.version >= published[t].version
    BY <1>1, <1>6, <2>2 DEF HostInv, PublishedIsDurable
  <2>4. sessions[t] \in Records /\ published[t] \in Records
    BY <1>1, <1>6, <2>1, FilesOfTasks DEF HostInv
  <2>5. /\ record.version \in Nat /\ sessions[t].version \in Nat /\ published[t].version \in Nat
    BY <1>1, <2>4, RecordFacts
  <2>6. record.version >= published[t].version
    BY <2>1, <2>5
  <2> QED BY <1>2, <1>3, <2>3, <2>6
<1> HIDE DEF files
<1>7. Holding(files)
  BY <1>4, <1>5, <1>6, HoldingNow DEF Holding
<1> QED
  BY <1>7 DEF files, w

LEMMA CutShortKeeps ==
  ASSUME HostInv, NEW t, NEW record, NEW count, Follows(t, record, count),
         CutShort(t, record, count)
  PROVE  HostInv'
<1>1. PICK done \in 0 .. count + 2 : Die([disk EXCEPT ![t] = Written(@, record, count, done)])
  BY DEF CutShort
<1> QED
  BY <1>1, PartlyWrittenHolds, DieKeeps

\* What a commit may do to the task's work: only its own task joins it, and a
\* task that stops is on its way to the refresher.
Bookkept(t, record) ==
  /\ settling \subseteq settling' /\ settling' \subseteq Tasks
  /\ driven' \cup failing' \subseteq driven \cup failing \cup {t}
  /\ StartTyped'
  /\ sessions[t].status = "active" => record.status = "active" \/ t \in settling'

LEMMA SavedKeeps ==
  ASSUME HostInv, NEW t, NEW record, NEW count, Follows(t, record, count),
         Saved(t, record, count), Bookkept(t, record)
  PROVE  HostInv'
<1> DEFINE w == Written(disk[t], record, count, count + 2)
<1>1. /\ t \in Tasks /\ record \in Records /\ record # NoRecord /\ record.version \in Nat
      /\ disk \in [Tasks -> Files] /\ disk[t] \in Files
      /\ sessions \in [Tasks -> Records \cup {NoRecord}]
      /\ published \in [Tasks -> Records \cup {NoRecord}]
  BY FilesOfTasks, RecordFacts DEF HostInv, Follows
<1>2. count + 2 \in 0 .. count + 2 /\ count + 2 >= 1 /\ count >= 1 /\ count \in Nat
  BY DEF Follows
<1>3. w \in Files /\ w.snapshot = record /\ record.sequence \in w.events
  BY <1>1, <1>2, WrittenFiles DEF Follows
<1> HIDE DEF w
<1>4. /\ disk' \in [Tasks -> Files] /\ disk'[t] = w
      /\ \A s \in Tasks : s # t => disk'[s] = disk[s]
  BY <1>1, <1>3 DEF Saved, w
<1>5. /\ sessions' \in [Tasks -> Records \cup {NoRecord}] /\ sessions'[t] = record
      /\ published' \in [Tasks -> Records \cup {NoRecord}] /\ published'[t] = record
      /\ \A s \in Tasks : s # t => sessions'[s] = sessions[s] /\ published'[s] = published[s]
  BY <1>1 DEF Saved
<1>6. process = "up" /\ UNCHANGED <<process, finished, config, policy, pendingConfig, refused,
                                    restarts>>
  BY DEF Saved, Follows
<1>7. TypeOK'
  <2>1. /\ settling' \subseteq Tasks /\ failing' \subseteq Tasks /\ driven' \subseteq Tasks
    BY <1>1 DEF Bookkept, HostInv, TypeOK
  <2> QED BY <1>4, <1>5, <1>6, <2>1 DEF TypeOK, HostInv, Bookkept, StartTyped, Files
<1>8. FilesHaveSnapshot' /\ MemoryIsAhead'
  BY <1>1, <1>3, <1>4, <1>5 DEF FilesHaveSnapshot, MemoryIsAhead, HostInv
<1>9. OnlyKnownTasksMove'
  <2>1. ASSUME NEW s \in driven \cup failing \cup {t} PROVE published'[s] # NoRecord
    BY <1>1, <1>5 DEF OnlyKnownTasksMove, HostInv, TypeOK
  <2> QED BY <2>1 DEF OnlyKnownTasksMove, Bookkept
<1>10. BootLoadsPaused'
  BY <1>6 DEF BootLoadsPaused
<1>11. PublishedIsDurable'
  BY <1>1, <1>3, <1>4, <1>5 DEF PublishedIsDurable, HostInv
<1>12. OnlyATornSnapshotLosesATask'
  BY <1>1, <1>4, <1>5, <1>6 DEF OnlyATornSnapshotLosesATask, HostInv
<1>13. PendingConfigHasAReason'
  <2>1. ASSUME NEW s \in Tasks, sessions[s].status = "active"
        PROVE  (\E u \in Tasks : sessions'[u].status = "active") \/ settling' # {}
    BY <1>1, <1>5, <2>1 DEF Bookkept
  <2> QED BY <1>6, <2>1 DEF PendingConfigHasAReason, HostInv, Bookkept
<1> QED
  BY <1>7, <1>8, <1>9, <1>10, <1>11, <1>12, <1>13 DEF HostInv

LEMMA RefusedKeeps ==
  ASSUME HostInv, NEW t, NEW record, NEW count, Follows(t, record, count),
         Refused(t, record, count), Bookkept(t, sessions[t]),
         t \in driven' \cup failing' => t \in driven \cup failing \/ published[t] # NoRecord
  PROVE  HostInv'
<1>1. PICK done \in 0 .. count + 2 :
             disk' = [disk EXCEPT ![t] = Written(@, record, count, done)]
  BY DEF Refused
<1>2. Holding(disk')
  BY <1>1, PartlyWrittenHolds
<1>3. /\ t \in Tasks /\ record \in Records /\ record # NoRecord /\ record.version \in Nat
      /\ disk \in [Tasks -> Files] /\ disk[t] \in Files
      /\ sessions \in [Tasks -> Records \cup {NoRecord}]
      /\ published \in [Tasks -> Records \cup {NoRecord}]
  BY FilesOfTasks, RecordFacts DEF HostInv, Follows
<1>4. \A s \in Tasks : s # t => disk'[s] = disk[s]
  BY <1>1, <1>3
<1>5. /\ sessions' \in [Tasks -> Records \cup {NoRecord}] /\ sessions'[t] = record
      /\ \A s \in Tasks : s # t => sessions'[s] = sessions[s]
  BY <1>3 DEF Refused
<1>6. /\ process = "up" /\ refused' = refused \cup {t}
      /\ UNCHANGED <<process, finished, config, policy, pendingConfig, published, restarts>>
  BY DEF Refused, Follows
<1>7. TypeOK'
  <2>1. /\ settling' \subseteq Tasks /\ failing' \subseteq Tasks /\ driven' \subseteq Tasks
        /\ refused' \subseteq Tasks
    BY <1>3, <1>6 DEF Bookkept, HostInv, TypeOK
  <2>2. disk' \in [Tasks -> Files]
    BY <1>2 DEF Holding
  <2> QED BY <1>5, <1>6, <2>1, <2>2 DEF TypeOK, HostInv, Bookkept, StartTyped, Files
<1>8. FilesHaveSnapshot' /\ PublishedIsDurable'
  BY <1>2, <1>6 DEF Holding, FilesHaveSnapshot, PublishedIsDurable
<1>9. MemoryIsAhead'
  <2>1. ASSUME NEW s \in Tasks, s # t, published'[s] # NoRecord, sessions'[s] # NoRecord
        PROVE  disk'[s].snapshot # NoRecord /\ sessions'[s].version >= published'[s].version
    BY <1>4, <1>5, <1>6, <2>1 DEF MemoryIsAhead, HostInv
  <2>2. ASSUME published[t] # NoRecord
        PROVE  disk'[t].snapshot # NoRecord /\ sessions'[t].version >= published[t].version
    <3>1. /\ sessions[t] # NoRecord /\ record.version >= sessions[t].version
          /\ disk[t].snapshot # NoRecord /\ sessions[t].version >= published[t].version
      BY <1>3, <2>2 DEF Follows, HostInv, MemoryIsAhead
    <3>2. sessions[t].version \in Nat /\ published[t].version \in Nat
      BY <1>3, <2>2, <3>1, RecordFacts
    <3>3. /\ done = 0 => disk'[t] = disk[t]
          /\ done >= 1 => disk'[t].snapshot = record
      BY <1>1, <1>3, WrittenFiles DEF Follows
    <3> QED BY <1>3, <1>5, <3>1, <3>2, <3>3
  <2> QED BY <1>6, <2>1, <2>2 DEF MemoryIsAhead
<1>10. OnlyKnownTasksMove'
  <2>1. ASSUME NEW s \in driven' \cup failing' PROVE published'[s] # NoRecord
    BY <1>6 DEF OnlyKnownTasksMove, HostInv, Bookkept
  <2> QED BY <2>1 DEF OnlyKnownTasksMove
<1>11. BootLoadsPaused'
  BY <1>6 DEF BootLoadsPaused
<1>12. OnlyATornSnapshotLosesATask'
  BY <1>3, <1>4, <1>5, <1>6 DEF OnlyATornSnapshotLosesATask, HostInv
<1>13. PendingConfigHasAReason'
  BY <1>6 DEF PendingConfigHasAReason
<1> QED
  BY <1>7, <1>8, <1>9, <1>10, <1>11, <1>12, <1>13 DEF HostInv

-----------------------------------------------------------------------------
(* The steps. *)

\* A task the window knows and that is in memory moves to a later version.
LEMMA MovedFollows ==
  ASSUME HostInv, NEW t \in Tasks, process = "up", sessions[t] # NoRecord,
         NEW status \in Statuses, NEW count \in Nat \ {0}
  PROVE  Follows(t, Moved(t, status, count), count)
<1>1. sessions[t] \in Records
  BY FilesOfTasks DEF HostInv
<1>2. sessions[t].version \in Nat /\ sessions[t].sequence \in Nat
  BY <1>1, RecordFacts
<1>3. /\ Moved(t, status, count) \in Records
      /\ Moved(t, status, count).version = sessions[t].version + 1
      /\ Moved(t, status, count).sequence = sessions[t].sequence + count
  BY <1>2 DEF Moved, Records
<1> QED
  BY <1>2, <1>3 DEF Follows

StartSteps(c) == Start(c) \/ StartRejected(c) \/ StartBound(c)
UserSteps(t) == Pause(t) \/ Resume(t) \/ Cancel(t) \/ DeleteEvidence(t)
TaskSteps(t) == Step(t) \/ Conclude(t) \/ Fail(t)

LEMMA StartKeeps ==
  ASSUME HostInv, NEW c \in Clicks, Start(c) \/ StartRejected(c)
  PROVE  HostInv'
<1>1. /\ UNCHANGED <<hostVars, configVars, disk, published, refused, restarts>>
      /\ clientRequests' = clientRequests
  BY DEF Start, StartRejected
<1>2. StartTyped'
  <2>1. CASE Start(c)
    BY <1>1, <2>1 DEF Start, StartTyped, HostInv, TypeOK
  <2>2. CASE StartRejected(c)
    BY <1>1, <2>2 DEF StartRejected, StartTyped, HostInv, TypeOK
  <2> QED BY <2>1, <2>2
<1>3. TypeOK'
  BY <1>1, <1>2 DEF TypeOK, HostInv, StartTyped, hostVars, configVars
<1> QED
  BY <1>1, <1>3 DEF HostInv, hostVars, configVars, FilesHaveSnapshot, MemoryIsAhead,
     OnlyKnownTasksMove, BootLoadsPaused, PublishedIsDurable, OnlyATornSnapshotLosesATask,
     PendingConfigHasAReason, Torn

LEMMA StartBoundKeeps == ASSUME HostInv, NEW c \in Clicks, StartBound(c) PROVE HostInv'
<1> DEFINE record == [status |-> "active", version |-> 1, sequence |-> 2]
<1>1. PICK t \in Tasks :
        /\ NextTask(t)
        /\ Commit(t, record, 2,
             /\ click' = [click EXCEPT ![c].phase = "answered", ![c].task = t]
             /\ clientRequests' = t
             /\ driven' = driven \cup {t}
             /\ UNCHANGED <<settling, failing>>,
             /\ click' = [click EXCEPT ![c].phase = "over"]
             /\ UNCHANGED <<clientRequests, settling, failing, driven>>)
  BY DEF StartBound
<1>2. process = "up" /\ sessions[t] = NoRecord /\ published[t] = NoRecord
  BY <1>1 DEF StartBound, NextTask, FreshTasks
<1>3. Follows(t, record, 2)
  BY <1>2 DEF Follows, Records, Statuses
<1>4. CASE CutShort(t, record, 2)
  BY <1>3, <1>4, CutShortKeeps
<1>5. CASE /\ Saved(t, record, 2) /\ driven' = driven \cup {t} /\ UNCHANGED <<settling, failing>>
           /\ click' = [click EXCEPT ![c].phase = "answered", ![c].task = t]
           /\ clientRequests' = t
  <2>1. StartTyped'
    <3>1. /\ click \in [Clicks -> [phase : {"idle", "resolving", "answered", "over"},
                                   task : Tasks \cup {0}]]
          /\ click[c] \in [phase : {"idle", "resolving", "answered", "over"},
                           task : Tasks \cup {0}]
      BY DEF HostInv, TypeOK
    <3> DEFINE mid == [click EXCEPT ![c].phase = "answered"]
    <3>2. mid \in [Clicks -> [phase : {"idle", "resolving", "answered", "over"},
                             task : Tasks \cup {0}]]
      BY <3>1
    <3>3. click' = [mid EXCEPT ![c].task = t]
      BY <1>5
    <3> HIDE DEF mid
    <3>4. click' \in [Clicks -> [phase : {"idle", "resolving", "answered", "over"},
                                task : Tasks \cup {0}]]
      BY <3>2, <3>3
    <3> QED BY <1>5, <3>4 DEF StartTyped
  <2>2. Bookkept(t, record)
    BY <1>2, <1>5, <2>1 DEF Bookkept, NoRecord, HostInv, TypeOK
  <2> HIDE DEF record
  <2> QED BY <1>3, <1>5, <2>2, SavedKeeps
<1>6. CASE /\ Refused(t, record, 2)
           /\ click' = [click EXCEPT ![c].phase = "over"]
           /\ UNCHANGED <<clientRequests, settling, failing, driven>>
  <2>1. StartTyped'
    BY <1>6 DEF StartTyped, HostInv, TypeOK
  <2>2. Bookkept(t, sessions[t])
    BY <1>2, <1>6, <2>1 DEF Bookkept, NoRecord, HostInv, TypeOK
  <2> HIDE DEF record
  <2> QED BY <1>3, <1>6, <2>2, RefusedKeeps
<1> QED
  BY <1>1, <1>4, <1>5, <1>6 DEF Commit, Saved, Refused, CutShort, PublishNothing

\* Every commit of a task's own step or of the user's command has this shape.
Committed(t, status, count) ==
  \/ CutShort(t, Moved(t, status, count), count)
  \/ /\ Saved(t, Moved(t, status, count), count)
     /\ settling \subseteq settling' /\ settling' \subseteq settling \cup {t}
     /\ driven' \cup failing' \subseteq driven \cup failing \cup {t}
     /\ UNCHANGED startVars
     /\ status = "active" \/ t \in settling' \/ sessions[t].status # "active"
  \/ /\ Refused(t, Moved(t, status, count), count)
     /\ settling' = settling
     /\ driven' \cup failing' \subseteq driven \cup failing \cup {t}
     /\ t \in driven' \cup failing' => t \in driven \cup failing \/ published[t] # NoRecord
     /\ UNCHANGED startVars

LEMMA CommittedKeeps ==
  ASSUME HostInv, NEW t \in Tasks, process = "up", sessions[t] # NoRecord,
         NEW status \in Statuses, NEW count \in Nat \ {0}, Committed(t, status, count)
  PROVE  HostInv'
<1> DEFINE record == Moved(t, status, count)
<1>1. Follows(t, record, count) /\ record.status = status
  BY MovedFollows DEF Moved
<1>2. settling \subseteq Tasks /\ StartTyped
  BY DEF HostInv, TypeOK, StartTyped
<1> HIDE DEF record
<1>3. CASE CutShort(t, record, count)
  BY <1>1, <1>3, CutShortKeeps
<1>4. CASE /\ Saved(t, record, count)
           /\ settling \subseteq settling' /\ settling' \subseteq settling \cup {t}
           /\ driven' \cup failing' \subseteq driven \cup failing \cup {t}
           /\ UNCHANGED startVars
           /\ status = "active" \/ t \in settling' \/ sessions[t].status # "active"
  <2>1. Bookkept(t, record)
    BY <1>1, <1>2, <1>4 DEF Bookkept, StartTyped, startVars
  <2> QED BY <1>1, <1>4, <2>1, SavedKeeps
<1>5. CASE /\ Refused(t, record, count)
           /\ settling' = settling
           /\ driven' \cup failing' \subseteq driven \cup failing \cup {t}
           /\ t \in driven' \cup failing' => t \in driven \cup failing \/ published[t] # NoRecord
           /\ UNCHANGED startVars
  <2>1. Bookkept(t, sessions[t])
    BY <1>1, <1>2, <1>5 DEF Bookkept, StartTyped, startVars
  <2> QED BY <1>1, <1>5, <2>1, RefusedKeeps
<1> QED
  BY <1>3, <1>4, <1>5 DEF Committed, record

LEMMA TaskStepKeeps == ASSUME HostInv, NEW t \in Tasks, TaskSteps(t) PROVE HostInv'
<1>1. /\ "active" \in Statuses /\ "ended" \in Statuses
      /\ sessions[t].status = "active" => sessions[t] # NoRecord
  BY DEF Statuses, NoRecord
<1>2. t \in driven \cup failing => published[t] # NoRecord
  BY DEF HostInv, OnlyKnownTasksMove
<1>3. CASE Step(t)
  <2>1. Committed(t, "active", 1)
    BY <1>2, <1>3 DEF Step, Commit, Committed, Saved, Refused, CutShort,
         PublishNothing, startVars
  <2>2. process = "up" /\ sessions[t] # NoRecord
    BY <1>1, <1>3 DEF Step, MailboxFree
  <2> QED BY <1>1, <2>1, <2>2, CommittedKeeps
<1>4. CASE Conclude(t)
  <2>1. Committed(t, "ended", 2)
    BY <1>2, <1>4 DEF Conclude, Commit, Committed, Saved, Refused, CutShort,
         PublishNothing, startVars
  <2>2. process = "up" /\ sessions[t] # NoRecord
    BY <1>1, <1>4 DEF Conclude, MailboxFree
  <2> QED BY <1>1, <2>1, <2>2, CommittedKeeps
<1>5. CASE Fail(t) /\ sessions[t].status = "active"
  <2>1. Committed(t, "ended", 2)
    BY <1>2, <1>5 DEF Fail, Commit, Committed, Saved, Refused, CutShort,
         PublishNothing, startVars
  <2>2. process = "up" /\ sessions[t] # NoRecord
    BY <1>1, <1>5 DEF Fail
  <2> QED BY <1>1, <2>1, <2>2, CommittedKeeps
<1>6. CASE Fail(t) /\ sessions[t].status # "active"
  <2>1. /\ failing' \subseteq failing
        /\ UNCHANGED <<process, sessions, settling, finished, driven, startVars, configVars,
                       disk, published, refused, restarts>>
    BY <1>6 DEF Fail
  <2>2. TypeOK'
    BY <2>1 DEF HostInv, TypeOK, startVars, configVars
  <2> QED BY <2>1, <2>2 DEF HostInv, configVars, FilesHaveSnapshot, MemoryIsAhead,
             OnlyKnownTasksMove, BootLoadsPaused, PublishedIsDurable,
             OnlyATornSnapshotLosesATask, PendingConfigHasAReason, Torn
<1> QED
  BY <1>3, <1>4, <1>5, <1>6 DEF TaskSteps

LEMMA UserStepKeeps == ASSUME HostInv, NEW t \in Tasks, UserSteps(t) PROVE HostInv'
<1>1. /\ "active" \in Statuses /\ "paused" \in Statuses /\ "ended" \in Statuses
      /\ sessions[t].status \in Statuses => sessions[t] # NoRecord
  BY DEF Statuses, NoRecord
<1>2. process = "up" /\ published[t] # NoRecord /\ sessions[t] # NoRecord
  BY <1>1 DEF UserSteps, Pause, Resume, Cancel, DeleteEvidence, MailboxFree, KnownToUser
<1>3. CASE Pause(t)
  <2>1. Committed(t, "paused", 2)
    BY <1>3 DEF Pause, Commit, Committed, Saved, Refused, CutShort,
         PublishNothing, startVars
  <2> QED BY <1>1, <1>2, <2>1, CommittedKeeps
<1>4. CASE Resume(t)
  <2>1. Committed(t, "active", 2)
    BY <1>2, <1>4 DEF Resume, Commit, Committed, Saved, Refused, CutShort,
         PublishNothing, startVars
  <2> QED BY <1>1, <1>2, <2>1, CommittedKeeps
<1>5. CASE Cancel(t)
  <2>1. Committed(t, "ended", 2)
    BY <1>5 DEF Cancel, Commit, Committed, Saved, Refused, CutShort,
         PublishNothing, startVars
  <2> QED BY <1>1, <1>2, <2>1, CommittedKeeps
<1>6. CASE DeleteEvidence(t)
  <2>1. Committed(t, sessions[t].status, 1)
    BY <1>6 DEF DeleteEvidence, Commit, Committed, Saved, Refused, CutShort,
         PublishNothing, startVars
  <2>2. sessions[t].status \in Statuses
    BY <1>1, <1>6 DEF DeleteEvidence
  <2> QED BY <1>2, <2>1, <2>2, CommittedKeeps
<1> QED
  BY <1>3, <1>4, <1>5, <1>6 DEF UserSteps

-----------------------------------------------------------------------------
(* The refresher, the files of earlier lives, and the start-up. *)

LEMMA FlushTyped ==
  HostInv /\ Flush(sessions) => policy' \in 1 .. MaxConfigs /\ pendingConfig' \in 0 .. MaxConfigs
                                /\ config' = config
BY HostAssumption DEF HostInv, TypeOK, Flush, configVars

LEMMA SettleKeeps == ASSUME HostInv, NEW t \in Tasks, Settle(t) PROVE HostInv'
<1>1. /\ settling' = settling \ {t} /\ Flush(sessions)
      /\ finished' \subseteq finished \cup {t}
      /\ UNCHANGED <<process, sessions, failing, driven, startVars, disk, published,
                     refused, restarts>>
  BY DEF Settle
<1>2. TypeOK'
  BY <1>1, FlushTyped DEF HostInv, TypeOK, startVars
<1>3. PendingConfigHasAReason'
  BY <1>1 DEF Flush, PendingConfigHasAReason, Blocking, configVars
<1> QED
  BY <1>1, <1>2, <1>3 DEF HostInv, startVars, FilesHaveSnapshot, MemoryIsAhead,
     OnlyKnownTasksMove, BootLoadsPaused, PublishedIsDurable, OnlyATornSnapshotLosesATask, Torn

LEMMA LoadKeeps == ASSUME HostInv, NEW t \in Tasks, Load(t) PROVE HostInv'
<1>1. /\ process = "up" /\ published[t] # NoRecord /\ sessions[t] = NoRecord
      /\ disk[t].snapshot # NoRecord
      /\ sessions' = [sessions EXCEPT ![t] = disk[t].snapshot]
      /\ finished' \subseteq finished \cup {t}
      /\ UNCHANGED <<process, settling, failing, driven, startVars, configVars, disk,
                     published, refused, restarts>>
  BY DEF Load, KnownToUser, Readable
<1>2. /\ disk \in [Tasks -> Files] /\ disk[t] \in Files
      /\ sessions \in [Tasks -> Records \cup {NoRecord}]
      /\ disk[t].snapshot \in Records
  BY <1>1, FilesOfTasks DEF HostInv, Files
<1>3. /\ sessions' \in [Tasks -> Records \cup {NoRecord}] /\ sessions'[t] = disk[t].snapshot
      /\ \A s \in Tasks : s # t => sessions'[s] = sessions[s]
  BY <1>1, <1>2
<1>4. TypeOK'
  BY <1>1, <1>3 DEF HostInv, TypeOK, startVars, configVars
<1>5. MemoryIsAhead'
  <2>1. disk[t] # NoFiles
    BY <1>1 DEF NoFiles
  <2>2. disk[t].snapshot.version >= published[t].version
    BY <1>1, <2>1 DEF HostInv, PublishedIsDurable
  <2> QED BY <1>1, <1>3, <2>2 DEF HostInv, MemoryIsAhead
<1>6. BootLoadsPaused'
  BY <1>1 DEF BootLoadsPaused
<1>7. OnlyATornSnapshotLosesATask'
  BY <1>1, <1>3 DEF HostInv, OnlyATornSnapshotLosesATask, Torn
<1>8. PendingConfigHasAReason'
  <2>1. ASSUME NEW s \in Tasks, sessions[s].status = "active" PROVE sessions'[s].status = "active"
    BY <1>1, <1>3, <2>1 DEF NoRecord
  <2> QED BY <1>1, <2>1 DEF HostInv, PendingConfigHasAReason, configVars
<1> QED
  BY <1>1, <1>4, <1>5, <1>6, <1>7, <1>8 DEF HostInv, FilesHaveSnapshot, OnlyKnownTasksMove,
     PublishedIsDurable

LEMMA SaveConfigKeeps == ASSUME HostInv, NEW on \in BOOLEAN, SaveConfig(on) PROVE HostInv'
<1>1. /\ config.number < MaxConfigs
      /\ config' = [number |-> config.number + 1, agentMode |-> on] /\ Deferred(on)
      /\ UNCHANGED <<hostVars, startVars, disk, published, refused, restarts>>
  BY DEF SaveConfig
<1>2. config.number + 1 \in 1 .. MaxConfigs
  BY <1>1, HostAssumption DEF HostInv, TypeOK
<1>3. /\ config' \in [number : 1 .. MaxConfigs, agentMode : BOOLEAN]
      /\ policy' \in 1 .. MaxConfigs /\ pendingConfig' \in 0 .. MaxConfigs
  BY <1>1, <1>2, HostAssumption DEF HostInv, TypeOK, Deferred
<1>4. TypeOK'
  BY <1>1, <1>3 DEF HostInv, TypeOK, hostVars, startVars
<1>5. PendingConfigHasAReason'
  BY <1>1 DEF PendingConfigHasAReason, Deferred, Blocking, hostVars
<1> QED
  BY <1>1, <1>4, <1>5 DEF HostInv, hostVars, FilesHaveSnapshot, MemoryIsAhead,
     OnlyKnownTasksMove, BootLoadsPaused, PublishedIsDurable, OnlyATornSnapshotLosesATask, Torn

\* A recovered task is one version later than its snapshot, and paused.
LEMMA InterruptedRecord ==
  ASSUME HostInv, NEW t \in Tasks, Unfinished(t)
  PROVE  /\ disk[t].snapshot \in Records
         /\ Interrupted(t) \in Records
         /\ Interrupted(t).version = disk[t].snapshot.version + 1
         /\ Interrupted(t).status = "paused"
<1>1. disk[t].snapshot \in Records
  BY FilesOfTasks DEF HostInv, Files, Unfinished, Readable
<1>2. ASSUME NEW r \in Records
      PROVE  LET i == [r EXCEPT !.status = "paused", !.version = @ + 1]
             IN  i \in Records /\ i.version = r.version + 1 /\ i.status = "paused"
  <2> DEFINE mid == [r EXCEPT !.status = "paused"]
             i   == [mid EXCEPT !.version = @ + 1]
  <2>1. mid \in Records /\ mid.version = r.version /\ mid.status = "paused"
    BY DEF Records, Statuses
  <2>2. r.version + 1 \in Nat
    BY RecordFacts
  <2> HIDE DEF mid
  <2>3. i \in Records /\ i.version = r.version + 1 /\ i.status = "paused"
    BY <2>1, <2>2 DEF Records
  <2> QED BY <2>3 DEF mid
<1> QED
  BY <1>1, <1>2 DEF Interrupted

LEMMA RecoverKeeps == ASSUME HostInv, NEW t \in Tasks, Recover(t) PROVE HostInv'
<1> DEFINE record == Interrupted(t)
<1>1. /\ process = "booting" /\ Unfinished(t)
      /\ disk \in [Tasks -> Files] /\ disk[t] \in Files
      /\ sessions \in [Tasks -> Records \cup {NoRecord}]
      /\ published \in [Tasks -> Records \cup {NoRecord}]
      /\ disk[t].snapshot \in Records /\ record \in Records /\ record # NoRecord
      /\ record.version = disk[t].snapshot.version + 1 /\ record.status = "paused"
  BY FilesOfTasks, InterruptedRecord, RecordFacts DEF HostInv, Recover
<1>2. disk[t].snapshot.version \in Nat /\ record.sequence \in Nat
      /\ (published[t] # NoRecord => published[t].version \in Nat)
  BY <1>1, RecordFacts
<1>3. published[t] # NoRecord => /\ published[t].sequence \in disk[t].events
                                 /\ disk[t].snapshot.version >= published[t].version
  <2>1. disk[t].snapshot # NoRecord
    BY <1>1, RecordFacts
  <2>2. disk[t] # NoFiles
    BY <2>1 DEF NoFiles
  <2> QED BY <2>2 DEF HostInv, PublishedIsDurable
<1> HIDE DEF record
<1>4. ASSUME NEW done \in 0 .. 2
      PROVE  LET w == Written(disk[t], record, 0, done)
             IN  /\ w \in Files /\ disk[t].events \subseteq w.events
                 /\ done = 0 => w = disk[t]
                 /\ done >= 1 => w.snapshot = record
  BY <1>1, <1>2, WrittenFiles
<1>5. ASSUME NEW done \in 0 .. 2
      PROVE  Holding([disk EXCEPT ![t] = Written(@, record, 0, done)])
  <2> DEFINE w == Written(disk[t], record, 0, done)
             files == [disk EXCEPT ![t] = w]
  <2>1. /\ w \in Files /\ disk[t].events \subseteq w.events
        /\ w.snapshot \in {record, disk[t].snapshot}
    BY <1>4
  <2> HIDE DEF w
  <2>2. files \in [Tasks -> Files] /\ files[t] = w /\ \A s \in Tasks : s # t => files[s] = disk[s]
    BY <1>1, <2>1
  <2>3. w.snapshot # NoRecord /\ w.snapshot.version >= disk[t].snapshot.version
        /\ w.snapshot.version \in Nat
    BY <1>1, <1>2, <2>1, RecordFacts
  <2>4. published[t] # NoRecord => /\ published[t].sequence \in w.events
                                   /\ w.snapshot.version >= published[t].version
    BY <1>2, <1>3, <2>1, <2>3
  <2> HIDE DEF files
  <2>5. Holding(files)
    BY <2>2, <2>3, <2>4, HoldingNow DEF Holding
  <2> QED BY <2>5 DEF files, w
<1>6. CASE \E done \in 0 .. 2 : Die([disk EXCEPT ![t] = Written(@, record, 0, done)])
  BY <1>5, <1>6, DieKeeps
<1>7. CASE /\ disk' = [disk EXCEPT ![t] = Written(@, record, 0, 2)]
           /\ sessions' = [sessions EXCEPT ![t] = record]
           /\ UNCHANGED <<process, settling, failing, finished, driven, startVars, configVars,
                          published, refused, restarts>>
  <2>1. Holding(disk')
    BY <1>5, <1>7
  <2>2. disk'[t].snapshot = record /\ \A s \in Tasks : s # t => disk'[s] = disk[s]
    BY <1>1, <1>4, <1>7
  <2>3. /\ sessions' \in [Tasks -> Records \cup {NoRecord}] /\ sessions'[t] = record
        /\ \A s \in Tasks : s # t => sessions'[s] = sessions[s]
    BY <1>1, <1>7
  <2>4. TypeOK'
    BY <1>7, <2>1, <2>3 DEF HostInv, TypeOK, startVars, configVars, Holding, Files
  <2>5. FilesHaveSnapshot' /\ PublishedIsDurable'
    BY <1>7, <2>1 DEF Holding, FilesHaveSnapshot, PublishedIsDurable
  <2>6. MemoryIsAhead'
    <3>1. published[t] # NoRecord => record.version >= published[t].version
      BY <1>1, <1>2, <1>3
    <3> QED BY <1>1, <1>7, <2>2, <2>3, <3>1 DEF HostInv, MemoryIsAhead
  <2>7. OnlyKnownTasksMove'
    BY <1>7 DEF HostInv, OnlyKnownTasksMove
  <2>8. BootLoadsPaused'
    BY <1>1, <1>7, <2>2, <2>3 DEF HostInv, BootLoadsPaused
  <2>9. OnlyATornSnapshotLosesATask'
    BY <1>1, <1>7 DEF OnlyATornSnapshotLosesATask
  <2>10. PendingConfigHasAReason'
    <3>1. sessions[t] = NoRecord
      BY <1>1 DEF Unfinished
    <3>2. ASSUME NEW s \in Tasks, sessions[s].status = "active" PROVE sessions'[s].status = "active"
      BY <2>3, <3>1, <3>2 DEF NoRecord
    <3> QED BY <1>7, <3>2 DEF HostInv, PendingConfigHasAReason, configVars
  <2> QED BY <2>4, <2>5, <2>6, <2>7, <2>8, <2>9, <2>10 DEF HostInv
<1>8. CASE /\ refused' = refused \cup {t} /\ restarts' = restarts
           /\ \E done \in 0 .. 2 : Down([disk EXCEPT ![t] = Written(@, record, 0, done)])
  <2>1. refused' \subseteq Tasks /\ restarts' \in 0 .. MaxRestarts
    BY <1>8 DEF HostInv, TypeOK
  <2> QED BY <1>5, <1>8, <2>1, DownKeeps
<1> QED
  BY <1>6, <1>7, <1>8 DEF Recover, record

LEMMA BootKeeps == ASSUME HostInv, Boot PROVE HostInv'
<1>1. /\ process = "down" /\ process' = "booting" /\ policy' = config.number
      /\ UNCHANGED <<sessions, settling, failing, finished, driven, startVars, config,
                     pendingConfig, disk, published, refused, restarts>>
  BY DEF Boot
<1>2. TypeOK'
  BY <1>1 DEF HostInv, TypeOK, startVars
<1> QED
  BY <1>1, <1>2 DEF HostInv, FilesHaveSnapshot, MemoryIsAhead, OnlyKnownTasksMove,
     BootLoadsPaused, PublishedIsDurable, OnlyATornSnapshotLosesATask, PendingConfigHasAReason,
     Torn

\* The files that are removed belong to tasks that are not in memory.
LEMMA BootedKeeps == ASSUME HostInv, Booted PROVE HostInv'
<1>1. PICK old \in SUBSET {t \in Tasks : Readable(disk[t]) /\ disk[t].snapshot.status = "ended"} :
             disk' = [t \in Tasks |-> IF t \in old THEN NoFiles ELSE disk[t]]
  BY DEF Booted
<1>2. /\ process = "booting" /\ process' = "up" /\ \A t \in Tasks : ~Unfinished(t)
      /\ UNCHANGED <<sessions, settling, failing, finished, driven, startVars, configVars,
                     published, refused, restarts>>
  BY DEF Booted
<1>3. \A t \in Tasks : disk'[t] = IF t \in old THEN NoFiles ELSE disk[t]
  BY <1>1
<1>4. \A t \in old : t \in Tasks /\ sessions[t] = NoRecord
  BY <1>2 DEF HostInv, BootLoadsPaused
<1>5. disk' \in [Tasks -> Files]
  BY <1>1, FilesOfTasks DEF HostInv, NoFiles, Files
<1>6. TypeOK'
  BY <1>2, <1>5 DEF HostInv, TypeOK, startVars, configVars, Files
<1>7. FilesHaveSnapshot' /\ PublishedIsDurable'
  BY <1>2, <1>3 DEF HostInv, FilesHaveSnapshot, PublishedIsDurable
<1>8. MemoryIsAhead'
  BY <1>2, <1>3, <1>4 DEF HostInv, MemoryIsAhead
<1>9. OnlyATornSnapshotLosesATask'
  <2>1. ASSUME NEW t \in Tasks, published[t].status \in {"active", "paused"}, disk[t] # NoFiles,
               ~Torn(disk[t]), sessions[t] = NoRecord
        PROVE  disk[t].snapshot.status = "ended"
    BY <1>2, <2>1 DEF HostInv, FilesHaveSnapshot, Unfinished, Readable
  <2> QED BY <1>2, <1>3, <2>1 DEF OnlyATornSnapshotLosesATask
<1> QED
  BY <1>2, <1>6, <1>7, <1>8, <1>9 DEF HostInv, OnlyKnownTasksMove, BootLoadsPaused,
     PendingConfigHasAReason, configVars

-----------------------------------------------------------------------------
(* The theorems. *)

LEMMA HostInit == Init => HostInv
<1> SUFFICES ASSUME Init PROVE HostInv
  OBVIOUS
<1>1. TypeOK
  BY HostAssumption DEF Init, TypeOK, NoClick, NoFiles
<1>2. \A t \in Tasks : sessions[t] = NoRecord /\ published[t] = NoRecord /\ disk[t] = NoFiles
  BY DEF Init
<1>3. driven = {} /\ failing = {} /\ pendingConfig = 0
  BY DEF Init
<1> QED
  BY <1>1, <1>2, <1>3 DEF HostInv, FilesHaveSnapshot, MemoryIsAhead, OnlyKnownTasksMove,
     BootLoadsPaused, PublishedIsDurable, OnlyATornSnapshotLosesATask, PendingConfigHasAReason,
     NoRecord

LEMMA HostStep == HostInv /\ [Next]_vars => HostInv'
<1> SUFFICES ASSUME HostInv, [Next]_vars PROVE HostInv'
  OBVIOUS
<1>1. CASE \E c \in Clicks : Start(c) \/ StartRejected(c) \/ StartBound(c)
  BY <1>1, StartKeeps, StartBoundKeeps
<1>2. CASE \E t \in Tasks : TaskSteps(t)
  BY <1>2, TaskStepKeeps
<1>3. CASE \E t \in Tasks : UserSteps(t)
  BY <1>3, UserStepKeeps
<1>4. CASE \E t \in Tasks : Settle(t) \/ Recover(t) \/ Load(t)
  BY <1>4, SettleKeeps, RecoverKeeps, LoadKeeps
<1>5. CASE \E on \in BOOLEAN : SaveConfig(on)
  BY <1>5, SaveConfigKeeps
<1>6. CASE Crash
  BY <1>6, HoldingNow, DieKeeps DEF Crash
<1>7. CASE Boot \/ Booted
  BY <1>7, BootKeeps, BootedKeeps
<1>8. CASE UNCHANGED vars
  BY <1>8 DEF vars, HostInv, TypeOK, FilesHaveSnapshot, MemoryIsAhead, OnlyKnownTasksMove,
     BootLoadsPaused, PublishedIsDurable, OnlyATornSnapshotLosesATask, PendingConfigHasAReason,
     Torn
<1> QED
  BY <1>1, <1>2, <1>3, <1>4, <1>5, <1>6, <1>7, <1>8 DEF Next, TaskSteps, UserSteps

\* The types, and with them the invariant of the host, hold in every state.
THEOREM HostInvariance == Spec => []HostInv
<1>1. Init => HostInv
  BY HostInit
<1>2. HostInv /\ [Next]_vars => HostInv'
  BY HostStep
<1> QED
  BY <1>1, <1>2, PTL DEF Spec

\* Whatever a crash cut short or the disk refused, the event the window was
\* shown last is in the task's files, next to a snapshot that is not older.
THEOREM ShownIsOnDisk == Spec => []PublishedIsDurable
<1>1. HostInv => PublishedIsDurable
  BY DEF HostInv
<1> QED
  BY <1>1, HostInvariance, PTL

\* After a restart every task the window knew and that had not ended is back,
\* unless its snapshot and its manifest disagree.
THEOREM RestartKeepsTasks == Spec => []OnlyATornSnapshotLosesATask
<1>1. HostInv => OnlyATornSnapshotLosesATask
  BY DEF HostInv
<1> QED
  BY <1>1, HostInvariance, PTL

\* A configuration that waits is never forgotten by a task that stops: some
\* task is active, or about to tell the refresher, or had a commit refused.
THEOREM ConfigWaitsForAReason == Spec => []PendingConfigHasAReason
<1>1. HostInv => PendingConfigHasAReason
  BY DEF HostInv
<1> QED
  BY <1>1, HostInvariance, PTL

\* The policy changes only when no task is active before and after the step:
\* on a save or a flush that found none, or on a start of the application.
THEOREM PolicyChangesBetweenTasks == Spec => PolicyFrozenWhileActive
<1> DEFINE Frozen == policy' # policy => \A t \in Tasks : ~(Blocking(sessions[t]) /\ Blocking(sessions'[t]))
<1>1. HostInv /\ [Next]_vars => [Frozen]_vars
  <2> SUFFICES ASSUME HostInv, Next PROVE Frozen
    OBVIOUS
  <2>1. CASE \E c \in Clicks : Start(c) \/ StartRejected(c) \/ StartBound(c)
    BY <2>1 DEF Start, StartRejected, StartBound, Commit, Down, Die, configVars
  <2>2. CASE \E t \in Tasks : Step(t) \/ Conclude(t) \/ Fail(t)
    BY <2>2 DEF Step, Conclude, Fail, Commit, Down, Die, configVars
  <2>3. CASE \E t \in Tasks : Pause(t) \/ Resume(t) \/ Cancel(t) \/ DeleteEvidence(t)
    BY <2>3 DEF Pause, Resume, Cancel, DeleteEvidence, Commit, Down, Die
  <2>4. CASE \E t \in Tasks : Load(t) \/ Recover(t)
    BY <2>4 DEF Load, Recover, Down, Die, configVars
  <2>5. CASE \E t \in Tasks : Settle(t)
    BY <2>5 DEF Settle, Flush, configVars
  <2>6. CASE \E on \in BOOLEAN : SaveConfig(on)
    BY <2>6 DEF SaveConfig, Deferred
  <2>7. CASE Crash \/ Booted
    BY <2>7 DEF Crash, Down, Die, Booted, configVars
  <2>8. CASE Boot
    BY <2>8 DEF Boot, HostInv, BootLoadsPaused, Blocking, NoRecord
  <2> QED BY <2>1, <2>2, <2>3, <2>4, <2>5, <2>6, <2>7, <2>8 DEF Next
<1> QED
  BY <1>1, HostInvariance, PTL DEF Spec, PolicyFrozenWhileActive
=============================================================================
