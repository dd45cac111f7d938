--------------------------- MODULE ExecutionBridge ----------------------------
(***************************************************************************)
(* A tool call on its way to the host and back: ExecutionRuntime and       *)
(* SessionExecutionBridge in the main process (src/app/agent/execution),   *)
(* agent-dispatch.js in the session server, and session-api.js with        *)
(* session-common.js in the child process that owns the SSH connection.    *)
(*                                                                         *)
(* Messages of one pair of processes arrive in order.  Handlers that await *)
(* something are split there.  Any of the two processes may exit; a new    *)
(* session process may take the place of an old one (a reconnect).         *)
(***************************************************************************)
EXTENDS Naturals, Sequences, FiniteSets, SequencesExt

CONSTANTS
  Calls,        \* invocation ids
  Changes,      \* those that change the host (mutability is not "none")
  SftpCalls,    \* those that run over SFTP, the others run in an exec channel
  Droppable,    \* those whose channel may be lost with nothing that says so
  Faults,       \* what else may go wrong (see AllFaults)
  MaxExecutes,  \* bound: times the gateway executes one invocation
  MaxReconnects \* bound: times the terminal session is started again

AllFaults == {"server_exit", "session_exit", "send", "refused", "channel_error"}

ASSUME CallsAssumption ==
  Changes \subseteq Calls /\ SftpCalls \subseteq Calls /\ Droppable \subseteq Calls
ASSUME BridgeAssumption ==
  Faults \subseteq AllFaults /\ MaxExecutes \in Nat /\ MaxReconnects \in Nat

VARIABLES
  executes,     \* executions of each call so far, each with a capability of its own
  ledger,       \* ExecutionRuntime.ledger: none, started, or done
  result,       \* the ExecutionResult the caller got
  aborted,      \* calls whose abort controller has fired
  pending,      \* SessionExecutionBridge.pending, by call
  toServer,     \* IPC messages from the main process to the session server
  toSession,    \* IPC messages from the server to the session process
  replies,      \* responses on their way back
  server,       \* the session server is connected
  session,      \* activeTerminals has the session process
  reconnects,
  usedServer,   \* externalConsumed of the server: capabilities
  usedSession,  \* externalConsumed of the session process
  work,         \* what the session process does with each call
  interrupted,  \* calls whose stream got INT and waits for the grace timer
  host,         \* what the host does with each call
  starts        \* history: times each call was started on the host

mainVars == <<executes, ledger, result, aborted, pending>>
wireVars == <<toServer, toSession, replies>>
processVars == <<server, session, reconnects, usedServer, usedSession>>
sessionVars == <<work, interrupted, host, starts>>
vars == <<executes, ledger, result, aborted, pending, toServer, toSession, replies,
          server, session, reconnects, usedServer, usedSession, work, interrupted,
          host, starts>>

Statuses == {"success", "error", "timeout", "cancelled", "unknown"}
NoResult == [status |-> "none", remoteTermination |-> "none"]
Results == [status : Statuses,
            remoteTermination : {"not_applicable", "confirmed", "unconfirmed"}] \cup {NoResult}

Capabilities == Calls \X (1 .. MaxExecutes)
Messages == [action : {"exec", "cancel"}, call : Calls, capability : Capabilities]

\* exit0, exit1: the command or operation ended; timedOut: the session process
\* gave up; refused: an error before anything ran; channel: the channel could not
\* be opened or failed, with a message that says so (the pattern of execute);
\* noexit: it closed without an exit status, or failed with any other message.
Outcomes == {"exit0", "exit1", "noexit", "timedOut", "refused", "channel"}
Responses == [call : Calls, outcome : Outcomes]

-----------------------------------------------------------------------------
(* ExecutionRuntime.execute and SessionExecutionBridge. *)

\* The status of an answer: bridge.exec and the status line of execute.
StatusOf(c, outcome) ==
  CASE outcome = "exit0"                       -> "success"
    [] outcome = "timedOut"                    -> "timeout"
    [] outcome = "channel" /\ c \in Changes    -> "unknown"
    [] OTHER                                   -> "error"

\* Deviation: every finished call counts as over on the host.
ConfirmedAlways(c, status) ==
  [status |-> status, remoteTermination |-> IF c \in Changes THEN "confirmed" ELSE "not_applicable"]

ResultOf(c, status) ==
  [status |-> status,
   remoteTermination |-> IF c \notin Changes THEN "not_applicable"
                         ELSE IF status \in {"success", "error"} THEN "confirmed"
                         ELSE "unconfirmed"]

\* finally: the call leaves active and pending, its result goes to the ledger.
Settle(c, status) ==
  /\ ledger' = [ledger EXCEPT ![c] = "done"]
  /\ result' = [result EXCEPT ![c] = ResultOf(c, status)]
  /\ pending' = pending \ {c}

\* Deviation: a started call may be executed again.
MayExecuteAgain(c) == ledger[c] # "done"
MayExecute(c) == ledger[c] = "none"

\* A call that is in the ledger returns its result or throws; nothing is sent.
\* Otherwise: no connected server, or a send that throws, is an error before the
\* start (a read is tried a second time at once, to the same end); an aborted
\* signal rejects before the send.
Execute(c) ==
  /\ MayExecute(c) /\ executes[c] < MaxExecutes
  /\ executes' = [executes EXCEPT ![c] = @ + 1]
  /\ \/ /\ server /\ c \notin aborted
        /\ ledger' = [ledger EXCEPT ![c] = "started"]
        /\ pending' = pending \cup {c}
        /\ toServer' = Append(toServer, [action |-> "exec", call |-> c,
                                         capability |-> <<c, executes[c] + 1>>])
        /\ UNCHANGED result
     \/ /\ ~server \/ "send" \in Faults
        /\ Settle(c, IF c \in aborted THEN "cancelled" ELSE "error")
        /\ UNCHANGED toServer
     \/ /\ server /\ c \in aborted
        /\ Settle(c, "cancelled")
        /\ UNCHANGED toServer
  /\ UNCHANGED <<aborted, toSession, replies, processVars, sessionVars>>

\* The abort listeners: bridge.cancel first, then the pending request rejects.
Abort(c, status) ==
  /\ aborted' = aborted \cup {c}
  /\ IF c \in pending
       THEN /\ Settle(c, status)
            /\ toServer' = IF server
                 THEN Append(toServer, [action |-> "cancel", call |-> c,
                                        capability |-> <<c, executes[c]>>])
                 ELSE toServer
       ELSE UNCHANGED <<ledger, result, pending, toServer>>
  /\ UNCHANGED <<executes, toSession, replies, processVars, sessionVars>>

\* Deviation: execute has no timer of its own.
TimerOfServer(c) == c \in pending /\ server /\ Abort(c, "timeout")

\* The timer of execute.
TimerFires(c) == c \in pending /\ Abort(c, "timeout")

\* cancelTask, or the signal of the Agent's turn; it may come before the call.
CancelCall(c) == c \notin aborted /\ ledger[c] # "done" /\ Abort(c, "cancelled")

\* onMessage: an answer nobody waits for is dropped.
ReceiveReply(r) ==
  /\ replies' = replies \ {r}
  /\ IF r.call \in pending THEN Settle(r.call, StatusOf(r.call, r.outcome))
                           ELSE UNCHANGED <<ledger, result, pending>>
  /\ UNCHANGED <<executes, aborted, toServer, toSession, processVars, sessionVars>>

-----------------------------------------------------------------------------
(* The session server: dispatchAgentMessage. *)

Reply(c, outcome) == replies' = replies \cup {[call |-> c, outcome |-> outcome]}

\* verifyExternal(capability, expected, { consume: true }).
Accepts(used, capability) == capability \notin used

Dispatch ==
  /\ server /\ toServer # <<>>
  /\ toServer' = Tail(toServer)
  /\ LET m == Head(toServer) IN
     CASE m.action = "cancel" ->
            /\ toSession' = IF session THEN Append(toSession, m) ELSE toSession
            /\ UNCHANGED <<replies, usedServer>>
       [] m.action = "exec" /\ session /\ Accepts(usedServer, m.capability) ->
            /\ usedServer' = usedServer \cup {m.capability}
            /\ toSession' = Append(toSession, m)
            /\ UNCHANGED replies
       [] OTHER -> Reply(m.call, "refused") /\ UNCHANGED <<toSession, usedServer>>
  /\ UNCHANGED <<mainVars, server, session, reconnects, usedSession, sessionVars>>

-----------------------------------------------------------------------------
(* The session process: session-api.js and session-common.js. *)

Stop(c) == [host EXCEPT ![c] = IF @ = "running" THEN "ended" ELSE @]

\* agentCancelExec.  A call that is still being described, or is opening its
\* channel, has no stream yet, and an SFTP delete never has one: the cancel finds
\* nothing to stop.
HandleCancel(c) ==
  \/ /\ work[c] # "running" \/ c \in SftpCalls
     /\ UNCHANGED <<work, interrupted, host, replies>>
  \/ /\ work[c] = "running" /\ c \in SftpCalls
     /\ work' = [work EXCEPT ![c] = "none"]
     /\ host' = Stop(c)
     /\ Reply(c, "exit1")
     /\ UNCHANGED interrupted
  \/ /\ work[c] = "running" /\ c \notin SftpCalls
     /\ interrupted' = interrupted \cup {c}
     /\ UNCHANGED <<work, host, replies>>

SessionReceives ==
  /\ session /\ toSession # <<>>
  /\ toSession' = Tail(toSession)
  /\ LET m == Head(toSession) IN
     IF m.action = "cancel"
       THEN HandleCancel(m.call) /\ UNCHANGED <<usedSession, starts>>
       ELSE /\ work' = [work EXCEPT ![m.call] = "describing"]
            /\ UNCHANGED <<usedSession, interrupted, host, starts, replies>>
  /\ UNCHANGED <<mainVars, toServer, server, session, reconnects, usedServer>>

\* After describeAgentSession: the binding may differ from the one approved, the
\* capability is checked again here, the channel opens or fails to open.
Described(c) ==
  /\ session /\ work[c] = "describing"
  /\ usedSession' = usedSession \cup {<<c, executes[c]>>}
  /\ \/ /\ Accepts(usedSession, <<c, executes[c]>>)
        /\ work' = [work EXCEPT ![c] = "running"]
        /\ host' = [host EXCEPT ![c] = "running"]
        /\ starts' = [starts EXCEPT ![c] = @ + 1]
        /\ UNCHANGED replies
     \/ /\ work' = [work EXCEPT ![c] = "none"]
        /\ \/ "refused" \in Faults /\ Reply(c, "refused")
           \/ "channel_error" \in Faults /\ Reply(c, "channel")
        /\ UNCHANGED <<host, starts>>
  /\ UNCHANGED <<mainVars, toServer, toSession, server, session, reconnects, usedServer,
                 interrupted>>

\* The command exits, or the SFTP operation is done or refused.
HostEnds(c) ==
  /\ host[c] = "running"
  /\ host' = Stop(c)
  /\ UNCHANGED <<mainVars, wireVars, processVars, work, interrupted, starts>>

\* done: the exec or SFTP promise of the session process settles, once.
Finish(c, outcome) ==
  /\ session /\ work[c] = "running"
  /\ work' = [work EXCEPT ![c] = "none"]
  /\ interrupted' = interrupted \ {c}
  /\ Reply(c, outcome)
  /\ UNCHANGED <<mainVars, toServer, toSession, processVars, starts>>

\* The exit status has come and the drain window of 200 ms is over.
ExitSettles(c) ==
  \E outcome \in {"exit0", "exit1"} :
    host[c] = "ended" /\ Finish(c, outcome) /\ UNCHANGED host

\* The timer of execCommand: TERM, close, a result that says so.
SessionTimeout(c) == c \notin SftpCalls /\ Finish(c, "timedOut") /\ UNCHANGED host

\* The grace timer after INT: TERM and close; the channel closes without exit.
GraceEnds(c) == c \in interrupted /\ Finish(c, "noexit") /\ UNCHANGED host

\* The channel fails, or the connection is lost and it just closes.
ChannelErrors(c) == "channel_error" \in Faults /\ Finish(c, "channel") /\ UNCHANGED host
ChannelDrops(c) == c \in Droppable /\ Finish(c, "noexit") /\ UNCHANGED host

-----------------------------------------------------------------------------
(* Processes come and go. *)

\* What a dead process had to do is forgotten, its unread messages are lost, and
\* of its answers those that were already written arrive.
SessionExits ==
  /\ session /\ "session_exit" \in Faults
  /\ session' = FALSE
  /\ toSession' = <<>>
  /\ work' = [c \in Calls |-> "none"] /\ interrupted' = {}
  /\ usedSession' = {}
  /\ replies' \in SUBSET replies
  /\ UNCHANGED <<mainVars, toServer, server, reconnects, usedServer, host, starts>>

\* exports.terminal: a new process for the same tab.
Reconnect ==
  /\ server /\ ~session /\ reconnects < MaxReconnects
  /\ session' = TRUE /\ reconnects' = reconnects + 1
  /\ UNCHANGED <<mainVars, wireVars, server, usedServer, usedSession, sessionVars>>

\* The session processes end themselves when their parent is gone.
ServerExits ==
  /\ server /\ "server_exit" \in Faults
  /\ server' = FALSE /\ session' = FALSE
  /\ toServer' = <<>> /\ toSession' = <<>>
  /\ work' = [c \in Calls |-> "none"] /\ interrupted' = {}
  /\ replies' \in SUBSET replies
  /\ UNCHANGED <<mainVars, reconnects, usedServer, usedSession, host, starts>>

-----------------------------------------------------------------------------
Init ==
  /\ executes = [c \in Calls |-> 0]
  /\ ledger = [c \in Calls |-> "none"]
  /\ result = [c \in Calls |-> NoResult]
  /\ aborted = {} /\ pending = {}
  /\ toServer = <<>> /\ toSession = <<>> /\ replies = {}
  /\ server = TRUE /\ session = TRUE /\ reconnects = 0
  /\ usedServer = {} /\ usedSession = {}
  /\ work = [c \in Calls |-> "none"] /\ interrupted = {}
  /\ host = [c \in Calls |-> "idle"]
  /\ starts = [c \in Calls |-> 0]

Next ==
  \/ \E c \in Calls :
       \/ Execute(c) \/ TimerFires(c) \/ CancelCall(c)
       \/ Described(c) \/ HostEnds(c) \/ ExitSettles(c)
       \/ SessionTimeout(c) \/ GraceEnds(c) \/ ChannelErrors(c) \/ ChannelDrops(c)
  \/ \E r \in replies : ReceiveReply(r)
  \/ Dispatch \/ SessionReceives
  \/ SessionExits \/ Reconnect \/ ServerExits

Spec == Init /\ [][Next]_vars

\* Timers fire, and a process that is up handles what it has; hosts, users and
\* failures owe nothing.
FairSpec ==
  /\ Spec
  /\ WF_vars(Dispatch) /\ WF_vars(SessionReceives)
  /\ \A c \in Calls :
       WF_vars(TimerFires(c)) /\ WF_vars(Described(c)) /\ WF_vars(SessionTimeout(c))

-----------------------------------------------------------------------------
(* Properties. *)

TypeOK ==
  /\ executes \in [Calls -> 0 .. MaxExecutes]
  /\ ledger \in [Calls -> {"none", "started", "done"}]
  /\ result \in [Calls -> Results]
  /\ aborted \subseteq Calls /\ pending \subseteq Calls
  /\ toServer \in Seq(Messages) /\ toSession \in Seq(Messages)
  /\ replies \subseteq Responses
  /\ server \in BOOLEAN /\ session \in BOOLEAN /\ reconnects \in 0 .. MaxReconnects
  /\ usedServer \subseteq Capabilities /\ usedSession \subseteq Capabilities
  /\ work \in [Calls -> {"none", "describing", "running"}]
  /\ interrupted \subseteq Calls
  /\ host \in [Calls -> {"idle", "running", "ended"}]
  /\ starts \in [Calls -> Nat]

\* One invocation is started on the host at most once, whatever is retried, lost,
\* answered late or reconnected: the ledger of this process is enough for this, as
\* ExecutionBridgeProofs shows; the session process forgets what it has started.
StartsAtMostOnce == \A c \in Calls : starts[c] <= 1

\* Told to the caller: nothing, an end that is known, or one that is not.
ReportOf(c) == CASE result[c] = NoResult -> "none"
                 [] result[c].remoteTermination = "confirmed" -> "confirmed"
                 [] OTHER -> "unconfirmed"

Remote == INSTANCE RemoteCalls WITH report <- [c \in Calls |-> ReportOf(c)]

\* A result that says how the remote side ended is only given for a call that is
\* over on the host and will not start there later.
ImplementsRemoteCalls == Remote!Spec

\* A call that was sent settles, whichever process dies or stays silent.
CallsSettle == \A c \in Calls : c \in pending ~> ledger[c] = "done"

=============================================================================
