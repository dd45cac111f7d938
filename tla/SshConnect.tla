------------------------------ MODULE SshConnect ------------------------------
(***************************************************************************)
(* How a session process gets from the bookmark to a shell: TerminalSsh    *)
(* of src/app/server/session-ssh.js.  Host 1 is connected to directly,     *)
(* each further one through the one before it (adjustConnectionOrder has   *)
(* put them in this order already).  Every failure is answered by another  *)
(* try, with another key, other algorithms, or what the user types, and    *)
(* the handlers nest: a failure inside a retry is caught by the handler    *)
(* that started it.                                                        *)
(*                                                                         *)
(* A server may answer an attempt in any way the client can tell apart.    *)
(***************************************************************************)
EXTENDS Naturals, Sequences, FiniteSets, SequencesExt

CONSTANTS
  Hosts,       \* number of hosts on the way, the target included
  KeyFiles,    \* key files found on this machine and on each jump server, in order
  SavedSets,   \* what a bookmark may hold for a host: sets of Secrets
  MaxAnswers   \* bound: questions answered; the user cancels any further one

\* values and blank stand for interactiveValues, a text kept with the bookmark whose
\* first line is one or is empty; wherever it is, it counts for host 1.
Secrets == {"password", "key", "agent", "mfa", "values", "blank"}

ASSUME HostsAssumption == Hosts \in Nat \ {0}
ASSUME KeyFilesAssumption == KeyFiles \in Seq(STRING)
ASSUME SavedAssumption == SavedSets \subseteq SUBSET Secrets
ASSUME AnswersAssumption == MaxAnswers \in Nat

VARIABLES
  saved,       \* what the bookmark holds for each host
  username,    \* that of host 1: empty, saved, typed, or the password
  phase,       \* the step that comes next (see Phases)
  host,        \* the host being connected to
  question,    \* what the user is asked
  password,    \* connectOptions/hoppingOptions.password: none, own, typed, or that of host 1
  key,         \* .privateKey: none, saved, or a key file
  sshKeys,     \* key files of this machine that are left
  jumpSshKeys, \* key files of a jump server that are left
  drained,     \* hoppingOptions.sshKeysDrain
  retry2FA, altAlg,
  handlers,    \* catch handlers around the attempt: of sshConnect, of retryJump
  answers,     \* questions answered so far
  live,        \* open connections to each host
  offered      \* history: the key files that were tried

vars == <<saved, username, phase, host, question, password, key, sshKeys, jumpSshKeys,
          drained, retry2FA, altAlg, handlers, answers, live, offered>>

Host == 1 .. Hosts
Phases == {"start", "forward", "forwardAgain", "handshake", "answer", "shell", "connected",
           "failed"}
Questions == {"none", "username", "password", "passphrase", "keyboard"}
Errors == {"cipher", "2fa", "passphrase", "authentication", "other"}

\* Machine 0 is this one, machine h the host h.
KeysOf(machine) == [i \in 1 .. Len(KeyFiles) |-> <<machine, KeyFiles[i]>>]
NoKey == <<Hosts, "none">>
SavedKey == <<Hosts, "saved">>
Unlisted == <<NoKey>>      \* sshKeys or jumpSshKeys is undefined

Has(h, secret) == secret \in saved[h]

-----------------------------------------------------------------------------
(* Where an attempt goes next. *)

Await(what, q) == phase' = what /\ question' = q

\* conn.end(); the connection may be closed already.
Ended(connections) == IF connections > 0 THEN connections - 1 ELSE 0

\* sshConnect is called again, inside so many handlers.
Reconnect(depth) ==
  /\ Await("start", "none")
  /\ host' = 1
  /\ handlers' = [main |-> depth, jump |-> 0]

Fail == Await("failed", "none") /\ UNCHANGED <<host, handlers>>

\* nextTry: while key files are listed the next attempt is made, else the error is
\* thrown, and every handler outside comes to the same end.
NextTry(depth) == IF sshKeys # Unlisted THEN Reconnect(depth) ELSE Fail

\* An error that leaves sshConnect: the catch of a passphrase or user name
\* question calls nextTry, which ends the connection in use (that of host h).
ThrowFrom(h) ==
  IF handlers.main > 0 /\ sshKeys # Unlisted
    THEN /\ Reconnect(handlers.main - 1)
         /\ live' = IF h = 0 THEN live ELSE [live EXCEPT ![h] = Ended(@)]
    ELSE Fail /\ UNCHANGED live

-----------------------------------------------------------------------------
(* Host 1: sshConnect. *)

\* Deviation: the list ends one key early.
NextKeyButLast ==
  LET left == IF sshKeys = Unlisted THEN KeysOf(0) ELSE sshKeys IN
  IF Len(left) <= 1 THEN key' = NoKey /\ sshKeys' = Unlisted /\ UNCHANGED offered
  ELSE key' = Head(left) /\ sshKeys' = Tail(left) /\ offered' = offered \cup {Head(left)}

\* getPrivateKey: a new listing, the next key file, or the end of the list.
NextKey ==
  LET left == IF sshKeys = Unlisted THEN KeysOf(0) ELSE sshKeys IN
  IF left # <<>>
    THEN key' = Head(left) /\ sshKeys' = Tail(left) /\ offered' = offered \cup {Head(left)}
    ELSE IF sshKeys = Unlisted THEN UNCHANGED <<key, sshKeys, offered>>
    ELSE key' = NoKey /\ sshKeys' = Unlisted /\ UNCHANGED offered

NothingToOffer == key = NoKey /\ password = "none" /\ ~Has(1, "password")

\* Deviation: once a key file is in use no other is looked for.
NeedsKeyOnce == NothingToOffer
NeedsKey == sshKeys # Unlisted \/ NothingToOffer

\* onKeyboardEvent: interactiveValues answer every question, however often it comes
\* up, and the user is never asked.
StoredValues == Has(1, "values") \/ Has(1, "blank")

\* Without them a single hidden prompt that is empty or says "password" is answered
\* with the password of initOptions, that of host 1.
FillsIn(q) == ~StoredValues /\ q \in {"username", "password"} /\ Has(1, "password")

SshConnect ==
  /\ phase = "start"
  /\ \/ /\ username = "empty"      \* getUserName
        /\ IF FillsIn("username")
             THEN /\ username' = "password"
                  /\ handlers' = [handlers EXCEPT !.main = @ + 1]
                  /\ UNCHANGED <<phase, question>>
             ELSE Await("answer", "username") /\ UNCHANGED <<username, handlers>>
        /\ UNCHANGED <<key, sshKeys, offered>>
     \/ /\ username # "empty"
        /\ IF NeedsKey THEN NextKey ELSE UNCHANGED <<key, sshKeys, offered>>
        /\ Await("handshake", "none")
        /\ UNCHANGED <<username, handlers>>
  /\ UNCHANGED <<saved, host, password, jumpSshKeys, drained, retry2FA, altAlg, answers, live>>

\* What sshConnect does about an error, the first that fits.
MainBranch(error) ==
  IF error = "cipher" /\ ~altAlg THEN "alternate algorithms"
  ELSE IF error = "2fa" THEN "without password"
  ELSE IF error = "passphrase" THEN "ask passphrase"
  ELSE IF error = "authentication" /\ sshKeys # Unlisted THEN "next try"
  ELSE IF ~retry2FA /\ password = "none" /\ Has(1, "password") THEN "saved password"
  ELSE IF error = "authentication" /\ password = "none" THEN "ask password"
  ELSE "next try"

MainFails(error) ==
  LET branch == MainBranch(error) IN
  /\ altAlg' = (altAlg \/ branch = "alternate algorithms")
  /\ password' = CASE branch = "without password" -> "none"
                   [] branch = "saved password" -> "own"
                   [] branch = "ask password" /\ FillsIn("password") -> "own"
                   [] OTHER -> password
  /\ CASE branch = "next try" ->
            IF sshKeys # Unlisted THEN Reconnect(handlers.main) /\ UNCHANGED live
                                  ELSE ThrowFrom(0)
       [] branch = "ask passphrase" ->
            Await("answer", "passphrase") /\ UNCHANGED <<host, handlers, live>>
       [] branch = "ask password" /\ ~FillsIn("password") ->
            Await("answer", "password") /\ UNCHANGED <<host, handlers, live>>
       [] OTHER -> Reconnect(handlers.main) /\ UNCHANGED live
  /\ UNCHANGED <<key, sshKeys, jumpSshKeys, drained, offered>>

-----------------------------------------------------------------------------
(* The hosts behind it: hopping, jump, jumpConnect, retryJump. *)

\* readPrivateKeyInJumpServer.
ReadJumpKey ==
  LET listing == jumpSshKeys = Unlisted
      left == IF listing THEN KeysOf(host - 1) ELSE jumpSshKeys IN
  IF listing /\ (drained \/ password # "none" \/ key # NoKey)
    THEN UNCHANGED <<key, jumpSshKeys, drained, offered>>
  ELSE IF left # <<>>
    THEN /\ key' = Head(left) /\ jumpSshKeys' = Tail(left)
         /\ offered' = offered \cup {Head(left)}
         /\ UNCHANGED drained
  ELSE /\ key' = NoKey /\ jumpSshKeys' = Unlisted /\ drained' = TRUE
       /\ UNCHANGED offered

\* jumpConnect(true, skipReadKeys), inside so many handlers of retryJump.
JumpConnect(skipReadKeys, depth) ==
  /\ Await(IF skipReadKeys THEN "forwardAgain" ELSE "forward", "none")
  /\ handlers' = [handlers EXCEPT !.jump = depth]
  /\ UNCHANGED <<host, live>>

\* An error that leaves jumpConnect: the catch of a passphrase question tries once
\* more, with the next key; outside of those it leaves hopping and sshConnect.
ThrowJump ==
  IF handlers.jump > 0 THEN JumpConnect(FALSE, handlers.jump - 1) ELSE ThrowFrom(host - 1)

\* forwardOut gives the socket, then the keys may be read.
Forward ==
  /\ phase \in {"forward", "forwardAgain"}
  /\ Await("handshake", "none")
  /\ IF phase = "forward" THEN ReadJumpKey ELSE UNCHANGED <<key, jumpSshKeys, drained, offered>>
  /\ UNCHANGED <<saved, username, host, password, sshKeys, retry2FA, altAlg, handlers,
                 answers, live>>

\* forwardOut fails: endConns, and no handler gets a socket from the connection
\* that is closed now.
ForwardFails ==
  /\ phase \in {"forward", "forwardAgain"}
  /\ IF handlers.main > 0 THEN NextTry(handlers.main - 1) ELSE Fail
  /\ live' = [h \in Host |-> IF h < host THEN Ended(live[h]) ELSE live[h]]
  /\ UNCHANGED <<saved, username, password, key, sshKeys, jumpSshKeys, drained, retry2FA,
                 altAlg, answers, offered>>

\* What retryJump does about an error, the first that fits.
JumpBranch(error) ==
  IF error = "passphrase" THEN "ask passphrase"
  ELSE IF error = "authentication" /\ jumpSshKeys = Unlisted /\ ~drained
          /\ password = "none" /\ key = NoKey THEN "read keys"
  ELSE IF error = "authentication" /\ drained /\ password = "none" THEN "ask password"
  ELSE IF jumpSshKeys # Unlisted THEN "read keys"
  ELSE "throw"

JumpFails(error) ==
  LET branch == JumpBranch(error)
      fills == branch = "ask password" /\ FillsIn("password") IN
  /\ password' = IF fills THEN "host1" ELSE password
  /\ CASE branch = "throw" -> ThrowJump
       [] branch = "read keys" -> JumpConnect(FALSE, handlers.jump)
       [] fills -> JumpConnect(TRUE, handlers.jump)
       [] branch = "ask passphrase" ->
            Await("answer", "passphrase") /\ UNCHANGED <<host, handlers, live>>
       [] OTHER -> Await("answer", "password") /\ UNCHANGED <<host, handlers, live>>
  /\ UNCHANGED <<key, sshKeys, jumpSshKeys, drained, altAlg, offered>>

-----------------------------------------------------------------------------
(* doSshConnect: what the handshake with a host comes to. *)

\* Deviation: the host before the last one counts as the last.
LastHopEarly(h) == h + 1 >= Hosts
LastHop(h) == h = Hosts

\* The connection is ready: the shell is opened on the last one, otherwise the
\* options of the next hop are built (jump).
Ready ==
  /\ phase = "handshake"
  /\ live' = [live EXCEPT ![host] = @ + 1]
  /\ IF LastHop(host)
       THEN Await("shell", "none") /\ UNCHANGED <<host, password, key, drained, handlers>>
       ELSE LET next == host + 1
                bare == ~Has(next, "password") /\ ~Has(next, "key") IN
            /\ host' = next
            /\ handlers' = [handlers EXCEPT !.jump = 0]
            /\ password' = IF Has(next, "password") THEN "own" ELSE "none"
            /\ key' = IF Has(next, "key") THEN SavedKey ELSE NoKey
            /\ drained' = FALSE
            /\ Await(IF Has(1, "agent") /\ bare THEN "forwardAgain" ELSE "forward", "none")
  /\ UNCHANGED <<saved, username, sshKeys, jumpSshKeys, retry2FA, altAlg, answers, offered>>

\* A prompt that looks like a second factor ends the attempt, once per session, if
\* a password was sent along; an encrypted key needs a passphrase.
Possible(error) ==
  /\ error = "2fa" => password # "none" /\ ~retry2FA
  /\ error = "passphrase" => key # NoKey

HandshakeFails(error) ==
  /\ phase = "handshake" /\ Possible(error)
  /\ retry2FA' = (retry2FA \/ error = "2fa")
  /\ IF host = 1 THEN MainFails(error) ELSE JumpFails(error)
  /\ UNCHANGED <<saved, username, answers>>

\* keyboard-interactive: a question in the middle of the handshake.  One that is
\* filled in changes nothing here.
KeyboardPrompt ==
  /\ phase = "handshake"
  /\ Await("answer", "keyboard")
  /\ UNCHANGED <<saved, username, host, password, key, sshKeys, jumpSshKeys, drained,
                 retry2FA, altAlg, handlers, answers, live, offered>>

\* conn.shell.
ShellOpens ==
  /\ phase = "shell"
  /\ \/ Await("connected", "none") /\ UNCHANGED <<host, handlers, live>>
     \/ ThrowFrom(host)
  /\ UNCHANGED <<saved, username, password, key, sshKeys, jumpSshKeys, drained, retry2FA,
                 altAlg, answers, offered>>

-----------------------------------------------------------------------------
(* A question is answered, with or without a text: by the user, who may close it *)
(* as well, or with what is stored.                                              *)

\* The key file in use goes back to the front of its list, to be tried once more.
PutBack(list) == IF list = Unlisted THEN list ELSE <<key>> \o list

AnswerMain(text) ==
  CASE question = "username" ->
         /\ username' = IF text THEN "typed" ELSE username
         /\ Reconnect(handlers.main + 1)
         /\ UNCHANGED <<password, sshKeys, live>>
    [] question = "passphrase" ->
         /\ sshKeys' = IF text THEN PutBack(sshKeys) ELSE sshKeys
         /\ IF text \/ sshKeys # Unlisted THEN Reconnect(handlers.main + 1) /\ UNCHANGED live
                                          ELSE ThrowFrom(0)
         /\ UNCHANGED <<username, password>>
    [] question = "password" ->
         /\ password' = IF text THEN "typed" ELSE password
         /\ IF text THEN Reconnect(handlers.main) /\ UNCHANGED live ELSE ThrowFrom(0)
         /\ UNCHANGED <<username, sshKeys>>

AnswerJump(text) ==
  CASE question = "passphrase" ->
         /\ jumpSshKeys' = IF text THEN PutBack(jumpSshKeys) ELSE jumpSshKeys
         /\ JumpConnect(TRUE, handlers.jump + 1)
         /\ UNCHANGED password
    [] question = "password" ->
         /\ password' = IF text THEN "typed" ELSE password
         /\ IF text THEN JumpConnect(TRUE, handlers.jump) ELSE ThrowJump
         /\ UNCHANGED jumpSshKeys

Answer(text) ==
  /\ phase = "answer" /\ answers < MaxAnswers
  /\ StoredValues => text = Has(1, "values")
  /\ answers' = answers + 1
  /\ IF question = "keyboard"
       THEN /\ Await("handshake", "none")
            /\ UNCHANGED <<username, host, password, sshKeys, jumpSshKeys, handlers, live>>
     ELSE IF host = 1 THEN AnswerMain(text) /\ UNCHANGED jumpSshKeys
                      ELSE AnswerJump(text) /\ UNCHANGED <<username, sshKeys>>
  /\ UNCHANGED <<saved, key, drained, retry2FA, altAlg, offered>>

\* Closing the question rejects with "User cancel".
Cancel ==
  /\ phase = "answer" /\ ~StoredValues
  /\ IF question = "keyboard"
       THEN IF host = 1 THEN MainFails("other") ELSE JumpFails("other")
       ELSE /\ IF host = 1
                 THEN IF question = "password" THEN ThrowFrom(0)
                      ELSE NextTry(handlers.main) /\ UNCHANGED live
                 ELSE IF question = "password" THEN ThrowJump
                      ELSE JumpConnect(FALSE, handlers.jump)
            /\ UNCHANGED <<altAlg, password, key, sshKeys, jumpSshKeys, drained, offered>>
  /\ UNCHANGED <<saved, username, retry2FA, answers>>

-----------------------------------------------------------------------------
\* buildConnectOptions.
Init ==
  /\ saved \in [Host -> SavedSets]
  /\ username \in {"empty", "saved"}
  /\ password = IF Has(1, "password") /\ ~Has(1, "mfa") THEN "own" ELSE "none"
  /\ key = IF Has(1, "key") THEN SavedKey ELSE NoKey
  /\ retry2FA = Has(1, "mfa")
  /\ phase = "start" /\ question = "none" /\ host = 1
  /\ sshKeys = Unlisted /\ jumpSshKeys = Unlisted /\ drained = FALSE
  /\ altAlg = FALSE
  /\ handlers = [main |-> 0, jump |-> 0]
  /\ answers = 0
  /\ live = [h \in Host |-> 0]
  /\ offered = {}

Next ==
  \/ SshConnect \/ Forward \/ ForwardFails \/ Ready
  \/ \E error \in Errors : HandshakeFails(error)
  \/ KeyboardPrompt \/ ShellOpens
  \/ \E text \in BOOLEAN : Answer(text)
  \/ Cancel

Spec == Init /\ [][Next]_vars

\* Servers answer or run into readyTimeout, and the user answers or closes what he
\* is asked.
FairSpec == Spec /\ WF_vars(Next)

-----------------------------------------------------------------------------
(* Properties. *)

Lists == {Unlisted} \cup Seq((0 .. Hosts) \X Range(KeyFiles))

TypeOK ==
  /\ saved \in [Host -> SavedSets]
  /\ username \in {"empty", "saved", "typed", "password"}
  /\ phase \in Phases /\ question \in Questions /\ host \in Host
  /\ password \in {"none", "own", "typed", "host1"}
  /\ key \in {NoKey, SavedKey} \cup ((0 .. Hosts) \X Range(KeyFiles))
  /\ sshKeys \in Lists /\ jumpSshKeys \in Lists
  /\ drained \in BOOLEAN /\ retry2FA \in BOOLEAN /\ altAlg \in BOOLEAN
  /\ handlers \in [main : Nat, jump : Nat]
  /\ answers \in 0 .. MaxAnswers
  /\ live \in [Host -> Nat]
  /\ offered \subseteq (0 .. Hosts) \X Range(KeyFiles)

\* A password is asked for a host of which nothing is saved only when every key
\* file at hand was tried on it: those of this machine for the first host, those
\* of the jump server for a host behind it ("All private keys exhausted, ask for
\* password").
AsksAfterKeys ==
  question = "password" /\ ~Has(host, "password") /\ ~Has(host, "key")
    => Range(KeysOf(host - 1)) \subseteq offered

\* A session that reports success has a connection to every host on the way, after
\* whatever sequence of retries that ended some of them.
WholeChainOpen == phase = "connected" => \A h \in Host : live[h] > 0

\* The program never retries for ever by itself: the session is connected, has
\* failed, or the user is asked again and again.  (Closing the passphrase question
\* of a key that was saved for a host behind a jump server only asks it again.)
\* A session with stored values is excepted: a wrong passphrase among them is given
\* again and again, and nobody is asked.
NoSilentRetries ==
  StoredValues \/ <>(phase \in {"connected", "failed"}) \/ []<>(phase = "answer")
=============================================================================
