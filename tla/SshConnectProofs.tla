--------------------------- MODULE SshConnectProofs ---------------------------
(***************************************************************************)
(* What TLAPS proves of a session on its way to the shell, for any number  *)
(* of hosts, key files and answers.  How the keys of a jump server are     *)
(* used up is proved for one jump server: with two, the list of the first  *)
(* is still in use on the second (see the README).                         *)
(***************************************************************************)
EXTENDS SshConnect, SequenceTheorems, TLAPS

-----------------------------------------------------------------------------
(* The inductive invariant. *)

Keys == (0 .. (Hosts - 1)) \X Range(KeyFiles)
FilesOf(machine) == Range(KeysOf(machine))
Bare == ~Has(1, "password") /\ ~Has(1, "key")

\* Host h is offered what the options hold: the handshake is under way, or a
\* question that came up in it is open.
Offers(h) == host = h /\ phase \in {"handshake", "answer"} /\ question # "username"

OptionTypes ==
  /\ saved \in [Host -> SUBSET Secrets]
  /\ username \in {"empty", "saved", "typed", "password"}
  /\ password \in {"none", "own", "typed", "host1"}
  /\ retry2FA \in BOOLEAN /\ altAlg \in BOOLEAN
  /\ answers \in 0 .. MaxAnswers

PositionTypes ==
  /\ phase \in Phases /\ question \in Questions /\ host \in Host
  /\ handlers \in [main : Nat, jump : Nat]
  /\ live \in [Host -> Nat]

KeyTypes ==
  /\ key \in {NoKey, SavedKey} \cup Keys
  /\ sshKeys \in {Unlisted} \cup Seq(Keys)
  /\ jumpSshKeys \in {Unlisted} \cup Seq(Keys)
  /\ drained \in BOOLEAN
  /\ offered \subseteq Keys

Types == OptionTypes /\ PositionTypes /\ KeyTypes

\* Only an open question has a phase of its own; one about a passphrase has a key;
\* only a host behind another one is reached through a forward.
QuestionsFit ==
  /\ (phase = "answer") <=> (question # "none")
  /\ question = "passphrase" => key # NoKey
  /\ question = "username" \/ phase = "start" => host = 1
  /\ phase \in {"forward", "forwardAgain"} => host > 1

\* Whatever was ended, the hosts before the one in use are connected.
ChainOpen ==
  phase # "failed" =>
    /\ \A h \in Host : h < host => live[h] > 0
    /\ phase \in {"shell", "connected"} => host = Hosts /\ live[Hosts] > 0

\* While a list is in use the key comes from a list, so it can be put back.
KeyIsListed ==
  /\ Offers(1) /\ sshKeys # Unlisted => key \in Keys
  /\ host > 1 /\ (Offers(host) \/ phase = "forwardAgain") /\ jumpSshKeys # Unlisted =>
       key \in Keys \cup {NoKey}

\* Handshakes of host 1 go on without a key only when every key file was offered.
DirectKeys ==
  /\ sshKeys # Unlisted => FilesOf(0) \subseteq offered \cup Range(sshKeys)
  /\ Bare /\ host = 1 /\ sshKeys = Unlisted => key = NoKey
  /\ Bare /\ Offers(1) /\ sshKeys = Unlisted /\ password = "none" =>
       FilesOf(0) \subseteq offered
  /\ host = 1 /\ question = "password" => password = "none" /\ sshKeys = Unlisted

IInv == Types /\ QuestionsFit /\ ChainOpen /\ KeyIsListed /\ DirectKeys

\* The same of the one jump server.
JumpKeys ==
  /\ jumpSshKeys # Unlisted => FilesOf(1) \subseteq offered \cup Range(jumpSshKeys)
  /\ drained => FilesOf(1) \subseteq offered
  /\ host > 1 /\ question = "password" => drained

-----------------------------------------------------------------------------
(* Lists of keys. *)

LEMMA KeyFacts ==
  /\ NoKey \notin Keys /\ SavedKey \notin Keys /\ NoKey # SavedKey
  /\ Unlisted \notin Seq(Keys)
  /\ \A machine \in 0 .. (Hosts - 1) : KeysOf(machine) \in Seq(Keys)
<1>1. NoKey \notin Keys /\ SavedKey \notin Keys /\ NoKey # SavedKey
  BY HostsAssumption DEF NoKey, SavedKey, Keys
<1>2. Unlisted \notin Seq(Keys)
  <2> SUFFICES ASSUME Unlisted \in Seq(Keys) PROVE FALSE
    OBVIOUS
  <2>1. Len(Unlisted) = 1 /\ Unlisted[1] = NoKey
    BY DEF Unlisted
  <2>2. Unlisted[1] \in Keys
    BY <2>1, ElementOfSeq
  <2> QED
    BY <1>1, <2>1, <2>2
<1>3. ASSUME NEW machine \in 0 .. (Hosts - 1) PROVE KeysOf(machine) \in Seq(Keys)
  <2>1. Len(KeyFiles) \in Nat /\ \A i \in 1 .. Len(KeyFiles) : KeyFiles[i] \in Range(KeyFiles)
    BY KeyFilesAssumption, LenProperties DEF Range
  <2>2. \A i \in 1 .. Len(KeyFiles) : <<machine, KeyFiles[i]>> \in Keys
    BY <2>1 DEF Keys
  <2> QED
    BY <2>1, <2>2 DEF KeysOf
<1> QED
  BY <1>1, <1>2, <1>3

LEMMA TakeFirst ==
  ASSUME NEW list \in Seq(Keys), list # <<>>
  PROVE  /\ Head(list) \in Keys /\ Tail(list) \in Seq(Keys)
         /\ Range(list) \subseteq {Head(list)} \cup Range(Tail(list))
<1>1. /\ Head(list) \in Keys /\ Tail(list) \in Seq(Keys) /\ Len(list) \in Nat \ {0}
      /\ Len(Tail(list)) = Len(list) - 1 /\ Head(list) = list[1]
      /\ \A i \in 1 .. Len(Tail(list)) : Tail(list)[i] = list[i + 1]
  BY HeadTailProperties, EmptySeq
<1>2. DOMAIN list = 1 .. Len(list) /\ DOMAIN Tail(list) = 1 .. Len(Tail(list))
  BY <1>1, LenProperties
<1>3. ASSUME NEW i \in 1 .. Len(list) PROVE list[i] \in {Head(list)} \cup Range(Tail(list))
  <2>1. CASE i = 1
    BY <1>1, <2>1
  <2>2. CASE i # 1
    <3>1. i - 1 \in 1 .. Len(Tail(list)) /\ Tail(list)[i - 1] = list[i]
      BY <1>1, <2>2
    <3> QED
      BY <1>2, <3>1 DEF Range
  <2> QED
    BY <2>1, <2>2
<1> QED
  BY <1>1, <1>2, <1>3 DEF Range

LEMMA PutFirst ==
  ASSUME NEW list \in Seq(Keys), NEW k \in Keys
  PROVE  <<k>> \o list \in Seq(Keys) /\ Range(list) \subseteq Range(<<k>> \o list)
<1> DEFINE longer == <<k>> \o list
<1>1. /\ <<k>> \in Seq(Keys) /\ Len(<<k>>) = 1 /\ Len(list) \in Nat
  BY LenProperties
<1>2. /\ longer \in Seq(Keys) /\ Len(longer) = 1 + Len(list)
      /\ \A i \in 1 .. 1 + Len(list) : longer[i] = IF i <= 1 THEN <<k>>[i] ELSE list[i - 1]
  BY <1>1, ConcatProperties
<1>3. DOMAIN longer = 1 .. Len(longer) /\ DOMAIN list = 1 .. Len(list)
  BY <1>2, LenProperties
<1>4. ASSUME NEW i \in 1 .. Len(list) PROVE list[i] \in Range(longer)
  <2>1. i + 1 \in 1 .. Len(longer) /\ longer[i + 1] = list[i]
    BY <1>1, <1>2
  <2> QED
    BY <1>3, <2>1 DEF Range
<1> QED
  BY <1>2, <1>3, <1>4 DEF Range

LEMMA EmptyRange == \A list : list = <<>> => Range(list) = {}
  BY DEF Range

-----------------------------------------------------------------------------
(* Where an attempt that failed may go. *)

Restarts ==
  /\ phase' = "start" /\ question' = "none" /\ host' = 1
  /\ handlers' \in [main : Nat, jump : Nat] /\ live' \in [Host -> Nat]
  /\ host = 1 \/ sshKeys # Unlisted

GivesUp ==
  phase' = "failed" /\ question' = "none" /\ UNCHANGED <<host, handlers, live>>

HopsAgain ==
  /\ phase' \in {"forward", "forwardAgain"} /\ question' = "none"
  /\ handlers' \in [main : Nat, jump : Nat] /\ UNCHANGED <<host, live>>

Asks(q) == phase' = "answer" /\ question' = q /\ UNCHANGED <<host, handlers, live>>

LEMMA RestartKeeps ==
  ASSUME IInv, Restarts, UNCHANGED <<saved, key, offered>>,
         sshKeys' = sshKeys \/ (/\ sshKeys \in Seq(Keys) /\ sshKeys' \in Seq(Keys)
                                /\ Range(sshKeys) \subseteq Range(sshKeys'))
  PROVE  QuestionsFit' /\ ChainOpen' /\ KeyIsListed' /\ DirectKeys'
<1>1. QuestionsFit' /\ ChainOpen' /\ KeyIsListed'
  BY DEF Restarts, QuestionsFit, ChainOpen, KeyIsListed, Offers, Host
<1>2. (sshKeys' = Unlisted) => (sshKeys = Unlisted)
  BY KeyFacts
<1>3. sshKeys' # Unlisted => FilesOf(0) \subseteq offered \cup Range(sshKeys')
  BY KeyFacts DEF IInv, DirectKeys, FilesOf, KeysOf
<1>4. Bare /\ host' = 1 /\ sshKeys' = Unlisted => key = NoKey
  BY <1>2 DEF IInv, DirectKeys, Restarts
<1>5. Bare' = Bare /\ ~Offers(1)' /\ question' # "password" /\ FilesOf(0)' = FilesOf(0)
  BY DEF Bare, Has, Restarts, Offers, FilesOf, KeysOf
<1> QED
  BY <1>1, <1>3, <1>4, <1>5 DEF DirectKeys

LEMMA GiveUpKeeps ==
  ASSUME IInv, GivesUp, UNCHANGED <<saved, key, sshKeys, offered>>
  PROVE  QuestionsFit' /\ ChainOpen' /\ KeyIsListed' /\ DirectKeys'
  BY DEF IInv, GivesUp, QuestionsFit, ChainOpen, KeyIsListed, DirectKeys, Offers, Bare, Has,
         FilesOf, KeysOf

LEMMA HopKeeps ==
  ASSUME IInv, HopsAgain, host > 1, phase # "failed", UNCHANGED <<saved, sshKeys, offered>>,
         phase' = "forwardAgain" /\ jumpSshKeys' # Unlisted => key' \in Keys \cup {NoKey}
  PROVE  QuestionsFit' /\ ChainOpen' /\ KeyIsListed' /\ DirectKeys'
  BY DEF IInv, HopsAgain, QuestionsFit, ChainOpen, KeyIsListed, DirectKeys, Offers, Bare, Has,
         FilesOf, KeysOf

LEMMA AskKeeps ==
  ASSUME IInv, Offers(host), NEW q \in {"passphrase", "password", "keyboard"}, Asks(q),
         q = "passphrase" => key # NoKey,
         q = "password" /\ host = 1 => password = "none" /\ sshKeys = Unlisted,
         host = 1 => UNCHANGED password,
         UNCHANGED <<saved, key, sshKeys, jumpSshKeys, offered>>
  PROVE  QuestionsFit' /\ ChainOpen' /\ KeyIsListed' /\ DirectKeys'
  BY DEF IInv, Asks, QuestionsFit, ChainOpen, KeyIsListed, DirectKeys, Offers, Bare, Has,
         FilesOf, KeysOf

LEMMA ReconnectRestarts ==
  ASSUME Types, NEW depth \in Nat, Reconnect(depth), live' \in [Host -> Nat],
         host = 1 \/ sshKeys # Unlisted
  PROVE  Restarts
  BY DEF Reconnect, Await, Restarts

LEMMA ThrowFromOutcome ==
  ASSUME Types, NEW h \in 0 .. Hosts, ThrowFrom(h)
  PROVE  Restarts \/ GivesUp
<1>1. CASE handlers.main > 0 /\ sshKeys # Unlisted
  <2>1. handlers.main - 1 \in Nat /\ Reconnect(handlers.main - 1)
    BY <1>1 DEF Types, PositionTypes, ThrowFrom
  <2>2. live' \in [Host -> Nat]
    <3>1. \A n \in Nat : Ended(n) \in Nat
      BY DEF Ended
    <3>2. live \in [Host -> Nat] /\ (h # 0 => h \in Host)
      BY DEF Types, PositionTypes, Host
    <3> QED
      BY <1>1, <3>1, <3>2 DEF ThrowFrom
  <2> QED
    BY <1>1, <2>1, <2>2, ReconnectRestarts
<1>2. CASE ~(handlers.main > 0 /\ sshKeys # Unlisted)
  BY <1>2 DEF ThrowFrom, Fail, Await, GivesUp
<1> QED
  BY <1>1, <1>2

LEMMA JumpConnectHops ==
  ASSUME Types, NEW depth \in Nat, NEW skip \in BOOLEAN, JumpConnect(skip, depth)
  PROVE  HopsAgain
  BY DEF JumpConnect, Await, HopsAgain, Types, PositionTypes

LEMMA ThrowJumpOutcome ==
  ASSUME Types, ThrowJump
  PROVE  HopsAgain \/ Restarts \/ GivesUp
<1>1. CASE handlers.jump > 0
  <2>1. handlers.jump - 1 \in Nat
    BY <1>1 DEF Types, PositionTypes
  <2>2. JumpConnect(FALSE, handlers.jump - 1)
    BY <1>1 DEF ThrowJump
  <2> QED
    BY <2>1, <2>2, JumpConnectHops
<1>2. CASE ~(handlers.jump > 0)
  <2>1. host - 1 \in 0 .. Hosts /\ ThrowFrom(host - 1)
    BY <1>2, HostsAssumption DEF ThrowJump, Types, PositionTypes, Host
  <2> QED
    BY <2>1, ThrowFromOutcome
<1> QED
  BY <1>1, <1>2

LEMMA NextTryOutcome ==
  ASSUME Types, NEW depth \in Nat, NextTry(depth), live' \in [Host -> Nat]
  PROVE  Restarts \/ (phase' = "failed" /\ question' = "none" /\ UNCHANGED <<host, handlers>>)
  BY ReconnectRestarts DEF NextTry, Fail, Await

-----------------------------------------------------------------------------
(* The actions. *)

LEMMA InitIInv == Init => IInv
<1> SUFFICES ASSUME Init PROVE IInv
  OBVIOUS
<1>1. Unlisted \notin Seq(Keys) /\ 1 \in Host /\ 0 \in 0 .. MaxAnswers
  BY KeyFacts, HostsAssumption, AnswersAssumption DEF Host
<1>2. Types
  <2>1. retry2FA \in BOOLEAN
    BY DEF Init, Has
  <2> QED
    BY <1>1, <2>1, SavedAssumption
       DEF Init, Types, OptionTypes, PositionTypes, KeyTypes, Phases, Questions
<1> QED
  BY <1>2 DEF Init, IInv, QuestionsFit, ChainOpen, KeyIsListed, DirectKeys, Offers, Bare, Host

LEMMA NextKeyOutcome ==
  ASSUME IInv, NextKey
  PROVE  /\ key' \in {NoKey, SavedKey} \cup Keys
         /\ sshKeys' \in {Unlisted} \cup Seq(Keys)
         /\ offered \subseteq offered' /\ offered' \subseteq Keys
         /\ sshKeys' # Unlisted =>
              key' \in Keys /\ FilesOf(0) \subseteq offered' \cup Range(sshKeys')
         /\ sshKeys' = Unlisted =>
              /\ FilesOf(0) \subseteq offered'
              /\ key' = NoKey \/ (key' = key /\ sshKeys = Unlisted)
<1> DEFINE left == IF sshKeys = Unlisted THEN KeysOf(0) ELSE sshKeys
<1>1. left \in Seq(Keys)
  BY KeyFacts, HostsAssumption DEF IInv, Types, KeyTypes
<1>2. FilesOf(0) \subseteq offered \cup Range(left)
  BY DEF IInv, DirectKeys, FilesOf
<1> HIDE DEF left
<1>3. CASE left # <<>>
  <2>1. /\ key' = Head(left) /\ sshKeys' = Tail(left)
        /\ offered' = offered \cup {Head(left)}
    BY <1>3 DEF NextKey, left
  <2>2. /\ Head(left) \in Keys /\ Tail(left) \in Seq(Keys)
        /\ Range(left) \subseteq {Head(left)} \cup Range(Tail(left))
    BY <1>1, <1>3, TakeFirst
  <2> QED
    BY <1>2, <2>1, <2>2, KeyFacts DEF IInv, Types, KeyTypes
<1>4. CASE left = <<>>
  <2>1. FilesOf(0) \subseteq offered
    BY <1>2, <1>4, EmptyRange
  <2>2. /\ sshKeys' = Unlisted /\ offered' = offered
        /\ key' = NoKey \/ (key' = key /\ sshKeys = Unlisted)
    BY <1>4 DEF NextKey, left
  <2>3. key \in {NoKey, SavedKey} \cup Keys /\ offered \subseteq Keys
    BY DEF IInv, Types, KeyTypes
  <2> QED
    BY <2>1, <2>2, <2>3
<1> QED
  BY <1>3, <1>4

LEMMA SshConnectStep == IInv /\ SshConnect => IInv'
<1> SUFFICES ASSUME IInv, SshConnect PROVE IInv'
  OBVIOUS
<1>1. /\ Types /\ phase = "start" /\ question = "none"
      /\ UNCHANGED <<saved, host, password, jumpSshKeys, drained, retry2FA, altAlg, answers, live>>
  BY DEF IInv, SshConnect, QuestionsFit, Types, PositionTypes, Questions
<1>2. CASE username = "empty"
  <2>1. /\ UNCHANGED <<key, sshKeys, offered>>
        /\ \/ phase' = "start" /\ question' = "none" /\ username' = "password"
              /\ handlers' = [handlers EXCEPT !.main = @ + 1]
           \/ phase' = "answer" /\ question' = "username" /\ UNCHANGED <<username, handlers>>
    BY <1>1, <1>2 DEF SshConnect, Await
  <2>2. Types'
    <3>1. PositionTypes' /\ OptionTypes'
      BY <1>1, <2>1 DEF Types, PositionTypes, OptionTypes, Phases, Questions
    <3>2. KeyTypes'
      BY <1>1, <2>1 DEF Types, KeyTypes
    <3> QED
      BY <3>1, <3>2 DEF Types
  <2> QED
    BY <1>1, <2>1, <2>2
       DEF IInv, QuestionsFit, ChainOpen, KeyIsListed, DirectKeys, Offers, Bare, Has, FilesOf, KeysOf
<1>3. CASE username # "empty"
  <2>1. /\ phase' = "handshake" /\ question' = "none" /\ UNCHANGED <<username, handlers>>
        /\ IF NeedsKey THEN NextKey ELSE UNCHANGED <<key, sshKeys, offered>>
    BY <1>3 DEF SshConnect, Await
  <2>2. Types'
    <3>1. PositionTypes' /\ OptionTypes'
      BY <1>1, <2>1 DEF Types, PositionTypes, OptionTypes, Phases, Questions
    <3>2. KeyTypes'
      BY <1>1, <2>1, NextKeyOutcome DEF Types, KeyTypes
    <3> QED
      BY <3>1, <3>2 DEF Types
  <2>3. QuestionsFit' /\ ChainOpen'
    BY <1>1, <2>1 DEF IInv, QuestionsFit, ChainOpen
  <2>4. host = 1 /\ Bare' = Bare /\ FilesOf(0)' = FilesOf(0)
    BY <1>1 DEF IInv, QuestionsFit, Bare, Has, FilesOf, KeysOf
  <2>5. CASE NeedsKey
    BY <1>1, <2>1, <2>3, <2>2, <2>4, <2>5, NextKeyOutcome
       DEF IInv, KeyIsListed, DirectKeys, Offers
  <2>6. CASE ~NeedsKey
    BY <1>1, <2>1, <2>3, <2>2, <2>4, <2>6
       DEF IInv, KeyIsListed, DirectKeys, Offers, NeedsKey, NothingToOffer, Bare
  <2> QED
    BY <2>5, <2>6
<1> QED
  BY <1>2, <1>3 DEF SshConnect

LEMMA ReadJumpKeyOutcome ==
  ASSUME IInv, host > 1, ReadJumpKey, UNCHANGED sshKeys
  PROVE  /\ KeyTypes'
         /\ offered \subseteq offered'
         /\ jumpSshKeys' # Unlisted => key' \in Keys
<1> DEFINE left == IF jumpSshKeys = Unlisted THEN KeysOf(host - 1) ELSE jumpSshKeys
<1>1. left \in Seq(Keys)
  <2>1. host - 1 \in 0 .. (Hosts - 1)
    BY HostsAssumption DEF IInv, Types, PositionTypes, Host
  <2> QED
    BY <2>1, KeyFacts DEF IInv, Types, KeyTypes
<1> HIDE DEF left
<1>2. CASE UNCHANGED <<key, jumpSshKeys, drained, offered>> /\ jumpSshKeys = Unlisted
  BY <1>2, KeyFacts DEF IInv, Types, KeyTypes
<1>3. CASE /\ left # <<>> /\ key' = Head(left) /\ jumpSshKeys' = Tail(left)
           /\ offered' = offered \cup {Head(left)} /\ UNCHANGED drained
  <2>1. Head(left) \in Keys /\ Tail(left) \in Seq(Keys)
    BY <1>1, <1>3, TakeFirst
  <2>2. KeyTypes
    BY DEF IInv, Types
  <2> QED
    BY <1>3, <2>1, <2>2, KeyFacts DEF KeyTypes
<1>4. CASE key' = NoKey /\ jumpSshKeys' = Unlisted /\ drained' = TRUE /\ UNCHANGED offered
  BY <1>4 DEF IInv, Types, KeyTypes
<1> QED
  BY <1>2, <1>3, <1>4 DEF ReadJumpKey, left

\* A host behind another one is reached through a forward.
LEMMA ForwardStep == IInv /\ (Forward \/ ForwardFails) => IInv'
<1> SUFFICES ASSUME IInv, Forward \/ ForwardFails PROVE IInv'
  OBVIOUS
<1>1. Types /\ host > 1 /\ phase \in {"forward", "forwardAgain"} /\ question = "none"
  BY DEF IInv, Forward, ForwardFails, QuestionsFit, Types, PositionTypes, Host, Questions
<1>2. CASE Forward
  <2>1. /\ phase' = "handshake" /\ question' = "none"
        /\ UNCHANGED <<saved, username, host, password, sshKeys, retry2FA, altAlg, handlers,
                       answers, live>>
        /\ ReadJumpKey \/ UNCHANGED <<key, jumpSshKeys, drained, offered>>
        /\ phase = "forward" => ReadJumpKey
    BY <1>2 DEF Forward, Await
  <2>2. KeyTypes' /\ offered \subseteq offered'
    BY <1>1, <2>1, ReadJumpKeyOutcome DEF Types, KeyTypes
  <2>3. Types'
    <3>1. OptionTypes'
      BY <1>1, <2>1 DEF Types, OptionTypes
    <3>2. PositionTypes'
      BY <1>1, <2>1 DEF Types, PositionTypes, Phases, Questions
    <3> QED
      BY <2>2, <3>1, <3>2 DEF Types
  <2>4. QuestionsFit' /\ ChainOpen' /\ DirectKeys'
    <3>1. QuestionsFit' /\ ChainOpen'
      BY <1>1, <2>1 DEF IInv, QuestionsFit, ChainOpen
    <3>2. DirectKeys'
      BY <1>1, <2>1, <2>2 DEF IInv, DirectKeys, Offers, Bare, Has, FilesOf, KeysOf
    <3> QED
      BY <3>1, <3>2
  <2>5. KeyIsListed'
    <3>1. CASE ReadJumpKey
      BY <1>1, <2>1, <3>1, ReadJumpKeyOutcome DEF KeyIsListed, Offers
    <3>2. CASE phase = "forwardAgain" /\ UNCHANGED <<key, jumpSshKeys, drained, offered>>
      BY <1>1, <2>1, <3>2 DEF IInv, KeyIsListed, Offers
    <3> QED
      BY <1>1, <2>1, <3>1, <3>2
  <2> QED
    BY <2>3, <2>4, <2>5 DEF IInv
<1>3. CASE ForwardFails
  <2>1. /\ UNCHANGED <<saved, username, password, key, sshKeys, jumpSshKeys, drained, retry2FA,
                       altAlg, answers, offered>>
        /\ IF handlers.main > 0 THEN NextTry(handlers.main - 1) ELSE Fail
    BY <1>3 DEF ForwardFails
  <2>2. live' \in [Host -> Nat]
    BY <1>1, <1>3 DEF ForwardFails, Ended, Types, PositionTypes
  <2>3. Restarts \/ (phase' = "failed" /\ question' = "none" /\ UNCHANGED <<host, handlers>>)
    <3>1. handlers.main > 0 => handlers.main - 1 \in Nat
      BY <1>1 DEF Types, PositionTypes
    <3> QED
      BY <1>1, <2>1, <2>2, <3>1, NextTryOutcome DEF Fail, Await
  <2>4. Types'
    <3>1. PositionTypes'
      BY <1>1, <2>2, <2>3, HostsAssumption DEF Types, PositionTypes, Restarts, Host, Phases, Questions
    <3>2. OptionTypes'
      BY <1>1, <2>1 DEF Types, OptionTypes
    <3>3. KeyTypes'
      BY <1>1, <2>1 DEF Types, KeyTypes
    <3> QED
      BY <3>1, <3>2, <3>3 DEF Types
  <2>5. CASE Restarts
    BY <2>1, <2>4, <2>5, RestartKeeps DEF IInv
  <2>6. CASE phase' = "failed" /\ question' = "none" /\ UNCHANGED <<host, handlers>>
    BY <2>1, <2>4, <2>6
       DEF IInv, QuestionsFit, ChainOpen, KeyIsListed, DirectKeys, Offers, Bare, Has,
           FilesOf, KeysOf
  <2> QED
    BY <2>3, <2>5, <2>6
<1> QED
  BY <1>2, <1>3

LEMMA ReadyStep == IInv /\ Ready => IInv'
<1> SUFFICES ASSUME IInv, Ready PROVE IInv'
  OBVIOUS
<1>1. Types /\ phase = "handshake" /\ question = "none" /\ host \in Host /\ live \in [Host -> Nat]
  BY DEF IInv, Ready, QuestionsFit, Types, PositionTypes, Questions
<1>2. /\ UNCHANGED <<saved, username, sshKeys, jumpSshKeys, retry2FA, altAlg, answers, offered>>
      /\ live' = [live EXCEPT ![host] = @ + 1]
  BY DEF Ready
<1>3. live' \in [Host -> Nat] /\ live'[host] > 0 /\ \A h \in Host : live[h] > 0 => live'[h] > 0
  BY <1>1, <1>2
<1>4. CASE LastHop(host)
  <2>1. phase' = "shell" /\ question' = "none" /\ UNCHANGED <<host, password, key, drained, handlers>>
    BY <1>4 DEF Ready, Await
  <2>2. Types'
    BY <1>1, <1>2, <1>3, <2>1
       DEF Types, OptionTypes, PositionTypes, KeyTypes, Phases, Questions
  <2> QED
    BY <1>1, <1>2, <1>3, <1>4, <2>1, <2>2
       DEF IInv, QuestionsFit, ChainOpen, KeyIsListed, DirectKeys, Offers, Bare, Has, FilesOf,
           KeysOf, LastHop
<1>5. CASE ~LastHop(host)
  <2>1. /\ host' = host + 1 /\ question' = "none" /\ phase' \in {"forward", "forwardAgain"}
        /\ handlers' = [handlers EXCEPT !.jump = 0]
        /\ password' \in {"own", "none"} /\ key' \in {NoKey, SavedKey} /\ drained' = FALSE
        /\ phase' = "forwardAgain" => key' = NoKey
    BY <1>5 DEF Ready, Await
  <2>2. host' \in Host
    BY <1>1, <1>5, <2>1, HostsAssumption DEF LastHop, Host
  <2>3. Types'
    BY <1>1, <1>2, <1>3, <2>1, <2>2
       DEF Types, OptionTypes, PositionTypes, KeyTypes, Phases, Questions
  <2>4. ChainOpen'
    BY <1>1, <1>3, <2>1 DEF IInv, ChainOpen, Host
  <2> QED
    BY <1>1, <1>2, <2>1, <2>3, <2>4
       DEF IInv, QuestionsFit, KeyIsListed, DirectKeys, Offers, Bare, Has, FilesOf, KeysOf, Host
<1> QED
  BY <1>4, <1>5

-----------------------------------------------------------------------------
(* What is done about an error. *)

Passwords == {"none", "own", "typed", "host1"}

LEMMA MainOutcome ==
  ASSUME Types, host = 1, NEW error \in Errors, MainFails(error),
         error = "passphrase" => key # NoKey
  PROVE  /\ UNCHANGED <<key, sshKeys, jumpSshKeys, drained, offered>>
         /\ altAlg' \in BOOLEAN /\ password' \in Passwords
         /\ \/ Restarts \/ GivesUp
            \/ Asks("passphrase") /\ key # NoKey /\ UNCHANGED password
            \/ /\ Asks("password") /\ password = "none" /\ sshKeys = Unlisted
               /\ UNCHANGED password
<1> DEFINE branch == MainBranch(error)
<1>1. branch \in {"alternate algorithms", "without password", "ask passphrase", "next try",
                  "saved password", "ask password"}
  BY DEF MainBranch
<1>2. /\ branch = "ask passphrase" => error = "passphrase"
      /\ branch = "ask password" => password = "none" /\ sshKeys = Unlisted
  BY DEF MainBranch
<1>3. /\ altAlg' = (altAlg \/ branch = "alternate algorithms")
      /\ password' = CASE branch = "without password" -> "none"
                       [] branch = "saved password" -> "own"
                       [] branch = "ask password" /\ FillsIn("password") -> "own"
                       [] OTHER -> password
      /\ CASE branch = "next try" ->
                IF sshKeys # Unlisted THEN Reconnect(handlers.main) /\ UNCHANGED live
                                      ELSE ThrowFrom(0)
           [] branch = "ask passphrase" ->
                Await("answer", "passphrase") /\ UNCHANGED <<host, handlers, live>>
           [] branch = "ask password" /\ ~FillsIn("password") ->
                Await("answer", "password") /\ UNCHANGED <<host, handlers, live>>
           [] OTHER -> Reconnect(handlers.main) /\ UNCHANGED live
      /\ UNCHANGED <<key, sshKeys, jumpSshKeys, drained, offered>>
  BY DEF MainFails
<1>4. FillsIn("password") \in BOOLEAN
  BY DEF FillsIn, StoredValues, Has
<1> HIDE DEF branch
<1>5. altAlg' \in BOOLEAN /\ password' \in Passwords
  <2>1. password \in Passwords /\ altAlg \in BOOLEAN
    BY DEF Types, OptionTypes, Passwords
  <2> QED
    BY <1>1, <1>3, <1>4, <2>1 DEF Passwords
<1>6. ASSUME Reconnect(handlers.main), UNCHANGED live PROVE Restarts
  <2>1. handlers.main \in Nat /\ live' \in [Host -> Nat]
    BY <1>6 DEF Types, PositionTypes
  <2> QED
    BY <1>6, <2>1, ReconnectRestarts
<1>7. CASE branch = "next try"
  <2>1. IF sshKeys # Unlisted THEN Reconnect(handlers.main) /\ UNCHANGED live ELSE ThrowFrom(0)
    BY <1>3, <1>7
  <2>2. 0 \in 0 .. Hosts
    BY HostsAssumption
  <2> QED
    BY <1>3, <1>5, <1>6, <2>1, <2>2, ThrowFromOutcome
<1>8. CASE branch = "ask passphrase"
  <2>1. Asks("passphrase") /\ UNCHANGED password
    BY <1>3, <1>8 DEF Asks, Await
  <2> QED
    BY <1>2, <1>3, <1>5, <1>8, <2>1
<1>9. CASE branch = "ask password" /\ ~FillsIn("password")
  <2>1. Asks("password") /\ UNCHANGED password
    BY <1>3, <1>9 DEF Asks, Await
  <2> QED
    BY <1>2, <1>3, <1>5, <1>9, <2>1
<1>10. CASE branch \in {"alternate algorithms", "without password", "saved password"}
            \/ (branch = "ask password" /\ FillsIn("password"))
  <2>1. Reconnect(handlers.main) /\ UNCHANGED live
    BY <1>3, <1>4, <1>10
  <2> QED
    BY <1>3, <1>5, <1>6, <2>1
<1> QED
  BY <1>1, <1>4, <1>7, <1>8, <1>9, <1>10

LEMMA JumpOutcome ==
  ASSUME Types, host > 1, NEW error \in Errors, JumpFails(error),
         error = "passphrase" => key # NoKey
  PROVE  /\ UNCHANGED <<key, sshKeys, jumpSshKeys, drained, altAlg, offered>>
         /\ password' \in Passwords
         /\ \/ HopsAgain \/ Restarts \/ GivesUp
            \/ Asks("passphrase") /\ key # NoKey
            \/ Asks("password") /\ drained
<1> DEFINE branch == JumpBranch(error)
           fills == branch = "ask password" /\ FillsIn("password")
<1>1. branch \in {"throw", "read keys", "ask password", "ask passphrase"}
  BY DEF JumpBranch
<1>2. /\ branch = "ask passphrase" => error = "passphrase"
      /\ branch = "ask password" => drained
  BY DEF JumpBranch
<1>3. /\ password' = IF fills THEN "host1" ELSE password
      /\ CASE branch = "throw" -> ThrowJump
           [] branch = "read keys" -> JumpConnect(FALSE, handlers.jump)
           [] fills -> JumpConnect(TRUE, handlers.jump)
           [] branch = "ask passphrase" ->
                Await("answer", "passphrase") /\ UNCHANGED <<host, handlers, live>>
           [] OTHER -> Await("answer", "password") /\ UNCHANGED <<host, handlers, live>>
      /\ UNCHANGED <<key, sshKeys, jumpSshKeys, drained, altAlg, offered>>
  BY DEF JumpFails
<1>4. fills => branch = "ask password"
  OBVIOUS
<1>5. fills \in BOOLEAN
  OBVIOUS
<1> HIDE DEF branch, fills
<1>6. password' \in Passwords
  BY <1>3, <1>5 DEF Types, OptionTypes, Passwords
<1>7. handlers.jump \in Nat
  BY DEF Types, PositionTypes
<1>8. CASE branch = "throw"
  <2>1. ThrowJump
    BY <1>3, <1>4, <1>8
  <2> QED
    BY <1>3, <1>6, <2>1, ThrowJumpOutcome
<1>9. CASE branch = "read keys"
  <2>1. JumpConnect(FALSE, handlers.jump)
    BY <1>3, <1>4, <1>9
  <2> QED
    BY <1>3, <1>6, <1>7, <2>1, JumpConnectHops
<1>10. CASE fills
  <2>1. JumpConnect(TRUE, handlers.jump)
    BY <1>3, <1>4, <1>10
  <2> QED
    BY <1>3, <1>6, <1>7, <2>1, JumpConnectHops
<1>11. CASE branch = "ask passphrase"
  <2>1. Asks("passphrase")
    BY <1>3, <1>4, <1>11 DEF Asks, Await
  <2> QED
    BY <1>2, <1>3, <1>6, <1>11, <2>1
<1>12. CASE branch = "ask password" /\ ~fills
  <2>1. Asks("password")
    BY <1>3, <1>12 DEF Asks, Await
  <2> QED
    BY <1>2, <1>3, <1>6, <1>12, <2>1
<1> QED
  BY <1>1, <1>8, <1>9, <1>10, <1>11, <1>12

LEMMA OutcomeTypes ==
  ASSUME Types, Restarts \/ GivesUp \/ HopsAgain \/ \E q \in Questions : Asks(q)
  PROVE  PositionTypes'
  BY HostsAssumption
     DEF Types, PositionTypes, Restarts, GivesUp, HopsAgain, Asks, Host, Phases, Questions

LEMMA FailureKeeps ==
  ASSUME IInv, Offers(host), NEW error \in Errors, UNCHANGED saved,
         error = "passphrase" => key # NoKey,
         IF host = 1 THEN MainFails(error) ELSE JumpFails(error)
  PROVE  /\ PositionTypes' /\ KeyTypes' /\ password' \in Passwords /\ altAlg' \in BOOLEAN
         /\ QuestionsFit' /\ ChainOpen' /\ KeyIsListed' /\ DirectKeys'
         /\ UNCHANGED <<jumpSshKeys, drained, offered>>
         /\ host' > 1 /\ question' = "password" => drained
<1>1. Types /\ host \in Host /\ phase # "failed"
  BY DEF IInv, Types, PositionTypes, Offers
<1>2. CASE host = 1
  <2>1. MainFails(error)
    BY <1>2
  <2>2. /\ UNCHANGED <<key, sshKeys, jumpSshKeys, drained, offered>>
        /\ altAlg' \in BOOLEAN /\ password' \in Passwords
        /\ \/ Restarts \/ GivesUp
           \/ Asks("passphrase") /\ key # NoKey /\ UNCHANGED password
           \/ /\ Asks("password") /\ password = "none" /\ sshKeys = Unlisted
              /\ UNCHANGED password
    BY <1>1, <1>2, <2>1, MainOutcome
  <2>3. PositionTypes' /\ KeyTypes'
    <3>1. PositionTypes'
      BY <1>1, <2>2, OutcomeTypes DEF Questions
    <3>2. KeyTypes'
      BY <1>1, <2>2 DEF Types, KeyTypes
    <3> QED
      BY <3>1, <3>2
  <2>4. QuestionsFit' /\ ChainOpen' /\ KeyIsListed' /\ DirectKeys'
    <3>1. CASE Restarts
      BY <2>2, <3>1, RestartKeeps
    <3>2. CASE GivesUp
      BY <2>2, <3>2, GiveUpKeeps
    <3>3. CASE Asks("passphrase") /\ key # NoKey /\ UNCHANGED password
      BY <2>2, <3>3, AskKeeps
    <3>4. CASE Asks("password") /\ password = "none" /\ sshKeys = Unlisted /\ UNCHANGED password
      BY <2>2, <3>4, AskKeeps
    <3> QED
      BY <2>2, <3>1, <3>2, <3>3, <3>4
  <2>5. ~(host' > 1)
    BY <1>2, <2>2 DEF Restarts, GivesUp, Asks
  <2> QED
    BY <2>2, <2>3, <2>4, <2>5
<1>3. CASE host > 1
  <2>1. JumpFails(error)
    BY <1>3
  <2>2. /\ UNCHANGED <<key, sshKeys, jumpSshKeys, drained, altAlg, offered>>
        /\ password' \in Passwords
        /\ \/ HopsAgain \/ Restarts \/ GivesUp
           \/ Asks("passphrase") /\ key # NoKey
           \/ Asks("password") /\ drained
    BY <1>1, <1>3, <2>1, JumpOutcome
  <2>3. PositionTypes' /\ KeyTypes' /\ altAlg' \in BOOLEAN
    <3>1. PositionTypes'
      BY <1>1, <2>2, OutcomeTypes DEF Questions
    <3>2. KeyTypes' /\ altAlg' \in BOOLEAN
      BY <1>1, <2>2 DEF Types, OptionTypes, KeyTypes
    <3> QED
      BY <3>1, <3>2
  <2>4. QuestionsFit' /\ ChainOpen' /\ KeyIsListed' /\ DirectKeys'
    <3>1. CASE HopsAgain
      <4>1. jumpSshKeys' # Unlisted => key' \in Keys \cup {NoKey}
        BY <1>3, <2>2 DEF IInv, KeyIsListed
      <4> QED
        BY <1>1, <1>3, <2>2, <3>1, <4>1, HopKeeps
    <3>2. CASE Restarts
      BY <2>2, <3>2, RestartKeeps
    <3>3. CASE GivesUp
      BY <2>2, <3>3, GiveUpKeeps
    <3>4. CASE Asks("passphrase") /\ key # NoKey
      BY <1>3, <2>2, <3>4, AskKeeps
    <3>5. CASE Asks("password") /\ drained
      BY <1>3, <2>2, <3>5, AskKeeps
    <3> QED
      BY <2>2, <3>1, <3>2, <3>3, <3>4, <3>5
  <2>5. question' = "password" => drained
    BY <2>2 DEF HopsAgain, Restarts, GivesUp, Asks
  <2> QED
    BY <2>2, <2>3, <2>4, <2>5
<1> QED
  BY <1>1, <1>2, <1>3 DEF Host

LEMMA HandshakeFailsStep ==
  ASSUME IInv, NEW error \in Errors, HandshakeFails(error)
  PROVE  IInv'
<1>1. /\ Offers(host) /\ UNCHANGED <<saved, username, answers>>
      /\ error = "passphrase" => key # NoKey
      /\ IF host = 1 THEN MainFails(error) ELSE JumpFails(error)
  BY DEF IInv, QuestionsFit, Offers, HandshakeFails, Possible
<1>2. retry2FA' \in BOOLEAN
  BY DEF IInv, Types, OptionTypes, HandshakeFails
<1>3. /\ PositionTypes' /\ KeyTypes' /\ password' \in Passwords /\ altAlg' \in BOOLEAN
      /\ QuestionsFit' /\ ChainOpen' /\ KeyIsListed' /\ DirectKeys'
  BY <1>1, FailureKeeps
<1>4. OptionTypes'
  BY <1>1, <1>2, <1>3 DEF IInv, Types, OptionTypes, Passwords
<1> QED
  BY <1>3, <1>4 DEF IInv, Types

LEMMA KeyboardPromptStep == IInv /\ KeyboardPrompt => IInv'
<1> SUFFICES ASSUME IInv, KeyboardPrompt PROVE IInv'
  OBVIOUS
<1>1. /\ Offers(host) /\ Asks("keyboard")
      /\ UNCHANGED <<saved, username, password, key, sshKeys, jumpSshKeys, drained, retry2FA,
                     altAlg, answers, offered>>
  BY DEF IInv, QuestionsFit, Offers, KeyboardPrompt, Asks, Await
<1>2. PositionTypes'
  BY <1>1, OutcomeTypes DEF IInv, Questions
<1>3. OptionTypes' /\ KeyTypes'
  <2>1. OptionTypes'
    BY <1>1 DEF IInv, Types, OptionTypes
  <2>2. KeyTypes'
    BY <1>1 DEF IInv, Types, KeyTypes
  <2> QED
    BY <2>1, <2>2
<1>4. QuestionsFit' /\ ChainOpen' /\ KeyIsListed' /\ DirectKeys'
  BY <1>1, AskKeeps
<1> QED
  BY <1>2, <1>3, <1>4 DEF IInv, Types

LEMMA ShellOpensStep == IInv /\ ShellOpens => IInv'
<1> SUFFICES ASSUME IInv, ShellOpens PROVE IInv'
  OBVIOUS
<1>1. /\ Types /\ phase = "shell" /\ question = "none" /\ host = Hosts /\ live[Hosts] > 0
      /\ UNCHANGED <<saved, username, password, key, sshKeys, jumpSshKeys, drained, retry2FA,
                     altAlg, answers, offered>>
  BY DEF IInv, ShellOpens, QuestionsFit, ChainOpen, Types, PositionTypes, Questions
<1>2. \/ phase' = "connected" /\ question' = "none" /\ UNCHANGED <<host, handlers, live>>
      \/ Restarts \/ GivesUp
  <2>1. host \in 0 .. Hosts
    BY <1>1, HostsAssumption
  <2>2. \/ phase' = "connected" /\ question' = "none" /\ UNCHANGED <<host, handlers, live>>
        \/ ThrowFrom(host)
    BY DEF ShellOpens, Await
  <2> QED
    BY <1>1, <2>1, <2>2, ThrowFromOutcome
<1>3. OptionTypes' /\ KeyTypes'
  <2>1. OptionTypes'
    BY <1>1 DEF Types, OptionTypes
  <2>2. KeyTypes'
    BY <1>1 DEF Types, KeyTypes
  <2> QED
    BY <2>1, <2>2
<1>4. CASE phase' = "connected" /\ question' = "none" /\ UNCHANGED <<host, handlers, live>>
  <2>1. PositionTypes'
    BY <1>1, <1>4 DEF Types, PositionTypes, Phases, Questions
  <2>2. QuestionsFit' /\ ChainOpen' /\ KeyIsListed'
    BY <1>1, <1>4 DEF IInv, QuestionsFit, ChainOpen, KeyIsListed, Offers
  <2>3. DirectKeys'
    BY <1>1, <1>4 DEF IInv, DirectKeys, Offers, Bare, Has, FilesOf, KeysOf
  <2> QED
    BY <1>3, <2>1, <2>2, <2>3 DEF IInv, Types
<1>5. CASE Restarts
  BY <1>1, <1>3, <1>5, OutcomeTypes, RestartKeeps DEF IInv, Types
<1>6. CASE GivesUp
  BY <1>1, <1>3, <1>6, OutcomeTypes, GiveUpKeeps DEF IInv, Types
<1> QED
  BY <1>2, <1>4, <1>5, <1>6

LEMMA PutBackKeeps ==
  ASSUME NEW list \in {Unlisted} \cup Seq(Keys), list # Unlisted => key \in Keys
  PROVE  \/ list = Unlisted /\ PutBack(list) = list
         \/ /\ list \in Seq(Keys) /\ PutBack(list) \in Seq(Keys)
            /\ Range(list) \subseteq Range(PutBack(list))
<1>1. CASE list = Unlisted
  BY <1>1 DEF PutBack
<1>2. CASE list # Unlisted
  <2>1. list \in Seq(Keys) /\ key \in Keys /\ PutBack(list) = <<key>> \o list
    BY <1>2 DEF PutBack
  <2> QED
    BY <2>1, PutFirst
<1> QED
  BY <1>1, <1>2

LEMMA AnswerMainKeeps ==
  ASSUME IInv, host = 1, phase = "answer", question # "keyboard",
         NEW text \in BOOLEAN, AnswerMain(text),
         UNCHANGED <<saved, key, jumpSshKeys, drained, offered>>
  PROVE  /\ PositionTypes' /\ KeyTypes'
         /\ username' \in {"empty", "saved", "typed", "password"} /\ password' \in Passwords
         /\ QuestionsFit' /\ ChainOpen' /\ KeyIsListed' /\ DirectKeys'
         /\ question' # "password"
<1>1. /\ Types /\ handlers.main \in Nat /\ handlers.main + 1 \in Nat /\ live \in [Host -> Nat]
      /\ question \in {"username", "password", "passphrase"} /\ 0 \in 0 .. Hosts
  BY HostsAssumption DEF IInv, Types, PositionTypes, Questions, QuestionsFit
<1>2. /\ question = "username" =>
           /\ username' = IF text THEN "typed" ELSE username
           /\ Reconnect(handlers.main + 1)
           /\ UNCHANGED <<password, sshKeys, live>>
      /\ question = "passphrase" =>
           /\ sshKeys' = IF text THEN PutBack(sshKeys) ELSE sshKeys
           /\ IF text \/ sshKeys # Unlisted
                THEN Reconnect(handlers.main + 1) /\ UNCHANGED live
                ELSE ThrowFrom(0)
           /\ UNCHANGED <<username, password>>
      /\ question = "password" =>
           /\ password' = IF text THEN "typed" ELSE password
           /\ IF text THEN Reconnect(handlers.main) /\ UNCHANGED live ELSE ThrowFrom(0)
           /\ UNCHANGED <<username, sshKeys>>
  BY <1>1 DEF AnswerMain
<1>3. Restarts \/ GivesUp
  <2>1. \/ Reconnect(handlers.main + 1) /\ UNCHANGED live
        \/ Reconnect(handlers.main) /\ UNCHANGED live
        \/ ThrowFrom(0)
    BY <1>1, <1>2
  <2>2. UNCHANGED live => live' \in [Host -> Nat]
    BY <1>1
  <2> QED
    BY <1>1, <2>1, <2>2, ReconnectRestarts, ThrowFromOutcome
<1>4. /\ username' \in {"empty", "saved", "typed", "password"} /\ password' \in Passwords
  BY <1>1, <1>2 DEF Types, OptionTypes, Passwords
<1>5. \/ sshKeys' = sshKeys
      \/ /\ sshKeys \in Seq(Keys) /\ sshKeys' \in Seq(Keys)
         /\ Range(sshKeys) \subseteq Range(sshKeys')
  <2>1. CASE question = "passphrase" /\ text
    <3>1. sshKeys \in {Unlisted} \cup Seq(Keys)
      BY <1>1 DEF Types, KeyTypes
    <3>2. sshKeys # Unlisted => key \in Keys
      BY <2>1 DEF IInv, KeyIsListed, Offers
    <3>3. sshKeys' = PutBack(sshKeys)
      BY <1>2, <2>1
    <3> QED
      BY <3>1, <3>2, <3>3, PutBackKeeps
  <2>2. CASE ~(question = "passphrase" /\ text)
    BY <1>1, <1>2, <2>2
  <2> QED
    BY <2>1, <2>2
<1>6. PositionTypes' /\ KeyTypes'
  <2>1. PositionTypes'
    BY <1>1, <1>3, OutcomeTypes
  <2>2. KeyTypes'
    BY <1>1, <1>5 DEF Types, KeyTypes
  <2> QED
    BY <2>1, <2>2
<1>7. CASE Restarts
  BY <1>4, <1>5, <1>6, <1>7, RestartKeeps DEF Restarts
<1>8. CASE ~Restarts
  <2>1. GivesUp
    BY <1>3, <1>8
  <2>2. sshKeys' = sshKeys
    <3>1. ThrowFrom(0)
      <4>1. ~(Reconnect(handlers.main + 1) /\ UNCHANGED live)
        BY <1>1, <1>8, ReconnectRestarts
      <4>2. ~(Reconnect(handlers.main) /\ UNCHANGED live)
        BY <1>1, <1>8, ReconnectRestarts
      <4> QED
        BY <1>1, <1>2, <4>1, <4>2
    <3>2. ~(question = "passphrase" /\ text)
      BY <1>1, <1>2, <1>8, ReconnectRestarts
    <3> QED
      BY <1>1, <1>2, <3>2
  <2> QED
    BY <1>4, <1>6, <2>1, <2>2, GiveUpKeeps DEF GivesUp
<1> QED
  BY <1>7, <1>8

LEMMA AnswerJumpKeeps ==
  ASSUME IInv, host > 1, phase = "answer", question # "keyboard",
         NEW text \in BOOLEAN, AnswerJump(text),
         UNCHANGED <<saved, key, sshKeys, drained, offered>>
  PROVE  /\ PositionTypes' /\ KeyTypes' /\ password' \in Passwords
         /\ QuestionsFit' /\ ChainOpen' /\ KeyIsListed' /\ DirectKeys'
         /\ question' # "password"
         /\ \/ jumpSshKeys' = jumpSshKeys
            \/ /\ jumpSshKeys \in Seq(Keys) /\ jumpSshKeys' \in Seq(Keys)
               /\ Range(jumpSshKeys) \subseteq Range(jumpSshKeys')
<1>1. /\ Types /\ handlers.jump \in Nat /\ handlers.jump + 1 \in Nat
      /\ question \in {"password", "passphrase"} /\ Offers(host)
  BY DEF IInv, Types, PositionTypes, Questions, QuestionsFit, Offers, Host
<1>2. /\ question = "passphrase" =>
           /\ jumpSshKeys' = IF text THEN PutBack(jumpSshKeys) ELSE jumpSshKeys
           /\ JumpConnect(TRUE, handlers.jump + 1)
           /\ UNCHANGED password
      /\ question = "password" =>
           /\ password' = IF text THEN "typed" ELSE password
           /\ IF text THEN JumpConnect(TRUE, handlers.jump) ELSE ThrowJump
           /\ UNCHANGED jumpSshKeys
  BY <1>1 DEF AnswerJump
<1>3. HopsAgain \/ Restarts \/ GivesUp
  <2>1. \/ JumpConnect(TRUE, handlers.jump + 1) \/ JumpConnect(TRUE, handlers.jump)
        \/ ThrowJump
    BY <1>1, <1>2
  <2> QED
    BY <1>1, <2>1, JumpConnectHops, ThrowJumpOutcome
<1>4. password' \in Passwords
  BY <1>1, <1>2 DEF Types, OptionTypes, Passwords
<1>5. /\ jumpSshKeys # Unlisted => key \in Keys \cup {NoKey}
      /\ question = "passphrase" /\ jumpSshKeys # Unlisted => key \in Keys
  <2>1. question = "passphrase" => key # NoKey
    BY DEF IInv, QuestionsFit
  <2> QED
    BY <1>1, <2>1 DEF IInv, KeyIsListed
<1>6. \/ jumpSshKeys' = jumpSshKeys
      \/ /\ jumpSshKeys \in Seq(Keys) /\ jumpSshKeys' \in Seq(Keys)
         /\ Range(jumpSshKeys) \subseteq Range(jumpSshKeys')
  <2>1. CASE question = "passphrase" /\ text
    <3>1. jumpSshKeys \in {Unlisted} \cup Seq(Keys)
      BY <1>1 DEF Types, KeyTypes
    <3>2. jumpSshKeys' = PutBack(jumpSshKeys)
      BY <1>2, <2>1
    <3> QED
      BY <1>5, <2>1, <3>1, <3>2, PutBackKeeps
  <2>2. CASE ~(question = "passphrase" /\ text)
    BY <1>1, <1>2, <2>2
  <2> QED
    BY <2>1, <2>2
<1>7. PositionTypes' /\ KeyTypes'
  <2>1. PositionTypes'
    BY <1>1, <1>3, OutcomeTypes
  <2>2. KeyTypes'
    BY <1>1, <1>6 DEF Types, KeyTypes
  <2> QED
    BY <2>1, <2>2
<1>8. CASE HopsAgain
  <2>1. jumpSshKeys' # Unlisted => key' \in Keys \cup {NoKey}
    BY <1>5, <1>6, KeyFacts
  <2> QED
    BY <1>4, <1>6, <1>7, <1>8, <2>1, HopKeeps DEF HopsAgain
<1>9. CASE Restarts
  BY <1>4, <1>6, <1>7, <1>9, RestartKeeps DEF Restarts
<1>10. CASE GivesUp
  BY <1>4, <1>6, <1>7, <1>10, GiveUpKeeps DEF GivesUp
<1> QED
  BY <1>3, <1>8, <1>9, <1>10

LEMMA AnswerStep ==
  ASSUME IInv, NEW text \in BOOLEAN, Answer(text)
  PROVE  IInv'
<1>1. /\ Types /\ phase = "answer" /\ answers' \in 0 .. MaxAnswers
      /\ UNCHANGED <<saved, key, drained, retry2FA, altAlg, offered>>
  BY AnswersAssumption DEF IInv, Types, OptionTypes, Answer
<1>2. CASE question = "keyboard"
  <2>1. /\ phase' = "handshake" /\ question' = "none"
        /\ UNCHANGED <<username, host, password, sshKeys, jumpSshKeys, handlers, live>>
    BY <1>2 DEF Answer, Await
  <2>2. PositionTypes'
    BY <1>1, <2>1 DEF Types, PositionTypes, Phases, Questions
  <2>3. OptionTypes'
    BY <1>1, <2>1 DEF Types, OptionTypes
  <2>4. KeyTypes'
    BY <1>1, <2>1 DEF Types, KeyTypes
  <2>5. QuestionsFit' /\ ChainOpen' /\ KeyIsListed'
    BY <1>1, <1>2, <2>1 DEF IInv, QuestionsFit, ChainOpen, KeyIsListed, Offers
  <2>6. DirectKeys'
    BY <1>1, <1>2, <2>1 DEF IInv, DirectKeys, Offers, Bare, Has, FilesOf, KeysOf
  <2> QED
    BY <2>2, <2>3, <2>4, <2>5, <2>6 DEF IInv, Types
<1>3. CASE question # "keyboard" /\ host = 1
  <2>1. AnswerMain(text) /\ UNCHANGED jumpSshKeys
    BY <1>3 DEF Answer
  <2>2. /\ PositionTypes' /\ KeyTypes'
        /\ username' \in {"empty", "saved", "typed", "password"} /\ password' \in Passwords
        /\ QuestionsFit' /\ ChainOpen' /\ KeyIsListed' /\ DirectKeys'
    BY <1>1, <1>3, <2>1, AnswerMainKeeps
  <2>3. OptionTypes'
    BY <1>1, <2>2 DEF Types, OptionTypes, Passwords
  <2> QED
    BY <2>2, <2>3 DEF IInv, Types
<1>4. CASE question # "keyboard" /\ host # 1
  <2>1. AnswerJump(text) /\ UNCHANGED <<username, sshKeys>> /\ host > 1
    BY <1>1, <1>4 DEF Answer, Types, PositionTypes, Host
  <2>2. /\ PositionTypes' /\ KeyTypes' /\ password' \in Passwords
        /\ QuestionsFit' /\ ChainOpen' /\ KeyIsListed' /\ DirectKeys'
    BY <1>1, <1>4, <2>1, AnswerJumpKeeps
  <2>3. OptionTypes'
    BY <1>1, <2>1, <2>2 DEF Types, OptionTypes, Passwords
  <2> QED
    BY <2>2, <2>3 DEF IInv, Types
<1> QED
  BY <1>2, <1>3, <1>4

\* Closing a question other than that of the handshake.
LEMMA CloseOutcome ==
  ASSUME IInv, Cancel, question # "keyboard"
  PROVE  /\ UNCHANGED <<saved, username, password, key, sshKeys, jumpSshKeys, drained, retry2FA,
                        altAlg, answers, offered>>
         /\ Restarts \/ GivesUp \/ (HopsAgain /\ host > 1)
<1>1. /\ Types /\ handlers.main \in Nat /\ handlers.jump \in Nat /\ 0 \in 0 .. Hosts
      /\ live \in [Host -> Nat]
  BY HostsAssumption DEF IInv, Types, PositionTypes
<1>2. UNCHANGED <<saved, username, password, key, sshKeys, jumpSshKeys, drained, retry2FA,
                  altAlg, answers, offered>>
  BY DEF Cancel
<1>3. CASE host = 1
  <2>1. ThrowFrom(0) \/ (NextTry(handlers.main) /\ UNCHANGED live)
    BY <1>3 DEF Cancel
  <2>2. CASE ThrowFrom(0)
    BY <1>1, <1>2, <2>2, ThrowFromOutcome
  <2>3. CASE NextTry(handlers.main) /\ UNCHANGED live
    BY <1>1, <1>2, <2>3, NextTryOutcome DEF GivesUp
  <2> QED
    BY <2>1, <2>2, <2>3
<1>4. CASE host # 1
  <2>1. host > 1
    BY <1>1, <1>4 DEF Types, PositionTypes, Host
  <2>2. ThrowJump \/ JumpConnect(FALSE, handlers.jump)
    BY <1>4 DEF Cancel
  <2>3. HopsAgain \/ Restarts \/ GivesUp
    BY <1>1, <2>2, ThrowJumpOutcome, JumpConnectHops
  <2> QED
    BY <1>2, <2>1, <2>3
<1> QED
  BY <1>3, <1>4

LEMMA CancelStep == IInv /\ Cancel => IInv'
<1> SUFFICES ASSUME IInv, Cancel PROVE IInv'
  OBVIOUS
<1>1. Types /\ phase = "answer"
  BY DEF IInv, Cancel
<1>2. CASE question = "keyboard"
  <2>1. /\ Offers(host) /\ UNCHANGED <<saved, username, retry2FA, answers>>
        /\ IF host = 1 THEN MainFails("other") ELSE JumpFails("other")
    BY <1>1, <1>2 DEF Cancel, Offers
  <2>2. "other" \in Errors /\ "other" # "passphrase"
    BY DEF Errors
  <2>3. /\ PositionTypes' /\ KeyTypes' /\ password' \in Passwords /\ altAlg' \in BOOLEAN
        /\ QuestionsFit' /\ ChainOpen' /\ KeyIsListed' /\ DirectKeys'
    BY <2>1, <2>2, FailureKeeps
  <2>4. OptionTypes'
    BY <1>1, <2>1, <2>3 DEF Types, OptionTypes, Passwords
  <2> QED
    BY <2>3, <2>4 DEF IInv, Types
<1>3. CASE question # "keyboard"
  <2>1. /\ UNCHANGED <<saved, username, password, key, sshKeys, jumpSshKeys, drained, retry2FA,
                       altAlg, answers, offered>>
        /\ Restarts \/ GivesUp \/ (HopsAgain /\ host > 1)
    BY <1>3, CloseOutcome
  <2>2. PositionTypes'
    BY <1>1, <2>1, OutcomeTypes
  <2>3. OptionTypes'
    BY <1>1, <2>1 DEF Types, OptionTypes
  <2>4. KeyTypes'
    BY <1>1, <2>1 DEF Types, KeyTypes
  <2>5. QuestionsFit' /\ ChainOpen' /\ KeyIsListed' /\ DirectKeys'
    <3>1. CASE Restarts
      BY <2>1, <3>1, RestartKeeps
    <3>2. CASE GivesUp
      BY <2>1, <3>2, GiveUpKeeps
    <3>3. CASE HopsAgain /\ host > 1
      <4>1. question # "username"
        BY <3>3 DEF IInv, QuestionsFit
      <4>2. jumpSshKeys' # Unlisted => key' \in Keys \cup {NoKey}
        BY <1>1, <2>1, <3>3, <4>1 DEF IInv, KeyIsListed, Offers
      <4> QED
        BY <1>1, <2>1, <3>3, <4>2, HopKeeps
    <3> QED
      BY <2>1, <3>1, <3>2, <3>3
  <2> QED
    BY <2>2, <2>3, <2>4, <2>5 DEF IInv, Types
<1> QED
  BY <1>2, <1>3

LEMMA IInvStep == IInv /\ [Next]_vars => IInv'
<1> SUFFICES ASSUME IInv, [Next]_vars PROVE IInv'
  OBVIOUS
<1>1. CASE SshConnect
  BY <1>1, SshConnectStep
<1>2. CASE Forward \/ ForwardFails
  BY <1>2, ForwardStep
<1>3. CASE Ready
  BY <1>3, ReadyStep
<1>4. ASSUME NEW error \in Errors, HandshakeFails(error) PROVE IInv'
  BY <1>4, HandshakeFailsStep
<1>5. CASE KeyboardPrompt
  BY <1>5, KeyboardPromptStep
<1>6. CASE ShellOpens
  BY <1>6, ShellOpensStep
<1>7. ASSUME NEW text \in BOOLEAN, Answer(text) PROVE IInv'
  BY <1>7, AnswerStep
<1>8. CASE Cancel
  BY <1>8, CancelStep
<1>9. CASE UNCHANGED vars
  <2>1. UNCHANGED <<saved, username, phase, host, question, password, key, sshKeys, jumpSshKeys,
                    drained, retry2FA, altAlg, handlers, answers, live, offered>>
    BY <1>9 DEF vars
  <2>2. OptionTypes'
    BY <2>1 DEF IInv, Types, OptionTypes
  <2>3. PositionTypes'
    BY <2>1 DEF IInv, Types, PositionTypes
  <2>4. KeyTypes'
    BY <2>1 DEF IInv, Types, KeyTypes
  <2>5. QuestionsFit' /\ ChainOpen' /\ KeyIsListed'
    BY <2>1 DEF IInv, QuestionsFit, ChainOpen, KeyIsListed, Offers
  <2>6. DirectKeys'
    BY <2>1 DEF IInv, DirectKeys, Offers, Bare, Has, FilesOf, KeysOf
  <2> QED
    BY <2>2, <2>3, <2>4, <2>5, <2>6 DEF IInv, Types
<1> QED
  BY <1>1, <1>2, <1>3, <1>4, <1>5, <1>6, <1>7, <1>8, <1>9 DEF Next

-----------------------------------------------------------------------------
(* For any number of hosts. *)

\* Types, questions, connections and the key files of this machine fit together
\* after any sequence of failures, retries and answers (session-ssh.js).
THEOREM Invariance == Spec => []IInv
<1>1. Init => IInv
  BY InitIInv
<1>2. IInv /\ [Next]_vars => IInv'
  BY IInvStep
<1> QED
  BY <1>1, <1>2, PTL DEF Spec

\* A session that reports success has a connection to every host on the way,
\* whatever endConns, nextTry and the nested handlers closed before (hopping, jump).
THEOREM SuccessHasItsChain == Spec => []WholeChainOpen
<1>1. IInv => WholeChainOpen
  BY DEF IInv, Types, PositionTypes, ChainOpen, WholeChainOpen, Host
<1> QED
  BY <1>1, Invariance, PTL

\* The password of the first host is asked for only when every key file of this
\* machine was tried on it, however many hosts come behind it (getPrivateKey).
THEOREM FirstHostAsksAfterKeys == Spec => [](host = 1 => AsksAfterKeys)
<1>1. ASSUME IInv, host = 1 PROVE AsksAfterKeys
  <2> SUFFICES ASSUME question = "password", ~Has(1, "password"), ~Has(1, "key")
               PROVE  Range(KeysOf(0)) \subseteq offered
    BY <1>1 DEF AsksAfterKeys
  <2>1. Bare /\ Offers(1) /\ password = "none" /\ sshKeys = Unlisted
    BY <1>1 DEF IInv, QuestionsFit, DirectKeys, Bare, Offers
  <2> QED
    BY <1>1, <2>1 DEF IInv, DirectKeys, FilesOf
<1>2. IInv => (host = 1 => AsksAfterKeys)
  BY <1>1
<1> QED
  BY <1>2, Invariance, PTL

-----------------------------------------------------------------------------
(* For one jump server. *)

LEMMA JumpListKeeps ==
  ASSUME JumpKeys, offered \subseteq offered', drained' => drained,
         \/ jumpSshKeys' = jumpSshKeys
         \/ /\ jumpSshKeys \in Seq(Keys) /\ jumpSshKeys' \in Seq(Keys)
            /\ Range(jumpSshKeys) \subseteq Range(jumpSshKeys'),
         host' > 1 /\ question' = "password" => drained'
  PROVE  JumpKeys'
<1>1. FilesOf(1)' = FilesOf(1)
  BY DEF FilesOf, KeysOf
<1>2. drained' => FilesOf(1) \subseteq offered'
  BY DEF JumpKeys
<1>3. jumpSshKeys' # Unlisted => FilesOf(1) \subseteq offered' \cup Range(jumpSshKeys')
  BY KeyFacts DEF JumpKeys
<1> QED
  BY <1>1, <1>2, <1>3 DEF JumpKeys

LEMMA ReadJumpKeyDrains ==
  ASSUME Hosts <= 2, IInv, JumpKeys, host > 1, ReadJumpKey, question' # "password"
  PROVE  JumpKeys'
<1> DEFINE left == IF jumpSshKeys = Unlisted THEN KeysOf(host - 1) ELSE jumpSshKeys
<1>1. host = 2 /\ FilesOf(1)' = FilesOf(1)
  BY HostsAssumption DEF IInv, Types, PositionTypes, Host, FilesOf, KeysOf
<1>2. left \in Seq(Keys) /\ FilesOf(1) \subseteq offered \cup Range(left)
  <2>1. CASE jumpSshKeys = Unlisted
    <3>1. left = KeysOf(1)
      BY <1>1, <2>1
    <3>2. 1 \in 0 .. (Hosts - 1)
      BY <1>1, HostsAssumption DEF IInv, Types, PositionTypes, Host
    <3> QED
      BY <3>1, <3>2, KeyFacts DEF FilesOf
  <2>2. CASE jumpSshKeys # Unlisted
    BY <2>2 DEF IInv, Types, KeyTypes, JumpKeys
  <2> QED
    BY <2>1, <2>2
<1> HIDE DEF left
<1>3. CASE UNCHANGED <<key, jumpSshKeys, drained, offered>>
  BY <1>3, JumpListKeeps
<1>4. CASE /\ left # <<>> /\ key' = Head(left) /\ jumpSshKeys' = Tail(left)
           /\ offered' = offered \cup {Head(left)} /\ UNCHANGED drained
  <2>1. /\ Tail(left) \in Seq(Keys)
        /\ Range(left) \subseteq {Head(left)} \cup Range(Tail(left))
    BY <1>2, <1>4, TakeFirst
  <2>2. FilesOf(1) \subseteq offered' \cup Range(jumpSshKeys')
    BY <1>2, <1>4, <2>1
  <2>3. drained' => FilesOf(1) \subseteq offered'
    BY <1>4 DEF JumpKeys
  <2> QED
    BY <1>1, <2>2, <2>3 DEF JumpKeys
<1>5. CASE left = <<>> /\ jumpSshKeys' = Unlisted /\ drained' = TRUE /\ UNCHANGED offered
  <2>1. FilesOf(1) \subseteq offered'
    BY <1>2, <1>5, EmptyRange
  <2> QED
    BY <1>1, <1>5, <2>1 DEF JumpKeys
<1> QED
  BY <1>3, <1>4, <1>5 DEF ReadJumpKey, left

LEMMA JumpKeysStep ==
  ASSUME Hosts <= 2, IInv, JumpKeys, [Next]_vars
  PROVE  JumpKeys'
<1>1. /\ Types /\ host \in Host /\ question \in Questions
      /\ (phase = "answer") <=> (question # "none")
  BY DEF IInv, Types, PositionTypes, QuestionsFit
<1>2. CASE SshConnect
  <2>1. UNCHANGED <<host, jumpSshKeys, drained>> /\ host = 1
    BY <1>2 DEF SshConnect, IInv, QuestionsFit
  <2>2. offered \subseteq offered'
    BY <1>2, NextKeyOutcome DEF SshConnect
  <2> QED
    BY <2>1, <2>2, JumpListKeeps
<1>3. CASE Forward
  <2>1. host > 1 /\ question' = "none"
    BY <1>3 DEF Forward, Await, IInv, QuestionsFit
  <2>2. ReadJumpKey \/ UNCHANGED <<key, jumpSshKeys, drained, offered>>
    BY <1>3 DEF Forward
  <2> QED
    BY <2>1, <2>2, ReadJumpKeyDrains, JumpListKeeps
<1>4. CASE ForwardFails
  <2>1. question' = "none"
    BY <1>4 DEF ForwardFails, NextTry, Fail, Reconnect, Await
  <2>2. UNCHANGED <<jumpSshKeys, drained, offered>>
    BY <1>4 DEF ForwardFails
  <2> QED
    BY <2>1, <2>2, JumpListKeeps
<1>5. CASE Ready
  <2>1. question' = "none" /\ (drained' => drained)
    BY <1>5 DEF Ready, Await
  <2>2. UNCHANGED <<jumpSshKeys, offered>>
    BY <1>5 DEF Ready
  <2> QED
    BY <2>1, <2>2, JumpListKeeps
<1>6. ASSUME NEW error \in Errors, HandshakeFails(error) PROVE JumpKeys'
  <2>1. /\ Offers(host) /\ UNCHANGED <<saved, username, answers>>
        /\ error = "passphrase" => key # NoKey
        /\ IF host = 1 THEN MainFails(error) ELSE JumpFails(error)
    BY <1>6 DEF IInv, QuestionsFit, Offers, HandshakeFails, Possible
  <2> QED
    BY <2>1, FailureKeeps, JumpListKeeps
<1>7. CASE KeyboardPrompt
  BY <1>7, JumpListKeeps DEF KeyboardPrompt, Await
<1>8. CASE ShellOpens
  <2>1. UNCHANGED <<jumpSshKeys, drained, offered>> /\ question' = "none"
    BY <1>8 DEF ShellOpens, ThrowFrom, Reconnect, Fail, Await
  <2> QED
    BY <2>1, JumpListKeeps
<1>9. ASSUME NEW text \in BOOLEAN, Answer(text) PROVE JumpKeys'
  <2>1. UNCHANGED <<saved, key, drained, offered>> /\ phase = "answer"
    BY <1>9 DEF Answer
  <2>2. CASE question = "keyboard"
    BY <1>9, <2>1, <2>2, JumpListKeeps DEF Answer, Await
  <2>3. CASE question # "keyboard" /\ host = 1
    <3>1. AnswerMain(text) /\ UNCHANGED jumpSshKeys
      BY <1>9, <2>3 DEF Answer
    <3>2. question' # "password"
      BY <2>1, <2>3, <3>1, AnswerMainKeeps
    <3> QED
      BY <2>1, <3>1, <3>2, JumpListKeeps
  <2>4. CASE question # "keyboard" /\ host > 1
    <3>1. AnswerJump(text) /\ UNCHANGED sshKeys
      BY <1>9, <2>4 DEF Answer
    <3>2. /\ question' # "password"
          /\ \/ jumpSshKeys' = jumpSshKeys
             \/ /\ jumpSshKeys \in Seq(Keys) /\ jumpSshKeys' \in Seq(Keys)
                /\ Range(jumpSshKeys) \subseteq Range(jumpSshKeys')
      BY <2>1, <2>4, <3>1, AnswerJumpKeeps
    <3> QED
      BY <2>1, <3>2, JumpListKeeps
  <2> QED
    BY <1>1, <2>2, <2>3, <2>4 DEF Host
<1>10. CASE Cancel
  <2>1. CASE question = "keyboard"
    <3>1. /\ Offers(host) /\ UNCHANGED saved
          /\ IF host = 1 THEN MainFails("other") ELSE JumpFails("other")
      BY <1>10, <2>1 DEF Cancel, Offers
    <3>2. "other" \in Errors /\ "other" # "passphrase"
      BY DEF Errors
    <3> QED
      BY <3>1, <3>2, FailureKeeps, JumpListKeeps
  <2>2. CASE question # "keyboard"
    <3>1. UNCHANGED <<jumpSshKeys, drained, offered>> /\ question' = "none"
      BY <1>10, <2>2, CloseOutcome DEF Restarts, GivesUp, HopsAgain
    <3> QED
      BY <3>1, JumpListKeeps
  <2> QED
    BY <2>1, <2>2
<1>11. CASE UNCHANGED vars
  BY <1>11 DEF vars, JumpKeys, FilesOf, KeysOf
<1> QED
  BY <1>2, <1>3, <1>4, <1>5, <1>6, <1>7, <1>8, <1>9, <1>10, <1>11 DEF Next

\* With at most one jump server a password is asked for a host of which nothing is
\* saved only when every key file at hand was tried on it (sshKeysDrain, "All private
\* keys exhausted, ask for password").  With two jump servers it is not so: the list
\* of the first one's keys is still in use on the second.
THEOREM AllAskAfterKeys ==
  ASSUME Hosts <= 2
  PROVE  Spec => []AsksAfterKeys
<1>1. Init => IInv /\ JumpKeys
  BY InitIInv DEF Init, JumpKeys
<1>2. IInv /\ JumpKeys /\ [Next]_vars => IInv' /\ JumpKeys'
  BY IInvStep, JumpKeysStep
<1>3. ASSUME IInv, JumpKeys PROVE AsksAfterKeys
  <2> SUFFICES ASSUME question = "password", ~Has(host, "password"), ~Has(host, "key")
               PROVE  Range(KeysOf(host - 1)) \subseteq offered
    BY DEF AsksAfterKeys
  <2>1. host \in Host /\ phase = "answer"
    BY <1>3 DEF IInv, Types, PositionTypes, QuestionsFit
  <2>2. CASE host = 1
    <3>1. Bare /\ Offers(1) /\ password = "none" /\ sshKeys = Unlisted
      BY <1>3, <2>1, <2>2 DEF IInv, DirectKeys, Bare, Offers
    <3> QED
      BY <1>3, <2>2, <3>1 DEF IInv, DirectKeys, FilesOf
  <2>3. CASE host = 2
    BY <1>3, <2>3 DEF JumpKeys, FilesOf
  <2> QED
    BY <2>1, <2>2, <2>3, HostsAssumption DEF Host
<1> QED
  BY <1>1, <1>2, <1>3, PTL DEF Spec
=============================================================================
