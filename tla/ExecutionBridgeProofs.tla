------------------------ MODULE ExecutionBridgeProofs -------------------------
(***************************************************************************)
(* What TLAPS proves of a tool call on its way to the host, for every set  *)
(* of calls and every fault: no call starts twice, and the execution layer *)
(* implements RemoteCalls.                                                 *)
(***************************************************************************)
EXTENDS ExecutionBridge, SequenceTheorems, TLAPS

-----------------------------------------------------------------------------
(* The inductive invariant. *)

\* Message k of a channel is of this action and call.
IsFor(m, action, c) == m.action = action /\ m.call = c
Holds(q, action, c) == \E k \in 1 .. Len(q) : IsFor(q[k], action, c)
HoldsOnce(q, c) ==
  \A j, k \in 1 .. Len(q) : IsFor(q[j], "exec", c) /\ IsFor(q[k], "exec", c) => j = k

\* The request to run c was sent and the host has not seen it yet.
OnItsWay(c) ==
  Holds(toServer, "exec", c) \/ Holds(toSession, "exec", c) \/ work[c] = "describing"

\* The ledger, the pending request and the result of a call agree.
LedgerAgrees(c) ==
  /\ ledger[c] = "none" <=> executes[c] = 0
  /\ c \in pending <=> ledger[c] = "started"
  /\ result[c] = NoResult <=> ledger[c] # "done"

\* One request exists at most, and it is in one place.
OneRequest(c) ==
  /\ HoldsOnce(toServer, c) /\ HoldsOnce(toSession, c)
  /\ Holds(toServer, "exec", c) => ~Holds(toSession, "exec", c) /\ work[c] = "none"
  /\ Holds(toSession, "exec", c) => work[c] = "none"
  /\ OnItsWay(c) => /\ ledger[c] # "none" /\ starts[c] = 0
                    /\ result[c].remoteTermination # "confirmed"

\* What the host does agrees with how often the call was started.
HostAgrees(c) ==
  /\ starts[c] <= 1
  /\ starts[c] = 0 <=> host[c] = "idle"
  /\ work[c] = "running" => starts[c] = 1
  /\ ledger[c] = "none" => starts[c] = 0

\* A call is cancelled on its way only after its caller was answered.
CancelIsLate(c) ==
  Holds(toServer, "cancel", c) \/ Holds(toSession, "cancel", c) \/ c \in interrupted
    => ledger[c] = "done"

\* An answer is the last word of the session process, and says what the host did.
ReplyIsLast(r) ==
  /\ ~OnItsWay(r.call) /\ work[r.call] = "none" /\ ledger[r.call] # "none"
  /\ r.outcome \in {"exit0", "exit1", "refused"} => host[r.call] # "running"
  /\ r.outcome = "noexit" => ledger[r.call] = "done" \/ r.call \in Droppable

CallInv(c) == /\ LedgerAgrees(c) /\ OneRequest(c) /\ HostAgrees(c) /\ CancelIsLate(c)

IInv == /\ TypeOK
        /\ \A c \in Calls : CallInv(c)
        /\ \A r \in replies : ReplyIsLast(r)

-----------------------------------------------------------------------------
(* Channels. *)

LEMMA AfterAppend ==
  ASSUME NEW q \in Seq(Messages), NEW m \in Messages, NEW c
  PROVE  /\ Append(q, m) \in Seq(Messages)
         /\ \A a : Holds(Append(q, m), a, c) <=> Holds(q, a, c) \/ IsFor(m, a, c)
         /\ HoldsOnce(q, c) /\ ~(Holds(q, "exec", c) /\ IsFor(m, "exec", c))
              => HoldsOnce(Append(q, m), c)
<1> DEFINE p == Append(q, m)
<1>1. /\ p \in Seq(Messages) /\ Len(p) = Len(q) + 1 /\ Len(q) \in Nat
      /\ \A k \in 1 .. Len(q) : p[k] = q[k]
      /\ p[Len(q) + 1] = m
  BY AppendProperties, LenProperties
<1> HIDE DEF p
<1>2. \A a : Holds(p, a, c) <=> Holds(q, a, c) \/ IsFor(m, a, c)
  <2> SUFFICES ASSUME NEW a PROVE Holds(p, a, c) <=> Holds(q, a, c) \/ IsFor(m, a, c)
    OBVIOUS
  <2>1. ASSUME Holds(p, a, c) PROVE Holds(q, a, c) \/ IsFor(m, a, c)
    <3>1. PICK k \in 1 .. Len(p) : IsFor(p[k], a, c)
      BY <2>1 DEF Holds
    <3>2. k \in 1 .. Len(q) \/ k = Len(q) + 1
      BY <1>1
    <3> QED
      BY <1>1, <3>1, <3>2 DEF Holds
  <2>2. ASSUME Holds(q, a, c) PROVE Holds(p, a, c)
    <3>1. PICK k \in 1 .. Len(q) : IsFor(q[k], a, c)
      BY <2>2 DEF Holds
    <3>2. k \in 1 .. Len(p) /\ p[k] = q[k]
      BY <1>1
    <3> QED
      BY <3>1, <3>2 DEF Holds
  <2>3. ASSUME IsFor(m, a, c) PROVE Holds(p, a, c)
    <3>1. Len(q) + 1 \in 1 .. Len(p)
      BY <1>1
    <3> QED
      BY <1>1, <2>3, <3>1 DEF Holds
  <2> QED
    BY <2>1, <2>2, <2>3
<1>3. ASSUME HoldsOnce(q, c), ~(Holds(q, "exec", c) /\ IsFor(m, "exec", c))
      PROVE  HoldsOnce(p, c)
  <2> SUFFICES ASSUME NEW j \in 1 .. Len(p), NEW k \in 1 .. Len(p),
                      IsFor(p[j], "exec", c), IsFor(p[k], "exec", c)
               PROVE  j = k
    BY DEF HoldsOnce
  <2>1. (j \in 1 .. Len(q) \/ j = Len(q) + 1) /\ (k \in 1 .. Len(q) \/ k = Len(q) + 1)
    BY <1>1
  <2> QED
    BY <1>1, <1>3, <2>1 DEF HoldsOnce, Holds
<1> QED
  BY <1>1, <1>2, <1>3 DEF p

LEMMA AfterTail ==
  ASSUME NEW q \in Seq(Messages), q # <<>>, NEW c
  PROVE  /\ Head(q) \in Messages /\ Tail(q) \in Seq(Messages)
         /\ \A a : Holds(Tail(q), a, c) => Holds(q, a, c)
         /\ \A a : IsFor(Head(q), a, c) => Holds(q, a, c)
         /\ HoldsOnce(q, c) => HoldsOnce(Tail(q), c)
         /\ HoldsOnce(q, c) /\ IsFor(Head(q), "exec", c) => ~Holds(Tail(q), "exec", c)
<1>1. /\ Head(q) \in Messages /\ Tail(q) \in Seq(Messages)
      /\ Len(q) \in Nat \ {0} /\ Len(Tail(q)) = Len(q) - 1
      /\ \A k \in 1 .. Len(Tail(q)) : Tail(q)[k] = q[k + 1]
      /\ Head(q) = q[1]
  BY HeadTailProperties, EmptySeq
<1>2. \A k \in 1 .. Len(Tail(q)) : k + 1 \in 1 .. Len(q) /\ k + 1 # 1
  BY <1>1
<1>3. 1 \in 1 .. Len(q)
  BY <1>1
<1>4. \A a : Holds(Tail(q), a, c) => Holds(q, a, c)
  BY <1>1, <1>2 DEF Holds
<1>5. \A a : IsFor(Head(q), a, c) => Holds(q, a, c)
  BY <1>1, <1>3 DEF Holds
<1>6. ASSUME HoldsOnce(q, c) PROVE HoldsOnce(Tail(q), c)
  <2> SUFFICES ASSUME NEW j \in 1 .. Len(Tail(q)), NEW k \in 1 .. Len(Tail(q)),
                      IsFor(Tail(q)[j], "exec", c), IsFor(Tail(q)[k], "exec", c)
               PROVE  j = k
    BY DEF HoldsOnce
  <2>1. j + 1 = k + 1
    BY <1>1, <1>2, <1>6 DEF HoldsOnce
  <2> QED
    BY <1>1, <2>1
<1>7. ASSUME HoldsOnce(q, c), IsFor(Head(q), "exec", c) PROVE ~Holds(Tail(q), "exec", c)
  BY <1>1, <1>2, <1>3, <1>7 DEF HoldsOnce, Holds
<1> QED
  BY <1>1, <1>4, <1>5, <1>6, <1>7

LEMMA EmptyChannel ==
  /\ <<>> \in Seq(Messages)
  /\ \A a, c : ~Holds(<<>>, a, c)
  /\ \A c : HoldsOnce(<<>>, c)
  BY EmptySeq DEF Holds, HoldsOnce

LEMMA InitIInv == Init => IInv
<1> SUFFICES ASSUME Init PROVE IInv
  OBVIOUS
<1>1. TypeOK
  BY BridgeAssumption, EmptySeq DEF Init, TypeOK, Results
<1>2. ASSUME NEW c \in Calls PROVE CallInv(c)
  BY EmptyChannel
     DEF Init, CallInv, LedgerAgrees, OneRequest, OnItsWay, HostAgrees, CancelIsLate, NoResult
<1> QED
  BY <1>1, <1>2 DEF IInv, Init

-----------------------------------------------------------------------------
(* The main process. *)

LEMMA ResultType ==
  ASSUME NEW c \in Calls, NEW status \in Statuses
  PROVE  /\ ResultOf(c, status) \in Results /\ ResultOf(c, status) # NoResult
         /\ ResultOf(c, status).remoteTermination = "confirmed" =>
              c \in Changes /\ status \in {"success", "error"}
  BY DEF ResultOf, Results, Statuses, NoResult

\* Settling a call that was executed keeps what is kept for each call, given that
\* a confirmed end is only reported of a call that is not on its way.
LEMMA SettleStep ==
  ASSUME TypeOK, NEW c \in Calls, NEW status \in Statuses, Settle(c, status)
  PROVE  /\ ledger' \in [Calls -> {"none", "started", "done"}]
         /\ result' \in [Calls -> Results]
         /\ pending' \subseteq Calls /\ c \notin pending'
         /\ ledger'[c] = "done" /\ result'[c] = ResultOf(c, status) /\ result'[c] # NoResult
         /\ \A d \in Calls \ {c} : /\ ledger'[d] = ledger[d] /\ result'[d] = result[d]
                                   /\ d \in pending' <=> d \in pending
  BY ResultType DEF TypeOK, Settle

LEMMA ExecuteStep == ASSUME NEW c \in Calls PROVE IInv /\ Execute(c) => IInv'
<1> SUFFICES ASSUME IInv, Execute(c) PROVE IInv'
  OBVIOUS
<1> DEFINE m == [action |-> "exec", call |-> c, capability |-> <<c, executes[c] + 1>>]
<1>1. TypeOK /\ CallInv(c)
  BY DEF IInv
<1>2. /\ ledger[c] = "none" /\ executes[c] = 0 /\ executes[c] + 1 \in 1 .. MaxExecutes
      /\ ~OnItsWay(c) /\ starts[c] = 0 /\ c \notin pending
  BY <1>1, BridgeAssumption DEF Execute, MayExecute, TypeOK, CallInv, LedgerAgrees, OneRequest, HostAgrees
<1>3. m \in Messages
  BY <1>2 DEF Messages, Capabilities
<1>4. /\ executes' \in [Calls -> 0 .. MaxExecutes] /\ executes'[c] = 1
      /\ \A d \in Calls \ {c} : executes'[d] = executes[d]
  BY <1>1, <1>2 DEF Execute, TypeOK
<1>5. UNCHANGED <<aborted, toSession, replies, processVars, sessionVars>>
  BY DEF Execute
<1>6. CASE /\ ledger' = [ledger EXCEPT ![c] = "started"]
           /\ pending' = pending \cup {c}
           /\ toServer' = Append(toServer, m)
           /\ UNCHANGED result
  <2>1. /\ toServer' \in Seq(Messages)
        /\ \A d \in Calls : /\ Holds(toServer', "exec", d) <=> Holds(toServer, "exec", d) \/ d = c
                            /\ Holds(toServer', "cancel", d) <=> Holds(toServer, "cancel", d)
                            /\ HoldsOnce(toServer, d) => HoldsOnce(toServer', d)
    <3>1. toServer \in Seq(Messages) /\ ~Holds(toServer, "exec", c)
      BY <1>1, <1>2 DEF TypeOK, OnItsWay
    <3>2. \A d : (IsFor(m, "exec", d) <=> d = c) /\ ~IsFor(m, "cancel", d)
      BY DEF IsFor
    <3> QED
      BY <1>3, <1>6, <3>1, <3>2, AfterAppend
  <2>2. TypeOK'
    BY <1>1, <1>4, <1>5, <1>6, <2>1 DEF TypeOK, processVars, sessionVars
  <2>3. ASSUME NEW d \in Calls PROVE CallInv(d)'
    <3>1. CallInv(d) /\ result[d] \in Results
      BY <1>1 DEF IInv, TypeOK
    <3>2. CASE d = c
      <4>1. ledger'[c] = "started" /\ result'[c] = NoResult /\ c \in pending'
        BY <1>1, <1>2, <1>6 DEF CallInv, LedgerAgrees, TypeOK
      <4>2. LedgerAgrees(c)'
        BY <1>4, <4>1 DEF LedgerAgrees
      <4>3. OneRequest(c)' /\ HostAgrees(c)'
        BY <1>1, <1>2, <1>5, <2>1, <4>1
           DEF CallInv, OneRequest, OnItsWay, HostAgrees, sessionVars, TypeOK, NoResult
      <4>4. CancelIsLate(c)'
        BY <1>1, <1>2, <1>5, <2>1 DEF CallInv, CancelIsLate, sessionVars
      <4> QED
        BY <3>2, <4>2, <4>3, <4>4 DEF CallInv
    <3>3. CASE d # c
      BY <1>1, <1>4, <1>5, <1>6, <2>1, <3>1, <3>3
         DEF CallInv, LedgerAgrees, OneRequest, OnItsWay, HostAgrees, CancelIsLate, TypeOK,
             processVars, sessionVars
    <3> QED
      BY <3>2, <3>3
  <2>4. ASSUME NEW r \in replies' PROVE ReplyIsLast(r)'
    <3>1. ReplyIsLast(r) /\ r.call \in Calls
      BY <1>1, <1>5 DEF IInv, TypeOK, Responses
    <3>2. r.call # c
      BY <1>2, <3>1 DEF ReplyIsLast
    <3> QED
      BY <1>1, <1>5, <1>6, <2>1, <3>1, <3>2
         DEF ReplyIsLast, OnItsWay, sessionVars, TypeOK
  <2> QED
    BY <2>2, <2>3, <2>4 DEF IInv
<1>7. CASE \E status \in Statuses : Settle(c, status) /\ UNCHANGED toServer
  <2>1. PICK status \in Statuses : Settle(c, status) /\ toServer' = toServer
    BY <1>7
  <2>2. TypeOK'
    BY <1>1, <1>4, <1>5, <2>1, SettleStep DEF TypeOK, processVars, sessionVars
  <2>3. ASSUME NEW d \in Calls PROVE CallInv(d)'
    <3>1. CallInv(d)
      BY DEF IInv
    <3>2. CASE d = c
      BY <1>1, <1>2, <1>4, <1>5, <2>1, <3>1, <3>2, SettleStep
         DEF CallInv, LedgerAgrees, OneRequest, OnItsWay, HostAgrees, CancelIsLate,
             processVars, sessionVars
    <3>3. CASE d # c
      BY <1>1, <1>4, <1>5, <2>1, <3>1, <3>3, SettleStep
         DEF CallInv, LedgerAgrees, OneRequest, OnItsWay, HostAgrees, CancelIsLate,
             processVars, sessionVars
    <3> QED
      BY <3>2, <3>3
  <2>4. ASSUME NEW r \in replies' PROVE ReplyIsLast(r)'
    <3>1. ReplyIsLast(r) /\ r.call \in Calls
      BY <1>1, <1>5 DEF IInv, TypeOK, Responses
    <3>2. r.call # c
      BY <1>2, <3>1 DEF ReplyIsLast
    <3> QED
      BY <1>1, <1>5, <2>1, <3>1, <3>2, SettleStep
         DEF ReplyIsLast, OnItsWay, sessionVars
  <2> QED
    BY <2>2, <2>3, <2>4 DEF IInv
<1> QED
  BY <1>6, <1>7 DEF Execute, Statuses

LEMMA AbortStep ==
  ASSUME NEW c \in Calls, NEW status \in {"timeout", "cancelled"}
  PROVE  IInv /\ Abort(c, status) => IInv'
<1> SUFFICES ASSUME IInv, Abort(c, status) PROVE IInv'
  OBVIOUS
<1> DEFINE m == [action |-> "cancel", call |-> c, capability |-> <<c, executes[c]>>]
<1>1. TypeOK /\ CallInv(c)
  BY DEF IInv
<1>2. UNCHANGED <<executes, toSession, replies, processVars, sessionVars>> /\ aborted' \subseteq Calls
  BY <1>1 DEF Abort, TypeOK
<1>3. CASE c \notin pending
  <2>1. UNCHANGED <<ledger, result, pending, toServer>>
    BY <1>3 DEF Abort
  <2> QED
    BY <1>2, <2>1
       DEF IInv, TypeOK, CallInv, LedgerAgrees, OneRequest, OnItsWay, HostAgrees, CancelIsLate,
           ReplyIsLast, processVars, sessionVars
<1>4. CASE c \in pending
  <2>1. status \in Statuses /\ Settle(c, status)
    BY <1>4 DEF Abort, Statuses
  <2>2. /\ ledger[c] = "started" /\ executes[c] \in 1 .. MaxExecutes
    BY <1>1, <1>4, BridgeAssumption DEF CallInv, LedgerAgrees, TypeOK
  <2>3. m \in Messages
    BY <2>2 DEF Messages, Capabilities
  <2>4. toServer' = toServer \/ toServer' = Append(toServer, m)
    BY <1>4 DEF Abort
  <2>5. /\ toServer' \in Seq(Messages)
        /\ \A d \in Calls : /\ Holds(toServer', "exec", d) <=> Holds(toServer, "exec", d)
                            /\ Holds(toServer', "cancel", d) =>
                                 Holds(toServer, "cancel", d) \/ d = c
                            /\ HoldsOnce(toServer, d) => HoldsOnce(toServer', d)
    <3>1. \A d : (IsFor(m, "cancel", d) => d = c) /\ ~IsFor(m, "exec", d)
      BY DEF IsFor
    <3>2. toServer \in Seq(Messages)
      BY <1>1 DEF TypeOK
    <3> QED
      BY <2>3, <2>4, <3>1, <3>2, AfterAppend
  <2>6. TypeOK'
    BY <1>1, <1>2, <2>1, <2>5, SettleStep DEF TypeOK, processVars, sessionVars
  <2>7. result'[c].remoteTermination # "confirmed"
    BY <1>1, <2>1, SettleStep, ResultType
  <2>8. ASSUME NEW d \in Calls PROVE CallInv(d)'
    <3>1. CallInv(d)
      BY DEF IInv
    <3>2. CASE d = c
      <4>1. LedgerAgrees(c)' /\ HostAgrees(c)'
        BY <1>1, <1>2, <2>1, <2>2, SettleStep
           DEF CallInv, LedgerAgrees, HostAgrees, sessionVars
      <4>2. OneRequest(c)' /\ CancelIsLate(c)'
        BY <1>1, <1>2, <2>1, <2>5, <2>7, SettleStep
           DEF CallInv, OneRequest, OnItsWay, CancelIsLate, sessionVars
      <4> QED
        BY <3>2, <4>1, <4>2 DEF CallInv
    <3>3. CASE d # c
      BY <1>1, <1>2, <2>1, <2>5, <3>1, <3>3, SettleStep
         DEF CallInv, LedgerAgrees, OneRequest, OnItsWay, HostAgrees, CancelIsLate, sessionVars
    <3> QED
      BY <3>2, <3>3
  <2>9. ASSUME NEW r \in replies' PROVE ReplyIsLast(r)'
    <3>1. ReplyIsLast(r) /\ r.call \in Calls
      BY <1>1, <1>2 DEF IInv, TypeOK, Responses
    <3>2. ledger'[r.call] = ledger[r.call] \/ ledger'[r.call] = "done"
      BY <1>1, <2>1, <3>1, SettleStep
    <3> QED
      BY <1>2, <2>5, <3>1, <3>2 DEF ReplyIsLast, OnItsWay, sessionVars
  <2> QED
    BY <2>6, <2>8, <2>9 DEF IInv
<1> QED
  BY <1>3, <1>4

\* A confirmed end is only reported of a call that is not on its way.
LEMMA ReceiveStep == ASSUME NEW r \in replies PROVE IInv /\ ReceiveReply(r) => IInv'
<1> SUFFICES ASSUME IInv, ReceiveReply(r) PROVE IInv'
  OBVIOUS
<1> DEFINE c == r.call
<1>1. TypeOK /\ c \in Calls /\ r.outcome \in Outcomes /\ ReplyIsLast(r) /\ CallInv(c)
  BY DEF IInv, TypeOK, Responses
<1>2. /\ UNCHANGED <<executes, aborted, toServer, toSession, processVars, sessionVars>>
      /\ replies' \subseteq replies
  BY DEF ReceiveReply
<1>3. CASE c \notin pending
  <2>1. UNCHANGED <<ledger, result, pending>>
    BY <1>3 DEF ReceiveReply
  <2> QED
    BY <1>2, <2>1
       DEF IInv, TypeOK, CallInv, LedgerAgrees, OneRequest, OnItsWay, HostAgrees, CancelIsLate,
           ReplyIsLast, processVars, sessionVars
<1>4. CASE c \in pending
  <2> DEFINE status == StatusOf(c, r.outcome)
  <2>1. status \in Statuses /\ Settle(c, status)
    BY <1>4 DEF ReceiveReply, Statuses, StatusOf
  <2> HIDE DEF status
  <2>2. TypeOK'
    BY <1>1, <1>2, <2>1, SettleStep DEF TypeOK, processVars, sessionVars
  <2>3. ASSUME NEW d \in Calls PROVE CallInv(d)'
    <3>1. CallInv(d)
      BY DEF IInv
    <3>2. CASE d = c
      BY <1>1, <1>2, <2>1, <3>2, SettleStep
         DEF CallInv, LedgerAgrees, OneRequest, OnItsWay, HostAgrees, CancelIsLate,
             ReplyIsLast, sessionVars
    <3>3. CASE d # c
      BY <1>1, <1>2, <2>1, <3>1, <3>3, SettleStep
         DEF CallInv, LedgerAgrees, OneRequest, OnItsWay, HostAgrees, CancelIsLate, sessionVars
    <3> QED
      BY <3>2, <3>3
  <2>4. ASSUME NEW s \in replies' PROVE ReplyIsLast(s)'
    <3>1. ReplyIsLast(s) /\ s.call \in Calls
      BY <1>1, <1>2 DEF IInv, TypeOK, Responses
    <3>2. ledger'[s.call] = ledger[s.call] \/ ledger'[s.call] = "done"
      BY <1>1, <2>1, <3>1, SettleStep
    <3> QED
      BY <1>2, <3>1, <3>2 DEF ReplyIsLast, OnItsWay, sessionVars
  <2> QED
    BY <2>2, <2>3, <2>4 DEF IInv
<1> QED
  BY <1>3, <1>4

-----------------------------------------------------------------------------
(* The session server. *)

LEMMA ReplyType ==
  ASSUME TypeOK, NEW c \in Calls, NEW outcome \in Outcomes, Reply(c, outcome)
  PROVE  /\ replies' \subseteq Responses
         /\ \A r \in replies' : r \in replies \/ (r.call = c /\ r.outcome = outcome)
  BY DEF TypeOK, Reply, Responses

LEMMA DispatchStep == IInv /\ Dispatch => IInv'
<1> SUFFICES ASSUME IInv, Dispatch PROVE IInv'
  OBVIOUS
<1> DEFINE m == Head(toServer)
           c == m.call
<1>1. TypeOK /\ toServer \in Seq(Messages) /\ toServer # <<>> /\ toServer' = Tail(toServer)
  BY DEF IInv, Dispatch, TypeOK
<1>2. m \in Messages /\ c \in Calls /\ m.capability \in Capabilities /\ m.action \in {"exec", "cancel"}
  BY <1>1, AfterTail DEF Messages
<1>3. /\ toServer' \in Seq(Messages)
      /\ \A d \in Calls : /\ \A a : Holds(toServer', a, d) => Holds(toServer, a, d)
                          /\ \A a : IsFor(m, a, d) => Holds(toServer, a, d)
                          /\ HoldsOnce(toServer', d)
                          /\ IsFor(m, "exec", d) => ~Holds(toServer', "exec", d)
  BY <1>1, AfterTail DEF IInv, CallInv, OneRequest
<1>4. UNCHANGED <<mainVars, server, session, reconnects, usedSession, sessionVars>>
  BY DEF Dispatch
<1>5. usedServer' \subseteq Capabilities
  BY <1>1, <1>2 DEF Dispatch, TypeOK
<1> HIDE DEF m
<1>6. CASE toSession' = toSession \/ toSession' = Append(toSession, m)
  <2>1. /\ toSession' \in Seq(Messages)
        /\ \A d \in Calls :
             /\ \A a : Holds(toSession', a, d) => Holds(toSession, a, d) \/ IsFor(m, a, d)
             /\ HoldsOnce(toSession, d) /\ ~(Holds(toSession, "exec", d) /\ IsFor(m, "exec", d))
                  => HoldsOnce(toSession', d)
    <3>1. toSession \in Seq(Messages)
      BY <1>1 DEF TypeOK
    <3>2. CASE toSession' = toSession
      BY <3>1, <3>2
    <3>3. CASE toSession' = Append(toSession, m)
      BY <1>2, <3>1, <3>3, AfterAppend
    <3> QED
      BY <1>6, <3>2, <3>3
  <2>2. ASSUME NEW d \in Calls PROVE CallInv(d)'
    <3>1. CallInv(d)
      BY DEF IInv
    <3>2. LedgerAgrees(d)' /\ HostAgrees(d)' /\ CancelIsLate(d)'
      BY <1>3, <1>4, <2>1, <3>1
         DEF CallInv, LedgerAgrees, HostAgrees, CancelIsLate, mainVars, sessionVars
    <3>3. OnItsWay(d)' => OnItsWay(d)
      BY <1>3, <1>4, <2>1 DEF OnItsWay, sessionVars
    <3>4. OneRequest(d)'
      <4>1. ~Holds(toServer', "exec", d) \/ ~Holds(toSession', "exec", d)
        BY <1>3, <2>1, <3>1 DEF CallInv, OneRequest
      <4>2. HoldsOnce(toSession', d)
        BY <1>3, <2>1, <3>1 DEF CallInv, OneRequest
      <4> QED
        BY <1>3, <1>4, <2>1, <3>1, <3>3, <4>1, <4>2
           DEF CallInv, OneRequest, mainVars, sessionVars
    <3> QED
      BY <3>2, <3>4 DEF CallInv
  <2>3. CASE UNCHANGED replies
    <3>1. ASSUME NEW r \in replies' PROVE ReplyIsLast(r)'
      <4>1. ReplyIsLast(r) /\ r.call \in Calls
        BY <1>1, <2>3, <3>1 DEF IInv, TypeOK, Responses
      <4>2. OnItsWay(r.call)' => OnItsWay(r.call)
        BY <1>3, <1>4, <2>1, <4>1 DEF OnItsWay, sessionVars
      <4> QED
        BY <1>4, <4>1, <4>2 DEF ReplyIsLast, mainVars, sessionVars
    <3>2. TypeOK'
      BY <1>1, <1>3, <1>4, <1>5, <2>1, <2>3 DEF TypeOK, mainVars, sessionVars
    <3> QED
      BY <2>2, <3>1, <3>2 DEF IInv
  <2>4. CASE m.action = "exec" /\ Reply(c, "refused") /\ UNCHANGED toSession
    <3>0. "refused" \in Outcomes
      BY DEF Outcomes
    <3>1. ASSUME NEW r \in replies' PROVE ReplyIsLast(r)'
      <4>1. CASE r \in replies
        <5>1. ReplyIsLast(r) /\ r.call \in Calls
          BY <1>1, <4>1 DEF IInv, TypeOK, Responses
        <5>2. OnItsWay(r.call)' => OnItsWay(r.call)
          BY <1>3, <1>4, <2>4, <5>1 DEF OnItsWay, sessionVars
        <5> QED
          BY <1>4, <5>1, <5>2 DEF ReplyIsLast, mainVars, sessionVars
      <4>2. CASE r.call = c /\ r.outcome = "refused"
        <5>1. IsFor(m, "exec", c) /\ Holds(toServer, "exec", c) /\ CallInv(c)
          BY <1>2, <1>3, <2>4 DEF IsFor, IInv
        <5>2. /\ ~Holds(toServer', "exec", c) /\ ~Holds(toSession, "exec", c)
              /\ work[c] = "none" /\ ledger[c] # "none" /\ host[c] = "idle"
          BY <1>2, <1>3, <5>1 DEF CallInv, OneRequest, OnItsWay, HostAgrees
        <5> QED
          BY <1>4, <2>4, <4>2, <5>2 DEF ReplyIsLast, OnItsWay, mainVars, sessionVars
      <4> QED
        BY <1>1, <1>2, <2>4, <3>0, <4>1, <4>2, ReplyType
    <3>2. TypeOK'
      BY <1>1, <1>2, <1>3, <1>4, <1>5, <2>1, <2>4, <3>0, ReplyType
         DEF TypeOK, mainVars, sessionVars
    <3> QED
      BY <2>2, <3>1, <3>2 DEF IInv
  <2>5. CASE m.action = "cancel"
    BY <2>3, <2>5 DEF Dispatch, m
  <2>6. CASE m.action = "exec" /\ session /\ Accepts(usedServer, m.capability)
    BY <2>3, <2>6 DEF Dispatch, m
  <2>7. CASE m.action = "exec" /\ ~(session /\ Accepts(usedServer, m.capability))
    BY <2>4, <2>7 DEF Dispatch, m
  <2> QED
    BY <1>2, <2>5, <2>6, <2>7
<1> QED
  BY <1>2, <1>6 DEF Dispatch, m

-----------------------------------------------------------------------------
(* The session process. *)

LEMMA StopType ==
  ASSUME TypeOK, NEW c \in Calls
  PROVE  /\ Stop(c) \in [Calls -> {"idle", "running", "ended"}]
         /\ Stop(c)[c] # "running" /\ (Stop(c)[c] = "idle" <=> host[c] = "idle")
         /\ \A d \in Calls \ {c} : Stop(c)[d] = host[d]
  BY DEF TypeOK, Stop

\* A call the session process works on has its last word to come.
LEMMA WorkedOn ==
  ASSUME IInv, NEW c \in Calls, work[c] # "none"
  PROVE  /\ ~Holds(toServer, "exec", c) /\ ~Holds(toSession, "exec", c)
         /\ \A r \in replies : r.call # c
         /\ ledger[c] # "none"
<1>1. CallInv(c) /\ work[c] \in {"describing", "running"} /\ replies \subseteq Responses
  BY DEF IInv, TypeOK
<1> QED
  BY <1>1 DEF IInv, CallInv, OneRequest, OnItsWay, HostAgrees, ReplyIsLast

LEMMA SessionReceivesStep == IInv /\ SessionReceives => IInv'
<1> SUFFICES ASSUME IInv, SessionReceives PROVE IInv'
  OBVIOUS
<1> DEFINE m == Head(toSession)
           c == m.call
<1>1. TypeOK /\ toSession \in Seq(Messages) /\ toSession # <<>> /\ toSession' = Tail(toSession)
  BY DEF IInv, SessionReceives, TypeOK
<1>2. m \in Messages /\ c \in Calls /\ m.action \in {"exec", "cancel"}
  BY <1>1, AfterTail DEF Messages
<1>3. /\ toSession' \in Seq(Messages)
      /\ \A d \in Calls : /\ \A a : Holds(toSession', a, d) => Holds(toSession, a, d)
                          /\ \A a : IsFor(m, a, d) => Holds(toSession, a, d)
                          /\ HoldsOnce(toSession', d)
                          /\ IsFor(m, "exec", d) => ~Holds(toSession', "exec", d)
  BY <1>1, AfterTail DEF IInv, CallInv, OneRequest
<1>4. UNCHANGED <<mainVars, toServer, server, session, reconnects, usedServer>> /\ CallInv(c)
  BY <1>2 DEF SessionReceives, IInv
<1> HIDE DEF m
<1>5. CASE m.action = "cancel"
  <2>1. HandleCancel(c) /\ UNCHANGED <<usedSession, starts>> /\ ledger[c] = "done"
    <3>1. IsFor(m, "cancel", c)
      BY <1>5 DEF IsFor
    <3> QED
      BY <1>2, <1>3, <1>4, <1>5, <3>1 DEF SessionReceives, CallInv, CancelIsLate, m
  <2>2. CASE UNCHANGED <<work, interrupted, host, replies>>
    <3>1. TypeOK'
      BY <1>1, <1>3, <1>4, <2>1, <2>2 DEF TypeOK, mainVars
    <3>2. ASSUME NEW d \in Calls PROVE CallInv(d)'
      BY <1>3, <1>4, <2>1, <2>2
         DEF IInv, CallInv, LedgerAgrees, OneRequest, OnItsWay, HostAgrees, CancelIsLate, mainVars
    <3>3. ASSUME NEW r \in replies' PROVE ReplyIsLast(r)'
      <4>1. ReplyIsLast(r) /\ r.call \in Calls
        BY <1>1, <2>2 DEF IInv, TypeOK, Responses
      <4> QED
        BY <1>3, <1>4, <2>2, <4>1 DEF ReplyIsLast, OnItsWay, mainVars
    <3> QED
      BY <3>1, <3>2, <3>3 DEF IInv
  <2>3. CASE /\ work[c] = "running" /\ work' = [work EXCEPT ![c] = "none"]
             /\ host' = Stop(c) /\ Reply(c, "exit1") /\ UNCHANGED interrupted
    <3>0. "exit1" \in Outcomes
      BY DEF Outcomes
    <3>1. TypeOK'
      BY <1>1, <1>2, <1>3, <1>4, <2>1, <2>3, <3>0, StopType, ReplyType DEF TypeOK, mainVars
    <3>2. ASSUME NEW d \in Calls PROVE CallInv(d)'
      <4>1. CallInv(d) /\ (host'[d] = "idle" <=> host[d] = "idle")
            /\ (work'[d] = work[d] \/ work'[d] = "none")
        BY <1>1, <1>2, <2>3, StopType DEF IInv, TypeOK
      <4> QED
        BY <1>3, <1>4, <2>1, <2>3, <4>1
           DEF CallInv, LedgerAgrees, OneRequest, OnItsWay, HostAgrees, CancelIsLate, mainVars
    <3>3. ASSUME NEW r \in replies' PROVE ReplyIsLast(r)'
      <4>1. CASE r \in replies
        <5>1. ReplyIsLast(r) /\ r.call \in Calls /\ r.call # c
          BY <1>1, <1>2, <2>3, <4>1, WorkedOn DEF IInv, TypeOK, Responses
        <5> QED
          BY <1>1, <1>2, <1>3, <1>4, <2>3, <5>1, StopType
             DEF ReplyIsLast, OnItsWay, mainVars, TypeOK
      <4>2. CASE r.call = c /\ r.outcome = "exit1"
        BY <1>1, <1>2, <1>3, <1>4, <2>1, <2>3, <4>2, WorkedOn, StopType
           DEF ReplyIsLast, OnItsWay, mainVars, TypeOK
      <4> QED
        BY <1>1, <1>2, <2>3, <3>0, <4>1, <4>2, ReplyType
    <3> QED
      BY <3>1, <3>2, <3>3 DEF IInv
  <2>4. CASE interrupted' = interrupted \cup {c} /\ UNCHANGED <<work, host, replies>>
    <3>1. TypeOK'
      BY <1>1, <1>2, <1>3, <1>4, <2>1, <2>4 DEF TypeOK, mainVars
    <3>2. ASSUME NEW d \in Calls PROVE CallInv(d)'
      BY <1>3, <1>4, <2>1, <2>4
         DEF IInv, CallInv, LedgerAgrees, OneRequest, OnItsWay, HostAgrees, CancelIsLate, mainVars
    <3>3. ASSUME NEW r \in replies' PROVE ReplyIsLast(r)'
      <4>1. ReplyIsLast(r) /\ r.call \in Calls
        BY <1>1, <2>4 DEF IInv, TypeOK, Responses
      <4> QED
        BY <1>3, <1>4, <2>4, <4>1 DEF ReplyIsLast, OnItsWay, mainVars
    <3> QED
      BY <3>1, <3>2, <3>3 DEF IInv
  <2> QED
    BY <2>1, <2>2, <2>3, <2>4 DEF HandleCancel
<1>6. CASE m.action = "exec"
  <2>1. /\ work' = [work EXCEPT ![c] = "describing"]
        /\ UNCHANGED <<usedSession, interrupted, host, starts, replies>>
    BY <1>6 DEF SessionReceives, m
  <2>2. /\ Holds(toSession, "exec", c) /\ OnItsWay(c) /\ ~Holds(toSession', "exec", c)
        /\ ~Holds(toServer, "exec", c)
    <3>1. IsFor(m, "exec", c)
      BY <1>6 DEF IsFor
    <3> QED
      BY <1>2, <1>3, <1>4, <3>1 DEF OnItsWay, CallInv, OneRequest
  <2>3. TypeOK'
    BY <1>1, <1>2, <1>3, <1>4, <2>1 DEF TypeOK, mainVars
  <2>4. ASSUME NEW d \in Calls PROVE CallInv(d)'
    <3>1. CallInv(d) /\ work'[c] = "describing" /\ (d # c => work'[d] = work[d])
      BY <1>1, <1>2, <2>1 DEF IInv, TypeOK
    <3>2. CASE d = c
      BY <1>3, <1>4, <2>1, <2>2, <3>1, <3>2
         DEF CallInv, LedgerAgrees, OneRequest, OnItsWay, HostAgrees, CancelIsLate, mainVars
    <3>3. CASE d # c
      BY <1>3, <1>4, <2>1, <3>1, <3>3
         DEF CallInv, LedgerAgrees, OneRequest, OnItsWay, HostAgrees, CancelIsLate, mainVars
    <3> QED
      BY <3>2, <3>3
  <2>5. ASSUME NEW r \in replies' PROVE ReplyIsLast(r)'
    <3>1. ReplyIsLast(r) /\ r.call \in Calls
      BY <1>1, <2>1 DEF IInv, TypeOK, Responses
    <3>2. r.call # c
      BY <2>2, <3>1 DEF ReplyIsLast
    <3>3. work'[r.call] = work[r.call]
      BY <1>1, <2>1, <3>1, <3>2 DEF TypeOK
    <3> QED
      BY <1>3, <1>4, <2>1, <3>1, <3>3 DEF ReplyIsLast, OnItsWay, mainVars
  <2> QED
    BY <2>3, <2>4, <2>5 DEF IInv
<1> QED
  BY <1>2, <1>5, <1>6

LEMMA DescribedStep == ASSUME NEW c \in Calls PROVE IInv /\ Described(c) => IInv'
<1> SUFFICES ASSUME IInv, Described(c) PROVE IInv'
  OBVIOUS
<1>1. TypeOK /\ CallInv(c) /\ work[c] = "describing" /\ OnItsWay(c)
  BY DEF IInv, Described, OnItsWay
<1>2. UNCHANGED <<mainVars, toServer, toSession, server, session, reconnects, usedServer, interrupted>>
  BY DEF Described
<1>3. /\ ledger[c] # "none" /\ executes[c] \in 1 .. MaxExecutes
      /\ starts[c] = 0 /\ host[c] = "idle"
  BY <1>1, BridgeAssumption DEF CallInv, OneRequest, LedgerAgrees, HostAgrees, TypeOK
<1>4. usedSession' \subseteq Capabilities
  BY <1>1, <1>3 DEF Described, TypeOK, Capabilities
<1>5. CASE /\ work' = [work EXCEPT ![c] = "running"]
           /\ host' = [host EXCEPT ![c] = "running"]
           /\ starts' = [starts EXCEPT ![c] = @ + 1]
           /\ UNCHANGED replies
  <2>1. /\ work'[c] = "running" /\ host'[c] = "running" /\ starts'[c] = 1
        /\ \A d \in Calls \ {c} :
             work'[d] = work[d] /\ host'[d] = host[d] /\ starts'[d] = starts[d]
    BY <1>1, <1>3, <1>5 DEF TypeOK
  <2>2. TypeOK'
    BY <1>1, <1>2, <1>4, <1>5 DEF TypeOK, mainVars
  <2>3. ASSUME NEW d \in Calls PROVE CallInv(d)'
    <3>1. CallInv(d)
      BY DEF IInv
    <3>2. CASE d = c
      BY <1>1, <1>2, <1>3, <2>1, <3>2, WorkedOn
         DEF CallInv, LedgerAgrees, OneRequest, OnItsWay, HostAgrees, CancelIsLate, mainVars
    <3>3. CASE d # c
      BY <1>2, <2>1, <3>1, <3>3
         DEF CallInv, LedgerAgrees, OneRequest, OnItsWay, HostAgrees, CancelIsLate, mainVars
    <3> QED
      BY <3>2, <3>3
  <2>4. ASSUME NEW r \in replies' PROVE ReplyIsLast(r)'
    <3>1. ReplyIsLast(r) /\ r.call \in Calls /\ r.call # c
      BY <1>1, <1>5, WorkedOn DEF IInv, TypeOK, Responses
    <3> QED
      BY <1>2, <2>1, <3>1 DEF ReplyIsLast, OnItsWay, mainVars
  <2> QED
    BY <2>2, <2>3, <2>4 DEF IInv
<1>6. ASSUME NEW outcome \in {"refused", "channel"}, Reply(c, outcome),
             work' = [work EXCEPT ![c] = "none"], UNCHANGED <<host, starts>>
      PROVE  IInv'
  <2>0. outcome \in Outcomes
    BY DEF Outcomes
  <2>1. work'[c] = "none" /\ \A d \in Calls \ {c} : work'[d] = work[d]
    BY <1>1, <1>6 DEF TypeOK
  <2>2. TypeOK'
    BY <1>1, <1>2, <1>4, <1>6, <2>0, ReplyType DEF TypeOK, mainVars
  <2>3. ASSUME NEW d \in Calls PROVE CallInv(d)'
    <3>1. CallInv(d)
      BY DEF IInv
    <3>2. CASE d = c
      BY <1>1, <1>2, <1>6, <2>1, <3>2, WorkedOn
         DEF CallInv, LedgerAgrees, OneRequest, OnItsWay, HostAgrees, CancelIsLate, mainVars
    <3>3. CASE d # c
      BY <1>2, <1>6, <2>1, <3>1, <3>3
         DEF CallInv, LedgerAgrees, OneRequest, OnItsWay, HostAgrees, CancelIsLate, mainVars
    <3> QED
      BY <3>2, <3>3
  <2>4. ASSUME NEW r \in replies' PROVE ReplyIsLast(r)'
    <3>1. CASE r \in replies
      <4>1. ReplyIsLast(r) /\ r.call \in Calls /\ r.call # c
        BY <1>1, <3>1, WorkedOn DEF IInv, TypeOK, Responses
      <4> QED
        BY <1>2, <1>6, <2>1, <4>1 DEF ReplyIsLast, OnItsWay, mainVars
    <3>2. CASE r.call = c /\ r.outcome = outcome
      BY <1>1, <1>2, <1>3, <1>6, <2>1, <3>2, WorkedOn DEF ReplyIsLast, OnItsWay, mainVars
    <3> QED
      BY <1>1, <1>6, <2>0, <3>1, <3>2, ReplyType
  <2> QED
    BY <2>2, <2>3, <2>4 DEF IInv
<1> QED
  BY <1>5, <1>6 DEF Described

LEMMA HostEndsStep == ASSUME NEW c \in Calls PROVE IInv /\ HostEnds(c) => IInv'
<1> SUFFICES ASSUME IInv, HostEnds(c) PROVE IInv'
  OBVIOUS
<1>1. TypeOK /\ host' = Stop(c) /\ UNCHANGED <<mainVars, wireVars, processVars, work, interrupted, starts>>
  BY DEF IInv, HostEnds
<1>2. \A d \in Calls : /\ host'[d] = "idle" <=> host[d] = "idle"
                       /\ host'[d] = "running" => host[d] = "running"
  BY <1>1, StopType
<1>3. TypeOK'
  BY <1>1, StopType DEF TypeOK, mainVars, wireVars, processVars
<1>4. ASSUME NEW d \in Calls PROVE CallInv(d)'
  BY <1>1, <1>2 DEF IInv, CallInv, LedgerAgrees, OneRequest, OnItsWay, HostAgrees, CancelIsLate,
                    mainVars, wireVars
<1>5. ASSUME NEW r \in replies' PROVE ReplyIsLast(r)'
  <2>1. ReplyIsLast(r) /\ r.call \in Calls
    BY <1>1 DEF IInv, TypeOK, Responses, wireVars
  <2> QED
    BY <1>1, <1>2, <2>1 DEF ReplyIsLast, OnItsWay, mainVars, wireVars
<1> QED
  BY <1>3, <1>4, <1>5 DEF IInv

\* The promise of the session process settles: with what the host did, or without.
LEMMA FinishStep ==
  ASSUME NEW c \in Calls, NEW outcome \in Outcomes \ {"refused"}, UNCHANGED host,
         outcome \in {"exit0", "exit1"} => host[c] = "ended",
         outcome = "noexit" => c \in interrupted \/ c \in Droppable
  PROVE  IInv /\ Finish(c, outcome) => IInv'
<1> SUFFICES ASSUME IInv, Finish(c, outcome) PROVE IInv'
  OBVIOUS
<1>1. TypeOK /\ CallInv(c) /\ work[c] = "running"
  BY DEF IInv, Finish
<1>2. /\ UNCHANGED <<mainVars, toServer, toSession, processVars, starts>>
      /\ Reply(c, outcome) /\ interrupted' \subseteq interrupted
  BY DEF Finish
<1>3. work'[c] = "none" /\ \A d \in Calls \ {c} : work'[d] = work[d]
  BY <1>1 DEF TypeOK, Finish
<1>4. TypeOK'
  BY <1>1, <1>2, ReplyType DEF TypeOK, mainVars, processVars, Finish
<1>5. ASSUME NEW d \in Calls PROVE CallInv(d)'
  <2>1. CallInv(d) /\ (work'[d] = work[d] \/ work'[d] = "none")
    BY <1>3 DEF IInv
  <2> QED
    BY <1>2, <2>1
       DEF CallInv, LedgerAgrees, OneRequest, OnItsWay, HostAgrees, CancelIsLate, mainVars
<1>6. ASSUME NEW r \in replies' PROVE ReplyIsLast(r)'
  <2>1. CASE r \in replies
    <3>1. ReplyIsLast(r) /\ r.call \in Calls /\ r.call # c
      BY <1>1, <2>1, WorkedOn DEF IInv, TypeOK, Responses
    <3> QED
      BY <1>2, <1>3, <3>1 DEF ReplyIsLast, OnItsWay, mainVars
  <2>2. CASE r.call = c /\ r.outcome = outcome
    <3>1. c \in interrupted => ledger[c] = "done"
      BY <1>1 DEF CallInv, CancelIsLate
    <3> QED
      BY <1>1, <1>2, <1>3, <2>2, <3>1, WorkedOn DEF ReplyIsLast, OnItsWay, mainVars
  <2> QED
    BY <1>1, <1>2, <2>1, <2>2, ReplyType
<1> QED
  BY <1>4, <1>5, <1>6 DEF IInv

LEMMA SessionFinishes ==
  ASSUME NEW c \in Calls
  PROVE  IInv /\ (ExitSettles(c) \/ SessionTimeout(c) \/ GraceEnds(c) \/ ChannelErrors(c)
                  \/ ChannelDrops(c)) => IInv'
<1>1. {"exit0", "exit1", "timedOut", "noexit", "channel"} \subseteq Outcomes \ {"refused"}
  BY DEF Outcomes
<1> QED
  BY <1>1, FinishStep DEF ExitSettles, SessionTimeout, GraceEnds, ChannelErrors, ChannelDrops

-----------------------------------------------------------------------------
(* Processes come and go. *)

\* The session process forgets its work; the server may go with it.
LEMMA ForgetStep ==
  ASSUME IInv, UNCHANGED <<mainVars, reconnects, host, starts>>,
         server' \in BOOLEAN, session' \in BOOLEAN,
         usedServer' \subseteq usedServer, usedSession' \subseteq usedSession,
         toServer' \in {toServer, <<>>}, toSession' = <<>>,
         work' = [c \in Calls |-> "none"], interrupted' = {}, replies' \subseteq replies
  PROVE  IInv'
<1>1. TypeOK
  BY DEF IInv
<1>2. /\ toServer' \in Seq(Messages)
      /\ \A a, c : (Holds(toServer', a, c) => Holds(toServer, a, c)) /\ ~Holds(toSession', a, c)
      /\ \A c : (HoldsOnce(toServer, c) => HoldsOnce(toServer', c)) /\ HoldsOnce(toSession', c)
  BY <1>1, EmptyChannel DEF TypeOK
<1>3. TypeOK'
  BY <1>1, <1>2, EmptyChannel DEF TypeOK, mainVars
<1>4. ASSUME NEW c \in Calls PROVE CallInv(c)'
  BY <1>2 DEF IInv, CallInv, LedgerAgrees, OneRequest, OnItsWay, HostAgrees, CancelIsLate, mainVars
<1>5. ASSUME NEW r \in replies' PROVE ReplyIsLast(r)'
  <2>1. ReplyIsLast(r) /\ r.call \in Calls
    BY <1>1 DEF IInv, TypeOK, Responses
  <2> QED
    BY <1>2, <2>1 DEF ReplyIsLast, OnItsWay, mainVars
<1> QED
  BY <1>3, <1>4, <1>5 DEF IInv

LEMMA ProcessStep == IInv /\ (SessionExits \/ ServerExits \/ Reconnect) => IInv'
<1> SUFFICES ASSUME IInv, SessionExits \/ ServerExits \/ Reconnect PROVE IInv'
  OBVIOUS
<1>1. CASE SessionExits
  BY <1>1, ForgetStep DEF SessionExits, IInv, TypeOK
<1>2. CASE ServerExits
  BY <1>2, ForgetStep DEF ServerExits, IInv, TypeOK
<1>3. CASE Reconnect
  BY <1>3, BridgeAssumption
     DEF Reconnect, IInv, TypeOK, CallInv, LedgerAgrees, OneRequest, OnItsWay, HostAgrees,
         CancelIsLate, ReplyIsLast, mainVars, wireVars, sessionVars
<1> QED
  BY <1>1, <1>2, <1>3

-----------------------------------------------------------------------------
(* The theorems. *)

LEMMA IInvStep == IInv /\ [Next]_vars => IInv'
<1> SUFFICES ASSUME IInv, [Next]_vars PROVE IInv'
  OBVIOUS
<1>1. ASSUME NEW c \in Calls, Execute(c) PROVE IInv'
  BY <1>1, ExecuteStep
<1>2. ASSUME NEW c \in Calls, TimerFires(c) \/ CancelCall(c) PROVE IInv'
  BY <1>2, AbortStep DEF TimerFires, CancelCall
<1>3. ASSUME NEW c \in Calls, Described(c) PROVE IInv'
  BY <1>3, DescribedStep
<1>4. ASSUME NEW c \in Calls, HostEnds(c) PROVE IInv'
  BY <1>4, HostEndsStep
<1>5. ASSUME NEW c \in Calls,
             ExitSettles(c) \/ SessionTimeout(c) \/ GraceEnds(c) \/ ChannelErrors(c) \/ ChannelDrops(c)
      PROVE  IInv'
  BY <1>5, SessionFinishes
<1>6. ASSUME NEW r \in replies, ReceiveReply(r) PROVE IInv'
  BY <1>6, ReceiveStep
<1>7. CASE Dispatch
  BY <1>7, DispatchStep
<1>8. CASE SessionReceives
  BY <1>8, SessionReceivesStep
<1>9. CASE SessionExits \/ Reconnect \/ ServerExits
  BY <1>9, ProcessStep
<1>10. CASE UNCHANGED vars
  BY <1>10 DEF vars, IInv, TypeOK, CallInv, LedgerAgrees, OneRequest, OnItsWay, HostAgrees,
              CancelIsLate, ReplyIsLast
<1> QED
  BY <1>1, <1>2, <1>3, <1>4, <1>5, <1>6, <1>7, <1>8, <1>9, <1>10 DEF Next

\* Ledger, messages, the calls of both processes and the host agree in every
\* reachable state, whatever is lost, late or restarted (execution-runtime.js,
\* session-execution-bridge.js, agent-dispatch.js).
THEOREM Invariance == Spec => []IInv
<1> QED
  BY InitIInv, IInvStep, PTL DEF Spec

\* A call starts on the host at most once, with every loss, retry and restart of the
\* processes: the ledger alone is enough for it, the capabilities that the server and
\* the session process have consumed are not needed.
THEOREM OneStart == Spec => []StartsAtMostOnce
<1>1. IInv => StartsAtMostOnce
  BY DEF IInv, CallInv, HostAgrees, StartsAtMostOnce
<1> QED
  BY <1>1, Invariance, PTL

-----------------------------------------------------------------------------
(* The execution layer implements RemoteCalls. *)

\* A step that settles a call makes one report of it.
LEMMA SettleReports ==
  ASSUME IInv, NEW c \in Calls, NEW status \in Statuses, Settle(c, status), UNCHANGED host,
         ledger[c] # "done", status \in {"success", "error"} /\ c \in Changes => host[c] # "running"
  PROVE  Remote!Next
<1>1. TypeOK /\ result[c] = NoResult
  BY DEF IInv, CallInv, LedgerAgrees
<1>2. result' = [result EXCEPT ![c] = ResultOf(c, status)] /\ DOMAIN result = Calls
  BY <1>1 DEF Settle, TypeOK
<1> DEFINE kind == IF ResultOf(c, status).remoteTermination = "confirmed" THEN "confirmed"
                                                                          ELSE "unconfirmed"
           report == [d \in Calls |-> ReportOf(d)]
<1>3. ReportOf(c) = "none" /\ ReportOf(c)' = kind
  <2>1. result'[c] = ResultOf(c, status) /\ result'[c] # NoResult
    BY <1>1, SettleStep
  <2>2. ReportOf(c) = "none"
    BY <1>1 DEF ReportOf, NoResult
  <2>3. ReportOf(c)' = (IF ResultOf(c, status).remoteTermination = "confirmed"
                          THEN "confirmed" ELSE "unconfirmed")
    BY <2>1 DEF ReportOf
  <2> QED
    BY <2>2, <2>3
<1>4. ASSUME NEW d \in Calls, d # c PROVE ReportOf(d)' = ReportOf(d)
  <2>1. result'[d] = result[d]
    BY <1>1, <1>4, SettleStep
  <2> QED
    BY <2>1 DEF ReportOf
<1>5. kind \in {"unconfirmed", "confirmed"} /\ (kind = "confirmed" => host[c] # "running")
  BY ResultType
<1>6. report' = [report EXCEPT ![c] = kind] /\ report[c] = "none"
  BY <1>3, <1>4
<1>7. Remote!Report(c, kind)
  BY <1>5, <1>6 DEF Remote!Report
<1> QED
  BY <1>5, <1>7 DEF Remote!Next

LEMMA RemoteStutters ==
  ASSUME UNCHANGED <<result, host>>
  PROVE  UNCHANGED <<host, [c \in Calls |-> ReportOf(c)]>>
  BY DEF ReportOf

LEMMA RemoteEnds ==
  ASSUME TypeOK, NEW c \in Calls, host' = Stop(c), UNCHANGED result
  PROVE  Remote!Next \/ UNCHANGED Remote!remote
<1> DEFINE report == [d \in Calls |-> ReportOf(d)]
<1>1. report' = report
  BY DEF ReportOf
<1>2. CASE host[c] = "running"
  <2>1. Remote!End(c)
    BY <1>1, <1>2 DEF TypeOK, Stop, Remote!End
  <2> QED
    BY <2>1 DEF Remote!Next
<1>3. CASE host[c] # "running"
  <2>1. host' = host
    BY <1>3 DEF TypeOK, Stop
  <2> QED
    BY <1>1, <2>1 DEF Remote!remote
<1> QED
  BY <1>2, <1>3

LEMMA RemoteStep ==
  ASSUME Droppable \cap Changes = {}
  PROVE  IInv /\ [Next]_vars => [Remote!Next]_(Remote!remote)
<1> SUFFICES ASSUME IInv, [Next]_vars PROVE Remote!Next \/ UNCHANGED Remote!remote
  OBVIOUS
<1>0. TypeOK
  BY DEF IInv
<1> DEFINE quiet == UNCHANGED <<result, host>>
<1>1. ASSUME quiet PROVE UNCHANGED Remote!remote
  BY <1>1, RemoteStutters DEF Remote!remote
<1>2. ASSUME NEW c \in Calls, Execute(c) PROVE Remote!Next \/ quiet
  <2>1. CallInv(c) /\ ledger[c] = "none" /\ UNCHANGED host
    BY <1>2 DEF IInv, Execute, MayExecute, sessionVars
  <2>2. host[c] = "idle" /\ ledger[c] # "done"
    BY <2>1 DEF CallInv, HostAgrees
  <2>3. UNCHANGED result \/ \E status \in Statuses : Settle(c, status)
    BY <1>2 DEF Execute, Statuses
  <2> QED
    BY <2>1, <2>2, <2>3, SettleReports
<1>3. ASSUME NEW c \in Calls, NEW status \in {"timeout", "cancelled"}, Abort(c, status)
      PROVE  Remote!Next \/ quiet
  <2>1. CallInv(c) /\ UNCHANGED host /\ status \in Statuses
    BY <1>3 DEF IInv, Abort, sessionVars, Statuses
  <2>2. UNCHANGED result \/ (c \in pending /\ Settle(c, status))
    BY <1>3 DEF Abort
  <2>3. c \in pending => ledger[c] # "done"
    BY <2>1 DEF CallInv, LedgerAgrees
  <2> QED
    BY <2>1, <2>2, <2>3, SettleReports
<1>4. ASSUME NEW r \in replies, ReceiveReply(r) PROVE Remote!Next \/ quiet
  <2>1. /\ r.call \in Calls /\ r.outcome \in Outcomes /\ ReplyIsLast(r) /\ CallInv(r.call)
        /\ UNCHANGED host
    BY <1>0, <1>4 DEF IInv, TypeOK, Responses, ReceiveReply, sessionVars
  <2>2. CASE r.call \notin pending
    BY <1>4, <2>1, <2>2 DEF ReceiveReply
  <2>3. CASE r.call \in pending
    <3> DEFINE status == StatusOf(r.call, r.outcome)
    <3>1. ledger[r.call] = "started"
      BY <2>1, <2>3 DEF CallInv, LedgerAgrees
    <3>2. status \in Statuses /\ Settle(r.call, status)
      BY <1>4, <2>3 DEF ReceiveReply, StatusOf, Statuses
    <3>3. ASSUME status \in {"success", "error"}, r.call \in Changes PROVE host[r.call] # "running"
      <4>1. r.outcome \in {"exit0", "exit1", "noexit", "refused"}
        BY <2>1, <3>3 DEF StatusOf, Outcomes
      <4>2. r.outcome # "noexit"
        BY <2>1, <3>1, <3>3 DEF ReplyIsLast
      <4> QED
        BY <2>1, <4>1, <4>2 DEF ReplyIsLast
    <3> QED
      BY <2>1, <3>1, <3>2, <3>3, SettleReports
  <2> QED
    BY <2>2, <2>3
<1>5. ASSUME NEW c \in Calls, Described(c) PROVE Remote!Next \/ quiet
  <2>1. /\ CallInv(c) /\ OnItsWay(c) /\ UNCHANGED result
    BY <1>5 DEF IInv, Described, OnItsWay, mainVars
  <2>2. host[c] = "idle" /\ result[c].remoteTermination # "confirmed"
    BY <2>1 DEF CallInv, OneRequest, HostAgrees
  <2>3. CASE host' = [host EXCEPT ![c] = "running"]
    <3>1. [d \in Calls |-> ReportOf(d)][c] # "confirmed"
      BY <2>2 DEF ReportOf
    <3>2. UNCHANGED [d \in Calls |-> ReportOf(d)]
      BY <2>1 DEF ReportOf
    <3>3. Remote!Start(c)
      BY <2>2, <2>3, <3>1, <3>2 DEF Remote!Start
    <3> QED
      BY <3>3 DEF Remote!Next
  <2> QED
    BY <1>5, <2>1, <2>3 DEF Described
<1>6. CASE \E c \in Calls : HostEnds(c)
  BY <1>0, <1>6, RemoteEnds DEF HostEnds, mainVars
<1>7. CASE SessionReceives
  <2>1. UNCHANGED result /\ (UNCHANGED host \/ HandleCancel(Head(toSession).call))
    BY <1>7 DEF SessionReceives, mainVars
  <2>2. Head(toSession).call \in Calls
    <3>1. toSession \in Seq(Messages) /\ toSession # <<>>
      BY <1>0, <1>7 DEF SessionReceives, TypeOK
    <3>2. Head(toSession) \in Messages
      BY <3>1, AfterTail
    <3> QED
      BY <3>2 DEF Messages
  <2> QED
    BY <1>0, <1>1, <2>1, <2>2, RemoteEnds DEF HandleCancel
<1>8. ASSUME NEW c \in Calls,
             ExitSettles(c) \/ SessionTimeout(c) \/ GraceEnds(c) \/ ChannelErrors(c) \/ ChannelDrops(c)
      PROVE  quiet
  BY <1>8 DEF ExitSettles, SessionTimeout, GraceEnds, ChannelErrors, ChannelDrops, Finish, mainVars
<1>9. CASE Dispatch \/ SessionExits \/ Reconnect \/ ServerExits \/ UNCHANGED vars
  BY <1>1, <1>9 DEF Dispatch, SessionExits, Reconnect, ServerExits, mainVars, sessionVars, vars
<1> QED
  BY <1>1, <1>2, <1>3, <1>4, <1>5, <1>6, <1>7, <1>8, <1>9 DEF Next, TimerFires, CancelCall

\* What a call's caller is told of the remote side is true whatever happens to the
\* processes, for any calls, provided that a change does not lose its channel without
\* an exit status (such a loss is reported as a confirmed error: session-common.js).
THEOREM RemoteCallsImplemented ==
  ASSUME Droppable \cap Changes = {}
  PROVE  Spec => ImplementsRemoteCalls
<1>1. Init => Remote!Init
  <2> SUFFICES ASSUME Init PROVE Remote!Init
    OBVIOUS
  <2>1. \A c \in Calls : ReportOf(c) = "none"
    BY DEF Init, ReportOf, NoResult
  <2>2. host = [c \in Calls |-> "idle"]
    BY DEF Init
  <2>3. [c \in Calls |-> ReportOf(c)] = [c \in Calls |-> "none"]
    BY <2>1
  <2> QED
    BY <2>2, <2>3 DEF Remote!Init
<1>2. IInv /\ [Next]_vars => [Remote!Next]_(Remote!remote)
  BY RemoteStep
<1> QED
  BY <1>1, <1>2, Invariance, PTL DEF Spec, ImplementsRemoteCalls, Remote!Spec
=============================================================================
