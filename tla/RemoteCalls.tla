----------------------------- MODULE RemoteCalls ------------------------------
(***************************************************************************)
(* What the execution layer promises about one call to a host, whatever    *)
(* happens to the processes in between: it starts at most once, it is      *)
(* reported once, and a report that says how the remote side ended is only *)
(* made of a call that is over and will not start any more.                *)
(***************************************************************************)
EXTENDS Naturals

CONSTANT Calls

VARIABLES host,     \* what the host does with each call
          report    \* what the caller was told: nothing, an open or a closed end


remote == <<host, report>>

Init == /\ host = [c \in Calls |-> "idle"]
        /\ report = [c \in Calls |-> "none"]

Start(c) ==
  /\ host[c] = "idle" /\ report[c] # "confirmed"
  /\ host' = [host EXCEPT ![c] = "running"]
  /\ UNCHANGED report

End(c) ==
  /\ host[c] = "running"
  /\ host' = [host EXCEPT ![c] = "ended"]
  /\ UNCHANGED report

Report(c, kind) ==
  /\ report[c] = "none"
  /\ kind = "confirmed" => host[c] # "running"
  /\ report' = [report EXCEPT ![c] = kind]
  /\ UNCHANGED host

Next == \E c \in Calls :
          \/ Start(c) \/ End(c)
          \/ \E kind \in {"unconfirmed", "confirmed"} : Report(c, kind)

Spec == Init /\ [][Next]_remote
=============================================================================
