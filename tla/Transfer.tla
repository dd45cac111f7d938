------------------------------ MODULE Transfer ------------------------------
(***************************************************************************)
(* One file transfer of the session process (server/transfer.js): it opens *)
(* an SFTP channel of its own, opens and measures the source, opens the    *)
(* target, and copies it with several reads and writes under way at once   *)
(* that share one buffer.  The renderer may pause, resume and destroy it   *)
(* at any moment.                                                          *)
(*                                                                         *)
(* A file is a function from positions to the position its byte came from, *)
(* so that a byte copied to the wrong place shows.  requests holds what    *)
(* the transfer has asked of the two file systems and not heard back: any  *)
(* of them may be answered next, or with an error; a read may be answered  *)
(* with less than was asked, and so may a write to the local file system,  *)
(* whose count the transfer does not look at.                              *)
(***************************************************************************)
EXTENDS Integers, Sequences

CONSTANTS Download,    \* the target is a local file, else one of the SFTP server
          MaxSize,     \* bound: bytes of the source
          ChunkSize,   \* bytes of one read
          Concurrency, \* reads under way at once
          MaxFaults,   \* bound: errors, short answers and shrinking of the source
          MaxPauses    \* bound: pauses

ASSUME TransferAssumption ==
  /\ Download \in BOOLEAN
  /\ MaxSize \in Nat /\ MaxFaults \in Nat /\ MaxPauses \in Nat
  /\ ChunkSize \in Nat \ {0}
  /\ Concurrency \in Nat \ {0}

Smaller(a, b) == IF a < b THEN a ELSE b

Positions == 0..(MaxSize - 1)
Junk == -1

VARIABLES
  phase,     \* what the transfer waits for before it copies
  channel,   \* its own SFTP channel: none, open or closed
  handles,   \* recorded file handles that are open: a subset of {"src", "dst"}
  requests,  \* reads, writes and pause timers under way
  buffer,    \* the shared buffer
  target,    \* the bytes written to the target
  cut,       \* history: positions a local write was asked for and left out
  pdst,      \* the first position no read was issued for
  total,     \* bytes whose writes have been answered
  hadError,  \* the local hadError of onDstOpen: the copy is over
  verdict,   \* messages sent to the renderer
  pausing,
  destroyed, \* onDestroy
  killed,    \* the kill that follows 200 ms later has run
  srcSize,   \* bytes the source has now
  size,      \* fsize: the bytes it had when it was measured
  faults, pauses

vars == <<phase, channel, handles, requests, buffer, target, cut, pdst, total, hadError,
          verdict, pausing, destroyed, killed, srcSize, size, faults, pauses>>

Phases == {"channel", "open", "stat", "dstopen", "chmod", "copy", "ending", "failing",
           "over", "broken"}
Request == [kind : {"read", "write", "timer"}, slot : Positions, pos : Positions,
            len : 0..ChunkSize, asked : 0..ChunkSize]

TypeOK ==
  /\ phase \in Phases
  /\ channel \in {"none", "open", "closed"}
  /\ handles \subseteq {"src", "dst"}
  /\ requests \subseteq Request
  /\ buffer \in [Positions -> Positions \cup {Junk}]
  /\ target \in [Positions -> Positions \cup {Junk}]
  /\ cut \subseteq Positions /\ (cut # {} => Download)
  /\ size \in 0..MaxSize
  /\ pdst \in 0..size
  /\ total \in 0..size
  /\ hadError \in BOOLEAN
  /\ verdict \in Seq({"end", "err"})
  /\ pausing \in BOOLEAN /\ destroyed \in BOOLEAN /\ killed \in BOOLEAN
  /\ srcSize \in 0..MaxSize
  /\ faults \in 0..MaxFaults /\ pauses \in 0..MaxPauses

Init ==
  /\ phase = "channel"
  /\ channel = "none"
  /\ handles = {}
  /\ requests = {}
  /\ buffer = [i \in Positions |-> Junk]
  /\ target = [i \in Positions |-> Junk]
  /\ cut = {}
  /\ pdst = 0
  /\ total = 0
  /\ hadError = FALSE
  /\ verdict = << >>
  /\ pausing = FALSE
  /\ destroyed = FALSE
  /\ killed = FALSE
  /\ srcSize \in 0..MaxSize
  /\ size = 0
  /\ faults = 0
  /\ pauses = 0

Fault == faults < MaxFaults /\ faults' = faults + 1

copyVars == <<requests, buffer, target, cut, pdst, total, hadError>>
userVars == <<pausing, destroyed, killed, pauses>>

(* onEnd, onError: the answer goes to the renderer while it listens. *)
Answer(word) == IF destroyed THEN verdict ELSE Append(verdict, word)

---------------------------------------------------------------------------
(* Before the copy.                                                        *)

(* A channel of its own; without one the transfer uses the session's.  A   *)
(* transfer killed meanwhile has lost its files if it gets no channel.     *)
ChannelAnswered ==
  /\ phase = "channel"
  /\ \/ /\ channel' = "open"
        /\ phase' = "open"
        /\ UNCHANGED faults
     \/ /\ Fault
        /\ phase' = IF killed THEN "broken" ELSE "open"
        /\ UNCHANGED channel
  /\ UNCHANGED <<handles, copyVars, verdict, userVars, srcSize, size>>

SourceOpened ==
  /\ phase = "open"
  /\ \/ /\ Fault
        /\ phase' = "over"
        /\ verdict' = Answer("err")
        /\ UNCHANGED handles
     \/ /\ phase' = IF destroyed THEN "over" ELSE "stat"
        /\ handles' = IF destroyed THEN handles ELSE handles \cup {"src"}
        /\ UNCHANGED <<verdict, faults>>
  /\ UNCHANGED <<channel, copyVars, userVars, srcSize, size>>

(* tryStat does not look at onDestroy: after the kill there is no file     *)
(* system left to call, and the exception ends the session process.        *)
Measured ==
  /\ phase = "stat"
  /\ \/ /\ killed
        /\ phase' = "broken"
        /\ UNCHANGED <<verdict, faults>>
     \/ /\ ~killed
        /\ Fault
        /\ phase' = "over"
        /\ verdict' = Answer("err")
     \/ /\ ~killed
        /\ phase' = "dstopen"
        /\ UNCHANGED <<verdict, faults>>
  /\ size' = IF phase' = "dstopen" THEN srcSize ELSE size
  /\ UNCHANGED <<channel, handles, copyVars, userVars, srcSize>>

(* An empty file is complete once its target is open. *)
TargetOpened ==
  /\ phase = "dstopen"
  /\ \/ /\ Fault
        /\ phase' = "over"
        /\ verdict' = Answer("err")
        /\ UNCHANGED <<handles, hadError>>
     \/ /\ destroyed
        /\ phase' = "over"
        /\ UNCHANGED <<handles, hadError, verdict, faults>>
     \/ /\ ~destroyed
        /\ handles' = handles \cup {"dst"}
        /\ phase' = IF size = 0 THEN "ending" ELSE "chmod"
        /\ hadError' = (size = 0)
        /\ UNCHANGED <<verdict, faults>>
  /\ UNCHANGED <<channel, requests, buffer, target, cut, pdst, total, userVars, srcSize, size>>

---------------------------------------------------------------------------
(* The copy.                                                               *)

(* The buffer is cut by a chunk at a time until it fits the file: as many  *)
(* slots as whole chunks, and a single one for a file below a chunk.       *)
Slots == IF size < ChunkSize THEN 1 ELSE Smaller(Concurrency, size \div ChunkSize)

DeviationReadRequest(slot, pos, len) ==
  {[kind |-> IF pausing THEN "timer" ELSE "read",
    slot |-> slot, pos |-> pos, len |-> len, asked |-> len]}

(* singleRead: a paused transfer polls with a timer. *)
ReadRequest(slot, pos, len) ==
  IF destroyed THEN {}
  ELSE {[kind |-> IF pausing THEN "timer" ELSE "read",
         slot |-> slot, pos |-> pos, len |-> len, asked |-> len]}

(* The chunk at pos: the last one may be shorter. *)
ChunkAt(pos) == Smaller(ChunkSize, size - pos)

DeviationModeSet ==
  /\ phase = "chmod"
  /\ phase' = "copy"
  /\ requests' = UNION {ReadRequest(0, k * ChunkSize, ChunkAt(k * ChunkSize)) : k \in 0..(Slots - 1)}
  /\ pdst' = Smaller(Slots * ChunkSize, size)
  /\ UNCHANGED <<channel, handles, buffer, target, cut, total, hadError, verdict, userVars,
                 srcSize, size, faults>>

(* startReads: one read for each slot of the buffer. *)
ModeSet ==
  /\ phase = "chmod"
  /\ phase' = "copy"
  /\ requests' = UNION {ReadRequest(k * ChunkSize, k * ChunkSize, ChunkAt(k * ChunkSize)) :
                          k \in 0..(Slots - 1)}
  /\ pdst' = Smaller(Slots * ChunkSize, size)
  /\ UNCHANGED <<channel, handles, buffer, target, cut, total, hadError, verdict, userVars,
                 srcSize, size, faults>>

(* onerror: with an error or, at the end, without one, the handles are     *)
(* closed and the answer follows.                                          *)
Finish(word) ==
  /\ hadError' = TRUE
  /\ phase' = IF word = "end" THEN "ending" ELSE "failing"

HandlesClosed ==
  /\ phase \in {"ending", "failing"}
  /\ handles' = {}
  /\ verdict' = Answer(IF phase = "ending" THEN "end" ELSE "err")
  /\ phase' = "over"
  /\ UNCHANGED <<channel, copyVars, userVars, srcSize, size, faults>>

(* A read is answered: with all that was asked, with less, or with nothing *)
(* at the end of a source that has shrunk.  What was read is written from  *)
(* the slot it was read into.                                              *)
ReadAnswered(r) ==
  /\ r.kind = "read"
  /\ \E nb \in 0..r.len :
       /\ nb <= (IF srcSize > r.pos THEN srcSize - r.pos ELSE 0)
       /\ nb = 0 => srcSize <= r.pos
       /\ IF nb < r.len /\ nb > 0 THEN Fault ELSE UNCHANGED faults
       /\ buffer' = [i \in Positions |->
                       IF i >= r.slot /\ i < r.slot + nb THEN r.pos + i - r.slot ELSE buffer[i]]
       /\ requests' = (requests \ {r}) \cup
            (IF hadError \/ destroyed THEN {}
             ELSE {[kind |-> "write", slot |-> r.slot, pos |-> r.pos, len |-> nb, asked |-> r.len]})
  /\ UNCHANGED <<phase, channel, handles, target, cut, pdst, total, hadError, verdict, userVars, srcSize, size>>

(* fs.write may take less than it was given, without an error; a write to  *)
(* the SFTP server is complete or fails.                                   *)
Written(r, nb) ==
  /\ \/ nb = r.len /\ UNCHANGED faults
     \/ nb < r.len /\ Download /\ Fault
  /\ target' = [i \in Positions |->
                  IF i >= r.pos /\ i < r.pos + nb THEN buffer[r.slot + i - r.pos] ELSE target[i]]
  /\ cut' = cut \cup {i \in Positions : i >= r.pos + nb /\ i < r.pos + r.len}

(* A write is answered, and counts as whole.  A short read is read on into *)
(* the same slot; the last byte ends the copy; otherwise the slot takes    *)
(* the next chunk.                                                         *)
WriteAnswered(r) ==
  /\ r.kind = "write"
  /\ \E nb \in 0..r.len : Written(r, nb)
  /\ total' = IF hadError THEN total ELSE total + r.len
  /\ \/ /\ hadError
        /\ requests' = requests \ {r}
        /\ UNCHANGED <<phase, pdst, hadError>>
     \/ /\ ~hadError /\ r.len < r.asked
        /\ requests' = (requests \ {r}) \cup ReadRequest(r.slot, r.pos + r.len, r.asked - r.len)
        /\ UNCHANGED <<phase, pdst, hadError>>
     \/ /\ ~hadError /\ r.len = r.asked /\ total' = size
        /\ Finish("end")
        /\ requests' = requests \ {r}
        /\ UNCHANGED pdst
     \/ /\ ~hadError /\ r.len = r.asked /\ total' # size
        /\ requests' = (requests \ {r}) \cup
             (IF pdst < size THEN ReadRequest(r.slot, pdst, ChunkAt(pdst)) ELSE {})
        /\ pdst' = IF pdst < size THEN pdst + ChunkAt(pdst) ELSE pdst
        /\ UNCHANGED <<phase, hadError>>
  /\ UNCHANGED <<channel, handles, buffer, verdict, userVars, srcSize, size>>

(* A read or a write fails; the first failure ends the copy. *)
RequestFails(r) ==
  /\ r.kind \in {"read", "write"}
  /\ Fault
  /\ requests' = requests \ {r}
  /\ IF hadError THEN UNCHANGED <<phase, hadError>> ELSE Finish("err")
  /\ UNCHANGED <<channel, handles, buffer, target, cut, pdst, total, verdict, userVars, srcSize, size>>

DeviationTimerFires(r) ==
  /\ r.kind = "timer" /\ pausing
  /\ requests' = requests \ {r}
  /\ UNCHANGED <<phase, channel, handles, buffer, target, cut, pdst, total, hadError, verdict,
                 userVars, srcSize, size, faults>>

(* The timer of a paused read: it reads once the pause is over. *)
TimerFires(r) ==
  /\ r.kind = "timer" /\ ~pausing
  /\ requests' = (requests \ {r}) \cup
       (IF hadError THEN {} ELSE ReadRequest(r.slot, r.pos, r.len))
  /\ UNCHANGED <<phase, channel, handles, buffer, target, cut, pdst, total, hadError, verdict,
                 userVars, srcSize, size, faults>>

---------------------------------------------------------------------------
(* The renderer, and the file that changes underneath.                     *)

Pause ==
  /\ ~destroyed /\ ~pausing /\ pauses < MaxPauses
  /\ pausing' = TRUE
  /\ pauses' = pauses + 1
  /\ UNCHANGED <<phase, channel, handles, copyVars, verdict, destroyed, killed, srcSize, size, faults>>

Resume ==
  /\ ~destroyed /\ pausing
  /\ pausing' = FALSE
  /\ UNCHANGED <<phase, channel, handles, copyVars, verdict, destroyed, killed, pauses,
                 srcSize, size, faults>>

Destroy ==
  /\ ~destroyed
  /\ destroyed' = TRUE
  /\ requests' = {r \in requests : r.kind # "timer"}
  /\ UNCHANGED <<phase, channel, handles, buffer, target, cut, pdst, total, hadError, verdict,
                 pausing, killed, pauses, srcSize, size, faults>>

(* The files and the transfer's channel, as far as there is one by now,    *)
(* are closed.                                                             *)
Kill ==
  /\ destroyed /\ ~killed
  /\ killed' = TRUE
  /\ handles' = {}
  /\ channel' = IF channel = "open" THEN "closed" ELSE channel
  /\ UNCHANGED <<phase, copyVars, verdict, pausing, destroyed, pauses, srcSize, size, faults>>

SourceShrinks ==
  /\ srcSize > 0
  /\ Fault
  /\ srcSize' \in 0..(srcSize - 1)
  /\ UNCHANGED <<phase, channel, handles, copyVars, verdict, userVars, size>>

---------------------------------------------------------------------------
FileAnswers ==
  \/ ChannelAnswered \/ SourceOpened \/ Measured \/ TargetOpened \/ ModeSet \/ HandlesClosed
  \/ \E r \in requests : ReadAnswered(r) \/ WriteAnswered(r) \/ RequestFails(r) \/ TimerFires(r)

Next == FileAnswers \/ Pause \/ Resume \/ Destroy \/ Kill \/ SourceShrinks

Spec == Init /\ [][Next]_vars

(* Both file systems answer, and timers fire. *)
FairSpec == Spec /\ WF_vars(FileAnswers) /\ WF_vars(Kill)

---------------------------------------------------------------------------
(* Properties.                                                             *)

(* A transfer is reported once, and reported complete only when every byte *)
(* of the source is in its place in the target, whatever the order and the *)
(* length of the answers to its reads, through pauses and for every size   *)
(* of the last chunk.  Only what the local file system left out of a write *)
(* of a download is missing, unnoticed.                                    *)
VerdictIsTrue ==
  /\ Len(verdict) <= 1
  /\ verdict = <<"end">> =>
       \A i \in 0..(size - 1) : target[i] = i \/ (Download /\ i \in cut)

(* Once the transfer has been destroyed it reads and writes no more: only  *)
(* what was under way is still answered.                                   *)
QuietAfterDestroy == [][destroyed => requests' \subseteq requests]_vars

(* A transfer that is neither destroyed nor paused for good is reported in *)
(* the end, also when it was paused and resumed with reads under way.  A   *)
(* source that shrinks after it was measured is excepted: its reads come   *)
(* back empty and are repeated for ever.                                   *)
TransferSettles ==
  <>[](~pausing) => <>(verdict # << >> \/ destroyed \/ srcSize < size)

=============================================================================
