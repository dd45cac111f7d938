--------------------------- MODULE TransferProofs ---------------------------
(***************************************************************************)
(* Proofs about Transfer, and after them about TransferList.               *)
(*                                                                         *)
(* Transfer, for every size of the source and of a chunk, every number of  *)
(* reads under way, every number of faults and pauses: a transfer reported *)
(* complete is complete but for what the local file system left out of a   *)
(* write, and a destroyed one is quiet.                                    *)
(*                                                                         *)
(* The argument is one of bookkeeping.  Each request answers for a stretch *)
(* of the file; the stretches and the slots of the buffer never overlap,   *)
(* so that a slot holds what was read for its request until it is written. *)
(* The transfer only counts bytes.  What it counts is the number of        *)
(* positions below pdst no request answers for any more, and those are in  *)
(* their place or were cut off a write; when the count reaches the size of *)
(* the file, they are all.                                                 *)
(***************************************************************************)
EXTENDS Transfer, TransferListState, FiniteSetTheorems, TLAPS

-----------------------------------------------------------------------------
(* The inductive invariant. *)

\* The positions a request answers for, and the bytes of a slot.
Covers(r, p) == r.pos <= p /\ p < r.pos + r.asked
Width == Smaller(ChunkSize, size)

RequestFits(r) ==
  /\ r \in Request
  /\ r.kind # "write" => r.len = r.asked
  /\ r.len <= r.asked /\ 0 < r.asked /\ r.asked <= Width
  /\ r.slot + Width <= size
  /\ r.pos + r.asked <= pdst
  /\ r.kind = "write" => \A i \in Positions :
       i >= r.slot /\ i < r.slot + r.len => buffer[i] = r.pos + i - r.slot
RequestsFit == \A r \in requests : RequestFits(r)

Apart(q, r) ==
  /\ q.slot + Width <= r.slot \/ r.slot + Width <= q.slot
  /\ q.pos + q.asked <= r.pos \/ r.pos + r.asked <= q.pos
RequestsApart == \A q, r \in requests : q = r \/ Apart(q, r)

\* What a write took is in its place.
Placed(p) == target[p] = p \/ p \in cut

\* Positions no request answers for any more.
Settled == {p \in 0..(pdst - 1) : \A r \in requests : ~Covers(r, p)}

Counted ==
  /\ total <= Cardinality(Settled)
  /\ ~hadError /\ ~destroyed =>
       total = Cardinality(Settled) /\ \A p \in Settled : Placed(p)

Before == {"channel", "open", "stat", "dstopen", "chmod", "broken"}
PhaseFits ==
  /\ phase \in Before => requests = {} /\ pdst = 0 /\ total = 0
  /\ phase = "chmod" => size > 0
  /\ hadError => phase \in {"ending", "failing", "over"}
  /\ requests # {} => phase = "copy" \/ hadError
  /\ verdict # << >> => phase = "over"

Complete == requests = {} /\ \A i \in 0..(size - 1) : Placed(i)
VerdictFits ==
  /\ Len(verdict) <= 1
  /\ phase = "ending" /\ ~destroyed => Complete
  /\ verdict = <<"end">> => Complete

FilesTyped ==
  /\ buffer \in [Positions -> Positions \cup {Junk}]
  /\ target \in [Positions -> Positions \cup {Junk}]
  /\ cut \subseteq Positions /\ (cut # {} => Download)
NumbersTyped ==
  size \in 0..MaxSize /\ pdst \in 0..size /\ total \in Nat /\ srcSize \in 0..MaxSize
StateTyped ==
  /\ phase \in Phases
  /\ channel \in {"none", "open", "closed"} /\ handles \subseteq {"src", "dst"}
  /\ hadError \in BOOLEAN /\ verdict \in Seq({"end", "err"})
  /\ pausing \in BOOLEAN /\ destroyed \in BOOLEAN /\ killed \in BOOLEAN
BoundsTyped == faults \in 0..MaxFaults /\ pauses \in 0..MaxPauses

CopyInv == RequestsFit /\ RequestsApart /\ Counted
TransferInv ==
  /\ StateTyped /\ BoundsTyped /\ FilesTyped /\ NumbersTyped
  /\ CopyInv /\ PhaseFits /\ VerdictFits

-----------------------------------------------------------------------------
(* What the parts of the invariant say of one request. *)

LEMMA Numbers ==
  ASSUME TransferInv
  PROVE  /\ MaxSize \in Nat /\ ChunkSize \in Nat /\ 0 < ChunkSize
         /\ size \in Nat /\ size <= MaxSize /\ pdst \in Nat /\ pdst <= size /\ total \in Nat
         /\ Width \in Nat /\ Width <= ChunkSize /\ Width <= size
BY TransferAssumption DEF TransferInv, NumbersTyped, Width, Smaller

LEMMA RequestNumbers ==
  ASSUME TransferInv, NEW r \in requests
  PROVE  /\ r \in Request /\ r.kind \in {"read", "write", "timer"}
         /\ r.slot \in Nat /\ r.pos \in Nat /\ r.len \in Nat /\ r.asked \in Nat
         /\ r.len <= r.asked /\ 0 < r.asked /\ r.asked <= Width
         /\ r.slot + Width <= size /\ r.pos + r.asked <= pdst
         /\ r.kind # "write" => r.len = r.asked
BY TransferAssumption
   DEF TransferInv, CopyInv, RequestsFit, RequestFits, Request, Positions

LEMMA RequestTyped ==
  ASSUME TransferInv, NEW kind \in {"read", "write", "timer"}, NEW slot \in Nat, NEW pos \in Nat,
         NEW len \in Nat, NEW asked \in Nat, len <= asked, 0 < asked, asked <= Width,
         slot + Width <= size, pos + asked <= size
  PROVE  [kind |-> kind, slot |-> slot, pos |-> pos, len |-> len, asked |-> asked] \in Request
<1>1. slot \in Positions /\ pos \in Positions /\ len \in 0..ChunkSize /\ asked \in 0..ChunkSize
  BY Numbers DEF Positions
<1> QED BY <1>1 DEF Request

LEMMA PartsOfAFile ==
  ASSUME NEW n \in Nat, NEW S \in SUBSET (0..(n - 1))
  PROVE  /\ IsFiniteSet(S) /\ Cardinality(S) \in Nat /\ Cardinality(S) <= n
         /\ Cardinality(S) = n => S = 0..(n - 1)
<1>1. IsFiniteSet(0..(n - 1)) /\ Cardinality(0..(n - 1)) = n
  BY FS_Interval
<1>2. /\ IsFiniteSet(S) /\ Cardinality(S) <= Cardinality(0..(n - 1))
      /\ Cardinality(0..(n - 1)) = Cardinality(S) => 0..(n - 1) = S
  BY <1>1, FS_Subset
<1> QED BY <1>1, <1>2, FS_CardinalityType

\* The positions that are settled are counted: there are at most pdst of
\* them, and as many only if they are all.
LEMMA SettledFinite ==
  ASSUME pdst \in Nat
  PROVE  /\ IsFiniteSet(Settled) /\ Cardinality(Settled) \in Nat /\ Cardinality(Settled) <= pdst
         /\ Cardinality(Settled) = pdst => Settled = 0..(pdst - 1)
<1>1. Settled \in SUBSET (0..(pdst - 1))
  BY DEF Settled
<1> QED BY <1>1, PartsOfAFile

LEMMA NextSettledFinite ==
  ASSUME pdst' \in Nat
  PROVE  /\ IsFiniteSet(Settled') /\ Cardinality(Settled') \in Nat /\ Cardinality(Settled') <= pdst'
         /\ Cardinality(Settled') = pdst' => Settled' = 0..(pdst' - 1)
<1>1. Settled' \in SUBSET (0..(pdst' - 1))
  BY DEF Settled
<1> QED BY <1>1, PartsOfAFile

-----------------------------------------------------------------------------
(* What a step does to the requests. *)

\* Steps that leave the copy alone.
LEMMA CopyUntouched ==
  ASSUME TransferInv, requests' = requests, buffer' = buffer, target' = target, cut' = cut,
         pdst' = pdst, total' = total, hadError => hadError', destroyed => destroyed',
         size' = size \/ requests = {}
  PROVE  CopyInv'
<1>1. RequestsFit'
  BY DEF TransferInv, CopyInv, RequestsFit, RequestFits, Width
<1>2. RequestsApart'
  BY DEF TransferInv, CopyInv, RequestsApart, Apart, Width
<1>3. Settled' = Settled
  BY DEF Settled
<1>4. Counted'
  BY <1>3 DEF TransferInv, CopyInv, Counted, Placed
<1> QED BY <1>1, <1>2, <1>4 DEF CopyInv

\* Requests that are given up: nothing is counted any more, and what has
\* been counted stays below.
LEMMA RequestsDropped ==
  ASSUME TransferInv, requests' \subseteq requests, buffer' = buffer,
         size' = size, pdst' = pdst, total' = total, hadError' \/ destroyed'
  PROVE  CopyInv'
<1>1. RequestsFit'
  BY DEF TransferInv, CopyInv, RequestsFit, RequestFits, Width
<1>2. RequestsApart'
  BY DEF TransferInv, CopyInv, RequestsApart, Apart, Width
<1>3. Settled \subseteq Settled'
  BY DEF Settled
<1>4. /\ IsFiniteSet(Settled') /\ Cardinality(Settled') \in Nat
      /\ Cardinality(Settled) \in Nat /\ total \in Nat
  BY Numbers, SettledFinite, NextSettledFinite
<1>5. Cardinality(Settled) <= Cardinality(Settled')
  BY <1>3, <1>4, FS_Subset
<1>6. Counted'
  BY <1>4, <1>5 DEF TransferInv, CopyInv, Counted
<1> QED BY <1>1, <1>2, <1>6 DEF CopyInv

\* A request is followed by at most one other, which keeps the slot and
\* answers for what is left of the stretch, or for a new one behind pdst.
Follows(n, r) ==
  /\ n.slot = r.slot
  /\ \/ r.pos <= n.pos /\ n.pos + n.asked <= r.pos + r.asked
     \/ pdst <= n.pos

LEMMA RequestReplaced ==
  ASSUME TransferInv, NEW r \in requests, NEW new,
         requests' \subseteq (requests \ {r}) \cup new, \A m, n \in new : m = n,
         size' = size, pdst' \in Nat, pdst <= pdst',
         \A n \in new : RequestFits(n)' /\ Follows(n, r),
         \A q \in requests \ {r}, i \in Positions :
           q.kind = "write" /\ i >= q.slot /\ i < q.slot + q.len => buffer'[i] = buffer[i]
  PROVE  RequestsFit' /\ RequestsApart'
<1>1. Width' = Width
  BY DEF Width
<1>2. \A q \in requests \ {r} : RequestFits(q)'
  <2> SUFFICES ASSUME NEW q \in requests \ {r} PROVE RequestFits(q)'
    OBVIOUS
  <2>1. RequestFits(q)
    BY DEF TransferInv, CopyInv, RequestsFit
  <2>2. q.pos + q.asked <= pdst'
    BY Numbers, RequestNumbers
  <2> QED BY <1>1, <2>1, <2>2 DEF RequestFits
<1>3. RequestsFit'
  BY <1>2 DEF RequestsFit
<1>4. \A q, s \in requests : q = s \/ Apart(q, s)
  BY DEF TransferInv, CopyInv, RequestsApart
<1>5. \A q \in requests \ {r}, n \in new : Apart(q, n)' /\ Apart(n, q)'
  <2> SUFFICES ASSUME NEW q \in requests \ {r}, NEW n \in new PROVE Apart(q, n)' /\ Apart(n, q)'
    OBVIOUS
  <2>1. Apart(q, r) /\ Follows(n, r) /\ q.pos + q.asked <= pdst
    BY <1>4, RequestNumbers
  <2>2. n.pos \in Nat /\ n.asked \in Nat /\ n.slot \in Nat
    BY TransferAssumption DEF RequestFits, Request, Positions
  <2> QED BY <1>1, <2>1, <2>2, Numbers, RequestNumbers DEF Apart, Follows
<1>6. RequestsApart'
  <2> SUFFICES ASSUME NEW q \in requests', NEW s \in requests', q # s PROVE Apart(q, s)'
    BY DEF RequestsApart
  <2>1. CASE q \in requests /\ s \in requests
    BY <1>1, <1>4, <2>1 DEF Apart
  <2>2. CASE ~(q \in requests /\ s \in requests)
    BY <1>5, <2>2
  <2> QED BY <2>1, <2>2
<1> QED BY <1>3, <1>6

\* A read that was answered, and a timer that fired: the request goes on
\* over the same stretch, or is given up.
LEMMA RequestGoesOn ==
  ASSUME TransferInv, NEW r \in requests, NEW new,
         requests' = (requests \ {r}) \cup new, \A m, n \in new : m = n,
         size' = size, pdst' = pdst, total' = total, target' = target, cut' = cut,
         hadError' = hadError, destroyed' = destroyed,
         new = {} => hadError \/ destroyed,
         \A n \in new : RequestFits(n)' /\ n.slot = r.slot /\ n.pos = r.pos /\ n.asked = r.asked,
         \A q \in requests \ {r}, i \in Positions :
           q.kind = "write" /\ i >= q.slot /\ i < q.slot + q.len => buffer'[i] = buffer[i]
  PROVE  CopyInv'
<1>1. pdst \in Nat /\ r.pos \in Nat /\ r.asked \in Nat
  BY Numbers, RequestNumbers
<1>2. \A n \in new : Follows(n, r)
  BY <1>1 DEF Follows
<1>3. RequestsFit' /\ RequestsApart'
  BY <1>1, <1>2, RequestReplaced
<1>4. Settled \subseteq Settled'
  BY DEF Settled, Covers
<1>5. new # {} => Settled' = Settled
  <2> SUFFICES ASSUME new # {}, NEW p \in Settled' PROVE p \in Settled
    BY <1>4
  <2>1. PICK n \in new : n.pos = r.pos /\ n.asked = r.asked
    OBVIOUS
  <2>2. p \in 0..(pdst - 1) /\ \A q \in requests' : ~Covers(q, p)
    BY DEF Settled
  <2>3. ~Covers(n, p)
    BY <2>2
  <2>4. \A q \in requests : ~Covers(q, p)
    BY <2>1, <2>2, <2>3 DEF Covers
  <2> QED BY <2>2, <2>4 DEF Settled
<1>6. /\ IsFiniteSet(Settled') /\ Cardinality(Settled') \in Nat
      /\ Cardinality(Settled) \in Nat /\ total \in Nat
  BY <1>1, Numbers, SettledFinite, NextSettledFinite
<1>7. Cardinality(Settled) <= Cardinality(Settled')
  BY <1>4, <1>6, FS_Subset
<1>8. Counted'
  <2>1. CASE new = {}
    BY <1>6, <1>7, <2>1 DEF TransferInv, CopyInv, Counted
  <2>2. CASE new # {}
    BY <1>5, <2>2 DEF TransferInv, CopyInv, Counted, Placed
  <2> QED BY <2>1, <2>2
<1> QED BY <1>3, <1>8 DEF CopyInv

LEMMA ReadAnsweredKeepsCopy ==
  ASSUME TransferInv, NEW r \in requests, ReadAnswered(r)
  PROVE  CopyInv' /\ FilesTyped'
<1>1. PICK nb \in 0..r.len :
        /\ buffer' = [i \in Positions |->
                        IF i >= r.slot /\ i < r.slot + nb THEN r.pos + i - r.slot ELSE buffer[i]]
        /\ requests' = (requests \ {r}) \cup
             (IF hadError \/ destroyed THEN {}
              ELSE {[kind |-> "write", slot |-> r.slot, pos |-> r.pos, len |-> nb, asked |-> r.len]})
  BY DEF ReadAnswered
<1>2. r.kind = "read" /\ UNCHANGED <<target, cut, pdst, total, hadError, destroyed, size>>
  BY DEF ReadAnswered, userVars
<1> DEFINE w == [kind |-> "write", slot |-> r.slot, pos |-> r.pos, len |-> nb, asked |-> r.len]
           new == IF hadError \/ destroyed THEN {} ELSE {w}
<1>3. r.slot \in Nat /\ r.pos \in Nat /\ r.len \in Nat /\ nb \in Nat /\ nb <= r.len /\ r.len = r.asked
      /\ 0 < r.asked /\ r.asked <= Width /\ r.slot + Width <= size /\ r.pos + r.asked <= pdst
  BY <1>2, RequestNumbers
<1>4. r.pos + r.asked <= size /\ size <= MaxSize /\ Width \in Nat /\ size \in Nat /\ pdst \in Nat
      /\ MaxSize \in Nat
  BY <1>3, Numbers
<1>5. \A i \in Positions : /\ i >= r.slot /\ i < r.slot + nb => buffer'[i] = r.pos + i - r.slot
                           /\ ~(i >= r.slot /\ i < r.slot + nb) => buffer'[i] = buffer[i]
  BY <1>1
<1>6. FilesTyped'
  <2>1. \A i \in Positions : i >= r.slot /\ i < r.slot + nb => r.pos + i - r.slot \in Positions
    BY <1>3, <1>4 DEF Positions
  <2>2. buffer \in [Positions -> Positions \cup {Junk}] /\ target \in [Positions -> Positions \cup {Junk}]
    BY DEF TransferInv, FilesTyped
  <2>3. buffer' \in [Positions -> Positions \cup {Junk}]
    BY <1>1, <2>1, <2>2
  <2>4. cut' \subseteq Positions /\ (cut' # {} => Download)
    BY <1>2 DEF TransferInv, FilesTyped
  <2> QED BY <1>2, <2>2, <2>3, <2>4 DEF FilesTyped
<1>7. w \in Request
  BY <1>3, <1>4, RequestTyped
<1>8. w.kind = "write" /\ w.slot = r.slot /\ w.pos = r.pos /\ w.len = nb /\ w.asked = r.len
  OBVIOUS
<1>9. requests' = (requests \ {r}) \cup new
  BY <1>1
<1> HIDE DEF w
<1>10. RequestFits(w)'
  BY <1>2, <1>3, <1>5, <1>7, <1>8 DEF RequestFits, Width
<1>11. \A q \in requests \ {r}, i \in Positions :
         q.kind = "write" /\ i >= q.slot /\ i < q.slot + q.len => buffer'[i] = buffer[i]
  <2> SUFFICES ASSUME NEW q \in requests \ {r}, NEW i \in Positions,
                      i >= q.slot, i < q.slot + q.len
               PROVE  ~(i >= r.slot /\ i < r.slot + nb)
    BY <1>5
  <2>1. q.slot + Width <= r.slot \/ r.slot + Width <= q.slot
    BY DEF TransferInv, CopyInv, RequestsApart, Apart
  <2>2. q.slot \in Nat /\ q.len \in Nat /\ q.len <= Width
    BY <1>4, RequestNumbers
  <2>3. i \in Int
    BY DEF Positions
  <2> QED BY <1>3, <1>4, <2>1, <2>2, <2>3
<1>12. /\ \A m, n \in new : m = n
       /\ new = {} => hadError \/ destroyed
       /\ \A n \in new : RequestFits(n)' /\ n.slot = r.slot /\ n.pos = r.pos /\ n.asked = r.asked
  BY <1>3, <1>8, <1>10
<1> HIDE DEF new
<1>13. CopyInv'
  BY <1>2, <1>9, <1>11, <1>12, RequestGoesOn
<1> QED BY <1>6, <1>13

LEMMA ReadRequestMade ==
  ASSUME NEW slot, NEW pos, NEW len
  PROVE  /\ destroyed => ReadRequest(slot, pos, len) = {}
         /\ ~destroyed => \E kind \in {"read", "timer"} :
              ReadRequest(slot, pos, len) =
                {[kind |-> kind, slot |-> slot, pos |-> pos, len |-> len, asked |-> len]}
BY DEF ReadRequest

LEMMA TimerFiresKeepsCopy ==
  ASSUME TransferInv, NEW r \in requests, TimerFires(r)
  PROVE  CopyInv' /\ FilesTyped'
<1>1. /\ r.kind = "timer"
      /\ UNCHANGED <<buffer, target, cut, pdst, total, hadError, destroyed, size>>
      /\ requests' = (requests \ {r}) \cup
           (IF hadError THEN {} ELSE ReadRequest(r.slot, r.pos, r.len))
  BY DEF TimerFires, userVars
<1>2. FilesTyped'
  BY <1>1 DEF TransferInv, FilesTyped
<1>3. CASE hadError \/ destroyed
  <2> DEFINE new == {}
  <2>1. /\ requests' = (requests \ {r}) \cup new /\ \A m, n \in new : m = n
        /\ \A n \in new : RequestFits(n)' /\ n.slot = r.slot /\ n.pos = r.pos /\ n.asked = r.asked
    BY <1>1, <1>3, ReadRequestMade
  <2> HIDE DEF new
  <2>2. CopyInv'
    BY <1>1, <1>3, <2>1, RequestGoesOn
  <2> QED BY <1>2, <2>2
<1>4. CASE ~hadError /\ ~destroyed
  <2>1. PICK kind \in {"read", "timer"} :
          ReadRequest(r.slot, r.pos, r.len) =
            {[kind |-> kind, slot |-> r.slot, pos |-> r.pos, len |-> r.len, asked |-> r.len]}
    BY <1>4, ReadRequestMade
  <2> DEFINE n == [kind |-> kind, slot |-> r.slot, pos |-> r.pos, len |-> r.len, asked |-> r.len]
  <2>2. r.slot \in Nat /\ r.pos \in Nat /\ r.len \in Nat /\ r.len = r.asked
        /\ 0 < r.asked /\ r.asked <= Width /\ r.slot + Width <= size /\ r.pos + r.asked <= pdst
    BY <1>1, RequestNumbers
  <2>3. r.pos + r.asked <= size
    BY <2>2, Numbers
  <2>4. n \in Request
    BY <2>2, <2>3, RequestTyped
  <2>5. n.kind = kind /\ n.slot = r.slot /\ n.pos = r.pos /\ n.len = r.len /\ n.asked = r.len
    OBVIOUS
  <2>6. requests' = (requests \ {r}) \cup {n}
    BY <1>1, <1>4, <2>1
  <2> HIDE DEF n
  <2>7. RequestFits(n)'
    BY <1>1, <2>2, <2>4, <2>5 DEF RequestFits, Width
  <2> DEFINE new == {n}
  <2>8. /\ requests' = (requests \ {r}) \cup new /\ \A m, o \in new : m = o
        /\ new = {} => hadError \/ destroyed
        /\ \A m \in new : RequestFits(m)' /\ m.slot = r.slot /\ m.pos = r.pos /\ m.asked = r.asked
    BY <2>2, <2>5, <2>6, <2>7
  <2> HIDE DEF new
  <2>9. CopyInv'
    BY <1>1, <2>8, RequestGoesOn
  <2> QED BY <1>2, <2>9
<1> QED BY <1>3, <1>4

\* What a write puts into the target.
LEMMA WriteTyped ==
  ASSUME TransferInv, NEW r \in requests, NEW nb \in 0..r.len, Written(r, nb), buffer' = buffer
  PROVE  FilesTyped'
<1>1. /\ r.slot \in Nat /\ r.pos \in Nat /\ r.len \in Nat /\ r.len <= r.asked
      /\ r.asked \in Nat /\ r.asked <= Width /\ r.slot + Width <= size
  BY RequestNumbers
<1>2. size \in Nat /\ Width \in Nat /\ MaxSize \in Nat /\ size <= MaxSize
  BY Numbers
<1>3. nb \in Nat /\ nb <= r.len
  BY <1>1
<1>4. \A i \in Positions : i >= r.pos /\ i < r.pos + nb => r.slot + i - r.pos \in Positions
  BY <1>1, <1>2, <1>3 DEF Positions
<1>5. target' \in [Positions -> Positions \cup {Junk}]
  BY <1>4 DEF TransferInv, FilesTyped, Written
<1>6. nb = r.len => {i \in Positions : i >= r.pos + nb /\ i < r.pos + r.len} = {}
  BY <1>1 DEF Positions
<1>7. cut' \subseteq Positions /\ (cut' # {} => Download)
  <2>1. CASE nb = r.len
    BY <1>6, <2>1 DEF TransferInv, FilesTyped, Written
  <2>2. CASE nb # r.len
    BY <2>2 DEF TransferInv, FilesTyped, Written
  <2> QED BY <2>1, <2>2
<1> QED BY <1>5, <1>7 DEF TransferInv, FilesTyped

\* A write that was answered settles its stretch: the count grows by as many
\* positions, and they hold what belongs there.
LEMMA WriteSettles ==
  ASSUME TransferInv, NEW r \in requests, r.kind = "write", ~hadError, NEW new,
         requests' = (requests \ {r}) \cup new, \A m, n \in new : m = n,
         NEW nb \in 0..r.len, Written(r, nb),
         total' = total + r.len, buffer' = buffer, size' = size, destroyed' = destroyed,
         pdst' \in Nat, pdst <= pdst', pdst' <= size,
         \A n \in new :
           /\ RequestFits(n)' /\ n.slot = r.slot
           /\ \/ n.pos = r.pos + r.len /\ n.pos + n.asked = r.pos + r.asked /\ pdst' = pdst
              \/ r.len = r.asked /\ n.pos = pdst /\ n.pos + n.asked = pdst',
         new = {} => destroyed \/ (r.len = r.asked /\ pdst' = pdst)
  PROVE  /\ CopyInv' /\ FilesTyped'
         /\ ~destroyed => total' = Cardinality(Settled') /\ \A p \in Settled' : Placed(p)'
<1> DEFINE stretch == r.pos..(r.pos + r.len - 1)
<1>1. /\ r.slot \in Nat /\ r.pos \in Nat /\ r.len \in Nat /\ r.asked \in Nat
      /\ r.len <= r.asked /\ 0 < r.asked /\ r.asked <= Width
      /\ r.slot + Width <= size /\ r.pos + r.asked <= pdst
  BY RequestNumbers
<1>2. /\ pdst \in Nat /\ size \in Nat /\ Width \in Nat /\ total \in Nat
      /\ MaxSize \in Nat /\ size <= MaxSize /\ pdst <= size
  BY Numbers
<1>3. \A n \in new : n.pos \in Nat /\ n.asked \in Nat /\ n.slot \in Nat
  BY TransferAssumption DEF RequestFits, Request, Positions
<1>4. \A n \in new : Follows(n, r)
  BY <1>1, <1>2, <1>3 DEF Follows
<1>5. RequestsFit' /\ RequestsApart'
  BY <1>2, <1>4, RequestReplaced
<1>6. \A q \in requests \ {r} : /\ q.pos \in Nat /\ q.asked \in Nat
                                /\ q.pos + q.asked <= r.pos \/ r.pos + r.asked <= q.pos
                                /\ q.pos + q.asked <= pdst
  BY RequestNumbers DEF TransferInv, CopyInv, RequestsApart, Apart
<1>7. \A p \in stretch : p \in Nat /\ r.pos <= p /\ p < r.pos + r.len
  BY <1>1
<1>8. Settled \subseteq Settled'
  <2> SUFFICES ASSUME NEW p \in Settled PROVE p \in Settled'
    OBVIOUS
  <2>1. p \in 0..(pdst - 1) /\ \A q \in requests : ~Covers(q, p)
    BY DEF Settled
  <2>2. p \in 0..(pdst' - 1)
    <3>1. \A a, b \in Nat : a <= b => 0..(a - 1) \subseteq 0..(b - 1)
      OBVIOUS
    <3> QED BY <1>2, <2>1, <3>1
  <2>3. \A n \in new : ~Covers(n, p)
    BY <1>1, <1>2, <1>3, <2>1 DEF Covers
  <2>4. \A q \in requests' : ~Covers(q, p)
    BY <2>1, <2>3
  <2> QED BY <2>2, <2>4 DEF Settled
<1>9. stretch \subseteq Settled'
  <2> SUFFICES ASSUME NEW p \in stretch PROVE p \in Settled'
    OBVIOUS
  <2>1. p \in Nat /\ r.pos <= p /\ p < r.pos + r.len
    BY <1>7
  <2>2. p \in 0..(pdst' - 1)
    <3>1. p < r.pos + r.asked
      BY <1>1, <2>1
    <3>2. p < pdst
      BY <1>1, <1>2, <2>1, <3>1
    <3>3. p < pdst'
      BY <1>2, <2>1, <3>2
    <3>4. \A a, b \in Nat : a < b => a \in 0..(b - 1)
      OBVIOUS
    <3> QED BY <2>1, <3>3, <3>4
  <2>3. \A q \in requests \ {r} : ~Covers(q, p)
    BY <1>1, <1>6, <2>1 DEF Covers
  <2>4. \A n \in new : ~Covers(n, p)
    BY <1>1, <1>2, <1>3, <2>1 DEF Covers
  <2>5. \A q \in requests' : ~Covers(q, p)
    BY <2>3, <2>4
  <2> QED BY <2>2, <2>5 DEF Settled
<1>10. ~destroyed => Settled' \subseteq Settled \cup stretch
  <2> SUFFICES ASSUME ~destroyed, NEW p \in Settled', p \notin stretch PROVE p \in Settled
    OBVIOUS
  <2>1. p \in 0..(pdst' - 1) /\ \A q \in requests' : ~Covers(q, p)
    BY DEF Settled
  <2>2. p \in Nat /\ p < pdst' /\ ~(r.pos <= p /\ p < r.pos + r.len)
    <3>1. p \in Nat /\ p < pdst'
      <4>1. \A b \in Nat : \A a \in 0..(b - 1) : a \in Nat /\ a < b
        OBVIOUS
      <4>2. pdst' \in Nat
        BY <1>2
      <4> QED BY <2>1, <4>1, <4>2
    <3>2. ~(r.pos <= p /\ p < r.pos + r.len)
      BY <1>1, <3>1
    <3> QED BY <3>1, <3>2
  <2>3. \A n \in new : ~Covers(n, p)
    BY <2>1
  <2>4. ~Covers(r, p) /\ p < pdst
    <3>1. CASE new = {}
      <4>1. r.len = r.asked /\ pdst' = pdst
        BY <3>1
      <4> QED BY <1>1, <2>2, <4>1 DEF Covers
    <3>2. CASE new # {}
      <4>1. PICK n \in new : n \in new
        BY <3>2
      <4>2. ~Covers(n, p) /\ n.pos \in Nat /\ n.asked \in Nat
        BY <1>3, <2>3
      <4>3. CASE n.pos = r.pos + r.len /\ n.pos + n.asked = r.pos + r.asked /\ pdst' = pdst
        BY <1>1, <1>2, <2>2, <4>2, <4>3 DEF Covers
      <4>4. CASE r.len = r.asked /\ n.pos = pdst /\ n.pos + n.asked = pdst'
        BY <1>1, <1>2, <2>2, <4>2, <4>4 DEF Covers
      <4> QED BY <4>1, <4>3, <4>4
    <3> QED BY <3>1, <3>2
  <2>5. \A q \in requests : ~Covers(q, p)
    BY <2>1, <2>4
  <2>6. p \in 0..(pdst - 1)
    BY <1>2, <2>2, <2>4
  <2> QED BY <2>5, <2>6 DEF Settled
<1>11. Settled \cap stretch = {}
  <2> SUFFICES ASSUME NEW p \in stretch PROVE p \notin Settled
    OBVIOUS
  <2>1. Covers(r, p)
    BY <1>1, <1>7 DEF Covers
  <2> QED BY <2>1 DEF Settled
<1>12. IsFiniteSet(stretch) /\ Cardinality(stretch) = r.len
  <2> DEFINE a == r.pos
             b == r.pos + r.len - 1
  <2>1. a \in Int /\ b \in Int /\ (IF a > b THEN 0 ELSE b - a + 1) = r.len
    BY <1>1
  <2>2. stretch = a..b
    OBVIOUS
  <2> HIDE DEF a, b, stretch
  <2>3. IsFiniteSet(a..b) /\ Cardinality(a..b) = IF a > b THEN 0 ELSE b - a + 1
    BY <2>1, FS_Interval
  <2> QED BY <2>1, <2>2, <2>3
<1>13. /\ IsFiniteSet(Settled) /\ Cardinality(Settled) \in Nat
       /\ IsFiniteSet(Settled') /\ Cardinality(Settled') \in Nat
  BY <1>2, SettledFinite, NextSettledFinite
<1> HIDE DEF stretch
<1>14. /\ IsFiniteSet(Settled \cup stretch)
       /\ Cardinality(Settled \cup stretch) = Cardinality(Settled) + r.len
  <2>1. /\ IsFiniteSet(Settled \cup stretch)
        /\ Cardinality(Settled \cup stretch) =
             Cardinality(Settled) + Cardinality(stretch) - Cardinality(Settled \cap stretch)
    BY <1>12, <1>13, FS_Union
  <2>2. Cardinality(Settled \cap stretch) = 0
    BY <1>11, FS_EmptySet
  <2> QED BY <1>1, <1>12, <1>13, <2>1, <2>2
<1>15. Cardinality(Settled \cup stretch) <= Cardinality(Settled')
  BY <1>8, <1>9, <1>13, FS_Subset
<1>16. ~destroyed => Settled' = Settled \cup stretch
  BY <1>8, <1>9, <1>10
<1>17. total <= Cardinality(Settled)
       /\ (~destroyed => total = Cardinality(Settled) /\ \A p \in Settled : Placed(p))
  BY DEF TransferInv, CopyInv, Counted
<1>18. total' <= Cardinality(Settled')
  BY <1>1, <1>2, <1>13, <1>14, <1>15, <1>17
<1>19. ~destroyed => total' = Cardinality(Settled')
  BY <1>14, <1>16, <1>17
<1>20. /\ buffer \in [Positions -> Positions \cup {Junk}]
       /\ target \in [Positions -> Positions \cup {Junk}]
  BY DEF TransferInv, FilesTyped
<1>21. \A p \in Positions : p >= r.pos /\ p < r.pos + r.len =>
         r.slot + p - r.pos \in Positions /\ buffer[r.slot + p - r.pos] = p
  <2> SUFFICES ASSUME NEW p \in Positions, p >= r.pos, p < r.pos + r.len
               PROVE  r.slot + p - r.pos \in Positions /\ buffer[r.slot + p - r.pos] = p
    OBVIOUS
  <2> DEFINE i == r.slot + p - r.pos
  <2>1. p \in Int
    BY DEF Positions
  <2>2. i \in Int /\ i >= r.slot /\ i < r.slot + r.len /\ r.pos + i - r.slot = p
    BY <1>1, <2>1
  <2>3. 0 <= i /\ i <= MaxSize - 1
    BY <1>1, <1>2, <2>2
  <2>4. i \in Positions
    BY <1>2, <2>2, <2>3 DEF Positions
  <2> HIDE DEF i
  <2>5. buffer[i] = p
    BY <2>2, <2>4 DEF TransferInv, CopyInv, RequestsFit, RequestFits
  <2> QED BY <2>4, <2>5 DEF i
<1>22. /\ nb \in Nat /\ nb <= r.len
       /\ \A p \in Positions : p >= r.pos /\ p < r.pos + nb => target'[p] = buffer[r.slot + p - r.pos]
       /\ \A p \in Positions : ~(p >= r.pos /\ p < r.pos + nb) => target'[p] = target[p]
       /\ \A p \in Positions : p >= r.pos + nb /\ p < r.pos + r.len => p \in cut'
       /\ cut \subseteq cut'
  BY <1>1 DEF Written
<1>25. FilesTyped'
  BY <1>1, <1>2, WriteTyped
<1>23. ~destroyed => \A p \in Settled' : Placed(p)'
  <2> SUFFICES ASSUME ~destroyed, NEW p \in Settled' PROVE target'[p] = p \/ p \in cut'
    BY DEF Placed
  <2>1. p \in 0..(pdst' - 1)
    BY DEF Settled
  <2>2. p \in Positions
    <3>1. p \in Nat /\ p <= pdst' - 1
      <4>1. \A b \in Nat : \A a \in 0..(b - 1) : a \in Nat /\ a <= b - 1
        OBVIOUS
      <4>2. pdst' \in Nat
        BY <1>2
      <4> QED BY <2>1, <4>1, <4>2
    <3>2. \A a, b, c \in Nat : a <= b - 1 /\ b <= c => a <= c - 1
      OBVIOUS
    <3>3. p <= size - 1
      BY <1>2, <3>1, <3>2
    <3> QED BY <1>2, <3>1, <3>3 DEF Positions
  <2>3. CASE p \in stretch
    <3>1. p \in Nat /\ r.pos <= p /\ p < r.pos + r.len
      BY <1>7, <2>3 DEF stretch
    <3>2. CASE p < r.pos + nb
      <4>1. target'[p] = buffer[r.slot + p - r.pos]
        BY <1>1, <1>22, <2>2, <3>1, <3>2
      <4> QED BY <1>1, <1>21, <2>2, <3>1, <4>1
    <3>3. CASE ~(p < r.pos + nb)
      BY <1>1, <1>22, <2>2, <3>1, <3>3
    <3> QED BY <3>2, <3>3
  <2>4. CASE p \in Settled /\ p \notin stretch
    <3>1. target[p] = p \/ p \in cut
      BY <1>17, <2>4 DEF Placed
    <3>2. ~(p >= r.pos /\ p < r.pos + r.len)
      BY <1>1, <2>1, <2>4 DEF stretch
    <3>3. ~(p >= r.pos /\ p < r.pos + nb)
      BY <1>1, <1>22, <2>1, <3>2
    <3> QED BY <1>22, <2>2, <3>1, <3>3
  <2> QED BY <1>16, <2>3, <2>4
<1>24. Counted'
  BY <1>18, <1>19, <1>23 DEF Counted
<1> QED BY <1>5, <1>19, <1>23, <1>24, <1>25 DEF CopyInv

\* The read that follows: over len bytes at pos, into a slot of the buffer.
LEMMA NextRequest ==
  ASSUME TransferInv, NEW slot \in Nat, slot + Width <= size, NEW pos \in Nat, NEW len \in Nat,
         0 < len, len <= Width, size' = size, pdst' \in Nat, pdst' <= size, pos + len <= pdst'
  PROVE  /\ \A m, n \in ReadRequest(slot, pos, len) : m = n
         /\ \A n \in ReadRequest(slot, pos, len) :
              RequestFits(n)' /\ n.slot = slot /\ n.pos = pos /\ n.asked = len
         /\ ReadRequest(slot, pos, len) = {} => destroyed
<1>1. CASE destroyed
  BY <1>1, ReadRequestMade
<1>2. CASE ~destroyed
  <2>1. PICK kind \in {"read", "timer"} :
          ReadRequest(slot, pos, len) =
            {[kind |-> kind, slot |-> slot, pos |-> pos, len |-> len, asked |-> len]}
    BY <1>2, ReadRequestMade
  <2> DEFINE n == [kind |-> kind, slot |-> slot, pos |-> pos, len |-> len, asked |-> len]
  <2>2. pos + len <= size
    BY Numbers
  <2>3. n \in Request
    BY <2>2, RequestTyped
  <2>4. n.kind = kind /\ n.slot = slot /\ n.pos = pos /\ n.len = len /\ n.asked = len
    OBVIOUS
  <2>5. ReadRequest(slot, pos, len) = {n}
    BY <2>1
  <2> HIDE DEF n
  <2>6. RequestFits(n)'
    BY <2>3, <2>4 DEF RequestFits, Width
  <2> QED BY <2>4, <2>5, <2>6
<1> QED BY <1>1, <1>2

\* When as many bytes as the file has are counted, they are all there.
LEMMA AllSettled ==
  ASSUME TransferInv, RequestsFit', size' = size, pdst' = pdst, total' = size,
         total' = Cardinality(Settled'), \A p \in Settled' : Placed(p)'
  PROVE  Complete'
<1>1. pdst' \in Nat /\ pdst' <= size /\ size \in Nat
  BY Numbers
<1>2. Cardinality(Settled') \in Nat /\ Cardinality(Settled') <= pdst'
  BY <1>1, NextSettledFinite
<1>3. pdst' = size /\ Settled' = 0..(size - 1)
  BY <1>1, <1>2, NextSettledFinite
<1>4. requests' = {}
  <2> SUFFICES ASSUME NEW q \in requests' PROVE FALSE
    OBVIOUS
  <2>1. q.pos \in Nat /\ q.asked \in Nat /\ 0 < q.asked /\ q.pos + q.asked <= pdst'
    BY TransferAssumption DEF RequestsFit, RequestFits, Request, Positions
  <2>2. q.pos \in 0..(size - 1) /\ Covers(q, q.pos)
    BY <1>1, <1>3, <2>1 DEF Covers
  <2> QED BY <1>3, <2>2 DEF Settled
<1> QED BY <1>3, <1>4 DEF Complete

\* What holds of the phase while a request is under way.
LEMMA WhileCopying ==
  ASSUME TransferInv, NEW r \in requests
  PROVE  /\ phase \notin Before /\ verdict # <<"end">>
         /\ ~(phase = "ending" /\ ~destroyed)
         /\ ~hadError => phase = "copy" /\ verdict = << >>
BY DEF TransferInv, PhaseFits, VerdictFits, Complete, Before

LEMMA FaultTyped ==
  ASSUME TransferInv, faults' = faults \/ Fault, pauses' = pauses
  PROVE  BoundsTyped'
BY TransferAssumption DEF TransferInv, BoundsTyped, Fault

LEMMA WriteAnsweredStep ==
  ASSUME TransferInv, NEW r \in requests, WriteAnswered(r)
  PROVE  TransferInv'
<1>1. /\ r.kind = "write"
      /\ UNCHANGED <<channel, handles, buffer, verdict, pausing, destroyed, killed, pauses,
                     srcSize, size>>
  BY DEF WriteAnswered, userVars
<1>7. PICK nb \in 0..r.len : Written(r, nb)
  BY DEF WriteAnswered
<1>2. /\ r.slot \in Nat /\ r.pos \in Nat /\ r.len \in Nat /\ r.asked \in Nat
      /\ r.len <= r.asked /\ 0 < r.asked /\ r.asked <= Width
      /\ r.slot + Width <= size /\ r.pos + r.asked <= pdst
  BY RequestNumbers
<1>3. /\ pdst \in Nat /\ size \in Nat /\ Width \in Nat /\ total \in Nat /\ ChunkSize \in Nat
      /\ MaxSize \in Nat /\ size <= MaxSize /\ pdst <= size /\ Width <= size
      /\ srcSize \in 0..MaxSize /\ size \in 0..MaxSize
  BY Numbers DEF TransferInv, NumbersTyped
<1>4. BoundsTyped'
  BY <1>1, <1>7, FaultTyped DEF Written
<1>5. CASE hadError
  <2>1. requests' = requests \ {r} /\ UNCHANGED <<phase, pdst, hadError, total>>
    BY <1>5 DEF WriteAnswered
  <2>2. CopyInv'
    BY <1>1, <1>5, <2>1, RequestsDropped
  <2>3. FilesTyped'
    BY <1>1, <1>7, WriteTyped
  <2>4. StateTyped' /\ NumbersTyped'
    BY <1>1, <2>1 DEF TransferInv, StateTyped, NumbersTyped
  <2>5. PhaseFits' /\ VerdictFits'
    BY <1>1, <1>5, <2>1, WhileCopying DEF TransferInv, PhaseFits, VerdictFits
  <2> QED BY <1>4, <2>2, <2>3, <2>4, <2>5 DEF TransferInv
<1>6. CASE ~hadError
  <2>1. total' = total + r.len /\ total' \in Nat
    BY <1>2, <1>3, <1>6 DEF WriteAnswered
  <2>2. phase = "copy" /\ verdict = << >>
    BY <1>6, WhileCopying
  <2>3. CASE /\ r.len < r.asked
             /\ requests' = (requests \ {r}) \cup ReadRequest(r.slot, r.pos + r.len, r.asked - r.len)
             /\ UNCHANGED <<phase, pdst, hadError>>
    <3> DEFINE new == ReadRequest(r.slot, r.pos + r.len, r.asked - r.len)
    <3>1. /\ r.pos + r.len \in Nat /\ r.asked - r.len \in Nat /\ 0 < r.asked - r.len
          /\ r.asked - r.len <= Width /\ pdst' \in Nat /\ pdst' <= size /\ pdst <= pdst'
          /\ r.pos + r.len + (r.asked - r.len) = r.pos + r.asked
          /\ r.pos + r.len + (r.asked - r.len) <= pdst'
      BY <1>2, <1>3, <2>3
    <3>2. /\ \A m, n \in new : m = n
          /\ \A n \in new : RequestFits(n)' /\ n.slot = r.slot /\ n.pos = r.pos + r.len
                            /\ n.asked = r.asked - r.len
          /\ new = {} => destroyed
      BY <1>1, <1>2, <3>1, NextRequest
    <3>3. requests' = (requests \ {r}) \cup new
      BY <2>3
    <3> HIDE DEF new
    <3>4. \A n \in new :
             /\ RequestFits(n)' /\ n.slot = r.slot
             /\ \/ n.pos = r.pos + r.len /\ n.pos + n.asked = r.pos + r.asked /\ pdst' = pdst
                \/ r.len = r.asked /\ n.pos = pdst /\ n.pos + n.asked = pdst'
      BY <2>3, <3>1, <3>2
    <3>5. CopyInv' /\ FilesTyped'
      BY <1>7, <1>1, <1>6, <2>1, <3>1, <3>2, <3>3, <3>4, WriteSettles
    <3>6. StateTyped' /\ NumbersTyped' /\ PhaseFits' /\ VerdictFits'
      BY <1>1, <1>3, <1>6, <2>1, <2>2, <2>3
         DEF TransferInv, StateTyped, NumbersTyped, PhaseFits, VerdictFits, Before
    <3> QED BY <1>4, <3>5, <3>6 DEF TransferInv
  <2>4. CASE /\ r.len = r.asked /\ total' = size /\ Finish("end")
             /\ requests' = requests \ {r} /\ UNCHANGED pdst
    <3> DEFINE new == {}
    <3>1. /\ requests' = (requests \ {r}) \cup new /\ \A m, n \in new : m = n
          /\ new = {} => destroyed \/ (r.len = r.asked /\ pdst' = pdst)
          /\ \A n \in new :
               /\ RequestFits(n)' /\ n.slot = r.slot
               /\ \/ n.pos = r.pos + r.len /\ n.pos + n.asked = r.pos + r.asked /\ pdst' = pdst
                  \/ r.len = r.asked /\ n.pos = pdst /\ n.pos + n.asked = pdst'
      BY <2>4
    <3> HIDE DEF new
    <3>2. pdst' \in Nat /\ pdst <= pdst' /\ pdst' <= size
      BY <1>3, <2>4
    <3>3. /\ CopyInv' /\ FilesTyped'
          /\ ~destroyed => total' = Cardinality(Settled') /\ \A p \in Settled' : Placed(p)'
      BY <1>7, <1>1, <1>6, <2>1, <3>1, <3>2, WriteSettles
    <3>4. ~destroyed => Complete'
      BY <1>1, <2>4, <3>3, AllSettled DEF CopyInv
    <3>5. phase' = "ending" /\ hadError' = TRUE
      BY <2>4 DEF Finish
    <3>6. StateTyped' /\ NumbersTyped' /\ PhaseFits' /\ VerdictFits'
      BY <1>1, <1>3, <2>1, <2>2, <2>4, <3>4, <3>5
         DEF TransferInv, StateTyped, NumbersTyped, PhaseFits, VerdictFits, Before, Phases
    <3> QED BY <1>4, <3>3, <3>6 DEF TransferInv
  <2>5. CASE /\ r.len = r.asked
             /\ requests' = (requests \ {r}) \cup
                  (IF pdst < size THEN ReadRequest(r.slot, pdst, ChunkAt(pdst)) ELSE {})
             /\ pdst' = IF pdst < size THEN pdst + ChunkAt(pdst) ELSE pdst
             /\ UNCHANGED <<phase, hadError>>
    <3> DEFINE new == IF pdst < size THEN ReadRequest(r.slot, pdst, ChunkAt(pdst)) ELSE {}
    <3>1. pdst < size => /\ ChunkAt(pdst) \in Nat /\ 0 < ChunkAt(pdst) /\ ChunkAt(pdst) <= Width
                         /\ pdst + ChunkAt(pdst) <= size
      BY <1>3, TransferAssumption DEF ChunkAt, Smaller, Width
    <3>2. pdst' \in Nat /\ pdst' <= size /\ pdst <= pdst'
      BY <1>3, <2>5, <3>1
    <3>3. /\ \A m, n \in new : m = n
          /\ \A n \in new : RequestFits(n)' /\ n.slot = r.slot /\ n.pos = pdst
                            /\ n.pos + n.asked = pdst'
          /\ new = {} => destroyed \/ pdst' = pdst
      <4>1. CASE pdst < size
        <5>1. pdst' = pdst + ChunkAt(pdst)
          BY <2>5, <4>1
        <5>2. /\ \A m, n \in ReadRequest(r.slot, pdst, ChunkAt(pdst)) : m = n
              /\ \A n \in ReadRequest(r.slot, pdst, ChunkAt(pdst)) :
                   RequestFits(n)' /\ n.slot = r.slot /\ n.pos = pdst /\ n.asked = ChunkAt(pdst)
              /\ ReadRequest(r.slot, pdst, ChunkAt(pdst)) = {} => destroyed
          BY <1>1, <1>2, <1>3, <3>1, <3>2, <4>1, <5>1, NextRequest
        <5> QED BY <4>1, <5>1, <5>2
      <4>2. CASE ~(pdst < size)
        BY <2>5, <4>2
      <4> QED BY <4>1, <4>2
    <3>4. requests' = (requests \ {r}) \cup new
      BY <2>5
    <3> HIDE DEF new
    <3>5. CopyInv' /\ FilesTyped'
      BY <1>7, <1>1, <1>6, <2>1, <2>5, <3>2, <3>3, <3>4, WriteSettles
    <3>6. StateTyped' /\ NumbersTyped' /\ PhaseFits' /\ VerdictFits'
      BY <1>1, <1>3, <1>6, <2>1, <2>2, <2>5, <3>2
         DEF TransferInv, StateTyped, NumbersTyped, PhaseFits, VerdictFits, Before
    <3> QED BY <1>4, <3>5, <3>6 DEF TransferInv
  <2> QED BY <1>6, <2>3, <2>4, <2>5 DEF WriteAnswered
<1> QED BY <1>5, <1>6

-----------------------------------------------------------------------------
(* startReads: the first reads tile the beginning of the file and the buffer. *)

LEMMA Quotient ==
  ASSUME NEW n \in Nat, NEW c \in Nat \ {0}
  PROVE  n \div c \in Nat /\ (n \div c) * c <= n /\ n < (n \div c) * c + c
OBVIOUS

LEMMA Multiples ==
  ASSUME NEW j \in Nat, NEW k \in Nat, NEW c \in Nat, j < k
  PROVE  j * c \in Nat /\ k * c \in Nat /\ j * c + c <= k * c
<1>1. PICK d \in Nat : k = j + 1 + d
  <2>1. k - j - 1 \in Nat /\ k = j + 1 + (k - j - 1)
    OBVIOUS
  <2> QED BY <2>1
<1>2. k * c = j * c + c + d * c /\ d * c \in Nat /\ j * c \in Nat
  BY <1>1
<1> QED BY <1>2

LEMMA Tiles ==
  ASSUME TransferInv, size > 0, pdst' = Smaller(Slots * ChunkSize, size)
  PROVE  /\ Slots \in Nat /\ 0 < Slots /\ pdst' \in Nat /\ pdst' <= size /\ 0 < Width
         /\ \A k \in 0..(Slots - 1) :
              /\ k * ChunkSize \in Nat /\ ChunkAt(k * ChunkSize) = Width
              /\ k * ChunkSize + Width <= pdst'
         /\ \A j, k \in 0..(Slots - 1) : j < k => j * ChunkSize + Width <= k * ChunkSize
         /\ \A p \in 0..(pdst' - 1) : \E k \in 0..(Slots - 1) :
              k * ChunkSize <= p /\ p < k * ChunkSize + Width
<1>1. ChunkSize \in Nat \ {0} /\ Concurrency \in Nat \ {0} /\ size \in Nat
  BY TransferAssumption, Numbers
<1>2. CASE size < ChunkSize
  <2>1. Slots = 1 /\ Width = size /\ 0 * ChunkSize = 0 /\ 1 * ChunkSize = ChunkSize
        /\ 0..(Slots - 1) = {0}
    BY <1>1, <1>2 DEF Slots, Width, Smaller
  <2>2. pdst' = size /\ ChunkAt(0) = size
    BY <1>1, <1>2, <2>1 DEF ChunkAt, Smaller
  <2>3. \A p \in 0..(pdst' - 1) : 0 <= p /\ p < 0 + Width
    BY <1>1, <2>1, <2>2
  <2> QED BY <1>1, <2>1, <2>2, <2>3
<1>3. CASE ~(size < ChunkSize)
  <2>1. /\ size \div ChunkSize \in Nat /\ (size \div ChunkSize) * ChunkSize <= size
        /\ size < (size \div ChunkSize) * ChunkSize + ChunkSize
    BY <1>1, Quotient
  <2>2. 0 < size \div ChunkSize
    <3>1. size \div ChunkSize # 0
      BY <1>1, <1>3, <2>1
    <3> QED BY <2>1, <3>1
  <2>3. Slots \in Nat /\ 0 < Slots /\ Slots <= size \div ChunkSize
    BY <1>1, <1>3, <2>1, <2>2 DEF Slots, Smaller
  <2>4. Slots * ChunkSize \in Nat /\ Slots * ChunkSize <= size
    <3>1. CASE Slots = size \div ChunkSize
      BY <1>1, <2>1, <2>3, <3>1
    <3>2. CASE Slots < size \div ChunkSize
      BY <1>1, <2>1, <2>3, <3>2, Multiples
    <3> QED BY <2>1, <2>3, <3>1, <3>2
  <2>5. Width = ChunkSize /\ pdst' = Slots * ChunkSize
    BY <1>1, <1>3, <2>4 DEF Width, Smaller
  <2>6. ASSUME NEW k \in 0..(Slots - 1)
        PROVE  /\ k * ChunkSize \in Nat /\ ChunkAt(k * ChunkSize) = Width
               /\ k * ChunkSize + Width <= pdst'
    <3>1. k \in Nat /\ k < Slots
      BY <2>3
    <3>2. k * ChunkSize \in Nat /\ k * ChunkSize + ChunkSize <= Slots * ChunkSize
      BY <1>1, <2>3, <3>1, Multiples
    <3> QED BY <1>1, <2>4, <2>5, <3>2 DEF ChunkAt, Smaller
  <2>7. ASSUME NEW j \in 0..(Slots - 1), NEW k \in 0..(Slots - 1), j < k
        PROVE  j * ChunkSize + Width <= k * ChunkSize
    BY <1>1, <2>5, <2>7, Multiples
  <2>8. ASSUME NEW p \in 0..(pdst' - 1)
        PROVE  \E k \in 0..(Slots - 1) : k * ChunkSize <= p /\ p < k * ChunkSize + Width
    <3> DEFINE k == p \div ChunkSize
    <3>1. p \in Nat /\ p < Slots * ChunkSize
      BY <2>4, <2>5
    <3>2. k \in Nat /\ k * ChunkSize <= p /\ p < k * ChunkSize + ChunkSize
      BY <1>1, <3>1, Quotient
    <3> HIDE DEF k
    <3>3. k < Slots
      <4>1. k # Slots
        BY <1>1, <2>4, <3>1, <3>2
      <4>2. ASSUME Slots < k PROVE FALSE
        <5>1. Slots * ChunkSize + ChunkSize <= k * ChunkSize /\ k * ChunkSize \in Nat
          BY <1>1, <2>3, <3>2, <4>2, Multiples
        <5> QED BY <1>1, <2>4, <3>1, <3>2, <5>1
      <4> QED BY <2>3, <3>2, <4>1, <4>2
    <3>4. k \in 0..(Slots - 1)
      BY <2>3, <3>2, <3>3
    <3> QED BY <2>5, <3>2, <3>4
  <2>9. pdst' \in Nat /\ pdst' <= size /\ 0 < Width
    BY <1>1, <2>4, <2>5
  <2> QED BY <2>3, <2>6, <2>7, <2>8, <2>9
<1> QED BY <1>2, <1>3

LEMMA ModeSetStep ==
  ASSUME TransferInv, ModeSet
  PROVE  TransferInv'
<1>1. /\ requests = {} /\ pdst = 0 /\ total = 0 /\ size > 0 /\ size \in Nat
      /\ verdict = << >> /\ hadError = FALSE
  BY Numbers DEF ModeSet, TransferInv, PhaseFits, Before, StateTyped
<1>2. /\ phase' = "copy" /\ pdst' = Smaller(Slots * ChunkSize, size)
      /\ requests' = UNION {ReadRequest(k * ChunkSize, k * ChunkSize, ChunkAt(k * ChunkSize)) :
                              k \in 0..(Slots - 1)}
      /\ UNCHANGED <<channel, handles, buffer, target, cut, total, hadError, verdict, pausing,
                     destroyed, killed, pauses, srcSize, size, faults>>
  BY DEF ModeSet, userVars
<1>3. /\ pdst' \in Nat /\ pdst' <= size /\ 0 < Width /\ Width \in Nat
      /\ \A k \in 0..(Slots - 1) :
           /\ k * ChunkSize \in Nat /\ ChunkAt(k * ChunkSize) = Width
           /\ k * ChunkSize + Width <= pdst'
      /\ \A j, k \in 0..(Slots - 1) : j < k => j * ChunkSize + Width <= k * ChunkSize
      /\ \A p \in 0..(pdst' - 1) : \E k \in 0..(Slots - 1) :
           k * ChunkSize <= p /\ p < k * ChunkSize + Width
      /\ Slots \in Nat
  BY <1>1, <1>2, Tiles, Numbers
<1> DEFINE reads(k) == ReadRequest(k * ChunkSize, k * ChunkSize, ChunkAt(k * ChunkSize))
<1>4. ASSUME NEW k \in 0..(Slots - 1)
      PROVE  /\ \A m, n \in reads(k) : m = n
             /\ \A n \in reads(k) : /\ RequestFits(n)' /\ n.slot = k * ChunkSize
                                    /\ n.pos = k * ChunkSize /\ n.asked = Width
             /\ reads(k) = {} => destroyed
  <2> DEFINE at == k * ChunkSize
             len == ChunkAt(k * ChunkSize)
  <2>1. /\ at \in Nat /\ len = Width /\ len \in Nat /\ 0 < len /\ len <= Width
        /\ at + Width <= pdst' /\ at + len <= pdst' /\ at + Width <= size
    BY <1>1, <1>3
  <2>2. reads(k) = ReadRequest(at, at, len)
    OBVIOUS
  <2> HIDE DEF at, len, reads
  <2>3. /\ \A m, n \in ReadRequest(at, at, len) : m = n
        /\ \A n \in ReadRequest(at, at, len) :
             RequestFits(n)' /\ n.slot = at /\ n.pos = at /\ n.asked = len
        /\ ReadRequest(at, at, len) = {} => destroyed
    BY <1>2, <1>3, <2>1, NextRequest
  <2> QED BY <2>1, <2>2, <2>3 DEF at
<1>5. \A n \in requests' : \E k \in 0..(Slots - 1) : n \in reads(k)
  BY <1>2
<1>6. \A k \in 0..(Slots - 1) : reads(k) \subseteq requests'
  BY <1>2
<1> HIDE DEF reads
<1>7. RequestsFit'
  BY <1>4, <1>5 DEF RequestsFit
<1>8. RequestsApart'
  <2> SUFFICES ASSUME NEW q \in requests', NEW r \in requests', q # r PROVE Apart(q, r)'
    BY DEF RequestsApart
  <2>1. PICK j \in 0..(Slots - 1) : q \in reads(j)
    BY <1>5
  <2>2. PICK k \in 0..(Slots - 1) : r \in reads(k)
    BY <1>5
  <2>3. j # k
    BY <1>4, <2>1, <2>2
  <2>4. /\ q.slot = j * ChunkSize /\ q.pos = j * ChunkSize /\ q.asked = Width
        /\ r.slot = k * ChunkSize /\ r.pos = k * ChunkSize /\ r.asked = Width
    BY <1>4, <2>1, <2>2
  <2>5. j * ChunkSize + Width <= k * ChunkSize \/ k * ChunkSize + Width <= j * ChunkSize
    <3>1. j < k \/ k < j
      BY <1>3, <2>3
    <3> QED BY <1>3, <3>1
  <2>6. Width' = Width
    BY <1>2 DEF Width
  <2> QED BY <2>4, <2>5, <2>6 DEF Apart
<1>9. ~destroyed => Settled' = {}
  <2> SUFFICES ASSUME ~destroyed, NEW p \in Settled' PROVE FALSE
    OBVIOUS
  <2>1. p \in 0..(pdst' - 1) /\ \A r \in requests' : ~Covers(r, p)
    BY DEF Settled
  <2>2. PICK k \in 0..(Slots - 1) : k * ChunkSize <= p /\ p < k * ChunkSize + Width
    BY <1>3, <2>1
  <2>3. PICK n \in reads(k) : n.pos = k * ChunkSize /\ n.asked = Width
    BY <1>4
  <2>4. Covers(n, p) /\ n \in requests'
    BY <1>6, <2>2, <2>3 DEF Covers
  <2> QED BY <2>1, <2>4
<1>10. Counted'
  <2>1. Cardinality(Settled') \in Nat /\ total' = 0
    BY <1>1, <1>2, <1>3, NextSettledFinite
  <2>2. ~destroyed => Cardinality(Settled') = 0
    BY <1>9, FS_EmptySet
  <2> QED BY <1>2, <1>9, <2>1, <2>2 DEF Counted
<1>11. StateTyped' /\ BoundsTyped' /\ FilesTyped' /\ NumbersTyped'
  BY <1>1, <1>2, <1>3
     DEF TransferInv, StateTyped, BoundsTyped, FilesTyped, NumbersTyped, Phases
<1>12. PhaseFits' /\ VerdictFits'
  BY <1>1, <1>2 DEF TransferInv, PhaseFits, VerdictFits, Before
<1> QED BY <1>7, <1>8, <1>10, <1>11, <1>12 DEF TransferInv, CopyInv

-----------------------------------------------------------------------------
(* The other actions. *)

\* An answer, or a timer, of a request under way that leaves the phase alone.
LEMMA AnswerKeeps ==
  ASSUME TransferInv, NEW r \in requests, CopyInv', FilesTyped', BoundsTyped',
         UNCHANGED <<phase, channel, handles, pdst, total, hadError, verdict, pausing,
                     destroyed, killed, srcSize, size>>
  PROVE  TransferInv'
<1>1. StateTyped' /\ NumbersTyped'
  BY DEF TransferInv, StateTyped, NumbersTyped
<1>2. PhaseFits' /\ VerdictFits'
  BY WhileCopying DEF TransferInv, PhaseFits, VerdictFits, Before
<1> QED BY <1>1, <1>2 DEF TransferInv

LEMMA ReadAnsweredStep ==
  ASSUME TransferInv, NEW r \in requests, ReadAnswered(r)
  PROVE  TransferInv'
<1>1. CopyInv' /\ FilesTyped'
  BY ReadAnsweredKeepsCopy
<1>2. /\ UNCHANGED <<phase, channel, handles, pdst, total, hadError, verdict, pausing,
                     destroyed, killed, srcSize, size>>
      /\ (faults' = faults \/ Fault) /\ pauses' = pauses
  BY DEF ReadAnswered, userVars
<1>3. BoundsTyped'
  BY <1>2, FaultTyped DEF ReadAnswered, userVars
<1> QED BY <1>1, <1>2, <1>3, AnswerKeeps

LEMMA TimerFiresStep ==
  ASSUME TransferInv, NEW r \in requests, TimerFires(r)
  PROVE  TransferInv'
<1>1. CopyInv' /\ FilesTyped'
  BY TimerFiresKeepsCopy
<1>2. /\ UNCHANGED <<phase, channel, handles, pdst, total, hadError, verdict, pausing,
                     destroyed, killed, srcSize, size>>
      /\ faults' = faults /\ pauses' = pauses
  BY DEF TimerFires, userVars
<1>3. BoundsTyped'
  BY <1>2, FaultTyped
<1> QED BY <1>1, <1>2, <1>3, AnswerKeeps

LEMMA RequestFailsStep ==
  ASSUME TransferInv, NEW r \in requests, RequestFails(r)
  PROVE  TransferInv'
<1>1. /\ requests' = requests \ {r} /\ Fault
      /\ UNCHANGED <<channel, handles, buffer, target, cut, pdst, total, verdict, pausing,
                     destroyed, killed, pauses, srcSize, size>>
      /\ hadError' = TRUE
      /\ IF hadError THEN phase' = phase ELSE phase' = "failing"
  BY DEF RequestFails, Finish, userVars, TransferInv, StateTyped
<1>2. CopyInv'
  BY <1>1, RequestsDropped
<1>3. FilesTyped' /\ NumbersTyped' /\ BoundsTyped'
  BY <1>1, FaultTyped DEF TransferInv, FilesTyped, NumbersTyped
<1>4. StateTyped'
  BY <1>1 DEF TransferInv, StateTyped, Phases
<1>5. PhaseFits' /\ VerdictFits'
  BY <1>1, WhileCopying DEF TransferInv, PhaseFits, VerdictFits, Before
<1> QED BY <1>2, <1>3, <1>4, <1>5 DEF TransferInv

LEMMA AnswerOnce ==
  ASSUME TransferInv, phase # "over", NEW word \in {"end", "err"}
  PROVE  /\ verdict = << >>
         /\ Answer(word) = (IF destroyed THEN << >> ELSE <<word>>)
         /\ Answer(word) \in Seq({"end", "err"}) /\ Len(Answer(word)) <= 1
         /\ Answer(word) = <<"end">> => word = "end" /\ ~destroyed
<1>1. verdict = << >>
  BY DEF TransferInv, PhaseFits
<1>2. CASE destroyed
  BY <1>1, <1>2 DEF Answer
<1>3. CASE ~destroyed
  <2>1. Answer(word) = <<word>>
    BY <1>1, <1>3 DEF Answer
  <2>2. <<word>> \in Seq({"end", "err"}) /\ Len(<<word>>) = 1 /\ <<word>>[1] = word
    OBVIOUS
  <2>3. <<word>> = <<"end">> => word = "end"
    OBVIOUS
  <2> QED BY <1>1, <1>3, <2>1, <2>2, <2>3
<1> QED BY <1>2, <1>3

\* Up to the opening of the target, nothing is copied.
LEMMA OpeningStep ==
  ASSUME TransferInv, ChannelAnswered \/ SourceOpened \/ Measured \/ TargetOpened
  PROVE  TransferInv'
<1>1. /\ phase \in {"channel", "open", "stat", "dstopen"} /\ requests = {} /\ pdst = 0 /\ total = 0
      /\ verdict = << >> /\ hadError = FALSE
  BY DEF ChannelAnswered, SourceOpened, Measured, TargetOpened, TransferInv, PhaseFits, Before,
         StateTyped
<1>2. /\ UNCHANGED <<requests, buffer, target, cut, pdst, total, srcSize, pausing, destroyed, killed,
                     pauses>>
      /\ faults' = faults \/ Fault
  BY DEF ChannelAnswered, SourceOpened, Measured, TargetOpened, copyVars, userVars
<1>3. size' \in 0..MaxSize /\ size' \in Nat
  BY <1>2, Numbers
     DEF TransferInv, NumbersTyped, ChannelAnswered, SourceOpened, Measured, TargetOpened
<1>4. /\ phase' \in {"open", "broken", "over", "stat", "dstopen", "ending", "chmod"}
      /\ hadError' = (phase' = "ending")
      /\ phase' = "ending" => size' = 0
      /\ phase' = "chmod" => size' > 0
      /\ handles' \subseteq {"src", "dst"} /\ channel' \in {"none", "open", "closed"}
      /\ verdict' = verdict \/ (phase' = "over" /\ verdict' = Answer("err"))
  <2>1. CASE ChannelAnswered
    BY <1>1, <2>1 DEF ChannelAnswered, TransferInv, StateTyped, copyVars
  <2>2. CASE SourceOpened
    BY <1>1, <2>2 DEF SourceOpened, TransferInv, StateTyped, copyVars
  <2>3. CASE Measured
    BY <1>1, <2>3 DEF Measured, TransferInv, StateTyped, copyVars
  <2>4. CASE TargetOpened
    <3>1. size \in Nat /\ size' = size
      BY <2>4, Numbers DEF TargetOpened
    <3>2. /\ handles \subseteq {"src", "dst"} /\ channel \in {"none", "open", "closed"}
          /\ channel' = channel
      BY <2>4 DEF TargetOpened, TransferInv, StateTyped
    <3>3. CASE /\ phase' = "over" /\ UNCHANGED <<handles, hadError>>
               /\ verdict' = Answer("err") \/ verdict' = verdict
      BY <1>1, <3>1, <3>2, <3>3
    <3>4. CASE /\ handles' = handles \cup {"dst"} /\ verdict' = verdict
               /\ phase' = IF size = 0 THEN "ending" ELSE "chmod"
               /\ hadError' = (size = 0)
      <4>1. CASE size = 0
        BY <3>1, <3>2, <3>4, <4>1
      <4>2. CASE size # 0
        BY <3>1, <3>2, <3>4, <4>2
      <4> QED BY <4>1, <4>2
    <3> QED BY <2>4, <3>3, <3>4 DEF TargetOpened
  <2> QED BY <2>1, <2>2, <2>3, <2>4
<1>5. /\ verdict' \in Seq({"end", "err"}) /\ Len(verdict') <= 1 /\ verdict' # <<"end">>
      /\ verdict' # << >> => phase' = "over"
  <2>1. /\ Answer("err") \in Seq({"end", "err"}) /\ Len(Answer("err")) <= 1
        /\ Answer("err") # <<"end">>
    BY <1>1, AnswerOnce
  <2>2. << >> \in Seq({"end", "err"}) /\ Len(<< >>) = 0 /\ << >> # <<"end">>
    OBVIOUS
  <2>3. CASE verdict' = << >>
    BY <2>2, <2>3
  <2>4. CASE phase' = "over" /\ verdict' = Answer("err")
    BY <2>1, <2>4
  <2> QED BY <1>1, <1>4, <2>3, <2>4
<1>6. CopyInv'
  BY <1>1, <1>2, CopyUntouched
<1>7. FilesTyped' /\ BoundsTyped' /\ NumbersTyped'
  BY <1>1, <1>2, <1>3, FaultTyped DEF TransferInv, FilesTyped, NumbersTyped
<1>8. StateTyped'
  <2>1. hadError' \in BOOLEAN
    BY <1>4
  <2>2. phase' \in Phases
    BY <1>4 DEF Phases
  <2> QED BY <1>2, <1>4, <1>5, <2>1, <2>2 DEF TransferInv, StateTyped
<1>9. PhaseFits'
  <2>1. hadError' => phase' = "ending"
    BY <1>4
  <2>2. /\ requests' = {} /\ pdst' = 0 /\ total' = 0
        /\ phase' = "chmod" => size' > 0
        /\ verdict' # << >> => phase' = "over"
    BY <1>1, <1>2, <1>4, <1>5
  <2> QED BY <2>1, <2>2 DEF PhaseFits
<1>10. VerdictFits'
  <2>1. phase' = "ending" => Complete'
    BY <1>1, <1>2, <1>4 DEF Complete
  <2> QED BY <1>5, <2>1 DEF VerdictFits
<1> QED BY <1>6, <1>7, <1>8, <1>9, <1>10 DEF TransferInv

LEMMA HandlesClosedStep ==
  ASSUME TransferInv, HandlesClosed
  PROVE  TransferInv'
<1>1. /\ phase \in {"ending", "failing"} /\ phase' = "over" /\ handles' = {}
      /\ verdict' = Answer(IF phase = "ending" THEN "end" ELSE "err")
      /\ UNCHANGED <<channel, requests, buffer, target, cut, pdst, total, hadError, pausing, destroyed,
                     killed, pauses, srcSize, size, faults>>
  BY DEF HandlesClosed, copyVars, userVars
<1>2. /\ verdict' \in Seq({"end", "err"}) /\ Len(verdict') <= 1
      /\ verdict' = <<"end">> => phase = "ending" /\ ~destroyed
  BY <1>1, AnswerOnce
<1>3. CopyInv'
  BY <1>1, CopyUntouched
<1>4. FilesTyped' /\ BoundsTyped' /\ NumbersTyped' /\ StateTyped'
  BY <1>1, <1>2 DEF TransferInv, FilesTyped, NumbersTyped, BoundsTyped, StateTyped, Phases
<1>5. PhaseFits' /\ VerdictFits'
  BY <1>1, <1>2 DEF TransferInv, PhaseFits, VerdictFits, Complete, Placed, Before
<1> QED BY <1>3, <1>4, <1>5 DEF TransferInv

LEMMA UserStep ==
  ASSUME TransferInv, Pause \/ Resume \/ Kill \/ SourceShrinks \/ UNCHANGED vars
  PROVE  TransferInv'
<1>1. UNCHANGED <<phase, requests, buffer, target, cut, pdst, total, hadError, verdict, destroyed, size>>
  BY DEF Pause, Resume, Kill, SourceShrinks, copyVars, userVars, vars
<1>2. /\ pausing' \in BOOLEAN /\ killed' \in BOOLEAN /\ handles' \subseteq {"src", "dst"}
      /\ channel' \in {"none", "open", "closed"}
  BY DEF Pause, Resume, Kill, SourceShrinks, copyVars, userVars, vars, TransferInv, StateTyped
<1>3. BoundsTyped'
  BY TransferAssumption
     DEF Pause, Resume, Kill, SourceShrinks, userVars, vars, TransferInv, BoundsTyped, Fault
<1>4. srcSize' \in 0..MaxSize
  BY TransferAssumption
     DEF Pause, Resume, Kill, SourceShrinks, vars, TransferInv, NumbersTyped
<1>5. CopyInv'
  BY <1>1, CopyUntouched
<1>6. FilesTyped' /\ NumbersTyped' /\ StateTyped'
  BY <1>1, <1>2, <1>4 DEF TransferInv, FilesTyped, NumbersTyped, StateTyped
<1>7. PhaseFits' /\ VerdictFits'
  BY <1>1 DEF TransferInv, PhaseFits, VerdictFits, Complete, Placed
<1> QED BY <1>3, <1>5, <1>6, <1>7 DEF TransferInv

LEMMA DestroyStep ==
  ASSUME TransferInv, Destroy
  PROVE  TransferInv'
<1>1. /\ destroyed' = TRUE /\ requests' \subseteq requests
      /\ UNCHANGED <<phase, channel, handles, buffer, target, cut, pdst, total, hadError, verdict,
                     pausing, killed, pauses, srcSize, size, faults>>
  BY DEF Destroy
<1>2. CopyInv'
  BY <1>1, RequestsDropped
<1>3. FilesTyped' /\ NumbersTyped' /\ StateTyped' /\ BoundsTyped'
  BY <1>1 DEF TransferInv, FilesTyped, NumbersTyped, StateTyped, BoundsTyped
<1>4. PhaseFits' /\ VerdictFits'
  BY <1>1 DEF TransferInv, PhaseFits, VerdictFits, Complete, Placed
<1> QED BY <1>2, <1>3, <1>4 DEF TransferInv

LEMMA TransferInit ==
  ASSUME Init
  PROVE  TransferInv
<1>1. StateTyped /\ FilesTyped
  <2>1. verdict \in Seq({"end", "err"})
    BY DEF Init
  <2>2. StateTyped
    BY <2>1 DEF Init, StateTyped, Phases
  <2>3. FilesTyped
    BY DEF Init, FilesTyped
  <2> QED BY <2>2, <2>3
<1>2. NumbersTyped /\ BoundsTyped
  BY TransferAssumption DEF Init, NumbersTyped, BoundsTyped
<1>3. Settled = {}
  BY DEF Settled, Init
<1>4. CopyInv
  BY <1>3, FS_EmptySet DEF Init, CopyInv, RequestsFit, RequestsApart, Counted
<1>5. PhaseFits /\ VerdictFits
  BY DEF Init, PhaseFits, VerdictFits, Before
<1> QED BY <1>1, <1>2, <1>4, <1>5 DEF TransferInv

LEMMA TransferStep ==
  ASSUME TransferInv, [Next]_vars
  PROVE  TransferInv'
<1>1. ASSUME NEW r \in requests,
             ReadAnswered(r) \/ WriteAnswered(r) \/ RequestFails(r) \/ TimerFires(r)
      PROVE  TransferInv'
  BY <1>1, ReadAnsweredStep, WriteAnsweredStep, RequestFailsStep, TimerFiresStep
<1> QED
  BY <1>1, OpeningStep, ModeSetStep, HandlesClosedStep, UserStep, DestroyStep
     DEF Next, FileAnswers

-----------------------------------------------------------------------------
(* The theorems. *)

\* The bookkeeping of the copy is right in every reachable state: stretches
\* and slots stay apart, the count is the number of settled positions, and
\* the total never exceeds the size (TypeOK).
THEOREM TransferInvariance == Spec => [](TypeOK /\ TransferInv)
<1>1. TransferInv => TypeOK
  <2> SUFFICES ASSUME TransferInv PROVE TypeOK
    OBVIOUS
  <2>1. total \in 0..size
    <3>1. total <= Cardinality(Settled)
      BY DEF TransferInv, CopyInv, Counted
    <3> QED BY <3>1, Numbers, SettledFinite
  <2>2. requests \subseteq Request
    BY RequestNumbers
  <2> QED
    BY <2>1, <2>2
       DEF TypeOK, TransferInv, StateTyped, BoundsTyped, FilesTyped, NumbersTyped
<1>2. Init => TransferInv
  BY TransferInit
<1>3. TransferInv /\ [Next]_vars => TransferInv'
  BY TransferStep
<1> QED BY <1>1, <1>2, <1>3, PTL DEF Spec

\* fastXfer: a transfer is reported once, and reported complete only when
\* every byte of the source is in its place, whatever the order and the
\* length of the answers, for any sizes and any number of reads under way.
\* The one exception is what the local file system left out of a write of a
\* download, which writeCb counts as written.
THEOREM TransferVerdict == Spec => []VerdictIsTrue
<1>1. TransferInv => VerdictIsTrue
  BY DEF TransferInv, FilesTyped, VerdictFits, VerdictIsTrue, Complete, Placed
<1> QED BY <1>1, TransferInvariance, PTL

\* onDestroy: a destroyed transfer starts no read and no write any more.
THEOREM TransferQuiet == Spec => QuietAfterDestroy
<1>1. ASSUME [Next]_vars, destroyed PROVE requests' \subseteq requests
  <2>1. ASSUME NEW r \in requests,
               ReadAnswered(r) \/ WriteAnswered(r) \/ RequestFails(r) \/ TimerFires(r)
        PROVE  requests' \subseteq requests
    BY <1>1, <2>1, ReadRequestMade DEF ReadAnswered, WriteAnswered, RequestFails, TimerFires
  <2>2. ASSUME ModeSet PROVE requests' \subseteq requests
    BY <1>1, <2>2 DEF ModeSet, ReadRequest
  <2>3. CASE \/ ChannelAnswered \/ SourceOpened \/ Measured \/ TargetOpened \/ HandlesClosed
             \/ Pause \/ Resume \/ Destroy \/ Kill \/ SourceShrinks \/ UNCHANGED vars
    BY <2>3 DEF ChannelAnswered, SourceOpened, Measured, TargetOpened, HandlesClosed, Pause,
                Resume, Destroy, Kill, SourceShrinks, copyVars, vars
  <2> QED BY <1>1, <2>1, <2>2, <2>3 DEF Next, FileAnswers
<1>2. [Next]_vars => [destroyed => requests' \subseteq requests]_vars
  BY <1>1
<1> QED BY <1>2, PTL DEF Spec, QuietAfterDestroy

-----------------------------------------------------------------------------
(***************************************************************************)
(* Proofs about TransferList, for every set of transfers and of batches,   *)
(* every number of places and of clicks and whatever policies tool calls   *)
(* bring: no more transfers run than there are places, and every copy onto *)
(* a target found to exist follows an answer, or a tool call's policy once *)
(* there is one.                                                           *)
(*                                                                         *)
(* The scheduler counts the transfers that run and those whose start is    *)
(* still in the queue.  The count is right because a start is queued once, *)
(* for a transfer that waits, and stays counted (pendingInitIds) until it  *)
(* is applied, so that a place is never given twice.  An answer reaches    *)
(* the right copy because the dialog holds each transfer once, and because *)
(* a policy left with a component is the last answer for its transfer for  *)
(* as long as its target has not been looked up.                           *)
(***************************************************************************)
List == INSTANCE TransferList

-----------------------------------------------------------------------------
(* The inductive invariant. *)

\* What TransferList assumes of its constants.
ListFits ==
  /\ IsFiniteSet(Transfers) /\ List!None \notin Transfers /\ "stuck" \notin Transfers
  /\ MaxTransport \in Nat /\ MaxClicks \in Nat /\ Given \subseteq Transfers
  /\ List!None \notin McpPolicies

Pending == {"new", "waiting", "source", "target"}

\* A transfer is listed once, and what is listed and not started waits.
EntriesFit ==
  /\ \A t \in Transfers : stage[t] = "new" => t \notin List!Listed \cup inited \cup pendingInitIds
  /\ \A t \in List!Listed \ inited : stage[t] = "waiting"

\* A start is queued or applied once, for a transfer that is not started.
Starting == {i \in DOMAIN opQueue : opQueue[i].do = "init"}
StartFits(t) == stage[t] # "new" /\ t \notin inited /\ (t \in List!Listed => t \in pendingInitIds)
StartsFit ==
  /\ \A i \in Starting : StartFits(opQueue[i].id) /\ opQueue[i].id # current
  /\ \A i, j \in Starting : opQueue[i].id = opQueue[j].id => i = j
  /\ current \in Transfers => StartFits(current) /\ current \in List!Listed

\* What the scheduler counts.
TakenSlots == (List!Listed \ paused) \cap (inited \cup pendingInitIds)
SlotsFit == ~resumed => Cardinality(TakenSlots) <= MaxTransport

\* The dialog asks about each transfer that waits for it once.
DialogFits ==
  /\ List!IsInjective(asking) /\ active \notin List!ToSet(asking)
  /\ \A t \in List!ToSet(asking) : stage[t] = "asked"
  /\ active # List!None => stage[active] = "asked"

\* A policy left with a component is the answer that holds for its transfer.
AnswerFits(t) ==
  /\ stage[t] \in Pending /\ resolvePolicy[t] # List!None => answer[t] = resolvePolicy[t]
  /\ stage[t] \in Pending => found[t] = List!None
  /\ stage[t] \in Pending \cup {"asked"} => wrote[t] = List!None
  /\ stage[t] = "asked" => found[t] = "exists"
AnswersFit == \A t \in Transfers : AnswerFits(t)

ListInv ==
  /\ ListFits /\ List!TypeOK
  /\ EntriesFit /\ StartsFit /\ SlotsFit
  /\ DialogFits /\ AnswersFit /\ List!CopiesAsAnswered

-----------------------------------------------------------------------------
(* Sequences and sets. *)

LEMMA Members ==
  ASSUME NEW S, NEW s \in Seq(S)
  PROVE  /\ Len(s) \in Nat /\ DOMAIN s = 1..Len(s) /\ List!ToSet(s) \subseteq S
         /\ \A x : x \in List!ToSet(s) <=> \E i \in 1..Len(s) : s[i] = x
<1>1. Len(s) \in Nat /\ DOMAIN s = 1..Len(s) /\ \A i \in 1..Len(s) : s[i] \in S
  OBVIOUS
<1>2. \A x : x \in List!ToSet(s) <=> \E i \in 1..Len(s) : s[i] = x
  BY <1>1 DEF List!ToSet
<1> QED BY <1>1, <1>2

LEMMA Joined ==
  ASSUME NEW S, NEW s \in Seq(S), NEW r \in Seq(S)
  PROVE  /\ s \o r \in Seq(S) /\ Len(s \o r) = Len(s) + Len(r)
         /\ \A i \in 1..Len(s) : (s \o r)[i] = s[i]
         /\ \A i \in 1..Len(s \o r) : ~(i <= Len(s))
              => i - Len(s) \in 1..Len(r) /\ (s \o r)[i] = r[i - Len(s)]
         /\ List!ToSet(s \o r) = List!ToSet(s) \cup List!ToSet(r)
<1> DEFINE w == s \o r
<1>1. /\ w \in Seq(S) /\ Len(w) = Len(s) + Len(r)
      /\ \A i \in 1..Len(s) : w[i] = s[i]
      /\ \A i \in 1..Len(w) : ~(i <= Len(s)) => i - Len(s) \in 1..Len(r) /\ w[i] = r[i - Len(s)]
      /\ \A i \in 1..Len(r) : w[Len(s) + i] = r[i] /\ Len(s) + i \in 1..Len(w)
  OBVIOUS
<1> HIDE DEF w
<1>2. List!ToSet(w) = List!ToSet(s) \cup List!ToSet(r)
  <2>1. \A i \in 1..Len(w) : w[i] \in List!ToSet(s) \cup List!ToSet(r)
    <3> TAKE i \in 1..Len(w)
    <3>1. CASE i <= Len(s)
      <4>1. i \in 1..Len(s)
        BY <3>1, Members
      <4> QED BY <4>1, <1>1, Members
    <3>2. CASE ~(i <= Len(s))
      BY <3>2, <1>1, Members
    <3> QED BY <3>1, <3>2
  <2>2. \A i \in 1..Len(s) : s[i] \in List!ToSet(w)
    <3> TAKE i \in 1..Len(s)
    <3>1. i \in 1..Len(w) /\ w[i] = s[i]
      BY <1>1, Members
    <3> QED BY <3>1, <1>1, Members
  <2>3. \A i \in 1..Len(r) : r[i] \in List!ToSet(w)
    BY <1>1, Members
  <2>4. w \in Seq(S)
    BY <1>1
  <2>5. List!ToSet(w) \subseteq List!ToSet(s) \cup List!ToSet(r)
    BY <2>1, <2>4, Members
  <2>6. List!ToSet(s) \subseteq List!ToSet(w) /\ List!ToSet(r) \subseteq List!ToSet(w)
    BY <2>2, <2>3, Members
  <2> QED BY <2>5, <2>6
<1> QED BY <1>1, <1>2 DEF w

LEMMA JoinedInjective ==
  ASSUME NEW S, NEW s \in Seq(S), NEW r \in Seq(S), List!IsInjective(s), List!IsInjective(r),
         List!ToSet(s) \cap List!ToSet(r) = {}
  PROVE  List!IsInjective(s \o r)
<1> DEFINE w == s \o r
<1>1. /\ w \in Seq(S) /\ Len(s) \in Nat /\ Len(r) \in Nat
      /\ \A i \in 1..Len(s) : w[i] = s[i]
      /\ \A i \in 1..Len(w) : ~(i <= Len(s)) => i - Len(s) \in 1..Len(r) /\ w[i] = r[i - Len(s)]
  BY Joined, Members
<1> HIDE DEF w
<1>2. \A i \in 1..Len(w) : i <= Len(s) => i \in 1..Len(s) /\ w[i] = s[i] /\ w[i] \in List!ToSet(s)
  <2> SUFFICES ASSUME NEW i \in 1..Len(w), i <= Len(s)
               PROVE  i \in 1..Len(s) /\ w[i] = s[i] /\ w[i] \in List!ToSet(s)
    OBVIOUS
  <2>1. i \in 1..Len(s) /\ w[i] = s[i]
    BY <1>1
  <2> QED BY <2>1, Members
<1>3. \A i \in 1..Len(w) : ~(i <= Len(s)) => w[i] \in List!ToSet(r)
  BY <1>1, Members
<1>4. ASSUME NEW i \in 1..Len(w), NEW j \in 1..Len(w), w[i] = w[j]
      PROVE  i = j
  <2>1. CASE i <= Len(s) /\ j <= Len(s)
    BY <2>1, <1>2, <1>4 DEF List!IsInjective
  <2>2. CASE ~(i <= Len(s)) /\ ~(j <= Len(s))
    <3>1. /\ i - Len(s) \in DOMAIN r /\ j - Len(s) \in DOMAIN r
          /\ r[i - Len(s)] = r[j - Len(s)]
      BY <2>2, <1>1, <1>4
    <3>2. i - Len(s) = j - Len(s)
      BY <3>1 DEF List!IsInjective
    <3> QED BY <3>2, <1>1
  <2>3. CASE (i <= Len(s) /\ ~(j <= Len(s))) \/ (j <= Len(s) /\ ~(i <= Len(s)))
    BY <2>3, <1>2, <1>3, <1>4
  <2> QED BY <2>1, <2>2, <2>3
<1>5. DOMAIN w = 1..Len(w)
  BY <1>1
<1>6. List!IsInjective(w)
  BY <1>4, <1>5 DEF List!IsInjective
<1> QED BY <1>6 DEF w

LEMMA OneMore ==
  ASSUME NEW S, NEW s \in Seq(S), List!IsInjective(s), NEW e \in S, e \notin List!ToSet(s)
  PROVE  /\ Append(s, e) \in Seq(S) /\ List!IsInjective(Append(s, e))
         /\ List!ToSet(Append(s, e)) = List!ToSet(s) \cup {e}
<1> DEFINE r == <<e>>
<1>1. r \in Seq(S) /\ List!IsInjective(r) /\ List!ToSet(r) = {e} /\ Append(s, e) = s \o r
  BY DEF List!IsInjective, List!ToSet
<1> HIDE DEF r
<1>2. List!ToSet(s) \cap List!ToSet(r) = {}
  BY <1>1
<1> QED BY <1>1, <1>2, Joined, JoinedInjective

LEMMA NextOne ==
  ASSUME NEW S, NEW s \in Seq(S), List!IsInjective(s), s # << >>
  PROVE  /\ Tail(s) \in Seq(S) /\ List!IsInjective(Tail(s)) /\ Head(s) \in List!ToSet(s)
         /\ List!ToSet(Tail(s)) \subseteq List!ToSet(s) /\ Head(s) \notin List!ToSet(Tail(s))
<1>1. /\ Tail(s) \in Seq(S) /\ Len(Tail(s)) = Len(s) - 1 /\ Len(s) \in Nat /\ 1 \in 1..Len(s)
      /\ Head(s) = s[1] /\ \A i \in 1..Len(Tail(s)) : i + 1 \in 1..Len(s) /\ Tail(s)[i] = s[i + 1]
  OBVIOUS
<1> DEFINE r == Tail(s)
<1> HIDE DEF r
<1>2. /\ r \in Seq(S) /\ DOMAIN r = 1..Len(r) /\ DOMAIN s = 1..Len(s)
      /\ \A i \in 1..Len(r) : i \in Int /\ i + 1 \in 1..Len(s) /\ i + 1 # 1 /\ r[i] = s[i + 1]
  BY <1>1 DEF r
<1>3. \A i, j \in 1..Len(s) : s[i] = s[j] => i = j
  BY <1>2 DEF List!IsInjective
<1>4. List!IsInjective(r)
  BY <1>2, <1>3 DEF List!IsInjective
<1>5. List!ToSet(r) \subseteq List!ToSet(s)
  BY <1>2, Members
<1>6. s[1] \notin List!ToSet(r)
  BY <1>1, <1>2, <1>3, Members
<1>7. s[1] \in List!ToSet(s)
  BY <1>1, Members
<1> QED BY <1>1, <1>2, <1>4, <1>5, <1>6, <1>7 DEF r

LEMMA Removed ==
  ASSUME NEW S, NEW s \in Seq(S), List!IsInjective(s), NEW e
  PROVE  /\ List!RemoveFirst(s, e) \in Seq(S) /\ List!IsInjective(List!RemoveFirst(s, e))
         /\ List!ToSet(List!RemoveFirst(s, e)) = List!ToSet(s) \ {e}
<1>1. CASE \E i \in 1..Len(s) : s[i] = e
  <2> PICK i \in 1..Len(s) : s[i] = e
    BY <1>1
  <2>1. {j \in 1..Len(s) : s[j] = e} = {i}
    BY DEF List!IsInjective
  <2>2. List!Min({i}) = i
    BY DEF List!Min
  <2> DEFINE r == List!RemoveFirst(s, e)
  <2>3. r = SubSeq(s, 1, i-1) \o SubSeq(s, i+1, Len(s))
    BY <2>1, <2>2, <1>1 DEF List!RemoveFirst, List!SelectInSeq, List!RemoveAt
  <2>4. /\ r \in Seq(S) /\ Len(r) = Len(s) - 1
        /\ \A j \in 1..Len(r) : r[j] = IF j < i THEN s[j] ELSE s[j + 1]
    <3> DEFINE a == SubSeq(s, 1, i-1)
               b == SubSeq(s, i+1, Len(s))
    <3>1. /\ a \in Seq(S) /\ Len(a) = i - 1 /\ \A j \in 1..Len(a) : a[j] = s[j]
          /\ b \in Seq(S) /\ Len(b) = Len(s) - i /\ \A j \in 1..Len(b) : b[j] = s[j + i]
      OBVIOUS
    <3> HIDE DEF a, b
    <3>2. /\ a \o b \in Seq(S) /\ Len(a \o b) = Len(a) + Len(b)
          /\ \A j \in 1..Len(a) : (a \o b)[j] = a[j]
          /\ \A j \in 1..Len(a \o b) : ~(j <= Len(a))
              => j - Len(a) \in 1..Len(b) /\ (a \o b)[j] = b[j - Len(a)]
      BY <3>1, Joined
    <3>3. r = a \o b
      BY <2>3 DEF a, b
    <3> HIDE DEF r
    <3>4. Len(r) = Len(s) - 1 /\ r \in Seq(S)
      <4>1. Len(s) \in Nat /\ i \in Int
        OBVIOUS
      <4>2. Len(a) + Len(b) = Len(s) - 1
        BY <3>1, <4>1
      <4> QED BY <3>2, <3>3, <4>2
    <3>5. ASSUME NEW j \in 1..Len(r) PROVE r[j] = IF j < i THEN s[j] ELSE s[j + 1]
      <4>1. CASE j < i
        <5>1. j \in 1..Len(a)
          BY <4>1, <3>1
        <5> QED BY <4>1, <5>1, <3>1, <3>2, <3>3
      <4>2. CASE ~(j < i)
        <5>1. j - Len(a) \in 1..Len(b) /\ r[j] = b[j - Len(a)]
          BY <4>2, <3>1, <3>2, <3>3
        <5>2. r[j] = s[(j - Len(a)) + i]
          BY <5>1, <3>1
        <5>3. (j - Len(a)) + i = j + 1
          BY <3>1
        <5> QED BY <4>2, <5>2, <5>3
      <4> QED BY <4>1, <4>2
    <3> QED BY <3>4, <3>5
  <2> HIDE DEF r
  <2>5. List!IsInjective(r)
    BY <2>4 DEF List!IsInjective
  <2>6. \A j \in 1..Len(s) : j # i => \E k \in 1..Len(r) : r[k] = s[j]
    <3> SUFFICES ASSUME NEW j \in 1..Len(s), j # i PROVE \E k \in 1..Len(r) : r[k] = s[j]
      OBVIOUS
    <3>1. CASE j < i
      BY <3>1, <2>4
    <3>2. CASE j > i
      <4>1. j - 1 \in 1..Len(r) /\ ~(j - 1 < i) /\ (j - 1) + 1 = j
        BY <3>2, <2>4
      <4> QED BY <4>1, <2>4
    <3> QED BY <3>1, <3>2
  <2>7. List!ToSet(r) = List!ToSet(s) \ {e}
    <3>1. \A j \in 1..Len(r) : r[j] \in List!ToSet(s) /\ r[j] # e
      <4> TAKE j \in 1..Len(r)
      <4>1. \E k \in 1..Len(s) : k # i /\ r[j] = s[k]
        <5>1. CASE j < i
          BY <5>1, <2>4
        <5>2. CASE ~(j < i)
          <6>1. j + 1 \in 1..Len(s) /\ j + 1 # i /\ r[j] = s[j + 1]
            BY <5>2, <2>4
          <6> QED BY <6>1
        <5> QED BY <5>1, <5>2
      <4> QED BY <4>1, Members DEF List!IsInjective
    <3>2. r \in Seq(S)
      BY <2>4
    <3>3. List!ToSet(r) \subseteq List!ToSet(s) \ {e}
      BY <3>1, <3>2, Members
    <3>4. \A j \in 1..Len(s) : s[j] # e => s[j] \in List!ToSet(r)
      BY <2>6, <3>2, Members
    <3>5. List!ToSet(s) \ {e} \subseteq List!ToSet(r)
      BY <3>4, Members
    <3> QED BY <3>3, <3>5
  <2> QED BY <2>4, <2>5, <2>7 DEF r
<1>2. CASE ~\E i \in 1..Len(s) : s[i] = e
  BY <1>2 DEF List!RemoveFirst, List!ToSet
<1> QED BY <1>1, <1>2

\* The instance has a copy of FiniteSets of its own.
LEMMA SameCardinality == \A S : List!Cardinality(S) = Cardinality(S)
BY DEF List!Cardinality, Cardinality

LEMMA Enumerated ==
  ASSUME NEW S, IsFiniteSet(S), NEW T, NEW seq \in Seq(T), List!IsInjective(seq),
         NEW s \in List!InOrder(S, seq)
  PROVE  s \in Seq(S) /\ List!IsInjective(s) /\ List!ToSet(s) \subseteq S
<1>1. Cardinality(S) \in Nat
  BY FS_CardinalityType
<1>2. s \in Seq(S) /\ DOMAIN s = 1..Cardinality(S)
  BY <1>1, SameCardinality DEF List!InOrder
<1>3. \A i, j \in DOMAIN s : i < j => s[i] # s[j]
  BY DEF List!InOrder, List!IsInjective
<1>4. \A i, j \in DOMAIN s : i # j => s[i] # s[j]
  BY <1>1, <1>2, <1>3
<1> QED BY <1>2, <1>4, Members DEF List!IsInjective

LEMMA Ordered ==
  ASSUME NEW S, IsFiniteSet(S), NEW s \in List!SetToSeqs(S)
  PROVE  s \in Seq(S) /\ List!IsInjective(s) /\ List!ToSet(s) \subseteq S
<1>1. Cardinality(S) \in Nat
  BY FS_CardinalityType
<1>2. s \in Seq(S) /\ DOMAIN s = 1..Cardinality(S)
  BY <1>1, SameCardinality DEF List!SetToSeqs
<1> QED BY <1>2, Members DEF List!IsInjective, List!SetToSeqs

LEMMA FirstOnes ==
  ASSUME NEW S, NEW s \in Seq(S), List!IsInjective(s), NEW n \in Nat
  PROVE  /\ List!FirstOf(s, n) \in Seq(S) /\ List!IsInjective(List!FirstOf(s, n))
         /\ Len(List!FirstOf(s, n)) <= n /\ List!ToSet(List!FirstOf(s, n)) \subseteq List!ToSet(s)
<1> DEFINE m == IF n < Len(s) THEN n ELSE Len(s)
           r == SubSeq(s, 1, m)
<1>1. m \in 0..Len(s) /\ m <= n
  OBVIOUS
<1>2. r \in Seq(S) /\ Len(r) = m /\ \A i \in 1..m : r[i] = s[i]
  <2> HIDE DEF m
  <2> QED BY <1>1
<1>3. List!FirstOf(s, n) = r
  BY DEF List!FirstOf
<1> HIDE DEF r, m
<1>4. List!IsInjective(r)
  BY <1>1, <1>2 DEF List!IsInjective
<1>5. List!ToSet(r) \subseteq List!ToSet(s)
  BY <1>1, <1>2 DEF List!ToSet
<1> QED BY <1>1, <1>2, <1>3, <1>4, <1>5

LEMMA ElementsCounted ==
  ASSUME NEW S, NEW s \in Seq(S)
  PROVE  IsFiniteSet(List!ToSet(s)) /\ Cardinality(List!ToSet(s)) \in Nat
           /\ Cardinality(List!ToSet(s)) <= Len(s)
<1>1. IsFiniteSet(1..Len(s)) /\ Cardinality(1..Len(s)) = Len(s)
  <2>1. Len(s) \in Nat
    OBVIOUS
  <2> QED BY <2>1, FS_Interval
<1>2. s \in Surjection(1..Len(s), List!ToSet(s))
  BY Members DEF Surjection
<1> QED BY <1>1, <1>2, FS_Surjection, FS_CardinalityType

LEMMA Asked ==
  ASSUME NEW do \in {"init", "delete", "pause", "resume", "file", "top"}, NEW s \in Seq(Transfers)
  PROVE  /\ [i \in DOMAIN s |-> List!Op(do, s[i])] \in Seq(List!Ops)
         /\ Len([i \in DOMAIN s |-> List!Op(do, s[i])]) = Len(s)
         /\ \A i \in 1..Len(s) : [k \in DOMAIN s |-> List!Op(do, s[k])][i] = [do |-> do, id |-> s[i]]
<1>1. \A i \in 1..Len(s) : List!Op(do, s[i]) \in List!Ops
  BY DEF List!Op, List!Ops
<1> QED BY <1>1 DEF List!Op

-----------------------------------------------------------------------------
(* Classes of steps. *)

ListTyped ==
  /\ fileTransfers \in Seq(Transfers) /\ List!IsInjective(fileTransfers)
  /\ inited \subseteq Transfers /\ paused \subseteq Transfers
  /\ held \subseteq Transfers /\ knows \subseteq Transfers
CopiesTyped ==
  /\ stage \in [Transfers -> List!Stages]
  /\ found \in [Transfers -> {List!None, "exists", "absent", "unknown"}]
  /\ wrote \in [Transfers -> {List!None, "target", "renamed"}]
  /\ history \in [Transfers -> {List!None, "ended", "error"}]
DialogTyped ==
  /\ resolvePolicy \in [Transfers -> List!Answers \cup {List!None}]
  /\ answer \in [Transfers -> List!FileActions \cup {List!None}]
  /\ asking \in Seq(Transfers) /\ active \in Transfers \cup {List!None}
  /\ globalPolicy \in McpPolicies \cup {List!None}
QueueTyped ==
  /\ opQueue \in Seq(List!Ops) /\ current \in Transfers \cup {List!None, "stuck"}
  /\ pendingInitIds \subseteq Transfers
UserTyped == resumed \in BOOLEAN /\ clicks \in 0..MaxClicks
Typed == ListTyped /\ CopiesTyped /\ DialogTyped /\ QueueTyped /\ UserTyped

LEMMA TypesSplit == List!TypeOK <=> Typed
BY DEF List!TypeOK, Typed, ListTyped, CopiesTyped, DialogTyped, QueueTyped, UserTyped

LEMMA NextTypesSplit == List!TypeOK' <=> Typed'
BY DEF List!TypeOK, Typed, ListTyped, CopiesTyped, DialogTyped, QueueTyped, UserTyped

LEMMA ListTypes ==
  ASSUME ListInv
  PROVE  /\ Typed /\ ListTyped /\ CopiesTyped /\ DialogTyped /\ QueueTyped /\ UserTyped
         /\ List!Listed \subseteq Transfers /\ List!ToSet(asking) \subseteq Transfers
<1>1. Typed
  BY TypesSplit DEF ListInv
<1> QED BY <1>1, Members DEF Typed, ListTyped, DialogTyped, List!Listed

LEMMA SlotsCounted ==
  ASSUME ListFits, NEW S \in SUBSET Transfers
  PROVE  IsFiniteSet(S) /\ Cardinality(S) \in Nat 
            /\ \A T \in SUBSET S : Cardinality(T) <= Cardinality(S)
BY FS_Subset, FS_CardinalityType DEF ListFits

\* The changes that are left in the queue are the ones that were in it,
\* but for some that start no transfer.
QueueKept ==
  /\ opQueue' \in Seq(List!Ops)
  /\ \E d \in 0..1 : \A i \in Starting' : i + d \in Starting /\ opQueue'[i] = opQueue[i + d]

LEMMA QueueUnchanged ==
  ASSUME QueueTyped, opQueue' = opQueue
  PROVE  QueueKept
<1>1. \A i \in Starting' : i + 0 \in Starting /\ opQueue'[i] = opQueue[i + 0]
  BY DEF QueueTyped, Starting
<1>2. 0 \in 0..1
  OBVIOUS
<1> QED BY <1>1, <1>2 DEF QueueKept, QueueTyped

LEMMA QueueExtended ==
  ASSUME QueueTyped, NEW new \in Seq(List!Ops), opQueue' = opQueue \o new,
         \A i \in 1..Len(new) : new[i].do # "init"
  PROVE  QueueKept
<1>1. /\ opQueue' \in Seq(List!Ops)
      /\ \A i \in 1..Len(opQueue) : opQueue'[i] = opQueue[i]
      /\ \A i \in 1..Len(opQueue') : ~(i <= Len(opQueue)) => opQueue'[i].do # "init"
  <2>1. opQueue \in Seq(List!Ops)
    BY DEF QueueTyped
  <2> QED BY <2>1, Joined
<1>2. \A i \in Starting' : i \in Int /\ i \in 1..Len(opQueue)
  BY <1>1 DEF Starting, QueueTyped
<1>3. \A i \in Starting' : i + 0 \in Starting /\ opQueue'[i] = opQueue[i + 0]
  BY <1>1, <1>2 DEF Starting, QueueTyped
<1>4. 0 \in 0..1
  OBVIOUS
<1> QED BY <1>1, <1>3, <1>4 DEF QueueKept

LEMMA QueueAppended ==
  ASSUME QueueTyped, NEW do \in {"delete", "pause", "resume", "file", "top"}, NEW t \in Transfers,
         opQueue' = Append(opQueue, List!Op(do, t))
  PROVE  QueueKept
<1>1. List!Op(do, t) \in List!Ops /\ List!Op(do, t).do # "init"
  BY DEF List!Op, List!Ops
<1> DEFINE op == List!Op(do, t)
<1> HIDE DEF op
<1>2. op \in List!Ops /\ op.do # "init" /\ opQueue' = Append(opQueue, op)
  BY <1>1 DEF op
<1>3. <<op>> \in Seq(List!Ops) /\ opQueue' = opQueue \o <<op>>
        /\ \A i \in 1..Len(<<op>>) : <<op>>[i].do # "init"
  BY <1>2 DEF QueueTyped
<1> QED BY <1>3, QueueExtended

LEMMA QueueShortened ==
  ASSUME QueueTyped, opQueue # << >>, opQueue' = Tail(opQueue)
  PROVE  /\ QueueKept /\ Head(opQueue) \in List!Ops /\ Head(opQueue) = opQueue[1]
              /\ 1 \in DOMAIN opQueue
         /\ \A i \in Starting' : i + 1 \in Starting /\ i + 1 # 1 /\ opQueue'[i] = opQueue[i + 1]
<1>1. opQueue' \in Seq(List!Ops) /\ Head(opQueue) \in List!Ops /\ Head(opQueue) = opQueue[1]
        /\ 1 \in DOMAIN opQueue
  BY DEF QueueTyped
<1>2. \A i \in Starting' : i + 1 \in Starting /\ i + 1 # 1 /\ opQueue'[i] = opQueue[i + 1]
  BY DEF QueueTyped, Starting
<1>3. 1 \in 0..1
  OBVIOUS
<1> QED BY <1>1, <1>2, <1>3 DEF QueueKept

LEMMA NextStarts ==
  ASSUME \A i \in Starting' : opQueue'[i].id # current' /\ opQueue'[i].id \in Transfers,
         \A i \in Starting', t \in Transfers : opQueue'[i].id = t => StartFits(t)',
         \A i, j \in Starting' : opQueue'[i].id = opQueue'[j].id => i = j,
         \A t \in Transfers : current' = t => StartFits(t)' /\ t \in List!Listed'
  PROVE  StartsFit'
<1>1. \A i \in Starting' : (StartFits(opQueue[i].id) /\ opQueue[i].id # current)'
  BY DEF StartFits
<1>2. (current \in Transfers => StartFits(current) /\ current \in List!Listed)'
  BY DEF StartFits
<1> QED BY <1>1, <1>2 DEF StartsFit

\* Steps that start nothing and add nothing to the list.
StagesKept ==
  \A t \in Transfers : stage'[t] = stage[t] \/ (stage'[t] # "new" /\ t \notin List!Listed' \ inited)
CurrentKept == current' \in Transfers => current' = current /\ current \in List!Listed'

LEMMA ListKept ==
  ASSUME ListInv, QueueKept, StagesKept, CurrentKept, List!Listed' \subseteq List!Listed,
         inited' = inited,
         pendingInitIds' = pendingInitIds, paused \subseteq paused' \/ resumed', resumed => resumed'
  PROVE  EntriesFit' /\ StartsFit' /\ SlotsFit'
<1>1. EntriesFit'
  BY ListTypes DEF ListInv, EntriesFit, StagesKept
<1>2. \A t \in Transfers : StartFits(t) => StartFits(t)'
  BY DEF StartFits, StagesKept
<1>3. StartsFit'
  <2> PICK d \in 0..1 : \A i \in Starting' : i + d \in Starting /\ opQueue'[i] = opQueue[i + d]
    BY DEF QueueKept
  <2>1. \A i \in Starting : opQueue[i].id \in Transfers /\ i \in Int
    <3>1. \A i \in DOMAIN opQueue : opQueue[i] \in List!Ops /\ i \in Int
      BY ListTypes DEF QueueTyped
    <3> QED BY <3>1 DEF Starting, List!Ops
  <2>2. \A i \in Starting' : opQueue'[i].id # current'
    BY <2>1 DEF ListInv, StartsFit, CurrentKept
  <2>3. \A i \in Starting', t \in Transfers : opQueue'[i].id = t => StartFits(t)'
    BY <1>2 DEF ListInv, StartsFit
  <2>4. \A i, j \in Starting' : opQueue'[i].id = opQueue'[j].id => i = j
    <3>1. \A i \in Starting' : i \in Int
      BY DEF Starting, QueueKept
    <3>2. \A i, j \in Starting : opQueue[i].id = opQueue[j].id => i = j
      BY DEF ListInv, StartsFit
    <3>3. \A i, j \in Starting' : opQueue'[i].id = opQueue'[j].id => i + d = j + d
      BY <3>2
    <3>4. d \in Int
      OBVIOUS
    <3> SUFFICES ASSUME NEW i \in Starting', NEW j \in Starting', opQueue'[i].id = opQueue'[j].id
                 PROVE  i = j
      OBVIOUS
    <3>5. i \in Int /\ j \in Int /\ i + d = j + d
      BY <3>1, <3>3
    <3> QED BY <3>4, <3>5
  <2>5. \A t \in Transfers : current' = t => StartFits(t)' /\ t \in List!Listed'
    BY <1>2 DEF ListInv, StartsFit, CurrentKept
  <2>6. \A i \in Starting' : opQueue'[i].id \in Transfers
    BY <2>1
  <2> QED BY <2>2, <2>3, <2>4, <2>5, <2>6, NextStarts
<1>4. SlotsFit'
  <2> SUFFICES ASSUME ~resumed' PROVE Cardinality(TakenSlots') <= MaxTransport
    BY DEF SlotsFit
  <2>1. TakenSlots' \subseteq TakenSlots /\ TakenSlots \in SUBSET Transfers
    BY ListTypes DEF TakenSlots
  <2>2. Cardinality(TakenSlots) <= MaxTransport /\ MaxTransport \in Nat /\ ListFits
    BY DEF ListInv, SlotsFit, ListFits
  <2>3. /\ Cardinality(TakenSlots') <= Cardinality(TakenSlots) /\ Cardinality(TakenSlots) \in Nat
        /\ Cardinality(TakenSlots') \in Nat
    BY <2>1, <2>2, SlotsCounted
  <2> QED BY <2>2, <2>3
<1> QED BY <1>1, <1>3, <1>4

LEMMA DialogKept ==
  ASSUME ListInv, asking' = asking, active' = active,
         \A t \in Transfers : stage[t] = "asked" => stage'[t] = "asked"
  PROVE  DialogFits'
BY ListTypes DEF ListInv, DialogFits, DialogTyped

\* Steps that tell no transfer anything of its target.
LEMMA CopiesKept ==
  ASSUME ListInv, UNCHANGED <<wrote, found, answer, resolvePolicy>>,
         globalPolicy' \in McpPolicies \cup {globalPolicy},
         \A t \in Transfers :
           \/ stage'[t] = stage[t]
           \/ stage'[t] # "asked" /\ (stage'[t] \in Pending => stage[t] \in Pending),
         \A t \in Transfers : t \in List!Listed' \ List!Listed => wrote[t] = List!None
  PROVE  AnswersFit' /\ List!CopiesAsAnswered'
<1>1. \A t \in Transfers : AnswerFits(t)'
  BY DEF ListInv, AnswersFit, AnswerFits, Pending
<1>2. \A t \in Transfers : List!CopiedAsAnswered(t)'
  <2>1. globalPolicy # List!None => globalPolicy' # List!None
    BY DEF ListInv, ListFits
  <2> QED BY <2>1 DEF ListInv, List!CopiesAsAnswered, List!CopiedAsAnswered, List!None
<1> QED BY <1>1, <1>2 DEF AnswersFit, List!CopiesAsAnswered

\* Steps of one transfer.
LEMMA OneCopy ==
  ASSUME ListInv, CopiesTyped, DialogTyped, List!Listed' = List!Listed,
         resolvePolicy' = resolvePolicy, globalPolicy' = globalPolicy,
         NEW t \in Transfers, AnswerFits(t)' /\ List!CopiedAsAnswered(t)',
         \A u \in Transfers \ {t} : /\ stage'[u] = stage[u] /\ found'[u] = found[u]
                                    /\ wrote'[u] = wrote[u] /\ answer'[u] = answer[u]
  PROVE  AnswersFit' /\ List!CopiesAsAnswered'
<1>1. \A u \in Transfers \ {t} : AnswerFits(u)'
  BY DEF ListInv, AnswersFit, AnswerFits
<1>2. \A u \in Transfers \ {t} : List!CopiedAsAnswered(u)'
  BY DEF ListInv, List!CopiesAsAnswered, List!CopiedAsAnswered
<1> QED BY <1>1, <1>2 DEF AnswersFit, List!CopiesAsAnswered

-----------------------------------------------------------------------------
(* Each step. *)

LEMMA InitFits == ASSUME ListFits, List!Init PROVE ListInv
<1>1. Typed
  <2>1. << >> \in Seq(Transfers) /\ << >> \in Seq(List!Ops) /\ List!IsInjective(<< >>)
    BY DEF List!IsInjective
  <2>2. ListTyped
    BY <2>1 DEF List!Init, ListTyped, ListFits
  <2>3. CopiesTyped
    BY DEF List!Init, CopiesTyped, List!Stages
  <2>4. DialogTyped /\ QueueTyped
    BY <2>1 DEF List!Init, DialogTyped, QueueTyped
  <2>5. UserTyped
    <3>1. 0 \in 0..MaxClicks
      BY DEF ListFits
    <3>2. resumed \in BOOLEAN /\ clicks \in 0..MaxClicks
      BY <3>1, Zenon DEF List!Init
    <3> QED BY <3>2, Zenon DEF UserTyped
  <2> QED BY <2>2, <2>3, <2>4, <2>5 DEF Typed
<1>2. List!Listed = {} /\ List!ToSet(asking) = {} /\ Starting = {}
  BY DEF List!Init, List!Listed, List!ToSet, Starting
<1>3. EntriesFit /\ StartsFit
  BY <1>2 DEF List!Init, EntriesFit, StartsFit, ListFits
<1>4. SlotsFit
  <2>1. TakenSlots = {} /\ Cardinality({}) = 0 /\ MaxTransport \in Nat
    BY <1>2, FS_EmptySet DEF TakenSlots, ListFits
  <2> QED BY <2>1 DEF SlotsFit
<1>5. DialogFits
  BY <1>2 DEF List!Init, DialogFits, List!IsInjective
<1>6. AnswersFit /\ List!CopiesAsAnswered
  BY DEF List!Init, AnswersFit, AnswerFits, List!CopiesAsAnswered, List!CopiedAsAnswered, List!None
<1> QED BY <1>1, <1>3, <1>4, <1>5, <1>6, TypesSplit DEF ListInv

LEMMA AddBatchFits ==
  ASSUME ListInv, NEW b, List!AddBatch(b)
  PROVE  ListInv'
<1> DEFINE ts == {t \in Transfers : Batch[t] = b}
<1>1. PICK order \in List!SetToSeqs(ts) : fileTransfers' = fileTransfers \o order
  BY DEF List!AddBatch
<1>2. ts \subseteq Transfers /\ IsFiniteSet(ts)
  BY SlotsCounted DEF ListInv
<1>3. order \in Seq(ts) /\ List!IsInjective(order) /\ List!ToSet(order) \subseteq ts
  BY <1>2, Ordered
<1>4. order \in Seq(Transfers)
  BY <1>2, <1>3
<1>5. /\ \A t \in ts : stage[t] = "new" /\ t \notin List!Listed
      /\ stage' = [t \in Transfers |-> IF t \in ts THEN "waiting" ELSE stage[t]]
  BY DEF List!AddBatch, ListInv, EntriesFit
<1>6. UNCHANGED <<inited, paused, held, knows, found, wrote, history, List!dialogVars,
        List!queueVars, List!userVars>>
  BY DEF List!AddBatch
<1> HIDE DEF ts
<1>7. fileTransfers' \in Seq(Transfers) /\ List!Listed' = List!Listed \cup List!ToSet(order)
  BY <1>1, <1>4, ListTypes, Joined DEF ListTyped, List!Listed
<1>8. List!IsInjective(fileTransfers')
  BY <1>1, <1>3, <1>4, <1>5, ListTypes, JoinedInjective DEF ListTyped, List!Listed
<1>9. Typed'
  BY <1>5, <1>6, <1>7, <1>8, ListTypes
     DEF Typed, ListTyped, CopiesTyped, DialogTyped, QueueTyped, UserTyped, List!Stages,
         List!dialogVars, List!queueVars, List!userVars
<1>10. \A t \in ts : t \notin inited \cup pendingInitIds
  BY <1>2, <1>5 DEF ListInv, EntriesFit
<1>11. EntriesFit'
  <2>1. ASSUME NEW t \in Transfers, stage'[t] = "new"
        PROVE  t \notin List!Listed' \cup inited' \cup pendingInitIds'
    <3>1. t \notin ts /\ stage[t] = "new"
      BY <2>1, <1>5
    <3> QED BY <3>1, <1>3, <1>6, <1>7 DEF ListInv, EntriesFit, List!queueVars
  <2>2. ASSUME NEW t \in List!Listed', t \notin inited'
        PROVE  stage'[t] = "waiting"
    <3>1. CASE t \in ts
      BY <3>1, <1>2, <1>5
    <3>2. CASE t \notin ts
      BY <3>2, <1>3, <1>5, <1>6, <1>7, <2>2, ListTypes DEF ListInv, EntriesFit
    <3> QED BY <3>1, <3>2
  <2> QED BY <2>1, <2>2 DEF EntriesFit
<1>12. StartsFit'
  <2>1. \A t \in Transfers : StartFits(t) => StartFits(t)'
    BY <1>3, <1>5, <1>6, <1>7 DEF StartFits, List!queueVars
  <2>2. Starting' = Starting /\ opQueue' = opQueue /\ current' = current
    BY <1>6 DEF Starting, List!queueVars
  <2>3. \A i \in Starting : opQueue[i].id \in Transfers
    <3>1. \A i \in DOMAIN opQueue : opQueue[i] \in List!Ops
      BY ListTypes DEF QueueTyped
    <3> QED BY <3>1 DEF Starting, List!Ops
  <2>4. /\ \A i \in Starting' : opQueue'[i].id # current' /\ opQueue'[i].id \in Transfers
        /\ \A i \in Starting', t \in Transfers : opQueue'[i].id = t => StartFits(t)'
        /\ \A i, j \in Starting' : opQueue'[i].id = opQueue'[j].id => i = j
        /\ \A t \in Transfers : current' = t => StartFits(t)' /\ t \in List!Listed'
    BY <2>1, <2>2, <2>3, <1>7 DEF ListInv, StartsFit
  <2> QED BY <2>4, NextStarts
<1>13. SlotsFit'
  <2>1. TakenSlots' = TakenSlots
    BY <1>3, <1>6, <1>7, <1>10 DEF TakenSlots, List!queueVars
  <2> QED BY <2>1, <1>6 DEF ListInv, SlotsFit, List!userVars
<1>14. DialogFits'
  <2>1. \A t \in Transfers : stage[t] = "asked" => stage'[t] = "asked"
    BY <1>5
  <2> QED BY <2>1, <1>6, DialogKept DEF List!dialogVars
<1>15. AnswersFit' /\ List!CopiesAsAnswered'
  <2>1. \A t \in Transfers :
          \/ stage'[t] = stage[t]
          \/ stage'[t] # "asked" /\ (stage'[t] \in Pending => stage[t] \in Pending)
    BY <1>5 DEF Pending
  <2>2. \A t \in Transfers : t \in List!Listed' \ List!Listed => wrote[t] = List!None
    BY <1>3, <1>5, <1>7 DEF ListInv, AnswersFit, AnswerFits, Pending
  <2>3. UNCHANGED <<wrote, found, answer, resolvePolicy, globalPolicy>>
    BY <1>6 DEF List!dialogVars
  <2> QED BY <2>1, <2>2, <2>3, CopiesKept
<1> QED BY <1>9, <1>11, <1>12, <1>13, <1>14, <1>15, NextTypesSplit DEF ListInv, ListFits

LEMMA ControlFits ==
  ASSUME ListInv, List!Control
  PROVE  ListInv'
<1> DEFINE pending == {t \in pendingInitIds \cap List!Listed : t \notin inited}
           count == Cardinality(List!Active \cup (pending \ paused))
           free == IF count >= MaxTransport THEN 0 ELSE MaxTransport - count
           idle == List!Listed \ (inited \cup pending)
<1>1. PICK waiting \in List!InOrder(idle, fileTransfers) :
             List!Starts(pending, List!FirstOf(waiting, free))
  BY SameCardinality DEF List!Control
<1> DEFINE starting == List!FirstOf(waiting, free)
           new == [i \in DOMAIN starting |-> List!Op("init", starting[i])]
<1>2. /\ pendingInitIds' = pending \cup List!ToSet(starting) /\ opQueue' = opQueue \o new
      /\ UNCHANGED <<List!listVars, List!copyVars, List!dialogVars, current, List!userVars>>
  BY <1>1 DEF List!Starts
<1>3. /\ pending \subseteq pendingInitIds \cap List!Listed /\ pending \cap inited = {}
      /\ \A t \in pendingInitIds \cap List!Listed : t \in inited \cup pending
      /\ idle \subseteq List!Listed /\ idle \cap (inited \cup pending) = {}
  OBVIOUS
<1>4. /\ count \in Nat /\ free \in Nat /\ MaxTransport \in Nat
      /\ count >= MaxTransport => free = 0
      /\ ~(count >= MaxTransport) => count + free = MaxTransport
      /\ count = Cardinality(List!Active \cup (pending \ paused))
      /\ List!Active \cup (pending \ paused) \subseteq Transfers
  <2>1. List!Active \cup (pending \ paused) \in SUBSET Transfers
    BY ListTypes DEF List!Active
  <2>2. count \in Nat /\ MaxTransport \in Nat
    BY <2>1, SlotsCounted DEF ListInv, ListFits
  <2> HIDE DEF count
  <2>3. /\ free \in Nat
        /\ count >= MaxTransport => free = 0
        /\ ~(count >= MaxTransport) => count + free = MaxTransport
    BY <2>2
  <2> QED BY <2>1, <2>2, <2>3 DEF count
<1> HIDE DEF pending, count, free, idle
<1>5. waiting \in Seq(idle) /\ List!IsInjective(waiting) /\ List!ToSet(waiting) \subseteq idle
  <2>1. fileTransfers \in Seq(Transfers) /\ List!IsInjective(fileTransfers) /\ idle \in SUBSET Transfers
    BY <1>3, ListTypes DEF ListTyped
  <2>2. IsFiniteSet(idle)
    BY <2>1, SlotsCounted DEF ListInv
  <2> QED BY <2>1, <2>2, <1>1, Enumerated
<1>6. /\ starting \in Seq(idle) /\ List!IsInjective(starting)
      /\ Len(starting) <= free /\ List!ToSet(starting) \subseteq idle
  BY <1>4, <1>5, FirstOnes
<1>7. starting \in Seq(Transfers)
  BY <1>3, <1>6, ListTypes
<1>8. /\ new \in Seq(List!Ops) /\ Len(new) = Len(starting)
      /\ \A i \in 1..Len(starting) : new[i] = [do |-> "init", id |-> starting[i]]
  BY <1>7, Asked
<1> HIDE DEF starting, new
<1>9. /\ opQueue' \in Seq(List!Ops) /\ Len(opQueue) \in Nat
      /\ \A i \in 1..Len(opQueue) : opQueue'[i] = opQueue[i]
      /\ \A i \in 1..Len(opQueue') : ~(i <= Len(opQueue)) =>
           /\ i - Len(opQueue) \in 1..Len(starting)
           /\ opQueue'[i] = [do |-> "init", id |-> starting[i - Len(opQueue)]]
  <2>1. opQueue \in Seq(List!Ops)
    BY ListTypes DEF QueueTyped
  <2>2. /\ opQueue' \in Seq(List!Ops) /\ Len(opQueue) \in Nat
        /\ \A i \in 1..Len(opQueue) : opQueue'[i] = opQueue[i]
        /\ \A i \in 1..Len(opQueue') : ~(i <= Len(opQueue)) =>
             i - Len(opQueue) \in 1..Len(new) /\ opQueue'[i] = new[i - Len(opQueue)]
    BY <1>2, <1>8, <2>1, Joined, Members
  <2> QED BY <2>2, <1>8
<1>10. Typed'
  <2>1. pendingInitIds' \subseteq Transfers
    BY <1>2, <1>3, <1>6, ListTypes
  <2>2. QueueTyped'
    BY <1>2, <1>9, <2>1, ListTypes DEF QueueTyped
  <2>3. ListTyped' /\ CopiesTyped'
    BY <1>2, ListTypes DEF ListTyped, CopiesTyped, List!listVars, List!copyVars
  <2>4. DialogTyped' /\ UserTyped'
    BY <1>2, ListTypes DEF DialogTyped, UserTyped, List!dialogVars, List!userVars
  <2> QED BY <2>2, <2>3, <2>4 DEF Typed
<1>11. List!Listed' = List!Listed /\ inited' = inited /\ paused' = paused /\ stage' = stage
         /\ resumed' = resumed
       /\ current' = current
  BY <1>2 DEF List!listVars, List!copyVars, List!userVars, List!Listed
<1>12. pendingInitIds' \subseteq List!Listed /\ pending \subseteq pendingInitIds'
       /\ List!ToSet(starting) \subseteq pendingInitIds' /\ List!ToSet(starting) \cap inited = {}
       /\ List!ToSet(starting) \cap pending = {}
  BY <1>2, <1>3, <1>6
<1>13. EntriesFit'
  BY <1>11, <1>12, ListTypes DEF ListInv, EntriesFit
<1>14. StartsFit'
  <2>1. \A t \in Transfers : StartFits(t) => StartFits(t)'
    BY <1>3, <1>11, <1>12 DEF StartFits
  <2>2. \A t \in Transfers : t \in List!ToSet(starting) => StartFits(t)'
    BY <1>6, <1>3, <1>11, <1>12 DEF StartFits, ListInv, EntriesFit
  <2>3. \A i \in Starting' : i \in 1..Len(opQueue') /\ i \in Int
    BY <1>9 DEF Starting
  <2>4. \A i \in Starting' : i <= Len(opQueue) =>
          /\ i \in Starting /\ opQueue'[i] = opQueue[i] /\ opQueue[i].id \in Transfers
    <3> SUFFICES ASSUME NEW i \in Starting', i <= Len(opQueue)
                 PROVE  i \in Starting /\ opQueue'[i] = opQueue[i] /\ opQueue[i].id \in Transfers
      OBVIOUS
    <3>1. i \in 1..Len(opQueue)
      BY <1>9, <2>3
    <3>2. opQueue'[i] = opQueue[i] /\ i \in DOMAIN opQueue /\ opQueue[i] \in List!Ops
      BY <1>9, <3>1, ListTypes DEF QueueTyped
    <3> QED BY <3>2 DEF Starting, List!Ops
  <2>5. \A i \in Starting' : ~(i <= Len(opQueue)) =>
          /\ i - Len(opQueue) \in 1..Len(starting) /\ opQueue'[i].id = starting[i - Len(opQueue)]
          /\ opQueue'[i].id \in List!ToSet(starting)
    <3> SUFFICES ASSUME NEW i \in Starting', ~(i <= Len(opQueue))
                 PROVE  /\ i - Len(opQueue) \in 1..Len(starting)
                        /\ opQueue'[i].id = starting[i - Len(opQueue)]
                        /\ opQueue'[i].id \in List!ToSet(starting)
      OBVIOUS
    <3>1. /\ i - Len(opQueue) \in 1..Len(starting)
          /\ opQueue'[i] = [do |-> "init", id |-> starting[i - Len(opQueue)]]
      BY <1>9, <2>3
    <3> QED BY <3>1, <1>6, Members
  <2>6. List!ToSet(starting) \subseteq List!Listed \ (inited \cup pendingInitIds)
    BY <1>3, <1>6
  <2>7. \A i \in Starting : opQueue[i].id \notin List!ToSet(starting)
    BY <2>6 DEF ListInv, StartsFit, StartFits
  <2>8. current \in Transfers => current \notin List!ToSet(starting)
    BY <2>6 DEF ListInv, StartsFit, StartFits
  <2>9. \A i \in Starting' : opQueue'[i].id # current' /\ opQueue'[i].id \in Transfers
    BY <2>4, <2>5, <2>6, <2>8, <1>11, ListTypes DEF ListInv, StartsFit
  <2>10. \A i \in Starting', t \in Transfers : opQueue'[i].id = t => StartFits(t)'
    BY <2>1, <2>2, <2>4, <2>5 DEF ListInv, StartsFit
  <2>11. ASSUME NEW i \in Starting', NEW j \in Starting', opQueue'[i].id = opQueue'[j].id
         PROVE  i = j
    <3>1. CASE i <= Len(opQueue) /\ j <= Len(opQueue)
      BY <3>1, <2>4, <2>11 DEF ListInv, StartsFit
    <3>2. CASE ~(i <= Len(opQueue)) /\ ~(j <= Len(opQueue))
      <4>1. i - Len(opQueue) = j - Len(opQueue)
        BY <3>2, <2>5, <2>11, <1>6, Members DEF List!IsInjective
      <4> QED BY <4>1, <2>3, <1>9
    <3>3. CASE (i <= Len(opQueue) /\ ~(j <= Len(opQueue)))
               \/ (j <= Len(opQueue) /\ ~(i <= Len(opQueue)))
      BY <3>3, <2>4, <2>5, <2>7, <2>11
    <3> QED BY <3>1, <3>2, <3>3
  <2>12. \A t \in Transfers : current' = t => StartFits(t)' /\ t \in List!Listed'
    BY <2>1, <1>11 DEF ListInv, StartsFit
  <2> QED BY <2>9, <2>10, <2>11, <2>12, NextStarts
<1>15. SlotsFit'
  <2> SUFFICES ASSUME ~resumed PROVE Cardinality(TakenSlots') <= MaxTransport
    BY <1>11 DEF SlotsFit
  <2> DEFINE busy == List!Active \cup (pending \ paused)
  <2>1. TakenSlots' \subseteq busy \cup List!ToSet(starting) /\ busy \subseteq TakenSlots
    BY <1>2, <1>3, <1>11, <1>12 DEF TakenSlots, List!Active
  <2>2. busy \in SUBSET Transfers /\ TakenSlots \in SUBSET Transfers /\ TakenSlots' \in SUBSET Transfers
        /\ List!ToSet(starting) \in SUBSET Transfers /\ ListFits
    BY <1>3, <1>6, <2>1, ListTypes DEF ListInv, TakenSlots
  <2>3. count = Cardinality(busy)
    BY <1>4
  <2> HIDE DEF busy
  <2>4. CASE count >= MaxTransport
    <3>1. List!ToSet(starting) = {}
      <4>1. Len(starting) = 0
        BY <2>4, <1>4, <1>6, Members
      <4>2. ~ \E i \in 1..0 : TRUE
        OBVIOUS
      <4> QED BY <4>1, <4>2, <1>6, Members
    <3>2. TakenSlots' \subseteq TakenSlots
      BY <3>1, <2>1
    <3>3. Cardinality(TakenSlots') <= Cardinality(TakenSlots) /\ Cardinality(TakenSlots) <= MaxTransport
      BY <3>2, <2>2, SlotsCounted DEF ListInv, SlotsFit
    <3>4. Cardinality(TakenSlots') \in Nat /\ Cardinality(TakenSlots) \in Nat
      BY <2>2, SlotsCounted
    <3> QED BY <3>3, <3>4, <1>4
  <2>5. CASE ~(count >= MaxTransport)
    <3>1. Cardinality(List!ToSet(starting)) <= free /\ Cardinality(List!ToSet(starting)) \in Nat
          /\ IsFiniteSet(List!ToSet(starting))
      <4>1. Cardinality(List!ToSet(starting)) <= Len(starting) /\ Len(starting) \in Nat
            /\ Cardinality(List!ToSet(starting)) \in Nat /\ IsFiniteSet(List!ToSet(starting))
        BY <1>6, ElementsCounted, Members
      <4> QED BY <4>1, <1>4, <1>6
    <3>2. Cardinality(busy \cup List!ToSet(starting)) <= count + Cardinality(List!ToSet(starting))
      <4>1. IsFiniteSet(busy)
        BY <2>2, SlotsCounted
      <4>2. /\ Cardinality(busy \cup List!ToSet(starting)) =
                 Cardinality(busy) + Cardinality(List!ToSet(starting))
                   - Cardinality(busy \cap List!ToSet(starting))
            /\ IsFiniteSet(busy \cap List!ToSet(starting))
        BY <4>1, <3>1, FS_Union, FS_Intersection
      <4>3. Cardinality(busy \cap List!ToSet(starting)) \in Nat
        BY <4>2, FS_CardinalityType
      <4> QED BY <4>2, <4>3, <3>1, <2>3, <1>4
    <3>3. busy \cup List!ToSet(starting) \in SUBSET Transfers
      BY <2>2
    <3>4. /\ Cardinality(TakenSlots') <= Cardinality(busy \cup List!ToSet(starting))
          /\ Cardinality(TakenSlots') \in Nat /\ Cardinality(busy \cup List!ToSet(starting)) \in Nat
      BY <3>3, <2>1, <2>2, SlotsCounted
    <3> QED BY <3>1, <3>2, <3>4, <2>5, <1>4
  <2> QED BY <2>4, <2>5
<1>16. DialogFits' /\ AnswersFit' /\ List!CopiesAsAnswered'
  <2>1. UNCHANGED <<asking, active, stage, wrote, found, answer, resolvePolicy, globalPolicy>>
          /\ List!Listed' \ List!Listed = {}
    BY <1>2, <1>11 DEF List!copyVars, List!dialogVars
  <2> QED BY <2>1, DialogKept, CopiesKept
<1> QED BY <1>10, <1>13, <1>14, <1>15, <1>16, NextTypesSplit DEF ListInv, ListFits

LEMMA ApplyInitFits ==
  ASSUME ListInv, List!ApplyInit
  PROVE  ListInv'
<1>1. /\ current \in Transfers /\ current' = List!None /\ inited' = inited \cup {current}
      /\ UNCHANGED <<fileTransfers, paused, held, knows, found, wrote, history, List!dialogVars,
                     opQueue, pendingInitIds, List!userVars>>
  BY DEF List!ApplyInit
<1>2. stage' = [stage EXCEPT ![current] = IF current \in Given THEN "target" ELSE "source"]
  BY DEF List!ApplyInit, List!Started
<1>3. current \in List!Listed \ inited /\ current \in pendingInitIds /\ stage[current] = "waiting"
  BY <1>1 DEF ListInv, StartsFit, StartFits, EntriesFit
<1>4. List!Listed' = List!Listed /\ List!None \notin Transfers
  BY <1>1 DEF List!Listed, ListInv, ListFits
<1>5. \A t \in Transfers : IF t = current
                               THEN stage'[t] \in {"target", "source"} ELSE stage'[t] = stage[t]
  BY <1>2, ListTypes DEF CopiesTyped
<1>6. Typed'
  <2>1. ListTyped'
    BY <1>1, ListTypes DEF ListTyped
  <2>2. CopiesTyped'
    BY <1>1, <1>2, ListTypes DEF CopiesTyped, List!Stages
  <2>3. DialogTyped' /\ UserTyped'
    BY <1>1, ListTypes DEF DialogTyped, UserTyped, List!dialogVars, List!userVars
  <2>4. QueueTyped'
    BY <1>1, ListTypes DEF QueueTyped
  <2> QED BY <2>1, <2>2, <2>3, <2>4 DEF Typed
<1>7. EntriesFit'
  BY <1>1, <1>3, <1>4, <1>5, ListTypes DEF ListInv, EntriesFit
<1>8. StartsFit'
  <2>1. \A t \in Transfers : StartFits(t) /\ t # current => StartFits(t)'
    BY <1>1, <1>4, <1>5 DEF StartFits
  <2>2. Starting' = Starting /\ opQueue' = opQueue
    BY <1>1 DEF Starting
  <2>3. \A i \in Starting : opQueue[i].id \in Transfers /\ opQueue[i].id # current
    <3>1. \A i \in DOMAIN opQueue : opQueue[i] \in List!Ops
      BY ListTypes DEF QueueTyped
    <3> QED BY <3>1 DEF Starting, List!Ops, ListInv, StartsFit
  <2>4. /\ \A i \in Starting' : opQueue'[i].id # current' /\ opQueue'[i].id \in Transfers
        /\ \A i \in Starting', t \in Transfers : opQueue'[i].id = t => StartFits(t)'
        /\ \A i, j \in Starting' : opQueue'[i].id = opQueue'[j].id => i = j
        /\ \A t \in Transfers : current' = t => StartFits(t)' /\ t \in List!Listed'
    BY <2>1, <2>2, <2>3, <1>1, <1>4 DEF ListInv, StartsFit
  <2> QED BY <2>4, NextStarts
<1>9. SlotsFit'
  <2>1. TakenSlots' = TakenSlots
    BY <1>1, <1>3, <1>4 DEF TakenSlots
  <2> QED BY <2>1, <1>1 DEF ListInv, SlotsFit, List!userVars
<1>10. DialogFits'
  <2>1. \A t \in Transfers : stage[t] = "asked" => stage'[t] = "asked"
    BY <1>3, <1>5
  <2> QED BY <2>1, <1>1, DialogKept DEF List!dialogVars
<1>11. AnswersFit' /\ List!CopiesAsAnswered'
  <2>1. \A t \in Transfers :
          \/ stage'[t] = stage[t]
          \/ stage'[t] # "asked" /\ (stage'[t] \in Pending => stage[t] \in Pending)
    BY <1>3, <1>5 DEF Pending
  <2>2. UNCHANGED <<wrote, found, answer, resolvePolicy, globalPolicy>>
    BY <1>1 DEF List!dialogVars
  <2> QED BY <2>1, <2>2, <1>4, CopiesKept
<1> QED BY <1>6, <1>7, <1>8, <1>9, <1>10, <1>11, NextTypesSplit DEF ListInv, ListFits

\* Steps that neither start nor tell a transfer anything.
LEMMA QuietStep ==
  ASSUME ListInv, ListTyped', stage' \in [Transfers -> List!Stages],
         history' \in [Transfers -> {List!None, "ended", "error"}],
         clicks' \in 0..MaxClicks, resumed' \in BOOLEAN, globalPolicy' \in McpPolicies \cup {globalPolicy},
         UNCHANGED <<found, wrote, asking, active, resolvePolicy, answer, pendingInitIds, inited>>,
         QueueKept, CurrentKept, current' \in {current, List!None, "stuck"},
         List!Listed' \subseteq List!Listed,
         paused \subseteq paused' \/ resumed', resumed => resumed',
         \A t \in Transfers :
           stage'[t] = stage[t]
             \/ (stage'[t] \in {"running", "over", "lost"} /\ stage[t] # "asked"
                  /\ t \notin List!Listed' \ inited)
  PROVE  ListInv'
<1>1. CopiesTyped' /\ DialogTyped' /\ QueueTyped'
  <2>1. CopiesTyped'
    BY ListTypes DEF CopiesTyped
  <2>2. DialogTyped'
    BY ListTypes DEF DialogTyped
  <2>3. QueueTyped'
    BY ListTypes DEF QueueTyped, QueueKept
  <2> QED BY <2>1, <2>2, <2>3
<1>2. Typed'
  BY <1>1 DEF Typed, UserTyped
<1>3. StagesKept
  BY DEF StagesKept
<1>4. EntriesFit' /\ StartsFit' /\ SlotsFit'
  BY <1>3, ListKept
<1>5. DialogFits'
  <2>1. \A t \in Transfers : stage[t] = "asked" => stage'[t] = "asked"
    OBVIOUS
  <2> QED BY <2>1, DialogKept
<1>6. AnswersFit' /\ List!CopiesAsAnswered'
  <2>1. \A t \in Transfers :
          \/ stage'[t] = stage[t]
          \/ stage'[t] # "asked" /\ (stage'[t] \in Pending => stage[t] \in Pending)
    BY DEF Pending
  <2> QED BY <2>1, CopiesKept
<1> QED BY <1>2, <1>4, <1>5, <1>6, NextTypesSplit DEF ListInv, ListFits

\* A transfer's component is unmounted.
LEMMA StagesAtUnmount ==
  ASSUME ListInv, NEW ts, List!Unmounted(ts), ts \cap List!Listed' = {}
  PROVE  /\ stage' \in [Transfers -> List!Stages] /\ held' \subseteq Transfers
         /\ \A t \in Transfers :
              stage'[t] = stage[t]
                \/ (stage'[t] \in {"running", "over", "lost"} /\ stage[t] # "asked"
                     /\ t \notin List!Listed' \ inited)
<1>1. stage' = [t \in Transfers |->
                  IF t \in ts /\ stage[t] \in {"waiting", "running"} THEN "over" ELSE stage[t]]
  BY DEF List!Unmounted
<1>2. held' \subseteq Transfers
  BY ListTypes DEF List!Unmounted, ListTyped
<1>3. stage' \in [Transfers -> List!Stages]
  BY <1>1, ListTypes DEF CopiesTyped, List!Stages
<1> QED BY <1>1, <1>2, <1>3

\* What a transfer waits for comes, or never does.
LEMMA OpenedFits ==
  ASSUME ListInv, NEW t \in Transfers, List!Opened(t) \/ List!Lost(t)
  PROVE  ListInv'
<1> PICK s \in {"running", "lost"} : stage' = [stage EXCEPT ![t] = s]
  BY DEF List!Opened, List!Lost
<1>1. /\ stage[t] \in {"source", "target", "opening", "running"}
      /\ UNCHANGED <<List!listVars, knows, found, wrote, history, List!dialogVars, List!queueVars,
         List!userVars>>
  BY DEF List!Opened, List!Lost
<1>2. ListTyped' /\ List!Listed' = List!Listed /\ inited' = inited /\ paused' = paused
  BY <1>1, ListTypes DEF ListTyped, List!listVars, List!Listed
<1>3. /\ UNCHANGED <<found, wrote, asking, active, resolvePolicy, answer, pendingInitIds, inited>>
      /\ UNCHANGED <<history, clicks, resumed, globalPolicy, opQueue, current>>
  BY <1>1 DEF List!listVars, List!dialogVars, List!queueVars, List!userVars
<1>4. /\ stage' \in [Transfers -> List!Stages]
      /\ \A u \in Transfers :
           stage'[u] = stage[u]
             \/ (stage'[u] \in {"running", "over", "lost"} /\ stage[u] # "asked"
                  /\ u \notin List!Listed' \ inited)
  <2>1. t \notin List!Listed \ inited
    BY <1>1 DEF ListInv, EntriesFit
  <2> QED BY <2>1, <1>1, <1>2, ListTypes DEF CopiesTyped, List!Stages
<1>5. QueueKept
  BY <1>3, ListTypes, QueueUnchanged
<1>6. CurrentKept
  BY <1>2, <1>3 DEF CurrentKept, ListInv, StartsFit
<1>7. /\ history' \in [Transfers -> {List!None, "ended", "error"}]
      /\ clicks' \in 0..MaxClicks /\ resumed' \in BOOLEAN /\ globalPolicy' \in McpPolicies \cup {globalPolicy}
  BY <1>3, ListTypes DEF CopiesTyped, UserTyped, DialogTyped
<1> QED BY <1>2, <1>3, <1>4, <1>5, <1>6, <1>7, QuietStep

\* A transfer is over and asks to be removed.
LEMMA OverFits ==
  ASSUME ListInv, NEW t \in Transfers, stage[t] \in {"source", "running"},
         stage' = [stage EXCEPT ![t] = "over"],
         history' \in [Transfers -> {List!None, "ended", "error"}],
         opQueue' = opQueue \/ opQueue' = Append(opQueue, List!Op("delete", t)),
         UNCHANGED <<List!listVars, knows, found, wrote, List!dialogVars, current, pendingInitIds,
         List!userVars>>
  PROVE  ListInv'
<1>1. ListTyped' /\ List!Listed' = List!Listed /\ inited' = inited /\ paused' = paused
  BY ListTypes DEF ListTyped, List!listVars, List!Listed
<1>2. /\ UNCHANGED <<found, wrote, asking, active, resolvePolicy, answer, pendingInitIds, inited>>
      /\ UNCHANGED <<clicks, resumed, globalPolicy, current>>
  BY DEF List!listVars, List!dialogVars, List!userVars
<1>3. /\ stage' \in [Transfers -> List!Stages]
      /\ \A u \in Transfers :
           stage'[u] = stage[u]
             \/ (stage'[u] \in {"running", "over", "lost"} /\ stage[u] # "asked"
                  /\ u \notin List!Listed' \ inited)
  <2>1. t \notin List!Listed \ inited
    BY DEF ListInv, EntriesFit
  <2> QED BY <2>1, <1>1, ListTypes DEF CopiesTyped, List!Stages
<1>4. QueueKept
  <2>1. QueueTyped /\ "delete" \in {"delete", "pause", "resume", "file", "top"}
    BY ListTypes
  <2>2. CASE opQueue' = opQueue
    BY <2>1, <2>2, QueueUnchanged
  <2>3. CASE opQueue' = Append(opQueue, List!Op("delete", t))
    BY <2>1, <2>3, QueueAppended
  <2> QED BY <2>2, <2>3
<1>5. CurrentKept
  BY <1>1, <1>2 DEF CurrentKept, ListInv, StartsFit
<1>6. clicks' \in 0..MaxClicks /\ resumed' \in BOOLEAN /\ globalPolicy' \in McpPolicies \cup {globalPolicy}
  BY <1>2, ListTypes DEF UserTyped, DialogTyped
<1> QED BY <1>1, <1>2, <1>3, <1>4, <1>5, <1>6, QuietStep

LEMMA SourceMissingFits ==
  ASSUME ListInv, NEW t \in Transfers, List!SourceMissing(t)
  PROVE  ListInv'
<1>1. /\ stage[t] \in {"source", "running"} /\ stage' = [stage EXCEPT ![t] = "over"]
      /\ opQueue' = opQueue \/ opQueue' = Append(opQueue, List!Op("delete", t))
      /\ UNCHANGED <<List!listVars, knows, found, wrote, List!dialogVars, current, pendingInitIds,
         List!userVars>>
  BY DEF List!SourceMissing, List!Enqueued
<1>2. history' = history \/ history' = [history EXCEPT ![t] = "error"]
  BY DEF List!SourceMissing
<1>3. history' \in [Transfers -> {List!None, "ended", "error"}]
  BY <1>2, ListTypes DEF CopiesTyped
<1> QED BY <1>1, <1>3, OverFits

LEMMA FinishesFits ==
  ASSUME ListInv, NEW t \in Transfers, List!Finishes(t)
  PROVE  ListInv'
<1>1. /\ stage[t] \in {"source", "running"} /\ stage' = [stage EXCEPT ![t] = "over"]
      /\ opQueue' = Append(opQueue, List!Op("delete", t)) /\ history' = [history EXCEPT ![t] = "ended"]
      /\ UNCHANGED <<List!listVars, knows, found, wrote, List!dialogVars, current, pendingInitIds,
         List!userVars>>
  BY DEF List!Finishes, List!Ended, List!Enqueued
<1>2. history' \in [Transfers -> {List!None, "ended", "error"}]
  BY <1>1, ListTypes DEF CopiesTyped
<1> QED BY <1>1, <1>2, OverFits

\* The user's buttons and the policies of tool calls: nothing of the copies.
LEMMA ListUserStep ==
  ASSUME ListInv, ListTyped', UNCHANGED <<fileTransfers, inited, pendingInitIds>>,
         UNCHANGED <<stage, found, wrote, history, asking, active, resolvePolicy, answer, current>>,
         clicks' \in 0..MaxClicks, resumed' \in BOOLEAN, globalPolicy' \in McpPolicies \cup {globalPolicy},
         QueueKept, paused \subseteq paused' \/ resumed', resumed => resumed'
  PROVE  ListInv'
<1>1. List!Listed' = List!Listed
  BY DEF List!Listed
<1>2. CurrentKept
  BY <1>1 DEF CurrentKept, ListInv, StartsFit
<1>3. stage' \in [Transfers -> List!Stages] /\ history' \in [Transfers -> {List!None, "ended", "error"}]
  BY ListTypes DEF CopiesTyped
<1> QED BY <1>1, <1>2, <1>3, QuietStep

LEMMA ClickTyped == ASSUME ListInv, List!Click PROVE clicks' \in 0..MaxClicks
<1>1. clicks \in 0..MaxClicks /\ MaxClicks \in Nat
  BY ListTypes DEF UserTyped, ListInv, ListFits
<1>2. clicks < MaxClicks /\ clicks' = clicks + 1
  BY DEF List!Click
<1> QED BY <1>1, <1>2

LEMMA PressFits ==
  ASSUME ListInv, NEW t \in Transfers, List!Press(t)
  PROVE  ListInv'
<1>1. UNCHANGED <<List!listVars, List!copyVars, List!dialogVars, current, pendingInitIds, resumed>>
  BY DEF List!Press
<1>2. UNCHANGED <<fileTransfers, inited, paused, held, knows, pendingInitIds, stage, found, wrote,
                  history, asking, active, resolvePolicy, answer, globalPolicy, current, resumed>>
  BY <1>1 DEF List!listVars, List!copyVars, List!dialogVars
<1>3. QueueKept
  <2> PICK do \in {"delete", "top", IF t \in paused THEN "resume" ELSE "pause"} :
             List!Enqueued(List!Op(do, t))
    BY DEF List!Press
  <2>1. do \in {"delete", "pause", "resume", "file", "top"}
    OBVIOUS
  <2>2. opQueue' = Append(opQueue, List!Op(do, t)) /\ QueueTyped
    BY ListTypes DEF List!Enqueued
  <2> QED BY <2>1, <2>2, QueueAppended
<1>4. ListTyped' /\ globalPolicy' \in McpPolicies \cup {globalPolicy} /\ resumed' \in BOOLEAN
  BY <1>2, ListTypes DEF ListTyped, DialogTyped, UserTyped
<1>5. clicks' \in 0..MaxClicks
  BY ClickTyped DEF List!Press
<1> QED BY <1>2, <1>3, <1>4, <1>5, ListUserStep

LEMMA PauseAllFits ==
  ASSUME ListInv, List!PauseAll
  PROVE  ListInv'
<1>1. /\ paused' = paused \cup List!Listed
      /\ held' = held \cup {t \in List!Listed : stage[t] = "running"}
      /\ UNCHANGED <<fileTransfers, inited, List!copyVars, List!dialogVars, List!queueVars, resumed>>
  BY DEF List!PauseAll
<1>2. UNCHANGED <<fileTransfers, inited, knows, pendingInitIds, stage, found, wrote, history, asking,
                  active, resolvePolicy, answer, globalPolicy, current, resumed, opQueue>>
  BY <1>1 DEF List!copyVars, List!dialogVars, List!queueVars
<1>3. QueueKept
  BY <1>2, ListTypes, QueueUnchanged
<1>4. ListTyped' /\ globalPolicy' \in McpPolicies \cup {globalPolicy} /\ resumed' \in BOOLEAN
  BY <1>1, <1>2, ListTypes DEF ListTyped, DialogTyped, UserTyped
<1>5. clicks' \in 0..MaxClicks
  BY ClickTyped DEF List!PauseAll
<1>6. paused \subseteq paused'
  BY <1>1
<1> QED BY <1>2, <1>3, <1>4, <1>5, <1>6, ListUserStep

LEMMA ResumeAllFits ==
  ASSUME ListInv, List!ResumeAll
  PROVE  ListInv'
<1>1. /\ paused' = paused \ List!Listed /\ held' = held \ List!Listed /\ resumed' = TRUE
      /\ UNCHANGED <<fileTransfers, inited, List!copyVars, List!dialogVars, List!queueVars, clicks>>
  BY DEF List!ResumeAll
<1>2. UNCHANGED <<fileTransfers, inited, knows, pendingInitIds, stage, found, wrote, history, asking,
                  active, resolvePolicy, answer, globalPolicy, current, clicks, opQueue>>
  BY <1>1 DEF List!copyVars, List!dialogVars, List!queueVars
<1>3. QueueKept
  BY <1>2, ListTypes, QueueUnchanged
<1>4. ListTyped' /\ globalPolicy' \in McpPolicies \cup {globalPolicy} /\ clicks' \in 0..MaxClicks
  BY <1>1, <1>2, ListTypes DEF ListTyped, DialogTyped, UserTyped
<1>5. resumed' \in BOOLEAN /\ resumed'
  BY <1>1
<1> QED BY <1>2, <1>3, <1>4, <1>5, ListUserStep

LEMMA ToolCallFits ==
  ASSUME ListInv, List!ToolCall
  PROVE  ListInv'
<1>1. /\ globalPolicy' \in McpPolicies
      /\ UNCHANGED <<List!listVars, List!copyVars, asking, active, resolvePolicy, answer,
           List!queueVars, List!userVars>>
  BY DEF List!ToolCall
<1>2. UNCHANGED <<fileTransfers, inited, paused, held, knows, pendingInitIds, stage, found, wrote,
                  history, asking, active, resolvePolicy, answer, current, clicks, resumed, opQueue>>
  BY <1>1 DEF List!listVars, List!copyVars, List!queueVars, List!userVars
<1>3. QueueKept
  BY <1>2, ListTypes, QueueUnchanged
<1>4. ListTyped' /\ clicks' \in 0..MaxClicks /\ resumed' \in BOOLEAN
  BY <1>2, ListTypes DEF ListTyped, UserTyped
<1> QED BY <1>1, <1>2, <1>3, <1>4, ListUserStep

LEMMA CancelAllFits ==
  ASSUME ListInv, List!CancelAll
  PROVE  ListInv'
<1>1. /\ fileTransfers' = << >> /\ List!Unmounted(List!Listed)
      /\ current' \in {List!None, "stuck"}
      /\ UNCHANGED <<inited, paused, knows, found, wrote, history, List!dialogVars, opQueue,
                     pendingInitIds, resumed>>
  BY DEF List!CancelAll
<1>2. /\ UNCHANGED <<found, wrote, asking, active, resolvePolicy, answer, pendingInitIds, inited>>
      /\ UNCHANGED <<history, resumed, globalPolicy, opQueue>>
  BY <1>1 DEF List!dialogVars
<1>3. List!Listed' = {}
  BY <1>1 DEF List!Listed, List!ToSet
<1>4. /\ stage' \in [Transfers -> List!Stages] /\ held' \subseteq Transfers
      /\ \A t \in Transfers :
           stage'[t] = stage[t]
             \/ (stage'[t] \in {"running", "over", "lost"} /\ stage[t] # "asked"
                  /\ t \notin List!Listed' \ inited)
  <2>1. List!Listed \cap List!Listed' = {}
    BY <1>3
  <2> QED BY <2>1, <1>1, StagesAtUnmount
<1>5. ListTyped'
  <2>1. fileTransfers' \in Seq(Transfers) /\ List!IsInjective(fileTransfers')
    BY <1>1 DEF List!IsInjective
  <2> QED BY <1>1, <1>4, <2>1, ListTypes DEF ListTyped
<1>6. QueueKept
  BY <1>2, ListTypes, QueueUnchanged
<1>7. CurrentKept
  BY <1>1 DEF CurrentKept, ListInv, ListFits
<1>8. clicks' \in 0..MaxClicks
  BY ClickTyped DEF List!CancelAll
<1>9. /\ history' \in [Transfers -> {List!None, "ended", "error"}]
      /\ resumed' \in BOOLEAN /\ globalPolicy' \in McpPolicies \cup {globalPolicy}
  BY <1>2, ListTypes DEF CopiesTyped, UserTyped, DialogTyped
<1>10. List!Listed' \subseteq List!Listed /\ paused \subseteq paused' /\ (resumed => resumed')
  BY <1>1, <1>3
<1> QED BY <1>1, <1>2, <1>4, <1>5, <1>6, <1>7, <1>8, <1>9, <1>10, QuietStep

\* Changes from the queue other than starts.
LEMMA ChangeStep ==
  ASSUME ListInv, ListTyped', current = List!None, current' = List!None, QueueKept,
         List!Listed' \subseteq List!Listed,
         UNCHANGED <<List!dialogVars, pendingInitIds, clicks, inited, found, wrote, history>>,
         paused \subseteq paused' \/ resumed', resumed => resumed', resumed' \in BOOLEAN,
         stage' \in [Transfers -> List!Stages],
         \A t \in Transfers :
           stage'[t] = stage[t]
             \/ (stage'[t] \in {"running", "over", "lost"} /\ stage[t] # "asked"
                  /\ t \notin List!Listed' \ inited)
  PROVE  ListInv'
<1>1. /\ UNCHANGED <<found, wrote, asking, active, resolvePolicy, answer, pendingInitIds, inited>>
      /\ UNCHANGED <<history, clicks, globalPolicy>>
  BY DEF List!dialogVars
<1>2. CurrentKept
  BY DEF CurrentKept, ListInv, ListFits
<1>3. /\ history' \in [Transfers -> {List!None, "ended", "error"}]
      /\ clicks' \in 0..MaxClicks /\ globalPolicy' \in McpPolicies \cup {globalPolicy}
  BY <1>1, ListTypes DEF CopiesTyped, UserTyped, DialogTyped
<1> QED BY <1>1, <1>2, <1>3, QuietStep

LEMMA StartTaken ==
  ASSUME ListInv, opQueue # << >>, current = List!None, opQueue' = Tail(opQueue),
         NEW t \in Transfers, Head(opQueue).do = "init", Head(opQueue).id = t,
         current' = IF t \in List!Listed THEN t ELSE List!None,
         UNCHANGED <<List!listVars, List!copyVars, resumed, List!dialogVars, pendingInitIds, clicks>>
  PROVE  ListInv'
<1>1. List!Listed' = List!Listed /\ UNCHANGED <<fileTransfers, inited, paused, pendingInitIds,
        resumed, stage>>
  BY DEF List!listVars, List!copyVars, List!Listed
<1>2. QueueKept /\ 1 \in Starting /\ opQueue[1].id = t
      /\ \A i \in Starting' : i + 1 \in Starting /\ i + 1 # 1 /\ opQueue'[i] = opQueue[i + 1]
  <2>1. /\ QueueKept /\ Head(opQueue) = opQueue[1] /\ 1 \in DOMAIN opQueue
        /\ \A i \in Starting' : i + 1 \in Starting /\ i + 1 # 1 /\ opQueue'[i] = opQueue[i + 1]
    BY ListTypes, QueueShortened
  <2> QED BY <2>1 DEF Starting
<1>3. Typed'
  <2>1. ListTyped' /\ CopiesTyped'
    BY ListTypes DEF ListTyped, CopiesTyped, List!listVars, List!copyVars
  <2>2. DialogTyped' /\ UserTyped'
    BY ListTypes DEF DialogTyped, UserTyped, List!dialogVars
  <2>3. QueueTyped'
    BY <1>2, ListTypes DEF QueueTyped, QueueKept
  <2> QED BY <2>1, <2>2, <2>3 DEF Typed
<1>4. EntriesFit' /\ SlotsFit'
  <2>1. TakenSlots' = TakenSlots
    BY <1>1 DEF TakenSlots
  <2> QED BY <1>1, <2>1 DEF ListInv, EntriesFit, SlotsFit
<1>5. \A i, j \in Starting : opQueue[i].id = opQueue[j].id => i = j
  BY DEF ListInv, StartsFit
<1>6. StartsFit'
  <2>1. \A u \in Transfers : StartFits(u) => StartFits(u)'
    BY <1>1 DEF StartFits
  <2>2. \A i \in Starting : opQueue[i].id \in Transfers
    <3>1. \A i \in DOMAIN opQueue : opQueue[i] \in List!Ops
      BY ListTypes DEF QueueTyped
    <3> QED BY <3>1 DEF Starting, List!Ops
  <2>3. \A i \in Starting' : opQueue'[i].id # current' /\ opQueue'[i].id \in Transfers
    <3>1. \A i \in Starting' : opQueue'[i].id # t /\ opQueue'[i].id \in Transfers
      BY <1>2, <1>5, <2>2
    <3> QED BY <3>1 DEF ListInv, ListFits
  <2>4. \A i \in Starting', u \in Transfers : opQueue'[i].id = u => StartFits(u)'
    BY <1>2, <2>1 DEF ListInv, StartsFit
  <2>5. ASSUME NEW i \in Starting', NEW j \in Starting', opQueue'[i].id = opQueue'[j].id
        PROVE  i = j
    <3>1. i + 1 = j + 1
      <4>1. i + 1 \in Starting /\ opQueue'[i] = opQueue[i + 1]
        BY <1>2
      <4>2. j + 1 \in Starting /\ opQueue'[j] = opQueue[j + 1]
        BY <1>2
      <4>3. opQueue[i + 1].id = opQueue[j + 1].id
        BY <4>1, <4>2, <2>5
      <4> QED BY <4>1, <4>2, <4>3, <1>5
    <3>2. i \in Int /\ j \in Int
      BY <1>2 DEF Starting, QueueKept
    <3> QED BY <3>1, <3>2
  <2>6. \A u \in Transfers : current' = u => StartFits(u)' /\ u \in List!Listed'
    BY <1>1, <1>2, <2>1 DEF ListInv, ListFits, StartsFit
  <2> QED BY <2>3, <2>4, <2>5, <2>6, NextStarts
<1>7. DialogFits' /\ AnswersFit' /\ List!CopiesAsAnswered'
  <2>1. UNCHANGED <<asking, active, stage, wrote, found, answer, resolvePolicy, globalPolicy>>
          /\ List!Listed' \ List!Listed = {}
    BY <1>1 DEF List!copyVars, List!dialogVars
  <2> QED BY <2>1, DialogKept, CopiesKept
<1> QED BY <1>3, <1>4, <1>6, <1>7, NextTypesSplit DEF ListInv, ListFits

LEMMA MovedToTop ==
  ASSUME ListTyped, NEW t \in List!Listed, fileTransfers' = <<t>> \o List!RemoveFirst(fileTransfers, t)
  PROVE  fileTransfers' \in Seq(Transfers) /\ List!IsInjective(fileTransfers')
           /\ List!Listed' = List!Listed
<1> DEFINE rest == List!RemoveFirst(fileTransfers, t)
           first == <<t>>
<1>1. rest \in Seq(Transfers) /\ List!IsInjective(rest) /\ List!ToSet(rest) = List!Listed \ {t}
  BY Removed DEF ListTyped, List!Listed
<1>2. first \in Seq(Transfers) /\ List!IsInjective(first) /\ List!ToSet(first) = {t}
  <2>1. t \in Transfers
    BY Members DEF ListTyped, List!Listed
  <2> QED BY <2>1 DEF List!IsInjective, List!ToSet
<1>3. fileTransfers' = first \o rest
  OBVIOUS
<1> HIDE DEF first, rest
<1>4. fileTransfers' \in Seq(Transfers) /\ List!ToSet(fileTransfers') = List!ToSet(first) \cup List!ToSet(rest)
  <2> DEFINE all == first \o rest
  <2>1. all \in Seq(Transfers) /\ List!ToSet(all) = List!ToSet(first) \cup List!ToSet(rest)
    BY <1>1, <1>2, Joined
  <2>2. fileTransfers' = all
    BY <1>3
  <2> HIDE DEF all
  <2> QED BY <2>1, <2>2
<1>5. List!IsInjective(fileTransfers')
  <2>1. List!ToSet(first) \cap List!ToSet(rest) = {}
    BY <1>1, <1>2
  <2> QED BY <2>1, <1>1, <1>2, <1>3, JoinedInjective
<1>6. List!Listed' = List!ToSet(fileTransfers')
  BY DEF List!Listed
<1>7. List!Listed' = List!Listed
  BY <1>1, <1>2, <1>4, <1>6
<1> QED BY <1>4, <1>5, <1>7

LEMMA ProcessOpFits ==
  ASSUME ListInv, List!ProcessOp
  PROVE  ListInv'
<1> DEFINE op == Head(opQueue)
           t == op.id
<1>1. /\ opQueue # << >> /\ current = List!None /\ opQueue' = Tail(opQueue)
      /\ UNCHANGED <<List!dialogVars, pendingInitIds, clicks>>
  BY DEF List!ProcessOp
<1>2. QueueKept /\ op \in List!Ops
  BY <1>1, ListTypes, QueueShortened
<1>3. t \in Transfers
  BY <1>2 DEF List!Ops
<1>4. \/ /\ op.do = "init"
         /\ current' = IF t \in List!Listed THEN t ELSE List!None
         /\ UNCHANGED <<List!listVars, List!copyVars, resumed>>
      \/ /\ fileTransfers' = List!RemoveFirst(fileTransfers, t)
         /\ IF t \in List!Listed THEN List!Unmounted({t}) ELSE UNCHANGED <<stage, held>>
         /\ UNCHANGED <<inited, paused, current, knows, found, wrote, history, resumed>>
      \/ /\ paused' = IF t \in List!Listed THEN paused \cup {t} ELSE paused
         /\ held' = IF t \in List!Listed /\ stage[t] = "running" THEN held \cup {t} ELSE held
         /\ UNCHANGED <<fileTransfers, inited, current, List!copyVars, resumed>>
      \/ /\ paused' = paused \ {t}
         /\ held' = held \ {t}
         /\ resumed' = TRUE
         /\ UNCHANGED <<fileTransfers, inited, current, List!copyVars>>
      \/ /\ knows' = IF t \in List!Listed THEN knows \cup {t} ELSE knows
         /\ UNCHANGED <<List!listVars, current, stage, found, wrote, history, resumed>>
      \/ /\ fileTransfers' = IF t \in List!Listed THEN <<t>> \o List!RemoveFirst(fileTransfers, t)
                             ELSE fileTransfers
         /\ UNCHANGED <<inited, paused, held, current, List!copyVars, resumed>>
  BY Zenon DEF List!ProcessOp
<1> HIDE DEF op, t
<1>5. resumed \in BOOLEAN /\ stage \in [Transfers -> List!Stages]
  BY ListTypes DEF UserTyped, CopiesTyped
<1>6. CASE /\ op.do = "init"
           /\ current' = IF t \in List!Listed THEN t ELSE List!None
           /\ UNCHANGED <<List!listVars, List!copyVars, resumed>>
  BY <1>1, <1>3, <1>6, StartTaken DEF op, t
<1>7. CASE /\ fileTransfers' = List!RemoveFirst(fileTransfers, t)
           /\ IF t \in List!Listed THEN List!Unmounted({t}) ELSE UNCHANGED <<stage, held>>
           /\ UNCHANGED <<inited, paused, current, knows, found, wrote, history, resumed>>
  <2>1. /\ fileTransfers' \in Seq(Transfers) /\ List!IsInjective(fileTransfers')
        /\ List!ToSet(fileTransfers') = List!Listed \ {t}
    BY <1>7, ListTypes, Removed DEF ListTyped, List!Listed
  <2>2. List!Listed' = List!Listed \ {t}
    BY <2>1 DEF List!Listed
  <2>3. /\ stage' \in [Transfers -> List!Stages] /\ held' \subseteq Transfers
        /\ \A u \in Transfers :
             stage'[u] = stage[u]
               \/ (stage'[u] \in {"running", "over", "lost"} /\ stage[u] # "asked"
                    /\ u \notin List!Listed' \ inited)
    <3>1. CASE t \in List!Listed
      <4>1. List!Unmounted({t}) /\ {t} \cap List!Listed' = {}
        BY <1>7, <2>2, <3>1
      <4> QED BY <4>1, StagesAtUnmount
    <3>2. CASE t \notin List!Listed
      BY <1>5, <1>7, <3>2, ListTypes DEF ListTyped
    <3> QED BY <3>1, <3>2
  <2>4. ListTyped'
    BY <1>7, <2>1, <2>3, ListTypes DEF ListTyped
  <2> QED BY <1>1, <1>2, <1>5, <1>7, <2>2, <2>3, <2>4, ChangeStep
<1>8. CASE /\ paused' = IF t \in List!Listed THEN paused \cup {t} ELSE paused
           /\ held' = IF t \in List!Listed /\ stage[t] = "running" THEN held \cup {t} ELSE held
           /\ UNCHANGED <<fileTransfers, inited, current, List!copyVars, resumed>>
  <2>1. UNCHANGED <<knows, stage, found, wrote, history>> /\ List!Listed' = List!Listed
    BY <1>8 DEF List!copyVars, List!Listed
  <2>2. ListTyped' /\ paused \subseteq paused'
    BY <1>3, <1>8, <2>1, ListTypes DEF ListTyped
  <2> QED BY <1>1, <1>2, <1>5, <1>8, <2>1, <2>2, ChangeStep
<1>9. CASE /\ paused' = paused \ {t}
           /\ held' = held \ {t}
           /\ resumed' = TRUE
           /\ UNCHANGED <<fileTransfers, inited, current, List!copyVars>>
  <2>1. UNCHANGED <<knows, stage, found, wrote, history>> /\ List!Listed' = List!Listed
    BY <1>9 DEF List!copyVars, List!Listed
  <2>2. ListTyped'
    BY <1>9, <2>1, ListTypes DEF ListTyped
  <2> QED BY <1>1, <1>2, <1>5, <1>9, <2>1, <2>2, ChangeStep
<1>10. CASE /\ knows' = IF t \in List!Listed THEN knows \cup {t} ELSE knows
            /\ UNCHANGED <<List!listVars, current, stage, found, wrote, history, resumed>>
  <2>1. UNCHANGED <<fileTransfers, inited, paused, held>> /\ List!Listed' = List!Listed
    BY <1>10 DEF List!listVars, List!Listed
  <2>2. ListTyped'
    BY <1>3, <1>10, <2>1, ListTypes DEF ListTyped
  <2> QED BY <1>1, <1>2, <1>5, <1>10, <2>1, <2>2, ChangeStep
<1>11. CASE /\ fileTransfers' = IF t \in List!Listed THEN <<t>> \o List!RemoveFirst(fileTransfers, t)
                                ELSE fileTransfers
            /\ UNCHANGED <<inited, paused, held, current, List!copyVars, resumed>>
  <2>1. UNCHANGED <<knows, stage, found, wrote, history>>
    BY <1>11 DEF List!copyVars
  <2>2. fileTransfers' \in Seq(Transfers) /\ List!IsInjective(fileTransfers')
          /\ List!Listed' = List!Listed
    <3>1. CASE t \in List!Listed
      BY <1>11, <3>1, ListTypes, MovedToTop
    <3>2. CASE t \notin List!Listed
      BY <1>11, <3>2, ListTypes DEF ListTyped, List!Listed
    <3> QED BY <3>1, <3>2
  <2>3. ListTyped'
    BY <1>11, <2>1, <2>2, ListTypes DEF ListTyped
  <2> QED BY <1>1, <1>2, <1>5, <1>11, <2>1, <2>2, <2>3, ChangeStep
<1> QED BY <1>4, <1>6, <1>7, <1>8, <1>9, <1>10, <1>11

\* One transfer goes on: what is left to show is what holds for it.
LEMMA CopyStep ==
  ASSUME ListInv, NEW t \in Transfers, stage[t] \in {"source", "target"}, QueueKept,
         NEW s \in (List!Stages \ Pending) \cup {"target"}, stage' = [stage EXCEPT ![t] = s],
         UNCHANGED <<List!listVars, resolvePolicy, globalPolicy, current, pendingInitIds,
         List!userVars>>,
         ListTyped', CopiesTyped', DialogTyped', DialogFits',
         AnswerFits(t)' /\ List!CopiedAsAnswered(t)',
         \A u \in Transfers \ {t} : /\ found'[u] = found[u]
                                    /\ wrote'[u] = wrote[u] /\ answer'[u] = answer[u]
  PROVE  ListInv'
<1>1. /\ List!Listed' = List!Listed
      /\ UNCHANGED <<inited, paused, resolvePolicy, current, pendingInitIds, resumed, clicks,
                     globalPolicy>>
  BY DEF List!listVars, List!userVars, List!Listed
<1>2. \A u \in Transfers \ {t} : stage'[u] = stage[u]
  BY ListTypes DEF CopiesTyped
<1>3. StagesKept
  <2>1. t \notin List!Listed \ inited
    BY DEF ListInv, EntriesFit
  <2>2. stage'[t] # "new"
    BY ListTypes DEF CopiesTyped, Pending
  <2> QED BY <2>1, <2>2, <1>1, <1>2 DEF StagesKept
<1>4. CurrentKept
  BY <1>1 DEF CurrentKept, ListInv, StartsFit
<1>5. EntriesFit' /\ StartsFit' /\ SlotsFit'
  BY <1>1, <1>3, <1>4, ListKept
<1>6. AnswersFit' /\ List!CopiesAsAnswered'
  BY <1>1, <1>2, ListTypes, OneCopy
<1>7. QueueTyped' /\ UserTyped'
  BY <1>1, ListTypes DEF QueueTyped, UserTyped, QueueKept
<1>8. Typed'
  BY <1>7 DEF Typed
<1> QED BY <1>5, <1>6, <1>8, NextTypesSplit DEF ListInv, ListFits

LEMMA CopyTypes ==
  ASSUME ListInv, NEW t \in Transfers, NEW s \in List!Stages,
         NEW f \in {List!None, "exists", "absent", "unknown"}, NEW w \in {List!None, "target", "renamed"},
         stage' = [stage EXCEPT ![t] = s], found' = [found EXCEPT ![t] = f],
         wrote' = wrote \/ wrote' = [wrote EXCEPT ![t] = w],
         history' = history \/ history' = [history EXCEPT ![t] = "ended"]
  PROVE  /\ CopiesTyped' /\ stage'[t] = s /\ found'[t] = f
         /\ \A u \in Transfers \ {t} : found'[u] = found[u] /\ wrote'[u] = wrote[u]
<1>1. stage \in [Transfers -> List!Stages] /\ found \in [Transfers -> {List!None, "exists", "absent", "unknown"}]
      /\ wrote \in [Transfers -> {List!None, "target", "renamed"}]
      /\ history \in [Transfers -> {List!None, "ended", "error"}]
  BY ListTypes DEF CopiesTyped
<1>2. /\ wrote' \in [Transfers -> {List!None, "target", "renamed"}]
      /\ \A u \in Transfers \ {t} : wrote'[u] = wrote[u]
  BY <1>1
<1>3. history' \in [Transfers -> {List!None, "ended", "error"}]
  BY <1>1
<1>4. stage' \in [Transfers -> List!Stages] /\ stage'[t] = s
  BY <1>1
<1>5. /\ found' \in [Transfers -> {List!None, "exists", "absent", "unknown"}] /\ found'[t] = f
      /\ \A u \in Transfers \ {t} : found'[u] = found[u]
  BY <1>1
<1> QED BY <1>2, <1>3, <1>4, <1>5 DEF CopiesTyped

LEMMA DialogLeft ==
  ASSUME ListInv, NEW t \in Transfers, stage[t] # "asked", NEW s, stage' = [stage EXCEPT ![t] = s],
         UNCHANGED <<asking, active>>
  PROVE  DialogFits'
<1>1. \A u \in Transfers : stage[u] = "asked" => stage'[u] = "asked"
  BY ListTypes DEF CopiesTyped
<1> QED BY <1>1, DialogKept

LEMMA SourceFoundFits ==
  ASSUME ListInv, NEW t \in Transfers, List!SourceFound(t)
  PROVE  ListInv'
<1>1. /\ stage[t] = "source" /\ opQueue' = Append(opQueue, List!Op("file", t))
      /\ \/ t \in List!Listed /\ stage' = [stage EXCEPT ![t] = "target"] /\ UNCHANGED <<knows, wrote>>
         \/ /\ t \notin List!Listed /\ knows' = knows \cup {t}
            /\ stage' = [stage EXCEPT ![t] = "opening"] /\ wrote' = [wrote EXCEPT ![t] = "target"]
      /\ UNCHANGED <<List!listVars, found, history, List!dialogVars, current, pendingInitIds,
         List!userVars>>
  BY Zenon DEF List!SourceFound, List!Enqueued, List!Opening
<1>2. /\ UNCHANGED <<fileTransfers, inited, paused, held>> /\ List!Listed' = List!Listed
      /\ UNCHANGED <<resolvePolicy, answer, globalPolicy, asking, active, found, history>>
  BY <1>1 DEF List!listVars, List!dialogVars, List!Listed
<1>3. ListTyped' /\ DialogTyped'
  BY <1>1, <1>2, ListTypes DEF ListTyped, DialogTyped
<1>4. QueueKept
  <2>1. QueueTyped /\ "file" \in {"delete", "pause", "resume", "file", "top"}
    BY ListTypes
  <2> QED BY <1>1, <2>1, QueueAppended
<1>5. found[t] = List!None /\ wrote[t] = List!None /\ AnswerFits(t)
  BY <1>1 DEF ListInv, AnswersFit, AnswerFits, Pending
<1>6. found' = [found EXCEPT ![t] = List!None]
  BY <1>2, <1>5, ListTypes DEF CopiesTyped
<1>7. "target" \in List!Stages /\ "opening" \in List!Stages /\ "target" \in (List!Stages \ Pending) \cup {"target"}
      /\ "opening" \in List!Stages \ Pending /\ stage[t] # "asked"
  BY <1>1 DEF List!Stages, Pending
<1>8. CASE t \in List!Listed /\ stage' = [stage EXCEPT ![t] = "target"] /\ UNCHANGED <<knows, wrote>>
  <2>1. /\ CopiesTyped' /\ stage'[t] = "target" /\ found'[t] = List!None
        /\ \A u \in Transfers \ {t} : found'[u] = found[u] /\ wrote'[u] = wrote[u]
    BY <1>2, <1>6, <1>7, <1>8, CopyTypes
  <2>2. AnswerFits(t)' /\ List!CopiedAsAnswered(t)'
    BY <1>1, <1>2, <1>5, <1>8, <2>1 DEF AnswerFits, List!CopiedAsAnswered, Pending, List!None
  <2>3. DialogFits'
    BY <1>2, <1>7, <1>8, DialogLeft
  <2>4. /\ UNCHANGED <<List!listVars, resolvePolicy, globalPolicy, current, pendingInitIds,
             List!userVars>>
        /\ \A u \in Transfers \ {t} : /\ found'[u] = found[u]
                                      /\ wrote'[u] = wrote[u] /\ answer'[u] = answer[u]
    BY <1>1, <1>2, <2>1
  <2>5. stage[t] \in {"source", "target"} /\ stage' = [stage EXCEPT ![t] = "target"]
    BY <1>1, <1>8
  <2> QED BY <1>3, <1>4, <1>7, <2>1, <2>2, <2>3, <2>4, <2>5, CopyStep
<1>9. CASE /\ t \notin List!Listed /\ knows' = knows \cup {t}
           /\ stage' = [stage EXCEPT ![t] = "opening"] /\ wrote' = [wrote EXCEPT ![t] = "target"]
  <2>1. /\ CopiesTyped' /\ stage'[t] = "opening" /\ found'[t] = List!None
        /\ \A u \in Transfers \ {t} : found'[u] = found[u] /\ wrote'[u] = wrote[u]
    BY <1>2, <1>6, <1>7, <1>9, CopyTypes
  <2>2. wrote'[t] = "target"
    BY <1>9, ListTypes DEF CopiesTyped
  <2>3. AnswerFits(t)' /\ List!CopiedAsAnswered(t)'
    BY <1>2, <1>9, <2>1, <2>2 DEF AnswerFits, List!CopiedAsAnswered, Pending, List!None
  <2>4. DialogFits'
    BY <1>2, <1>7, <1>9, DialogLeft
  <2> QED BY <1>1, <1>2, <1>3, <1>4, <1>7, <1>9, <2>1, <2>3, <2>4, CopyStep
<1> QED BY <1>1, <1>8, <1>9

LEMMA TargetAbsentFits ==
  ASSUME ListInv, NEW t \in Transfers, List!TargetAbsent(t)
  PROVE  ListInv'
<1>1. /\ stage[t] = "target"
      /\ \E said \in {"absent", "unknown"} : found' = [found EXCEPT ![t] = said]
      /\ \/ stage' = [stage EXCEPT ![t] = "opening"] /\ wrote' = [wrote EXCEPT ![t] = "target"]
         \/ stage' = [stage EXCEPT ![t] = "over"] /\ UNCHANGED wrote
      /\ UNCHANGED <<List!listVars, knows, history, List!dialogVars, List!queueVars, List!userVars>>
  BY Zenon DEF List!TargetAbsent, List!StartTransfer, List!Opening
<1>2. PICK s \in {"opening", "over"} : stage' = [stage EXCEPT ![t] = s]
  BY <1>1
<1> PICK said \in {"absent", "unknown"} : found' = [found EXCEPT ![t] = said]
  BY <1>1
<1>3. /\ UNCHANGED <<fileTransfers, inited, paused, held>> /\ List!Listed' = List!Listed
      /\ UNCHANGED <<resolvePolicy, answer, globalPolicy, asking, active, history, current,
                     pendingInitIds, opQueue>>
  BY <1>1 DEF List!listVars, List!dialogVars, List!queueVars, List!Listed
<1>4. ListTyped' /\ DialogTyped' /\ QueueKept
  BY <1>1, <1>3, ListTypes, QueueUnchanged DEF ListTyped, DialogTyped
<1>5. wrote[t] = List!None
  BY <1>1 DEF ListInv, AnswersFit, AnswerFits, Pending
<1>6. s \in List!Stages \ Pending /\ s \in List!Stages /\ stage[t] # "asked" /\ s # "asked"
  BY <1>1 DEF List!Stages, Pending
<1>7. /\ CopiesTyped' /\ stage'[t] = s /\ found'[t] = said
      /\ \A u \in Transfers \ {t} : found'[u] = found[u] /\ wrote'[u] = wrote[u]
  <2>1. wrote' = wrote \/ wrote' = [wrote EXCEPT ![t] = "target"]
    BY <1>1
  <2> QED BY <1>1, <1>2, <1>3, <1>6, <2>1, CopyTypes
<1>8. wrote'[t] \in {List!None, "target"}
  BY <1>1, <1>5, ListTypes DEF CopiesTyped
<1>9. AnswerFits(t)' /\ List!CopiedAsAnswered(t)'
  BY <1>6, <1>7, <1>8 DEF AnswerFits, List!CopiedAsAnswered, List!None
<1>10. DialogFits'
  BY <1>2, <1>3, <1>6, DialogLeft
<1> QED BY <1>1, <1>2, <1>3, <1>4, <1>6, <1>7, <1>9, <1>10, CopyStep

\* A decision, by a policy that is the answer for the transfer.
LEMMA DecidedFits ==
  ASSUME ListInv, NEW t \in Transfers, stage[t] = "target", NEW policy \in List!FileActions,
         policy \in List!Answers \/ globalPolicy # List!None,
         List!Decided(t, policy), found' = [found EXCEPT ![t] = "exists"],
         answer' \in [Transfers -> List!FileActions \cup {List!None}], answer'[t] = policy,
         \A u \in Transfers \ {t} : answer'[u] = answer[u],
         UNCHANGED <<List!listVars, knows, resolvePolicy, globalPolicy, asking, active, current,
                     pendingInitIds, List!userVars>>
  PROVE  ListInv'
<1>1. /\ stage' = [stage EXCEPT ![t] = "opening"] \/ stage' = [stage EXCEPT ![t] = "over"]
      /\ history' = history \/ history' = [history EXCEPT ![t] = "ended"]
      /\ opQueue' = opQueue \/ opQueue' = Append(opQueue, List!Op("delete", t))
      /\ \/ wrote' = wrote
         \/ policy = "rename" /\ wrote' = [wrote EXCEPT ![t] = "renamed"]
         \/ policy \notin {"skip", "cancel", "rename"} /\ wrote' = [wrote EXCEPT ![t] = "target"]
  BY DEF List!Decided, List!Ended, List!Enqueued, List!Opening, List!StartTransfer
<1>2. PICK s \in {"opening", "over"} : stage' = [stage EXCEPT ![t] = s]
  BY <1>1
<1>3. UNCHANGED <<fileTransfers, inited, paused, held>> /\ List!Listed' = List!Listed
  BY DEF List!listVars, List!Listed
<1>4. ListTyped' /\ DialogTyped'
  BY <1>3, ListTypes DEF ListTyped, DialogTyped
<1>5. QueueKept
  <2>1. QueueTyped /\ "delete" \in {"delete", "pause", "resume", "file", "top"}
    BY ListTypes
  <2>2. CASE opQueue' = opQueue
    BY <2>1, <2>2, QueueUnchanged
  <2>3. CASE opQueue' = Append(opQueue, List!Op("delete", t))
    BY <2>1, <2>3, QueueAppended
  <2> QED BY <1>1, <2>2, <2>3
<1>6. wrote[t] = List!None
  BY DEF ListInv, AnswersFit, AnswerFits, Pending
<1>7. s \in List!Stages \ Pending /\ s \in List!Stages /\ stage[t] # "asked" /\ s # "asked"
  BY DEF List!Stages, Pending
<1>8. /\ CopiesTyped' /\ stage'[t] = s /\ found'[t] = "exists"
      /\ \A u \in Transfers \ {t} : found'[u] = found[u] /\ wrote'[u] = wrote[u]
  <2>1. PICK w \in {"target", "renamed"} : wrote' = wrote \/ wrote' = [wrote EXCEPT ![t] = w]
    BY <1>1
  <2> QED BY <1>1, <1>2, <1>7, <2>1, CopyTypes
<1>9. wrote'[t] = List!None \/ (policy = "rename" /\ wrote'[t] = "renamed")
      \/ (policy \notin {"skip", "cancel", "rename"} /\ wrote'[t] = "target")
  BY <1>1, <1>6, ListTypes DEF CopiesTyped
<1>10. AnswerFits(t)' /\ List!CopiedAsAnswered(t)'
  <2>1. policy \notin {"skip", "cancel", "rename"} /\ policy \in List!Answers
          => policy = "mergeOrOverwrite"
    BY DEF List!Answers
  <2> QED BY <1>7, <1>8, <1>9, <2>1 DEF AnswerFits, List!CopiedAsAnswered, List!None
<1>11. DialogFits'
  BY <1>2, <1>7, DialogLeft
<1>12. /\ stage[t] \in {"source", "target"} /\ s \in (List!Stages \ Pending) \cup {"target"}
       /\ \A u \in Transfers \ {t} : /\ found'[u] = found[u]
                                     /\ wrote'[u] = wrote[u] /\ answer'[u] = answer[u]
  BY <1>7, <1>8
<1> QED BY <1>2, <1>4, <1>5, <1>8, <1>10, <1>11, <1>12, CopyStep

LEMMA TargetFoundFits ==
  ASSUME ListInv, NEW t \in Transfers, List!TargetFound(t)
  PROVE  ListInv'
<1>1. /\ stage[t] = "target" /\ found' = [found EXCEPT ![t] = "exists"]
      /\ \/ /\ resolvePolicy[t] # List!None
            /\ List!Decided(t, resolvePolicy[t])
            /\ UNCHANGED <<asking, active, answer>>
         \/ /\ globalPolicy \in List!FileActions
            /\ answer' = [answer EXCEPT ![t] = globalPolicy]
            /\ List!Decided(t, globalPolicy)
            /\ UNCHANGED <<asking, active>>
         \/ /\ answer' = [answer EXCEPT ![t] = globalPolicy] /\ globalPolicy \in List!FileActions
            /\ stage' = [stage EXCEPT ![t] = "over"] /\ UNCHANGED <<wrote, history, opQueue>>
            /\ UNCHANGED <<asking, active>>
         \/ /\ stage' = [stage EXCEPT ![t] = "asked"]
            /\ IF active = List!None THEN active' = t /\ UNCHANGED asking
                                ELSE asking' = Append(asking, t) /\ UNCHANGED active
            /\ UNCHANGED <<wrote, history, opQueue, answer>>
      /\ UNCHANGED <<List!listVars, knows, resolvePolicy, globalPolicy, current, pendingInitIds,
         List!userVars>>
  BY Zenon DEF List!TargetFound
<1>2. UNCHANGED <<fileTransfers, inited, paused, held>> /\ List!Listed' = List!Listed
  BY <1>1 DEF List!listVars, List!Listed
<1>3. /\ ListTyped' /\ answer \in [Transfers -> List!FileActions \cup {List!None}]
      /\ resolvePolicy \in [Transfers -> List!Answers \cup {List!None}] /\ QueueTyped
      /\ asking \in Seq(Transfers) /\ active \in Transfers \cup {List!None}
      /\ globalPolicy \in McpPolicies \cup {List!None}
  BY <1>1, <1>2, ListTypes DEF ListTyped, DialogTyped
<1>4. AnswerFits(t) /\ wrote[t] = List!None
  BY <1>1 DEF ListInv, AnswersFit, AnswerFits, Pending
<1>5. CASE /\ resolvePolicy[t] # List!None
           /\ List!Decided(t, resolvePolicy[t])
           /\ UNCHANGED <<asking, active, answer>>
  <2>1. /\ answer[t] = resolvePolicy[t] /\ resolvePolicy[t] \in List!FileActions
        /\ resolvePolicy[t] \in List!Answers
    BY <1>1, <1>3, <1>4, <1>5 DEF AnswerFits, Pending, List!FileActions
  <2> QED BY <1>1, <1>3, <1>5, <2>1, DecidedFits
<1>6. CASE /\ globalPolicy \in List!FileActions
           /\ answer' = [answer EXCEPT ![t] = globalPolicy]
           /\ List!Decided(t, globalPolicy)
           /\ UNCHANGED <<asking, active>>
  <2>1. /\ answer' \in [Transfers -> List!FileActions \cup {List!None}] /\ answer'[t] = globalPolicy
        /\ \A u \in Transfers \ {t} : answer'[u] = answer[u]
        /\ globalPolicy # List!None
    BY <1>3, <1>6 DEF List!FileActions, List!Answers, List!None
  <2> QED BY <1>1, <1>6, <2>1, DecidedFits
<1>7. CASE /\ answer' = [answer EXCEPT ![t] = globalPolicy] /\ globalPolicy \in List!FileActions
           /\ stage' = [stage EXCEPT ![t] = "over"] /\ UNCHANGED <<wrote, history, opQueue>>
           /\ UNCHANGED <<asking, active>>
  <2>1. /\ answer' \in [Transfers -> List!FileActions \cup {List!None}]
        /\ \A u \in Transfers \ {t} : answer'[u] = answer[u]
    BY <1>3, <1>7
  <2>2. DialogTyped'
    BY <1>1, <1>3, <1>7, <2>1 DEF DialogTyped
  <2>3. "over" \in (List!Stages \ Pending) \cup {"target"} /\ "over" \in List!Stages
          /\ stage[t] \in {"source", "target"}
        /\ stage[t] # "asked"
    BY <1>1 DEF List!Stages, Pending
  <2>4. /\ CopiesTyped' /\ stage'[t] = "over" /\ found'[t] = "exists"
        /\ \A u \in Transfers \ {t} : found'[u] = found[u] /\ wrote'[u] = wrote[u]
    BY <1>1, <1>7, <2>3, CopyTypes
  <2>5. AnswerFits(t)' /\ List!CopiedAsAnswered(t)'
    BY <1>4, <1>7, <2>4 DEF AnswerFits, List!CopiedAsAnswered, Pending, List!None
  <2>6. DialogFits'
    BY <1>7, <2>3, DialogLeft
  <2>7. QueueKept
    BY <1>3, <1>7, QueueUnchanged
  <2> QED BY <1>1, <1>3, <1>7, <2>1, <2>2, <2>3, <2>4, <2>5, <2>6, <2>7, CopyStep
<1>8. CASE /\ stage' = [stage EXCEPT ![t] = "asked"]
           /\ IF active = List!None THEN active' = t /\ UNCHANGED asking
                               ELSE asking' = Append(asking, t) /\ UNCHANGED active
           /\ UNCHANGED <<wrote, history, opQueue, answer>>
  <2>1. "asked" \in (List!Stages \ Pending) \cup {"target"} /\ "asked" \in List!Stages
          /\ stage[t] \in {"source", "target"}
    BY <1>1 DEF List!Stages, Pending
  <2>2. /\ CopiesTyped' /\ stage'[t] = "asked" /\ found'[t] = "exists"
        /\ \A u \in Transfers \ {t} : found'[u] = found[u] /\ wrote'[u] = wrote[u]
    BY <1>1, <1>8, <2>1, CopyTypes
  <2>3. AnswerFits(t)' /\ List!CopiedAsAnswered(t)'
    BY <1>4, <1>8, <2>2 DEF AnswerFits, List!CopiedAsAnswered, Pending, List!None
  <2>4. QueueKept
    BY <1>3, <1>8, QueueUnchanged
  <2>5. /\ asking' \in Seq(Transfers) /\ active' \in Transfers \cup {List!None}
        /\ List!IsInjective(asking') /\ active' \notin List!ToSet(asking')
        /\ List!ToSet(asking') \cup {active'} \subseteq List!ToSet(asking) \cup {active, t}
    <3>1. t \notin List!ToSet(asking) /\ t # active /\ t # List!None /\ List!IsInjective(asking)
          /\ active \notin List!ToSet(asking)
      BY <1>1, <1>3 DEF ListInv, DialogFits, ListFits
    <3>2. CASE active = List!None
      BY <1>3, <1>8, <3>1, <3>2
    <3>3. CASE active # List!None
      <4> DEFINE next == Append(asking, t)
      <4>1. next \in Seq(Transfers) /\ List!IsInjective(next)
              /\ List!ToSet(next) = List!ToSet(asking) \cup {t}
        BY <1>3, <3>1, OneMore
      <4>2. asking' = next /\ active' = active
        BY <1>8, <3>3
      <4> HIDE DEF next
      <4> QED BY <1>3, <3>1, <4>1, <4>2
    <3> QED BY <3>2, <3>3
  <2>6. DialogTyped'
    BY <1>1, <1>3, <1>8, <2>5 DEF DialogTyped
  <2>7. DialogFits'
    <3>1. \A u \in Transfers : stage[u] = "asked" \/ u = t => stage'[u] = "asked"
      BY <1>8, ListTypes DEF CopiesTyped
    <3>2. \A u \in List!ToSet(asking) \cup {active, t} : u # List!None => u \in Transfers
            /\ (stage[u] = "asked" \/ u = t)
      BY <1>3, ListTypes DEF ListInv, DialogFits
    <3>3. List!None \notin List!ToSet(asking')
      BY <2>5, Members DEF ListInv, ListFits
    <3> QED BY <2>5, <3>1, <3>2, <3>3 DEF DialogFits
  <2>8. \A u \in Transfers \ {t} : /\ found'[u] = found[u]
                                   /\ wrote'[u] = wrote[u] /\ answer'[u] = answer[u]
    BY <1>8, <2>2
  <2> QED BY <1>1, <1>3, <1>8, <2>1, <2>2, <2>3, <2>4, <2>6, <2>7, <2>8, CopyStep
<1> QED BY <1>1, <1>5, <1>6, <1>7, <1>8

\* The dialog goes on with those that have not been answered.
LEMMA ShownNext ==
  ASSUME DialogFits, asking \in Seq(Transfers), List!None \notin Transfers,
         NEW left \in SUBSET List!ToSet(asking), IsFiniteSet(left),
         NEW rest \in List!InOrder(left, asking),
         List!ShowNext(rest)
  PROVE  /\ asking' \in Seq(Transfers) /\ active' \in Transfers \cup {List!None}
         /\ List!IsInjective(asking') /\ active' \notin List!ToSet(asking')
         /\ List!ToSet(asking') \subseteq left /\ (active' # List!None => active' \in left)
<1>1. left \subseteq Transfers
  BY Members
<1>2. rest \in Seq(left) /\ List!IsInjective(rest) /\ List!ToSet(rest) \subseteq left
  BY Enumerated DEF DialogFits
<1>3. rest \in Seq(Transfers)
  BY <1>1, <1>2
<1>4. CASE rest = << >>
  <2>1. active' = List!None /\ asking' = rest
    BY <1>4 DEF List!ShowNext
  <2>2. List!None \notin List!ToSet(rest)
    BY <1>1, <1>2
  <2> QED BY <1>2, <1>3, <2>1, <2>2
<1>5. CASE rest # << >>
  <2>1. active' = Head(rest) /\ asking' = Tail(rest)
    BY <1>5 DEF List!ShowNext
  <2>2. /\ Tail(rest) \in Seq(Transfers) /\ List!IsInjective(Tail(rest))
             /\ Head(rest) \in List!ToSet(rest)
        /\ List!ToSet(Tail(rest)) \subseteq List!ToSet(rest) /\ Head(rest) \notin List!ToSet(Tail(rest))
    BY <1>3, <1>2, <1>5, NextOne
  <2> QED BY <1>1, <1>2, <2>1, <2>2
<1> QED BY <1>4, <1>5

LEMMA ActFits ==
  ASSUME ListInv, NEW policy \in List!Answers, NEW all \in BOOLEAN, List!Act(policy, all)
  PROVE  ListInv'
<1> DEFINE queued == IF all THEN {u \in List!ToSet(asking) : Batch[u] = Batch[active]} ELSE {}
           batch == IF all THEN List!Mates(active) ELSE {}
           live == {u \in queued \cup {active} : u \in List!Listed}
           left == List!ToSet(asking) \ queued
<1>1. /\ active # List!None /\ List!Answer(batch, policy)
      /\ List!AllDecided(queued \cup {active}, policy)
      /\ \E rest \in List!InOrder(left, asking) : List!ShowNext(rest)
      /\ UNCHANGED <<List!listVars, knows, found, globalPolicy, current, pendingInitIds, List!userVars>>
  BY DEF List!Act
<1>2. /\ resolvePolicy' = [u \in Transfers |-> IF u \in batch THEN policy ELSE resolvePolicy[u]]
      /\ answer' = [u \in Transfers |->
                      IF u \in (batch \cap List!Undecided) \cup {active} THEN policy ELSE answer[u]]
  BY <1>1 DEF List!Answer
<1>3. \/ /\ policy = "skip"
         /\ stage' = [u \in Transfers |-> IF u \in live THEN "over" ELSE stage[u]]
         /\ history' = [u \in Transfers |-> IF u \in live THEN "ended" ELSE history[u]]
         /\ \E order \in List!SetToSeqs(live) :
              opQueue' = opQueue \o [i \in DOMAIN order |-> List!Op("delete", order[i])]
         /\ UNCHANGED wrote
      \/ /\ policy # "skip"
         /\ stage' = [u \in Transfers |-> IF u \in live THEN "opening" ELSE stage[u]]
         /\ wrote' = [u \in Transfers |->
                        IF u \notin live THEN wrote[u]
                        ELSE IF policy = "rename" THEN "renamed" ELSE "target"]
         /\ UNCHANGED <<history, opQueue>>
  BY <1>1 DEF List!AllDecided
<1>4. /\ UNCHANGED <<fileTransfers, inited, paused, held, knows, found, resumed, clicks>>
      /\ UNCHANGED <<globalPolicy, current, pendingInitIds>> /\ List!Listed' = List!Listed
  BY <1>1 DEF List!listVars, List!userVars, List!Listed
<1>5. /\ active \in Transfers /\ asking \in Seq(Transfers) /\ List!ToSet(asking) \subseteq Transfers
      /\ active \notin List!ToSet(asking) /\ stage[active] = "asked"
      /\ \A u \in List!ToSet(asking) : stage[u] = "asked"
      /\ DialogFits /\ List!None \notin Transfers /\ ListFits
  BY <1>1, ListTypes DEF DialogTyped, ListInv, DialogFits, ListFits
<1>6. /\ queued \subseteq List!ToSet(asking) /\ live \subseteq (queued \cup {active}) \cap List!Listed
      /\ left = List!ToSet(asking) \ queued /\ live \subseteq Transfers
      /\ batch \subseteq List!Listed /\ (live \ {active}) \subseteq batch
  <2>1. (live \ {active}) \subseteq batch
    BY DEF List!Mates
  <2>2. batch \subseteq List!Listed
    BY DEF List!Mates
  <2> QED BY <1>5, <2>1, <2>2
<1> HIDE DEF queued, batch, live, left
<1>7. \A u \in live : stage[u] = "asked" /\ found[u] = "exists" /\ wrote[u] = List!None
                      /\ u \in (batch \cap List!Undecided) \cup {active}
  <2>1. \A u \in live : stage[u] = "asked"
    BY <1>5, <1>6
  <2> QED BY <2>1, <1>6 DEF ListInv, AnswersFit, AnswerFits, List!Undecided
<1>8. /\ \A u \in Transfers \ live : stage'[u] = stage[u] /\ wrote'[u] = wrote[u]
      /\ \A u \in live : /\ stage'[u] \in {"over", "opening"}
                         /\ \/ wrote'[u] = List!None
                            \/ policy = "rename" /\ wrote'[u] = "renamed"
                            \/ policy = "mergeOrOverwrite" /\ wrote'[u] = "target"
      /\ CopiesTyped'
  <2>1. CASE policy = "skip"
    <3>1. /\ stage' = [u \in Transfers |-> IF u \in live THEN "over" ELSE stage[u]]
          /\ history' = [u \in Transfers |-> IF u \in live THEN "ended" ELSE history[u]]
          /\ UNCHANGED wrote
      BY <1>3, <2>1
    <3>2. CopiesTyped'
      BY <3>1, <1>4, ListTypes DEF CopiesTyped, List!Stages
    <3> QED BY <3>1, <3>2, <1>6, <1>7
  <2>2. CASE policy # "skip"
    <3>1. /\ stage' = [u \in Transfers |-> IF u \in live THEN "opening" ELSE stage[u]]
          /\ wrote' = [u \in Transfers |->
                         IF u \notin live THEN wrote[u]
                         ELSE IF policy = "rename" THEN "renamed" ELSE "target"]
          /\ UNCHANGED history
      BY <1>3, <2>2
    <3>2. CopiesTyped'
      BY <3>1, <1>4, ListTypes DEF CopiesTyped, List!Stages
    <3>3. policy # "rename" => policy = "mergeOrOverwrite"
      BY <2>2 DEF List!Answers
    <3> QED BY <3>1, <3>2, <3>3, <1>6
  <2> QED BY <2>1, <2>2
<1>9. QueueKept
  <2>1. CASE opQueue' = opQueue
    BY <2>1, ListTypes, QueueUnchanged
  <2>2. CASE \E order \in List!SetToSeqs(live) :
               opQueue' = opQueue \o [i \in DOMAIN order |-> List!Op("delete", order[i])]
    <3> PICK order \in List!SetToSeqs(live) :
               opQueue' = opQueue \o [i \in DOMAIN order |-> List!Op("delete", order[i])]
      BY <2>2
    <3>1. order \in Seq(Transfers)
      <4>1. IsFiniteSet(live)
        BY <1>5, <1>6, SlotsCounted
      <4>2. order \in Seq(live)
        BY <4>1, Ordered
      <4> QED BY <4>2, <1>6
    <3> DEFINE new == [i \in DOMAIN order |-> List!Op("delete", order[i])]
    <3>2. new \in Seq(List!Ops) /\ Len(new) = Len(order) /\ \A i \in 1..Len(order) :
            new[i].do = "delete"
      <4>1. /\ new \in Seq(List!Ops) /\ Len(new) = Len(order)
            /\ \A i \in 1..Len(order) : new[i] = [do |-> "delete", id |-> order[i]]
        BY <3>1, Asked
      <4> HIDE DEF new
      <4>2. ASSUME NEW i \in 1..Len(order) PROVE new[i].do = "delete"
        <5>1. new[i] = [do |-> "delete", id |-> order[i]]
          BY <4>1
        <5> QED BY <5>1
      <4> QED BY <4>1, <4>2
    <3>3. opQueue' = opQueue \o new /\ QueueTyped
      BY ListTypes
    <3> HIDE DEF new
    <3>4. \A i \in 1..Len(new) : new[i].do # "init"
      BY <3>2
    <3> QED BY <3>2, <3>3, <3>4, QueueExtended
  <2> QED BY <1>3, <2>1, <2>2
<1>10. /\ asking' \in Seq(Transfers) /\ active' \in Transfers \cup {List!None}
       /\ List!IsInjective(asking') /\ active' \notin List!ToSet(asking')
       /\ List!ToSet(asking') \subseteq left /\ (active' # List!None => active' \in left)
  <2>1. left \in SUBSET List!ToSet(asking) /\ IsFiniteSet(left)
    BY <1>5, <1>6, SlotsCounted
  <2> QED BY <1>1, <1>5, <2>1, ShownNext
<1>11. Typed'
  <2>1. ListTyped' /\ UserTyped'
    BY <1>4, ListTypes DEF ListTyped, UserTyped
  <2>2. QueueTyped'
    BY <1>4, <1>9, ListTypes DEF QueueTyped, QueueKept
  <2>3. /\ resolvePolicy' \in [Transfers -> List!Answers \cup {List!None}]
        /\ answer' \in [Transfers -> List!FileActions \cup {List!None}]
    BY <1>2, ListTypes DEF DialogTyped, List!FileActions
  <2>4. DialogTyped'
    BY <1>4, <1>10, <2>3, ListTypes DEF DialogTyped
  <2> QED BY <1>8, <2>1, <2>2, <2>4 DEF Typed
<1>12. EntriesFit' /\ StartsFit' /\ SlotsFit'
  <2>1. StagesKept
    <3>1. \A u \in live : u \notin List!Listed \ inited
      BY <1>7 DEF ListInv, EntriesFit
    <3>2. \A u \in live : stage'[u] # "new"
      BY <1>8
    <3> QED BY <3>1, <3>2, <1>4, <1>8 DEF StagesKept
  <2>2. CurrentKept
    BY <1>4 DEF CurrentKept, ListInv, StartsFit
  <2> QED BY <1>4, <1>9, <2>1, <2>2, ListKept
<1>13. DialogFits'
  <2>1. left \cap live = {} /\ left \subseteq Transfers
    BY <1>5, <1>6
  <2>2. \A u \in left : stage'[u] = "asked"
    BY <1>5, <1>6, <1>8, <2>1
  <2> QED BY <1>10, <2>2 DEF DialogFits
<1>14. \A u \in Transfers \ live : AnswerFits(u)' /\ List!CopiedAsAnswered(u)'
  <2> SUFFICES ASSUME NEW u \in Transfers \ live PROVE AnswerFits(u)' /\ List!CopiedAsAnswered(u)'
    OBVIOUS
  <2>1. stage'[u] = stage[u] /\ wrote'[u] = wrote[u] /\ found'[u] = found[u]
    BY <1>4, <1>8
  <2>2. AnswerFits(u) /\ List!CopiedAsAnswered(u)
    BY DEF ListInv, AnswersFit, List!CopiesAsAnswered
  <2>3. wrote[u] # List!None => answer'[u] = answer[u]
    BY <1>2, <1>5, <2>2 DEF AnswerFits, Pending, List!Undecided
  <2>4. stage[u] \in Pending /\ resolvePolicy'[u] # List!None => answer'[u] = resolvePolicy'[u]
    <3>1. CASE u \in batch
      BY <1>2, <1>6, <3>1 DEF List!Undecided, Pending, ListInv, EntriesFit
    <3>2. CASE u \notin batch
      BY <1>2, <1>5, <2>2, <3>2 DEF AnswerFits, Pending
    <3> QED BY <3>1, <3>2
  <2>5. AnswerFits(u)'
    BY <2>1, <2>2, <2>4 DEF AnswerFits
  <2>6. List!CopiedAsAnswered(u)'
    BY <1>4, <2>1, <2>2, <2>3 DEF List!CopiedAsAnswered, List!None
  <2> QED BY <2>5, <2>6
<1>15. \A u \in live : AnswerFits(u)' /\ List!CopiedAsAnswered(u)'
  <2> SUFFICES ASSUME NEW u \in live PROVE AnswerFits(u)' /\ List!CopiedAsAnswered(u)'
    OBVIOUS
  <2>1. answer'[u] = policy /\ found'[u] = "exists"
    BY <1>2, <1>4, <1>6, <1>7
  <2> QED BY <1>8, <2>1 DEF AnswerFits, List!CopiedAsAnswered, Pending, List!FileActions,
        List!Answers, List!None
<1>16. AnswersFit' /\ List!CopiesAsAnswered'
  BY <1>14, <1>15 DEF AnswersFit, List!CopiesAsAnswered
<1> QED BY <1>11, <1>12, <1>13, <1>16, NextTypesSplit DEF ListInv, ListFits

-----------------------------------------------------------------------------
(* The theorems. *)

LEMMA UnchangedFits ==
  ASSUME ListInv, UNCHANGED List!vars
  PROVE  ListInv'
<1>1. /\ UNCHANGED <<fileTransfers, inited, paused, held, knows, stage, found, wrote, history>>
      /\ UNCHANGED <<asking, active, resolvePolicy, answer, globalPolicy, opQueue, current,
                     pendingInitIds, resumed, clicks>>
  BY DEF List!vars, List!listVars, List!copyVars, List!dialogVars, List!queueVars, List!userVars
<1>2. QueueKept
  BY <1>1, ListTypes, QueueUnchanged
<1>3. ListTyped' /\ globalPolicy' \in McpPolicies \cup {globalPolicy} /\ resumed' \in BOOLEAN
  BY <1>1, ListTypes DEF ListTyped, DialogTyped, UserTyped
<1>4. clicks' \in 0..MaxClicks
  BY <1>1, ListTypes DEF UserTyped
<1> QED BY <1>1, <1>2, <1>3, <1>4, ListUserStep

LEMMA NextFits == ASSUME ListInv, [List!Next]_List!vars PROVE ListInv'
<1>1. CASE \E b \in {Batch[t] : t \in Transfers} : List!AddBatch(b)
  BY <1>1, AddBatchFits
<1>2. CASE List!Control \/ List!ProcessOp \/ List!ApplyInit
  BY <1>2, ControlFits, ProcessOpFits, ApplyInitFits
<1>3. CASE List!Answered
  <2>1. PICK t \in Transfers : List!SourceFound(t) \/ List!SourceMissing(t)
               \/ List!TargetAbsent(t) \/ List!TargetFound(t)
                               \/ List!Opened(t) \/ List!Finishes(t)
    BY <1>3 DEF List!Answered
  <2> QED BY <2>1, SourceFoundFits, SourceMissingFits, TargetAbsentFits, TargetFoundFits, OpenedFits,
             FinishesFits
<1>7. CASE \E t \in Transfers : List!Lost(t)
  BY <1>7, OpenedFits
<1>4. CASE List!UserDecides
  BY <1>4, ActFits DEF List!UserDecides
<1>5. CASE (\E t \in Transfers : List!Press(t)) \/ List!PauseAll \/ List!ResumeAll
             \/ List!CancelAll \/ List!ToolCall
  BY <1>5, PressFits, PauseAllFits, ResumeAllFits, CancelAllFits, ToolCallFits
<1>6. CASE UNCHANGED List!vars
  BY <1>6, UnchangedFits
<1> QED BY <1>1, <1>2, <1>3, <1>4, <1>5, <1>6, <1>7 DEF List!Next

LEMMA ActiveHaveSlots == ASSUME ListInv PROVE List!SlotsRespected
<1> SUFFICES ASSUME ~resumed PROVE Cardinality(List!Active) <= MaxTransport
  BY SameCardinality DEF List!SlotsRespected
<1>1. List!Active \subseteq TakenSlots /\ TakenSlots \in SUBSET Transfers
        /\ List!Active \in SUBSET Transfers /\ ListFits
  BY ListTypes DEF List!Active, TakenSlots, ListInv
<1>2. Cardinality(TakenSlots) <= MaxTransport /\ MaxTransport \in Nat
  BY DEF ListInv, SlotsFit, ListFits
<1>3. /\ Cardinality(List!Active) <= Cardinality(TakenSlots)
      /\ Cardinality(List!Active) \in Nat /\ Cardinality(TakenSlots) \in Nat
  BY <1>1, SlotsCounted
<1> QED BY <1>2, <1>3

LEMMA ConstantsFit == ListFits
BY TransferListAssumption DEF ListFits, List!None

\* The bookkeeping above holds in every state of the list, its queue and its dialog.
THEOREM ListInvariant == List!Spec => []ListInv
BY ConstantsFit, InitFits, NextFits, PTL DEF List!Spec

\* Every variable of the list, the queue and the dialog keeps its type.
THEOREM ListTypesHold == List!Spec => []List!TypeOK
<1>1. ListInv => List!TypeOK
  BY DEF ListInv
<1> QED BY <1>1, ListInvariant, PTL

(* Until the user resumes a transfer by hand, the list never has more transfers under way than there *)
(* are places: control (transports-action-store.jsx) counts those whose start transfer-queue.jsx has *)
(* not applied yet, however its calls and the queue's steps fall.                                    *)
THEOREM ListSlotsRespected == List!Spec => []SlotsRespected
<1>1. List!SlotsRespected => SlotsRespected
  BY SameCardinality DEF SlotsRespected, List!SlotsRespected, Active, List!Active, Listed, List!Listed,
                         ToSet, List!ToSet
<1> QED BY <1>1, ActiveHaveSlots, ListInvariant, PTL

(* Until a tool call has brought a conflict policy, a copy onto a target that was found to exist was *)
(* asked for: conflict-resolve.jsx gives each answer to the transfer it was given for, and           *)
(* transfer.jsx starts no copy onto such a target on "skip", on "cancel", or on "rename", which      *)
(* takes another name.  After such a call its policy may have taken the place of the answer, and a   *)
(* lookup of the target that failed counts as one that found nothing.                                *)
THEOREM ListCopiesAsAnswered == List!Spec => []CopiesAsAnswered
<1>1. List!CopiesAsAnswered => CopiesAsAnswered
  BY DEF CopiesAsAnswered, List!CopiesAsAnswered, CopiedAsAnswered, List!CopiedAsAnswered,
         FileActions, List!FileActions, Answers, List!Answers, None, List!None,
         Listed, List!Listed, ToSet, List!ToSet
<1>2. ListInv => List!CopiesAsAnswered
  BY DEF ListInv
<1> QED BY <1>1, <1>2, ListInvariant, PTL
=============================================================================
