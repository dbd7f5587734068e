--------------------------- MODULE SignBatchInv ----------------------------
(***************************************************************************)
(* The inductive invariant behind the correctness of SignBatch: what the   *)
(* stream may hold at each control point of the host, what a round has     *)
(* computed when the stream has come that far, which nonces a counter has  *)
(* passed, and where the signature of a signed item is.                    *)
(***************************************************************************)
EXTENDS SignBatch

InSync == pc \in {"sync_direct", "sync_predict"}

\* The pool the round of this control point works in.
P == IF pc = "sync_direct" THEN "sign" ELSE "temp"

\* What is left of earlier work when the host prepares a round.
PreOps == {<< >>, <<Do("prep", "sign")>>, CopyOut, <<Do("copy", "temp")>>}

\* A round from its k-th operation on.
From(k, p) == SubSeq(Round(p), k, 7)

StreamShape ==
  /\ pc \in {"start", "scan", "end"} => stream = << >>
  /\ pc \in {"fill", "predict", "check"} => stream \in PreOps
  /\ InSync => \/ \E pre \in PreOps : stream = pre \o Round(P)
               \/ \E k \in 1 .. 8 : stream = From(k, P)
  /\ pc = "returned" => \/ \E pre \in PreOps : stream = pre \o <<Do("out", "sign")>>
                        \/ stream = << >>

InputsReady == pc # "start" => ready \/ Running("prep")

-----------------------------------------------------------------------------
\* Nonce m of item i was rejected before, or is tried in a slot below x.
Tried(i, m, x) ==
  \/ m \notin accepts[i]
  \/ \E f \in 0 .. x - 1 : h_exec[f] = [sign |-> i, nonce |-> m]

\* The first x slots hold attempts of unsigned items, each with all its
\* smaller nonces rejected or in an earlier slot.
SlotsHold(x) ==
  \A e \in 0 .. x - 1 :
    /\ h_exec[e].sign \in Items
    /\ ~done[h_exec[e].sign]
    /\ \A m \in 0 .. h_exec[e].nonce - 1 : Tried(h_exec[e].sign, m, e)

CountersAt(x) ==
  \A i \in Items : ~done[i] => \A m \in 0 .. nonce[i] - 1 : Tried(i, m, x)

DistinctBelow(x) ==
  \A e \in 0 .. x - 1 : \A f \in 0 .. e - 1 : h_exec[e].sign # h_exec[f].sign

Scheduled ==
  /\ pc = "start" => sign_idx = 0 /\ exec_idx = 0
  /\ pc \in {"fill", "predict"} => SlotsHold(exec_idx) /\ CountersAt(exec_idx)
  /\ InSync \/ pc = "scan" => SlotsHold(Slots) /\ CountersAt(Slots)
  /\ pc = "check" => CountersAt(0)
  /\ pc = "fill" => /\ DistinctBelow(exec_idx)
                    /\ \A e \in 0 .. exec_idx - 1 : h_exec[e].sign < sign_idx
  /\ pc = "sync_direct" => DistinctBelow(Slots)

-----------------------------------------------------------------------------
\* The position of a round in the stream: operation At is running.
At == 8 - Len(stream)

\* Block e of the j-th operation has finished.
Ran(j, e) == j < At \/ (j = At /\ e \in ran)

Accepts(a) == a.nonce \in accepts[a.sign]

\* What the finished blocks of the round have left behind.
RoundData ==
  InSync =>
    /\ At >= 2 => ready /\ d_exec = h_exec
    /\ \A e \in Execs :
         /\ Ran(3, e) => Work(P, e).y = h_exec[e]
         /\ Ran(4, e) => Work(P, e).w = h_exec[e]
         /\ Ran(5, e) => Work(P, e).seed = h_exec[e]
         /\ At >= 3 => (d_done[e] <=> Ran(6, e) /\ Accepts(h_exec[e]))
         /\ Ran(6, e) /\ Accepts(h_exec[e])
              => Work(P, e).z = h_exec[e] /\ Work(P, e).hint = h_exec[e]
    /\ At = 8 => h_done = d_done

\* The copy list while it is built: the first accepted slot of each item.
ScanData ==
  pc = "scan" =>
    /\ \A e \in Execs :
         /\ h_done[e] <=> Accepts(h_exec[e])
         /\ h_done[e] => Holds(d_temp[e], h_exec[e])
    /\ \A c \in h_copy :
         /\ c[1] < exec_idx /\ h_done[c[1]] /\ c[2] = h_exec[c[1]].sign
         /\ \A f \in 0 .. c[1] - 1 : h_done[f] => h_exec[f].sign # c[2]
    /\ \A e \in 0 .. exec_idx - 1 :
         h_done[e] => \E c \in h_copy : c[2] = h_exec[e].sign

-----------------------------------------------------------------------------
\* The copies that have not been made yet.
ToCopy ==
  IF Running("copylut") THEN h_copy
  ELSE IF Running("copy") THEN {c \in d_copy : c[1] \notin ran}
  ELSE {}

Functional(list) == \A b, c \in list : b[1] = c[1] \/ b[2] = c[2] => b = c

SignedData ==
  /\ Running("copylut") => Functional(h_copy)
  /\ Running("copy") => Functional(d_copy)
  /\ \A c \in ToCopy : c[2] \in Items /\ Holds(d_temp[c[1]], Signed(c[2]))
  /\ pc # "start" =>
       \A i \in Items : done[i] =>
         Holds(d_sig[i], Signed(i)) \/ \E c \in ToCopy : c[2] = i

Returned ==
  pc \in {"returned", "end"} =>
    /\ \A i \in Items : done[i]
    /\ stream = << >> => \A i \in Items : Holds(out[i], Signed(i))

Core ==
  /\ StreamShape
  /\ InputsReady
  /\ Scheduled
  /\ RoundData
  /\ ScanData
  /\ SignedData
  /\ Returned

\* While the GPU answers; once it is lost only the result matters.
IInv ==
  /\ TypeOK
  /\ gpu = "ok" => Core
  /\ result = "ok" => gpu = "ok" /\ pc = "end"
=============================================================================
