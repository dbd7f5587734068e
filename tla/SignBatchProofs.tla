--------------------------- MODULE SignBatchProofs --------------------------
(***************************************************************************)
(* SignBatch for every batch size, every number of slots and every number  *)
(* of nonces.  Every variable keeps its type (TypeCorrect); lemmas about   *)
(* the stream of operations follow.  The invariant IInv is inductive: first *)
(* the steps of the GPU, one lemma for each part of the invariant, then    *)
(* those of the host, one lemma for each action.  Hence the safety         *)
(* properties, and the refinement of BatchSigner.                          *)
(***************************************************************************)
EXTENDS SignBatchInv, SequenceTheorems, TLAPS

-----------------------------------------------------------------------------
(* Facts about data.                                                       *)

\* The sequential signer stops at n when n is accepted and nothing below is.
LEMMA FirstAcceptedIs ==
  ASSUME TypeOK, NEW i \in Items, NEW n \in accepts[i],
         \A m \in 0 .. n - 1 : m \notin accepts[i]
  PROVE  FirstAccepted(i) = n
<1>1. accepts[i] \subseteq Nat
  BY NonceCapAssumption DEF TypeOK, Nonces
<1>2. \A m \in accepts[i] : n <= m
  BY <1>1
<1>3. \A k \in accepts[i] : (\A m \in accepts[i] : k <= m) => k = n
  BY <1>1, <1>2
<1> QED BY <1>2, <1>3 DEF FirstAccepted

LEMMA PackExact ==
  ASSUME Batch <= IdxCap, NEW i \in Items, NEW n
  PROVE  Pack(i, n) = [sign |-> i, nonce |-> n]
BY BatchAssumption, IdxCapAssumption DEF Pack, Items

-----------------------------------------------------------------------------
(* The type invariant.                                                     *)

\* Overwriting fields of a cell leaves a cell.
LEMMA CellUpdate ==
  ASSUME NEW c \in Cell, NEW a \in Content, NEW b \in Content, NEW d \in Content
  PROVE  /\ [c EXCEPT !.y = a] \in Cell
         /\ [c EXCEPT !.w = a] \in Cell
         /\ [c EXCEPT !.seed = a] \in Cell
         /\ [c EXCEPT !.hint = a] \in Cell
         /\ [c EXCEPT !.z = a, !.hint = b] \in Cell
         /\ [c EXCEPT !.seed = a, !.z = b, !.hint = d] \in Cell
BY DEF Cell

LEMMA CellFields ==
  ASSUME NEW c \in Cell
  PROVE  /\ c.y \in Content /\ c.w \in Content /\ c.seed \in Content
         /\ c.z \in Content /\ c.hint \in Content
BY DEF Cell

LEMMA MarksInContent ==
  None \in Content /\ Junk \in Content /\ Attempt \subseteq Content
BY DEF Content

LEMMA TypeInit == Init => TypeOK
<1> SUFFICES ASSUME Init PROVE TypeOK
  OBVIOUS
<1>1. EmptyCell \in Cell
  BY DEF EmptyCell, Cell, Content
<1>2. 0 \in Nonces /\ NonceCap - 1 \in Nonces
  BY NonceCapAssumption DEF Nonces
<1>3. done \in [Items -> BOOLEAN] /\ nonce \in [Items -> Nonces]
  BY <1>2 DEF Init
<1>4. h_exec \in [Execs -> Attempt] /\ d_exec \in [Execs -> Attempt]
  BY DEF Init
<1>5. sign_idx \in 0 .. Batch /\ exec_idx \in 0 .. Slots
  BY BatchAssumption, SlotsAssumption DEF Init
<1>6. accepts \in [Items -> SUBSET Nonces]
  BY DEF Init
<1>7. h_done \in [Execs -> BOOLEAN] /\ d_done \in [Execs -> BOOLEAN]
  BY DEF Init
<1>8. /\ d_sig \in [Items -> Cell] /\ d_temp \in [Execs -> Cell]
      /\ out \in [Items -> Cell]
  BY <1>1 DEF Init
<1>9. stream \in Seq(Op)
  BY DEF Init
<1> QED BY <1>3, <1>4, <1>5, <1>6, <1>7, <1>8, <1>9 DEF Init, TypeOK, PCs

LEMMA IssueType ==
  ASSUME TypeOK, NEW ops \in Seq(Op), Issue(ops)
  PROVE  stream' \in Seq(Op)
BY DEF TypeOK, Issue

LEMMA FinishType ==
  ASSUME TypeOK, stream # << >>, Finish
  PROVE  stream' \in Seq(Op) /\ ran' \subseteq Execs
BY DEF TypeOK, Finish

LEMMA RoundType ==
  ASSUME NEW p \in Pools
  PROVE  Round(p) \in Seq(Op)
<1>1. \A x \in {"exec", "clear", "y", "w", "cp", "rej", "fetch"} : Do(x, p) \in Op
  BY DEF Do, Op, Kernels
<1> QED BY <1>1 DEF Round

LEMMA HostType ==
  ASSUME TypeOK, HostStep
  PROVE  TypeOK'
<1>0. /\ <<Do("prep", "sign")>> \in Seq(Op)
      /\ <<Do("out", "sign")>> \in Seq(Op)
      /\ CopyOut \in Seq(Op)
  BY DEF Do, Op, Kernels, Pools, CopyOut
<1>1. CASE Start
  <2>1. stream' \in Seq(Op)
    BY <1>1, <1>0, IssueType DEF Start
  <2>2. 0 \in Nonces
    BY NonceCapAssumption DEF Nonces
  <2> QED BY <1>1, <2>1, <2>2 DEF Start, TypeOK, PCs, mem
<1>2. CASE TakeItem
  <2>1. Pack(sign_idx, nonce[sign_idx]) \in Attempt
    BY <1>2, BatchAssumption, IdxCapAssumption
       DEF TakeItem, TypeOK, Pack, Attempt, Items
  <2>2. (nonce[sign_idx] + 1) % NonceCap \in Nonces
    BY <1>2, BatchAssumption, NonceCapAssumption
       DEF TakeItem, TypeOK, Nonces, Items
  <2>3. h_exec' \in [Execs -> Attempt]
    BY <1>2, <2>1 DEF TakeItem, TypeOK
  <2>4. nonce' \in [Items -> Nonces]
    BY <1>2, <2>2 DEF TakeItem, TypeOK
  <2>5. sign_idx' \in 0 .. Batch /\ exec_idx' \in 0 .. Slots
    BY <1>2, BatchAssumption, SlotsAssumption DEF TakeItem, Wants, TypeOK
  <2>6. UNCHANGED <<accepts, pc, done, h_done, h_copy, stream, ran, mem, gpu,
                    out, result>>
    BY <1>2 DEF TakeItem
  <2> QED BY <2>3, <2>4, <2>5, <2>6 DEF TypeOK, mem
<1>3. CASE SkipItem
  BY <1>3, BatchAssumption DEF SkipItem, TypeOK, mem
<1>4. CASE PredictMore
  BY <1>4, BatchAssumption DEF PredictMore, TypeOK, PCs, mem, lut
<1>5. CASE LaunchDirect
  <2>1. stream' \in Seq(Op)
    BY <1>5, IssueType, RoundType DEF LaunchDirect, Pools
  <2> QED BY <1>5, <2>1 DEF LaunchDirect, TypeOK, PCs, mem, lut
<1>6. CASE LaunchPredict
  <2>1. stream' \in Seq(Op)
    BY <1>6, IssueType, RoundType DEF LaunchPredict, Pools
  <2> QED BY <1>6, <2>1 DEF LaunchPredict, TypeOK, PCs, mem, lut
<1>7. CASE CollectDirect
  BY <1>7 DEF CollectDirect, Accepted, TypeOK, PCs, mem
<1>8. CASE CollectPredict
  <2>1. stream' \in Seq(Op)
    BY <1>8, <1>0, IssueType DEF CollectPredict
  <2> QED BY <1>8, <2>1 DEF CollectPredict, TypeOK, PCs, mem
<1>9. CASE NothingAccepted
  BY <1>9, BatchAssumption, SlotsAssumption
     DEF NothingAccepted, TypeOK, PCs, mem, lut
<1>13. CASE StartScan
  BY <1>13, SlotsAssumption DEF StartScan, TypeOK, PCs, mem, lut
<1>14. CASE ScanSlot
  <2>1. exec_idx \in Execs /\ exec_idx' \in 0 .. Slots
    BY <1>14, SlotsAssumption DEF ScanSlot, TypeOK, Execs
  <2>2. Listing(exec_idx) \subseteq Execs \X (0 .. IdxCap - 1)
    BY <2>1 DEF Listing, TypeOK, Attempt
  <2> QED BY <1>14, <2>1, <2>2 DEF ScanSlot, TypeOK, mem, lut
<1>10. CASE AnotherRound
  BY <1>10, BatchAssumption, SlotsAssumption
     DEF AnotherRound, TypeOK, PCs, mem, lut
<1>11. CASE Return
  <2>1. stream' \in Seq(Op)
    BY <1>11, <1>0, IssueType DEF Return
  <2> QED BY <1>11, <2>1 DEF Return, TypeOK, PCs, mem, lut
<1>12. CASE DeviceSynchronize
  BY <1>12 DEF DeviceSynchronize, SyncResult, TypeOK, PCs, mem, lut
<1> QED BY <1>1, <1>2, <1>3, <1>4, <1>5, <1>6, <1>7, <1>8, <1>9, <1>10,
           <1>11, <1>12, <1>13, <1>14 DEF HostStep


\* A cell of either pool, whatever word the slot holds, and what a block
\* makes of it.
LEMMA WriteType ==
  ASSUME TypeOK, NEW p, NEW e \in Execs, NEW c,
         (d_exec[e].sign \in Items \/ p # "sign") => c \in Cell,
         Write(p, e, c)
  PROVE  d_sig' \in [Items -> Cell] /\ d_temp' \in [Execs -> Cell]
BY DEF TypeOK, Write

LEMMA WorkType ==
  ASSUME TypeOK, NEW p, NEW e \in Execs, d_exec[e].sign \in Items \/ p # "sign"
  PROVE  Work(p, e) \in Cell
BY DEF TypeOK, Work

LEMMA BlockDoneType ==
  ASSUME TypeOK, stream # << >>, NEW e \in Execs, BlockDone(e)
  PROVE  stream' \in Seq(Op) /\ ran' \subseteq Execs
BY FinishType DEF TypeOK, BlockDone

LEMMA GpuType ==
  ASSUME TypeOK, GpuStep
  PROVE  TypeOK'
<1>0. \A a \in Attempt, c \in Cell :
        /\ ComputeY(a, c) \in Cell
        /\ ComputeW(a, c) \in Cell
        /\ ComputeCp(a, c) \in Cell
        /\ Accept(a, c) \in Cell
  BY CellUpdate, CellFields, MarksInContent
     DEF ComputeY, ComputeW, ComputeCp, Accept
<1>1. CASE Prepare
  BY <1>1, FinishType DEF Prepare, Running, TypeOK, host
<1>2. CASE UploadExec
  BY <1>2, FinishType DEF UploadExec, Running, TypeOK, host
<1>3. CASE ClearDone
  <2>1. d_temp' \in [Execs -> Cell]
    BY <1>3, CellUpdate, MarksInContent DEF ClearDone, TypeOK
  <2> QED BY <1>3, <2>1, FinishType DEF ClearDone, Running, TypeOK, host
<1>4. ASSUME NEW e \in Execs, YBlock(e) PROVE TypeOK'
  <2> DEFINE p == Head(stream).pool
  <2>1. d_sig' \in [Items -> Cell] /\ d_temp' \in [Execs -> Cell]
    BY <1>4, <1>0, WriteType, WorkType DEF YBlock, ComputeBlock, TypeOK
  <2> QED BY <1>4, <2>1, BlockDoneType
          DEF YBlock, ComputeBlock, Running, TypeOK, host
<1>5. ASSUME NEW e \in Execs, WBlock(e) PROVE TypeOK'
  <2>1. d_sig' \in [Items -> Cell] /\ d_temp' \in [Execs -> Cell]
    BY <1>5, <1>0, WriteType, WorkType DEF WBlock, ComputeBlock, TypeOK
  <2> QED BY <1>5, <2>1, BlockDoneType
          DEF WBlock, ComputeBlock, Running, TypeOK, host
<1>6. ASSUME NEW e \in Execs, CpBlock(e) PROVE TypeOK'
  <2>1. d_sig' \in [Items -> Cell] /\ d_temp' \in [Execs -> Cell]
    BY <1>6, <1>0, WriteType, WorkType DEF CpBlock, ComputeBlock, TypeOK
  <2> QED BY <1>6, <2>1, BlockDoneType
          DEF CpBlock, ComputeBlock, Running, TypeOK, host
<1>7. ASSUME NEW e \in Execs, RejBlock(e) PROVE TypeOK'
  <2> DEFINE p == Head(stream).pool
             c == Work(p, e)
  <2>1. PICK ok \in Verdicts(d_exec[e], c) :
          /\ Write(p, e, IF ok THEN Accept(d_exec[e], c) ELSE c)
          /\ d_done' = [d_done EXCEPT ![e] = @ \/ ok]
    BY <1>7 DEF RejBlock
  <2>2. d_sig' \in [Items -> Cell] /\ d_temp' \in [Execs -> Cell]
    BY <2>1, <1>0, WriteType, WorkType DEF TypeOK
  <2>3. d_done' \in [Execs -> BOOLEAN]
    BY <2>1 DEF TypeOK
  <2> QED BY <1>7, <2>2, <2>3, BlockDoneType DEF RejBlock, Running, TypeOK, host
<1>8. CASE DownloadDone
  BY <1>8, FinishType DEF DownloadDone, Running, TypeOK, host, mem
<1>9. CASE UploadCopy
  BY <1>9, FinishType DEF UploadCopy, Running, TypeOK, host
<1>10. ASSUME NEW c \in d_copy, CopyBlock(c) PROVE TypeOK'
  <2>1. c[1] \in Execs
    BY DEF TypeOK
  <2>2. d_sig' \in [Items -> Cell]
    <3> DEFINE t == d_temp[c[1]]
               s == d_sig[c[2]]
    <3>1. t.seed \in Content /\ t.z \in Content /\ t.hint \in Content
      BY <2>1, CellFields DEF TypeOK
    <3>2. c[2] \in Items =>
            [s EXCEPT !.seed = t.seed, !.z = t.z, !.hint = t.hint] \in Cell
      <4> SUFFICES ASSUME c[2] \in Items
                   PROVE  [s EXCEPT !.seed = t.seed, !.z = t.z, !.hint = t.hint] \in Cell
        OBVIOUS
      <4>1. s \in Cell
        BY DEF TypeOK
      <4> HIDE DEF s, t
      <4> QED BY ONLY <3>1, <4>1, CellUpdate
    <3>3. d_sig' = [d_sig EXCEPT ![c[2]] =
                      [s EXCEPT !.seed = t.seed, !.z = t.z, !.hint = t.hint]]
      BY <1>10 DEF CopyBlock, TypeOK
    <3> HIDE DEF t, s
    <3> QED BY <3>2, <3>3 DEF TypeOK
  <2>3. stream' \in Seq(Op) /\ ran' \subseteq Execs
    BY <1>10, <2>1, FinishType DEF CopyBlock, Running, TypeOK
  <2> QED BY <1>10, <2>2, <2>3 DEF CopyBlock, TypeOK, host
<1>11. CASE DownloadSig
  BY <1>11, FinishType DEF DownloadSig, Running, TypeOK, host, mem
<1> QED BY <1>1, <1>2, <1>3, <1>4, <1>5, <1>6, <1>7, <1>8, <1>9, <1>10, <1>11
        DEF GpuStep

LEMMA TypeStep == TypeOK /\ [Next]_vars => TypeOK'
<1> SUFFICES ASSUME TypeOK, [Next]_vars PROVE TypeOK'
  OBVIOUS
<1>1. CASE LoseGpu
  BY <1>1 DEF LoseGpu, TypeOK, host, mem
<1>2. CASE UNCHANGED vars
  BY <1>2 DEF vars, TypeOK
<1> QED BY <1>1, <1>2, HostType, GpuType DEF Next, Terminated

\* Every variable keeps its type, whatever the host and the GPU do.
THEOREM TypeCorrect == Spec => []TypeOK
<1> QED BY TypeInit, TypeStep, PTL DEF Spec

-----------------------------------------------------------------------------
(* The stream.                                                             *)

LEMMA OpsTyped ==
  /\ PreOps \subseteq Seq(Op)
  /\ \A p \in Pools : Round(p) \in Seq(Op)
  /\ <<Do("out", "sign")>> \in Seq(Op)
<1>1. \A x \in Kernels \cup {"prep", "exec", "clear", "fetch", "copylut", "copy", "out"},
         p \in Pools : Do(x, p) \in Op
  BY DEF Do, Op
<1>2. <<Do("out", "sign")>> \in Seq(Op) /\ <<Do("prep", "sign")>> \in Seq(Op)
      /\ <<Do("copy", "temp")>> \in Seq(Op) /\ CopyOut \in Seq(Op)
  BY <1>1 DEF Pools, CopyOut
<1> QED BY <1>2, RoundType DEF PreOps

LEMMA PreTail ==
  ASSUME NEW pre \in PreOps, pre # << >>
  PROVE  /\ Tail(pre) \in PreOps
         /\ Head(pre).op \in {"prep", "copylut", "copy"}
         /\ Head(pre).op = "copylut" => Head(Tail(pre)).op = "copy" /\ Tail(pre) # << >>
         /\ Head(pre).op # "copylut" => Tail(pre) = << >>
<1>1. Tail(<<Do("prep", "sign")>>) = << >> /\ Tail(<<Do("copy", "temp")>>) = << >>
  OBVIOUS
<1>2. Tail(CopyOut) = <<Do("copy", "temp")>>
  BY DEF CopyOut
<1>3. CASE pre = CopyOut
  BY <1>2, <1>3 DEF PreOps, CopyOut, Do
<1>4. CASE pre = <<Do("prep", "sign")>>
  BY <1>1, <1>4 DEF PreOps, Do
<1>5. CASE pre = <<Do("copy", "temp")>>
  BY <1>1, <1>5 DEF PreOps, Do
<1> QED BY <1>3, <1>4, <1>5 DEF PreOps

LEMMA Concat ==
  ASSUME NEW s \in Seq(Op), NEW t \in Seq(Op)
  PROVE  /\ Len(s \o t) = Len(s) + Len(t)
         /\ << >> \o t = t
         /\ s # << >> => /\ Head(s \o t) = Head(s)
                         /\ Tail(s \o t) = Tail(s) \o t
                         /\ s \o t # << >>
OBVIOUS

LEMMA FromFacts ==
  ASSUME NEW p \in Pools, NEW k \in 1 .. 8
  PROVE  /\ From(k, p) \in Seq(Op)
         /\ Len(From(k, p)) = 8 - k
         /\ k = 8 => From(k, p) = << >>
         /\ k < 8 => /\ From(k, p) # << >>
                     /\ Head(From(k, p)) = Round(p)[k]
                     /\ Tail(From(k, p)) = From(k + 1, p)
<1>1. Len(Round(p)) = 7
  BY DEF Round
<1>2. Round(p) \in Seq(Op)
  BY RoundType
<1> DEFINE r == Round(p)
<1> HIDE DEF r
<1>3. From(k, p) \in Seq(Op) /\ Len(From(k, p)) = 8 - k
  <2>1. From(k, p) = SubSeq(r, k, 7)
    BY DEF From, r
  <2>0. r \in Seq(Op) /\ Len(r) = 7
    BY <1>1, <1>2 DEF r
  <2>2. \A i \in k .. 7 : r[i] \in Op
    <3>1. \A i \in 1 .. 7 : r[i] \in Op
      BY <2>0, ElementOfSeq
    <3> QED BY <3>1
  <2>3. /\ SubSeq(r, k, 7) \in Seq(Op)
        /\ Len(SubSeq(r, k, 7)) = IF k <= 7 THEN 7 - k + 1 ELSE 0
    BY <2>2, SubSeqProperties
  <2> QED BY <2>1, <2>3
<1>4. k = 8 => From(k, p) = << >>
  BY <1>3
<1>5. k < 8 => From(k, p) # << >>
  BY <1>3
<1>6. k < 8 => Head(From(k, p)) = r[k] /\ Tail(From(k, p)) = From(k + 1, p)
  <2>1. r \in Seq(Op) /\ Len(r) = 7
    BY <1>1, <1>2 DEF r
  <2>2. k < 8 => Head(SubSeq(r, k, 7)) = r[k]
                 /\ Tail(SubSeq(r, k, 7)) = SubSeq(r, k + 1, 7)
    BY <2>1, HeadTailOfSubSeq
  <2> QED BY <2>2 DEF From, r
<1> QED BY <1>3, <1>4, <1>5, <1>6 DEF r

\* The same, without arithmetic.
LEMMA FromStep ==
  \A p \in Pools : \A k \in 1 .. 7 :
    /\ From(k, p) # << >>
    /\ Head(From(k, p)) = Round(p)[k]
    /\ Tail(From(k, p)) = From(k + 1, p)
    /\ k + 1 \in 1 .. 8
    /\ From(k, p) \in Seq(Op)
<1> TAKE p \in Pools
<1> TAKE k \in 1 .. 7
<1>1. k \in 1 .. 8 /\ k < 8 /\ k + 1 \in 1 .. 8
  OBVIOUS
<1> QED BY <1>1, FromFacts, Zenon

LEMMA FromLast == \A p \in Pools : From(8, p) = << >>
<1> TAKE p \in Pools
<1>1. 8 \in 1 .. 8
  OBVIOUS
<1> QED BY <1>1, FromFacts, Zenon

LEMMA FromFirst == ASSUME NEW p \in Pools PROVE From(1, p) = Round(p) /\ Len(Round(p)) = 7
<1>1. Len(Round(p)) = 7
  BY DEF Round
<1>2. Round(p) \in Seq(Op)
  BY RoundType
<1> QED BY <1>1, <1>2 DEF From

LEMMA RoundOp ==
  ASSUME NEW p \in Pools, NEW k \in 1 .. 7
  PROVE  /\ Round(p)[k].pool = p
         /\ k = 1 <=> Round(p)[k].op = "exec"
         /\ k = 2 <=> Round(p)[k].op = "clear"
         /\ k = 3 <=> Round(p)[k].op = "y"
         /\ k = 4 <=> Round(p)[k].op = "w"
         /\ k = 5 <=> Round(p)[k].op = "cp"
         /\ k = 6 <=> Round(p)[k].op = "rej"
         /\ k = 7 <=> Round(p)[k].op = "fetch"
         /\ Round(p)[k].op \notin {"prep", "copylut", "copy", "out"}
BY DEF Round, Do

LEMMA PoolOfRound == P \in Pools
BY DEF P, Pools


LEMMA OutOp ==
  /\ Head(<<Do("out", "sign")>>).op = "out"
  /\ Tail(<<Do("out", "sign")>>) = << >>
  /\ <<Do("out", "sign")>> # << >>
  /\ Len(<<Do("out", "sign")>>) = 1
BY DEF Do

\* What follows the operations left of earlier work.
After == IF InSync THEN Round(P)
         ELSE IF pc = "returned" THEN <<Do("out", "sign")>> ELSE << >>

LEMMA AfterFacts == After \in Seq(Op) /\ (InSync => Len(After) = 7)
BY OpsTyped, PoolOfRound, FromFirst DEF After

\* A stream that is not empty is of one of three kinds.
LEMMA Kinds ==
  ASSUME TypeOK, StreamShape, stream # << >>
  PROVE  \/ \E pre \in PreOps : pre # << >> /\ stream = pre \o After
         \/ InSync /\ \E k \in 1 .. 7 : stream = From(k, P)
         \/ pc = "returned" /\ stream = <<Do("out", "sign")>>
<1>1. pc \notin {"start", "scan", "end"}
  BY DEF StreamShape
<1>2. CASE pc \in {"fill", "predict", "check"}
  <2>1. stream \in PreOps /\ After = << >>
    BY <1>2 DEF StreamShape, After, InSync
  <2>2. stream \in Seq(Op)
    BY DEF TypeOK
  <2>3. stream = stream \o << >>
    BY <2>2
  <2> QED BY <2>1, <2>3
<1>3. CASE InSync
  <2>1. CASE \E k \in 1 .. 8 : stream = From(k, P)
    <3>1. PICK k \in 1 .. 8 : stream = From(k, P)
      BY <2>1
    <3>2. k # 8
      BY <3>1, FromLast, PoolOfRound, Zenon
    <3>3. k \in 1 .. 7
      BY <3>2
    <3> QED BY <1>3, <3>1, <3>3, Zenon
  <2>2. ASSUME NEW pre \in PreOps, stream = pre \o Round(P)
        PROVE  \/ pre # << >> /\ stream = pre \o After
               \/ stream = From(1, P)
    BY <2>2, <1>3, Concat, OpsTyped, PoolOfRound, FromFirst DEF After
  <2>3. 1 \in 1 .. 7
    OBVIOUS
  <2>4. CASE \E pre \in PreOps : stream = pre \o Round(P)
    BY <1>3, <2>2, <2>3, <2>4, Zenon
  <2> QED BY <1>3, <2>1, <2>4, Zenon DEF StreamShape
<1>4. CASE pc = "returned"
  <2>1. ASSUME NEW pre \in PreOps, stream = pre \o <<Do("out", "sign")>>
        PROVE  \/ pre # << >> /\ stream = pre \o After
               \/ stream = <<Do("out", "sign")>>
    BY <2>1, <1>4, Concat, OpsTyped DEF After, InSync
  <2> QED BY <1>4, <2>1 DEF StreamShape
<1> QED BY <1>1, <1>2, <1>3, <1>4 DEF TypeOK, PCs, InSync

\* Running an operation keeps the shape of the stream.
LEMMA TailShape ==
  ASSUME TypeOK, StreamShape, stream # << >>, pc' = pc, stream' = Tail(stream)
  PROVE  StreamShape'
<1>1. pc \notin {"start", "scan", "end"} /\ P' = P
  BY DEF StreamShape, P
<1>2. ASSUME NEW pre \in PreOps, pre # << >>, stream = pre \o After
      PROVE  StreamShape'
  <2>1. Tail(pre) \in PreOps /\ pre \in Seq(Op)
    BY <1>2, PreTail, OpsTyped
  <2>2. stream' = Tail(pre) \o After
    BY <1>2, <2>1, AfterFacts, Concat
  <2>3. Tail(pre) \o << >> = Tail(pre)
    BY <2>1, OpsTyped
  <2> QED BY <1>1, <2>1, <2>2, <2>3 DEF StreamShape, After, InSync
<1>3. ASSUME InSync, NEW k \in 1 .. 7, stream = From(k, P)
      PROVE  StreamShape'
  <2>1. stream' = From(k + 1, P) /\ k + 1 \in 1 .. 8
    BY <1>3, FromStep, PoolOfRound, Zenon
  <2>2. InSync' /\ P' = P
    BY <1>1, <1>3 DEF InSync
  <2>3. \E l \in 1 .. 8 : stream' = From(l, P')
    BY <2>1, <2>2, Zenon
  <2> QED BY <1>1, <2>2, <2>3, Zenon DEF StreamShape, InSync
<1>4. CASE pc = "returned" /\ stream = <<Do("out", "sign")>>
  BY <1>4, OutOp DEF StreamShape, InSync
<1> QED BY <1>2, <1>3, <1>4, Kinds

LEMMA AtInt == TypeOK => At \in Int
BY DEF At, TypeOK

\* The running operation tells where the host is.
LEMMA Position ==
  ASSUME TypeOK, StreamShape, stream # << >>
  PROVE  /\ At >= 1 /\ InSync =>
              /\ At \in 1 .. 7 /\ stream = From(At, P)
              /\ Head(stream) = Round(P)[At]
         /\ Head(stream).op \in {"exec", "clear", "y", "w", "cp", "rej", "fetch"}
              => InSync /\ At >= 1
         /\ Head(stream).op \in {"prep", "copylut", "copy"}
              => (InSync => At <= 0)
         /\ Head(stream).op = "copylut"
              => Tail(stream) # << >> /\ Head(Tail(stream)).op = "copy"
         /\ Head(stream).op # "copylut"
              => Tail(stream) = << >>
                 \/ Head(Tail(stream)).op \notin {"prep", "copylut", "copy"}
         /\ Head(stream).op = "out" => pc = "returned" /\ Tail(stream) = << >>
         /\ pc = "returned" /\ Tail(stream) = << >> => Head(stream).op = "out"
<1>1. ASSUME NEW pre \in PreOps, pre # << >>, stream = pre \o After
      PROVE  /\ InSync => At <= 0
             /\ Head(stream).op \in {"prep", "copylut", "copy"}
             /\ Head(stream).op = "copylut"
                  => Tail(stream) # << >> /\ Head(Tail(stream)).op = "copy"
             /\ Head(stream).op # "copylut" => Tail(stream) = After
             /\ After # << >> => Tail(stream) # << >>
  <2>1. pre \in Seq(Op) /\ Tail(pre) \in Seq(Op) /\ After \in Seq(Op)
    BY <1>1, OpsTyped, PreTail, AfterFacts
  <2>2. Head(stream) = Head(pre) /\ Tail(stream) = Tail(pre) \o After
    BY <1>1, <2>1, Concat
  <2>3. InSync => At <= 0
    <3>1. Len(stream) = Len(pre) + Len(After)
      BY <1>1, <2>1, Concat, Zenon
    <3>2. InSync => Len(After) = 7
      BY AfterFacts
    <3>3. Len(pre) \in Nat \ {0}
      BY <1>1, <2>1, EmptySeq, Zenon
    <3> DEFINE a == Len(stream)
               b == Len(pre)
               c == Len(After)
    <3>4. a = b + c /\ (InSync => c = 7) /\ b \in Nat \ {0}
      BY <3>1, <3>2, <3>3
    <3> HIDE DEF a, b, c
    <3>5. InSync => 8 - a <= 0
      BY <3>4
    <3> QED BY <3>5 DEF At, a
  <2>4. Head(pre).op = "copylut"
          => Head(Tail(stream)) = Head(Tail(pre)) /\ Tail(stream) # << >>
    <3>1. Head(pre).op = "copylut" => Tail(pre) # << >>
      BY <1>1, PreTail, Zenon
    <3>2. Tail(pre) # << >> => /\ Head(Tail(pre) \o After) = Head(Tail(pre))
                              /\ Tail(pre) \o After # << >>
      BY <2>1, Concat
    <3> QED BY <2>2, <3>1, <3>2, Zenon
  <2>5. Head(pre).op # "copylut" => Tail(stream) = After
    <3>1. Head(pre).op # "copylut" => Tail(pre) = << >>
      BY <1>1, PreTail, Zenon
    <3>2. << >> \o After = After
      BY <2>1
    <3> QED BY <2>2, <3>1, <3>2, Zenon
  <2> QED BY <1>1, <2>2, <2>3, <2>4, <2>5, PreTail
<1>2. ASSUME InSync, NEW k \in 1 .. 7, stream = From(k, P)
      PROVE  /\ At = k
             /\ Head(stream) = Round(P)[k]
             /\ Tail(stream) = From(k + 1, P)
  <2>1. Len(From(k, P)) = 8 - k
    <3>1. k \in 1 .. 8
      OBVIOUS
    <3> QED BY <3>1, FromFacts, PoolOfRound, Zenon
  <2>2. At = k
    BY <1>2, <2>1 DEF At
  <2> QED BY <1>2, <2>2, FromStep, PoolOfRound, Zenon
<1>3. \A k \in 1 .. 7 : Head(From(k, P)).op \notin {"prep", "copylut", "copy"}
  <2> TAKE k \in 1 .. 7
  <2>1. Head(From(k, P)) = Round(P)[k]
    BY FromStep, PoolOfRound, Zenon
  <2>2. Round(P)[k].op \notin {"prep", "copylut", "copy", "out"}
    BY RoundOp, PoolOfRound, Zenon
  <2> QED BY <2>1, <2>2
<1>4. After = << >> \/ Head(After).op \notin {"prep", "copylut", "copy"}
  <2>1. CASE InSync
    <3>1. 1 \in 1 .. 7 /\ After = From(1, P)
      BY <2>1, FromFirst, PoolOfRound DEF After
    <3> QED BY <3>1, <1>3, Zenon
  <2>2. CASE ~InSync
    BY <2>2, OutOp DEF After
  <2> QED BY <2>1, <2>2
<1>5. pc = "returned" => After # << >> /\ ~InSync
  BY OutOp DEF After, InSync
<1>6. CASE \E pre \in PreOps : pre # << >> /\ stream = pre \o After
  <2>1. /\ InSync => At <= 0
        /\ Head(stream).op \in {"prep", "copylut", "copy"}
        /\ Head(stream).op = "copylut"
             => Tail(stream) # << >> /\ Head(Tail(stream)).op = "copy"
        /\ Head(stream).op # "copylut" => Tail(stream) = After
        /\ After # << >> => Tail(stream) # << >>
    BY <1>1, <1>6, Zenon
  <2>2. InSync => ~(At >= 1)
    BY <2>1, AtInt
  <2>3. Head(stream).op \notin {"exec", "clear", "y", "w", "cp", "rej", "fetch", "out"}
    BY <2>1
  <2> QED BY <1>4, <1>5, <2>1, <2>2, <2>3
<1>7. CASE InSync /\ \E k \in 1 .. 7 : stream = From(k, P)
  <2>1. PICK k \in 1 .. 7 : stream = From(k, P)
    BY <1>7
  <2>2. At = k /\ Head(stream) = Round(P)[k] /\ Tail(stream) = From(k + 1, P)
    BY <1>2, <1>7, <2>1
  <2>3. Head(stream).op \notin {"prep", "copylut", "copy", "out"}
    BY <2>2, RoundOp, PoolOfRound
  <2>4. Tail(stream) = << >>
        \/ Head(Tail(stream)).op \notin {"prep", "copylut", "copy"}
    <3>1. CASE k = 7
      BY <3>1, <2>2, FromLast, PoolOfRound
    <3>2. CASE k # 7
      <4>1. k + 1 \in 1 .. 7
        BY <3>2
      <4> QED BY <4>1, <2>2, <1>3, Zenon
    <3> QED BY <3>1, <3>2
  <2> QED BY <1>5, <1>7, <2>1, <2>2, <2>3, <2>4
<1>8. CASE pc = "returned" /\ stream = <<Do("out", "sign")>>
  BY <1>5, <1>8, OutOp
<1> QED BY <1>6, <1>7, <1>8, Kinds

-----------------------------------------------------------------------------
(* The running operation and the stream.                                   *)

\* The name of a running operation of the round tells how far the round is.
LEMMA Stage ==
  ASSUME TypeOK, StreamShape, stream # << >>
  PROVE  /\ Head(stream).op = "exec" => InSync /\ At = 1
         /\ Head(stream).op = "clear" => InSync /\ At = 2
         /\ Head(stream).op = "y" => InSync /\ At = 3
         /\ Head(stream).op = "w" => InSync /\ At = 4
         /\ Head(stream).op = "cp" => InSync /\ At = 5
         /\ Head(stream).op = "rej" => InSync /\ At = 6
         /\ Head(stream).op = "fetch" => InSync /\ At = 7
         /\ InSync /\ At >= 1 => Head(stream).pool = P
         /\ Head(stream).op \in {"prep", "copylut", "copy"} => (InSync => At <= 0)
<1>1. At \in Int
  BY AtInt
<1>2. CASE InSync /\ At >= 1
  <2>1. At \in 1 .. 7 /\ Head(stream) = Round(P)[At]
    BY <1>2, Position, Zenon
  <2> DEFINE k == At
  <2>2. k \in 1 .. 7
    BY <2>1
  <2> HIDE DEF k
  <2>3. /\ Round(P)[k].pool = P
        /\ k = 1 <=> Round(P)[k].op = "exec"
        /\ k = 2 <=> Round(P)[k].op = "clear"
        /\ k = 3 <=> Round(P)[k].op = "y"
        /\ k = 4 <=> Round(P)[k].op = "w"
        /\ k = 5 <=> Round(P)[k].op = "cp"
        /\ k = 6 <=> Round(P)[k].op = "rej"
        /\ k = 7 <=> Round(P)[k].op = "fetch"
        /\ Round(P)[k].op \notin {"prep", "copylut", "copy", "out"}
    BY <2>2, PoolOfRound, RoundOp, Zenon
  <2>4. Head(stream) = Round(P)[k]
    BY <2>1 DEF k
  <2> DEFINE h == Head(stream)  r == Round(P)[k]
  <2>5. h = r
    BY <2>4
  <2> HIDE DEF h, r
  <2>6. /\ h.op = "exec" => k = 1
        /\ h.op = "clear" => k = 2
        /\ h.op = "y" => k = 3
        /\ h.op = "w" => k = 4
        /\ h.op = "cp" => k = 5
        /\ h.op = "rej" => k = 6
        /\ h.op = "fetch" => k = 7
        /\ h.pool = P
        /\ h.op \notin {"prep", "copylut", "copy", "out"}
    BY <2>3, <2>5, Zenon DEF r
  <2> QED BY <1>2, <2>6 DEF h, k
<1>3. CASE ~(InSync /\ At >= 1)
  <2>1. Head(stream).op \notin {"exec", "clear", "y", "w", "cp", "rej", "fetch"}
    BY <1>3, Position, Zenon
  <2>2. InSync => At <= 0
    BY <1>1, <1>3
  <2> QED BY <1>3, <2>1, <2>2
<1> QED BY <1>2, <1>3

\* Finishing an operation moves the round on by one operation.
LEMMA Advance ==
  ASSUME TypeOK, stream # << >>, Finish
  PROVE  At' = At + 1 /\ ran' = {}
BY DEF TypeOK, Finish, At

\* The block that finishes is the only change to what has run.
LEMMA RanStep ==
  ASSUME TypeOK, stream # << >>, NEW e \in Execs, BlockDone(e)
  PROVE  /\ \A j \in Int : \A f \in Execs :
              Ran(j, f)' <=> Ran(j, f) \/ (j = At /\ f = e)
         /\ At' = At \/ At' = At + 1
<1>1. At \in Int
  BY AtInt
<1>2. CASE ran \cup {e} = Execs
  <2>1. At' = At + 1 /\ ran' = {}
    BY <1>2, Advance DEF BlockDone
  <2>2. ASSUME NEW f \in Execs PROVE f \in ran \/ f = e
    BY <1>2, <2>2
  <2> DEFINE a == At  b == At'
  <2>3. a \in Int /\ b = a + 1
    BY <1>1, <2>1
  <2> HIDE DEF a, b
  <2>4. \A j \in Int : \A f \in Execs :
          (j < b \/ (j = b /\ f \in {})) <=> (j < a \/ (j = a /\ f \in ran)) \/ (j = a /\ f = e)
    BY <2>2, <2>3
  <2> QED BY <2>1, <2>4 DEF Ran, a, b
<1>3. CASE ran \cup {e} # Execs
  BY <1>1, <1>3 DEF BlockDone, Ran, At
<1> QED BY <1>2, <1>3

\* A step of the GPU leaves a legal stream.
LEMMA GpuShape ==
  ASSUME TypeOK, StreamShape, stream # << >>, UNCHANGED host,
         Finish \/ UNCHANGED stream
  PROVE  StreamShape'
<1>1. pc' = pc
  BY DEF host
<1>2. CASE Finish
  BY <1>1, <1>2, TailShape DEF Finish
<1>3. CASE UNCHANGED stream
  BY <1>1, <1>3 DEF StreamShape, InSync, P
<1> QED BY <1>2, <1>3

LEMMA GpuScheduled ==
  ASSUME Scheduled, UNCHANGED <<accepts, host>>
  PROVE  Scheduled'
BY DEF Scheduled, SlotsHold, CountersAt, DistinctBelow, Tried, InSync, host

-----------------------------------------------------------------------------
(* One block of a kernel.                                                  *)

\* A block changes its own cell only, and never that of a signed item.
LEMMA BlockWrite ==
  ASSUME TypeOK, Scheduled, InSync, d_exec = h_exec, NEW e \in Execs, NEW c,
         Write(P, e, c), UNCHANGED <<pc, d_exec>>
  PROVE  /\ Work(P, e)' = c
         /\ \A f \in Execs : f # e => Work(P, f)' = Work(P, f)
         /\ \A i \in Items : done[i] => d_sig'[i] = d_sig[i]
<1>1. Execs = 0 .. Slots - 1 /\ Slots \in Nat
  BY SlotsAssumption DEF Execs
<1>2. P' = P
  BY DEF P
<1>3. CASE pc = "sync_direct"
  <2>1. P = "sign"
    BY <1>3 DEF P
  <2>2. SlotsHold(Slots) /\ DistinctBelow(Slots)
    BY <1>3 DEF Scheduled
  <2>3. \A f \in Execs : h_exec[f].sign \in Items /\ ~done[h_exec[f].sign]
    BY <1>1, <2>2 DEF SlotsHold
  <2>4. \A f \in Execs : f # e => h_exec[f].sign # h_exec[e].sign
    BY <1>1, <2>2 DEF DistinctBelow
  <2>5. d_sig' = [d_sig EXCEPT ![h_exec[e].sign] = c] /\ d_sig \in [Items -> Cell]
    BY <2>1 DEF Write, TypeOK
  <2> QED BY <1>2, <2>1, <2>3, <2>4, <2>5 DEF Work
<1>4. CASE pc # "sync_direct"
  <2>1. P = "temp"
    BY <1>4 DEF P
  <2>2. d_temp' = [d_temp EXCEPT ![e] = c] /\ d_sig' = d_sig
    BY <2>1 DEF Write
  <2>3. d_temp \in [Execs -> Cell]
    BY DEF TypeOK
  <2> QED BY <1>2, <2>1, <2>2, <2>3 DEF Work
<1> QED BY <1>3, <1>4

\* Nothing is left to copy while the round itself is running.
LEMMA NoCopiesInRound ==
  ASSUME TypeOK, StreamShape, stream # << >>,
         Head(stream).op \notin {"copylut", "copy"}
  PROVE  /\ ToCopy = {}
         /\ UNCHANGED stream => ToCopy' = {}
         /\ Finish => ToCopy' = {}
         /\ ~Running("copylut") /\ ~Running("copy")
         /\ UNCHANGED stream \/ Finish => ~Running("copylut")' /\ ~Running("copy")'
<1>1. ~Running("copylut") /\ ~Running("copy")
  BY DEF Running
<1>2. UNCHANGED stream => ~Running("copylut")' /\ ~Running("copy")'
  BY DEF Running
<1>3. Tail(stream) = << >> \/ Head(Tail(stream)).op \notin {"prep", "copylut", "copy"}
  BY Position, Zenon
<1>4. Finish => ~Running("copylut")' /\ ~Running("copy")'
  BY <1>3 DEF Running, Finish
<1> QED BY <1>1, <1>2, <1>4, Zenon DEF ToCopy

\* An operation that leaves the signatures of signed items alone.
LEMMA SignedKept ==
  ASSUME TypeOK, StreamShape, SignedData, stream # << >>,
         Head(stream).op \notin {"copylut", "copy"},
         UNCHANGED <<accepts, host>>, Finish \/ UNCHANGED stream,
         \A i \in Items : done[i] => d_sig'[i] = d_sig[i]
  PROVE  SignedData'
<1>1. /\ ToCopy = {} /\ ToCopy' = {}
      /\ ~Running("copylut")' /\ ~Running("copy")'
  BY NoCopiesInRound
<1>2. pc' = pc /\ done' = done /\ accepts' = accepts
  BY DEF host
<1>3. \A i \in Items : Signed(i)' = Signed(i)
  BY <1>2 DEF Signed, FirstAccepted
<1>4. pc # "start" => \A i \in Items : done[i] => Holds(d_sig[i], Signed(i))
  BY <1>1 DEF SignedData
<1>5. pc' # "start" => \A i \in Items : done'[i] => Holds(d_sig[i], Signed(i))'
  BY <1>2, <1>3, <1>4 DEF Holds
<1> QED BY <1>1, <1>5, Zenon DEF SignedData

\* A block that leaves its cell as the round wants it keeps the round on track.
LEMMA BlockRound ==
  ASSUME TypeOK, Scheduled, RoundData, InSync, stream # << >>, At \in 3 .. 6,
         NEW e \in Execs, e \notin ran, NEW c, Write(P, e, c), BlockDone(e),
         UNCHANGED <<accepts, host, ready, d_exec>>,
         c.y = h_exec[e],
         At >= 4 => c.w = h_exec[e],
         At >= 5 => c.seed = h_exec[e],
         At = 6 /\ Accepts(h_exec[e]) => c.z = h_exec[e] /\ c.hint = h_exec[e],
         \A f \in Execs :
           d_done'[f] <=> d_done[f] \/ (At = 6 /\ f = e /\ Accepts(h_exec[e]))
  PROVE  RoundData'
<1>1. pc' = pc /\ h_exec' = h_exec /\ accepts' = accepts /\ InSync' /\ P' = P
  BY DEF host, InSync, P
<1>2. ready /\ d_exec = h_exec /\ ready' /\ d_exec' = h_exec'
  BY <1>1 DEF RoundData
<1>3. /\ \A j \in Int : \A f \in Execs : Ran(j, f)' <=> Ran(j, f) \/ (j = At /\ f = e)
      /\ At' = At \/ At' = At + 1
  BY RanStep
<1>4. /\ Work(P, e)' = c
      /\ \A f \in Execs : f # e => Work(P, f)' = Work(P, f)
  BY <1>1, <1>2, BlockWrite
<1>5. \A j \in Int : Ran(j, e) <=> j < At
  BY DEF Ran
<1>6. At' \in 3 .. 7
  BY <1>3
<1>7. \A f \in Execs : Accepts(h_exec[f])' <=> Accepts(h_exec[f])
  BY <1>1 DEF Accepts
<1>8. ASSUME NEW f \in Execs
      PROVE  /\ Ran(3, f)' => Work(P, f)'.y = h_exec[f]
             /\ Ran(4, f)' => Work(P, f)'.w = h_exec[f]
             /\ Ran(5, f)' => Work(P, f)'.seed = h_exec[f]
             /\ d_done'[f] <=> Ran(6, f)' /\ Accepts(h_exec[f])
             /\ Ran(6, f)' /\ Accepts(h_exec[f])
                  => Work(P, f)'.z = h_exec[f] /\ Work(P, f)'.hint = h_exec[f]
  <2>1. /\ Ran(3, f)' <=> Ran(3, f) \/ (At = 3 /\ f = e)
        /\ Ran(4, f)' <=> Ran(4, f) \/ (At = 4 /\ f = e)
        /\ Ran(5, f)' <=> Ran(5, f) \/ (At = 5 /\ f = e)
        /\ Ran(6, f)' <=> Ran(6, f) \/ (At = 6 /\ f = e)
    <3>1. 3 \in Int /\ 4 \in Int /\ 5 \in Int /\ 6 \in Int
      OBVIOUS
    <3>2. \A j \in Int : Ran(j, f)' <=> Ran(j, f) \/ (j = At /\ f = e)
      BY <1>3
    <3>3. \A j \in Int : Ran(j, f)' <=> Ran(j, f) \/ (At = j /\ f = e)
      BY <3>2
    <3> QED BY <3>1, <3>3, Zenon
  <2>2. /\ Ran(3, f) => Work(P, f).y = h_exec[f]
        /\ Ran(4, f) => Work(P, f).w = h_exec[f]
        /\ Ran(5, f) => Work(P, f).seed = h_exec[f]
        /\ d_done[f] <=> Ran(6, f) /\ Accepts(h_exec[f])
        /\ Ran(6, f) /\ Accepts(h_exec[f])
             => Work(P, f).z = h_exec[f] /\ Work(P, f).hint = h_exec[f]
    BY DEF RoundData
  <2>3. CASE f # e
    BY <1>4, <2>1, <2>2, <2>3
  <2>4. CASE f = e
    <3>1. /\ Ran(3, e)' => At >= 3
          /\ Ran(4, e)' => At >= 4
          /\ Ran(5, e)' => At >= 5
          /\ Ran(6, e)' => At = 6
          /\ ~Ran(6, e)
      BY <1>5, <2>1, <2>4
    <3> QED BY <1>4, <2>1, <2>2, <2>4, <3>1
  <2> QED BY <2>3, <2>4
<1>9. At' >= 2 /\ At' # 8
  BY <1>6
<1> QED BY <1>1, <1>2, <1>7, <1>8, <1>9 DEF RoundData

-----------------------------------------------------------------------------
(* The steps of the GPU.                                                   *)

\* The cell of a block is a cell.
LEMMA WorkCell ==
  ASSUME TypeOK, Scheduled, InSync, d_exec = h_exec, NEW e \in Execs
  PROVE  Work(P, e) \in Cell
<1>1. CASE pc = "sync_direct"
  <2>1. h_exec[e].sign \in Items
    BY <1>1, SlotsAssumption DEF Scheduled, SlotsHold, InSync, Execs
  <2> QED BY <1>1, <2>1 DEF Work, TypeOK, P
<1>2. CASE pc # "sync_direct"
  BY <1>2 DEF Work, TypeOK, P
<1> QED BY <1>1, <1>2

\* What a finished block keeps and what it leaves for the next kernel.
LEMMA BlockKeeps ==
  ASSUME TypeOK, Core, stream # << >>, InSync, At \in 3 .. 6,
         NEW e \in Execs, NEW c, Write(P, e, c), BlockDone(e),
         Head(stream).op \in Kernels,
         UNCHANGED <<accepts, host, ready, d_exec>>
  PROVE  SignedData' /\ StreamShape' /\ Scheduled'
<1>1. Finish \/ UNCHANGED stream
  BY DEF BlockDone
<1>2. d_exec = h_exec
  BY DEF Core, RoundData
<1>3. \A i \in Items : done[i] => d_sig'[i] = d_sig[i]
  BY <1>2, BlockWrite DEF Core, host
<1>4. Head(stream).op \notin {"copylut", "copy"}
  BY DEF Kernels
<1> QED BY <1>1, <1>3, <1>4, SignedKept, GpuShape, GpuScheduled DEF Core

LEMMA YStep ==
  ASSUME TypeOK, Core, NEW e \in Execs, YBlock(e)
  PROVE  RoundData' /\ SignedData' /\ StreamShape' /\ Scheduled'
<1>1. /\ stream # << >> /\ Head(stream).op = "y" /\ e \notin ran /\ BlockDone(e)
      /\ UNCHANGED <<accepts, host, ready, d_exec, d_done>>
  BY DEF YBlock, ComputeBlock, Running
<1>2. InSync /\ At = 3 /\ Head(stream).pool = P
  BY <1>1, Stage DEF Core
<1>3. d_exec = h_exec /\ ready
  BY <1>2 DEF Core, RoundData
<1> DEFINE c == ComputeY(h_exec[e], Work(P, e))
<1>4. Write(P, e, c)
  BY <1>2, <1>3 DEF YBlock, ComputeBlock
<1>5. c.y = h_exec[e]
  BY <1>2, <1>3, WorkCell DEF ComputeY, Core, Cell
<1> HIDE DEF c
<1> QED BY <1>1, <1>2, <1>4, <1>5, BlockRound, BlockKeeps DEF Core, Kernels

LEMMA WStep ==
  ASSUME TypeOK, Core, NEW e \in Execs, WBlock(e)
  PROVE  RoundData' /\ SignedData' /\ StreamShape' /\ Scheduled'
<1>1. /\ stream # << >> /\ Head(stream).op = "w" /\ e \notin ran /\ BlockDone(e)
      /\ UNCHANGED <<accepts, host, ready, d_exec, d_done>>
  BY DEF WBlock, ComputeBlock, Running
<1>2. InSync /\ At = 4 /\ Head(stream).pool = P
  BY <1>1, Stage DEF Core
<1>3. d_exec = h_exec /\ Work(P, e).y = h_exec[e]
  BY <1>2 DEF Core, RoundData, Ran
<1> DEFINE c == ComputeW(h_exec[e], Work(P, e))
<1>4. Write(P, e, c)
  BY <1>2, <1>3 DEF WBlock, ComputeBlock
<1>5. c.y = h_exec[e] /\ c.w = h_exec[e]
  BY <1>2, <1>3, WorkCell DEF ComputeW, Core, Cell
<1> HIDE DEF c
<1> QED BY <1>1, <1>2, <1>4, <1>5, BlockRound, BlockKeeps DEF Core, Kernels

LEMMA CpStep ==
  ASSUME TypeOK, Core, NEW e \in Execs, CpBlock(e)
  PROVE  RoundData' /\ SignedData' /\ StreamShape' /\ Scheduled'
<1>1. /\ stream # << >> /\ Head(stream).op = "cp" /\ e \notin ran /\ BlockDone(e)
      /\ UNCHANGED <<accepts, host, ready, d_exec, d_done>>
  BY DEF CpBlock, ComputeBlock, Running
<1>2. InSync /\ At = 5 /\ Head(stream).pool = P
  BY <1>1, Stage DEF Core
<1>3. d_exec = h_exec /\ Work(P, e).y = h_exec[e] /\ Work(P, e).w = h_exec[e]
  BY <1>2 DEF Core, RoundData, Ran
<1> DEFINE c == ComputeCp(h_exec[e], Work(P, e))
<1>4. Write(P, e, c)
  BY <1>2, <1>3 DEF CpBlock, ComputeBlock
<1>5. c.y = h_exec[e] /\ c.w = h_exec[e] /\ c.seed = h_exec[e]
  BY <1>2, <1>3, WorkCell DEF ComputeCp, Core, Cell
<1> HIDE DEF c
<1> QED BY <1>1, <1>2, <1>4, <1>5, BlockRound, BlockKeeps DEF Core, Kernels

\* The checks see the whole attempt of the slot, so they decide it rightly.
LEMMA RejStep ==
  ASSUME TypeOK, Core, NEW e \in Execs, RejBlock(e)
  PROVE  RoundData' /\ SignedData' /\ StreamShape' /\ Scheduled'
<1>1. /\ stream # << >> /\ Head(stream).op = "rej" /\ e \notin ran /\ BlockDone(e)
      /\ UNCHANGED <<accepts, host, ready, d_exec>>
  BY DEF RejBlock, Running
<1>2. InSync /\ At = 6 /\ Head(stream).pool = P
  BY <1>1, Stage DEF Core
<1>3. /\ d_exec = h_exec
      /\ Work(P, e).y = h_exec[e] /\ Work(P, e).w = h_exec[e]
      /\ Work(P, e).seed = h_exec[e]
  BY <1>2 DEF Core, RoundData, Ran
<1>4. Work(P, e) \in Cell
  BY <1>2, <1>3, WorkCell DEF Core
<1> DEFINE ok == Accepts(h_exec[e])
           c == IF ok THEN Accept(h_exec[e], Work(P, e)) ELSE Work(P, e)
<1>5. Consistent(h_exec[e], Work(P, e))
  BY <1>3 DEF Consistent
<1>6. Verdicts(d_exec[e], Work(P, e)) = {ok}
  BY <1>3, <1>5 DEF Verdicts, Accepts
<1>7. Write(P, e, c) /\ d_done' = [d_done EXCEPT ![e] = @ \/ ok]
  <2>1. \E v \in Verdicts(d_exec[e], Work(Head(stream).pool, e)) :
          /\ Write(Head(stream).pool, e,
                   IF v THEN Accept(d_exec[e], Work(Head(stream).pool, e))
                        ELSE Work(Head(stream).pool, e))
          /\ d_done' = [d_done EXCEPT ![e] = @ \/ v]
    BY Zenon DEF RejBlock
  <2>2. \E v \in Verdicts(d_exec[e], Work(P, e)) :
          /\ Write(P, e, IF v THEN Accept(d_exec[e], Work(P, e)) ELSE Work(P, e))
          /\ d_done' = [d_done EXCEPT ![e] = @ \/ v]
    BY <1>2, <2>1, Zenon
  <2>3. \E v \in {ok} :
          /\ Write(P, e, IF v THEN Accept(h_exec[e], Work(P, e)) ELSE Work(P, e))
          /\ d_done' = [d_done EXCEPT ![e] = @ \/ v]
    BY <1>3, <1>6, <2>2, Zenon
  <2> QED BY <2>3, Zenon
<1>8. /\ c.y = h_exec[e] /\ c.w = h_exec[e] /\ c.seed = h_exec[e]
      /\ ok => c.z = h_exec[e] /\ c.hint = h_exec[e]
  BY <1>3, <1>4, <1>5 DEF Accept, Cell
<1>9. \A f \in Execs : d_done'[f] <=> d_done[f] \/ (At = 6 /\ f = e /\ ok)
  BY <1>2, <1>7 DEF TypeOK
<1> HIDE DEF c
<1> QED BY <1>1, <1>2, <1>7, <1>8, <1>9, BlockRound, BlockKeeps DEF Core, Kernels

\* Nothing is claimed of a round before its second operation.
LEMMA RoundIdle ==
  ASSUME InSync' => At' \in Int /\ At' <= 1
  PROVE  RoundData'
<1>1. ASSUME NEW e \in Execs, NEW j \in 3 .. 6, InSync'
      PROVE  ~Ran(j, e)'
  BY <1>1 DEF Ran
<1>2. 3 \in 3 .. 6 /\ 4 \in 3 .. 6 /\ 5 \in 3 .. 6 /\ 6 \in 3 .. 6
  OBVIOUS
<1>3. InSync' => ~(At' >= 2) /\ ~(At' >= 3) /\ At' # 8
  OBVIOUS
<1> QED BY <1>1, <1>2, <1>3, Zenon DEF RoundData

LEMMA RoundNotStarted ==
  ASSUME TypeOK, stream # << >>, InSync => At <= 0, UNCHANGED host,
         Finish \/ UNCHANGED stream
  PROVE  RoundData'
<1>1. InSync' => InSync
  BY DEF InSync, host
<1>2. InSync' => At' \in Int /\ At' <= 1
  BY <1>1, AtInt, Advance DEF At
<1> QED BY <1>2, RoundIdle

LEMMA PrepareStep ==
  ASSUME TypeOK, Core, Prepare
  PROVE  RoundData' /\ SignedData' /\ StreamShape' /\ Scheduled'
<1>1. /\ stream # << >> /\ Head(stream).op = "prep" /\ Finish
      /\ UNCHANGED <<accepts, host, d_sig>>
  BY DEF Prepare, Running
<1>2. InSync => At <= 0
  BY <1>1, Stage DEF Core
<1> QED BY <1>1, <1>2, RoundNotStarted, SignedKept, GpuShape, GpuScheduled DEF Core

LEMMA UploadExecStep ==
  ASSUME TypeOK, Core, UploadExec
  PROVE  RoundData' /\ SignedData' /\ StreamShape' /\ Scheduled'
<1>1. /\ stream # << >> /\ Head(stream).op = "exec" /\ Finish
      /\ UNCHANGED <<accepts, host, d_sig, ready>> /\ d_exec' = h_exec
  BY DEF UploadExec, Running
<1>2. InSync /\ At = 1 /\ At' = 2 /\ ran' = {}
  BY <1>1, Stage, Advance DEF Core
<1>3. ready
  BY <1>1, <1>2 DEF Core, InputsReady, Running, InSync
<1>4. \A e \in Execs : ~Ran(3, e)' /\ ~Ran(4, e)' /\ ~Ran(5, e)' /\ ~Ran(6, e)'
  BY <1>2 DEF Ran
<1>5. h_exec' = h_exec
  BY <1>1 DEF host
<1>6. RoundData'
  BY <1>1, <1>2, <1>3, <1>4, <1>5 DEF RoundData
<1> QED BY <1>1, <1>6, SignedKept, GpuShape, GpuScheduled DEF Core

LEMMA ClearDoneStep ==
  ASSUME TypeOK, Core, ClearDone
  PROVE  RoundData' /\ SignedData' /\ StreamShape' /\ Scheduled'
<1>1. /\ stream # << >> /\ Head(stream).op = "clear" /\ Finish
      /\ UNCHANGED <<accepts, host, d_sig, ready, d_exec>>
      /\ d_done' = [e \in Execs |-> FALSE]
  BY DEF ClearDone, Running
<1>2. InSync /\ At = 2 /\ At' = 3 /\ ran' = {}
  BY <1>1, Stage, Advance DEF Core
<1>3. ready /\ d_exec = h_exec
  BY <1>2 DEF Core, RoundData
<1>4. \A e \in Execs : ~Ran(3, e)' /\ ~Ran(4, e)' /\ ~Ran(5, e)' /\ ~Ran(6, e)'
  BY <1>2 DEF Ran
<1>5. h_exec' = h_exec
  BY <1>1 DEF host
<1>6. RoundData'
  BY <1>1, <1>2, <1>3, <1>4, <1>5 DEF RoundData
<1> QED BY <1>1, <1>6, SignedKept, GpuShape, GpuScheduled DEF Core

LEMMA DownloadDoneStep ==
  ASSUME TypeOK, Core, DownloadDone
  PROVE  RoundData' /\ SignedData' /\ StreamShape' /\ Scheduled'
<1>1. /\ stream # << >> /\ Head(stream).op = "fetch" /\ Finish
      /\ UNCHANGED <<accepts, host, d_sig, d_temp, ready, d_exec, d_done>>
      /\ h_done' = d_done
  BY DEF DownloadDone, Running, mem
<1>2. InSync /\ At = 7 /\ At' = 8 /\ ran' = {}
  BY <1>1, Stage, Advance DEF Core
<1>3. InSync' /\ P' = P /\ h_exec' = h_exec
  BY <1>1, <1>2 DEF host, InSync, P
<1>4. \A e \in Execs :
        /\ Ran(3, e) /\ Ran(4, e) /\ Ran(5, e) /\ Ran(6, e)
        /\ Ran(3, e)' /\ Ran(4, e)' /\ Ran(5, e)' /\ Ran(6, e)'
  BY <1>2 DEF Ran
<1>5. \A e \in Execs : Work(P, e)' = Work(P, e)
  BY <1>1, <1>3 DEF Work
<1>6. \A e \in Execs : Accepts(h_exec[e])' <=> Accepts(h_exec[e])
  BY <1>1, <1>3 DEF Accepts
<1>7. /\ ready /\ d_exec = h_exec
      /\ \A e \in Execs :
           /\ Work(P, e).y = h_exec[e]
           /\ Work(P, e).w = h_exec[e]
           /\ Work(P, e).seed = h_exec[e]
           /\ d_done[e] <=> Accepts(h_exec[e])
           /\ Accepts(h_exec[e])
                => Work(P, e).z = h_exec[e] /\ Work(P, e).hint = h_exec[e]
  BY <1>2, <1>4 DEF Core, RoundData
<1>8. RoundData'
  BY <1>1, <1>2, <1>3, <1>4, <1>5, <1>6, <1>7 DEF RoundData
<1> QED BY <1>1, <1>8, SignedKept, GpuShape, GpuScheduled DEF Core

LEMMA DownloadSigStep ==
  ASSUME TypeOK, Core, DownloadSig
  PROVE  RoundData' /\ SignedData' /\ StreamShape' /\ Scheduled'
<1>1. /\ stream # << >> /\ Head(stream).op = "out" /\ Finish
      /\ UNCHANGED <<accepts, host, d_sig>>
  BY DEF DownloadSig, Running, mem
<1>2. ~InSync
  BY <1>1, Position, Zenon DEF Core, InSync
<1>3. RoundData'
  BY <1>1, <1>2, RoundNotStarted
<1> QED BY <1>1, <1>3, SignedKept, GpuShape, GpuScheduled DEF Core

LEMMA UploadCopyStep ==
  ASSUME TypeOK, Core, UploadCopy
  PROVE  RoundData' /\ SignedData' /\ StreamShape' /\ Scheduled'
<1>1. /\ stream # << >> /\ Head(stream).op = "copylut" /\ Finish
      /\ UNCHANGED <<accepts, host, d_sig, d_temp>> /\ d_copy' = h_copy
  BY DEF UploadCopy, Running
<1>2. InSync => At <= 0
  BY <1>1, Stage DEF Core
<1>3. Tail(stream) # << >> /\ Head(Tail(stream)).op = "copy"
  BY <1>1, Position, Zenon DEF Core
<1>4. Running("copy")' /\ ~Running("copylut")' /\ ran' = {}
  BY <1>1, <1>3 DEF Running, Finish
<1>5. pc' = pc /\ done' = done /\ h_copy' = h_copy
  BY <1>1 DEF host
<1>6. ToCopy = h_copy /\ ToCopy' = h_copy
  BY <1>1, <1>4 DEF ToCopy, Running
<1>7. \A i \in Items : Signed(i)' = Signed(i)
  BY <1>1 DEF Signed, FirstAccepted
<1>8. SignedData'
  <2>1. Functional(h_copy)
    BY <1>1 DEF Core, SignedData, Running
  <2>2. Functional(d_copy)'
    BY <1>1, <2>1 DEF Functional
  <2>3. \A c \in ToCopy' : c[2] \in Items /\ Holds(d_temp[c[1]], Signed(c[2]))'
    BY <1>1, <1>6, <1>7 DEF Core, SignedData, Holds
  <2>4. pc' # "start" => \A i \in Items : done'[i] =>
          Holds(d_sig[i], Signed(i))' \/ \E c \in ToCopy' : c[2] = i
    BY <1>1, <1>5, <1>6, <1>7 DEF Core, SignedData, Holds
  <2> QED BY <1>4, <2>2, <2>3, <2>4 DEF SignedData
<1> QED BY <1>1, <1>2, <1>8, RoundNotStarted, GpuShape, GpuScheduled DEF Core

\* A copy completes one signature; the others are still to be copied.
LEMMA CopyBlockStep ==
  ASSUME TypeOK, Core, NEW c \in d_copy, CopyBlock(c)
  PROVE  RoundData' /\ SignedData' /\ StreamShape' /\ Scheduled'
<1>1. /\ stream # << >> /\ Head(stream).op = "copy" /\ c[1] \notin ran
      /\ UNCHANGED <<accepts, host, d_copy, d_temp>>
  BY DEF CopyBlock, Running
<1>2. \/ ran \cup {c[1]} = {b[1] : b \in d_copy} /\ Finish
      \/ ran' = ran \cup {c[1]} /\ UNCHANGED stream
  BY DEF CopyBlock
<1>3. InSync => At <= 0
  BY <1>1, Stage DEF Core
<1>4. pc' = pc /\ done' = done
  BY <1>1 DEF host
<1>5. ToCopy = {b \in d_copy : b[1] \notin ran} /\ c \in ToCopy
  BY <1>1 DEF ToCopy, Running
<1>6. \A i \in Items : Signed(i)' = Signed(i)
  BY <1>1 DEF Signed, FirstAccepted
<1>7. /\ Functional(d_copy)
      /\ \A b \in ToCopy : b[2] \in Items /\ Holds(d_temp[b[1]], Signed(b[2]))
      /\ pc # "start" => \A i \in Items : done[i] =>
           Holds(d_sig[i], Signed(i)) \/ \E b \in ToCopy : b[2] = i
  BY <1>1 DEF Core, SignedData, Running
<1>8. ~Running("copylut")' /\ ToCopy' \subseteq ToCopy
      /\ \A b \in ToCopy : b # c => b \in ToCopy'
  <2>1. CASE ran \cup {c[1]} = {b[1] : b \in d_copy} /\ Finish
    <3>1. Tail(stream) = << >> \/ Head(Tail(stream)).op \notin {"prep", "copylut", "copy"}
      BY <1>1, Position, Zenon DEF Core
    <3>2. ~Running("copylut")' /\ ~Running("copy")'
      BY <2>1, <3>1 DEF Running, Finish
    <3>3. ToCopy' = {}
      BY <3>2 DEF ToCopy
    <3>4. \A b \in ToCopy : b[1] = c[1]
      BY <1>5, <2>1
    <3>5. \A b \in ToCopy : b = c
      BY <1>5, <1>7, <3>4 DEF Functional
    <3> QED BY <3>2, <3>3, <3>5
  <2>2. CASE ran' = ran \cup {c[1]} /\ UNCHANGED stream
    <3>1. Running("copy")' /\ ~Running("copylut")'
      BY <1>1, <2>2 DEF Running
    <3>2. ToCopy' = {b \in d_copy : b[1] \notin ran \cup {c[1]}}
      BY <1>1, <2>2, <3>1 DEF ToCopy
    <3>3. \A b \in ToCopy : b # c => b[1] # c[1]
      BY <1>5, <1>7 DEF Functional
    <3> QED BY <1>5, <3>1, <3>2, <3>3
  <2> QED BY <1>2, <2>1, <2>2
<1>9. c[2] \in Items /\ Holds(d_temp[c[1]], Signed(c[2]))
  BY <1>5, <1>7
<1>10. /\ d_sig'[c[2]].seed = d_temp[c[1]].seed
       /\ d_sig'[c[2]].z = d_temp[c[1]].z
       /\ d_sig'[c[2]].hint = d_temp[c[1]].hint
       /\ \A i \in Items : i # c[2] => d_sig'[i] = d_sig[i]
  <2>1. d_sig' = [d_sig EXCEPT ![c[2]] =
                   [@ EXCEPT !.seed = d_temp[c[1]].seed, !.z = d_temp[c[1]].z,
                             !.hint = d_temp[c[1]].hint]]
    BY DEF CopyBlock
  <2>2. d_sig \in [Items -> Cell]
    BY DEF TypeOK
  <2>3. d_sig[c[2]] \in Cell
    BY <1>9, <2>2
  <2>4. d_sig'[c[2]] = [d_sig[c[2]] EXCEPT !.seed = d_temp[c[1]].seed,
                          !.z = d_temp[c[1]].z, !.hint = d_temp[c[1]].hint]
    BY <1>9, <2>1, <2>2
  <2>5. \A i \in Items : i # c[2] => d_sig'[i] = d_sig[i]
    BY <2>1, <2>2
  <2> QED BY <2>3, <2>4, <2>5 DEF Cell
<1>11. Holds(d_sig'[c[2]], Signed(c[2]))
  BY <1>9, <1>10 DEF Holds
<1>12. SignedData'
  <2>1. Functional(d_copy)' 
    BY <1>1, <1>7 DEF Functional
  <2>2. \A b \in ToCopy' : b[2] \in Items /\ Holds(d_temp[b[1]], Signed(b[2]))'
    BY <1>1, <1>6, <1>7, <1>8 DEF Holds
  <2>3. ASSUME pc' # "start", NEW i \in Items, done'[i]
        PROVE  Holds(d_sig[i], Signed(i))' \/ \E b \in ToCopy' : b[2] = i
    <3>1. CASE i = c[2]
      BY <1>6, <1>9, <1>11, <3>1 DEF Holds
    <3>2. CASE i # c[2]
      <4>1. Holds(d_sig[i], Signed(i)) \/ \E b \in ToCopy : b[2] = i
        BY <1>4, <1>7, <2>3
      <4>2. CASE Holds(d_sig[i], Signed(i))
        BY <1>6, <1>10, <3>2, <4>2 DEF Holds
      <4>3. CASE \E b \in ToCopy : b[2] = i
        BY <1>8, <3>2, <4>3
      <4> QED BY <4>1, <4>2, <4>3
    <3> QED BY <3>1, <3>2
  <2> QED BY <1>8, <2>1, <2>2, <2>3 DEF SignedData
<1> QED BY <1>1, <1>2, <1>3, <1>12, RoundNotStarted, GpuShape, GpuScheduled DEF Core

\* The parts of the invariant that hardly change.
LEMMA GpuRest ==
  ASSUME TypeOK, Core, GpuStep
  PROVE  InputsReady' /\ ScanData' /\ Returned'
<1>1. UNCHANGED <<accepts, host>> /\ stream # << >>
      /\ (Finish \/ UNCHANGED stream)
  BY DEF GpuStep, Prepare, UploadExec, ClearDone, YBlock, WBlock, CpBlock,
         ComputeBlock, RejBlock, BlockDone, DownloadDone, UploadCopy, CopyBlock,
         DownloadSig, Running
<1>2. pc' = pc /\ done' = done /\ h_exec' = h_exec
  BY <1>1 DEF host
<1>3. pc' \notin {"scan", "start", "end"}
  BY <1>1, <1>2 DEF Core, StreamShape
<1>4. InputsReady'
  <2>1. CASE Prepare
    BY <2>1 DEF Prepare, InputsReady
  <2>2. CASE ~Prepare
    <3>1. ready' = ready /\ Head(stream).op # "prep"
      BY <2>2, <1>1
      DEF GpuStep, Prepare, UploadExec, ClearDone, YBlock, WBlock, CpBlock,
          ComputeBlock, RejBlock, DownloadDone, UploadCopy, CopyBlock,
          DownloadSig, Running, mem
    <3> QED BY <1>1, <1>2, <3>1 DEF Core, InputsReady, Running
  <2> QED BY <2>1, <2>2
<1>5. ASSUME pc' = "returned", stream' = << >>
      PROVE  \A i \in Items : Holds(out[i], Signed(i))'
  <2>1. Tail(stream) = << >>
    BY <1>1, <1>5 DEF Finish
  <2>2. Head(stream).op = "out"
    BY <1>1, <1>2, <1>5, <2>1, Position, Zenon DEF Core
  <2>3. DownloadSig
    BY <2>2 DEF GpuStep, Prepare, UploadExec, ClearDone, YBlock, WBlock, CpBlock,
         ComputeBlock, RejBlock, DownloadDone, UploadCopy, CopyBlock, Running
  <2>4. out' = d_sig /\ ToCopy = {}
    BY <2>2, <2>3 DEF DownloadSig, ToCopy, Running
  <2>5. \A i \in Items : done[i]
    BY <1>2, <1>5 DEF Core, Returned
  <2>6. \A i \in Items : Holds(d_sig[i], Signed(i))
    BY <1>2, <1>3, <2>4, <2>5 DEF Core, SignedData
  <2> QED BY <1>1, <2>4, <2>6 DEF Holds, Signed, FirstAccepted
<1>6. Returned'
  BY <1>2, <1>3, <1>5 DEF Core, Returned
<1> QED BY <1>3, <1>4, <1>6 DEF ScanData

LEMMA GpuCore ==
  ASSUME TypeOK, Core, GpuStep
  PROVE  Core'
<1>1. RoundData' /\ SignedData' /\ StreamShape' /\ Scheduled'
  BY PrepareStep, UploadExecStep, ClearDoneStep, YStep, WStep, CpStep, RejStep,
     DownloadDoneStep, UploadCopyStep, CopyBlockStep, DownloadSigStep DEF GpuStep
<1> QED BY <1>1, GpuRest DEF Core

-----------------------------------------------------------------------------
(* The steps of the host, while the GPU answers.                           *)

\* Appending to the stream does not change what is running in it.
LEMMA IssueRunning ==
  ASSUME TypeOK, gpu = "ok", NEW ops \in Seq(Op), ops # << >>,
         Head(ops).op \notin {"prep", "copylut", "copy"}, Issue(ops)
  PROVE  /\ stream' = stream \o ops /\ stream' # << >>
         /\ Running("prep")' <=> Running("prep")
         /\ Running("copylut")' <=> Running("copylut")
         /\ Running("copy")' <=> Running("copy")
<1>1. stream' = stream \o ops /\ stream \in Seq(Op)
  BY DEF Issue, TypeOK
<1>2. CASE stream = << >>
  <2>1. stream' = ops
    BY <1>1, <1>2, Concat
  <2> QED BY <1>1, <1>2, <2>1 DEF Running
<1>3. CASE stream # << >>
  <2>1. stream' # << >> /\ Head(stream') = Head(stream)
    BY <1>1, <1>3, Concat
  <2> QED BY <1>1, <1>3, <2>1 DEF Running
<1> QED BY <1>2, <1>3

\* Host steps that change neither a mark of sign_lut nor device memory.
LEMMA SignedSame ==
  ASSUME SignedData, pc # "start", pc' # "start",
         UNCHANGED <<accepts, done, h_copy, d_copy, d_sig, d_temp, ran>>,
         Running("copylut")' <=> Running("copylut"),
         Running("copy")' <=> Running("copy")
  PROVE  SignedData'
<1>1. ToCopy' = ToCopy
  BY DEF ToCopy
<1>2. \A i \in Items : Signed(i)' = Signed(i)
  BY DEF Signed, FirstAccepted
<1> QED BY <1>1, <1>2 DEF SignedData, Functional, Holds

LEMMA StartStep ==
  ASSUME TypeOK, Core, gpu = "ok", Start
  PROVE  Core'
<1>1. /\ pc = "start" /\ pc' = "fill" /\ stream = << >>
      /\ done' = [i \in Items |-> FALSE] /\ nonce' = [i \in Items |-> 0]
      /\ sign_idx' = 0 /\ exec_idx' = 0
  BY DEF Start, Core, StreamShape, Scheduled
<1>2. stream' = <<Do("prep", "sign")>>
  BY <1>1 DEF Start, Issue
<1>3. Running("prep")' /\ ~Running("copylut")' /\ ~Running("copy")'
  BY <1>2 DEF Running, Do
<1>4. ~InSync'
  BY <1>1 DEF InSync
<1>5. StreamShape'
  BY <1>1, <1>2, <1>4 DEF StreamShape, PreOps
<1>6. Scheduled'
  BY <1>1, <1>4 DEF Scheduled, SlotsHold, CountersAt, DistinctBelow
<1>7. SignedData'
  BY <1>1, <1>3 DEF SignedData, ToCopy
<1> QED BY <1>1, <1>3, <1>4, <1>5, <1>6, <1>7
        DEF Core, InputsReady, RoundData, ScanData, Returned

\* The parts of the invariant that taking and skipping items leave alone.
LEMMA FillingRest ==
  ASSUME TypeOK, Core, Filling, pc' \in {"fill", "predict"},
         UNCHANGED <<accepts, done, h_copy, stream, ran, mem, out>>
  PROVE  /\ StreamShape' /\ InputsReady' /\ RoundData' /\ ScanData'
         /\ SignedData' /\ Returned'
<1>1. ~InSync' /\ pc # "start" /\ pc' # "start" /\ pc \in {"fill", "predict"}
  BY DEF InSync, Filling
<1>2. StreamShape'
  BY <1>1 DEF Core, StreamShape
<1>3. SignedData'
  BY <1>1, SignedSame DEF Core, mem, Running
<1> QED BY <1>1, <1>2, <1>3
        DEF Core, InputsReady, RoundData, ScanData, Returned, Running, mem

\* Speculation in order: the nonce an item gets is preceded by all smaller ones.
LEMMA TakeItemStep ==
  ASSUME TypeOK, Core, Batch <= IdxCap, TakeItem
  PROVE  Core'
<1>0. PICK i, x, n : i = sign_idx /\ x = exec_idx /\ n = nonce[i]
  OBVIOUS
<1>1. /\ i \in Items /\ ~done[i] /\ x \in 0 .. Slots - 1 /\ x \in Execs
      /\ pc \in {"fill", "predict"} /\ pc' = pc /\ done' = done
      /\ accepts' = accepts /\ sign_idx' = i + 1 /\ exec_idx' = x + 1
      /\ n \in 0 .. NonceCap - 1
  BY <1>0, BatchAssumption, SlotsAssumption
     DEF TakeItem, Wants, TypeOK, Items, Filling, Execs, Nonces
<1>2. h_exec' = [h_exec EXCEPT ![x] = [sign |-> i, nonce |-> n]]
  BY <1>0, <1>1, PackExact DEF TakeItem
<1>3. nonce' = [nonce EXCEPT ![i] = (n + 1) % NonceCap]
  BY <1>0 DEF TakeItem
<1>4. /\ h_exec'[x] = [sign |-> i, nonce |-> n]
      /\ \A e \in 0 .. x - 1 : h_exec'[e] = h_exec[e]
  BY <1>1, <1>2 DEF TypeOK, Execs
<1>5. /\ nonce'[i] = (n + 1) % NonceCap
      /\ \A j \in Items : j # i => nonce'[j] = nonce[j]
  BY <1>1, <1>3 DEF TypeOK
<1>6. SlotsHold(x) /\ CountersAt(x)
  BY <1>0, <1>1 DEF Core, Scheduled
<1>7. x \in Nat /\ n \in Nat
  BY <1>1, NonceCapAssumption
<1>8. \A j \in Items, m \in Int, e \in 0 .. x :
        Tried(j, m, e) => Tried(j, m, e)'
  BY <1>1, <1>4, <1>7 DEF Tried
<1>9. \A e \in 0 .. x - 1 : h_exec[e] \in Attempt
  BY <1>1, SlotsAssumption DEF TypeOK, Execs
<1>10. SlotsHold(x + 1)'
  <2>0. ASSUME NEW e \in 0 .. x, NEW a, a = h_exec'[e]
        PROVE  /\ a.sign \in Items /\ ~done[a.sign]
               /\ \A m \in 0 .. a.nonce - 1 : Tried(a.sign, m, e)'
    <3>1. CASE e = x
      <4>1. a.sign = i /\ a.nonce = n
        BY <1>4, <2>0, <3>1
      <4>2. \A m \in 0 .. n - 1 : Tried(i, m, x)'
        BY <1>0, <1>1, <1>6, <1>7, <1>8 DEF CountersAt
      <4> QED BY <1>1, <3>1, <4>1, <4>2
    <3>2. CASE e # x
      <4>1. e \in 0 .. x - 1 /\ a = h_exec[e]
        BY <1>4, <1>7, <2>0, <3>2
      <4>2. /\ a.sign \in Items /\ ~done[a.sign]
            /\ \A m \in 0 .. a.nonce - 1 : Tried(a.sign, m, e)
        BY <1>6, <4>1 DEF SlotsHold
      <4>3. a.nonce \in Nat
        BY <1>9, <4>1, NonceCapAssumption DEF Attempt, Nonces
      <4>4. \A m \in 0 .. a.nonce - 1 : Tried(a.sign, m, e)'
        BY <1>7, <1>8, <4>1, <4>2, <4>3
      <4> QED BY <4>2, <4>4
    <3> QED BY <3>1, <3>2
  <2>1. ASSUME NEW e \in 0 .. x
        PROVE  (/\ h_exec[e].sign \in Items /\ ~done[h_exec[e].sign]
                /\ \A m \in 0 .. h_exec[e].nonce - 1 : Tried(h_exec[e].sign, m, e))'
    <3>1. PICK a : a = h_exec'[e]
      OBVIOUS
    <3> QED BY <1>1, <2>0, <3>1 DEF Tried
  <2> QED BY <1>7, <2>1 DEF SlotsHold
<1>11. CountersAt(x + 1)'
  <2> SUFFICES ASSUME NEW j \in Items, ~done[j], NEW m \in 0 .. nonce'[j] - 1
               PROVE  Tried(j, m, x + 1)'
    BY <1>1 DEF CountersAt
  <2>0. nonce[j] \in Nat
    BY NonceCapAssumption DEF TypeOK, Nonces
  <2>1. CASE j # i \/ m < n
    <3>1. m \in 0 .. nonce[j] - 1
      <4>1. CASE j # i
        BY <1>5, <4>1
      <4>2. CASE j = i
        BY <1>0, <1>1, <1>5, <1>7, <2>1, <4>2
      <4> QED BY <4>1, <4>2
    <3>2. Tried(j, m, x)
      BY <1>6, <3>1 DEF CountersAt
    <3>3. Tried(j, m, x)'
      BY <1>7, <1>8, <2>0, <3>1, <3>2
    <3> QED BY <1>7, <3>3 DEF Tried
  <2>2. CASE j = i /\ m >= n
    <3>1. m = n
      BY <1>1, <1>5, <1>7, <2>2, NonceCapAssumption
    <3>2. h_exec'[x] = [sign |-> j, nonce |-> m]
      BY <1>4, <2>2, <3>1
    <3> QED BY <1>7, <3>2 DEF Tried
  <2>3. m \in Int /\ n \in Int
    BY <1>7
  <2> QED BY <2>1, <2>2, <2>3
<1>12. pc = "fill" => /\ DistinctBelow(x + 1)'
                      /\ \A e \in 0 .. x : h_exec'[e].sign < sign_idx'
  <2>1. ASSUME pc = "fill"
        PROVE  DistinctBelow(x) /\ \A e \in 0 .. x - 1 : h_exec[e].sign < i
    BY <1>0, <2>1 DEF Core, Scheduled
  <2>2. ASSUME pc = "fill", NEW e \in 0 .. x PROVE h_exec'[e].sign < i + 1
    BY <1>1, <1>4, <1>7, <1>9, <2>1, <2>2, BatchAssumption DEF Items, Attempt
  <2>3. ASSUME pc = "fill", NEW e \in 0 .. x, NEW f \in 0 .. e - 1
        PROVE  h_exec'[e].sign # h_exec'[f].sign
    <3>1. f \in 0 .. x - 1 /\ h_exec'[f] = h_exec[f] /\ h_exec[f].sign < i
      BY <1>4, <1>7, <2>1, <2>3
    <3>2. CASE e = x
      BY <1>1, <1>4, <3>1, <3>2, BatchAssumption DEF Items
    <3>3. CASE e # x
      <4>1. e \in 0 .. x - 1 /\ h_exec'[e] = h_exec[e]
        BY <1>4, <1>7, <3>3
      <4> QED BY <2>1, <2>3, <3>1, <4>1 DEF DistinctBelow
    <3> QED BY <3>2, <3>3
  <2> QED BY <1>1, <1>7, <2>2, <2>3 DEF DistinctBelow
<1>13. Scheduled'
  <2>1. exec_idx' = x + 1 /\ exec_idx' - 1 = x
    BY <1>1, <1>7
  <2>2. SlotsHold(exec_idx)' /\ CountersAt(exec_idx)'
    BY <1>10, <1>11, <2>1 DEF SlotsHold, CountersAt, Tried
  <2>3. pc = "fill" => DistinctBelow(exec_idx)'
    BY <1>12, <2>1 DEF DistinctBelow
  <2> QED BY <1>1, <1>12, <2>1, <2>2, <2>3 DEF Scheduled, InSync
<1>14. /\ StreamShape' /\ InputsReady' /\ RoundData' /\ ScanData'
       /\ SignedData' /\ Returned'
  BY <1>1, FillingRest DEF TakeItem
<1> QED BY <1>13, <1>14 DEF Core

LEMMA SkipItemStep ==
  ASSUME TypeOK, Core, SkipItem
  PROVE  Core'
<1>1. /\ pc \in {"fill", "predict"} /\ pc' = pc
      /\ UNCHANGED <<accepts, done, nonce, h_exec, exec_idx>>
      /\ sign_idx' = sign_idx + 1 /\ sign_idx \in Nat
  BY BatchAssumption DEF SkipItem, Filling, TypeOK
<1>2. pc = "fill" => \A e \in 0 .. exec_idx' - 1 : h_exec'[e].sign < sign_idx'
  <2>1. ASSUME pc = "fill", NEW e \in 0 .. exec_idx - 1
        PROVE  h_exec[e].sign < sign_idx + 1
    <3>1. h_exec[e].sign < sign_idx
      BY <2>1 DEF Core, Scheduled
    <3>2. h_exec[e] \in Attempt
      BY SlotsAssumption DEF TypeOK, Execs
    <3> QED BY <1>1, <3>1, <3>2, IdxCapAssumption DEF Attempt
  <2> QED BY <1>1, <2>1
<1>3. Scheduled'
  BY <1>1, <1>2
     DEF Core, Scheduled, SlotsHold, CountersAt, DistinctBelow, Tried, InSync
<1> QED BY <1>1, <1>3, FillingRest DEF SkipItem, Core

LEMMA PredictMoreStep ==
  ASSUME TypeOK, Core, PredictMore
  PROVE  Core'
<1>1. /\ pc \in {"fill", "predict"} /\ pc' = "predict"
      /\ UNCHANGED <<accepts, done, nonce, h_exec, exec_idx>>
  BY DEF PredictMore, Filling, lut
<1>2. Scheduled'
  BY <1>1
     DEF Core, Scheduled, SlotsHold, CountersAt, DistinctBelow, Tried, InSync
<1> QED BY <1>1, <1>2, FillingRest DEF PredictMore, Core

\* A round is issued behind what is left of earlier work.
LEMMA LaunchRest ==
  ASSUME TypeOK, Core, gpu = "ok", pc \in {"fill", "predict"}, InSync',
         Issue(Round(P')),
         UNCHANGED <<accepts, done, h_copy, ran, mem, out>>
  PROVE  /\ StreamShape' /\ InputsReady' /\ RoundData' /\ ScanData'
         /\ SignedData' /\ Returned'
<1>1. pc # "start" /\ pc' \notin {"start", "scan", "end", "fill", "predict", "check", "returned"}
  BY DEF InSync
<1>2. P' \in Pools /\ stream \in PreOps
  BY PoolOfRound DEF Core, StreamShape, P, Pools
<1>3. PICK ops : ops = Round(P')
  OBVIOUS
<1>4. /\ ops \in Seq(Op) /\ Len(ops) = 7 /\ ops # << >>
      /\ Head(ops).op \notin {"prep", "copylut", "copy"}
  <2>1. ops \in Seq(Op) /\ Len(ops) = 7
    <3>1. Round(P') \in Seq(Op) /\ Len(Round(P')) = 7
      BY <1>2, RoundType, FromFirst, Zenon
    <3> QED BY <1>3, <3>1, Zenon
  <2>2. Head(ops).op = "exec"
    BY <1>3 DEF Round, Do
  <2>3. ops # << >>
    <3>1. Len(ops) # 0
      BY <2>1
    <3> QED BY <2>1, <3>1, EmptySeq, Zenon
  <2> QED BY <2>1, <2>2, <2>3, Zenon
<1>5. /\ stream' = stream \o ops
      /\ Running("prep")' <=> Running("prep")
      /\ Running("copylut")' <=> Running("copylut")
      /\ Running("copy")' <=> Running("copy")
  BY <1>3, <1>4, IssueRunning
<1>6. StreamShape'
  BY <1>1, <1>2, <1>3, <1>5 DEF StreamShape
<1>7. At' \in Int /\ At' <= 1
  <2>1. Len(stream') = Len(stream) + 7 /\ Len(stream) \in Nat
    <3>1. stream \in Seq(Op) /\ Len(stream) \in Nat
      BY DEF TypeOK
    <3>2. Len(stream \o ops) = Len(stream) + Len(ops)
      BY <1>4, <3>1, Concat, Zenon
    <3>3. Len(stream') = Len(stream) + Len(ops)
      BY <1>5, <3>2, Zenon
    <3> QED BY <1>4, <3>1, <3>3, Zenon
  <2> QED BY <2>1 DEF At
<1>8. SignedData'
  BY <1>1, <1>5, SignedSame DEF Core, mem
<1> QED BY <1>1, <1>5, <1>6, <1>7, <1>8, RoundIdle
        DEF Core, InputsReady, ScanData, Returned, mem

LEMMA LaunchDirectStep ==
  ASSUME TypeOK, Core, gpu = "ok", LaunchDirect
  PROVE  Core'
<1>1. /\ pc = "fill" /\ pc' = "sync_direct" /\ exec_idx = Slots
      /\ UNCHANGED <<accepts, done, nonce, h_exec>> /\ Issue(Round("sign"))
  BY DEF LaunchDirect, lut
<1>2. Scheduled'
  BY <1>1 DEF Core, Scheduled, SlotsHold, CountersAt, DistinctBelow, Tried, InSync
<1>3. InSync' /\ P' = "sign"
  BY <1>1 DEF InSync, P
<1> QED BY <1>1, <1>2, <1>3, LaunchRest DEF LaunchDirect, lut, Core

LEMMA LaunchPredictStep ==
  ASSUME TypeOK, Core, gpu = "ok", LaunchPredict
  PROVE  Core'
<1>1. /\ pc = "predict" /\ pc' = "sync_predict" /\ exec_idx = Slots
      /\ UNCHANGED <<accepts, done, nonce, h_exec>> /\ Issue(Round("temp"))
  BY DEF LaunchPredict, lut
<1>2. Scheduled'
  BY <1>1 DEF Core, Scheduled, SlotsHold, CountersAt, DistinctBelow, Tried, InSync
<1>3. InSync' /\ P' = "temp"
  BY <1>1 DEF InSync, P
<1> QED BY <1>1, <1>2, <1>3, LaunchRest DEF LaunchPredict, lut, Core

-----------------------------------------------------------------------------
(* Reading the results of a round.                                         *)

\* An accepted attempt with all smaller nonces rejected is the signature.
LEMMA FirstIsSigned ==
  ASSUME TypeOK, NEW a \in Attempt, a.sign \in Items, Accepts(a),
         \A m \in 0 .. a.nonce - 1 : m \notin accepts[a.sign]
  PROVE  a = Signed(a.sign)
<1>1. FirstAccepted(a.sign) = a.nonce
  BY FirstAcceptedIs DEF Accepts
<1> QED BY <1>1 DEF Signed, Attempt

\* When the stream is drained the round is over: h_done tells the verdicts.
LEMMA RoundOver ==
  ASSUME TypeOK, Core, InSync, stream = << >>
  PROVE  \A e \in Execs :
           /\ h_done[e] <=> Accepts(h_exec[e])
           /\ h_done[e] => Holds(Work(P, e), h_exec[e])
           /\ d_exec = h_exec
<1>1. At = 8
  BY DEF At
<1>2. \A e \in Execs : Ran(5, e) /\ Ran(6, e)
  BY <1>1 DEF Ran
<1> QED BY <1>1, <1>2 DEF Core, RoundData, Holds

\* Slots in a round hold items and attempts.
LEMMA SlotTypes ==
  ASSUME TypeOK, SlotsHold(Slots)
  PROVE  /\ Execs = 0 .. Slots - 1 /\ Slots \in Nat
         /\ \A e \in Execs :
              /\ h_exec[e] \in Attempt /\ h_exec[e].nonce \in Nat
              /\ h_exec[e].sign \in Items /\ ~done[h_exec[e].sign]
              /\ \A m \in 0 .. h_exec[e].nonce - 1 : Tried(h_exec[e].sign, m, e)
<1>1. Execs = 0 .. Slots - 1 /\ Slots \in Nat
  BY SlotsAssumption DEF Execs
<1>2. \A e \in Execs : h_exec[e] \in Attempt
  BY DEF TypeOK
<1> QED BY <1>1, <1>2, NonceCapAssumption DEF SlotsHold, Attempt, Nonces

\* If an item stays unsigned, all nonces below its counter are rejected.
LEMMA CountersKept ==
  ASSUME TypeOK, SlotsHold(Slots), CountersAt(Slots),
         \A e \in Execs : h_done[e] <=> Accepts(h_exec[e]),
         UNCHANGED <<accepts, nonce>>,
         \A i \in Items : ~done'[i] =>
           ~done[i] /\ \A e \in Execs : h_exec[e].sign = i => ~h_done[e]
  PROVE  CountersAt(0)'
<1>1. ASSUME NEW i \in Items, ~done'[i], NEW m \in 0 .. nonce[i] - 1
      PROVE  m \notin accepts[i]
  <2>1. Tried(i, m, Slots)
    BY <1>1 DEF CountersAt
  <2>2. ASSUME NEW f \in Execs, h_exec[f] = [sign |-> i, nonce |-> m]
        PROVE  m \notin accepts[i]
    <3>1. ~h_done[f]
      BY <1>1, <2>2
    <3> QED BY <2>2, <3>1 DEF Accepts
  <2> QED BY <2>1, <2>2, SlotTypes DEF Tried
<1> QED BY <1>1 DEF CountersAt, Tried

\* In the direct path an accepted slot holds the signature of its item.
LEMMA DirectSigned ==
  ASSUME TypeOK, Core, pc = "sync_direct", stream = << >>,
         NEW e \in Execs, h_done[e]
  PROVE  /\ h_exec[e] = Signed(h_exec[e].sign) /\ h_exec[e].sign \in Items
         /\ Accepts(h_exec[e])
<1>1. Accepts(h_exec[e])
  BY RoundOver DEF InSync
<1>2. SlotsHold(Slots) /\ DistinctBelow(Slots)
  BY DEF Core, Scheduled, InSync
<1>3. ASSUME NEW m \in 0 .. h_exec[e].nonce - 1
      PROVE  m \notin accepts[h_exec[e].sign]
  <2>1. Tried(h_exec[e].sign, m, e)
    BY <1>2, SlotTypes
  <2>2. \A f \in 0 .. e - 1 : h_exec[f].sign # h_exec[e].sign
    BY <1>2, SlotTypes DEF DistinctBelow
  <2>3. \A f \in 0 .. e - 1 : h_exec[f] # [sign |-> h_exec[e].sign, nonce |-> m]
    BY <2>2
  <2> QED BY <2>1, <2>3 DEF Tried
<1>4. h_exec[e] \in Attempt /\ h_exec[e].sign \in Items
  BY <1>2, SlotTypes
<1> QED BY <1>1, <1>3, <1>4, FirstIsSigned

LEMMA CollectDirectStep ==
  ASSUME TypeOK, Core, CollectDirect
  PROVE  Core'
<1>1. /\ pc = "sync_direct" /\ pc' = "check" /\ stream = << >> /\ stream' = << >>
      /\ done' = [i \in Items |-> done[i] \/ Accepted(i)]
      /\ UNCHANGED <<accepts, nonce, h_exec, h_copy, mem, ran>>
  BY DEF CollectDirect, Synchronized
<1>2. InSync /\ ~InSync' /\ P = "sign"
  BY <1>1 DEF InSync, P
<1>3. \A e \in Execs :
        /\ h_done[e] <=> Accepts(h_exec[e])
        /\ h_done[e] => Holds(d_sig[h_exec[e].sign], h_exec[e])
  BY <1>1, <1>2, RoundOver DEF Work
<1>4. SlotsHold(Slots) /\ CountersAt(Slots) /\ DistinctBelow(Slots)
  BY <1>1, <1>2 DEF Core, Scheduled
<1>5. \A e \in Execs : h_done[e] => h_exec[e] = Signed(h_exec[e].sign)
  BY <1>1, DirectSigned
<1>6. Scheduled'
  <2>1. CountersAt(0)'
    BY <1>1, <1>3, <1>4, CountersKept DEF Accepted
  <2> QED BY <1>1, <1>2, <2>1 DEF Scheduled
<1>7. ASSUME NEW i \in Items, done'[i]
      PROVE  Holds(d_sig[i], Signed(i))
  <2>1. CASE done[i]
    BY <1>1, <2>1 DEF Core, SignedData, ToCopy, Running
  <2>2. CASE Accepted(i)
    <3>1. PICK e \in Execs : h_done[e] /\ h_exec[e].sign = i
      BY <2>2 DEF Accepted
    <3>2. h_exec[e] = Signed(i) /\ Holds(d_sig[i], h_exec[e])
      BY <1>3, <1>5, <3>1
    <3> QED BY <3>2
  <2> QED BY <1>1, <1>7, <2>1, <2>2
<1>8. SignedData'
  <2>1. ToCopy' = {} /\ ~Running("copylut")' /\ ~Running("copy")'
    BY <1>1 DEF ToCopy, Running
  <2>2. \A i \in Items : done'[i] => Holds(d_sig[i], Signed(i))'
    BY <1>1, <1>7 DEF Holds, Signed, FirstAccepted, mem
  <2> QED BY <2>1, <2>2 DEF SignedData
<1>9. StreamShape'
  BY <1>1, <1>2 DEF StreamShape, PreOps
<1>10. InputsReady'
  BY <1>1 DEF Core, InputsReady, Running, mem
<1> QED BY <1>1, <1>2, <1>6, <1>8, <1>9, <1>10
        DEF Core, RoundData, ScanData, Returned

LEMMA StartScanStep ==
  ASSUME TypeOK, Core, StartScan
  PROVE  Core'
<1>1. /\ pc = "sync_predict" /\ pc' = "scan" /\ stream = << >> /\ stream' = << >>
      /\ exec_idx' = 0 /\ h_copy' = {}
      /\ UNCHANGED <<accepts, done, nonce, h_exec, h_done, mem, ran>>
  BY DEF StartScan, Synchronized, lut
<1>2. InSync /\ ~InSync' /\ P = "temp"
  BY <1>1 DEF InSync, P
<1>3. \A e \in Execs :
        /\ h_done[e] <=> Accepts(h_exec[e])
        /\ h_done[e] => Holds(d_temp[e], h_exec[e])
  BY <1>1, <1>2, RoundOver DEF Work
<1>4. Scheduled'
  BY <1>1, <1>2
     DEF Core, Scheduled, SlotsHold, CountersAt, Tried, InSync
<1>5. SignedData'
  BY <1>1
     DEF Core, SignedData, ToCopy, Running, Holds, Signed, FirstAccepted, mem
<1>6. ScanData'
  BY <1>1, <1>3 DEF ScanData, Accepts, Holds, mem
<1> QED BY <1>1, <1>2, <1>4, <1>5, <1>6
        DEF Core, StreamShape, InputsReady, RoundData, Returned, Running, mem

\* The copy list takes the first accepted slot of each item.
LEMMA ScanSlotStep ==
  ASSUME TypeOK, Core, ScanSlot
  PROVE  Core'
<1>0. PICK x : x = exec_idx
  OBVIOUS
<1>1. /\ pc = "scan" /\ pc' = "scan" /\ stream = << >> /\ stream' = << >>
      /\ x \in Execs /\ x \in Nat /\ exec_idx = x /\ exec_idx' = x + 1
      /\ UNCHANGED <<accepts, done, nonce, h_exec, h_done, mem, ran>>
  BY <1>0, SlotsAssumption DEF ScanSlot, Core, StreamShape, TypeOK, Execs, lut
<1>2. SlotsHold(Slots) /\ CountersAt(Slots)
  BY <1>1 DEF Core, Scheduled
<1>3. Execs = 0 .. Slots - 1 /\ Slots \in Nat
  BY SlotsAssumption DEF Execs
<1>4. /\ h_copy' = IF h_done[x] THEN Listing(x) ELSE h_copy
      /\ h_copy \subseteq Execs \X (0 .. IdxCap - 1)
  BY <1>1 DEF ScanSlot, TypeOK
<1>5. /\ \A c \in h_copy :
           /\ c[1] < x /\ h_done[c[1]] /\ c[2] = h_exec[c[1]].sign
           /\ \A f \in 0 .. c[1] - 1 : h_done[f] => h_exec[f].sign # c[2]
      /\ \A e \in 0 .. x - 1 :
           h_done[e] => \E c \in h_copy : c[2] = h_exec[e].sign
  BY <1>1 DEF Core, ScanData
<1>6. \A c \in h_copy : c[1] \in Nat
  BY <1>3, <1>4
<1>7. /\ \A c \in h_copy' :
           /\ c[1] < x + 1 /\ h_done[c[1]] /\ c[2] = h_exec[c[1]].sign
           /\ \A f \in 0 .. c[1] - 1 : h_done[f] => h_exec[f].sign # c[2]
      /\ \A e \in 0 .. x :
           h_done[e] => \E c \in h_copy' : c[2] = h_exec[e].sign
  <2>1. CASE ~h_done[x]
    BY <1>1, <1>4, <1>5, <1>6, <2>1
  <2>2. CASE h_done[x] /\ \E c \in h_copy : c[2] = h_exec[x].sign
    BY <1>1, <1>4, <1>5, <1>6, <2>2 DEF Listing
  <2>3. CASE h_done[x] /\ ~ \E c \in h_copy : c[2] = h_exec[x].sign
    <3> DEFINE b == <<x, h_exec[x].sign>>
    <3>1. h_copy' = h_copy \cup {b}
      BY <1>4, <2>3 DEF Listing
    <3>2. \A f \in 0 .. x - 1 : h_done[f] => h_exec[f].sign # h_exec[x].sign
      BY <1>5, <2>3
    <3>3. ASSUME NEW c \in h_copy'
          PROVE  /\ c[1] < x + 1 /\ h_done[c[1]] /\ c[2] = h_exec[c[1]].sign
                 /\ \A f \in 0 .. c[1] - 1 : h_done[f] => h_exec[f].sign # c[2]
      <4>1. CASE c \in h_copy
        BY <1>1, <1>5, <1>6, <4>1
      <4>2. CASE c = b
        BY <1>1, <2>3, <3>2, <4>2
      <4> QED BY <3>1, <4>1, <4>2
    <3>4. ASSUME NEW e \in 0 .. x, h_done[e]
          PROVE  \E c \in h_copy' : c[2] = h_exec[e].sign
      <4>1. CASE e = x
        <5>1. b \in h_copy' /\ b[2] = h_exec[x].sign
          BY <3>1
        <5> HIDE DEF b
        <5> QED BY <4>1, <5>1, Zenon
      <4>2. CASE e # x
        <5>1. e \in 0 .. x - 1
          BY <1>1, <4>2
        <5> QED BY <1>5, <3>1, <3>4, <5>1
      <4> QED BY <4>1, <4>2
    <3> QED BY <3>3, <3>4
  <2> QED BY <2>1, <2>2, <2>3
<1>8. ScanData'
  <2>1. \A e \in Execs :
          /\ (h_done[e] <=> Accepts(h_exec[e]))'
          /\ (h_done[e] => Holds(d_temp[e], h_exec[e]))'
    BY <1>1 DEF Core, ScanData, Accepts, Holds, mem
  <2>2. x + 1 - 1 = x
    BY <1>1
  <2> QED BY <1>1, <1>7, <2>1, <2>2 DEF ScanData
<1>9. ~InSync /\ ~InSync'
  BY <1>1 DEF InSync
<1>10. Scheduled'
  BY <1>1, <1>9
     DEF Core, Scheduled, SlotsHold, CountersAt, Tried
<1>11. SignedData'
  BY <1>1
     DEF Core, SignedData, ToCopy, Running, Holds, Signed, FirstAccepted, mem
<1> QED BY <1>1, <1>8, <1>9, <1>10, <1>11
        DEF Core, StreamShape, InputsReady, RoundData, Returned, Running, mem

\* At the end of the scan the list has one entry for each accepted item.
LEMMA ScanOver ==
  ASSUME TypeOK, Core, pc = "scan", exec_idx = Slots
  PROVE  /\ SlotsHold(Slots) /\ CountersAt(Slots)
         /\ \A e \in Execs : h_done[e] <=> Accepts(h_exec[e])
         /\ \A e \in Execs : h_done[e] => \E c \in h_copy : c[2] = h_exec[e].sign
         /\ Functional(h_copy)
         /\ \A c \in h_copy : c[2] \in Items /\ Holds(d_temp[c[1]], Signed(c[2]))
         /\ \A c \in h_copy : Accepts(Signed(c[2]))
<1>1. SlotsHold(Slots) /\ CountersAt(Slots)
  BY DEF Core, Scheduled
<1>2. Execs = 0 .. Slots - 1 /\ Slots \in Nat
  BY <1>1, SlotTypes
<1>3. /\ \A e \in Execs :
           /\ h_done[e] <=> Accepts(h_exec[e])
           /\ h_done[e] => Holds(d_temp[e], h_exec[e])
      /\ \A c \in h_copy :
           /\ h_done[c[1]] /\ c[2] = h_exec[c[1]].sign
           /\ \A f \in 0 .. c[1] - 1 : h_done[f] => h_exec[f].sign # c[2]
      /\ \A e \in Execs : h_done[e] => \E c \in h_copy : c[2] = h_exec[e].sign
  BY <1>2 DEF Core, ScanData
<1>4. \A c \in h_copy : c = <<c[1], c[2]>> /\ c[1] \in Execs
  BY DEF TypeOK
<1>5. ASSUME NEW b \in h_copy, NEW c \in h_copy, b[1] = c[1] \/ b[2] = c[2]
      PROVE  b = c
  <2>1. b[1] \in Execs /\ c[1] \in Execs
    BY <1>4
  <2>2. CASE b[1] = c[1]
    BY <1>3, <1>4, <2>2
  <2>3. CASE b[2] = c[2]
    <3>1. ~(b[1] < c[1])
      BY <1>2, <1>3, <2>1, <2>3
    <3>2. ~(c[1] < b[1])
      BY <1>2, <1>3, <2>1, <2>3
    <3>3. b[1] = c[1]
      BY <1>2, <2>1, <3>1, <3>2
    <3> QED BY <1>4, <2>3, <3>3
  <2> QED BY <1>5, <2>2, <2>3
<1>6. ASSUME NEW c \in h_copy
      PROVE  /\ c[2] \in Items /\ Holds(d_temp[c[1]], Signed(c[2]))
             /\ Accepts(Signed(c[2]))
  <2>1. PICK e \in Execs : e = c[1]
    BY <1>4
  <2>2. /\ h_exec[e] \in Attempt /\ h_exec[e].nonce \in Nat
        /\ h_exec[e].sign \in Items /\ c[2] = h_exec[e].sign
        /\ \A m \in 0 .. h_exec[e].nonce - 1 : Tried(h_exec[e].sign, m, e)
        /\ Accepts(h_exec[e]) /\ Holds(d_temp[e], h_exec[e])
    BY <1>1, <1>3, <2>1, SlotTypes
  <2>3. ASSUME NEW m \in 0 .. h_exec[e].nonce - 1
        PROVE  m \notin accepts[h_exec[e].sign]
    <3>1. Tried(h_exec[e].sign, m, e)
      BY <2>2
    <3>2. ASSUME NEW f \in 0 .. e - 1,
                 h_exec[f] = [sign |-> h_exec[e].sign, nonce |-> m]
          PROVE  m \notin accepts[h_exec[e].sign]
      <4>1. f \in Execs /\ h_exec[f].sign = c[2] /\ h_exec[f].nonce = m
        BY <1>2, <2>2, <3>2
      <4>2. ~h_done[f]
        BY <1>3, <2>1, <4>1
      <4> QED BY <1>3, <2>2, <4>1, <4>2 DEF Accepts
    <3> QED BY <3>1, <3>2 DEF Tried
  <2>4. h_exec[e] = Signed(h_exec[e].sign)
    BY <2>2, <2>3, FirstIsSigned
  <2> QED BY <2>1, <2>2, <2>4
<1>7. Functional(h_copy)
  BY <1>5 DEF Functional
<1> QED BY <1>1, <1>3, <1>6, <1>7

LEMMA CollectPredictStep ==
  ASSUME TypeOK, Core, gpu = "ok", CollectPredict
  PROVE  Core'
<1>1. /\ pc = "scan" /\ pc' = "check" /\ stream = << >> /\ exec_idx = Slots
      /\ done' = [i \in Items |-> done[i] \/ \E c \in h_copy : c[2] = i]
      /\ UNCHANGED <<accepts, nonce, h_exec, h_copy, mem, ran>>
      /\ Issue(CopyOut)
  BY DEF CollectPredict, Core, StreamShape
<1>2. /\ SlotsHold(Slots) /\ CountersAt(Slots)
      /\ \A e \in Execs : h_done[e] <=> Accepts(h_exec[e])
      /\ \A e \in Execs : h_done[e] => \E c \in h_copy : c[2] = h_exec[e].sign
      /\ Functional(h_copy)
      /\ \A c \in h_copy : c[2] \in Items /\ Holds(d_temp[c[1]], Signed(c[2]))
  BY <1>1, ScanOver
<1>3. stream' = CopyOut
  BY <1>1 DEF Issue, CopyOut
<1>4. Running("copylut")' /\ ~Running("copy")' /\ ToCopy' = h_copy
  BY <1>1, <1>3 DEF Running, CopyOut, Do, ToCopy
<1>5. ~InSync'
  BY <1>1 DEF InSync
<1>6. CountersAt(0)'
  BY <1>1, <1>2, CountersKept
<1>7. Scheduled'
  BY <1>1, <1>5, <1>6 DEF Scheduled
<1>8. \A i \in Items : done[i] => Holds(d_sig[i], Signed(i))
  BY <1>1 DEF Core, SignedData, ToCopy, Running
<1>9. \A i \in Items : Signed(i)' = Signed(i)
  BY <1>1 DEF Signed, FirstAccepted
<1>10. SignedData'
  <2>1. Functional(h_copy)'
    BY <1>1, <1>2 DEF Functional
  <2>2. \A c \in ToCopy' : c[2] \in Items /\ Holds(d_temp[c[1]], Signed(c[2]))'
    BY <1>1, <1>2, <1>4, <1>9 DEF Holds, mem
  <2>3. \A i \in Items : done'[i] =>
          Holds(d_sig[i], Signed(i))' \/ \E c \in ToCopy' : c[2] = i
    BY <1>1, <1>4, <1>8, <1>9 DEF Holds, mem
  <2> QED BY <1>4, <2>1, <2>2, <2>3 DEF SignedData
<1>11. StreamShape'
  BY <1>1, <1>3, <1>5 DEF StreamShape, PreOps
<1>12. InputsReady'
  BY <1>1 DEF Core, InputsReady, Running, mem
<1> QED BY <1>1, <1>5, <1>7, <1>10, <1>11, <1>12
        DEF Core, RoundData, ScanData, Returned

\* Back to the top of the loop, with an empty round.
LEMMA LoopRest ==
  ASSUME TypeOK, Core, pc \in {"scan", "check"}, pc' = "fill",
         sign_idx' = 0, exec_idx' = 0, CountersAt(0),
         UNCHANGED <<accepts, done, nonce, h_exec, h_copy, stream, ran, mem>>
  PROVE  Core'
<1>1. ~InSync' /\ stream \in PreOps
  BY DEF InSync, Core, StreamShape, PreOps
<1>2. StreamShape'
  BY <1>1 DEF StreamShape
<1>3. Scheduled'
  BY <1>1 DEF Scheduled, SlotsHold, CountersAt, Tried, DistinctBelow
<1>4. SignedData'
  BY SignedSame DEF Core, mem, Running
<1> QED BY <1>1, <1>2, <1>3, <1>4
        DEF Core, InputsReady, RoundData, ScanData, Returned, Running, mem

LEMMA NothingAcceptedStep ==
  ASSUME TypeOK, Core, NothingAccepted
  PROVE  Core'
<1>1. /\ pc = "scan" /\ pc' = "fill" /\ exec_idx = Slots /\ h_copy = {}
      /\ sign_idx' = 0 /\ exec_idx' = 0
      /\ UNCHANGED <<accepts, done, nonce, h_exec, h_copy, stream, ran, mem>>
  BY DEF NothingAccepted, lut
<1>2. \A e \in Execs : ~h_done[e] /\ (h_done[e] <=> Accepts(h_exec[e]))
  BY <1>1, ScanOver
<1>3. SlotsHold(Slots) /\ CountersAt(Slots)
  BY <1>1, ScanOver
<1>4. CountersAt(0)
  <2>1. CountersAt(0)'
    BY <1>1, <1>2, <1>3, CountersKept
  <2> QED BY <1>1, <2>1 DEF CountersAt, Tried
<1> QED BY <1>1, <1>4, LoopRest

LEMMA AnotherRoundStep ==
  ASSUME TypeOK, Core, AnotherRound
  PROVE  Core'
<1>1. CountersAt(0)
  BY DEF AnotherRound, Core, Scheduled
<1> QED BY <1>1, LoopRest DEF AnotherRound, lut

LEMMA ReturnStep ==
  ASSUME TypeOK, Core, gpu = "ok", Return
  PROVE  Core'
<1>1. /\ pc = "check" /\ pc' = "returned" /\ \A i \in Items : done[i]
      /\ UNCHANGED <<accepts, done, h_copy, mem, ran>>
      /\ stream \in PreOps
  BY DEF Return, lut, Core, StreamShape
<1>2. PICK ops : ops = <<Do("out", "sign")>>
  OBVIOUS
<1>3. /\ ops \in Seq(Op) /\ ops # << >>
      /\ Head(ops).op \notin {"prep", "copylut", "copy"}
  BY <1>2, OutOp, OpsTyped
<1>4. /\ stream' = stream \o ops /\ stream' # << >>
      /\ Running("prep")' <=> Running("prep")
      /\ Running("copylut")' <=> Running("copylut")
      /\ Running("copy")' <=> Running("copy")
  BY <1>2, <1>3, IssueRunning DEF Return
<1>5. ~InSync'
  BY <1>1 DEF InSync
<1>6. StreamShape'
  BY <1>1, <1>2, <1>4, <1>5 DEF StreamShape
<1>7. SignedData'
  BY <1>1, <1>4, SignedSame DEF Core, mem
<1> QED BY <1>1, <1>4, <1>5, <1>6, <1>7
        DEF Core, InputsReady, Scheduled, RoundData, ScanData, Returned, mem

LEMMA DeviceSynchronizeStep ==
  ASSUME TypeOK, Core, DeviceSynchronize
  PROVE  Core'
<1>1. /\ pc = "returned" /\ pc' = "end" /\ stream = << >> /\ stream' = << >>
      /\ UNCHANGED <<accepts, done, h_copy, mem, ran, out>>
  BY DEF DeviceSynchronize, Synchronized, lut
<1>2. ~InSync'
  BY <1>1 DEF InSync
<1>3. StreamShape' /\ Scheduled'
  BY <1>1, <1>2 DEF StreamShape, Scheduled
<1>4. SignedData'
  BY <1>1, SignedSame DEF Core, mem, Running
<1>5. Returned'
  BY <1>1 DEF Core, Returned, Holds, Signed, FirstAccepted
<1> QED BY <1>1, <1>2, <1>3, <1>4, <1>5
        DEF Core, InputsReady, RoundData, ScanData, Running, mem

LEMMA HostCore ==
  ASSUME TypeOK, Core, gpu = "ok", Batch <= IdxCap, HostStep
  PROVE  Core'
BY StartStep, TakeItemStep, SkipItemStep, PredictMoreStep, LaunchDirectStep,
   LaunchPredictStep, CollectDirectStep, StartScanStep, ScanSlotStep,
   CollectPredictStep, NothingAcceptedStep, AnotherRoundStep, ReturnStep,
   DeviceSynchronizeStep DEF HostStep

-----------------------------------------------------------------------------
(* The invariant.                                                          *)

LEMMA CoreInit ==
  ASSUME Init
  PROVE  Core
<1>1. pc = "start" /\ stream = << >> /\ sign_idx = 0 /\ exec_idx = 0
  BY DEF Init
<1>2. ~InSync /\ ~Running("copylut") /\ ~Running("copy") /\ ToCopy = {}
  BY <1>1 DEF InSync, Running, ToCopy
<1> QED BY <1>1, <1>2 DEF Core, StreamShape, InputsReady, Scheduled, RoundData,
                          ScanData, SignedData, Returned

LEMMA CoreStutter ==
  ASSUME Core, UNCHANGED vars
  PROVE  Core'
<1>1. /\ At' = At /\ ToCopy' = ToCopy
      /\ \A x \in {"prep", "copylut", "copy"} : Running(x)' <=> Running(x)
  BY DEF vars, At, ToCopy, Running
<1>2. StreamShape' /\ InputsReady' /\ Scheduled'
  BY <1>1 DEF vars, Core, StreamShape, InputsReady, Scheduled, InSync, P,
     SlotsHold, CountersAt, DistinctBelow, Tried, Running
<1>3. RoundData'
  BY <1>1 DEF vars, Core, RoundData, InSync, P, Ran, Work, Accepts
<1>4. ScanData'
  BY DEF vars, Core, ScanData, Accepts, Holds
<1>5. SignedData' /\ Returned'
  BY <1>1 DEF vars, Core, SignedData, Returned, Functional, Holds, Signed, FirstAccepted
<1> QED BY <1>2, <1>3, <1>4, <1>5 DEF Core

LEMMA IInvStep ==
  ASSUME Batch <= IdxCap, IInv, [Next]_vars
  PROVE  IInv'
<1>1. TypeOK /\ TypeOK'
  BY TypeStep DEF IInv
<1>2. CASE HostStep
  <2>1. gpu' = gpu
    BY <1>2 DEF HostStep, Start, TakeItem, SkipItem, PredictMore, LaunchDirect,
       LaunchPredict, CollectDirect, StartScan, ScanSlot, CollectPredict,
       NothingAccepted, AnotherRound, Return, DeviceSynchronize
  <2>2. gpu' = "ok" => Core'
    BY <1>1, <1>2, <2>1, HostCore DEF IInv
  <2>3. result' = "ok" => gpu' = "ok" /\ pc' = "end"
    BY <1>2, <2>1
    DEF IInv, HostStep, Start, TakeItem, SkipItem, PredictMore, LaunchDirect,
       LaunchPredict, CollectDirect, StartScan, ScanSlot, CollectPredict,
       NothingAccepted, AnotherRound, Return, DeviceSynchronize, SyncResult, Filling
  <2> QED BY <1>1, <2>2, <2>3 DEF IInv
<1>3. CASE GpuStep
  <2>1. gpu' = gpu /\ UNCHANGED host
    BY <1>3 DEF GpuStep, Prepare, UploadExec, ClearDone, YBlock, WBlock, CpBlock,
         ComputeBlock, RejBlock, DownloadDone, UploadCopy, CopyBlock, DownloadSig
  <2>2. gpu' = "ok" => Core'
    BY <1>1, <1>3, <2>1, GpuCore DEF IInv
  <2> QED BY <1>1, <2>1, <2>2 DEF IInv, host
<1>4. CASE LoseGpu
  <2>1. pc # "end"
    BY <1>4 DEF LoseGpu, IInv, Core, StreamShape
  <2> QED BY <1>1, <1>4, <2>1 DEF LoseGpu, IInv, host
<1>5. CASE UNCHANGED vars
  <2>1. gpu' = gpu /\ result' = result /\ pc' = pc
    BY <1>5 DEF vars
  <2> QED BY <1>1, <1>5, <2>1, CoreStutter DEF IInv
<1> QED BY <1>2, <1>3, <1>4, <1>5 DEF Next, Terminated

\* The inductive invariant, for every batch that fits the packed item index.
THEOREM Invariant ==
  ASSUME Batch <= IdxCap
  PROVE  Spec => []IInv
<1>1. Init => IInv
  BY TypeInit, CoreInit DEF IInv, Init
<1>2. IInv /\ [Next]_vars => IInv'
  BY IInvStep
<1> QED BY <1>1, <1>2, PTL DEF Spec

\* When the wrapper returns 0 the caller has, for every item, the whole
\* signature of the first accepted nonce: what ReturnedSignatures says of
\* crypto_sign_signature and SIGN_BATCH.
THEOREM ReturnedSignaturesCorrect ==
  ASSUME Batch <= IdxCap
  PROVE  Spec => []ReturnedSignatures
<1>1. IInv => ReturnedSignatures
  BY DEF IInv, Core, StreamShape, Returned, ReturnedSignatures
<1> QED BY <1>1, Invariant, PTL

\* Blocks of one launch never share a cell.
LEMMA NoConflictWhileOk ==
  ASSUME IInv, gpu = "ok"
  PROVE  NoWriteConflict
<1>1. TypeOK /\ Core
  BY DEF IInv
<1>2. ASSUME NEW e \in Execs, NEW f \in Execs, e # f, stream # << >>,
             Head(stream).op \in Kernels, Head(stream).pool = "sign"
      PROVE  d_exec[e].sign # d_exec[f].sign
  <2>1. InSync /\ At >= 3
    BY <1>1, <1>2, Stage DEF Core, Kernels
  <2>2. Head(stream).pool = P /\ d_exec = h_exec
    <3>1. At >= 1 /\ At >= 2
      BY <2>1, AtInt, <1>1
    <3>2. Head(stream).pool = P
      BY <1>1, <1>2, <2>1, <3>1, Stage, Zenon DEF Core
    <3>3. d_exec = h_exec
      BY <1>1, <2>1, <3>1, Zenon DEF Core, RoundData
    <3> QED BY <3>2, <3>3
  <2>3. DistinctBelow(Slots)
    BY <1>1, <1>2, <2>1, <2>2 DEF Core, Scheduled, P
  <2>4. Execs = 0 .. Slots - 1 /\ Slots \in Nat
    BY SlotsAssumption DEF Execs
  <2> QED BY <1>2, <2>2, <2>3, <2>4 DEF DistinctBelow
<1>3. Running("copy") => \A b, c \in d_copy : b[2] = c[2] => b = c
  BY <1>1 DEF Core, SignedData, Functional
<1> QED BY <1>2, <1>3 DEF NoWriteConflict

\* A signed item keeps one whole signature: SignedItemsIntact.
THEOREM SignedItemsIntactCorrect ==
  ASSUME Batch <= IdxCap
  PROVE  Spec => []SignedItemsIntact
<1>1. ASSUME IInv PROVE SignedItemsIntact
  <2> SUFFICES ASSUME NEW i \in Items, gpu = "ok", pc # "start", done[i],
                      ~Pending("copylut"), ~Pending("copy")
               PROVE  Holds(d_sig[i], Signed(i))
    BY DEF SignedItemsIntact
  <2>1. Core /\ stream \in Seq(Op)
    BY <1>1 DEF IInv, TypeOK
  <2>2. \A x \in {"copylut", "copy"} : Running(x) => Pending(x)
    BY <2>1 DEF Running, Pending
  <2>3. ToCopy = {}
    BY <2>2 DEF ToCopy
  <2> QED BY <2>1, <2>3 DEF Core, SignedData
<1> QED BY <1>1, Invariant, PTL

\* Speculation skips no nonce: NoNonceSkipped, at the top of each round.
THEOREM NoNonceSkippedCorrect ==
  ASSUME Batch <= IdxCap
  PROVE  Spec => []NoNonceSkipped
<1>1. ASSUME IInv PROVE NoNonceSkipped
  <2> SUFFICES ASSUME NEW i \in Items, gpu = "ok", ~done[i],
                      pc = "check" \/ (pc = "fill" /\ exec_idx = 0),
                      NEW n \in 0 .. nonce[i] - 1
               PROVE  n \notin accepts[i]
    BY DEF NoNonceSkipped
  <2>1. CountersAt(0)
    BY <1>1 DEF IInv, Core, Scheduled
  <2> QED BY <2>1 DEF CountersAt, Tried
<1> QED BY <1>1, Invariant, PTL

-----------------------------------------------------------------------------
(***************************************************************************)
(* SignBatch implements the sequential signer of BatchSigner, for every    *)
(* batch that fits the packed item index; and the host never disturbs a    *)
(* pinned buffer that a pending transfer still needs.                      *)
(***************************************************************************)
\* What the refinement needs besides IInv: a lost GPU runs nothing, the
\* answer comes last, and a signed item has an accepted nonce.
AcceptedOnce ==
  gpu = "ok" /\ pc # "start" =>
    \A i \in Items : done[i] => FirstAccepted(i) \in accepts[i]

RInv ==
  /\ IInv
  /\ gpu = "lost" => stream = << >>
  /\ pc # "end" => result = "none"
  /\ AcceptedOnce

LEMMA RInvInit == Init => RInv
<1> SUFFICES ASSUME Init PROVE RInv
  OBVIOUS
<1>1. IInv
  BY TypeInit, CoreInit DEF IInv, Init
<1> QED BY <1>1 DEF RInv, AcceptedOnce, Init

\* Items are only marked after an accepted attempt of theirs.
LEMMA AcceptedStep ==
  ASSUME RInv, [Next]_vars
  PROVE  AcceptedOnce'
<1>1. TypeOK /\ (gpu = "ok" => Core)
  BY DEF RInv, IInv
<1>2. CASE CollectDirect
  <2>1. /\ pc = "sync_direct" /\ stream = << >> /\ accepts' = accepts /\ gpu' = gpu
        /\ done' = [i \in Items |-> done[i] \/ Accepted(i)]
    BY <1>2 DEF CollectDirect, Synchronized
  <2>2. ASSUME gpu = "ok", NEW i \in Items, Accepted(i)
        PROVE  FirstAccepted(i) \in accepts[i]
    <3>1. PICK e \in Execs : h_done[e] /\ h_exec[e].sign = i
      BY <2>2 DEF Accepted
    <3>2. h_exec[e] = Signed(i) /\ Accepts(h_exec[e])
      BY <1>1, <2>1, <2>2, <3>1, DirectSigned
    <3> QED BY <3>2 DEF Signed, Accepts
  <2> QED BY <2>1, <2>2 DEF RInv, AcceptedOnce, FirstAccepted
<1>3. CASE CollectPredict
  <2>1. /\ pc = "scan" /\ exec_idx = Slots /\ accepts' = accepts /\ gpu' = gpu
        /\ done' = [i \in Items |-> done[i] \/ \E c \in h_copy : c[2] = i]
    BY <1>3 DEF CollectPredict
  <2>2. ASSUME gpu = "ok", NEW i \in Items, NEW c \in h_copy, c[2] = i
        PROVE  FirstAccepted(i) \in accepts[i]
    <3>1. Accepts(Signed(i))
      BY <1>1, <2>1, <2>2, ScanOver
    <3> QED BY <3>1 DEF Signed, Accepts
  <2> QED BY <2>1, <2>2 DEF RInv, AcceptedOnce, FirstAccepted
<1>4. CASE Start
  BY <1>4 DEF Start, AcceptedOnce
<1>5. CASE ~CollectDirect /\ ~CollectPredict /\ ~Start
  <2>1. done' = done /\ accepts' = accepts /\ (gpu' = gpu \/ gpu' = "lost")
    BY <1>5 DEF Next, HostStep, TakeItem, SkipItem, PredictMore, LaunchDirect,
       LaunchPredict, StartScan, ScanSlot, NothingAccepted, AnotherRound, Return,
       DeviceSynchronize, GpuStep, Prepare, UploadExec, ClearDone, YBlock, WBlock,
       CpBlock, ComputeBlock, RejBlock, DownloadDone, UploadCopy, CopyBlock,
       DownloadSig, LoseGpu, Terminated, vars, host, lut
  <2>2. pc = "start" => pc' = "start"
    BY <1>5 DEF Next, HostStep, TakeItem, SkipItem, PredictMore, LaunchDirect,
       LaunchPredict, StartScan, ScanSlot, NothingAccepted, AnotherRound, Return,
       DeviceSynchronize, GpuStep, Prepare, UploadExec, ClearDone, YBlock, WBlock,
       CpBlock, ComputeBlock, RejBlock, DownloadDone, UploadCopy, CopyBlock,
       DownloadSig, LoseGpu, Terminated, vars, host, Filling
  <2> QED BY <2>1, <2>2 DEF RInv, AcceptedOnce, FirstAccepted
<1> QED BY <1>2, <1>3, <1>4, <1>5

LEMMA RInvStep ==
  ASSUME Batch <= IdxCap, RInv, [Next]_vars
  PROVE  RInv'
<1>1. IInv'
  BY IInvStep DEF RInv
<1>2. gpu' = "lost" => stream' = << >>
  <2>1. CASE HostStep
    BY <2>1 DEF RInv, HostStep, Start, TakeItem, SkipItem, PredictMore, LaunchDirect,
       LaunchPredict, CollectDirect, StartScan, ScanSlot, CollectPredict,
       NothingAccepted, AnotherRound, Return, DeviceSynchronize, Issue
  <2>2. CASE GpuStep
    BY <2>2 DEF RInv, GpuStep, Prepare, UploadExec, ClearDone, YBlock, WBlock,
         CpBlock, ComputeBlock, RejBlock, DownloadDone, UploadCopy, CopyBlock,
         DownloadSig, Running
  <2>3. CASE LoseGpu
    BY <2>3 DEF LoseGpu
  <2>4. CASE UNCHANGED vars
    BY <2>4 DEF RInv, vars
  <2> QED BY <2>1, <2>2, <2>3, <2>4 DEF Next, Terminated
<1>3. pc' # "end" => result' = "none"
  BY DEF RInv, Next, HostStep, Start, TakeItem, SkipItem, PredictMore, LaunchDirect,
       LaunchPredict, CollectDirect, StartScan, ScanSlot, CollectPredict,
       NothingAccepted, AnotherRound, Return, DeviceSynchronize, Filling,
       GpuStep, Prepare, UploadExec, ClearDone, YBlock, WBlock,
       CpBlock, ComputeBlock, RejBlock, DownloadDone, UploadCopy, CopyBlock,
       DownloadSig, LoseGpu, Terminated, vars, host
<1> QED BY <1>1, <1>2, <1>3, AcceptedStep DEF RInv

\* The full invariant.
THEOREM FullInvariant ==
  ASSUME Batch <= IdxCap
  PROVE  Spec => []RInv
<1>1. RInv /\ [Next]_vars => RInv'
  BY RInvStep
<1> QED BY <1>1, RInvInit, PTL DEF Spec

\* Blocks of one launch never write to the same cell: NoWriteConflict.
THEOREM NoWriteConflictCorrect ==
  ASSUME Batch <= IdxCap
  PROVE  Spec => []NoWriteConflict
<1>1. ASSUME RInv PROVE NoWriteConflict
  <2>1. CASE gpu = "ok"
    BY <1>1, <2>1, NoConflictWhileOk DEF RInv
  <2>2. CASE gpu # "ok"
    <3>1. stream = << >>
      BY <1>1, <2>2 DEF RInv, IInv, TypeOK
    <3> QED BY <3>1 DEF NoWriteConflict, Running
  <2> QED BY <2>1, <2>2
<1> QED BY <1>1, FullInvariant, PTL

-----------------------------------------------------------------------------
(* The pinned host buffers.                                                *)

\* What cannot be pending at the control points where buffers change.
LEMMA NothingPending ==
  ASSUME TypeOK, StreamShape
  PROVE  /\ pc \in {"start", "scan", "end"} => \A x : ~Pending(x)
         /\ pc \in {"fill", "predict"} => ~Pending("exec")
<1>1. pc \in {"start", "scan", "end"} => \A x : ~Pending(x)
  BY DEF StreamShape, Pending
<1>2. ASSUME stream \in PreOps PROVE ~Pending("exec")
  BY <1>2 DEF PreOps, Pending, CopyOut, Do
<1> QED BY <1>1, <1>2 DEF StreamShape

\* The host leaves h_exec_lut, h_copy_lut and h_done_lut alone while a
\* transfer from or to them is pending: PinnedBuffersStable.
THEOREM PinnedBuffersStableCorrect ==
  ASSUME Batch <= IdxCap
  PROVE  Spec => PinnedBuffersStable
<1>1. ASSUME RInv, [Next]_vars
      PROVE  /\ Pending("exec") => h_exec' = h_exec
             /\ Pending("copylut") => h_copy' = h_copy
             /\ Pending("fetch") => done' = done
  <2>1. CASE stream = << >>
    BY <2>1 DEF Pending
  <2>2. CASE stream # << >>
    <3>1. TypeOK /\ StreamShape /\ gpu = "ok"
      BY <1>1, <2>2 DEF RInv, IInv, Core, TypeOK
    <3>2. Pending("exec") => h_exec' = h_exec
      <4>1. TakeItem => ~Pending("exec")
        BY <3>1, NothingPending DEF TakeItem, Filling
      <4>2. ~TakeItem => h_exec' = h_exec
        BY <1>1 DEF Next, HostStep, Start, SkipItem, PredictMore, LaunchDirect,
           LaunchPredict, CollectDirect, StartScan, ScanSlot, CollectPredict,
           NothingAccepted, AnotherRound, Return, DeviceSynchronize,
           GpuStep, Prepare, UploadExec, ClearDone, YBlock, WBlock,
           CpBlock, ComputeBlock, RejBlock, DownloadDone, UploadCopy, CopyBlock,
           DownloadSig, LoseGpu, Terminated, vars, host
      <4> QED BY <4>1, <4>2
    <3>3. pc # "start" /\ pc # "scan"
      BY <2>2, <3>1 DEF StreamShape
    <3>4. ~Start /\ ~StartScan /\ ~ScanSlot /\ ~CollectDirect /\ ~CollectPredict
      BY <2>2, <3>3 DEF Start, StartScan, ScanSlot, CollectDirect, CollectPredict,
         Synchronized
    <3>5. h_copy' = h_copy /\ done' = done
      BY <1>1, <3>4 DEF Next, HostStep, TakeItem, SkipItem, PredictMore, LaunchDirect,
         LaunchPredict, NothingAccepted, AnotherRound, Return, DeviceSynchronize,
         GpuStep, Prepare, UploadExec, ClearDone, YBlock, WBlock,
         CpBlock, ComputeBlock, RejBlock, DownloadDone, UploadCopy, CopyBlock,
         DownloadSig, LoseGpu, Terminated, vars, host, lut
    <3> QED BY <3>2, <3>5
  <2> QED BY <2>1, <2>2
<1> QED BY <1>1, FullInvariant, PTL DEF Spec, PinnedBuffersStable

-----------------------------------------------------------------------------
(* The refinement.                                                         *)

\* The output buffer as the sequential signer sees it.
Delivered ==
  [i \in Items |-> IF Holds(out[i], out[i].seed) /\ out[i].seed \in Attempt
                     THEN out[i].seed.nonce ELSE None]

LEMMA SignedIsAttempt ==
  ASSUME TypeOK, Batch <= IdxCap, NEW i \in Items, FirstAccepted(i) \in accepts[i]
  PROVE  Signed(i) \in Attempt
<1>1. FirstAccepted(i) \in Nonces
  BY DEF TypeOK
<1>2. i \in 0 .. IdxCap - 1
  BY BatchAssumption, IdxCapAssumption DEF Items
<1> QED BY <1>1, <1>2 DEF Signed, Attempt

\* A whole signature of item i is seen as its nonce.
LEMMA DeliveredNonce ==
  ASSUME NEW c, NEW i \in Items, Signed(i) \in Attempt, Holds(c, Signed(i))
  PROVE  (IF Holds(c, c.seed) /\ c.seed \in Attempt THEN c.seed.nonce ELSE None)
           = FirstAccepted(i)
BY DEF Holds, Signed

\* Every run of the batch signer is a run of the sequential signer:
\* ImplementsReference.
THEOREM Refinement ==
  ASSUME Batch <= IdxCap
  PROVE  Spec => ImplementsReference
<1>1. Init => Reference!Init
  <2> SUFFICES ASSUME Init PROVE Reference!Init
    OBVIOUS
  <2>1. \A i \in Items : out[i].seed = None
    BY DEF Init, EmptyCell
  <2>2. \A i \in Items : ~(out[i].seed \in Attempt)
    BY <2>1, MarksAssumption
  <2> QED BY <2>2 DEF Init, Reference!Init
<1>2. ASSUME RInv, [Next]_vars
      PROVE  [Reference!Next]_(Reference!vars)
  <2>1. CASE DownloadSig
    <3>1. gpu = "ok" /\ TypeOK /\ Core /\ Head(stream).op = "out" /\ stream # << >>
      BY <1>2, <2>1 DEF RInv, IInv, DownloadSig, Running, TypeOK
    <3>2. pc = "returned"
      BY <3>1, Position, Zenon DEF Core
    <3>3. ToCopy = {} /\ \A i \in Items : done[i]
      BY <3>1, <3>2 DEF ToCopy, Running, Core, Returned
    <3>4. \A i \in Items : Holds(d_sig[i], Signed(i)) /\ FirstAccepted(i) \in accepts[i]
      BY <1>2, <3>1, <3>2, <3>3 DEF Core, SignedData, RInv, AcceptedOnce
    <3>5. \A i \in Items : Signed(i) \in Attempt
      BY <3>1, <3>4, SignedIsAttempt
    <3>6. out' = d_sig /\ accepts' = accepts /\ result' = result /\ result = "none"
      BY <1>2, <2>1, <3>2 DEF DownloadSig, RInv, host
    <3>7. \A i \in Items :
            (IF Holds(d_sig[i], d_sig[i].seed) /\ d_sig[i].seed \in Attempt
               THEN d_sig[i].seed.nonce ELSE None) = FirstAccepted(i)
      BY <3>4, <3>5, DeliveredNonce
    <3>8. Delivered' = [i \in Items |-> FirstAccepted(i)]
      BY <3>6, <3>7 DEF Delivered, Holds
    <3>9. Reference!Deliver
      BY <3>6, <3>8 DEF Reference!Deliver, Delivered, FirstAccepted, Reference!FirstAccepted
    <3> QED BY <3>9 DEF Reference!Next
  <2>2. CASE DeviceSynchronize
    <3>1. /\ pc = "returned" /\ stream = << >> /\ result = "none"
          /\ result' = SyncResult /\ UNCHANGED <<accepts, out>>
      BY <1>2, <2>2 DEF DeviceSynchronize, Synchronized, RInv
    <3>2. CASE gpu # "ok"
      BY <3>1, <3>2 DEF Reference!Next, Reference!Fail, SyncResult
    <3>3. CASE gpu = "ok"
      <4>1. TypeOK /\ Core
        BY <1>2, <3>3 DEF RInv, IInv
      <4>2. \A i \in Items : Holds(out[i], Signed(i)) /\ FirstAccepted(i) \in accepts[i]
        BY <1>2, <3>1, <3>3, <4>1 DEF Core, Returned, RInv, AcceptedOnce
      <4>3. \A i \in Items : Signed(i) \in Attempt
        BY <4>1, <4>2, SignedIsAttempt
      <4>4. Delivered = [i \in Items |-> FirstAccepted(i)]
        BY <4>2, <4>3, DeliveredNonce DEF Delivered
      <4>5. Reference!Succeed
        BY <3>1, <3>3, <4>4 DEF Reference!Succeed, Delivered, FirstAccepted,
           Reference!FirstAccepted, SyncResult
      <4> QED BY <4>5 DEF Reference!Next
    <3> QED BY <3>2, <3>3
  <2>3. CASE ~DownloadSig /\ ~DeviceSynchronize
    <3>1. UNCHANGED <<accepts, result, out>>
      BY <1>2, <2>3 DEF Next, HostStep, Start, TakeItem, SkipItem, PredictMore,
         LaunchDirect, LaunchPredict, CollectDirect, StartScan, ScanSlot,
         CollectPredict, NothingAccepted, AnotherRound, Return,
         GpuStep, Prepare, UploadExec, ClearDone, YBlock, WBlock,
         CpBlock, ComputeBlock, RejBlock, DownloadDone, UploadCopy, CopyBlock,
         LoseGpu, Terminated, vars, host
    <3> QED BY <3>1 DEF Reference!vars, Holds
  <2> QED BY <2>1, <2>2, <2>3
<1> QED BY <1>1, <1>2, FullInvariant, PTL DEF Spec, ImplementsReference, Reference!Spec
=============================================================================
