----------------------------- MODULE SignBatch -----------------------------
(***************************************************************************)
(* Batched Dilithium signing: the rejection-loop scheduler of              *)
(* crypto_sign_signature and the tail of the batch signing entry that      *)
(* waits for it.  The host hands (item, nonce) attempts to the GPU, Slots  *)
(* at a time.  While at least Slots items are unsigned every slot works on *)
(* an item of its own, in the item's own memory (the DIRECT path).  Later  *)
(* the host predicts several nonces for each unsigned item, runs them in   *)
(* temporary memory, and copies the first accepted attempt of each item    *)
(* into the item's memory (the PREDICT path).                              *)
(*                                                                         *)
(* Host and GPU run concurrently.  The host appends operations to a CUDA   *)
(* stream and the GPU executes them in order, reading and writing the      *)
(* pinned host buffers when an operation RUNS, not when it is issued.  The *)
(* blocks of a kernel run in any order.                                    *)
(*                                                                         *)
(* Abstracted: polynomials and byte strings become the attempt they were   *)
(* computed from, so that a mixture of two attempts is visible.            *)
(***************************************************************************)
EXTENDS Integers, Sequences, FiniteSets

CONSTANTS
  Batch,      \* batch_size
  Slots,      \* exec_threshold, 2048 in the wrapper
  NonceCap,   \* number of values of the uint16_t nonce
  IdxCap,     \* number of values of the upper half of an exec_lut word
  MayFail,    \* whether the GPU may be lost during the call
  None,       \* content of memory that was never written
  Junk        \* bytes computed from more than one attempt

ASSUME BatchAssumption == Batch \in Nat \ {0}
ASSUME SlotsAssumption == Slots \in Nat \ {0}
ASSUME NonceCapAssumption == NonceCap \in Nat \ {0}
ASSUME IdxCapAssumption == IdxCap \in Nat \ {0}
ASSUME MayFailAssumption == MayFail \in BOOLEAN

Items == 0 .. Batch - 1
Execs == 0 .. Slots - 1
Nonces == 0 .. NonceCap - 1

\* An attempt: which item, at which nonce.
Attempt == [sign : 0 .. IdxCap - 1, nonce : Nonces]

ASSUME MarksAssumption ==
  /\ None \notin Attempt
  /\ Junk \notin Attempt
  /\ None # Junk

Content == Attempt \cup {None, Junk}

\* The device memory one attempt works in: y, (w0, w1), then the signature
\* under construction: challenge seed, z and hint.
Cell == [y : Content, w : Content, seed : Content, z : Content, hint : Content]
EmptyCell == [y |-> None, w |-> None, seed |-> None, z |-> None, hint |-> None]

\* (sign_idx << 16) | nonce++ stored in a uint32_t: the item index loses the
\* bits above the upper half-word.
Pack(i, n) == [sign |-> i % IdxCap, nonce |-> n]

VARIABLES
  accepts,    \* accepts[i]: the nonces the rejection checks accept for item i
  pc,         \* control point of the host
  done,       \* sign_lut[i].done_flag
  nonce,      \* sign_lut[i].nonce
  sign_idx,   \* host loop variable
  exec_idx,   \* number of slots filled in this round
  h_exec,     \* pinned host buffers
  h_done,
  h_copy,     \* the (exec_idx, sign_idx) pairs of h_copy_lut
  stream,     \* operations issued and not finished
  ran,        \* blocks of the running kernel that are finished
  ready,      \* mu, rhoprime, matrix and secret vectors are on the device
  d_exec, d_done, d_copy,
  d_sig,      \* sign pool: one cell per item
  d_temp,     \* temporary pool: one cell per slot
  gpu,        \* "ok" or "lost": a sticky CUDA error
  out,        \* the caller's signature buffer
  result      \* of the wrapper: "none", then 0 or -1

lut   == <<done, nonce>>
\* What the GPU never touches, and what the host never touches.
host  == <<pc, done, nonce, sign_idx, exec_idx, h_exec, h_copy, result>>
mem   == <<ready, d_exec, d_done, d_copy, d_sig, d_temp>>
vars  == <<accepts, pc, done, nonce, sign_idx, exec_idx, h_exec, h_done, h_copy,
           stream, ran, ready, d_exec, d_done, d_copy, d_sig, d_temp, gpu, out,
           result>>

PCs == {"start", "fill", "predict", "sync_direct", "sync_predict", "scan",
        "check", "returned", "end"}
Pools == {"sign", "temp"}
Kernels == {"y", "w", "cp", "rej"}
Op == [op : Kernels \cup {"prep", "exec", "clear", "fetch", "copylut", "copy",
                          "out"},
       pool : Pools]

TypeOK ==
  /\ accepts \in [Items -> SUBSET Nonces]
  /\ pc \in PCs
  /\ done \in [Items -> BOOLEAN]
  /\ nonce \in [Items -> Nonces]
  /\ sign_idx \in 0 .. Batch
  /\ exec_idx \in 0 .. Slots
  /\ h_exec \in [Execs -> Attempt]
  /\ h_done \in [Execs -> BOOLEAN]
  /\ h_copy \subseteq Execs \X (0 .. IdxCap - 1)
  /\ stream \in Seq(Op)
  /\ ran \subseteq Execs
  /\ ready \in BOOLEAN
  /\ d_exec \in [Execs -> Attempt]
  /\ d_done \in [Execs -> BOOLEAN]
  /\ d_copy \subseteq Execs \X (0 .. IdxCap - 1)
  /\ d_sig \in [Items -> Cell]
  /\ d_temp \in [Execs -> Cell]
  /\ gpu \in {"ok", "lost"}
  /\ out \in [Items -> Cell]
  /\ result \in {"none", "ok", "fail"}

(***************************************************************************)
(* Issuing to the stream.  Return codes are ignored by the caller, so once *)
(* the GPU is lost an issue has no effect.                                 *)
(***************************************************************************)
Do(name, p) == [op |-> name, pool |-> p]

Issue(ops) == stream' = IF gpu = "ok" THEN stream \o ops ELSE stream

\* One round of attempts: upload the attempts, clear d_done_lut (and the
\* temporary hints), the four kernels, download d_done_lut.
Round(p) == <<Do("exec", p), Do("clear", p), Do("y", p), Do("w", p),
              Do("cp", p), Do("rej", p), Do("fetch", p)>>


\* Upload the copy list and run sig_copy_kernel on it.
CopyOut == <<Do("copylut", "temp"), Do("copy", "temp")>>

Pending(name) == \E k \in 1 .. Len(stream) : stream[k].op = name

-----------------------------------------------------------------------------
(***************************************************************************)
(* The host.                                                               *)
(***************************************************************************)

\* cudaMallocHost and cudaMalloc leave their memory uninitialised; sign_lut
\* is fresh, or left over from an earlier call when the tuner signs again.
Init ==
  /\ accepts \in [Items -> SUBSET Nonces \ {{}}]
  /\ pc = "start"
  /\ \E d \in BOOLEAN, n \in {0, NonceCap - 1} :
       done = [i \in Items |-> d] /\ nonce = [i \in Items |-> n]
  /\ sign_idx = 0 /\ exec_idx = 0
  /\ \E a \in Attempt : h_exec = [e \in Execs |-> a] /\ d_exec = [e \in Execs |-> a]
  /\ h_done \in [Execs -> BOOLEAN]
  /\ h_copy = {}
  /\ stream = << >> /\ ran = {}
  /\ ready = FALSE
  /\ \E d \in BOOLEAN : d_done = [e \in Execs |-> d]
  /\ d_copy = {}
  /\ d_sig = [i \in Items |-> EmptyCell]
  /\ d_temp = [e \in Execs |-> EmptyCell]
  /\ gpu = "ok"
  /\ out = [i \in Items |-> EmptyCell]
  /\ result = "none"

\* Mutation of Start: the reset of sign_lut is missing.
StartKeepsLut ==
  /\ pc = "start"
  /\ Issue(<<Do("prep", "sign")>>)
  /\ pc' = "fill"
  /\ UNCHANGED <<accepts, lut, sign_idx, exec_idx, h_exec, h_done, h_copy, ran,
                 mem, gpu, out, result>>

\* Input copies and preparation kernels are issued; sign_lut is reset.
Start ==
  /\ pc = "start"
  /\ Issue(<<Do("prep", "sign")>>)
  /\ done' = [i \in Items |-> FALSE]
  /\ nonce' = [i \in Items |-> 0]
  /\ pc' = "fill"
  /\ UNCHANGED <<accepts, sign_idx, exec_idx, h_exec, h_done, h_copy, ran, mem,
                 gpu, out, result>>

\* One iteration of the loop over sign_idx, in the first pass and in the
\* passes of the do-while that predict further nonces.
Filling == pc \in {"fill", "predict"}

\* Whether the host hands out another attempt of item i.
\* Mutations: a signed item is tried again; one slot too many is filled.
WantsAnyItem(i) == exec_idx < Slots
WantsPastEnd(i) == exec_idx <= Slots /\ ~done[i]
Wants(i) == exec_idx < Slots /\ ~done[i]

TakeItem ==
  /\ Filling
  /\ sign_idx < Batch /\ Wants(sign_idx)
  /\ h_exec' = [h_exec EXCEPT ![exec_idx] = Pack(sign_idx, nonce[sign_idx])]
  /\ nonce' = [nonce EXCEPT ![sign_idx] = (@ + 1) % NonceCap]
  /\ exec_idx' = exec_idx + 1
  /\ sign_idx' = sign_idx + 1
  /\ UNCHANGED <<accepts, pc, done, h_done, h_copy, stream, ran, mem, gpu, out,
                 result>>

SkipItem ==
  /\ Filling
  /\ sign_idx < Batch /\ exec_idx < Slots
  /\ done[sign_idx]
  /\ sign_idx' = sign_idx + 1
  /\ UNCHANGED <<accepts, pc, done, nonce, exec_idx, h_exec, h_done, h_copy,
                 stream, ran, mem, gpu, out, result>>

\* The first pass filled every slot: run the round in the sign pool.
LaunchDirect ==
  /\ pc = "fill" /\ exec_idx = Slots
  /\ Issue(Round("sign"))
  /\ pc' = "sync_direct"
  /\ UNCHANGED <<accepts, lut, sign_idx, exec_idx, h_exec, h_done, h_copy, ran,
                 mem, gpu, out, result>>

\* A pass ended with free slots: predict the next nonce of every unsigned item.
PredictMore ==
  /\ Filling /\ sign_idx = Batch /\ exec_idx < Slots
  /\ sign_idx' = 0
  /\ pc' = "predict"
  /\ UNCHANGED <<accepts, lut, exec_idx, h_exec, h_done, h_copy, stream, ran,
                 mem, gpu, out, result>>

LaunchPredict ==
  /\ pc = "predict" /\ exec_idx = Slots
  /\ Issue(Round("temp"))
  /\ pc' = "sync_predict"
  /\ UNCHANGED <<accepts, lut, sign_idx, exec_idx, h_exec, h_done, h_copy, ran,
                 mem, gpu, out, result>>

\* cudaStreamSynchronize returns, with an error nobody looks at if the GPU is
\* lost; then the results of the round are read from the host buffers.
\* Mutation: the synchronization is missing.
NotSynchronized == TRUE
Synchronized == stream = << >>

\* Mutation of Accepted: the last slot is forgotten.
AcceptedButLast(i) == \E e \in 0 .. Slots - 2 : h_done[e] /\ h_exec[e].sign = i

\* An attempt of item i was accepted in this round.
Accepted(i) == \E e \in Execs : h_done[e] /\ h_exec[e].sign = i

CollectDirect ==
  /\ pc = "sync_direct" /\ Synchronized
  /\ done' = [i \in Items |-> done[i] \/ Accepted(i)]
  /\ pc' = "check"
  /\ UNCHANGED <<accepts, nonce, sign_idx, exec_idx, h_exec, h_done, h_copy,
                 stream, ran, mem, gpu, out, result>>

StartScan ==
  /\ pc = "sync_predict" /\ Synchronized
  /\ exec_idx' = 0
  /\ h_copy' = {}
  /\ pc' = "scan"
  /\ UNCHANGED <<accepts, lut, sign_idx, h_exec, h_done, stream, ran, mem, gpu,
                 out, result>>

\* Mutations of Listing: the search for the item in the list is missing; a
\* later accepted slot of an item replaces the earlier one.
ListEvery(e) == h_copy \cup {<<e, h_exec[e].sign>>}
ListLast(e) ==
  {c \in h_copy : c[2] # h_exec[e].sign} \cup {<<e, h_exec[e].sign>>}

\* The copy list after accepted slot e: an item that is in the list already
\* has a smaller accepted nonce there.
Listing(e) ==
  IF \E c \in h_copy : c[2] = h_exec[e].sign
    THEN h_copy
    ELSE h_copy \cup {<<e, h_exec[e].sign>>}

ScanSlot ==
  /\ pc = "scan" /\ exec_idx < Slots
  /\ h_copy' = IF h_done[exec_idx] THEN Listing(exec_idx) ELSE h_copy
  /\ exec_idx' = exec_idx + 1
  /\ UNCHANGED <<accepts, pc, lut, sign_idx, h_exec, h_done, stream, ran, mem,
                 gpu, out, result>>

CollectPredict ==
  /\ pc = "scan" /\ exec_idx = Slots
  /\ h_copy # {}
  /\ Issue(CopyOut)
  /\ done' = [i \in Items |-> done[i] \/ \E c \in h_copy : c[2] = i]
  /\ pc' = "check"
  /\ UNCHANGED <<accepts, nonce, sign_idx, exec_idx, h_exec, h_done, h_copy, ran,
                 mem, gpu, out, result>>

\* copy_count = 0: goto rej.
NothingAccepted ==
  /\ pc = "scan" /\ exec_idx = Slots
  /\ h_copy = {}
  /\ sign_idx' = 0 /\ exec_idx' = 0
  /\ pc' = "fill"
  /\ UNCHANGED <<accepts, lut, h_exec, h_done, h_copy, stream, ran, mem, gpu,
                 out, result>>

\* The scan for an unsigned item after a round.
AnotherRound ==
  /\ pc = "check"
  /\ \E i \in Items : ~done[i]
  /\ sign_idx' = 0 /\ exec_idx' = 0
  /\ pc' = "fill"
  /\ UNCHANGED <<accepts, lut, h_exec, h_done, h_copy, stream, ran, mem, gpu,
                 out, result>>

Return ==
  /\ pc = "check"
  /\ \A i \in Items : done[i]
  /\ Issue(<<Do("out", "sign")>>)
  /\ pc' = "returned"
  /\ UNCHANGED <<accepts, lut, sign_idx, exec_idx, h_exec, h_done, h_copy, ran,
                 mem, gpu, out, result>>

\* Mutation of SyncResult: the return code is dropped.
SyncAlwaysOk == "ok"

\* The wrapper's cudaDeviceSynchronize reports a sticky error.
SyncResult == IF gpu = "ok" THEN "ok" ELSE "fail"

DeviceSynchronize ==
  /\ pc = "returned" /\ Synchronized
  /\ result' = SyncResult
  /\ pc' = "end"
  /\ UNCHANGED <<accepts, lut, sign_idx, exec_idx, h_exec, h_done, h_copy,
                 stream, ran, mem, gpu, out>>

HostStep ==
  \/ Start \/ TakeItem \/ SkipItem \/ PredictMore
  \/ LaunchDirect \/ LaunchPredict \/ CollectDirect
  \/ StartScan \/ ScanSlot \/ CollectPredict \/ NothingAccepted
  \/ AnotherRound \/ Return \/ DeviceSynchronize

-----------------------------------------------------------------------------
(***************************************************************************)
(* The GPU: the operation at the head of the stream.                       *)
(***************************************************************************)
Running(name) == stream # << >> /\ Head(stream).op = name

\* The operation finishes in this step.
Finish == stream' = Tail(stream) /\ ran' = {}

Prepare ==
  /\ Running("prep")
  /\ ready' = TRUE
  /\ Finish
  /\ UNCHANGED <<accepts, host, h_done, d_exec, d_done, d_copy, d_sig, d_temp,
                 gpu, out>>

UploadExec ==
  /\ Running("exec")
  /\ d_exec' = h_exec
  /\ Finish
  /\ UNCHANGED <<accepts, host, h_done, ready, d_done, d_copy, d_sig, d_temp,
                 gpu, out>>

\* cudaMemsetAsync of d_done_lut, and of the hints of the temporary pool.
ClearDone ==
  /\ Running("clear")
  /\ d_done' = [e \in Execs |-> FALSE]
  /\ d_temp' = IF Head(stream).pool = "temp"
                 THEN [e \in Execs |-> [d_temp[e] EXCEPT !.hint = None]]
                 ELSE d_temp
  /\ Finish
  /\ UNCHANGED <<accepts, host, h_done, ready, d_exec, d_copy, d_sig, gpu, out>>

\* Where block e works: on the item itself when the kernel was launched with
\* the pitch of the sign pool twice, else in the slot of the block.
Work(p, e) == IF p = "sign" THEN d_sig[d_exec[e].sign] ELSE d_temp[e]

\* What one block of a kernel makes of its cell.
ComputeY(a, c) == [c EXCEPT !.y = IF ready THEN a ELSE Junk]
ComputeW(a, c) == [c EXCEPT !.w = c.y]
ComputeCp(a, c) == [c EXCEPT !.seed = IF c.w = a THEN a ELSE Junk]

\* The rejection checks see one attempt, or nonsense that may pass.
Consistent(a, c) == c.y = a /\ c.w = a /\ c.seed = a
Verdicts(a, c) ==
  IF Consistent(a, c) THEN {a.nonce \in accepts[a.sign]} ELSE BOOLEAN
Accept(a, c) ==
  LET t == IF Consistent(a, c) THEN a ELSE Junk
  IN  [c EXCEPT !.z = t, !.hint = t]

Write(p, e, c) ==
  IF p = "sign"
    THEN d_sig' = [d_sig EXCEPT ![d_exec[e].sign] = c] /\ UNCHANGED d_temp
    ELSE d_temp' = [d_temp EXCEPT ![e] = c] /\ UNCHANGED d_sig

\* Block e of the running kernel is finished; with the last one, the kernel.
BlockDone(e) ==
  IF ran \cup {e} = Execs
    THEN Finish
    ELSE ran' = ran \cup {e} /\ UNCHANGED stream

ComputeBlock(kernel, e, New(_, _)) ==
  /\ Running(kernel) /\ e \notin ran
  /\ LET p == Head(stream).pool
     IN  Write(p, e, New(d_exec[e], Work(p, e)))
  /\ BlockDone(e)
  /\ UNCHANGED <<accepts, host, h_done, ready, d_exec, d_done, d_copy, gpu, out>>

YBlock(e) == ComputeBlock("y", e, ComputeY)
WBlock(e) == ComputeBlock("w", e, ComputeW)
CpBlock(e) == ComputeBlock("cp", e, ComputeCp)

RejBlock(e) ==
  /\ Running("rej") /\ e \notin ran
  /\ LET p == Head(stream).pool
         c == Work(p, e)
     IN  \E ok \in Verdicts(d_exec[e], c) :
           /\ Write(p, e, IF ok THEN Accept(d_exec[e], c) ELSE c)
           /\ d_done' = [d_done EXCEPT ![e] = @ \/ ok]
  /\ BlockDone(e)
  /\ UNCHANGED <<accepts, host, h_done, ready, d_exec, d_copy, gpu, out>>

DownloadDone ==
  /\ Running("fetch")
  /\ h_done' = d_done
  /\ Finish
  /\ UNCHANGED <<accepts, host, mem, gpu, out>>

UploadCopy ==
  /\ Running("copylut")
  /\ d_copy' = h_copy
  /\ Finish
  /\ UNCHANGED <<accepts, host, h_done, ready, d_exec, d_done, d_sig, d_temp,
                 gpu, out>>

\* One block of sig_copy_kernel moves one signature to its item.
CopyBlock(c) ==
  /\ Running("copy") /\ c[1] \notin ran
  /\ LET t == d_temp[c[1]]
     IN  d_sig' = [d_sig EXCEPT ![c[2]] =
                     [@ EXCEPT !.seed = t.seed, !.z = t.z, !.hint = t.hint]]
  /\ IF ran \cup {c[1]} = {b[1] : b \in d_copy}
       THEN Finish
       ELSE ran' = ran \cup {c[1]} /\ UNCHANGED stream
  /\ UNCHANGED <<accepts, host, h_done, ready, d_exec, d_done, d_copy, d_temp,
                 gpu, out>>

DownloadSig ==
  /\ Running("out")
  /\ out' = d_sig
  /\ Finish
  /\ UNCHANGED <<accepts, host, h_done, mem, gpu>>

\* A kernel faults, or the device falls off the bus: what is left in the
\* stream never runs.
LoseGpu ==
  /\ MayFail /\ gpu = "ok" /\ stream # << >>
  /\ gpu' = "lost"
  /\ stream' = << >> /\ ran' = {}
  /\ UNCHANGED <<accepts, host, h_done, mem, out>>

GpuStep ==
  \/ Prepare \/ UploadExec \/ ClearDone
  \/ \E e \in Execs : YBlock(e) \/ WBlock(e) \/ CpBlock(e) \/ RejBlock(e)
  \/ DownloadDone \/ UploadCopy
  \/ \E c \in d_copy : CopyBlock(c)
  \/ DownloadSig

Terminated == pc = "end" /\ UNCHANGED vars

Next == HostStep \/ GpuStep \/ LoseGpu \/ Terminated

Spec == Init /\ [][Next]_vars

\* The host thread and the GPU keep going.
FairSpec == Spec /\ WF_vars(HostStep) /\ WF_vars(GpuStep)

-----------------------------------------------------------------------------
(***************************************************************************)
(* Properties.                                                             *)
(***************************************************************************)
FirstAccepted(i) ==
  CHOOSE n \in accepts[i] : \A m \in accepts[i] : n <= m

\* The attempt the sequential signer signs item i with.
Signed(i) == [sign |-> i, nonce |-> FirstAccepted(i)]

\* The signature in cell c is all of attempt a.
Holds(c, a) == c.seed = a /\ c.z = a /\ c.hint = a

\* A successful return means every signature in the caller's buffer is whole
\* and is the one the sequential signer makes, even when the GPU may be lost
\* and the pinned buffers start out with garbage.
ReturnedSignatures ==
  result = "ok" =>
    \A i \in Items : Holds(out[i], Signed(i))

\* Two blocks of one launch never write to the same cell: the direct path
\* never holds an item twice, the copy list never names an item twice.
NoWriteConflict ==
  /\ \A e, f \in Execs :
       /\ e # f
       /\ stream # << >>
       /\ Head(stream).op \in Kernels
       /\ Head(stream).pool = "sign"
       => d_exec[e].sign # d_exec[f].sign
  /\ Running("copy") => \A b, c \in d_copy : b[2] = c[2] => b = c

\* An asynchronous copy reads the pinned buffer when it runs: while one is
\* pending the host leaves the buffer alone, and does not read the target of
\* a pending download.
PinnedBuffersStable ==
  [][/\ Pending("exec") => h_exec' = h_exec
     /\ Pending("copylut") => h_copy' = h_copy
     /\ Pending("fetch") => done' = done]_vars

\* A signed item whose copy is not still in the stream holds one whole
\* signature, and no later round disturbs it.
SignedItemsIntact ==
  \A i \in Items :
    /\ gpu = "ok" /\ pc # "start" /\ done[i]
    /\ ~Pending("copylut") /\ ~Pending("copy")
    => Holds(d_sig[i], Signed(i))

\* At the top of a round every nonce below the counter of an unsigned item
\* was tried and rejected: speculation skips no nonce.
NoNonceSkipped ==
  \A i \in Items :
    /\ gpu = "ok" /\ ~done[i]
    /\ pc = "check" \/ (pc = "fill" /\ exec_idx = 0)
    => \A n \in 0 .. nonce[i] - 1 : n \notin accepts[i]

\* The call returns: every item has an accepted nonce and the GPU survives.
CallReturns == <>(pc = "end")

Reference == INSTANCE BatchSigner WITH
  reply <- result,
  out <- [i \in Items |->
            IF Holds(out[i], out[i].seed) /\ out[i].seed \in Attempt
              THEN out[i].seed.nonce ELSE None]

\* The batch signer implements the sequential signer.
ImplementsReference == Reference!Spec
=============================================================================
