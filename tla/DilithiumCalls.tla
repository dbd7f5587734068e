--------------------------- MODULE DilithiumCalls ---------------------------
(***************************************************************************)
(* Batch key generation and batch verification: the wrapper that allocates *)
(* a pool with a row for each item, the operations crypto_sign_keypair and *)
(* crypto_sign_verify put into the stream, the kernels, which write the    *)
(* result of their item, and the answer.  Fresh memory holds anything, for *)
(* example the results of an earlier call.  Every operation works on the   *)
(* rows in any order; the device may be lost at any time, and nobody reads *)
(* the error of a launch.  Signing is in SignBatch.                        *)
(***************************************************************************)
EXTENDS Integers, Sequences

CONSTANTS
  Items,        \* the items of the batch
  MayNotStart,  \* the calls whose kernel may fail to start
  Unanswered

ASSUME UnansweredAssumption == Unanswered \notin {0, -1}

VARIABLES
  call,         \* "keypair" or "verify"
  altered,      \* items whose signature, message and key do not belong together
  at,           \* the next step of the host
  stream,       \* the operations that have not ended, and the rows left of each
  pool,         \* the rows of the areas that are read before they are copied
  host,         \* the caller's buffers and verify_results
  lost,         \* the device is lost
  trouble,      \* history: something failed
  answer

callVars == <<call, altered, at, stream, pool, host, lost, trouble, answer>>

-----------------------------------------------------------------------------
Clear(area) == [op |-> "clear", area |-> area]
Upload(area) == [op |-> "upload", area |-> area]
Kernel == [op |-> "kernel", area |-> "all"]
Download(area) == [op |-> "download", area |-> area]

crypto_sign_keypairUncleared == <<Kernel, Clear("t1"), Download("pk"), Download("sk")>>
crypto_sign_keypair == <<Clear("t1"), Kernel, Download("pk"), Download("sk")>>

crypto_sign_verifyUncleared ==
  <<Clear("h"), Upload("sig"), Upload("m"), Upload("pk"), Kernel, Download("ret")>>
crypto_sign_verify ==
  <<Clear("h"), Clear("ret"), Upload("sig"), Upload("m"), Upload("pk"), Kernel,
    Download("ret")>>

Operations == IF call = "keypair" THEN crypto_sign_keypair ELSE crypto_sign_verify

\* -1 in sig, m, pk, sk: not the data of an item of this batch.
Areas == {"ret", "h", "t1", "sig", "m", "pk", "sk"}
\* Both kernels expect zeros where they add or set single coefficients, but
\* -1 as the result of an item that is not verified.
Cleared(area) == IF area = "ret" THEN -1 ELSE 0

-----------------------------------------------------------------------------
CallInit ==
  /\ call \in {"keypair", "verify"}
  /\ altered \in SUBSET Items
  /\ (call = "keypair" => altered = {})
  /\ at = 0 /\ stream = << >>
  /\ pool = [area \in Areas |-> [i \in Items |-> -1]]
  /\ host = [area \in {"pk", "sk", "ret"} |-> [i \in Items |-> -1]]
  /\ lost = FALSE /\ trouble = FALSE /\ answer = Unanswered

Fails ==
  /\ at' = Len(Operations) + 2
  /\ trouble' = TRUE /\ answer' = -1
  /\ UNCHANGED <<call, altered, stream, pool, host, lost>>

\* A null pointer, a wrong length or no item, or no memory for the pool.
Refuses == at = 0 /\ Fails

Allocates ==
  /\ at = 0 /\ ~lost
  /\ at' = 1
  /\ \E ret, h, t1 \in [Items -> {0, 1}] :
       pool' = [pool EXCEPT !.ret = [i \in Items |-> -ret[i]], !.h = h, !.t1 = t1]
  /\ UNCHANGED <<call, altered, stream, host, lost, trouble, answer>>

\* The host puts the next operation into the stream, unless it is refused.
Issues ==
  /\ at \in 1 .. Len(Operations)
  /\ at' = at + 1
  /\ LET op == Operations[at]
     IN  \/ /\ ~lost
            /\ stream' = Append(stream, [op |-> op.op, area |-> op.area, left |-> Items])
            /\ UNCHANGED trouble
         \/ /\ lost \/ (op = Kernel /\ call \in MayNotStart)
            /\ trouble' = TRUE /\ UNCHANGED stream
  /\ UNCHANGED <<call, altered, pool, host, lost, answer>>

\* gpu_keypair adds the products of its row to t1, gpu_verify sets the hints
\* in h and writes its result if the signature is right.
KernelRow(i) ==
  IF call = "keypair"
  THEN LET key == IF pool.t1[i] = 0 THEN i ELSE -1
       IN  [pool EXCEPT !.t1[i] = 1, !.pk[i] = key, !.sk[i] = i]
  ELSE IF {pool.sig[i], pool.m[i], pool.pk[i]} = {i} /\ pool.h[i] = 0 /\ i \notin altered
  THEN [pool EXCEPT !.h[i] = 1, !.ret[i] = 0]
  ELSE [pool EXCEPT !.h[i] = 1]

\* The device works on row i of the operation at the head of the stream.
WorksOn(i) ==
  /\ stream # << >>
  /\ LET op == Head(stream)
         area == op.area
     IN  /\ i \in op.left
         /\ stream' = IF op.left = {i} THEN Tail(stream)
                      ELSE <<[op EXCEPT !.left = @ \ {i}]>> \o Tail(stream)
         /\ pool' = CASE op.op = "clear" -> [pool EXCEPT ![area][i] = Cleared(area)]
                      [] op.op = "upload" -> [pool EXCEPT ![area][i] = i]
                      [] op.op = "kernel" -> KernelRow(i)
                      [] op.op = "download" -> pool
         /\ host' = IF op.op = "download" THEN [host EXCEPT ![area][i] = pool[area][i]] ELSE host
  /\ UNCHANGED <<call, altered, at, lost, trouble, answer>>

LoseDevice ==
  /\ ~lost /\ answer = Unanswered
  /\ lost' = TRUE /\ stream' = << >>
  /\ UNCHANGED <<call, altered, at, pool, host, trouble, answer>>

\* The host waits for the device, frees the pool and reads the results.
Answers ==
  /\ at = Len(Operations) + 1
  /\ stream = << >>
  /\ at' = at + 1
  /\ answer' = IF lost \/ (call = "verify" /\ \E i \in Items : host.ret[i] # 0) THEN -1 ELSE 0
  /\ trouble' = (trouble \/ lost)
  /\ UNCHANGED <<call, altered, stream, pool, host, lost>>

CallNext ==
  \/ Refuses \/ Allocates \/ Issues \/ Answers \/ LoseDevice
  \/ \E i \in Items : WorksOn(i)

CallSpec == CallInit /\ [][CallNext]_callVars

-----------------------------------------------------------------------------
\* A batch counts as verified only if each of its signatures was checked and
\* is right, whatever the pool held before, whether or not the kernel started
\* and wherever the device was lost; and a batch of right signatures is
\* refused only if something failed.
VerifiesItems ==
  call = "verify" /\ answer # Unanswered =>
    /\ answer = 0 => altered = {}
    /\ answer = -1 => altered # {} \/ trouble

\* When key generation answers 0, every public key in the caller's buffer
\* belongs to the secret key at the same place.
KeysArePairs ==
  call = "keypair" /\ answer = 0 =>
    \A i \in Items : host.pk[i] = i /\ host.sk[i] = i
=============================================================================
