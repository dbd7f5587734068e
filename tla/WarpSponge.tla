----------------------------- MODULE WarpSponge -----------------------------
(***************************************************************************)
(* The hash functions of fips202_cuda/warp: the threads of a warp hash one *)
(* input together, thread t keeps lane t of the state.  Threads advance    *)
(* independently of each other.  They wait for each other in the shuffles  *)
(* of the permutation, in which only the threads with a lane take part,    *)
(* and in __syncwarp.  Input and output are in memory and may be the same  *)
(* buffer.  The permutation is free, bytes are those of XofReference; a    *)
(* byte in memory has the form of a byte of output.                        *)
(***************************************************************************)
EXTENDS XofReference

CONSTANTS
  Width,        \* the bytes of a lane (8)
  StateLanes,   \* threads with a lane (25)
  RateLanes,    \* lanes of a block (17 or 21)
  WarpSize,     \* threads of the warp (32)
  InLens, OutLens,   \* lengths of inputs and outputs
  Memory        \* bytes of memory

Threads == 0 .. WarpSize - 1
Rate == Width * RateLanes

\* Assumed where the constants get their values: lanes of several bytes, threads
\* without a lane, and memory for every input and output.
WarpAssumption ==
  /\ Width \in Nat \ {0, 1} /\ RateLanes \in Nat \ {0}
  /\ StateLanes \in Nat /\ WarpSize \in Nat /\ Memory \in Nat
  /\ RateLanes < StateLanes /\ StateLanes < WarpSize
  /\ StateBytes = Width * StateLanes
  /\ InLens \subseteq 0 .. Memory /\ OutLens \subseteq 0 .. Memory \div 2

VARIABLES
  kind,       \* which function runs
  in_len, out_len,
  out,        \* where the output begins; the input begins at 0
  program,    \* the instructions all threads execute
  pc,         \* the next instruction of each thread
  base,       \* the blocks that were permuted
  word,       \* the lane of each thread: what has been added since
  mem,
  tmp         \* tmp_shared

warpVars == <<kind, in_len, out_len, out, program, pc, base, word, mem, tmp>>

-----------------------------------------------------------------------------
Symbol(c) == [base |-> << >>, at |-> -1, add |-> {c}]
Junk == Symbol(-8)

\* The symbols a byte in memory has when it is used as input; output that
\* was written over it is none of them.
Content(byte) == IF byte.at = -1 THEN byte.add ELSE {-9}

SymXor(v, w) == (v \ w) \cup (w \ v)
BlankWord == [b \in 0 .. Width - 1 |-> {}]

\* The absorbing loop over whole blocks, and the rest with the padding.
AbsorbProgram(n) ==
  [i \in 1 .. 2 * (n \div Rate) |->
     IF i % 2 = 1 THEN <<"load", (i + 1) \div 2>> ELSE <<"permute", 0>>]
  \o <<<<"rest", n \div Rate>>>>

SqueezeProgram(what, nblocks) ==
  [i \in 1 .. 2 * nblocks |->
     IF i % 2 = 1 THEN <<"permute", 0>> ELSE <<what, i \div 2>>]

\* Mutation of TailProgram: the warp is not synchronized before it copies.
TailProgramUnsynchronized == SqueezeProgram("store_tmp", 1) \o <<<<"copy", 0>>>>
TailProgram == SqueezeProgram("store_tmp", 1) \o <<<<"sync", 0>>, <<"copy", 0>>>>

\* gpu_keccak::shake squeezes the last block into tmp_shared and copies what
\* was asked for.
shake(n, len) ==
  AbsorbProgram(n) \o SqueezeProgram("store", len \div Rate)
  \o (IF len % Rate = 0 THEN << >> ELSE TailProgram)

\* The others squeeze whole blocks: notmp_shake, the kernel notmp_shake_new and
\* the function shake that other kernels call; the last two read the input in
\* words.
notmp_shake(n, len) ==
  AbsorbProgram(n) \o SqueezeProgram("store", (len + Rate - 1) \div Rate)

shake_in_kernel(n, len) ==
  AbsorbProgram(n) \o <<<<"sync", 0>>>>
  \o SqueezeProgram("store", (len + Rate - 1) \div Rate)

\* The functions of the library; notmp_shake_new is notmp_shake but
\* for the rest of the input.
Kinds == {"shake", "notmp_shake", "notmp_shake_new", "shake_in_kernel"}

Program(k, n, len) ==
  CASE k = "shake" -> shake(n, len)
    [] k \in {"notmp_shake", "notmp_shake_new"} -> notmp_shake(n, len)
    [] k = "shake_in_kernel" -> shake_in_kernel(n, len)

WarpInit ==
  /\ kind \in Kinds
  /\ in_len \in InLens /\ out_len \in OutLens
  /\ out \in {0, Memory \div 2}
  /\ program = Program(kind, in_len, out_len)
  /\ pc = [t \in Threads |-> 1]
  /\ base = << >>
  /\ word = [t \in Threads |-> BlankWord]
  /\ mem = [a \in 0 .. Memory - 1 |-> IF a < in_len THEN Symbol(a + 1) ELSE Junk]
  /\ tmp = [a \in 0 .. Rate - 1 |-> Junk]

-----------------------------------------------------------------------------
Running(t) == pc[t] \in DOMAIN program
At(t, what) == Running(t) /\ program[pc[t]][1] = what
Operand(t) == program[pc[t]][2]

Advance(ts) == pc' = [t \in Threads |-> IF t \in ts THEN pc[t] + 1 ELSE pc[t]]

\* Thread t adds bytes to its lane.
Add(t, Byte(_)) ==
  word' = [word EXCEPT ![t] = [b \in 0 .. Width - 1 |-> SymXor(@[b], Byte(b))]]

\* state ^= load64(in), by the threads of the block.
Load(t) ==
  /\ At(t, "load")
  /\ LET Byte(b) == IF t < RateLanes
                    THEN Content(mem[Rate * (Operand(t) - 1) + Width * t + b]) ELSE {}
     IN  Add(t, Byte)
  /\ Advance({t})
  /\ UNCHANGED <<kind, in_len, out_len, out, program, base, mem, tmp>>

\* The bytes of the rest of the input that a thread reads: byte by byte, or a
\* word that is masked by the thread in whose lane the input ends.
RestByBytes(t, n, b) == Width * t + b < n
RestByWords(t, n, b) == t <= n \div Width /\ (t = n \div Width => b < n % Width)

\* The rest, the suffix and the last bit of the padding.
Rest(t) ==
  /\ At(t, "rest")
  /\ LET n == in_len - Rate * Operand(t)
         Read(b) == IF kind \in {"notmp_shake_new", "shake_in_kernel"}
                    THEN RestByWords(t, n, b) ELSE RestByBytes(t, n, b)
         Byte(b) == SymXor(
           SymXor(IF Read(b) THEN Content(mem[Rate * Operand(t) + Width * t + b]) ELSE {},
                  IF t = n \div Width /\ b = n % Width THEN {SHAKE} ELSE {}),
           IF t = (Rate - 1) \div Width /\ b = Width - 1 THEN {PadEnd} ELSE {})
     IN  Add(t, Byte)
  /\ Advance({t})
  /\ UNCHANGED <<kind, in_len, out_len, out, program, base, mem, tmp>>

\* The shuffles: the threads with a lane wait for each other.
Permute ==
  /\ \A t \in 0 .. StateLanes - 1 : At(t, "permute") /\ pc[t] = pc[0]
  /\ base' = Append(base, [p \in 0 .. StateBytes - 1 |-> word[p \div Width][p % Width]])
  /\ word' = [t \in Threads |-> IF t < StateLanes THEN BlankWord ELSE word[t]]
  /\ Advance(0 .. StateLanes - 1)
  /\ UNCHANGED <<kind, in_len, out_len, out, program, mem, tmp>>

\* The other threads pass by.
SkipPermute(t) ==
  /\ t >= StateLanes /\ At(t, "permute")
  /\ Advance({t})
  /\ UNCHANGED <<kind, in_len, out_len, out, program, base, word, mem, tmp>>

\* What is in a buffer of n bytes after thread t stored its lane behind a.
Stored(buffer, t, a) ==
  [i \in DOMAIN buffer |->
     IF t < RateLanes /\ i - a - Width * t \in 0 .. Width - 1
     THEN [base |-> base, at |-> i - a, add |-> word[t][i - a - Width * t]]
     ELSE buffer[i]]

Store(t) ==
  /\ At(t, "store")
  /\ mem' = Stored(mem, t, out + Rate * (Operand(t) - 1))
  /\ Advance({t})
  /\ UNCHANGED <<kind, in_len, out_len, out, program, base, word, tmp>>

StoreTmp(t) ==
  /\ At(t, "store_tmp")
  /\ tmp' = Stored(tmp, t, 0)
  /\ Advance({t})
  /\ UNCHANGED <<kind, in_len, out_len, out, program, base, word, mem>>

SyncWarp ==
  /\ \A t \in Threads : At(t, "sync") /\ pc[t] = pc[0]
  /\ Advance(Threads)
  /\ UNCHANGED <<kind, in_len, out_len, out, program, base, word, mem, tmp>>

\* for (i = threadIdx.x; i < out_len; i += 32) out[i] = tmp_shared[i]
Copy(t) ==
  /\ At(t, "copy")
  /\ LET first == out + Rate * (out_len \div Rate)
     IN  mem' = [i \in DOMAIN mem |->
                   IF i - first \in 0 .. (out_len % Rate) - 1 /\ (i - first) % WarpSize = t
                   THEN tmp[i - first] ELSE mem[i]]
  /\ Advance({t})
  /\ UNCHANGED <<kind, in_len, out_len, out, program, base, word, tmp>>

WarpNext ==
  \/ \E t \in Threads :
       \/ Load(t) \/ Rest(t) \/ SkipPermute(t)
       \/ Store(t) \/ StoreTmp(t) \/ Copy(t)
  \/ Permute
  \/ SyncWarp

WarpSpec == WarpInit /\ [][WarpNext]_warpVars

-----------------------------------------------------------------------------
\* When all threads of the warp are through, the output buffer has the bytes
\* of SHAKE, however the threads overtook each other, also when the output
\* replaces the input.
WarpHashes ==
  (\A t \in Threads : ~Running(t)) =>
     \A j \in 1 .. out_len : mem[out + j - 1] = XofByte(Rate, SHAKE, in_len, j)
=============================================================================
