----------------------------- MODULE NttRadix2 ------------------------------
(***************************************************************************)
(* The transforms that the 128 threads of a block run on one polynomial in *)
(* shared memory (include/ntt.cuh), in the kernels of sign.cu that call    *)
(* them.  The threads of a warp execute together; the warps of a block     *)
(* overtake each other except at __syncthreads.  From one barrier to the   *)
(* next, a warp runs undisturbed here, in any order of the warps: NoRace   *)
(* says that no warp touches what another writes in between, which makes   *)
(* every finer interleaving give the same values.                          *)
(*   Values are symbols: the coefficient at a position after a number of   *)
(* levels.  A butterfly gives the next symbols only for the operands and   *)
(* the power of zeta that the transform of FIPS 204 prescribes, so that a  *)
(* value of the wrong level, position or thread stays wrong.               *)
(***************************************************************************)
EXTENDS Integers, Sequences

NttWarps == 0 .. 3
NttThreads == 0 .. 127
ThreadsOf(w) == 32 * w .. 32 * w + 31

Symbol(level, p) == 256 * level + p
Wrong == -1

VARIABLES ntt_kernel, ntt_pc, s_ntt, regs

nttVars == <<ntt_kernel, ntt_pc, s_ntt, regs>>

-----------------------------------------------------------------------------
(* An instruction of a warp reads or writes two cells for each thread.     *)
(* The first is that of position Lower; every line of width positions is   *)
(* followed by pad unused cells.  The other one is upper cells further.    *)
Lower(t, span) == (t - (t % span)) + t
Cell(at, t) ==
  LET a == Lower(t, at.span) IN a + (a \div at.width) * at.pad
\* The coefficients at position Lower and span positions further.
Own(level, span, t) == <<Symbol(level, Lower(t, span)), Symbol(level, Lower(t, span) + span)>>
Cells(at, t) == <<Cell(at, t), Cell(at, t) + at.upper>>

At(width, pad, span, upper) ==
  [width |-> width, pad |-> pad, span |-> span, upper |-> upper]

LineUnpaddedHalf(pad, span) == At(32, pad, span, span)
\* Levels 1 and 2 and the order of the result: 0 or 1 cells after 32.
Line(pad, span) == At(32, pad, span, span + pad * (span \div 32))
\* From level 3 the cells between the two halves of a butterfly grow with it.
Spread(w) == At(2 * w, w, w, w)
Spreading(w) == At(w, w \div 2, w, w + w \div 2)

Load(at) == [op |-> "load", at |-> at]
Store(at, level) == [op |-> "store", at |-> at, level |-> level]
Barrier == [op |-> "sync"]
Give(level, span) == [op |-> "give", level |-> level, span |-> span]
Level(level) == [op |-> "level", level |-> level]
Take(level) == [op |-> "take", level |-> level]
Unpack(pad) == [op |-> "unpack", pad |-> pad]

(* ntt_radix2_inner, and with pad = 1 ntt_radix2_inner_pad1.  A store with *)
(* a level writes the results of that level.                               *)
Ntt(pad) ==
  <<Store(Line(pad, 128), 1), Barrier,
    Load(Line(pad, 64)), Store(Line(pad, 64), 2), Barrier,
    Load(Line(pad, 32)), Barrier, Store(Spreading(32), 3),
    Load(Spread(16)), Store(Spreading(16), 4),
    Load(Spread(8)), Store(Spreading(8), 5),
    Load(Spread(4)), Store(Spreading(4), 6),
    Load(Spread(2)), Store(Spreading(2), 7),
    Load(Spread(1)), Barrier, Store(Line(1, 1), 8), Barrier,
    Load(Line(1, 128)), Take(8)>>

\* intt_radix2_inner: the same network backwards.
Intt ==
  <<Store(Line(1, 128), 0), Barrier, Load(Line(1, 1)), Barrier,
    Store(Spread(1), 9), Load(Spreading(2)),
    Store(Spread(2), 10), Load(Spreading(4)),
    Store(Spread(4), 11), Load(Spreading(8)),
    Store(Spread(8), 12), Load(Spreading(16)),
    Store(Spread(16), 13), Load(Spreading(32)), Barrier,
    Store(Line(0, 32), 14), Barrier,
    Load(Line(0, 64)), Store(Line(0, 64), 15), Barrier,
    Load(Line(0, 128)), Level(16), Take(16)>>

\* The first instructions of what follows a transform in a kernel's loop.
unpack_radix2 ==
  <<Give(0, 1), Store(Line(0, 1), 0), Barrier, Load(Line(0, 128))>> \o Ntt(0)
  \o <<Barrier, Unpack(0), Barrier, Load(Line(0, 128)), Take(0)>>
unpack_radix2_opt ==
  <<Give(0, 1), Store(Line(1, 1), 0), Barrier, Load(Line(1, 128)), Barrier>> \o Ntt(1)
  \o <<Barrier, Unpack(1), Barrier, Load(Line(1, 128)), Take(0)>>
compute_w_128tUnsynchronized ==
  <<Give(0, 128)>> \o Ntt(0) \o <<Barrier, Give(8, 128)>> \o Intt
  \o <<Store(Line(1, 128), 0), Barrier, Load(Line(1, 1)), Barrier,
       Give(8, 128), Store(Line(1, 128), 0)>>
compute_w_128t ==
  <<Give(0, 128)>> \o Ntt(0) \o <<Barrier, Give(8, 128)>> \o Intt
  \o <<Barrier, Store(Line(1, 128), 0), Barrier, Load(Line(1, 1)), Barrier,
       Give(8, 128), Store(Line(1, 128), 0)>>
rej_loop_128t ==
  <<Give(0, 128)>> \o Ntt(0) \o Intt
  \o <<Barrier, Give(8, 128), Store(Line(1, 128), 0), Barrier, Load(Line(1, 128)), Take(8)>>

NttPrograms ==
  [unpack_radix2 |-> unpack_radix2, unpack_radix2_opt |-> unpack_radix2_opt,
   compute_w_128t |-> compute_w_128t, rej_loop_128t |-> rej_loop_128t]

-----------------------------------------------------------------------------
(* The network: level k of the first eight takes a position and the one    *)
(* Span(k) further to themselves, with the power of zeta numbered Zeta;    *)
(* levels 9 to 16 undo them.                                               *)
Span(k) == IF k <= 8 THEN 2 ^ (8 - k) ELSE 2 ^ (k - 9)
Zeta(k, group) == IF k <= 8 THEN 2 ^ (k - 1) + group ELSE 2 ^ (17 - k) - 1 - group

\* What a thread computes at level k from its registers: it takes the power
\* of zeta from its own number.
Butterfly(k, t, r) ==
  LET p == r[1] % 256
      s == Span(k)
      group == p \div (2 * s)
  IN  IF /\ r = <<Symbol(k - 1, p), Symbol(k - 1, p + s)>>
         /\ p % (2 * s) < s
         /\ Zeta(k, t \div s) = Zeta(k, group)
      THEN <<Symbol(k, p), Symbol(k, p + s)>>
      ELSE <<Wrong, Wrong>>

Compute(k, t, r) == IF k = 0 THEN r ELSE Butterfly(k, t, r)

-----------------------------------------------------------------------------
NttInit ==
  /\ ntt_kernel \in DOMAIN NttPrograms
  /\ ntt_pc = [w \in NttWarps |-> 1]
  /\ s_ntt = [a \in 0 .. 383 |-> Wrong]
  /\ regs = [t \in NttThreads |-> <<Wrong, Wrong>>]

ntt_program == NttPrograms[ntt_kernel]
Instr(w) == ntt_program[ntt_pc[w]]

\* w is between two barriers.
Running(w) ==
  /\ ntt_pc[w] \in 2 .. Len(ntt_program)
  /\ Instr(w).op # "sync" /\ ntt_program[ntt_pc[w] - 1].op # "sync"

Runs(w, op) ==
  /\ ntt_pc[w] <= Len(ntt_program)
  /\ \A v \in NttWarps \ {w} : ~Running(v)
  /\ Instr(w).op = op
  /\ ntt_pc' = [ntt_pc EXCEPT ![w] = @ + 1]
  /\ UNCHANGED ntt_kernel

\* The registers of the threads of w, and what it writes to shared memory.
SetRegs(w, Value(_)) ==
  regs' = [t \in NttThreads |-> IF t \in ThreadsOf(w) THEN Value(t) ELSE regs[t]]
Write(cells, Value(_)) ==
  \E values \in {[a \in cells |-> Value(a)]} :
    s_ntt' = [a \in 0 .. 383 |-> IF a \in DOMAIN values THEN values[a] ELSE s_ntt[a]]

Loads(w) ==
  /\ Runs(w, "load")
  /\ SetRegs(w, LAMBDA t : [h \in 1 .. 2 |-> s_ntt[Cells(Instr(w).at, t)[h]]])
  /\ UNCHANGED s_ntt

Stores(w) ==
  /\ Runs(w, "store")
  /\ LET at == Instr(w).at
         results(t) == Compute(Instr(w).level, t, regs[t])
     IN  \E writes \in {UNION {{<<Cells(at, t)[h], results(t)[h]>> : h \in 1 .. 2} :
                                 t \in ThreadsOf(w)}} :
           Write({c[1] : c \in writes}, LAMBDA a : (CHOOSE c \in writes : c[1] = a)[2])
  /\ UNCHANGED regs

Waits(w) ==
  /\ Runs(w, "sync")
  /\ \A v \in NttWarps : ntt_pc[v] >= ntt_pc[w]
  /\ UNCHANGED <<s_ntt, regs>>

\* The last level of the inverse transform stays in the registers.
Computes(w) ==
  /\ Runs(w, "level")
  /\ SetRegs(w, LAMBDA t : Compute(Instr(w).level, t, regs[t]))
  /\ UNCHANGED s_ntt

\* A thread gets coefficients from global memory, or multiplies its own.
Gives(w) ==
  /\ Runs(w, "give")
  /\ SetRegs(w, LAMBDA t : Own(Instr(w).level, Instr(w).span, t))
  /\ UNCHANGED s_ntt

\* t0 is unpacked by the 32 threads of warp 0, eight coefficients each.
Unpacks(w) ==
  /\ Runs(w, "unpack")
  /\ LET cell(p) == p + (p \div 32) * Instr(w).pad
     IN  IF w = 0
         THEN Write({cell(p) : p \in 0 .. 255},
                    LAMBDA a : Symbol(0, CHOOSE p \in 0 .. 255 : cell(p) = a))
         ELSE UNCHANGED s_ntt
  /\ UNCHANGED regs

Takes(w) ==
  /\ Runs(w, "take")
  /\ UNCHANGED <<s_ntt, regs>>

NttNext ==
  \E w \in NttWarps :
    \/ Loads(w) \/ Stores(w) \/ Waits(w) \/ Computes(w)
    \/ Gives(w) \/ Unpacks(w) \/ Takes(w)

-----------------------------------------------------------------------------
\* What a transform or an unpacking leaves in the registers of a thread is
\* the result FIPS 204 prescribes for its two positions, however the warps
\* of the block overtake each other: no value is read before it is written
\* or after another warp has written over it.
Transforms ==
  \A w \in NttWarps :
    ntt_pc[w] <= Len(ntt_program) /\ Instr(w).op = "take" =>
      \A t \in ThreadsOf(w) : regs[t] = Own(Instr(w).level, 128, t)

\* The part of the program between barriers around instruction i.
Segment(i) ==
  {j \in 1 .. Len(ntt_program) :
     \A k \in 1 .. Len(ntt_program) :
       k \in j .. i \/ k \in i .. j => ntt_program[k].op # "sync"}

Touched(w, i) ==
  IF ntt_program[i].op \in {"load", "store"}
  THEN {Cells(ntt_program[i].at, t)[h] : t \in ThreadsOf(w), h \in 1 .. 2}
  ELSE IF ntt_program[i].op = "unpack" /\ w = 0
  THEN {p + (p \div 32) * ntt_program[i].pad : p \in 0 .. 255}
  ELSE {}

\* Between two barriers no warp writes a cell that another warp reads or
\* writes, in any of the sequences of transforms the kernels run.
NoRace ==
  (\E i \in 1 .. Len(ntt_program) : \A w \in NttWarps : ntt_pc[w] = i) /\ ~Running(0) =>
    LET segment == Segment(ntt_pc[0])
        touched == [w \in NttWarps |-> UNION {Touched(w, i) : i \in segment}]
        written == [w \in NttWarps |-> UNION {Touched(w, i) :
                      i \in {j \in segment : ntt_program[j].op # "load"}}]
    IN  \A w \in NttWarps : \A v \in NttWarps \ {w} : written[w] \cap touched[v] = {}
=============================================================================
