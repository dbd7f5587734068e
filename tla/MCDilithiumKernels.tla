------------------------- MODULE MCDilithiumKernels -------------------------
(***************************************************************************)
(* One kernel of the Dilithium library at a time: the transforms of a      *)
(* block, the decision on an attempt, the sampling of a polynomial or the  *)
(* rounding of a coefficient.  The transforms and the numbers have their   *)
(* real size, the others are scaled down.                                  *)
(***************************************************************************)
EXTENDS FiniteSetsExt, RejectionKernels, Sampling, NttRadix2, DilithiumRounding

kernelVars == <<rejVars, samplingVars, nttVars, roundingVars>>

\* Hints at some positions of both polynomials, up to one more than OMEGA,
\* and attempts with up to two failing parts of checks.
MCPositions == {<<0, 0>>, <<0, 1>>, <<0, 3>>, <<0, 4>>, <<0, 7>>,
                <<1, 0>>, <<1, 2>>, <<1, 5>>, <<1, 6>>, <<1, 7>>}
MCChecks == {<<"z", 0>>, <<"s2", 0>>, <<"t0", 0>>, <<"s2", 1>>, <<"t0", 1>>}
MCParts == MCChecks \X {0, 1}
MCAttempts ==
  [hints : UNION {kSubset(n, MCPositions) : n \in 0 .. 4}, failed : {{}}]
  \cup [hints : {{}, {<<0, 1>>, <<1, 6>>}}, failed : kSubset(1, MCParts) \cup kSubset(2, MCParts)]

\* Coefficients at the edges of the intervals of decompose, and products that
\* move them over an edge or up to it, for the three parameter sets.
MCEdges ==
  LET Edge(g, b, top) ==
        {(h * (2 * g) + s * x) % DILITHIUM_Q :
           h \in {0, 1, top}, s \in {-1, 1}, x \in {0, 1, g - 1, g, g - b, g - b - 1}}
  IN  Edge(95232, 78, 43) \cup Edge(261888, 196, 15) \cup Edge(261888, 120, 15)
MCProductsS2 == UNION {{-b, b} : b \in {0, 1, 78, 120, 196}}
MCProductsT0 ==
  UNION {{-b, b} : b \in {0, 1, 77, 79, 119, 121, 195, 197, 95231, 95232, 200704, 245760}}

\* The decision is made: a rejection.
NoRejection ==
  /\ kernel = "rej_loop_32t" /\ attempt = [hints |-> {}, failed |-> MCParts]
  /\ pc = [w \in {0} |-> Returned] /\ pos = << >> /\ total = << >>
  /\ s_rej_flag = TRUE /\ s_hint_count_sum = 0 /\ s_hint_count = << >>
  /\ s_hint = << >> /\ g_hint = << >> /\ g_done = FALSE
NoSampling ==
  sampler = "none" /\ good = {} /\ ctr = 0 /\ round = 0 /\ poly = << >>
NoNtt == ntt_kernel = "none" /\ ntt_pc = << >> /\ s_ntt = << >> /\ regs = << >>
NoRounding ==
  /\ mode = 0 /\ stage = "none" /\ coeff = 0 /\ s2 = 0 /\ t0 = 0 /\ low = 0 /\ high = 0
  /\ hint = FALSE /\ w1prime = 0

Init ==
  \/ RejInit /\ NoSampling /\ NoNtt /\ NoRounding
  \/ NoRejection /\ SamplingInit /\ NoNtt /\ NoRounding
  \/ NoRejection /\ NoSampling /\ NttInit /\ NoRounding
  \/ NoRejection /\ NoSampling /\ NoNtt /\ RoundingInit

Next ==
  \/ RejNext /\ UNCHANGED <<samplingVars, nttVars, roundingVars>>
  \/ SamplingNext /\ UNCHANGED <<rejVars, nttVars, roundingVars>>
  \/ ntt_kernel # "none" /\ NttNext /\ UNCHANGED <<rejVars, samplingVars, roundingVars>>
  \/ RoundingNext /\ UNCHANGED <<rejVars, samplingVars, nttVars>>

Spec == Init /\ [][Next]_kernelVars

\* The properties of the kernels that have a part in the state.
KernelTransforms == ntt_kernel # "none" => Transforms
KernelRaceFree == ntt_kernel # "none" => NoRace
=============================================================================
