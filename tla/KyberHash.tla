----------------------------- MODULE KyberHash ------------------------------
(***************************************************************************)
(* The hash functions of the Kyber KEM as free constructors: equal results *)
(* only for equal arguments.                                               *)
(***************************************************************************)
\* SHA3-256
H(x) == <<"H", x>>

\* The halves of SHA3-512.
G(x) == [first |-> <<"Ga", x>>, second |-> <<"Gb", x>>]

\* SHAKE256 of a key and the hash of a ciphertext: the shared secret.
Kdf(k, c) == <<"K", k, H(c)>>
=============================================================================
