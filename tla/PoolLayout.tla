------------------------------ MODULE PoolLayout ------------------------------
(***************************************************************************)
(* The device memory of a Dilithium call.  A wrapper allocates pools with  *)
(* one row for each item, and computes the size of a row; api.cu lays the  *)
(* areas of a row out with pointers of its own, and tells the kernels the  *)
(* pitch of the rows.  Offsets and sizes are in bytes.                     *)
(***************************************************************************)
EXTENDS Integers, Sequences

CONSTANTS
  MessageLengths,
  Granularities,  \* pitches are multiples of it
  ItemsAndSlots

\* Rows of pools are aligned to no more than 16 KB.
ASSUME LengthsAssumption == MessageLengths \subseteq Nat
ASSUME GranularitiesAssumption ==
  Granularities \subseteq Nat \ {0} /\ \A g \in Granularities : g <= 16384
ASSUME ItemsAssumption == ItemsAndSlots \subseteq Nat

VARIABLES
  level,        \* DILITHIUM_MODE
  mlen,
  granularity

layoutVars == <<level, mlen, granularity>>

-----------------------------------------------------------------------------
SEEDBYTES == 32
CRHBYTES == 64
INT32 == 4
POLY == 256 * INT32   \* a polynomial of DILITHIUM_N coefficients

DILITHIUM_K(d) == IF d = 2 THEN 4 ELSE IF d = 3 THEN 6 ELSE 8
DILITHIUM_L(d) == IF d = 2 THEN 4 ELSE IF d = 3 THEN 5 ELSE 7
OMEGA(d) == IF d = 2 THEN 80 ELSE IF d = 3 THEN 55 ELSE 75
POLYT1_PACKEDBYTES == 320
POLYT0_PACKEDBYTES == 416
POLYZ_PACKEDBYTES(d) == IF d = 2 THEN 576 ELSE 640
POLYW1_PACKEDBYTES(d) == IF d = 2 THEN 192 ELSE 128
POLYETA_PACKEDBYTES(d) == IF d = 3 THEN 128 ELSE 96

CRYPTO_PUBLICKEYBYTES(d) == SEEDBYTES + DILITHIUM_K(d) * POLYT1_PACKEDBYTES
CRYPTO_SECRETKEYBYTES(d) ==
  3 * SEEDBYTES + DILITHIUM_L(d) * POLYETA_PACKEDBYTES(d)
  + DILITHIUM_K(d) * POLYETA_PACKEDBYTES(d) + DILITHIUM_K(d) * POLYT0_PACKEDBYTES
CRYPTO_BYTES(d) == SEEDBYTES + DILITHIUM_L(d) * POLYZ_PACKEDBYTES(d) + OMEGA(d) + DILITHIUM_K(d)

ALIGN_TO_256_BYTES(x) == ((x + 255) \div 256) * 256

-----------------------------------------------------------------------------
(* The sizes of a row in the wrappers. *)

keypair_size(d) ==
  ALIGN_TO_256_BYTES(CRYPTO_PUBLICKEYBYTES(d)) + ALIGN_TO_256_BYTES(CRYPTO_SECRETKEYBYTES(d))
  + DILITHIUM_K(d) * POLY

W1Size(d) == DILITHIUM_K(d) * POLYW1_PACKEDBYTES(d)

\* A row of the sign pool, with the room of tr || m.
sign_row(d, tr_m) ==
  ALIGN_TO_256_BYTES(CRYPTO_BYTES(d)) + ALIGN_TO_256_BYTES(CRYPTO_SECRETKEYBYTES(d))
  + ALIGN_TO_256_BYTES(SEEDBYTES) + tr_m
  + ALIGN_TO_256_BYTES(SEEDBYTES + CRHBYTES + W1Size(d)) + ALIGN_TO_256_BYTES(CRHBYTES)
  + DILITHIUM_K(d) * DILITHIUM_L(d) * POLY + 3 * DILITHIUM_L(d) * POLY
  + 4 * DILITHIUM_K(d) * POLY + POLY
sign_sizeWithoutMessage(d, m) == sign_row(d, ALIGN_TO_256_BYTES(SEEDBYTES))
sign_size(d, m) == sign_row(d, ALIGN_TO_256_BYTES(SEEDBYTES + m))

temp_sizeAsSign(d, m) == sign_size(d, m)
temp_size(d, m) ==
  ALIGN_TO_256_BYTES(CRYPTO_BYTES(d)) + ALIGN_TO_256_BYTES(CRHBYTES + W1Size(d))
  + 2 * DILITHIUM_L(d) * POLY + 3 * DILITHIUM_K(d) * POLY

verify_size(d, m) ==
  ALIGN_TO_256_BYTES(CRYPTO_BYTES(d)) + ALIGN_TO_256_BYTES(CRYPTO_PUBLICKEYBYTES(d))
  + ALIGN_TO_256_BYTES(SEEDBYTES + m) + ALIGN_TO_256_BYTES(CRHBYTES + W1Size(d))
  + ALIGN_TO_256_BYTES(SEEDBYTES)
  + DILITHIUM_K(d) * DILITHIUM_L(d) * POLY + DILITHIUM_L(d) * POLY
  + 3 * DILITHIUM_K(d) * POLY + POLY + INT32

-----------------------------------------------------------------------------
(* The areas of a row as api.cu lays them out, and what is used of them. *)

Area(start, bytes) == [from |-> start, to |-> start + bytes]

SecretKey(d, sk) ==
  LET key == sk + SEEDBYTES
      tr == key + SEEDBYTES
      s1 == tr + SEEDBYTES
      s2 == s1 + DILITHIUM_L(d) * POLYETA_PACKEDBYTES(d)
      t0 == s2 + DILITHIUM_K(d) * POLYETA_PACKEDBYTES(d)
  IN  <<Area(sk, SEEDBYTES), Area(key, SEEDBYTES), Area(tr, SEEDBYTES),
        Area(s1, DILITHIUM_L(d) * POLYETA_PACKEDBYTES(d)),
        Area(s2, DILITHIUM_K(d) * POLYETA_PACKEDBYTES(d)),
        Area(t0, DILITHIUM_K(d) * POLYT0_PACKEDBYTES)>>

Signature(d, sig) ==
  LET z == sig + SEEDBYTES
      hint == z + DILITHIUM_L(d) * POLYZ_PACKEDBYTES(d)
  IN  <<Area(sig, SEEDBYTES), Area(z, DILITHIUM_L(d) * POLYZ_PACKEDBYTES(d)),
        Area(hint, OMEGA(d) + DILITHIUM_K(d))>>

PublicKey(d, pk) ==
  <<Area(pk, SEEDBYTES), Area(pk + SEEDBYTES, DILITHIUM_K(d) * POLYT1_PACKEDBYTES)>>

keypair_layout(d) ==
  LET sk == ALIGN_TO_256_BYTES(CRYPTO_PUBLICKEYBYTES(d))
      t1 == sk + ALIGN_TO_256_BYTES(CRYPTO_SECRETKEYBYTES(d))
  IN  PublicKey(d, 0) \o SecretKey(d, sk) \o <<Area(t1, DILITHIUM_K(d) * POLY)>>

sign_layout(d, m) ==
  LET sk == ALIGN_TO_256_BYTES(CRYPTO_BYTES(d))
      rho == sk + ALIGN_TO_256_BYTES(CRYPTO_SECRETKEYBYTES(d))
      tr == rho + ALIGN_TO_256_BYTES(SEEDBYTES)
      key == tr + ALIGN_TO_256_BYTES(SEEDBYTES + m)
      mu == key + SEEDBYTES
      w1_packed == mu + CRHBYTES
      rhoprime == key + ALIGN_TO_256_BYTES(SEEDBYTES + CRHBYTES + W1Size(d))
      mat == rhoprime + ALIGN_TO_256_BYTES(CRHBYTES)
      s1 == mat + DILITHIUM_K(d) * DILITHIUM_L(d) * POLY
      y == s1 + DILITHIUM_L(d) * POLY
      z == y + DILITHIUM_L(d) * POLY
      t0 == z + DILITHIUM_L(d) * POLY
      s2 == t0 + DILITHIUM_K(d) * POLY
      w1 == s2 + DILITHIUM_K(d) * POLY
      w0 == w1 + DILITHIUM_K(d) * POLY
      cp == w0 + DILITHIUM_K(d) * POLY
  IN  Signature(d, 0) \o SecretKey(d, sk)
      \o <<Area(rho, SEEDBYTES), Area(tr, SEEDBYTES), Area(tr + SEEDBYTES, m),
           Area(key, SEEDBYTES), Area(mu, CRHBYTES), Area(w1_packed, W1Size(d)),
           Area(rhoprime, CRHBYTES)>>
      \o <<Area(mat, DILITHIUM_K(d) * DILITHIUM_L(d) * POLY), Area(s1, DILITHIUM_L(d) * POLY),
           Area(y, DILITHIUM_L(d) * POLY), Area(z, DILITHIUM_L(d) * POLY),
           Area(t0, DILITHIUM_K(d) * POLY), Area(s2, DILITHIUM_K(d) * POLY),
           Area(w1, DILITHIUM_K(d) * POLY), Area(w0, DILITHIUM_K(d) * POLY), Area(cp, POLY)>>

temp_layout(d) ==
  LET mu == ALIGN_TO_256_BYTES(CRYPTO_BYTES(d))
      y == mu + ALIGN_TO_256_BYTES(CRHBYTES + W1Size(d))
      z == y + DILITHIUM_L(d) * POLY
      w0 == z + DILITHIUM_L(d) * POLY
      w1 == w0 + DILITHIUM_K(d) * POLY
      cp == w1 + DILITHIUM_K(d) * POLY
  IN  Signature(d, 0) \o <<Area(mu, CRHBYTES), Area(mu + CRHBYTES, W1Size(d))>>
      \o <<Area(y, DILITHIUM_L(d) * POLY), Area(z, DILITHIUM_L(d) * POLY),
           Area(w0, DILITHIUM_K(d) * POLY), Area(w1, DILITHIUM_K(d) * POLY), Area(cp, POLY)>>

verify_layout(d, m) ==
  LET pk == ALIGN_TO_256_BYTES(CRYPTO_BYTES(d))
      muprime == pk + ALIGN_TO_256_BYTES(CRYPTO_PUBLICKEYBYTES(d))
      mu == muprime + ALIGN_TO_256_BYTES(SEEDBYTES + m)
      ctilde == mu + ALIGN_TO_256_BYTES(CRHBYTES + W1Size(d))
      mat == ctilde + ALIGN_TO_256_BYTES(SEEDBYTES)
      z == mat + DILITHIUM_K(d) * DILITHIUM_L(d) * POLY
      t1 == z + DILITHIUM_L(d) * POLY
      w1prime == t1 + DILITHIUM_K(d) * POLY
      h == w1prime + DILITHIUM_K(d) * POLY
      cp == h + DILITHIUM_K(d) * POLY
      ret == cp + POLY
  IN  Signature(d, 0) \o PublicKey(d, pk)
      \o <<Area(muprime, SEEDBYTES), Area(muprime + SEEDBYTES, m), Area(mu, CRHBYTES),
           Area(mu + CRHBYTES, W1Size(d)), Area(ctilde, SEEDBYTES)>>
      \o <<Area(mat, DILITHIUM_K(d) * DILITHIUM_L(d) * POLY), Area(z, DILITHIUM_L(d) * POLY),
           Area(t1, DILITHIUM_K(d) * POLY), Area(w1prime, DILITHIUM_K(d) * POLY),
           Area(h, DILITHIUM_K(d) * POLY), Area(cp, POLY), Area(ret, INT32)>>

-----------------------------------------------------------------------------
\* cudaMallocPitch rounds the size of a row up.
Pitch(bytes, g) == ((bytes + g - 1) \div g) * g

\* A kernel of the signing loop knows by the pitches which path it is on: the
\* direct path works in the row of its item and passes one pitch twice, the
\* predict path works in the row of its slot.
temp_idx_offset(sign_mem_pool_pitch, temp_mem_pool_pitch, item, slot) ==
  IF sign_mem_pool_pitch = temp_mem_pool_pitch
  THEN item * sign_mem_pool_pitch
  ELSE slot * temp_mem_pool_pitch

\* The areas lie one behind the other between two offsets.
InOrder(areas, first, last) ==
  /\ Len(areas) > 0
  /\ first <= areas[1].from /\ areas[Len(areas)].to <= last
  /\ \A i \in 1 .. Len(areas) : areas[i].from <= areas[i].to
  /\ \A i \in 1 .. Len(areas) - 1 : areas[i].to <= areas[i + 1].from

LayoutInit ==
  /\ level \in {2, 3, 5}
  /\ mlen \in MessageLengths
  /\ granularity \in Granularities

-----------------------------------------------------------------------------
\* In every pool of every call the areas api.cu lays out, and the kernels
\* write, do not overlap and lie in the row that the wrapper allocated, for
\* every length of the message.
PoolsFit ==
  /\ InOrder(keypair_layout(level), 0, keypair_size(level))
  /\ InOrder(sign_layout(level, mlen), 0, sign_size(level, mlen))
  /\ InOrder(temp_layout(level), 0, temp_size(level, mlen))
  /\ InOrder(verify_layout(level, mlen), 0, verify_size(level, mlen))

\* On both paths of signing the kernels find the row they have to work in:
\* the rows of the two pools never have the same pitch.
PathsToldApart ==
  LET sign_pitch == Pitch(sign_size(level, mlen), granularity)
      temp_pitch == Pitch(temp_size(level, mlen), granularity)
  IN  \A item, slot \in ItemsAndSlots :
        /\ temp_idx_offset(sign_pitch, sign_pitch, item, slot) = item * sign_pitch
        /\ temp_idx_offset(sign_pitch, temp_pitch, item, slot) = slot * temp_pitch
=============================================================================
