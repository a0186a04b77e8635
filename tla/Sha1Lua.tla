------------------------------ MODULE Sha1Lua -------------------------------
(***************************************************************************)
(* The Lua binding of src/sha1/sha1_lua.c: sha1.digest(s) runs SHA1_Init,  *)
(* SHA1_Update and SHA1_Final of the external sha1.h (not under src/) and  *)
(* turns the 20-byte digest into text with digest_to_string, then pushes   *)
(* SHA1_DIGEST_STRING_SIZE (40) characters of the zero-initialised buffer. *)
(* The hash itself is left to its library: the input is any digest.  Each  *)
(* state holds one digest, as in AddrCodec.                                *)
(***************************************************************************)
EXTENDS Integers, Sequences

CONSTANT Digests   \* byte sequences SHA1_Final may produce

VARIABLE digestIn

SHA1_DIGEST_SIZE == 20
SHA1_DIGEST_STRING_SIZE == SHA1_DIGEST_SIZE * 2
NUL_CHAR == "NUL"   \* the terminating NUL sprintf writes

HexDigits == <<"0", "1", "2", "3", "4", "5", "6", "7",
               "8", "9", "a", "b", "c", "d", "e", "f">>

(* Variant of Hex02x that formats with "%x", dropping the leading zero. *)
Hex02x_unpadded(b) ==
  IF b < 16 THEN <<HexDigits[b + 1]>>
  ELSE <<HexDigits[b \div 16 + 1], HexDigits[(b % 16) + 1]>>

(* sprintf(c, "%02x", b): two lowercase hex digits, zero-padded. *)
Hex02x(b) == <<HexDigits[b \div 16 + 1], HexDigits[(b % 16) + 1]>>

(* digest_to_string: sprintf prints byte i and its terminating NUL at c,   *)
(* then c advances by 2, so each byte owns two characters of the buffer;   *)
(* the NUL after the last byte lies beyond the 40 that are pushed.         *)
RECURSIVE digest_to_string(_, _)
digest_to_string(digest, i) ==
  IF i > SHA1_DIGEST_SIZE THEN <<>>
  ELSE LET out == Hex02x(digest[i]) \o <<NUL_CHAR>>
       IN <<out[1], out[2]>> \o digest_to_string(digest, i + 1)

(* sha1_digest: lua_pushlstring of the SHA1_DIGEST_STRING_SIZE characters  *)
(* of digestString that digest_to_string filled.                           *)
sha1_digest(digest) == digest_to_string(digest, 1)

-----------------------------------------------------------------------------
Sha1Init == digestIn \in Digests
Sha1Spec == Sha1Init /\ [][UNCHANGED digestIn]_digestIn

(* Reference: the value of one hex digit. *)
HexValue(c) == CHOOSE v \in 0..15 : HexDigits[v + 1] = c

(* sha1.digest returns the digest as exactly 40 lowercase hex digits, two   *)
(* per byte, high nibble first: reading them back gives every byte, and no  *)
(* NUL from the buffer's padding reaches the Lua string.                    *)
DigestIsHex ==
  LET s == sha1_digest(digestIn)
  IN /\ \A i \in 1..SHA1_DIGEST_STRING_SIZE : s[i] \in {HexDigits[k] : k \in 1..16}
     /\ \A j \in 1..SHA1_DIGEST_SIZE :
          HexValue(s[2 * j - 1]) * 16 + HexValue(s[2 * j]) = digestIn[j]
=============================================================================
