------------------------------ MODULE MCCodecs ------------------------------
(* Bounded inputs for the pure conversions, AddrCodec and XPFS.           *)
(* AddrCodec: every string of up to six characters over two digits, the   *)
(* separators and one stray letter (enough for an octet above 255, a port *)
(* above 65535 and trailing garbage), every string of seven to nine       *)
(* characters over "1" and "." (four and five octets), and addresses whose *)
(* bytes and ports have distinct high and low halves.                      *)
(* XPFS: st_mode values with every combination of user bits, under group  *)
(* and other bits none, some or all set, and under no bits above them or  *)
(* S_IFREG|S_ISUID (0104000); mode strings of up to three characters      *)
(* over the signs, the three letters and one stray letter.                *)
(* Sha1Lua: digests with every byte value first and last, 0xab elsewhere. *)
(* XLua: the world of MCXLua and every value of XLua's Values.            *)
EXTENDS AddrCodec, XPFS, Sha1Lua, MCXLua

MCInputs ==
  BoundedSeq({"0", "9", ".", ":", "x"}, 6)
    \cup UNION {[1..n -> {"1", "."}] : n \in 7..9}

MCSamples ==
  {[family |-> "AF_INET", addr |-> <<a, b, c, d>>, port |-> Htons(p)] :
     a \in {0, 10, 255}, b \in {0, 9}, c \in {1, 255}, d \in {0, 10, 255},
     p \in {0, 80, 258, 65535}}

MCStModes ==
  {t + g + u : t \in {0, 34816}, g \in {0, 36, 63},
               u \in {0, 64, 128, 192, 256, 320, 384, 448}}

MCModeStrings == BoundedSeq({"+", "-", "r", "w", "x", "q"}, 3)

MCDigests ==
  {[i \in 1..SHA1_DIGEST_SIZE |-> IF i = k THEN b ELSE 171] :
     k \in {1, SHA1_DIGEST_SIZE}, b \in 0..255}

(* A state is the input of one call to one module; the other modules'     *)
(* inputs are ones their properties also hold for ("", mode 0, the zero    *)
(* digest, a number checked as an XPQueue).                                *)
NoAddr == str = <<>>
NoFs == stModeIn = 0 /\ szmodeIn = <<>>
NoSha1 == digestIn = [i \in 1..SHA1_DIGEST_SIZE |-> 0]
NoXLua ==
  /\ castArg = [type |-> "number", ptr |-> NULL, mt |-> NONE]
  /\ castRegs = Regs("xpio1", "XPQueue")

CodecsInit ==
  \/ Init /\ NoFs /\ NoSha1 /\ NoXLua
  \/ NoAddr /\ FsInit /\ NoSha1 /\ NoXLua
  \/ NoAddr /\ NoFs /\ Sha1Init /\ NoXLua
  \/ NoAddr /\ NoFs /\ NoSha1 /\ XLuaInit
codecVars == <<str, stModeIn, szmodeIn, digestIn, castArg, castRegs>>
CodecsSpec == CodecsInit /\ [][UNCHANGED codecVars]_codecVars
=============================================================================
