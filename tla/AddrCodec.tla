------------------------------ MODULE AddrCodec -----------------------------
(***************************************************************************)
(* The IPv4 address codec of src/luau/xpio_c.c: addrFromString (with       *)
(* scanNum), which bind and try_connect use to parse "a.b.c.d:port", and   *)
(* xpsocket_getXname, which getsockname and getpeername use to format a    *)
(* struct sockaddr_in.  A C string is a sequence of one-character strings; *)
(* reading past its end reads the terminating NUL.  An `unsigned' is a    *)
(* pair <<high, low>> of 16-bit halves, so that its arithmetic mod 2^32    *)
(* stays within TLC's integers.  A sockaddr_in is kept as the bytes the    *)
(* code stores: sin_addr and sin_port in network (big-endian) order.       *)
(*                                                                         *)
(* Each state holds one input string, and the behaviour is that single     *)
(* state: the properties compare the code's operators with the grammar    *)
(* and packing of spec sec. 4.1 over every input of a bounded set.         *)
(***************************************************************************)
EXTENDS Integers, Sequences, SequencesExt

CONSTANTS
  Inputs,   \* strings parsed: sequences of one-character strings
  Samples   \* sockaddr_in values formatted and parsed back

VARIABLE str

NUL == "NUL"
(* The characters '0' to ':' in ASCII order, and ch - '0' for them. *)
FromZero == <<"0", "1", "2", "3", "4", "5", "6", "7", "8", "9", ":">>
Minus0(c) == CHOOSE d \in 0..10 : FromZero[d + 1] = c

(* The character at position p (1-based), NUL past the end. *)
At(s, p) == IF p <= Len(s) THEN s[p] ELSE NUL

(* Variant of isDigit with bound 10 for 9, which also takes ':' ('0'+10). *)
isDigit_upTo10(c) == c \in ToSet(FromZero) /\ Minus0(c) <= 10

(* isDigit: (unsigned)(ch - '0') <= 9; every other character of the       *)
(* inputs lies below '0' (wrapping to a large unsigned) or above ':'.      *)
isDigit(c) == c \in ToSet(FromZero) /\ Minus0(c) <= 9

(* unsigned arithmetic, mod 2^32 *)
H == 65536
MulAdd(x, m, d) ==   \* x * m + d, for m, d < 2^15
  LET lo == x[2] * m + d IN <<(x[1] * m + lo \div H) % H, lo % H>>
Plus(x, y) ==
  LET lo == x[2] + y[2] IN <<(x[1] + y[1] + lo \div H) % H, lo % H>>
Shl8(x) == <<(x[1] * 256 + x[2] \div 256) % H, (x[2] % 256) * 256>>
Shl16(x) == <<x[2], 0>>
Shl24(x) == <<(x[2] % 256) * 256, 0>>

(* htonl / htons: a host-order value as the bytes stored in memory. *)
Htonl(x) == <<x[1] \div 256, x[1] % 256, x[2] \div 256, x[2] % 256>>
Htons(x) == <<(x \div 256) % 256, x % 256>>

-----------------------------------------------------------------------------
(* scanNum: the digit run of s from p on as an unsigned (wrapping); returns *)
(* <<value, position after the run>>.                                      *)
RECURSIVE scanNum(_, _, _)
scanNum(s, p, n) ==
  IF isDigit(At(s, p))
    THEN scanNum(s, p + 1, MulAdd(n, 10, Minus0(At(s, p))))
    ELSE <<n, p>>

(* Variant of the loop of addrFromString that rejects at i >= 3. *)
RECURSIVE ParseLoopEarlyReject(_, _, _)
ParseLoopEarlyReject(s, p, nums) ==
  CASE At(s, p) = NUL -> [ok |-> TRUE, nums |-> nums, port |-> <<0, 0>>]
    [] At(s, p) = ":" -> [ok |-> TRUE, nums |-> nums,
                          port |-> scanNum(s, p + 1, <<0, 0>>)[1]]
    [] Len(nums) >= 3 -> [ok |-> FALSE, nums |-> nums, port |-> <<0, 0>>]
    [] OTHER ->
         LET r == scanNum(s, p, <<0, 0>>)
         IN ParseLoopEarlyReject(s, IF At(s, r[2]) = "." THEN r[2] + 1 ELSE r[2],
                                 Append(nums, r[1]))

(* The loop of addrFromString: iteration i stops at NUL or at ':' (whose   *)
(* digits are the port), fails once four numbers are scanned, else scans  *)
(* nums[i] and skips one '.'.  `nums' holds the numbers scanned, so i is   *)
(* Len(nums); an iteration that scans no digit still counts.               *)
RECURSIVE ParseLoop(_, _, _)
ParseLoop(s, p, nums) ==
  CASE At(s, p) = NUL -> [ok |-> TRUE, nums |-> nums, port |-> <<0, 0>>]
    [] At(s, p) = ":" -> [ok |-> TRUE, nums |-> nums,
                          port |-> scanNum(s, p + 1, <<0, 0>>)[1]]
    [] Len(nums) >= 4 -> [ok |-> FALSE, nums |-> nums, port |-> <<0, 0>>]
    [] OTHER ->
         LET r == scanNum(s, p, <<0, 0>>)
         IN ParseLoop(s, IF At(s, r[2]) = "." THEN r[2] + 1 ELSE r[2],
                      Append(nums, r[1]))

Malformed == [family |-> "none"]

(* addrFromString: -1 on failure; else nums[0..2] are shifted only when    *)
(* more numbers follow them (`if (i > 1) nums[0] *= 0x1000000' ...), the   *)
(* four are summed, and address and port are stored by htonl and htons.   *)
addrFromString(s) ==
  LET r == ParseLoop(s, 1, <<>>)
      i == Len(r.nums)
      n(j) == IF j <= i THEN r.nums[j] ELSE <<0, 0>>
      sum == Plus(Plus(IF i > 1 THEN Shl24(n(1)) ELSE n(1),
                       IF i > 2 THEN Shl16(n(2)) ELSE n(2)),
                  Plus(IF i > 3 THEN Shl8(n(3)) ELSE n(3), n(4)))
  IN IF r.ok
       THEN [family |-> "AF_INET", addr |-> Htonl(sum),
             port |-> Htons(r.port[2])]
       ELSE Malformed

-----------------------------------------------------------------------------
(* The decimal digits of n, as lua_pushfstring's %d prints them. *)
RECURSIVE Decimal(_)
Decimal(n) ==
  IF n < 10 THEN <<FromZero[n + 1]>>
            ELSE Decimal(n \div 10) \o <<FromZero[(n % 10) + 1]>>

(* Variant of xpsocket_getXname that prints sin_port as stored, without   *)
(* the htons back to host order.                                           *)
xpsocket_getXname_rawPort(sin) ==
  FlattenSeq(<<Decimal(sin.addr[1]), <<".">>, Decimal(sin.addr[2]), <<".">>,
               Decimal(sin.addr[3]), <<".">>, Decimal(sin.addr[4]), <<":">>,
               Decimal(sin.port[2] * 256 + sin.port[1])>>)

(* xpsocket_getXname: "%d.%d.%d.%d:%d" of the four bytes of sin_addr in   *)
(* memory order and of htons(sin_port), i.e. the port in host order.      *)
xpsocket_getXname(sin) ==
  FlattenSeq(<<Decimal(sin.addr[1]), <<".">>, Decimal(sin.addr[2]), <<".">>,
               Decimal(sin.addr[3]), <<".">>, Decimal(sin.addr[4]), <<":">>,
               Decimal(sin.port[1] * 256 + sin.port[2])>>)

(* The cases of the unit test src/luau/xpio_c_q.c: scanNum's value and    *)
(* stop character, and the bytes addrFromString stores.                    *)
ScanCases ==
  { <<<<"1", "2", "3", ".">>, 123, ".">>,
    <<<<"1", "2", "3", " ">>, 123, " ">>,
    <<<<"2", "1", "4", "7", "4", "8", "3", "6", "4", "7">>, 2147483647, NUL>> }
AddrCases ==
  { <<<<"1", "2", "3", ".", "4", ".", "5", ".", "2", "5", "5", ":", "2", "5", "8">>,
      [family |-> "AF_INET", addr |-> <<123, 4, 5, 255>>, port |-> <<1, 2>>]>>,
    <<<<":", "1", "2", "3">>,
      [family |-> "AF_INET", addr |-> <<0, 0, 0, 0>>, port |-> <<0, 123>>]>>,
    <<<<"1", ".", "2", ".", "3", ".", "4">>,
      [family |-> "AF_INET", addr |-> <<1, 2, 3, 4>>, port |-> <<0, 0>>]>> }

-----------------------------------------------------------------------------
Init ==
  str \in Inputs \cup {xpsocket_getXname(a) : a \in Samples}
             \cup {c[1] : c \in ScanCases \cup AddrCases}
Next == UNCHANGED str
Spec == Init /\ [][Next]_str

TypeOK == str \in Seq(STRING)

-----------------------------------------------------------------------------
(* Spec sec. 4.1, as a reference: up to four dot-separated decimal octets  *)
(* (0..255), optionally followed by ":port" (0..65535), or ":port" alone;  *)
(* missing high octets and a missing port are 0; the address is           *)
(* (o0<<24)|(o1<<16)|(o2<<8)|o3 stored in network order.  Anything else is *)
(* malformed.                                                              *)
DecDigits == ToSet(SubSeq(FromZero, 1, 10))
IsDigitRun(w) == Len(w) > 0 /\ \A j \in 1..Len(w) : w[j] \in DecDigits
DecimalValue(w) == FoldLeft(LAMBDA acc, c : acc * 10 + Minus0(c), 0, w)
Positions(s, c) == {p \in 1..Len(s) : s[p] = c}
(* The dot-separated groups of h; none for the empty string. *)
RECURSIVE SplitDots(_)
SplitDots(h) ==
  LET d == Positions(h, ".") IN
  IF d = {} THEN <<h>>
  ELSE <<SubSeq(h, 1, Min(d) - 1)>> \o SplitDots(SubSeq(h, Min(d) + 1, Len(h)))
Groups(h) == IF h = <<>> THEN <<>> ELSE SplitDots(h)
SpecParse(s) ==
  LET colon == Positions(s, ":")
      cut == IF colon = {} THEN Len(s) + 1 ELSE Min(colon)
      g == Groups(SubSeq(s, 1, cut - 1))
      portStr == SubSeq(s, cut + 1, Len(s))
      k == Len(g)
      octet(j) == IF j <= 4 - k THEN 0 ELSE DecimalValue(g[j - (4 - k)])
  IN IF /\ k <= 4
        /\ \A j \in 1..k : IsDigitRun(g[j]) /\ DecimalValue(g[j]) <= 255
        /\ colon # {} => IsDigitRun(portStr) /\ DecimalValue(portStr) <= 65535
       THEN [family |-> "AF_INET", addr |-> <<octet(1), octet(2), octet(3), octet(4)>>,
             port |-> Htons(IF colon = {} THEN 0 ELSE DecimalValue(portStr))]
       ELSE Malformed

(* Spec sec. 4.1: every address the grammar allows is accepted: the loop   *)
(* of addrFromString fails only after a fourth number (i >= 4).            *)
WellFormedAccepted ==
  SpecParse(str) # Malformed => addrFromString(str) # Malformed

(* Spec sec. 4.1 and 8: formatting (getsockname/getpeername) is the inverse *)
(* of parsing: parsing what xpsocket_getXname prints gives back the same   *)
(* address and port, through htonl/htons and the byte order of each.       *)
RoundTrip ==
  \A a \in Samples : str = xpsocket_getXname(a) => addrFromString(str) = a

(* The unit test xpio_c_q.c passes: scanNum stops at the first non-digit  *)
(* with the digits' value, and addrFromString stores the expected bytes.  *)
UnitTestCasesHold ==
  /\ \A c \in ScanCases :
       str = c[1] =>
         LET r == scanNum(str, 1, <<0, 0>>)
         IN r[1][1] * 65536 + r[1][2] = c[2] /\ At(str, r[2]) = c[3]
  /\ \A c \in AddrCases : str = c[1] => addrFromString(str) = c[2]
=============================================================================
