-------------------------------- MODULE XPFS --------------------------------
(***************************************************************************)
(* The conversions of src/luau/xpfs.c.  Every function of the module is   *)
(* one system call wrapped for Lua; two of them compute something of their *)
(* own, and are modelled here as operators:                                *)
(*   xpfs.chmod(name, szmode) reads st_mode with stat() and writes back    *)
(*     the mode computed from it and from szmode with chmod();             *)
(*   xpfs.stat(name, mask) builds a table from struct stat: the fields     *)
(*     the mask selects, the permission string, the kind letter and the    *)
(*     time max(mtime, ctime).                                             *)
(* A C string is a sequence of one-character strings.  A struct stat is a  *)
(* record of the fields the table reads; its file type is the name of the  *)
(* S_ISxxx test that holds for it.                                         *)
(*                                                                         *)
(* As in AddrCodec, each state holds the input of one call (the mode stat()*)
(* reports and the host's szmode), and the properties compare the code's   *)
(* operators with reference definitions over every input of bounded sets. *)
(***************************************************************************)
EXTENDS Integers, Sequences, Bitwise

CONSTANTS
  StModes,      \* st_mode values stat() may report
  ModeStrings   \* szmode strings the host passes to chmod

VARIABLES
  stModeIn,   \* the st_mode stat() reports for the call
  szmodeIn    \* the host's szmode

S_IRUSR == 256   \* 0400
S_IWUSR == 128   \* 0200
S_IXUSR == 64    \* 0100
S_IRWXU == 448   \* 0700

(* The bit one character of szmode names; 0 for any other character. *)
ModeBit(c) ==
  CASE c = "r" -> S_IRUSR [] c = "w" -> S_IWUSR [] c = "x" -> S_IXUSR
    [] OTHER -> 0

(* The loop of xpfs_chmod over the remaining characters: with pm = '-'    *)
(* each bit is cleared (MMM &= ~bit), otherwise it is set (MMM |= bit).    *)
RECURSIVE ApplyModeChars(_, _, _)
ApplyModeChars(MMM, pm, chars) ==
  IF chars = <<>> THEN MMM
  ELSE ApplyModeChars(IF pm = "-" THEN MMM - (MMM & ModeBit(Head(chars)))
                                  ELSE MMM | ModeBit(Head(chars)),
                      pm, Tail(chars))

(* Variant of ChmodMode that clears all nine permission bits (0777)        *)
(* instead of the user's (S_IRWXU) for an absolute szmode.                 *)
ChmodMode_clear777(st_mode, szmode) ==
  LET pm == IF szmode = <<>> THEN "NUL" ELSE Head(szmode)
  IN IF pm \in {"+", "-"}
       THEN ApplyModeChars(st_mode, pm, Tail(szmode))
       ELSE ApplyModeChars(st_mode - (st_mode & 511), pm, szmode)

(* xpfs_chmod, after a successful stat(): a leading '+' or '-' is skipped  *)
(* and selects set or clear; any other first character (the NUL of "" as *)
(* well) starts from st_mode with the user bits cleared, and is itself     *)
(* read as a mode character.  The result is what chmod() is given.         *)
ChmodMode(st_mode, szmode) ==
  LET pm == IF szmode = <<>> THEN "NUL" ELSE Head(szmode)
  IN IF pm \in {"+", "-"}
       THEN ApplyModeChars(st_mode, pm, Tail(szmode))
       ELSE ApplyModeChars(st_mode - (st_mode & S_IRWXU), pm, szmode)

(* Variant of PermGroups that fills the groups from 0 (user) up, so that   *)
(* the low bits land in the user's group.                                  *)
RECURSIVE PermGroups_ascending(_, _, _)
PermGroups_ascending(perm, group, m) ==
  IF group > 2 THEN perm
  ELSE PermGroups_ascending(
         [perm EXCEPT ![group * 3 + 1] = IF (m & 4) # 0 THEN "r" ELSE "-",
                      ![group * 3 + 2] = IF (m & 2) # 0 THEN "w" ELSE "-",
                      ![group * 3 + 3] = IF (m & 1) # 0 THEN "x" ELSE "-"],
         group + 1, m \div 8)

(* The perm loop of do_stat: for group = 2 down to 0, with m >>= 3 after   *)
(* each, perm[group*3 + 0..2] gets 'r', 'w', 'x' or '-' from bits 4, 2, 1  *)
(* of m (the sequence is 1-based, the C array 0-based).                    *)
RECURSIVE PermGroups(_, _, _)
PermGroups(perm, group, m) ==
  IF group < 0 THEN perm
  ELSE PermGroups(
         [perm EXCEPT ![group * 3 + 1] = IF (m & 4) # 0 THEN "r" ELSE "-",
                      ![group * 3 + 2] = IF (m & 2) # 0 THEN "w" ELSE "-",
                      ![group * 3 + 3] = IF (m & 1) # 0 THEN "x" ELSE "-"],
         group - 1, m \div 8)

PermString(st_mode) == PermGroups([i \in 1..9 |-> "-"], 2, st_mode)

(* The kind letter: the first S_ISxxx test that holds, "o" if none. *)
StatKind(type) ==
  CASE type = "REG" -> "f" [] type = "DIR" -> "d" [] type = "LNK" -> "l"
    [] type = "BLK" -> "b" [] type = "CHR" -> "c" [] type = "SOCK" -> "s"
    [] type = "FIFO" -> "p" [] OTHER -> "o"

(* The mask characters and the field each one adds; '*' adds them all. *)
MaskField == [p |-> "perm", k |-> "kind", s |-> "size", t |-> "time",
              m |-> "mtime", a |-> "atime", c |-> "ctime", i |-> "inode",
              d |-> "dev", u |-> "uid", g |-> "gid"]

StatFields(mask) ==
  UNION {IF mask[j] = "*" THEN {MaskField[ch] : ch \in DOMAIN MaskField}
         ELSE IF mask[j] \in DOMAIN MaskField THEN {MaskField[mask[j]]}
         ELSE {} : j \in 1..Len(mask)}

(* do_stat: lstat() when the mask starts with 'L', stat() otherwise; on    *)
(* success the table holds the fields the mask names (an 'L' names none).  *)
StatCall(mask) == IF mask # <<>> /\ Head(mask) = "L" THEN "lstat" ELSE "stat"

StatTable(info, mask) ==
  LET value(f) ==
        CASE f = "perm" -> PermString(info.mode)
          [] f = "kind" -> StatKind(info.type)
          [] f = "time" -> IF info.mtime > info.ctime THEN info.mtime
                           ELSE info.ctime
          [] f = "inode" -> info.ino
          [] OTHER -> info[f]
  IN [f \in StatFields(mask) |-> value(f)]

-----------------------------------------------------------------------------
FsInit == stModeIn \in StModes /\ szmodeIn \in ModeStrings
FsSpec == FsInit /\ [][UNCHANGED <<stModeIn, szmodeIn>>]_<<stModeIn, szmodeIn>>

(* References: the permission bits in the order `ls -l' prints them, and  *)
(* szmode in the convention of chmod(1) restricted to the user, as the     *)
(* code's comment puts it ("we only want to change user bits here"): "rw"  *)
(* sets the user's bits to exactly those, "+x" adds, "-w" removes, and     *)
(* every other bit is left alone.                                          *)
UserBits(m) == {b \in {S_IRUSR, S_IWUSR, S_IXUSR} : (m \div b) % 2 = 1}
Letters(s) == {ModeBit(s[j]) : j \in 1..Len(s)} \ {0}

RefChmodUserBits(m, s) ==
  IF s # <<>> /\ Head(s) = "+" THEN UserBits(m) \cup Letters(Tail(s))
  ELSE IF s # <<>> /\ Head(s) = "-" THEN UserBits(m) \ Letters(Tail(s))
  ELSE Letters(s)

RefPerm(m) ==
  [i \in 1..9 |-> IF (m \div 2^(9 - i)) % 2 = 1
                    THEN <<"r", "w", "x">>[((i - 1) % 3) + 1] ELSE "-"]

(* xpfs.chmod changes only the user's bits of the mode stat() reported,   *)
(* and sets them as szmode says: a leading '+' adds the letters, '-'       *)
(* removes them, anything else (the empty string too) sets exactly the     *)
(* letters named.  Characters other than r, w and x are ignored.           *)
ChmodAgreesWithRef ==
  LET r == ChmodMode(stModeIn, szmodeIn)
  IN /\ r - (r & S_IRWXU) = stModeIn - (stModeIn & S_IRWXU)
     /\ UserBits(r) = RefChmodUserBits(stModeIn, szmodeIn)

(* xpfs.stat's perm field lists the nine permission bits of st_mode in    *)
(* ls order (user, group, other; r, w, x), whatever file-type, setuid or   *)
(* sticky bits lie above them.                                             *)
PermMatchesLs == PermString(stModeIn) = RefPerm(stModeIn % 512)
=============================================================================
