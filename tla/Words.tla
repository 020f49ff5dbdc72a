------------------------------- MODULE Words -------------------------------
(***************************************************************************)
(* The machine's integers and its little-endian memory, at a scale.        *)
(*                                                                         *)
(* The program's word is four 8-bit bytes.  Here a byte has BYTE values,   *)
(* a halfword is two bytes and a word four, so BYTE = 256 is the program   *)
(* and BYTE = 4 (2-bit bytes, 8-bit words) is what TLC enumerates.  Every  *)
(* wrapping operator of the source (+%, -%, @truncate) is a "% WordMod".   *)
(***************************************************************************)
EXTENDS Integers

CONSTANT BYTE       \* number of values of a byte: 256 in the program

\* Bits [1:0] of an instruction's first byte give its length (isCompressed), so
\* a byte has at least two bits.
ASSUME ByteAssumption == BYTE \in Nat /\ BYTE > 0 /\ BYTE % 4 = 0

HalfMod == BYTE * BYTE
WordMod == HalfMod * HalfMod

Byte == 0 .. BYTE - 1
Half == 0 .. HalfMod - 1
Word == 0 .. WordMod - 1

\* The absent value of an optional (?u32, ?u64 in the source).
NONE == -1

\* a +% b: wrapping addition of words.
AddW(a, b) == (a + b) % WordMod

\* @bitCast(u32 -> i32).
Signed(w) == IF w < WordMod \div 2 THEN w ELSE w - WordMod

\* Sign extension to a word of a value v below mod (a byte or a halfword).
SignExtend(v, mod) == IF v < mod \div 2 THEN v ELSE v + (WordMod - mod)

\* std.mem.readInt(.little) of two and of four bytes of memory m at address a.
HalfAt(m, a) == m[a] + BYTE * m[a + 1]
WordAt(m, a) == HalfAt(m, a) + HalfMod * HalfAt(m, a + 2)

\* Byte i (0 is the least significant) of a value: what writeInt(.little)
\* stores at offset i.
ByteOf(v, i) ==
    CASE i = 0 -> v % BYTE
      [] i = 1 -> (v \div BYTE) % BYTE
      [] i = 2 -> (v \div HalfMod) % BYTE
      [] OTHER -> (v \div (HalfMod * BYTE)) % BYTE

\* Memory m with the n low bytes of v stored at a (writeInt, .little).
StoreLE(m, a, n, v) ==
    [x \in DOMAIN m |-> IF a <= x /\ x < a + n THEN ByteOf(v, x - a) ELSE m[x]]

\* The conditions of the branches (exec_i.zig).
branchTaken(op, a, b) ==
    CASE op = "BEQ"  -> a = b
      [] op = "BNE"  -> a # b
      [] op = "BLT"  -> Signed(a) < Signed(b)
      [] op = "BGE"  -> Signed(a) >= Signed(b)
      [] op = "BLTU" -> a < b
      [] OTHER       -> a >= b

=============================================================================
