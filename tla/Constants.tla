------------------------------ MODULE Constants ------------------------------
(***************************************************************************)
(* How a constant gets from a module into the C text: the LEB128 readers   *)
(* of w2c2/leb128.h, the const instructions and wasmCWriteLiteral.         *)
(*                                                                         *)
(* An integer has Bits bits, sent in groups of Group (32 or 64, and 7); a  *)
(* byte is [more, bits]. A float's bit pattern is [sign, ones, high, low]: *)
(* whether the exponent is all ones, and the significand above and in its  *)
(* 23 low bits.                                                            *)
(***************************************************************************)
EXTENDS Integers, Sequences

CONSTANTS
    Bits, Group,
    Kinds         \* of constants: "u" (an index), "i", "f32", "f64"

ConstantsAssumption ==
    Bits \in Nat \ {0} /\ Group \in Nat \ {0} /\ Kinds \subseteq {"u", "i", "f32", "f64"}

VARIABLES
    kind, meant,                  \* ghost: the constant of the module
    bytes,                        \* what the buffer holds from here on
    value, shift, count, byte,    \* of leb128ReadU32, leb128ReadI32
    stopped,                      \* its loop has ended
    literal                       \* the C text, when it is written

constantVars == <<kind, meant, bytes, value, shift, count, byte, stopped, literal>>

(* the powers of two that a shift multiplies by *)
pow2[n \in Nat] == IF n = 0 THEN 1 ELSE 2 * pow2[n - 1]

MaxByteCount == (Bits + Group - 1) \div Group
Word == pow2[Bits]

(* what follows the constant, here a byte that would go on with it *)
Following == [more |-> TRUE, bits |-> 1]
NoByte == [more |-> FALSE, bits |-> 0]

Patterns(k) ==
    {p \in [sign : {0, 1}, ones : BOOLEAN, high : {0, 1}, low : {0, 1}] : k = "f32" => p.high = 0}

(* the numbers that n groups hold, and the bytes of one *)
Fits(k, v, n) ==
    IF k = "u" THEN v < pow2[n * Group]
    ELSE -pow2[n * Group - 1] <= v /\ v < pow2[n * Group - 1]
GroupOf(v, shifted) == (v \div pow2[shifted]) % pow2[Group]
Encoding(v, n) ==
    [j \in 1 .. n |-> [more |-> j < n, bits |-> GroupOf(v, (j - 1) * Group)]]

NumbersOf(k) == IF k = "u" THEN 0 .. Word - 1 ELSE -(Word \div 2) .. Word \div 2 - 1

ConstantInit ==
    /\ kind \in Kinds
    /\ IF kind \in {"u", "i"}
         THEN /\ meant \in NumbersOf(kind)
              /\ \E n \in 1 .. MaxByteCount :
                   Fits(kind, meant, n) /\ bytes = Append(Encoding(meant, n), Following)
              /\ stopped = FALSE
         ELSE meant \in Patterns(kind) /\ bytes = <<Following>> /\ stopped = TRUE
    /\ value = 0 /\ shift = 0 /\ count = 0 /\ byte = NoByte /\ literal = <<>>

-----------------------------------------------------------------------------
(* mutant: the limit is rounded down *)
LimitRoundedDown == count + 1 = Bits \div Group
TooLong == count + 1 = MaxByteCount

(* one turn of the loop; the buffer is never empty here *)
leb128Read ==
    /\ ~stopped
    /\ byte' = Head(bytes) /\ bytes' = Tail(bytes)
    /\ count' = count + 1
    /\ value' = (value + byte'.bits * pow2[shift]) % Word
    /\ shift' = shift + Group
    /\ stopped' = (~byte'.more \/ TooLong)
    /\ UNCHANGED <<kind, meant, literal>>

Negative(b) == b.bits >= pow2[Group - 1]

Extends == kind = "i" /\ shift < Bits /\ Negative(byte)

Extended == IF Extends THEN value + (Word - pow2[shift]) ELSE value

(* sprintf "%i" of the signed number, then U *)
IntegerLiteral(v) ==
    [form |-> "integer", minus |-> v >= Word \div 2, digits |-> IF v >= Word \div 2 THEN Word - v ELSE v]

Significand(p) == IF kind = "f32" THEN p.high + p.low ELSE p.low

FloatLiteral(p) ==
    IF p.ones /\ Significand(p) = 0
      THEN [form |-> "INFINITY", minus |-> p.sign = 1]
      ELSE [form |-> "reinterpret", bits |-> p]

wasmCWriteLiteral ==
    /\ stopped /\ literal = <<>> /\ kind # "u"
    /\ literal' = <<IF kind = "i" THEN IntegerLiteral(Extended) ELSE FloatLiteral(meant)>>
    /\ UNCHANGED <<kind, meant, bytes, value, shift, count, byte, stopped>>

ConstantNext == leb128Read \/ wasmCWriteLiteral

ConstantSpec == ConstantInit /\ [][ConstantNext]_constantVars

-----------------------------------------------------------------------------
(* what the C text means *)
Meaning(l) ==
    CASE l.form = "integer" -> (IF l.minus THEN Word - l.digits ELSE l.digits) % Word
      [] l.form = "INFINITY" -> [sign |-> IF l.minus THEN 1 ELSE 0, ones |-> TRUE, high |-> 0, low |-> 0]
      [] l.form = "reinterpret" -> l.bits

(***************************************************************************)
(* The C constant is the constant of the module, bit for bit, whichever of *)
(* its encodings the module uses. PATCHES.md promises it for floats.       *)
(***************************************************************************)
ConstantExact ==
    literal # <<>> => Meaning(literal[1]) = IF kind = "i" THEN meant % Word ELSE meant

(***************************************************************************)
(* A reader gets the number that was encoded and takes exactly its bytes,  *)
(* so that the next opcode is read from where it starts.                   *)
(***************************************************************************)
ReadsWholeNumber ==
    stopped => /\ bytes = <<Following>>
               /\ kind \in {"u", "i"} => Extended = meant % Word

(***************************************************************************)
(* What the translator makes of a constant: it is read to its last byte    *)
(* and its C text has its bits (leb128Read, wasmCWriteLiteral).            *)
(***************************************************************************)
ConstantKept == ReadsWholeNumber /\ ConstantExact
===============================================================================
