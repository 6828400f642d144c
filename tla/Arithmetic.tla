----------------------------- MODULE Arithmetic -----------------------------
(***************************************************************************)
(* Integers of the compiler in cc/: the types that type.c gives to         *)
(* expressions and the conversions it puts in, the instructions that       *)
(* codegen.c (WebAssembly) and codegen_x86.c choose by them, and the       *)
(* folding of constants in parse.c.                                        *)
(*                                                                         *)
(* A type of 1, 2, 4 or 8 bytes has BitsOf[size] bits, which keeps all that *)
(* depends on widths and signs.  Registers and stack entries are natural   *)
(* numbers.  Floating point, pointers and long are left out.               *)
(***************************************************************************)
EXTENDS Integers, Sequences, Bitwise

CONSTANTS
  Families,     \* forms, types, a bound on the nodes, and the trees that a node joins to another
  Values,       \* values of numbers and variables
  Avoided       \* shapes that are left out

VARIABLES
  family,       \* that of this expression
  trees,        \* the expressions read so far, the last one on top
  nodes         \* nodes made

vars == <<family, trees, nodes>>

BitsOf == [size \in {1, 2, 4, 8} |-> CASE size = 1 -> 2 [] size = 2 -> 3 [] size = 4 -> 4 [] size = 8 -> 8]

-----------------------------------------------------------------------------
(* type.c.                                                                  *)

Type(kind, size, is_unsigned) == [kind |-> kind, size |-> size, is_unsigned |-> is_unsigned]
ty_bool == Type("bool", 1, FALSE)
ty_char == Type("char", 1, FALSE)
ty_uchar == Type("char", 1, TRUE)
ty_short == Type("short", 2, FALSE)
ty_ushort == Type("short", 2, TRUE)
ty_int == Type("int", 4, FALSE)
ty_uint == Type("int", 4, TRUE)
ty_llong == Type("long", 8, FALSE)
ty_ullong == Type("long", 8, TRUE)
enum_type == Type("enum", 4, FALSE)
Types == {ty_bool, ty_char, ty_uchar, ty_short, ty_ushort, ty_int, ty_uint,
          ty_llong, ty_ullong, enum_type}

\* The number that the low bits stand for.
Low(v, bits) == v % 2^bits
Signed(v, bits) == IF Low(v, bits) >= 2^(bits - 1) THEN Low(v, bits) - 2^bits ELSE Low(v, bits)
As(v, type) ==
  CASE type.kind = "bool" -> IF v = 0 THEN 0 ELSE 1
    [] type.kind # "bool" /\ type.is_unsigned -> Low(v, BitsOf[type.size])
    [] OTHER -> Signed(v, BitsOf[type.size])

Leaf(kind, type, val) == [kind |-> kind, type |-> type, val |-> val]
Cast(lhs, type) == [kind |-> "cast", type |-> type, lhs |-> lhs]
Unary(kind, lhs) == [kind |-> kind, lhs |-> lhs]
Binary(kind, lhs, rhs) == [kind |-> kind, lhs |-> lhs, rhs |-> rhs]
Cond(c, t, e) == [kind |-> "cond", cond |-> c, then |-> t, els |-> e]

Bitwises == {"bitand", "bitor", "bitxor"}
Arithmetics == {"add", "sub", "mul", "div", "mod"} \union Bitwises
Shifts == {"shl", "shr"}
Compares == {"eq", "ne", "lt", "le"}
Logicals == {"and", "or"}

get_common_type(ty1, ty2) ==
  LET a == IF ty1.size < 4 THEN ty_int ELSE ty1
      b == IF ty2.size < 4 THEN ty_int ELSE ty2
  IN IF a.size # b.size THEN (IF a.size < b.size THEN b ELSE a)
     ELSE IF b.is_unsigned THEN b ELSE a

Typed(n, type) == [kind |-> n.kind, type |-> type, lhs |-> n.lhs, rhs |-> n.rhs]

\* The tree with its types and the casts of usual_arith_conv.
RECURSIVE add_type(_)
add_type(n) ==
  CASE n.kind \in {"num", "var"} -> n
    [] n.kind = "cast" -> Cast(add_type(n.lhs), n.type)
    [] n.kind \in Arithmetics \union Compares ->
         LET lhs == add_type(n.lhs)
             rhs == add_type(n.rhs)
             common == get_common_type(lhs.type, rhs.type)
         IN Typed(Binary(n.kind, Cast(lhs, common), Cast(rhs, common)),
                  IF n.kind \in Compares THEN ty_int ELSE common)
    [] n.kind \in Shifts -> LET lhs == add_type(n.lhs)
                            IN Typed(Binary(n.kind, lhs, add_type(n.rhs)), lhs.type)
    [] n.kind \in Logicals -> Typed(Binary(n.kind, add_type(n.lhs), add_type(n.rhs)), ty_int)
    [] n.kind = "neg" -> LET lhs == add_type(n.lhs)
                             type == get_common_type(ty_int, lhs.type)
                         IN [kind |-> "neg", type |-> type, lhs |-> Cast(lhs, type)]
    [] n.kind = "not" -> [kind |-> "not", type |-> ty_int, lhs |-> add_type(n.lhs)]
    [] n.kind = "bitnot" -> LET lhs == add_type(n.lhs)
                            IN [kind |-> "bitnot", type |-> lhs.type, lhs |-> lhs]
    [] n.kind = "cond" ->
         LET then == add_type(n.then)
             els == add_type(n.els)
             common == get_common_type(then.type, els.type)
         IN [kind |-> "cond", type |-> common, cond |-> add_type(n.cond),
             then |-> Cast(then, common), els |-> Cast(els, common)]

-----------------------------------------------------------------------------
(* What instructions compute, on w bits.                                    *)

Truth(b) == IF b THEN 1 ELSE 0
Abs(v) == IF v < 0 THEN -v ELSE v
Quotient(a, b) == (IF (a < 0) = (b < 0) THEN 1 ELSE -1) * (Abs(a) \div Abs(b))

\* a and b are numbers that stand for the operands.
Exact(op, a, b, w) ==
  CASE op = "add" -> a + b
    [] op = "sub" -> a - b
    [] op = "mul" -> a * b
    [] op = "div" -> IF b = 0 THEN 0 ELSE Quotient(a, b)
    [] op = "mod" -> IF b = 0 THEN 0 ELSE a - Quotient(a, b) * b
    [] op = "bitand" -> Low(a, w) & Low(b, w)
    [] op = "bitor" -> Low(a, w) | Low(b, w)
    [] op = "bitxor" -> Low(a, w) ^^ Low(b, w)
    [] op = "shl" -> a * 2^(b % w)
    [] op = "shr" -> a \div 2^(b % w)
    [] op = "eq" -> Truth(a = b)
    [] op = "ne" -> Truth(a # b)
    [] op = "lt" -> Truth(a < b)
    [] op = "le" -> Truth(a <= b)

\* An instruction takes and leaves w bits; some come in two kinds.
Instruction(op, a, b, w, is_unsigned) ==
  LET Operand(v) == IF is_unsigned THEN Low(v, w) ELSE Signed(v, w)
  IN Low(Exact(op, Operand(a), IF op \in Shifts THEN Low(b, w) ELSE Operand(b), w), w)

-----------------------------------------------------------------------------
(* codegen.c.                                                               *)

I32 == BitsOf[4]
I64 == BitsOf[8]
vclass(type) == IF type.size = 8 THEN I64 ELSE I32

convert(v, from, to, from_unsigned) ==
  CASE from = to -> v
    [] from = I32 /\ to = I64 -> IF from_unsigned THEN v ELSE Low(Signed(v, I32), I64)
    [] from = I64 /\ to = I32 -> Low(v, I32)

narrow(v, to) ==
  LET bits == BitsOf[to.size]
  IN CASE to.kind = "bool" \/ to.size > 2 -> v
       [] to.kind # "bool" /\ to.size <= 2 /\ to.is_unsigned -> Low(v, bits)
       [] OTHER -> Low(Signed(v, bits), I32)

\* Mutant: only a larger type is narrowed.
WasmCastBySize(v, from, to) ==
  LET converted == convert(v, vclass(from), vclass(to), from.is_unsigned)
  IN CASE to.kind = "bool" -> Truth(v # 0)
       [] to.kind # "bool" /\ to.size < 4 /\ from.size > to.size -> narrow(converted, to)
       [] OTHER -> converted

WasmCast(v, from, to) ==
  LET fc == vclass(from)
      tc == vclass(to)
      converted == convert(v, fc, tc, from.is_unsigned)
      small == tc = I32 /\ to.size < 4 /\
               (from.size > to.size \/ fc # I32 \/ from.is_unsigned # to.is_unsigned)
  IN CASE to.kind = "bool" -> Truth(v # 0)
       [] to.kind # "bool" /\ small -> narrow(converted, to)
       [] OTHER -> converted

\* load: small integers become an i32, by their sign.
WasmLoad(v, type) == Low(As(v, type), vclass(type))

RECURSIVE WasmExpr(_)
ExprAs(n, vc) == convert(WasmExpr(n), vclass(n.type), vc, n.type.is_unsigned)
WasmCond(n) == Truth(WasmExpr(n) # 0)

WasmExpr(n) ==
  CASE n.kind = "num" -> Low(n.val, vclass(n.type))
    [] n.kind = "var" -> WasmLoad(n.val, n.type)
    [] n.kind = "cast" -> WasmCast(WasmExpr(n.lhs), n.lhs.type, n.type)
    [] n.kind = "neg" ->
         Instruction("sub", 0, ExprAs(n.lhs, vclass(n.type)), vclass(n.type), TRUE)
    [] n.kind = "not" -> Truth(WasmCond(n.lhs) = 0)
    [] n.kind = "bitnot" ->
         Instruction("bitxor", ExprAs(n.lhs, vclass(n.type)), -1, vclass(n.type), TRUE)
    [] n.kind \in Arithmetics \union Compares \union Shifts ->
         LET vc == IF n.kind \in Compares THEN vclass(n.lhs.type) ELSE vclass(n.type)
         IN Instruction(n.kind, ExprAs(n.lhs, vc), ExprAs(n.rhs, vc), vc, n.lhs.type.is_unsigned)
    [] n.kind = "and" -> IF WasmCond(n.lhs) # 0 THEN WasmCond(n.rhs) ELSE 0
    [] n.kind = "or" -> IF WasmCond(n.lhs) # 0 THEN 1 ELSE WasmCond(n.rhs)
    [] n.kind = "cond" -> ExprAs(IF WasmCond(n.cond) # 0 THEN n.then ELSE n.els, vclass(n.type))

-----------------------------------------------------------------------------
(* codegen_x86.c: %rax has I64 bits, %eax the low I32 of them; to write     *)
(* %eax clears the rest.                                                    *)

Eax(v) == Low(v, I32)

\* getTypeId: everything but char, short and int counts as a long.
Id(type) ==
  IF type.kind \in {"char", "short", "int"}
    THEN <<BitsOf[type.size], type.is_unsigned>>
    ELSE <<I64, type.kind # "long" \/ type.is_unsigned>>

\* cast_table, by what its entries do.
X86Cast(v, from, to) ==
  LET f == Id(from)
      t == Id(to)
      i32 == IF t[2] THEN Low(v, t[1]) ELSE Eax(Signed(v, t[1]))
      known == f[1] < t[1] /\ (f[2] \/ ~t[2])        \* a small type that fits
      same == f = t
  IN CASE t[1] < I32 -> IF same \/ known THEN v ELSE i32
       [] t[1] = I32 -> v
       [] t[1] = I64 ->
            IF f[1] = I64 THEN v
            ELSE IF f[1] = I32 /\ f[2] THEN Eax(v) ELSE Low(Signed(v, I32), I64)

\* Mutant: all of %rax is compared.
IsZeroWide(v, type) == v = 0

\* cmp_zero looks at %eax for integers of at most four bytes.
IsZero(v, type) == IF type.size <= 4 THEN Eax(v) = 0 ELSE v = 0

\* load.
X86Load(v, type) ==
  CASE type.size < 4 -> Eax(IF type.is_unsigned THEN Low(v, BitsOf[type.size]) ELSE Signed(v, BitsOf[type.size]))
    [] type.size = 4 -> Low(Signed(v, I32), I64)
    [] type.size = 8 -> Low(v, I64)

RECURSIVE X86Expr(_)
X86Expr(n) ==
  CASE n.kind = "num" -> Low(n.val, I64)
    [] n.kind = "var" -> X86Load(As(n.val, n.type), n.type)
    [] n.kind = "cast" ->
         LET v == X86Expr(n.lhs)
         IN IF n.type.kind = "bool" THEN Truth(~IsZero(v, n.lhs.type)) ELSE X86Cast(v, n.lhs.type, n.type)
    [] n.kind = "neg" -> Low(-X86Expr(n.lhs), I64)
    [] n.kind = "not" -> Truth(IsZero(X86Expr(n.lhs), n.lhs.type))
    [] n.kind = "bitnot" -> Low(-1 - X86Expr(n.lhs), I64)
    [] n.kind \in Arithmetics \union Compares \union Shifts ->
         LET w == IF n.lhs.type.kind = "long" THEN I64 ELSE I32
             is_unsigned == IF n.kind \in {"div", "mod"} THEN n.type.is_unsigned ELSE n.lhs.type.is_unsigned
         IN Instruction(n.kind, X86Expr(n.lhs), X86Expr(n.rhs), w, is_unsigned)
    [] n.kind = "and" ->
         Truth(~IsZero(X86Expr(n.lhs), n.lhs.type) /\ ~IsZero(X86Expr(n.rhs), n.rhs.type))
    [] n.kind = "or" ->
         Truth(~IsZero(X86Expr(n.lhs), n.lhs.type) \/ ~IsZero(X86Expr(n.rhs), n.rhs.type))
    [] n.kind = "cond" ->
         X86Expr(IF IsZero(X86Expr(n.cond), n.cond.type) THEN n.els ELSE n.then)

-----------------------------------------------------------------------------
(* parse.c: eval works on int64_t.                                          *)

\* Mutant: every constant is signed.
FoldSigned(op, a, b, is_unsigned) == Signed(Instruction(op, a, b, I64, FALSE), I64)

Fold(op, a, b, is_unsigned) == Signed(Instruction(op, a, b, I64, is_unsigned), I64)

RECURSIVE eval(_)
eval(n) ==
  LET Wide(op, is_unsigned) == Fold(op, eval(n.lhs), eval(n.rhs), is_unsigned)
  IN CASE n.kind = "num" -> n.val
       [] n.kind \in {"add", "sub", "mul", "shl", "eq", "ne"} \union Bitwises -> Wide(n.kind, FALSE)
       [] n.kind \in {"div", "mod"} -> Wide(n.kind, n.type.is_unsigned)
       [] n.kind = "shr" -> Wide(n.kind, n.type.is_unsigned /\ n.type.size = 8)
       [] n.kind \in {"lt", "le"} -> Wide(n.kind, n.lhs.type.is_unsigned)
       [] n.kind = "neg" -> Signed(-eval(n.lhs), I64)
       [] n.kind = "not" -> Truth(eval(n.lhs) = 0)
       [] n.kind = "bitnot" -> -1 - eval(n.lhs)
       [] n.kind = "and" -> Truth(eval(n.lhs) # 0 /\ eval(n.rhs) # 0)
       [] n.kind = "or" -> Truth(eval(n.lhs) # 0 \/ eval(n.rhs) # 0)
       [] n.kind = "cond" -> IF eval(n.cond) # 0 THEN eval(n.then) ELSE eval(n.els)
       [] n.kind = "cast" ->
            LET val == eval(n.lhs)
            IN CASE n.type.size < 4 /\ n.type.is_unsigned -> Low(val, BitsOf[n.type.size])
                 [] n.type.size < 4 /\ ~n.type.is_unsigned -> Signed(val, BitsOf[n.type.size])
                 \* "? (uint32_t)val : (int32_t)val" is an uint32_t
                 [] n.type.size = 4 -> Low(val, I32)
                 [] n.type.size = 8 -> val

RECURSIVE is_const_expr(_)
is_const_expr(n) ==
  CASE n.kind \in {"add", "sub", "mul", "div"} \union Bitwises \union Shifts \union Compares \union Logicals ->
         is_const_expr(n.lhs) /\ is_const_expr(n.rhs)
    [] n.kind = "cond" ->
         is_const_expr(n.cond) /\ is_const_expr(IF eval(n.cond) # 0 THEN n.then ELSE n.els)
    [] n.kind \in {"neg", "not", "bitnot", "cast"} -> is_const_expr(n.lhs)
    [] n.kind = "num" -> TRUE
    [] OTHER -> FALSE

-----------------------------------------------------------------------------
(* The expression under compilation.                                        *)

Top(k) == SubSeq(trees, Len(trees) - k + 1, Len(trees))
Has(k) == Len(trees) >= k

\* The nodes that are left must be enough to join the trees.
Make(form, k, tree) ==
  /\ form \in family.forms
  /\ nodes < family.max
  /\ Len(trees) - k <= (family.max - nodes - 1) * family.joined
  /\ nodes' = nodes + 1
  /\ trees' = Append(SubSeq(trees, 1, Len(trees) - k), tree)
  /\ UNCHANGED family

Small(n) == add_type(n).type.size < 4
Enum(n) == add_type(n).type.kind = "enum"
Skip(shape) == shape \in Avoided

MakeNum == \E type \in {ty_int, ty_uint, ty_llong, ty_ullong} \intersect family.types, v \in Values :
             v >= 0 /\ As(v, type) = v /\ Make("num", 0, Leaf("num", type, v))
MakeVar == \E type \in family.types, v \in Values :
             As(v, type) = v /\ Make("var", 0, Leaf("var", type, v))
MakeCast ==
  /\ Has(1)
  /\ \E type \in family.types :
       /\ ~(type.kind = "enum" /\ Skip("computed enum"))
       /\ Make("cast", 1, Cast(Top(1)[1], type))
MakeUnary ==
  /\ Has(1)
  /\ \E op \in {"neg", "not", "bitnot"} :
       /\ ~(op = "bitnot" /\ Small(Top(1)[1]) /\ Skip("bits of a type smaller than int"))
       /\ Make(op, 1, Unary(op, Top(1)[1]))
MakeBinary ==
  /\ Has(2)
  /\ LET lhs == Top(2)[1]
         rhs == Top(2)[2]
     IN \E op \in Arithmetics \union Compares \union Shifts \union Logicals :
          /\ ~(op \in Shifts /\ Small(lhs) /\ Skip("bits of a type smaller than int"))
          /\ ~((Enum(lhs) \/ Enum(rhs)) /\ Skip("computed enum"))
          /\ Make(op, 2, Binary(op, lhs, rhs))
MakeCond ==
  /\ Has(3)
  /\ ~(Skip("computed enum") /\ (Enum(Top(3)[2]) \/ Enum(Top(3)[3])))
  /\ Make("cond", 3, Cond(Top(3)[1], Top(3)[2], Top(3)[3]))

Init == family \in Families /\ trees = <<>> /\ nodes = 0
Next == MakeNum \/ MakeVar \/ MakeCast \/ MakeUnary \/ MakeBinary \/ MakeCond
Spec == Init /\ [][Next]_vars

-----------------------------------------------------------------------------
(* External: the C standard.  Meaning is the type and value of a tree;      *)
(* defined, whether the standard gives it a value.                          *)

Promoted(type) == IF type.size < 4 \/ type.kind = "enum" THEN ty_int ELSE type
Common(a, b) ==
  LET p == Promoted(a)
      q == Promoted(b)
  IN CASE p.size < q.size -> q
       [] p.size > q.size -> p
       [] OTHER -> [p EXCEPT !.is_unsigned = p.is_unsigned \/ q.is_unsigned]

Result(type, v, defined) == [type |-> type, v |-> v, defined |-> defined]
\* A result of exact value v: it wraps, or must fit.
Computed(type, v, defined) ==
  Result(type, As(v, type), defined /\ (type.is_unsigned \/ v = As(v, type)))

RECURSIVE Meaning(_)
Meaning(n) ==
  CASE n.kind \in {"num", "var"} -> Result(n.type, n.val, TRUE)
    [] n.kind = "cast" -> LET a == Meaning(n.lhs) IN Result(n.type, As(a.v, n.type), a.defined)
    [] n.kind = "neg" -> LET a == Meaning(n.lhs)
                         IN Computed(Promoted(a.type), -a.v, a.defined)
    [] n.kind = "not" -> LET a == Meaning(n.lhs) IN Result(ty_int, Truth(a.v = 0), a.defined)
    [] n.kind = "bitnot" -> LET a == Meaning(n.lhs)
                            IN Result(Promoted(a.type), As(-1 - a.v, Promoted(a.type)), a.defined)
    [] n.kind \in Arithmetics \union Compares ->
         LET a == Meaning(n.lhs)
             b == Meaning(n.rhs)
             type == Common(a.type, b.type)
             w == BitsOf[type.size]
             v == Exact(n.kind, As(a.v, type), As(b.v, type), w)
             defined == a.defined /\ b.defined /\ ~(n.kind \in {"div", "mod"} /\ As(b.v, type) = 0)
             overflow == n.kind = "mod" /\ ~type.is_unsigned /\ b.v = -1
         IN CASE n.kind \in Compares -> Result(ty_int, v, defined)
              [] n.kind \in Bitwises -> Result(type, As(v, type), defined)
              [] OTHER -> Computed(type, v, defined /\ ~overflow)
    [] n.kind \in Shifts ->
         LET a == Meaning(n.lhs)
             b == Meaning(n.rhs)
             type == Promoted(a.type)
             w == BitsOf[type.size]
             defined == a.defined /\ b.defined /\ 0 <= b.v /\ b.v < w
                        /\ ~(n.kind = "shl" /\ a.v < 0)
         IN Computed(type, IF defined THEN Exact(n.kind, a.v, b.v, w) ELSE 0, defined)
    [] n.kind = "and" -> LET a == Meaning(n.lhs)
                             b == Meaning(n.rhs)
                         IN Result(ty_int, Truth(a.v # 0 /\ b.v # 0), a.defined /\ (a.v = 0 \/ b.defined))
    [] n.kind = "or" -> LET a == Meaning(n.lhs)
                            b == Meaning(n.rhs)
                        IN Result(ty_int, Truth(a.v # 0 \/ b.v # 0), a.defined /\ (a.v # 0 \/ b.defined))
    [] n.kind = "cond" ->
         LET c == Meaning(n.cond)
             t == Meaning(n.then)
             e == Meaning(n.els)
             type == Common(t.type, e.type)
             chosen == IF c.v # 0 THEN t ELSE e
         IN Result(type, As(chosen.v, type), c.defined /\ chosen.defined)

-----------------------------------------------------------------------------
(* Properties: an expression is assigned to a long long, so that every bit  *)
(* of its value shows.                                                      *)

Assigned == Cast(trees[1], ty_llong)
Whole == Len(trees) = 1 /\ Meaning(trees[1]).defined
Value == Meaning(Assigned).v

\* type.c and codegen.c: the instructions that are chosen by type and size
\* compute the value of the expression: small integers keep their sign in an
\* i32, and every conversion is where C has one ("Any integral type smaller
\* than int is always promoted to int", type.c:175-176).
WasmArithmetic == Whole => WasmExpr(add_type(Assigned)) = Low(Value, I64)

\* codegen_x86.c: the same of %rax, of which only the low half is valid for
\* the types up to int.
X86Arithmetic == Whole => X86Expr(add_type(Assigned)) = Low(Value, I64)

\* eval keeps no value in the range of its type but where a cast follows; in
\* 64 bits it has them all.
RECURSIVE InRange(_)
InRange(n) ==
  /\ n.kind = "num" \/ n.type.size = 8 \/ eval(n) = As(eval(n), n.type)
  /\ CASE n.kind = "num" -> TRUE
       [] n.kind \in {"cast", "neg", "not", "bitnot"} -> InRange(n.lhs)
       [] n.kind = "cond" -> InRange(n.cond) /\ InRange(n.then) /\ InRange(n.els)
       [] OTHER -> InRange(n.lhs) /\ InRange(n.rhs)

\* parse.c: what is folded ("Evaluate a given node as a constant expression",
\* parse.c:1840) is what the expression is worth at run time.
ConstantFolded ==
  Whole => LET n == add_type(Assigned)
           IN is_const_expr(n) /\ (Skip("constant out of the range of its type") => InRange(n))
                => eval(n) = Value
=============================================================================
