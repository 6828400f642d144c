---------------------------- MODULE CallArgsProofs ----------------------------
(***************************************************************************)
(* The arguments of a call arrive, for every list of arguments, whatever   *)
(* the numbers of registers: push_args, the pops of the call,              *)
(* assign_lvar_offsets and the prologue of the function agree on the place *)
(* of every word.  It takes for granted that the types agree on the        *)
(* classes of their halves (HalvesAgree), which structs of at most eight   *)
(* bytes and structs with halves of two classes do not.                    *)
(***************************************************************************)
EXTENDS CallArgs, TLAPS, FiniteSetTheorems

-----------------------------------------------------------------------------
(* Induction over the arguments, and definitions by recursion over them. *)

(* What holds before the first argument and is kept by each holds after all. *)
LEMMA OneByOne ==
  ASSUME NEW n \in Nat, NEW T, 0 \in T, \A i \in 1 .. n : i - 1 \in T => i \in T
  PROVE  \A i \in 0 .. n : i \in T
<1> DEFINE Wrong == {x \in 0 .. n : x \notin T}
<1> SUFFICES ASSUME Wrong # {} PROVE FALSE
  OBVIOUS
<1>1. \E x \in Wrong : \A y \in Wrong : x <= y
  <2> DEFINE R == {ss \in Nat \X Nat : ss[1] < ss[2]}
  <2>1. IsWellFoundedOn(R, Nat)
    BY NatLessThanWellFounded, Zenon DEF OpToRel
  <2>2. Wrong \in SUBSET Nat
    OBVIOUS
  <2> HIDE DEF Wrong
  <2>3. \E x \in Wrong : \A y \in Wrong : ~ (<<y, x>> \in R)
    <3> HIDE DEF R
    <3> QED BY <2>1, <2>2, WFMin
  <2>4. ASSUME NEW x \in Wrong, NEW y \in Wrong, ~ (<<y, x>> \in R) PROVE x <= y
    BY <2>2, <2>4
  <2> QED BY <2>3, <2>4
<1>2. PICK x \in Wrong : \A y \in Wrong : x <= y
  BY <1>1
<1>3. x \in 1 .. n /\ x - 1 \in 0 .. n /\ ~(x <= x - 1)
  OBVIOUS
<1>4. x - 1 \notin Wrong
  <2> HIDE DEF Wrong
  <2> QED BY <1>2, <1>3
<1> QED BY <1>3, <1>4

(* A function with a first value and a step for each argument. *)
Steps(f, n, first, step) ==
  f = [i \in 0 .. n |-> IF i = 0 THEN first ELSE step[<< i, f[i - 1] >>]]

LEMMA StepsExist ==
  ASSUME NEW n \in Nat, NEW S, NEW first \in S, NEW step \in [(1 .. n) \X S -> S]
  PROVE  \E f \in [0 .. n -> S] : Steps(f, n, first, step)
<1> DEFINE Right(f, m) == /\ f \in [0 .. n -> S] /\ f[0] = first
                          /\ \A i \in 1 .. m : f[i] = step[<< i, f[i - 1] >>]
           T == {m \in 0 .. n : \E f : Right(f, m)}
<1>1. 0 \in T
  <2>1. PICK f : f = [i \in 0 .. n |-> first]
    OBVIOUS
  <2>2. Right(f, 0)
    BY <2>1
  <2> QED BY <2>2
<1>2. ASSUME NEW m \in 1 .. n, m - 1 \in T PROVE m \in T
  <2>1. PICK f : Right(f, m - 1)
    BY <1>2
  <2>2. PICK v : v = step[<< m, f[m - 1] >>]
    OBVIOUS
  <2>3. v \in S
    <3>1. m - 1 \in 0 .. n /\ f[m - 1] \in S
      BY <2>1
    <3>2. << m, f[m - 1] >> \in (1 .. n) \X S
      BY <3>1
    <3> QED BY <2>2, <3>2
  <2>4. PICK g : g = [f EXCEPT ![m] = v]
    OBVIOUS
  <2>5. g \in [0 .. n -> S] /\ g[m] = v /\ \A i \in 0 .. n : i # m => g[i] = f[i]
    BY <2>1, <2>3, <2>4
  <2>6. ASSUME NEW i \in 1 .. m PROVE g[i] = step[<< i, g[i - 1] >>]
    <3>1. i - 1 \in 0 .. n /\ i - 1 # m /\ i \in 0 .. n
      OBVIOUS
    <3>2. g[i - 1] = f[i - 1]
      BY <2>5, <3>1
    <3>3. CASE i = m
      BY <2>2, <2>5, <3>2, <3>3
    <3>4. CASE i # m
      <4>1. i \in 1 .. m - 1
        BY <3>4
      <4>2. f[i] = step[<< i, f[i - 1] >>]
        BY <2>1, <4>1
      <4> QED BY <2>5, <3>1, <3>2, <3>4, <4>2
    <3> QED BY <3>3, <3>4
  <2>7. g[0] = first
    BY <2>1, <2>5
  <2>8. Right(g, m)
    BY <2>5, <2>6, <2>7
  <2> QED BY <2>8
<1>3. n \in T
  <2> HIDE DEF T
  <2> QED BY <1>1, <1>2, OneByOne
<1>4. PICK f : Right(f, n)
  BY <1>3
<1>5. ASSUME NEW i \in 0 .. n PROVE f[i] = IF i = 0 THEN first ELSE step[<< i, f[i - 1] >>]
  BY <1>4
<1>6. f = [i \in 0 .. n |-> f[i]]
  BY <1>4
<1>7. Steps(f, n, first, step)
  BY <1>5, <1>6 DEF Steps
<1> QED BY <1>4, <1>7

-----------------------------------------------------------------------------
(* The registers counted. *)

Typed == CallAssumption /\ args \in Seq(ArgTypes) /\ hidden \in BOOLEAN /\ depth \in Nat

Registers == [gp : Nat, fp : Nat]

LEMMA ArgIs ==
  ASSUME Typed
  PROVE  /\ Len(args) \in Nat /\ DOMAIN args = 1 .. Len(args)
         /\ \A i \in 1 .. Len(args) : args[i] \in ArgTypes
  BY DEF Typed

LEMMA TypeIs ==
  ASSUME CallAssumption, NEW t \in ArgTypes
  PROVE  /\ t.kind \in {"integer", "floating", "ldouble", "struct"} /\ t.size \in Nat
         /\ t.kind \in {"integer", "floating"} => t.size = 8
         /\ t.kind = "ldouble" => t.size = 16
<1>1. t = Integer \/ t = Floating \/ t = LongDouble \/ (t.kind = "struct" /\ t.size \in Nat)
  BY DEF CallAssumption
<1>2. CASE t = Integer
  BY <1>2 DEF Integer, ArgType
<1>3. CASE t = Floating
  BY <1>3 DEF Floating, ArgType
<1>4. CASE t = LongDouble
  BY <1>4 DEF LongDouble, ArgType
<1> QED BY <1>1, <1>2, <1>3, <1>4

LEMMA OneIs ==
  ASSUME NEW b
  PROVE  One(b) \in {0, 1}
  BY DEF One

LEMMA CountTyped ==
  ASSUME CallAssumption, NEW t \in ArgTypes, NEW c \in Registers, NEW offset
  PROVE  Count(c, t, offset) \in Registers
<1>1. PICK f1, f2 : f1 = has_flonum1(t) /\ f2 = has_flonum(t, 8, 16, offset)
  OBVIOUS
<1>2. One(~f1) \in Nat /\ One(~f2) \in Nat /\ One(f1) \in Nat /\ One(f2) \in Nat
  BY DEF One
<1>3. c.gp \in Nat /\ c.fp \in Nat
  BY DEF Registers
<1>4. PICK g \in Nat, f \in Nat : g = c.gp + One(~f1) + One(~f2) /\ f = c.fp + One(f1) + One(f2)
  BY <1>2, <1>3
<1>5. /\ [gp |-> c.gp + 1, fp |-> c.fp] \in Registers /\ [gp |-> c.gp, fp |-> c.fp + 1] \in Registers
      /\ [gp |-> g, fp |-> f] \in Registers
  BY <1>3 DEF Registers
<1> QED BY <1>1, <1>4, <1>5 DEF Count

CountsOf(c, offset) ==
  /\ c[0] = [gp |-> One(hidden), fp |-> 0]
  /\ \A i \in 1 .. Len(args) : c[i] = Count(c[i - 1], args[i], offset)
  /\ \A i \in 0 .. Len(args) : c[i] \in Registers

LEMMA CountsAre ==
  ASSUME Typed, NEW offset
  PROVE  CountsOf(Counted(offset), offset)
<1>1. PICK n \in Nat, first \in Registers : n = Len(args) /\ first = [gp |-> One(hidden), fp |-> 0]
  <2>1. One(hidden) \in Nat
    BY OneIs
  <2> QED BY <2>1, ArgIs DEF Registers
<1>2. PICK step : step = [p \in (1 .. n) \X Registers |-> Count(p[2], args[p[1]], offset)]
  OBVIOUS
<1>3. \A i \in 1 .. n : \A c \in Registers :
        step[<< i, c >>] = Count(c, args[i], offset) /\ Count(c, args[i], offset) \in Registers
  BY <1>1, <1>2, ArgIs, CountTyped DEF Typed
<1>4. step \in [(1 .. n) \X Registers -> Registers]
  <2>1. \A p \in (1 .. n) \X Registers : Count(p[2], args[p[1]], offset) \in Registers
    BY <1>1, ArgIs, CountTyped DEF Typed
  <2> QED BY <1>2, <2>1
<1>5. PICK f \in [0 .. n -> Registers] : Steps(f, n, first, step)
  BY <1>4, StepsExist
<1>6. f = [i \in 0 .. n |-> IF i = 0 THEN first ELSE Count(f[i - 1], args[i], offset)]
  <2>1. ASSUME NEW i \in 0 .. n
        PROVE  f[i] = IF i = 0 THEN first ELSE Count(f[i - 1], args[i], offset)
    <3>1. f[i] = IF i = 0 THEN first ELSE step[<< i, f[i - 1] >>]
      BY <1>5 DEF Steps
    <3>2. i # 0 => i \in 1 .. n /\ f[i - 1] \in Registers
      BY <1>5
    <3> QED BY <3>1, <3>2, <1>3
  <2>2. f = [i \in 0 .. n |-> f[i]]
    OBVIOUS
  <2> QED BY <2>1, <2>2
<1>7. PICK c : c = Counted(offset)
  OBVIOUS
<1>8. c = [i \in 0 .. n |-> IF i = 0 THEN first ELSE Count(c[i - 1], args[i], offset)]
  BY <1>1, <1>6, <1>7 DEF Counted, CountedFrom
<1>9. c[0] = first /\ \A i \in 1 .. n : c[i] = Count(c[i - 1], args[i], offset)
  <2>1. 0 \in 0 .. n /\ \A i \in 1 .. n : i \in 0 .. n /\ i # 0
    OBVIOUS
  <2> QED BY <1>8, <2>1
<1>10. \A i \in 0 .. n : c[i] \in Registers
  <2> DEFINE T == {i \in 0 .. n : c[i] \in Registers}
  <2>1. 0 \in T
    BY <1>9
  <2>2. ASSUME NEW i \in 1 .. n, i - 1 \in T PROVE i \in T
    <3>1. c[i - 1] \in Registers /\ args[i] \in ArgTypes
      BY <2>2, <1>1, ArgIs
    <3>2. Count(c[i - 1], args[i], offset) \in Registers
      BY <3>1, CountTyped DEF Typed
    <3> QED BY <3>2, <1>9
  <2> HIDE DEF T
  <2>3. \A i \in 0 .. n : i \in T
    BY <2>1, <2>2, OneByOne
  <2> QED BY <2>3 DEF T
<1> QED BY <1>1, <1>7, <1>9, <1>10 DEF CountsOf

(* Where the halves agree, assign_lvar_offsets counts as push_args does. *)
LEMMA DecisionsAgree ==
  ASSUME CallAssumption, HalvesAgree, NEW t \in ArgTypes, NEW c
  PROVE  (ByStack(c, t, 8) <=> ByStack(c, t, 0)) /\ Count(c, t, 8) = Count(c, t, 0)
<1>1. PICK f, g : f = has_flonum(t, 8, 16, 8) /\ g = has_flonum(t, 8, 16, 0)
  OBVIOUS
<1>2. t.kind = "struct" /\ t.size <= 16 => (has_flonum(t, 8, 16, 8) <=> has_flonum(t, 8, 16, 0))
  BY DEF HalvesAgree, has_flonum2
<1>3. t.size \in Nat
  BY TypeIs
<1>4. ByStack(c, t, 8) <=> ByStack(c, t, 0)
  <2>1. CASE t.kind # "struct"
    BY <2>1, TypeIs DEF ByStack
  <2>2. CASE t.kind = "struct" /\ t.size > 16
    BY <2>2 DEF ByStack
  <2>3. CASE t.kind = "struct" /\ ~(t.size > 16)
    <3>1. has_flonum(t, 8, 16, 8) <=> has_flonum(t, 8, 16, 0)
      BY <2>3, <1>2, <1>3
    <3>2. One(has_flonum(t, 8, 16, 8)) = One(has_flonum(t, 8, 16, 0))
          /\ One(~has_flonum(t, 8, 16, 8)) = One(~has_flonum(t, 8, 16, 0))
      BY <3>1 DEF One
    <3> QED BY <2>3, <3>2 DEF ByStack, Fits
  <2> QED BY <2>1, <2>2, <2>3
<1>5. Count(c, t, 8) = Count(c, t, 0)
  <2>1. CASE t.kind # "struct" \/ ByStack(c, t, 8)
    BY <2>1, <1>4 DEF Count
  <2>2. CASE t.kind = "struct" /\ ~ByStack(c, t, 8)
    <3>1. t.size <= 16
      BY <2>2, <1>3 DEF ByStack
    <3>2. has_flonum(t, 8, 16, 8) <=> has_flonum(t, 8, 16, 0)
      BY <2>2, <3>1, <1>2
    <3>3. One(has_flonum(t, 8, 16, 8)) = One(has_flonum(t, 8, 16, 0))
          /\ One(~has_flonum(t, 8, 16, 8)) = One(~has_flonum(t, 8, 16, 0))
      BY <3>2 DEF One
    <3> QED BY <2>2, <3>3, <1>4 DEF Count
  <2> QED BY <2>1, <2>2
<1> QED BY <1>4, <1>5

OnStack(i) == ByStack(Counted(0)[i - 1], args[i], 0)

(* Caller and callee make the same decisions. *)
LEMMA SamePlaces ==
  ASSUME Typed, HalvesAgree, NEW i \in 1 .. Len(args)
  PROVE  (pass_by_stack[i] <=> OnStack(i)) /\ (on_stack[i] <=> OnStack(i))
<1>1. PICK n \in Nat : n = Len(args)
  BY ArgIs
<1>2. PICK c, d : c = Counted(0) /\ d = Counted(8)
  OBVIOUS
<1>3. CountsOf(c, 0) /\ CountsOf(d, 8)
  BY <1>2, CountsAre
<1>4. \A j \in 0 .. n : d[j] = c[j]
  <2> DEFINE T == {j \in 0 .. n : d[j] = c[j]}
  <2>1. 0 \in T
    BY <1>3 DEF CountsOf
  <2>2. ASSUME NEW j \in 1 .. n, j - 1 \in T PROVE j \in T
    <3>1. d[j] = Count(d[j - 1], args[j], 8) /\ c[j] = Count(c[j - 1], args[j], 0)
      BY <1>1, <1>3 DEF CountsOf
    <3>2. args[j] \in ArgTypes
      BY <1>1, ArgIs
    <3>3. Count(c[j - 1], args[j], 8) = Count(c[j - 1], args[j], 0)
      BY <3>2, DecisionsAgree DEF Typed
    <3> QED BY <2>2, <3>1, <3>3
  <2> HIDE DEF T
  <2>3. \A j \in 0 .. n : j \in T
    BY <2>1, <2>2, OneByOne
  <2> QED BY <2>3 DEF T
<1>5. d[i - 1] = c[i - 1] /\ args[i] \in ArgTypes /\ i \in DOMAIN args
  BY <1>1, <1>4, ArgIs
<1>6. ByStack(c[i - 1], args[i], 8) <=> ByStack(c[i - 1], args[i], 0)
  BY <1>5, DecisionsAgree DEF Typed
<1> QED BY <1>2, <1>5, <1>6 DEF pass_by_stack, on_stack, OnStack

-----------------------------------------------------------------------------
(* The words pushed. *)

Words == Nat \X Nat

LEMMA ContentIs ==
  ASSUME Typed, NEW i \in 1 .. Len(args)
  PROVE  /\ WordsOf(args[i]) \in Nat /\ Content(i) \in Seq(Words) /\ Len(Content(i)) = WordsOf(args[i])
         /\ \A w \in 1 .. WordsOf(args[i]) : Content(i)[w] = << i, w >>
         /\ Content(i) = [w \in 1 .. WordsOf(args[i]) |-> << i, w >>]
<1>1. args[i].size \in Nat /\ i \in Nat
  BY ArgIs, TypeIs DEF Typed
<1>2. PICK m \in Nat : m = WordsOf(args[i])
  <2>1. (args[i].size + 7) \div 8 \in Nat
    BY <1>1
  <2> QED BY <2>1 DEF WordsOf
<1>3. PICK s : s = Content(i)
  OBVIOUS
<1>4. s = [w \in 1 .. m |-> << i, w >>]
  BY <1>2, <1>3 DEF Content
<1>5. s \in [1 .. m -> Words]
  BY <1>1, <1>4 DEF Words
<1>6. s \in Seq(Words) /\ Len(s) = m
  BY <1>5
<1>7. \A w \in 1 .. m : s[w] = << i, w >>
  BY <1>4
<1> QED BY <1>2, <1>3, <1>4, <1>6, <1>7

Piece(i, by) == IF OnStack(i) <=> by THEN Content(i) ELSE <<>>

PushesOf(top, by) ==
  /\ top[0] = <<>>
  /\ \A k \in 1 .. Len(args) : top[k] = Piece(Len(args) + 1 - k, by) \o top[k - 1]
  /\ \A k \in 0 .. Len(args) : top[k] \in Seq(Words)

LEMMA PieceIs ==
  ASSUME Typed, NEW i \in 1 .. Len(args), NEW by
  PROVE  Piece(i, by) \in Seq(Words)
<1>1. <<>> \in Seq(Words)
  OBVIOUS
<1> QED BY <1>1, ContentIs DEF Piece

LEMMA PushesAre ==
  ASSUME Typed, HalvesAgree, NEW by
  PROVE  PushesOf(push_args2(by), by)
<1>1. PICK n \in Nat, first \in Seq(Words) : n = Len(args) /\ first = <<>>
  <2>1. <<>> \in Seq(Words)
    OBVIOUS
  <2> QED BY <2>1, ArgIs
<1>2. PICK step : step = [p \in (1 .. n) \X Seq(Words) |-> Piece(n + 1 - p[1], by) \o p[2]]
  OBVIOUS
<1>3. \A k \in 1 .. n : n + 1 - k \in 1 .. n
  OBVIOUS
<1>4. \A k \in 1 .. n : \A s \in Seq(Words) :
        step[<< k, s >>] = Piece(n + 1 - k, by) \o s /\ Piece(n + 1 - k, by) \o s \in Seq(Words)
  <2>1. ASSUME NEW k \in 1 .. n, NEW s \in Seq(Words) PROVE Piece(n + 1 - k, by) \o s \in Seq(Words)
    <3>1. Piece(n + 1 - k, by) \in Seq(Words)
      BY <1>1, <1>3, PieceIs
    <3> QED BY <3>1
  <2> QED BY <1>2, <2>1
<1>5. step \in [(1 .. n) \X Seq(Words) -> Seq(Words)]
  <2>1. \A p \in (1 .. n) \X Seq(Words) : Piece(n + 1 - p[1], by) \o p[2] \in Seq(Words)
    BY <1>4
  <2> QED BY <1>2, <2>1
<1>6. PICK f \in [0 .. n -> Seq(Words)] : Steps(f, n, first, step)
  BY <1>5, StepsExist
<1>7. \A k \in 1 .. n :
        Piece(n + 1 - k, by) = IF pass_by_stack[n + 1 - k] <=> by THEN Content(n + 1 - k) ELSE <<>>
  BY <1>1, <1>3, SamePlaces DEF Piece
<1>8. f = [k \in 0 .. n |->
             IF k = 0 THEN <<>>
             ELSE (IF pass_by_stack[n + 1 - k] <=> by THEN Content(n + 1 - k) ELSE <<>>) \o f[k - 1]]
  <2>1. ASSUME NEW k \in 0 .. n
        PROVE  f[k] = IF k = 0 THEN <<>>
                      ELSE (IF pass_by_stack[n + 1 - k] <=> by THEN Content(n + 1 - k) ELSE <<>>) \o f[k - 1]
    <3>1. f[k] = IF k = 0 THEN first ELSE step[<< k, f[k - 1] >>]
      BY <1>6 DEF Steps
    <3>2. CASE k = 0
      BY <1>1, <3>1, <3>2
    <3>3. CASE k # 0
      <4>1. k \in 1 .. n /\ f[k - 1] \in Seq(Words)
        BY <3>3
      <4>2. f[k] = Piece(n + 1 - k, by) \o f[k - 1]
        BY <1>4, <3>1, <3>3, <4>1
      <4> QED BY <1>7, <3>3, <4>1, <4>2
    <3> QED BY <3>2, <3>3
  <2>2. f = [k \in 0 .. n |-> f[k]]
    OBVIOUS
  <2> QED BY <2>1, <2>2
<1>9. PICK top : top = push_args2(by)
  OBVIOUS
<1>10. top = [k \in 0 .. n |->
                IF k = 0 THEN <<>>
                ELSE (IF pass_by_stack[n + 1 - k] <=> by THEN Content(n + 1 - k) ELSE <<>>) \o top[k - 1]]
  <2> HIDE DEF Content, pass_by_stack
  <2>1. top = CHOOSE g : g = [k \in 0 .. n |->
                IF k = 0 THEN <<>>
                ELSE (IF pass_by_stack[n + 1 - k] <=> by THEN Content(n + 1 - k) ELSE <<>>) \o g[k - 1]]
    BY <1>1, <1>9, ZenonT(30) DEF push_args2
  <2> QED BY <1>8, <2>1, Zenon
<1>11. top[0] = <<>> /\ \A k \in 1 .. n : top[k] = Piece(n + 1 - k, by) \o top[k - 1]
  <2>1. 0 \in 0 .. n
    OBVIOUS
  <2>2. top[0] = <<>>
    BY <1>10, <2>1
  <2>3. ASSUME NEW k \in 1 .. n PROVE top[k] = Piece(n + 1 - k, by) \o top[k - 1]
    <3>1. k \in 0 .. n /\ k # 0
      OBVIOUS
    <3>2. top[k] = (IF pass_by_stack[n + 1 - k] <=> by THEN Content(n + 1 - k) ELSE <<>>) \o top[k - 1]
      BY <1>10, <3>1
    <3> QED BY <3>2, <1>7
  <2> QED BY <2>2, <2>3
<1>12. \A k \in 0 .. n : top[k] \in Seq(Words)
  <2> DEFINE T == {k \in 0 .. n : top[k] \in Seq(Words)}
  <2>1. 0 \in T
    <3>1. <<>> \in Seq(Words) /\ 0 \in 0 .. n
      OBVIOUS
    <3>2. top[0] = <<>>
      BY <1>11, Zenon
    <3> QED BY <3>1, <3>2
  <2>2. ASSUME NEW k \in 1 .. n, k - 1 \in T PROVE k \in T
    <3>1. top[k - 1] \in Seq(Words) /\ top[k] = Piece(n + 1 - k, by) \o top[k - 1]
      BY <1>11, <2>2
    <3>2. Piece(n + 1 - k, by) \in Seq(Words)
      BY <1>1, <1>3, PieceIs
    <3>3. top[k] \in Seq(Words)
      BY <3>1, <3>2
    <3> QED BY <3>3
  <2> HIDE DEF T
  <2>3. \A k \in 0 .. n : k \in T
    BY <2>1, <2>2, OneByOne
  <2> QED BY <2>3 DEF T
<1> QED BY <1>1, <1>9, <1>11, <1>12 DEF PushesOf

-----------------------------------------------------------------------------
(* The pops. *)

Machines == [gp : Seq(Words), fp : Seq(Words), stack : Seq(Words)]

LEMMA AtIs ==
  ASSUME NEW s \in Seq(Words), NEW i
  PROVE  At(s, i) \in Words
<1>1. Padding \in Words
  BY DEF Padding, Words
<1>2. \A j \in DOMAIN s : s[j] \in Words
  OBVIOUS
<1> QED BY <1>1, <1>2 DEF At

LEMMA BelowIs ==
  ASSUME NEW s \in Seq(Words)
  PROVE  /\ Below(s) \in Seq(Words)
         /\ \A a \in Words : \A t \in Seq(Words) : s = << a >> \o t => Below(s) = t /\ At(s, 1) = a
<1>1. Below(s) \in Seq(Words)
  BY DEF Below
<1>2. ASSUME NEW a \in Words, NEW t \in Seq(Words), s = << a >> \o t
      PROVE  Below(s) = t /\ At(s, 1) = a
  <2>1. Len(s) = Len(t) + 1 /\ s[1] = a /\ \A i \in 1 .. Len(t) : s[i + 1] = t[i]
    BY <1>2
  <2>2. PICK b : b = SubSeq(s, 2, Len(s))
    OBVIOUS
  <2>3. b \in Seq(Words) /\ Len(b) = Len(t) /\ \A i \in 1 .. Len(t) : b[i] = s[i + 1]
    BY <2>1, <2>2
  <2>4. b = t
    BY <2>1, <2>3
  <2>5. 1 \in DOMAIN s
    BY <2>1
  <2> QED BY <2>1, <2>2, <2>4, <2>5 DEF Below, At
<1> QED BY <1>1, <1>2

LEMMA PopIs ==
  ASSUME NEW s \in Machines
  PROVE  Pop(s) \in Machines /\ Popf(s) \in Machines
<1>1. s.gp \in Seq(Words) /\ s.fp \in Seq(Words) /\ s.stack \in Seq(Words)
  BY DEF Machines
<1>2. At(s.stack, 1) \in Words /\ Below(s.stack) \in Seq(Words)
  BY <1>1, AtIs, BelowIs
<1>3. PICK a \in Words : a = At(s.stack, 1)
  BY <1>2
<1>4. Append(s.gp, a) \in Seq(Words) /\ Append(s.fp, a) \in Seq(Words)
  BY <1>1
<1> QED BY <1>1, <1>2, <1>3, <1>4 DEF Pop, Popf, Machines

LEMMA PopArgTyped ==
  ASSUME CallAssumption, NEW t \in ArgTypes, NEW s \in Machines
  PROVE  PopArg(s, t) \in Machines
<1>1. Pop(s) \in Machines /\ Popf(s) \in Machines
  BY PopIs
<1>2. /\ Pop(Pop(s)) \in Machines /\ Popf(Pop(s)) \in Machines
      /\ Pop(Popf(s)) \in Machines /\ Popf(Popf(s)) \in Machines
  BY <1>1, PopIs
<1>3. PopStruct(s, t) \in Machines
  BY <1>1, <1>2 DEF PopStruct
<1> QED BY <1>1, <1>3, TypeIs DEF PopArg

Start == [gp |-> IF hidden THEN << Hidden >> ELSE <<>>, fp |-> <<>>,
          stack |-> Contents(FALSE) \o Contents(TRUE)
                      \o (IF stack_args > Len(Contents(TRUE)) THEN << Padding >> ELSE <<>>)]

PopsOf(p) ==
  /\ p[0] = Start
  /\ \A i \in 1 .. Len(args) : p[i] = PopArg(p[i - 1], args[i])
  /\ \A i \in 0 .. Len(args) : p[i] \in Machines

LEMMA ContentsAre ==
  ASSUME Typed, HalvesAgree, NEW by
  PROVE  Contents(by) \in Seq(Words)
<1>0. PICK top : top = push_args2(by)
  OBVIOUS
<1>1. PICK n \in Nat : n = Len(args)
  BY ArgIs
<1>2. PushesOf(top, by)
  BY <1>0, PushesAre
<1>3. n \in 0 .. n
  OBVIOUS
<1> QED BY <1>0, <1>1, <1>2, <1>3 DEF Contents, PushesOf

LEMMA StartIs ==
  ASSUME Typed, HalvesAgree
  PROVE  /\ Start \in Machines
         /\ Start = LET pushed == [gp |-> <<>>, fp |-> <<>>, stack |-> Pushed]
                    IN IF hidden THEN Pop(pushed) ELSE pushed
<1>1. PICK a \in Seq(Words), b \in Seq(Words), c \in Seq(Words) :
        /\ a = Contents(FALSE) /\ b = Contents(TRUE)
        /\ c = IF stack_args > Len(Contents(TRUE)) THEN << Padding >> ELSE <<>>
  <2>1. << Padding >> \in Seq(Words) /\ <<>> \in Seq(Words)
    BY DEF Padding, Words
  <2>2. Contents(FALSE) \in Seq(Words) /\ Contents(TRUE) \in Seq(Words)
    BY ContentsAre
  <2> QED BY <2>1, <2>2
<1>2. PICK r \in Seq(Words) : r = a \o b \o c
  <2>1. PICK ab \in Seq(Words) : ab = a \o b
    <3>1. a \o b \in Seq(Words)
      OBVIOUS
    <3> QED BY <3>1
  <2>2. ab \o c \in Seq(Words)
    OBVIOUS
  <2> QED BY <2>1, <2>2
<1>3. Start.stack = r /\ Start.fp = <<>> /\ Start.gp = IF hidden THEN << Hidden >> ELSE <<>>
  BY <1>1, <1>2 DEF Start
<1>4. Hidden \in Words
  BY DEF Hidden, Words
<1>5. Start \in Machines
  <2>1. << Hidden >> \in Seq(Words) /\ <<>> \in Seq(Words)
    BY <1>4
  <2> QED BY <1>1, <1>2, <2>1 DEF Start, Machines
<1>6. PICK pushed : pushed = [gp |-> <<>>, fp |-> <<>>, stack |-> Pushed]
  OBVIOUS
<1>7. CASE hidden
  <2>1. Pushed = << Hidden >> \o a \o b \o c
    BY <1>1, <1>7 DEF Pushed
  <2>2. PICK h \in Words : h = Hidden
    BY <1>4
  <2>3. << h >> \o a \o b \o c = << h >> \o r
    BY <1>2
  <2>4. PICK q \in Seq(Words) : q = Pushed
    <3>1. << h >> \o r \in Seq(Words)
      OBVIOUS
    <3> QED BY <2>1, <2>2, <2>3, <3>1
  <2>5. Below(q) = r /\ At(q, 1) = h
    BY <2>1, <2>2, <2>3, <2>4, BelowIs
  <2>6. Append(<<>>, h) = << h >>
    OBVIOUS
  <2>7. Pop(pushed) = [gp |-> << h >>, fp |-> <<>>, stack |-> r]
    BY <1>6, <2>4, <2>5, <2>6 DEF Pop
  <2>8. Start = [gp |-> << h >>, fp |-> <<>>, stack |-> r]
    BY <1>1, <1>2, <1>7, <2>2 DEF Start
  <2> QED BY <1>5, <1>6, <1>7, <2>7, <2>8
<1>8. CASE ~hidden
  <2>1. Pushed = <<>> \o a \o b \o c
    BY <1>1, <1>8 DEF Pushed
  <2>2. <<>> \o a \o b \o c = r
    BY <1>2
  <2>3. Start = [gp |-> <<>>, fp |-> <<>>, stack |-> r]
    BY <1>1, <1>2, <1>8 DEF Start
  <2> QED BY <1>5, <1>6, <1>8, <2>1, <2>2, <2>3
<1> QED BY <1>7, <1>8

LEMMA PopsAre ==
  ASSUME Typed, HalvesAgree
  PROVE  PopsOf(Popped)
<1>1. PICK n \in Nat, first \in Machines : n = Len(args) /\ first = Start
  BY ArgIs, StartIs
<1>2. PICK step : step = [p \in (1 .. n) \X Machines |-> PopArg(p[2], args[p[1]])]
  OBVIOUS
<1>3. \A i \in 1 .. n : \A s \in Machines :
        step[<< i, s >>] = PopArg(s, args[i]) /\ PopArg(s, args[i]) \in Machines
  BY <1>1, <1>2, ArgIs, PopArgTyped DEF Typed
<1>4. step \in [(1 .. n) \X Machines -> Machines]
  <2>1. \A p \in (1 .. n) \X Machines : PopArg(p[2], args[p[1]]) \in Machines
    BY <1>1, ArgIs, PopArgTyped DEF Typed
  <2> QED BY <1>2, <2>1
<1>5. PICK f \in [0 .. n -> Machines] : Steps(f, n, first, step)
  BY <1>4, StepsExist
<1>6. f = [i \in 0 .. n |-> IF i = 0 THEN first ELSE PopArg(f[i - 1], args[i])]
  <2>1. ASSUME NEW i \in 0 .. n
        PROVE  f[i] = IF i = 0 THEN first ELSE PopArg(f[i - 1], args[i])
    <3>1. f[i] = IF i = 0 THEN first ELSE step[<< i, f[i - 1] >>]
      BY <1>5 DEF Steps
    <3>2. i # 0 => i \in 1 .. n /\ f[i - 1] \in Machines
      BY <1>5
    <3> QED BY <3>1, <3>2, <1>3
  <2>2. f = [i \in 0 .. n |-> f[i]]
    OBVIOUS
  <2> QED BY <2>1, <2>2
<1>7. PICK p : p = Popped
  OBVIOUS
<1>8. p = [i \in 0 .. n |-> IF i = 0 THEN first ELSE PopArg(p[i - 1], args[i])]
  <2>1. first = LET pushed == [gp |-> <<>>, fp |-> <<>>, stack |-> Pushed]
                IN IF hidden THEN Pop(pushed) ELSE pushed
    BY <1>1, StartIs
  <2>2. p = CHOOSE g : g = [i \in 0 .. n |-> IF i = 0 THEN first ELSE PopArg(g[i - 1], args[i])]
    BY <1>1, <1>7, <2>1, Zenon DEF Popped
  <2> QED BY <1>6, <2>2, Zenon
<1>9. p[0] = first /\ \A i \in 1 .. n : p[i] = PopArg(p[i - 1], args[i])
  <2>1. 0 \in 0 .. n /\ \A i \in 1 .. n : i \in 0 .. n /\ i # 0
    OBVIOUS
  <2> QED BY <1>8, <2>1
<1>10. \A i \in 0 .. n : p[i] \in Machines
  <2> DEFINE T == {i \in 0 .. n : p[i] \in Machines}
  <2>1. 0 \in T
    BY <1>9
  <2>2. ASSUME NEW i \in 1 .. n, i - 1 \in T PROVE i \in T
    <3>1. p[i - 1] \in Machines /\ args[i] \in ArgTypes
      BY <2>2, <1>1, ArgIs
    <3>2. PopArg(p[i - 1], args[i]) \in Machines
      BY <3>1, PopArgTyped DEF Typed
    <3> QED BY <3>2, <1>9
  <2> HIDE DEF T
  <2>3. \A i \in 0 .. n : i \in T
    BY <2>1, <2>2, OneByOne
  <2> QED BY <2>3 DEF T
<1> QED BY <1>1, <1>7, <1>9, <1>10 DEF PopsOf

(* The words and registers that the parameters take. *)
Takers == [top : Nat, gp : Nat, fp : Nat]

TakesOf(r) ==
  /\ r[0] = [top |-> 0, gp |-> One(hidden), fp |-> 0]
  /\ \A i \in 1 .. Len(args) : r[i] = Take(r[i - 1], args[i], OnStack(i))
  /\ \A i \in 0 .. Len(args) : r[i] \in Takers

LEMMA TakeTyped ==
  ASSUME CallAssumption, NEW t \in ArgTypes, NEW r \in Takers, NEW by
  PROVE  Take(r, t, by) \in Takers
<1>1. PICK a \in {0, 1}, b \in {0, 1}, c \in {0, 1}, d \in {0, 1} :
        /\ a = One(~FirstFloating(t)) /\ b = One(InTwo(t) /\ ~SecondFloating(t))
        /\ c = One(FirstFloating(t)) /\ d = One(InTwo(t) /\ SecondFloating(t))
  BY OneIs
<1>2. r.top \in Nat /\ r.gp \in Nat /\ r.fp \in Nat
  BY DEF Takers
<1>3. PICK w \in Nat : w = WordsOf(t)
  <2>1. t.size \in Nat
    BY TypeIs
  <2>2. (t.size + 7) \div 8 \in Nat
    BY <2>1
  <2> QED BY <2>2 DEF WordsOf
<1>4. r.top + w \in Nat /\ r.gp + a + b \in Nat /\ r.fp + c + d \in Nat
  BY <1>2
<1> QED BY <1>1, <1>2, <1>3, <1>4 DEF Take, Takers

LEMMA TakesAre ==
  ASSUME Typed, HalvesAgree
  PROVE  TakesOf(Taken)
<1>1. PICK n \in Nat, first \in Takers : n = Len(args) /\ first = [top |-> 0, gp |-> One(hidden), fp |-> 0]
  <2>1. One(hidden) \in Nat
    BY OneIs
  <2> QED BY <2>1, ArgIs DEF Takers
<1>2. PICK step : step = [p \in (1 .. n) \X Takers |-> Take(p[2], args[p[1]], on_stack[p[1]])]
  OBVIOUS
<1>3. \A i \in 1 .. n : \A s \in Takers :
        step[<< i, s >>] = Take(s, args[i], on_stack[i]) /\ Take(s, args[i], on_stack[i]) \in Takers
  BY <1>1, <1>2, ArgIs, TakeTyped DEF Typed
<1>4. step \in [(1 .. n) \X Takers -> Takers]
  <2>1. \A p \in (1 .. n) \X Takers : Take(p[2], args[p[1]], on_stack[p[1]]) \in Takers
    BY <1>1, ArgIs, TakeTyped DEF Typed
  <2> QED BY <1>2, <2>1
<1>5. PICK f \in [0 .. n -> Takers] : Steps(f, n, first, step)
  BY <1>4, StepsExist
<1>6. f = [i \in 0 .. n |-> IF i = 0 THEN first ELSE Take(f[i - 1], args[i], on_stack[i])]
  <2>1. ASSUME NEW i \in 0 .. n
        PROVE  f[i] = IF i = 0 THEN first ELSE Take(f[i - 1], args[i], on_stack[i])
    <3>1. f[i] = IF i = 0 THEN first ELSE step[<< i, f[i - 1] >>]
      BY <1>5 DEF Steps
    <3>2. i # 0 => i \in 1 .. n /\ f[i - 1] \in Takers
      BY <1>5
    <3> QED BY <3>1, <3>2, <1>3
  <2>2. f = [i \in 0 .. n |-> f[i]]
    OBVIOUS
  <2> QED BY <2>1, <2>2
<1>7. PICK r : r = Taken
  OBVIOUS
<1>8. r = [i \in 0 .. n |-> IF i = 0 THEN first ELSE Take(r[i - 1], args[i], on_stack[i])]
  <2>1. r = CHOOSE g : g = [i \in 0 .. n |-> IF i = 0 THEN first ELSE Take(g[i - 1], args[i], on_stack[i])]
    BY <1>1, <1>7, Zenon DEF Taken
  <2> QED BY <1>6, <2>1, Zenon
<1>9. r[0] = first /\ \A i \in 1 .. n : r[i] = Take(r[i - 1], args[i], on_stack[i])
  <2>1. 0 \in 0 .. n /\ \A i \in 1 .. n : i \in 0 .. n /\ i # 0
    OBVIOUS
  <2> QED BY <1>8, <2>1
<1>10. \A i \in 0 .. n : r[i] \in Takers
  <2> DEFINE T == {i \in 0 .. n : r[i] \in Takers}
  <2>1. 0 \in T
    BY <1>9
  <2>2. ASSUME NEW i \in 1 .. n, i - 1 \in T PROVE i \in T
    <3>1. r[i - 1] \in Takers /\ args[i] \in ArgTypes
      BY <2>2, <1>1, ArgIs
    <3>2. Take(r[i - 1], args[i], on_stack[i]) \in Takers
      BY <3>1, TakeTyped DEF Typed
    <3> QED BY <3>2, <1>9
  <2> HIDE DEF T
  <2>3. \A i \in 0 .. n : i \in T
    BY <2>1, <2>2, OneByOne
  <2> QED BY <2>3 DEF T
<1>11. ASSUME NEW i \in 1 .. n PROVE r[i] = Take(r[i - 1], args[i], OnStack(i))
  <2>1. on_stack[i] <=> OnStack(i)
    BY <1>1, SamePlaces
  <2>2. r[i] = Take(r[i - 1], args[i], on_stack[i])
    BY <1>9
  <2> QED BY <2>1, <2>2 DEF Take
<1> QED BY <1>1, <1>7, <1>9, <1>10, <1>11 DEF TakesOf

-----------------------------------------------------------------------------
(* One argument: the pops and the counts. *)

Clip(x, most) == IF x < most THEN x ELSE most

Prefix(a, b) == Len(a) <= Len(b) /\ \A k \in 1 .. Len(a) : b[k] = a[k]

(* From s to s2 a word x went into the next register, of the one class or of the other. *)
Moved(s, s2, more, less) ==
  /\ s2 \in Machines /\ Prefix(s.gp, s2.gp) /\ Prefix(s.fp, s2.fp)
  /\ Len(s2.gp) = Len(s.gp) + more /\ Len(s2.fp) = Len(s.fp) + less
GotFp(s, s2, x) == Moved(s, s2, 0, 1) /\ s2.fp[Len(s.fp) + 1] = x
GotGp(s, s2, x) == Moved(s, s2, 1, 0) /\ s2.gp[Len(s.gp) + 1] = x

PopOf(s, floating) == IF floating THEN Popf(s) ELSE Pop(s)

LEMMA AppendIs ==
  ASSUME NEW a \in Seq(Words), NEW x \in Words
  PROVE  /\ Append(a, x) \in Seq(Words) /\ Len(Append(a, x)) = Len(a) + 1
         /\ Prefix(a, Append(a, x)) /\ Append(a, x)[Len(a) + 1] = x /\ Prefix(a, a)
<1>1. PICK b : b = Append(a, x)
  OBVIOUS
<1>2. b \in Seq(Words) /\ Len(b) = Len(a) + 1 /\ b[Len(a) + 1] = x /\ \A k \in 1 .. Len(a) : b[k] = a[k]
  BY <1>1
<1>3. Len(a) \in Nat
  OBVIOUS
<1> QED BY <1>1, <1>2, <1>3 DEF Prefix

OnTop(s, x, rest) == s.stack = << x >> \o rest

LEMMA WordPopped ==
  ASSUME NEW s \in Machines, NEW x \in Words, NEW rest \in Seq(Words), OnTop(s, x, rest)
  PROVE  /\ GotFp(s, Popf(s), x) /\ Popf(s).stack = rest
         /\ GotGp(s, Pop(s), x) /\ Pop(s).stack = rest
<1>1. s.gp \in Seq(Words) /\ s.fp \in Seq(Words) /\ s.stack \in Seq(Words)
  BY DEF Machines
<1>2. Below(s.stack) = rest /\ At(s.stack, 1) = x
  <2>1. s.stack = << x >> \o rest
    BY DEF OnTop
  <2> QED BY <1>1, <2>1, BelowIs
<1>3. PICK a \in Seq(Words), b \in Seq(Words) : a = s.gp /\ b = s.fp
  BY <1>1
<1>4. Len(a) \in Nat /\ Len(b) \in Nat
  OBVIOUS
<1>5. GotFp(s, Popf(s), x) /\ Popf(s).stack = rest
  <2>1. PICK t : t = [gp |-> a, fp |-> Append(b, x), stack |-> rest]
    OBVIOUS
  <2>2. Popf(s) = t
    BY <1>2, <1>3, <2>1 DEF Popf
  <2>3. t.gp = a /\ t.fp = Append(b, x) /\ t.stack = rest /\ t \in Machines
    BY <2>1, AppendIs DEF Machines
  <2>4. Len(t.fp) = Len(b) + 1 /\ t.fp[Len(b) + 1] = x /\ Prefix(b, t.fp) /\ Prefix(a, t.gp)
    BY <2>3, AppendIs
  <2>5. Len(t.gp) = Len(a) + 0
    BY <1>4, <2>3
  <2>6. Moved(s, t, 0, 1)
    BY <1>3, <2>3, <2>4, <2>5 DEF Moved
  <2> QED BY <1>3, <2>2, <2>3, <2>4, <2>6 DEF GotFp
<1>6. GotGp(s, Pop(s), x) /\ Pop(s).stack = rest
  <2>1. PICK t : t = [gp |-> Append(a, x), fp |-> b, stack |-> rest]
    OBVIOUS
  <2>2. Pop(s) = t
    BY <1>2, <1>3, <2>1 DEF Pop
  <2>3. t.gp = Append(a, x) /\ t.fp = b /\ t.stack = rest /\ t \in Machines
    BY <2>1, AppendIs DEF Machines
  <2>4. Len(t.gp) = Len(a) + 1 /\ t.gp[Len(a) + 1] = x /\ Prefix(a, t.gp) /\ Prefix(b, t.fp)
    BY <2>3, AppendIs
  <2>5. Len(t.fp) = Len(b) + 0
    BY <1>4, <2>3
  <2>6. Moved(s, t, 1, 0)
    BY <1>3, <2>3, <2>4, <2>5 DEF Moved
  <2> QED BY <1>3, <2>2, <2>3, <2>4, <2>6 DEF GotGp
<1> QED BY <1>5, <1>6

(* From s to s2 the one or two words of an argument went into registers. *)
Passed(s, s2, t, x, y) ==
  /\ s2 \in Machines /\ Prefix(s.gp, s2.gp) /\ Prefix(s.fp, s2.fp)
  /\ Len(s2.gp) = Len(s.gp) + One(~FirstFloating(t)) + One(InTwo(t) /\ ~SecondFloating(t))
  /\ Len(s2.fp) = Len(s.fp) + One(FirstFloating(t)) + One(InTwo(t) /\ SecondFloating(t))
  /\ FirstFloating(t) => s2.fp[Len(s.fp) + 1] = x
  /\ ~FirstFloating(t) => s2.gp[Len(s.gp) + 1] = x
  /\ InTwo(t) /\ SecondFloating(t) => s2.fp[Len(s.fp) + One(FirstFloating(t)) + 1] = y
  /\ InTwo(t) /\ ~SecondFloating(t) => s2.gp[Len(s.gp) + One(~FirstFloating(t)) + 1] = y

(* As many registers are taken as are counted, up to all of them. *)
AsCounted(s, c) == Len(s.gp) = Clip(c.gp, GP_MAX) /\ Len(s.fp) = Clip(c.fp, FP_MAX)

LEMMA PrefixIs ==
  ASSUME NEW a \in Seq(Words), NEW b \in Seq(Words), NEW c \in Seq(Words), Prefix(a, b), Prefix(b, c)
  PROVE  Prefix(a, c)
<1>1. Len(a) \in Nat /\ Len(b) \in Nat /\ Len(c) \in Nat
  OBVIOUS
<1>2. \A k \in 1 .. Len(a) : k \in 1 .. Len(b)
  BY <1>1 DEF Prefix
<1> QED BY <1>1, <1>2 DEF Prefix

LEMMA OneWord ==
  ASSUME NEW t, ~InTwo(t), NEW s \in Machines, NEW x \in Words, NEW y, NEW rest \in Seq(Words),
         OnTop(s, x, rest)
  PROVE  /\ Passed(s, PopOf(s, FirstFloating(t)), t, x, y)
         /\ PopOf(s, FirstFloating(t)).stack = rest
<1>1. Len(s.gp) \in Nat /\ Len(s.fp) \in Nat
  BY DEF Machines
<1>2. One(InTwo(t) /\ SecondFloating(t)) = 0 /\ One(InTwo(t) /\ ~SecondFloating(t)) = 0
  BY DEF One
<1>3. CASE FirstFloating(t)
  <2>1. PICK s2 : s2 = Popf(s) /\ s2.stack = rest /\ GotFp(s, s2, x)
    BY WordPopped
  <2>2. One(FirstFloating(t)) = 1 /\ One(~FirstFloating(t)) = 0
    BY <1>3 DEF One
  <2>3. Len(s2.gp) = Len(s.gp) + 0 + 0 /\ Len(s2.fp) = Len(s.fp) + 1 + 0
    BY <1>1, <2>1 DEF GotFp, Moved
  <2>4. Passed(s, s2, t, x, y)
    BY <1>2, <1>3, <2>1, <2>2, <2>3 DEF GotFp, Moved, Passed
  <2>5. PopOf(s, FirstFloating(t)) = s2
    BY <1>3, <2>1 DEF PopOf
  <2> QED BY <2>1, <2>4, <2>5
<1>4. CASE ~FirstFloating(t)
  <2>1. PICK s2 : s2 = Pop(s) /\ s2.stack = rest /\ GotGp(s, s2, x)
    BY WordPopped
  <2>2. One(FirstFloating(t)) = 0 /\ One(~FirstFloating(t)) = 1
    BY <1>4 DEF One
  <2>3. Len(s2.gp) = Len(s.gp) + 1 + 0 /\ Len(s2.fp) = Len(s.fp) + 0 + 0
    BY <1>1, <2>1 DEF GotGp, Moved
  <2>4. Passed(s, s2, t, x, y)
    BY <1>2, <1>4, <2>1, <2>2, <2>3 DEF GotGp, Moved, Passed
  <2>5. PopOf(s, FirstFloating(t)) = s2
    BY <1>4, <2>1 DEF PopOf
  <2> QED BY <2>1, <2>4, <2>5
<1> QED BY <1>3, <1>4

(* Two words are popped, each by its own class. *)
PopBoth(s, t) == PopOf(PopOf(s, FirstFloating(t)), SecondFloating(t))
TwoOnTop(s, x, y, rest) == s.stack = << x >> \o (<< y >> \o rest)

LEMMA TwoWords ==
  ASSUME NEW t, InTwo(t), NEW s \in Machines, NEW x \in Words, NEW y \in Words, NEW rest \in Seq(Words),
         TwoOnTop(s, x, y, rest)
  PROVE  Passed(s, PopBoth(s, t), t, x, y) /\ PopBoth(s, t).stack = rest
<1>1. PICK q \in Seq(Words) : q = << y >> \o rest
  <2>1. << y >> \o rest \in Seq(Words)
    OBVIOUS
  <2> QED BY <2>1
<1>2. PICK a \in {0, 1}, b \in {0, 1}, c \in {0, 1}, d \in {0, 1} :
        /\ a = One(~FirstFloating(t)) /\ b = One(FirstFloating(t))
        /\ c = One(~SecondFloating(t)) /\ d = One(SecondFloating(t))
  BY OneIs
<1>3. One(InTwo(t) /\ SecondFloating(t)) = d /\ One(InTwo(t) /\ ~SecondFloating(t)) = c
  BY <1>2 DEF One
<1>4. PICK s2 : /\ s2 = PopOf(s, FirstFloating(t)) /\ s2.stack = q /\ Moved(s, s2, a, b)
                /\ FirstFloating(t) => b = 1 /\ s2.fp[Len(s.fp) + 1] = x
                /\ ~FirstFloating(t) => a = 1 /\ s2.gp[Len(s.gp) + 1] = x
  <2>1. OnTop(s, x, q)
    BY <1>1 DEF TwoOnTop, OnTop
  <2>2. /\ GotFp(s, Popf(s), x) /\ Popf(s).stack = q
        /\ GotGp(s, Pop(s), x) /\ Pop(s).stack = q
    BY <2>1, WordPopped
  <2>3. CASE FirstFloating(t)
    BY <1>2, <2>2, <2>3 DEF GotFp, One, PopOf
  <2>4. CASE ~FirstFloating(t)
    BY <1>2, <2>2, <2>4 DEF GotGp, One, PopOf
  <2> QED BY <2>3, <2>4
<1>5. s2 \in Machines
  BY <1>4 DEF Moved
<1>6. PICK s3 : /\ s3 = PopOf(s2, SecondFloating(t)) /\ s3.stack = rest /\ Moved(s2, s3, c, d)
                /\ SecondFloating(t) => s3.fp[Len(s2.fp) + 1] = y
                /\ ~SecondFloating(t) => s3.gp[Len(s2.gp) + 1] = y
  <2>1. OnTop(s2, y, rest)
    BY <1>1, <1>4 DEF OnTop
  <2>2. /\ GotFp(s2, Popf(s2), y) /\ Popf(s2).stack = rest
        /\ GotGp(s2, Pop(s2), y) /\ Pop(s2).stack = rest
    BY <1>5, <2>1, WordPopped
  <2>3. CASE SecondFloating(t)
    BY <1>2, <2>2, <2>3 DEF GotFp, One, PopOf
  <2>4. CASE ~SecondFloating(t)
    BY <1>2, <2>2, <2>4 DEF GotGp, One, PopOf
  <2> QED BY <2>3, <2>4
<1>7. /\ s.gp \in Seq(Words) /\ s2.gp \in Seq(Words) /\ s3.gp \in Seq(Words)
      /\ s.fp \in Seq(Words) /\ s2.fp \in Seq(Words) /\ s3.fp \in Seq(Words) /\ s3 \in Machines
  <2>1. s3 \in Machines
    BY <1>6 DEF Moved
  <2> QED BY <1>5, <2>1 DEF Machines
<1>8. Prefix(s.gp, s2.gp) /\ Prefix(s2.gp, s3.gp) /\ Prefix(s.fp, s2.fp) /\ Prefix(s2.fp, s3.fp)
  BY <1>4, <1>6 DEF Moved
<1>9. Prefix(s.gp, s3.gp) /\ Prefix(s.fp, s3.fp)
  BY <1>7, <1>8, PrefixIs
<1>10. PICK g \in Nat, f \in Nat : g = Len(s.gp) /\ f = Len(s.fp)
  BY <1>7
<1>11. Len(s2.gp) = g + a /\ Len(s2.fp) = f + b
  BY <1>4, <1>10 DEF Moved
<1>12. Len(s3.gp) = g + a + c /\ Len(s3.fp) = f + b + d
  BY <1>6, <1>11 DEF Moved
<1>13. FirstFloating(t) => s3.fp[f + 1] = x
  <2> SUFFICES ASSUME FirstFloating(t) PROVE s3.fp[f + 1] = x
    OBVIOUS
  <2>1. s2.fp[f + 1] = x /\ b = 1
    BY <1>4, <1>10
  <2>2. f + 1 \in 1 .. Len(s2.fp)
    BY <1>11, <2>1
  <2> QED BY <1>8, <2>1, <2>2 DEF Prefix
<1>14. ~FirstFloating(t) => s3.gp[g + 1] = x
  <2> SUFFICES ASSUME ~FirstFloating(t) PROVE s3.gp[g + 1] = x
    OBVIOUS
  <2>1. s2.gp[g + 1] = x /\ a = 1
    BY <1>4, <1>10
  <2>2. g + 1 \in 1 .. Len(s2.gp)
    BY <1>11, <2>1
  <2> QED BY <1>8, <2>1, <2>2 DEF Prefix
<1>15. SecondFloating(t) => s3.fp[f + b + 1] = y
  BY <1>6, <1>11
<1>16. ~SecondFloating(t) => s3.gp[g + a + 1] = y
  BY <1>6, <1>11
<1>17. Passed(s, s3, t, x, y)
  BY <1>2, <1>3, <1>7, <1>9, <1>10, <1>12, <1>13, <1>14, <1>15, <1>16 DEF Passed
<1> QED BY <1>4, <1>6, <1>17 DEF PopBoth

(* An argument that goes by the stack takes no register. *)
LEMMA OverStack ==
  ASSUME CallAssumption, NEW t \in ArgTypes, NEW s \in Machines, NEW c \in Registers,
         AsCounted(s, c), ByStack(c, t, 0)
  PROVE  PopArg(s, t) = s /\ AsCounted(s, Count(c, t, 0))
<1>1. c.gp \in Nat /\ c.fp \in Nat /\ GP_MAX \in Nat /\ FP_MAX \in Nat
  BY DEF Registers, CallAssumption
<1>2. CASE t.kind = "integer"
  <2>1. c.gp >= GP_MAX
    BY <1>2 DEF ByStack
  <2>2. Len(s.gp) = GP_MAX /\ Len(s.fp) = Clip(c.fp, FP_MAX)
    BY <1>1, <2>1 DEF AsCounted, Clip
  <2>3. PopArg(s, t) = s
    BY <1>1, <1>2, <2>2 DEF PopArg
  <2>4. Count(c, t, 0) = [gp |-> c.gp + 1, fp |-> c.fp]
    BY <1>2 DEF Count
  <2>5. Clip(c.gp + 1, GP_MAX) = GP_MAX
    BY <1>1, <2>1 DEF Clip
  <2> QED BY <2>2, <2>3, <2>4, <2>5 DEF AsCounted
<1>3. CASE t.kind = "floating"
  <2>1. c.fp >= FP_MAX
    BY <1>3 DEF ByStack
  <2>2. Len(s.fp) = FP_MAX /\ Len(s.gp) = Clip(c.gp, GP_MAX)
    BY <1>1, <2>1 DEF AsCounted, Clip
  <2>3. PopArg(s, t) = s
    BY <1>1, <1>3, <2>2 DEF PopArg
  <2>4. Count(c, t, 0) = [gp |-> c.gp, fp |-> c.fp + 1]
    BY <1>3 DEF Count
  <2>5. Clip(c.fp + 1, FP_MAX) = FP_MAX
    BY <1>1, <2>1 DEF Clip
  <2> QED BY <2>2, <2>3, <2>4, <2>5 DEF AsCounted
<1>4. CASE t.kind = "ldouble"
  BY <1>4 DEF PopArg, Count
<1>5. CASE t.kind = "struct"
  <2>1. t.size > 16 \/ ~Fits(c, has_flonum1(t), has_flonum2(t))
    BY <1>5 DEF ByStack, has_flonum2
  <2>2. PICK a \in {0, 1}, b \in {0, 1}, d \in {0, 1}, e \in {0, 1} :
          /\ a = One(~has_flonum1(t)) /\ b = One(has_flonum1(t))
          /\ d = One(~has_flonum2(t)) /\ e = One(has_flonum2(t))
    BY OneIs
  <2>3. PICK m : m = [gp |-> Len(s.gp), fp |-> Len(s.fp)]
    OBVIOUS
  <2>4. Fits(m, has_flonum1(t), has_flonum2(t)) <=> Fits(c, has_flonum1(t), has_flonum2(t))
    <3>1. m.gp = Clip(c.gp, GP_MAX) /\ m.fp = Clip(c.fp, FP_MAX)
      BY <2>3 DEF AsCounted
    <3>2. m.gp + a + d < GP_MAX <=> c.gp + a + d < GP_MAX
      BY <1>1, <3>1 DEF Clip
    <3>3. m.fp + b + e < FP_MAX <=> c.fp + b + e < FP_MAX
      BY <1>1, <3>1 DEF Clip
    <3> QED BY <2>2, <3>2, <3>3 DEF Fits
  <2>5. PopStruct(s, t) = s
    BY <2>1, <2>3, <2>4 DEF PopStruct
  <2>6. PopArg(s, t) = s /\ Count(c, t, 0) = c
    BY <1>5, <2>5 DEF PopArg, Count
  <2> QED BY <2>6
<1> QED BY <1>2, <1>3, <1>4, <1>5, TypeIs

(* Another is popped into the registers that are counted for it. *)
LEMMA InRegisters ==
  ASSUME CallAssumption, HalvesAgree, NEW t \in ArgTypes, NEW s \in Machines, NEW c \in Registers,
         AsCounted(s, c), ~ByStack(c, t, 0),
         NEW x \in Words, NEW y \in Words, NEW rest \in Seq(Words),
         IF InTwo(t) THEN TwoOnTop(s, x, y, rest) ELSE OnTop(s, x, rest)
  PROVE  /\ Passed(s, PopArg(s, t), t, x, y) /\ PopArg(s, t).stack = rest
         /\ AsCounted(PopArg(s, t), Count(c, t, 0))
<1>1. c.gp \in Nat /\ c.fp \in Nat /\ GP_MAX \in Nat /\ FP_MAX \in Nat
  BY DEF Registers, CallAssumption
<1>2. CASE t.kind = "integer"
  <2>1. c.gp < GP_MAX /\ Len(s.gp) = c.gp /\ Len(s.fp) = Clip(c.fp, FP_MAX)
    BY <1>1, <1>2 DEF ByStack, AsCounted, Clip
  <2>2. ~FirstFloating(t) /\ ~InTwo(t)
    BY <1>2, TypeIs DEF FirstFloating, InTwo
  <2>3. PopArg(s, t) = PopOf(s, FirstFloating(t))
    BY <1>2, <2>1, <2>2 DEF PopArg, PopOf
  <2>4. Passed(s, PopArg(s, t), t, x, y) /\ PopArg(s, t).stack = rest
    <3>1. OnTop(s, x, rest)
      BY <2>2
    <3> QED BY <2>2, <2>3, <3>1, OneWord
  <2>5. One(~FirstFloating(t)) = 1 /\ One(FirstFloating(t)) = 0
        /\ One(InTwo(t) /\ SecondFloating(t)) = 0 /\ One(InTwo(t) /\ ~SecondFloating(t)) = 0
    BY <2>2 DEF One
  <2>6. Clip(c.fp, FP_MAX) \in Nat
    BY <1>1 DEF Clip
  <2>7. Len(PopArg(s, t).gp) = c.gp + 1 /\ Len(PopArg(s, t).fp) = Clip(c.fp, FP_MAX)
    BY <1>1, <2>1, <2>4, <2>5, <2>6 DEF Passed
  <2>8. Count(c, t, 0) = [gp |-> c.gp + 1, fp |-> c.fp]
    BY <1>2 DEF Count
  <2>9. Clip(c.gp + 1, GP_MAX) = c.gp + 1
    BY <1>1, <2>1 DEF Clip
  <2> QED BY <2>4, <2>7, <2>8, <2>9 DEF AsCounted
<1>3. CASE t.kind = "floating"
  <2>1. c.fp < FP_MAX /\ Len(s.fp) = c.fp /\ Len(s.gp) = Clip(c.gp, GP_MAX)
    BY <1>1, <1>3 DEF ByStack, AsCounted, Clip
  <2>2. FirstFloating(t) /\ ~InTwo(t)
    BY <1>3, TypeIs DEF FirstFloating, InTwo
  <2>3. PopArg(s, t) = PopOf(s, FirstFloating(t))
    BY <1>3, <2>1, <2>2 DEF PopArg, PopOf
  <2>4. Passed(s, PopArg(s, t), t, x, y) /\ PopArg(s, t).stack = rest
    <3>1. OnTop(s, x, rest)
      BY <2>2
    <3> QED BY <2>2, <2>3, <3>1, OneWord
  <2>5. One(~FirstFloating(t)) = 0 /\ One(FirstFloating(t)) = 1
        /\ One(InTwo(t) /\ SecondFloating(t)) = 0 /\ One(InTwo(t) /\ ~SecondFloating(t)) = 0
    BY <2>2 DEF One
  <2>6. Clip(c.gp, GP_MAX) \in Nat
    BY <1>1 DEF Clip
  <2>7. Len(PopArg(s, t).fp) = c.fp + 1 /\ Len(PopArg(s, t).gp) = Clip(c.gp, GP_MAX)
    BY <1>1, <2>1, <2>4, <2>5, <2>6 DEF Passed
  <2>8. Count(c, t, 0) = [gp |-> c.gp, fp |-> c.fp + 1]
    BY <1>3 DEF Count
  <2>9. Clip(c.fp + 1, FP_MAX) = c.fp + 1
    BY <1>1, <2>1 DEF Clip
  <2> QED BY <2>4, <2>7, <2>8, <2>9 DEF AsCounted
<1>4. CASE t.kind = "ldouble"
  BY <1>4 DEF ByStack
<1>5. CASE t.kind = "struct"
  <2>1. ~(t.size > 16) /\ Fits(c, has_flonum1(t), has_flonum2(t))
    BY <1>5 DEF ByStack, has_flonum2
  <2>2. InTwo(t) /\ t.size > 8
    <3>1. t.size <= 16
      BY <2>1, TypeIs
    <3> QED BY <1>5, <3>1 DEF HalvesAgree, InTwo
  <2>3. (FirstFloating(t) <=> has_flonum1(t)) /\ (SecondFloating(t) <=> has_flonum2(t))
    BY <1>5 DEF FirstFloating, SecondFloating
  <2>4. PICK a \in {0, 1}, b \in {0, 1}, d \in {0, 1}, e \in {0, 1} :
          /\ a = One(~has_flonum1(t)) /\ b = One(has_flonum1(t))
          /\ d = One(~has_flonum2(t)) /\ e = One(has_flonum2(t))
    BY OneIs
  <2>5. c.gp + a + d < GP_MAX /\ c.fp + b + e < FP_MAX
    BY <2>1, <2>4 DEF Fits
  <2>6. Len(s.gp) = c.gp /\ Len(s.fp) = c.fp
    <3>1. PICK g \in Nat, f \in Nat : g = c.gp /\ f = c.fp
      BY <1>1
    <3>2. g + a + d < GP_MAX /\ f + b + e < FP_MAX
      BY <2>5, <3>1
    <3>3. a \in Nat /\ b \in Nat /\ d \in Nat /\ e \in Nat
      OBVIOUS
    <3>4. g < GP_MAX /\ f < FP_MAX
      BY <1>1, <3>2, <3>3
    <3> QED BY <3>1, <3>4 DEF AsCounted, Clip
  <2>7. PICK m : m = [gp |-> Len(s.gp), fp |-> Len(s.fp)]
    OBVIOUS
  <2>8. Fits(m, has_flonum1(t), has_flonum2(t))
    BY <2>1, <2>6, <2>7 DEF Fits
  <2>9. PopArg(s, t) = PopBoth(s, t)
    <3>1. PopArg(s, t) = PopStruct(s, t)
      BY <1>5 DEF PopArg
    <3>2. PopStruct(s, t) = PopOf(PopOf(s, has_flonum1(t)), has_flonum2(t))
      BY <2>1, <2>2, <2>7, <2>8 DEF PopStruct, PopOf
    <3> QED BY <3>1, <3>2, <2>3 DEF PopOf, PopBoth
  <2>10. Passed(s, PopArg(s, t), t, x, y) /\ PopArg(s, t).stack = rest
    <3>1. TwoOnTop(s, x, y, rest)
      BY <2>2
    <3>2. Passed(s, PopBoth(s, t), t, x, y) /\ PopBoth(s, t).stack = rest
      BY <2>2, <3>1, TwoWords
    <3> QED BY <2>9, <3>2
  <2>11. One(~FirstFloating(t)) = a /\ One(FirstFloating(t)) = b
         /\ One(InTwo(t) /\ ~SecondFloating(t)) = d /\ One(InTwo(t) /\ SecondFloating(t)) = e
    BY <2>2, <2>3, <2>4 DEF One
  <2>12. Len(PopArg(s, t).gp) = c.gp + a + d /\ Len(PopArg(s, t).fp) = c.fp + b + e
    BY <2>6, <2>10, <2>11 DEF Passed
  <2>13. Count(c, t, 0) = [gp |-> c.gp + a + d, fp |-> c.fp + b + e]
    BY <1>5, <2>4 DEF Count, has_flonum2
  <2>14. Clip(c.gp + a + d, GP_MAX) = c.gp + a + d /\ Clip(c.fp + b + e, FP_MAX) = c.fp + b + e
    BY <2>5 DEF Clip
  <2> QED BY <2>10, <2>12, <2>13, <2>14 DEF AsCounted
<1> QED BY <1>2, <1>3, <1>4, <1>5, TypeIs

-----------------------------------------------------------------------------
(* The whole call. *)

LEMMA Joined ==
  ASSUME NEW a \in Seq(Words), NEW f \in Seq(Words), NEW rest \in Seq(Words)
  PROVE  /\ (a \o f) \o rest \in Seq(Words) /\ f \o rest \in Seq(Words)
         /\ Len(a \o f) = Len(a) + Len(f)
         /\ \A k \in 1 .. Len(f) : (a \o f)[Len(a) + k] = f[k]
         /\ \A k \in 1 .. Len(a) : (a \o f)[k] = a[k]
         /\ a = <<>> => a \o f = f
         /\ \A x \in Words : a = << x >> => (a \o f) \o rest = << x >> \o (f \o rest)
<1>1. PICK b \in Seq(Words) : b = a \o f
  <2>1. a \o f \in Seq(Words)
    OBVIOUS
  <2> QED BY <2>1
<1>2. Len(b) = Len(a) + Len(f) /\ (\A k \in 1 .. Len(f) : b[Len(a) + k] = f[k])
      /\ \A k \in 1 .. Len(a) : b[k] = a[k]
  BY <1>1
<1>3. b \o rest \in Seq(Words) /\ f \o rest \in Seq(Words)
  OBVIOUS
<1>4. a = <<>> => a \o f = f
  OBVIOUS
<1>5. ASSUME NEW x \in Words, a = << x >> PROVE (a \o f) \o rest = << x >> \o (f \o rest)
  BY <1>5
<1> QED BY <1>1, <1>2, <1>3, <1>4, <1>5

LEMMA Associative ==
  ASSUME NEW a \in Seq(Words), NEW b \in Seq(Words), NEW c \in Seq(Words)
  PROVE  (a \o b) \o c = a \o (b \o c)
  OBVIOUS

Flat(a, b, c, d) == ((a \o b) \o c) \o d = a \o (b \o (c \o d))

LEMMA FourJoined ==
  ASSUME NEW a \in Seq(Words), NEW b \in Seq(Words), NEW c \in Seq(Words), NEW d \in Seq(Words)
  PROVE  Flat(a, b, c, d)
  BY SMTT(30) DEF Flat

LEMMA PairIs ==
  ASSUME NEW x \in Words, NEW y \in Words
  PROVE  << x >> \o << y >> = << x, y >>
<1>1. PICK u \in Seq(Words), v \in Seq(Words) : u = << x >> /\ v = << y >>
  <2>1. << x >> \in Seq(Words) /\ << y >> \in Seq(Words)
    OBVIOUS
  <2> QED BY <2>1
<1>2. Len(u) = 1 /\ u[1] = x /\ Len(v) = 1 /\ v[1] = y
  BY <1>1
<1>3. PICK w \in Seq(Words) : w = u \o v
  <2>1. u \o v \in Seq(Words)
    OBVIOUS
  <2> QED BY <2>1
<1>4. Len(w) = 2
  <2>1. Len(w) = Len(u) + Len(v)
    BY <1>3
  <2> QED BY <1>2, <2>1
<1>5. w[1] = x
  BY <1>2, <1>3
<1>6. w[2] = y
  <2>1. 1 \in 1 .. Len(v) /\ Len(u) + 1 = 2
    BY <1>2
  <2>2. \A k \in 1 .. Len(v) : w[Len(u) + k] = v[k]
    BY <1>3
  <2> QED BY <1>2, <2>1, <2>2
<1>7. w = << x, y >>
  BY <1>4, <1>5, <1>6
<1> QED BY <1>1, <1>3, <1>7

Laid(s, a, f, rest) == s.stack = (a \o f) \o rest

LEMMA JoinedTwo ==
  ASSUME NEW x \in Words, NEW y \in Words, NEW f \in Seq(Words), NEW rest \in Seq(Words), NEW s, NEW g,
         Laid(s, g, f, rest), g = << x, y >>, NEW e \in Seq(Words), e = f \o rest
  PROVE  TwoOnTop(s, x, y, e)
<1>1. PICK u \in Seq(Words), v \in Seq(Words), a \in Seq(Words) :
        u = << x >> /\ v = << y >> /\ a = u \o v
  <2>1. PICK u \in Seq(Words), v \in Seq(Words) : u = << x >> /\ v = << y >>
    <3>1. << x >> \in Seq(Words) /\ << y >> \in Seq(Words)
      OBVIOUS
    <3> QED BY <3>1
  <2>2. u \o v \in Seq(Words)
    OBVIOUS
  <2> QED BY <2>1, <2>2
<1>2. a = << x, y >>
  BY <1>1, PairIs
<1>3. Flat(u, v, f, rest)
  BY FourJoined
<1> QED BY <1>1, <1>2, <1>3 DEF Flat, Laid, TwoOnTop

(* An argument in registers has the words that they hold. *)
LEMMA InRegistersWords ==
  ASSUME Typed, HalvesAgree, NEW i \in 1 .. Len(args), ~OnStack(i)
  PROVE  Content(i) = IF InTwo(args[i]) THEN << << i, 1 >>, << i, 2 >> >> ELSE << << i, 1 >> >>
<1>1. PICK t \in ArgTypes, m \in Nat : t = args[i] /\ m = WordsOf(t)
  BY ArgIs, ContentIs
<1>2. t.kind # "ldouble" /\ (t.kind = "struct" => ~(t.size > 16))
  BY <1>1 DEF OnStack, ByStack
<1>3. t.size \in Nat
  BY <1>1, TypeIs DEF Typed
<1>4. m = IF InTwo(t) THEN 2 ELSE 1
  <2>1. CASE t.kind \in {"integer", "floating"}
    <3>1. t.size = 8
      BY <2>1, TypeIs DEF Typed
    <3> QED BY <1>1, <3>1 DEF InTwo, WordsOf
  <2>2. CASE t.kind = "struct"
    <3>1. t.size <= 16
      BY <1>2, <1>3, <2>2
    <3>2. InTwo(t)
      BY <2>2, <3>1 DEF HalvesAgree
    <3>3. 8 < t.size
      BY <3>2 DEF InTwo
    <3>4. (t.size + 7) \div 8 = 2
      BY <1>3, <3>1, <3>3
    <3> QED BY <1>1, <3>2, <3>4 DEF WordsOf
  <2> QED BY <1>2, <2>1, <2>2, TypeIs DEF Typed
<1>5. PICK s \in Seq(Words) : s = Content(i) /\ Len(s) = m /\ \A w \in 1 .. m : s[w] = << i, w >>
  BY <1>1, ContentIs
<1>6. PICK x, y : x = << i, 1 >> /\ y = << i, 2 >>
  OBVIOUS
<1>7. CASE InTwo(t)
  <2>1. Len(s) = 2 /\ s[1] = x /\ s[2] = y
    BY <1>4, <1>5, <1>6, <1>7
  <2>2. s = << x, y >>
    BY <2>1
  <2> QED BY <1>1, <1>5, <1>6, <1>7, <2>2
<1>8. CASE ~InTwo(t)
  <2>1. Len(s) = 1 /\ s[1] = x
    BY <1>4, <1>5, <1>6, <1>8
  <2>2. s = << x >>
    BY <2>1
  <2> QED BY <1>1, <1>5, <1>6, <1>8, <2>2
<1> QED BY <1>7, <1>8

Running(p, c, r, f, t) ==
  /\ PopsOf(p) /\ CountsOf(c, 0) /\ TakesOf(r) /\ PushesOf(f, FALSE) /\ PushesOf(t, TRUE)
  /\ \A i \in 1 .. Len(args) : OnStack(i) <=> ByStack(c[i - 1], args[i], 0)

(* After the pops of i arguments. *)
InStep(i, p, c, r, f, t, rest) ==
  /\ AsCounted(p[i], c[i])
  /\ p[i].stack = f[Len(args) - i] \o rest
  /\ r[i].gp = Len(p[i].gp) /\ r[i].fp = Len(p[i].fp)
  /\ r[i].top + Len(t[Len(args) - i]) = Len(t[Len(args)])

Moves(i, p) ==
  /\ Prefix(p[i - 1].gp, p[i].gp) /\ Prefix(p[i - 1].fp, p[i].fp)
  /\ ~OnStack(i) => Passed(p[i - 1], p[i], args[i], << i, 1 >>, << i, 2 >>)

LEMMA StepKept ==
  ASSUME Typed, HalvesAgree, NEW p, NEW c, NEW r, NEW f, NEW t, Running(p, c, r, f, t),
         NEW rest \in Seq(Words), NEW i \in 1 .. Len(args), InStep(i - 1, p, c, r, f, t, rest)
  PROVE  InStep(i, p, c, r, f, t, rest) /\ Moves(i, p)
<1>1. PICK n \in Nat, a \in ArgTypes : n = Len(args) /\ a = args[i]
  BY ArgIs
<1>2. PICK m \in 1 .. n : m = n + 1 - i
  <2>1. n + 1 - i \in 1 .. n
    BY <1>1
  <2> QED BY <2>1
<1>3. n - (i - 1) = m /\ n - i = m - 1 /\ n + 1 - m = i /\ i - 1 \in 0 .. n /\ i \in 0 .. n
      /\ m - 1 \in 0 .. n /\ m \in 0 .. n
  BY <1>1, <1>2
<1>4. PICK s \in Machines, d \in Registers, q \in Takers, s2 \in Machines :
        s = p[i - 1] /\ d = c[i - 1] /\ q = r[i - 1] /\ s2 = p[i]
  BY <1>1, <1>3 DEF Running, PopsOf, CountsOf, TakesOf
<1>5. s2 = PopArg(s, a) /\ c[i] = Count(d, a, 0) /\ r[i] = Take(q, a, OnStack(i))
      /\ (OnStack(i) <=> ByStack(d, a, 0))
  BY <1>1, <1>4 DEF Running, PopsOf, CountsOf, TakesOf
<1>6. PICK f0 \in Seq(Words), t0 \in Seq(Words), tn \in Seq(Words), pf \in Seq(Words), pt \in Seq(Words) :
        /\ f0 = f[m - 1] /\ t0 = t[m - 1] /\ tn = t[n] /\ pf = Piece(i, FALSE) /\ pt = Piece(i, TRUE)
  <2>1. f[m - 1] \in Seq(Words) /\ t[m - 1] \in Seq(Words) /\ t[n] \in Seq(Words)
    BY <1>1, <1>3 DEF Running, PushesOf
  <2> QED BY <2>1, PieceIs
<1>7. f[m] = pf \o f0 /\ t[m] = pt \o t0
  BY <1>1, <1>2, <1>3, <1>6 DEF Running, PushesOf
<1>8. /\ AsCounted(s, d) /\ s.stack = (pf \o f0) \o rest
      /\ q.gp = Len(s.gp) /\ q.fp = Len(s.fp) /\ q.top + Len(pt \o t0) = Len(tn)
  BY <1>1, <1>3, <1>4, <1>6, <1>7 DEF InStep
<1>9. Len(pt \o t0) = Len(pt) + Len(t0)
  BY Joined
<1>10. s.gp \in Seq(Words) /\ s.fp \in Seq(Words) /\ q.top \in Nat /\ q.gp \in Nat /\ q.fp \in Nat
  BY DEF Machines, Takers
<1>11. SUFFICES /\ AsCounted(s2, c[i]) /\ s2.stack = f0 \o rest
                /\ r[i].gp = Len(s2.gp) /\ r[i].fp = Len(s2.fp) /\ r[i].top + Len(t0) = Len(tn)
                /\ Prefix(s.gp, s2.gp) /\ Prefix(s.fp, s2.fp)
                /\ ~OnStack(i) => Passed(s, s2, a, << i, 1 >>, << i, 2 >>)
  BY <1>1, <1>3, <1>4, <1>6 DEF InStep, Moves
<1>12. CASE OnStack(i)
  <2>1. pf = <<>> /\ pt = Content(i)
    BY <1>6, <1>12 DEF Piece
  <2>2. s2 = s /\ AsCounted(s2, c[i])
    BY <1>5, <1>8, <1>12, OverStack DEF Typed
  <2>3. s2.stack = f0 \o rest
    <3>1. pf \o f0 = f0
      BY <2>1, Joined
    <3> QED BY <1>8, <2>2, <3>1
  <2>4. r[i] = [top |-> q.top + WordsOf(a), gp |-> q.gp, fp |-> q.fp]
    BY <1>5, <1>12 DEF Take
  <2>5. Len(pt) = WordsOf(a) /\ WordsOf(a) \in Nat
    BY <1>1, <2>1, ContentIs
  <2>6. q.top + WordsOf(a) + Len(t0) = Len(tn)
    <3>1. PICK u \in Nat, v \in Nat, w \in Nat, k \in Nat :
            u = Len(t0) /\ v = Len(tn) /\ w = WordsOf(a) /\ k = q.top
      BY <1>10, <2>5
    <3>2. k + (w + u) = v
      BY <1>8, <1>9, <2>5, <3>1
    <3>3. k + w + u = v
      BY <3>2
    <3> QED BY <3>1, <3>3
  <2>7. Prefix(s.gp, s.gp) /\ Prefix(s.fp, s.fp)
    BY <1>10 DEF Prefix
  <2>8. r[i].gp = q.gp /\ r[i].fp = q.fp /\ r[i].top = q.top + WordsOf(a)
    BY <2>4
  <2> QED BY <1>8, <1>12, <2>2, <2>3, <2>6, <2>7, <2>8
<1>13. CASE ~OnStack(i)
  <2>1. PICK x \in Words, y \in Words : x = << i, 1 >> /\ y = << i, 2 >>
    <3>1. << i, 1 >> \in Words /\ << i, 2 >> \in Words
      BY <1>1 DEF Words
    <3> QED BY <3>1
  <2>2. pt = <<>> /\ pf = IF InTwo(a) THEN << x, y >> ELSE << x >>
    BY <1>1, <1>6, <1>13, <2>1, InRegistersWords DEF Piece
  <2>3. PICK e \in Seq(Words) : e = f0 \o rest
    BY Joined
  <2>4. IF InTwo(a) THEN TwoOnTop(s, x, y, e) ELSE OnTop(s, x, e)
    <3>1. Laid(s, pf, f0, rest)
      BY <1>8 DEF Laid
    <3>2. CASE InTwo(a)
      BY <2>2, <2>3, <3>1, <3>2, JoinedTwo
    <3>3. CASE ~InTwo(a)
      <4>1. pf = << x >>
        BY <2>2, <3>3
      <4>2. (pf \o f0) \o rest = << x >> \o e
        BY <2>3, <4>1, Joined
      <4> QED BY <1>8, <3>3, <4>2 DEF OnTop
    <3> QED BY <3>2, <3>3
  <2>5. Passed(s, s2, a, x, y) /\ s2.stack = e /\ AsCounted(s2, c[i])
    BY <1>5, <1>8, <1>13, <2>4, InRegisters DEF Typed
  <2>6. /\ r[i].top = q.top
        /\ r[i].gp = q.gp + One(~FirstFloating(a)) + One(InTwo(a) /\ ~SecondFloating(a))
        /\ r[i].fp = q.fp + One(FirstFloating(a)) + One(InTwo(a) /\ SecondFloating(a))
    BY <1>5, <1>13 DEF Take
  <2>7. Len(t0) = Len(pt \o t0)
    BY <2>2, Joined
  <2> QED BY <1>8, <2>1, <2>3, <2>5, <2>6, <2>7 DEF Passed
<1> QED BY <1>12, <1>13

LEMMA AllSteps ==
  ASSUME Typed, HalvesAgree, NEW p, NEW c, NEW r, NEW f, NEW t, Running(p, c, r, f, t),
         NEW rest \in Seq(Words), InStep(0, p, c, r, f, t, rest)
  PROVE  /\ \A i \in 0 .. Len(args) : InStep(i, p, c, r, f, t, rest)
         /\ \A i \in 1 .. Len(args) : Moves(i, p)
<1>1. PICK n \in Nat : n = Len(args)
  BY ArgIs
<1> DEFINE T == {i \in 0 .. n : InStep(i, p, c, r, f, t, rest)}
<1>2. 0 \in T
  OBVIOUS
<1>3. ASSUME NEW i \in 1 .. n, i - 1 \in T PROVE i \in T
  BY <1>1, <1>3, StepKept
<1>4. \A i \in 0 .. n : InStep(i, p, c, r, f, t, rest)
  <2> HIDE DEF T
  <2>1. \A i \in 0 .. n : i \in T
    BY <1>2, <1>3, OneByOne
  <2> QED BY <2>1 DEF T
<1>5. ASSUME NEW i \in 1 .. n PROVE Moves(i, p)
  <2>1. i - 1 \in 0 .. n
    OBVIOUS
  <2> QED BY <1>1, <1>4, <2>1, StepKept
<1> QED BY <1>1, <1>4, <1>5

(* What is in a register stays there until the call. *)
LEMMA ToTheCall ==
  ASSUME Typed, NEW p, PopsOf(p), \A i \in 1 .. Len(args) : Moves(i, p), NEW i \in 0 .. Len(args)
  PROVE  Prefix(p[i].gp, p[Len(args)].gp) /\ Prefix(p[i].fp, p[Len(args)].fp)
<1>1. PICK n \in Nat : n = Len(args)
  BY ArgIs
<1> DEFINE T == {k \in 0 .. n : Prefix(p[n - k].gp, p[n].gp) /\ Prefix(p[n - k].fp, p[n].fp)}
<1>2. \A k \in 0 .. n : p[k].gp \in Seq(Words) /\ p[k].fp \in Seq(Words)
  BY <1>1 DEF PopsOf, Machines
<1>3. 0 \in T
  <2>1. n \in 0 .. n /\ n - 0 = n
    OBVIOUS
  <2>2. Prefix(p[n].gp, p[n].gp) /\ Prefix(p[n].fp, p[n].fp)
    BY <1>2, <2>1 DEF Prefix
  <2> QED BY <2>1, <2>2
<1>4. ASSUME NEW k \in 1 .. n, k - 1 \in T PROVE k \in T
  <2>1. PICK j \in 1 .. n : j = n - (k - 1)
    <3>1. n - (k - 1) \in 1 .. n
      OBVIOUS
    <3> QED BY <3>1
  <2>2. n - k = j - 1 /\ j - 1 \in 0 .. n /\ j \in 0 .. n /\ n \in 0 .. n
    BY <2>1
  <2>3. Prefix(p[j].gp, p[n].gp) /\ Prefix(p[j].fp, p[n].fp)
    BY <1>4, <2>1
  <2>4. Prefix(p[j - 1].gp, p[j].gp) /\ Prefix(p[j - 1].fp, p[j].fp)
    BY <1>1 DEF Moves
  <2>5. Prefix(p[j - 1].gp, p[n].gp) /\ Prefix(p[j - 1].fp, p[n].fp)
    BY <1>2, <2>2, <2>3, <2>4, PrefixIs
  <2> QED BY <2>2, <2>5
<1>5. PICK k \in 0 .. n : n - k = i
  <2>1. n - i \in 0 .. n /\ n - (n - i) = i
    BY <1>1
  <2> QED BY <2>1
<1>6. k \in T
  <2> HIDE DEF T
  <2> QED BY <1>3, <1>4, OneByOne
<1> QED BY <1>1, <1>5, <1>6

Ends(b, s) == Len(b) <= Len(s) /\ \A k \in 1 .. Len(b) : s[Len(s) - Len(b) + k] = b[k]

(* The words of the last arguments are at the end of those of all of them. *)
LEMMA AtTheEnd ==
  ASSUME Typed, NEW t, PushesOf(t, TRUE), NEW m \in 0 .. Len(args)
  PROVE  Ends(t[m], t[Len(args)])
<1>1. PICK n \in Nat : n = Len(args)
  BY ArgIs
<1>2. PICK s \in Seq(Words) : s = t[n]
  BY <1>1 DEF PushesOf
<1> DEFINE T == {k \in 0 .. n : Ends(t[n - k], s)}
<1>3. 0 \in T
  <2>1. Len(s) - Len(s) = 0 /\ \A k \in 1 .. Len(s) : Len(s) - Len(s) + k = k
    OBVIOUS
  <2>2. n - 0 = n
    OBVIOUS
  <2> QED BY <1>2, <2>1, <2>2 DEF Ends
<1>4. ASSUME NEW k \in 1 .. n, k - 1 \in T PROVE k \in T
  <2>1. PICK j \in 1 .. n : j = n - (k - 1)
    <3>1. n - (k - 1) \in 1 .. n
      OBVIOUS
    <3> QED BY <3>1
  <2>2. n - k = j - 1 /\ j - 1 \in 0 .. n /\ n + 1 - j \in 1 .. n
    BY <2>1
  <2>3. PICK b \in Seq(Words), a \in Seq(Words) : b = t[j - 1] /\ a = Piece(n + 1 - j, TRUE)
    BY <1>1, <2>2, PieceIs DEF PushesOf
  <2>4. t[j] = a \o b
    BY <1>1, <2>3 DEF PushesOf
  <2>5. PICK ab \in Seq(Words) : ab = a \o b /\ Ends(ab, s)
    <3>1. a \o b \in Seq(Words)
      OBVIOUS
    <3> QED BY <1>4, <2>1, <2>4, <3>1
  <2>6. PICK x \in Nat, y \in Nat, z \in Nat : x = Len(a) /\ y = Len(b) /\ z = Len(s)
    OBVIOUS
  <2>7. Len(ab) = x + y /\ \A i \in 1 .. y : ab[x + i] = b[i]
    BY <2>5, <2>6, Joined
  <2>8. x + y <= z /\ \A i \in 1 .. x + y : s[z - (x + y) + i] = ab[i]
    BY <2>5, <2>6, <2>7 DEF Ends
  <2>9. \A i \in 1 .. y : x + i \in 1 .. x + y /\ z - (x + y) + (x + i) = z - y + i
    OBVIOUS
  <2>10. y <= z /\ \A i \in 1 .. y : s[z - y + i] = b[i]
    BY <2>7, <2>8, <2>9, SMTT(30)
  <2>11. Ends(b, s)
    BY <2>6, <2>10 DEF Ends
  <2> QED BY <2>2, <2>3, <2>11
<1>5. PICK k \in 0 .. n : n - k = m
  <2>1. n - m \in 0 .. n /\ n - (n - m) = m
    BY <1>1
  <2> QED BY <2>1
<1>6. k \in T
  <2> HIDE DEF T
  <2> QED BY <1>3, <1>4, OneByOne
<1> QED BY <1>1, <1>2, <1>5, <1>6

(* Before the pops, with the pointer for the result in its register. *)
LEMMA AtTheStart ==
  ASSUME Typed, HalvesAgree, NEW p, NEW c, NEW r, NEW f, NEW t, Running(p, c, r, f, t),
         NEW pad \in Seq(Words), Start.stack = f[Len(args)] \o t[Len(args)] \o pad,
         NEW rest \in Seq(Words), rest = t[Len(args)] \o pad
  PROVE  InStep(0, p, c, r, f, t, rest)
<1>1. PICK n \in Nat : n = Len(args)
  BY ArgIs
<1>2. n \in 0 .. n /\ n - 0 = n
  OBVIOUS
<1>3. PICK a \in Seq(Words), b \in Seq(Words) : a = f[n] /\ b = t[n]
  BY <1>1, <1>2 DEF Running, PushesOf
<1>4. p[0] = Start /\ c[0] = [gp |-> One(hidden), fp |-> 0] /\ r[0] = [top |-> 0, gp |-> One(hidden), fp |-> 0]
  BY DEF Running, PopsOf, CountsOf, TakesOf
<1>5. PICK one \in {0, 1} : one = One(hidden)
  BY OneIs
<1>6. Len(Start.gp) = one /\ Len(Start.fp) = 0
  <2>1. CASE hidden
    BY <1>5, <2>1 DEF Start, One
  <2>2. CASE ~hidden
    BY <1>5, <2>2 DEF Start, One
  <2> QED BY <2>1, <2>2
<1>7. Clip(one, GP_MAX) = one /\ Clip(0, FP_MAX) = 0
  <2>1. GP_MAX \in Nat \ {0} /\ FP_MAX \in Nat
    BY DEF Typed, CallAssumption
  <2> QED BY <2>1 DEF Clip
<1>8. AsCounted(p[0], c[0])
  BY <1>4, <1>5, <1>6, <1>7 DEF AsCounted
<1>9. p[0].stack = a \o rest
  <2>1. (a \o b) \o pad = a \o (b \o pad)
    BY Associative
  <2> QED BY <1>1, <1>3, <1>4, <2>1
<1>10. r[0].top + Len(b) = Len(b)
  <2>1. Len(b) \in Nat
    OBVIOUS
  <2> QED BY <1>4, <2>1
<1>11. r[0].gp = Len(p[0].gp) /\ r[0].fp = Len(p[0].fp)
  BY <1>4, <1>5, <1>6
<1> QED BY <1>1, <1>2, <1>3, <1>8, <1>9, <1>10, <1>11 DEF InStep

(* What is above argument i takes top words of the stack. *)
Above(t, i, top) == top + Len(t[Len(args) + 1 - i]) = Len(t[Len(args)])
LeftOf(s, t, pad) == s = t[Len(args)] \o pad

(* A parameter on the stack. *)
LEMMA FromTheStack ==
  ASSUME Typed, HalvesAgree, NEW t, PushesOf(t, TRUE), NEW pad \in Seq(Words), NEW i \in 1 .. Len(args),
         OnStack(i), NEW q \in Takers, Above(t, i, q.top), NEW call \in Machines, LeftOf(call.stack, t, pad)
  PROVE  Receive(q, args[i], TRUE, call) = Content(i)
<1>0. PICK top \in Nat, s \in Seq(Words) : top = q.top /\ s = call.stack
  BY DEF Takers, Machines
<1>1. PICK n \in Nat, m \in 1 .. Len(args) : n = Len(args) /\ m = n + 1 - i
  <2>1. Len(args) + 1 - i \in 1 .. Len(args)
    BY ArgIs
  <2> QED BY <2>1, ArgIs
<1>2. m \in 0 .. n /\ m - 1 \in 0 .. n /\ n + 1 - m = i /\ n \in 0 .. n
  BY <1>1
<1>3. PICK tn \in Seq(Words), tm \in Seq(Words), b \in Seq(Words) : tn = t[n] /\ tm = t[m] /\ b = t[m - 1]
  BY <1>1, <1>2 DEF PushesOf
<1>4. PICK a \in Seq(Words), z \in Nat : a = Content(i) /\ z = WordsOf(args[i]) /\ Len(a) = z
                                       /\ a = [w \in 1 .. z |-> << i, w >>]
                                       /\ \A w \in 1 .. z : a[w] = << i, w >>
  BY ContentIs
<1>5. tm = a \o b
  <2>1. Piece(i, TRUE) = a
    BY <1>4 DEF Piece
  <2> QED BY <1>1, <1>2, <1>3, <2>1 DEF PushesOf
<1>6. PICK x \in Nat, y \in Nat : x = Len(tn) /\ y = Len(b)
  OBVIOUS
<1>7. Len(tm) = z + y /\ \A k \in 1 .. z : tm[k] = a[k]
  BY <1>4, <1>5, <1>6, Joined
<1>8. z + y <= x /\ \A k \in 1 .. z + y : tn[x - (z + y) + k] = tm[k]
  <2>1. Ends(tm, tn)
    BY <1>1, <1>2, <1>3, AtTheEnd
  <2> QED BY <1>6, <1>7, <2>1 DEF Ends
<1>9. top = x - (z + y)
  <2>1. top + Len(tm) = Len(tn)
    BY <1>0, <1>1, <1>3 DEF Above
  <2>2. Len(tn) = x /\ Len(tm) = z + y
    BY <1>6, <1>7
  <2>3. top + (z + y) = x
    BY <2>1, <2>2
  <2> QED BY <2>3
<1>10. \A w \in 1 .. z : tn[top + w] = a[w] /\ top + w \in 1 .. x
  BY <1>7, <1>8, <1>9, SMTT(30)
<1>11. s = tn \o pad
  BY <1>0, <1>1, <1>3 DEF LeftOf
<1>12. \A k \in 1 .. x : k \in DOMAIN s /\ s[k] = tn[k]
  <2>1. Len(s) = x + Len(pad) /\ Len(pad) \in Nat
    BY <1>6, <1>11
  <2>2. \A k \in 1 .. x : k \in DOMAIN s
    BY <2>1
  <2>3. \A k \in 1 .. x : s[k] = tn[k]
    BY <1>6, <1>11, Joined
  <2> QED BY <2>2, <2>3
<1>13. \A w \in 1 .. z : At(s, top + w) = << i, w >>
  BY <1>4, <1>10, <1>12 DEF At
<1>14. Receive(q, args[i], TRUE, call) = [w \in 1 .. z |-> At(s, top + w)]
  BY <1>0, <1>4 DEF Receive
<1> QED BY <1>4, <1>13, <1>14

(* A parameter in registers. *)
LEMMA FromRegisters ==
  ASSUME Typed, HalvesAgree, NEW i \in 1 .. Len(args), ~OnStack(i),
         NEW s \in Machines, NEW s2 \in Machines, NEW call \in Machines, NEW q \in Takers,
         Passed(s, s2, args[i], << i, 1 >>, << i, 2 >>),
         Prefix(s2.gp, call.gp), Prefix(s2.fp, call.fp), q.gp = Len(s.gp), q.fp = Len(s.fp)
  PROVE  Receive(q, args[i], FALSE, call) = Content(i)
<1>1. PICK t, x, y : t = args[i] /\ x = << i, 1 >> /\ y = << i, 2 >>
  OBVIOUS
<1>2. PICK a \in {0, 1}, b \in {0, 1}, d \in {0, 1}, e \in {0, 1} :
        /\ a = One(~FirstFloating(t)) /\ b = One(FirstFloating(t))
        /\ d = One(InTwo(t) /\ ~SecondFloating(t)) /\ e = One(InTwo(t) /\ SecondFloating(t))
  BY OneIs
<1>3. PICK g \in Nat, f \in Nat : g = q.gp /\ f = q.fp
  BY DEF Takers
<1>4. s2.gp \in Seq(Words) /\ s2.fp \in Seq(Words) /\ call.gp \in Seq(Words) /\ call.fp \in Seq(Words)
  BY DEF Machines
<1>5. Len(s2.gp) = g + a + d /\ Len(s2.fp) = f + b + e
  BY <1>1, <1>2, <1>3 DEF Passed
<1>6. \A k \in 1 .. Len(s2.gp) : At(call.gp, k) = s2.gp[k]
  <2>1. Len(s2.gp) \in Nat /\ Len(call.gp) \in Nat /\ Len(s2.gp) <= Len(call.gp)
    BY <1>4 DEF Prefix
  <2>2. \A k \in 1 .. Len(s2.gp) : k \in DOMAIN call.gp
    BY <1>4, <2>1
  <2> QED BY <2>2 DEF Prefix, At
<1>7. \A k \in 1 .. Len(s2.fp) : At(call.fp, k) = s2.fp[k]
  <2>1. Len(s2.fp) \in Nat /\ Len(call.fp) \in Nat /\ Len(s2.fp) <= Len(call.fp)
    BY <1>4 DEF Prefix
  <2>2. \A k \in 1 .. Len(s2.fp) : k \in DOMAIN call.fp
    BY <1>4, <2>1
  <2> QED BY <2>2 DEF Prefix, At
<1>8. (IF FirstFloating(t) THEN At(call.fp, f + 1) ELSE At(call.gp, g + 1)) = x
  <2>1. CASE FirstFloating(t)
    <3>1. b = 1
      BY <1>2, <2>1 DEF One
    <3>2. f + 1 \in 1 .. Len(s2.fp)
      BY <1>5, <3>1
    <3>3. s2.fp[f + 1] = x
      BY <1>1, <1>3, <2>1 DEF Passed
    <3> QED BY <1>7, <2>1, <3>2, <3>3
  <2>2. CASE ~FirstFloating(t)
    <3>1. a = 1
      BY <1>2, <2>2 DEF One
    <3>2. g + 1 \in 1 .. Len(s2.gp)
      BY <1>5, <3>1
    <3>3. s2.gp[g + 1] = x
      BY <1>1, <1>3, <2>2 DEF Passed
    <3> QED BY <1>6, <2>2, <3>2, <3>3
  <2> QED BY <2>1, <2>2
<1>9. InTwo(t) => (IF SecondFloating(t) THEN At(call.fp, f + b + 1) ELSE At(call.gp, g + a + 1)) = y
  <2> SUFFICES ASSUME InTwo(t)
               PROVE  (IF SecondFloating(t) THEN At(call.fp, f + b + 1) ELSE At(call.gp, g + a + 1)) = y
    OBVIOUS
  <2>1. CASE SecondFloating(t)
    <3>1. e = 1
      BY <1>2, <2>1 DEF One
    <3>2. f + b + 1 \in 1 .. Len(s2.fp)
      BY <1>5, <3>1
    <3>3. s2.fp[f + b + 1] = y
      BY <1>1, <1>2, <1>3, <2>1 DEF Passed
    <3> QED BY <1>7, <2>1, <3>2, <3>3
  <2>2. CASE ~SecondFloating(t)
    <3>1. d = 1
      BY <1>2, <2>2 DEF One
    <3>2. g + a + 1 \in 1 .. Len(s2.gp)
      BY <1>5, <3>1
    <3>3. s2.gp[g + a + 1] = y
      BY <1>1, <1>2, <1>3, <2>2 DEF Passed
    <3> QED BY <1>6, <2>2, <3>2, <3>3
  <2> QED BY <2>1, <2>2
<1>10. Content(i) = IF InTwo(t) THEN << x, y >> ELSE << x >>
  BY <1>1, InRegistersWords
<1>11. Receive(q, t, FALSE, call) = IF InTwo(t) THEN << x, y >> ELSE << x >>
  <2>1. PICK u : u = IF FirstFloating(t) THEN At(call.fp, f + 1) ELSE At(call.gp, g + 1)
    OBVIOUS
  <2>2. PICK v : v = IF SecondFloating(t) THEN At(call.fp, f + b + 1) ELSE At(call.gp, g + a + 1)
    OBVIOUS
  <2>3. Receive(q, t, FALSE, call) = IF InTwo(t) THEN << u, v >> ELSE << u >>
    BY <1>2, <1>3, <2>1, <2>2 DEF Receive
  <2> QED BY <1>8, <1>9, <2>1, <2>2, <2>3
<1> QED BY <1>1, <1>10, <1>11

LEMMA Arrive ==
  ASSUME Typed, HalvesAgree
  PROVE  ArgumentsArrive
<1>0. PICK p, c, r, f, t :
        /\ p = Popped /\ c = Counted(0) /\ r = Taken
        /\ f = push_args2(FALSE) /\ t = push_args2(TRUE)
  BY Zenon
<1>1. PICK n \in Nat : n = Len(args)
  BY ArgIs
<1>2. Running(p, c, r, f, t)
  BY <1>0, PopsAre, CountsAre, TakesAre, PushesAre DEF Running, OnStack
<1>3. 0 \in 0 .. n /\ n \in 0 .. n
  OBVIOUS
<1>4. PICK a \in Seq(Words), b \in Seq(Words), pad \in Seq(Words) :
        a = f[n] /\ b = t[n] /\ pad = IF stack_args > Len(b) THEN << Padding >> ELSE <<>>
  <2>1. << Padding >> \in Seq(Words) /\ <<>> \in Seq(Words)
    BY DEF Padding, Words
  <2>2. f[n] \in Seq(Words) /\ t[n] \in Seq(Words)
    BY <1>1, <1>2, <1>3 DEF Running, PushesOf
  <2> QED BY <2>1, <2>2
<1>5. Contents(FALSE) = a /\ Contents(TRUE) = b
  BY <1>0, <1>1, <1>4 DEF Contents
<1>6. Start.stack = a \o b \o pad
  BY <1>4, <1>5 DEF Start
<1>7. PICK rest \in Seq(Words) : rest = b \o pad
  <2>1. b \o pad \in Seq(Words)
    OBVIOUS
  <2> QED BY <2>1
<1>8. InStep(0, p, c, r, f, t, rest)
  <2>1. Start.stack = f[Len(args)] \o t[Len(args)] \o pad /\ rest = t[Len(args)] \o pad
    BY <1>1, <1>4, <1>6, <1>7
  <2> QED BY <1>2, <2>1, AtTheStart
<1>9. /\ \A i \in 0 .. n : InStep(i, p, c, r, f, t, rest)
      /\ \A i \in 1 .. n : Moves(i, p)
  BY <1>1, <1>2, <1>8, AllSteps
<1>10. \A i \in 0 .. n : Prefix(p[i].gp, p[n].gp) /\ Prefix(p[i].fp, p[n].fp)
  BY <1>1, <1>2, <1>9, ToTheCall DEF Running
<1>11. PICK call \in Machines : call = p[n] /\ call = AtCall
  <2>1. p[n] \in Machines
    BY <1>1, <1>2, <1>3 DEF Running, PopsOf
  <2> QED BY <1>0, <1>1, <2>1 DEF AtCall
<1>12. call.stack = rest
  <2>1. call.stack = f[n - n] \o rest
    BY <1>1, <1>3, <1>9, <1>11 DEF InStep
  <2>2. n - n = 0 /\ f[0] = <<>>
    BY <1>2 DEF Running, PushesOf
  <2>3. <<>> \o rest = rest
    OBVIOUS
  <2> QED BY <2>1, <2>2, <2>3
<1>13. ASSUME NEW i \in 1 .. n
       PROVE  Receive(r[i - 1], args[i], on_stack[i], call) = Content(i)
  <2>1. i - 1 \in 0 .. n /\ i \in 0 .. n /\ n - (i - 1) = n + 1 - i
    OBVIOUS
  <2>2. PICK q \in Takers, s \in Machines, s2 \in Machines : q = r[i - 1] /\ s = p[i - 1] /\ s2 = p[i]
    BY <1>1, <1>2, <2>1 DEF Running, PopsOf, TakesOf
  <2>3. on_stack[i] <=> OnStack(i)
    BY <1>1, SamePlaces
  <2>4. q.gp = Len(s.gp) /\ q.fp = Len(s.fp) /\ q.top + Len(t[n + 1 - i]) = Len(b)
    BY <1>1, <1>4, <1>9, <2>1, <2>2 DEF InStep
  <2>5. CASE OnStack(i)
    <3>1. Receive(q, args[i], on_stack[i], call) = Receive(q, args[i], TRUE, call)
      BY <2>3, <2>5 DEF Receive
    <3>2. Above(t, i, q.top)
      BY <1>1, <1>4, <2>4 DEF Above
    <3>3. LeftOf(call.stack, t, pad)
      BY <1>1, <1>4, <1>7, <1>12 DEF LeftOf
    <3>4. PushesOf(t, TRUE)
      BY <1>2 DEF Running
    <3>5. Receive(q, args[i], TRUE, call) = Content(i)
      BY <1>1, <2>5, <3>2, <3>3, <3>4, FromTheStack
    <3> QED BY <2>2, <3>1, <3>5
  <2>6. CASE ~OnStack(i)
    <3>1. Receive(q, args[i], on_stack[i], call) = Receive(q, args[i], FALSE, call)
      BY <2>3, <2>6 DEF Receive
    <3>2. Passed(s, s2, args[i], << i, 1 >>, << i, 2 >>)
      BY <1>9, <2>2, <2>6 DEF Moves
    <3>3. Prefix(s2.gp, call.gp) /\ Prefix(s2.fp, call.fp)
      BY <1>10, <1>11, <2>1, <2>2
    <3>4. Receive(q, args[i], FALSE, call) = Content(i)
      BY <1>1, <2>4, <2>6, <3>2, <3>3, FromRegisters
    <3> QED BY <2>2, <3>1, <3>4
  <2> QED BY <2>5, <2>6
<1>14. Received(call) = [i \in DOMAIN args |-> Content(i)]
  <2>1. DOMAIN args = 1 .. n
    BY <1>1, ArgIs
  <2>2. Received(call) = [i \in 1 .. n |-> Receive(r[i - 1], args[i], on_stack[i], call)]
    BY <1>0, <2>1 DEF Received
  <2> QED BY <1>13, <2>1, <2>2
<1>15. hidden => At(call.gp, 1) = Hidden
  <2> SUFFICES ASSUME hidden PROVE At(call.gp, 1) = Hidden
    OBVIOUS
  <2>1. p[0].gp = << Hidden >>
    BY <1>2 DEF Running, PopsOf, Start
  <2>2. Len(p[0].gp) = 1 /\ p[0].gp[1] = Hidden
    BY <2>1
  <2>3. Prefix(p[0].gp, call.gp)
    BY <1>3, <1>10, <1>11
  <2>4. call.gp[1] = Hidden /\ 1 <= Len(call.gp)
    BY <2>2, <2>3 DEF Prefix
  <2>5. 1 \in DOMAIN call.gp
    BY <2>4 DEF Machines
  <2> QED BY <2>4, <2>5 DEF At
<1>16. Len(call.stack) = stack_args /\ (depth + Len(call.stack)) % 2 = 0
  <2>1. PICK z \in Nat, d \in Nat : z = Len(b) /\ d = depth
    BY DEF Typed
  <2>2. stack_args = IF (d + z) % 2 = 1 THEN z + 1 ELSE z
    BY <1>5, <2>1 DEF stack_args
  <2>3. Len(rest) = z + Len(pad)
    BY <1>7, <2>1
  <2>4. CASE (d + z) % 2 = 1
    <3>1. stack_args = z + 1 /\ stack_args > z
      BY <2>1, <2>2, <2>4
    <3>2. Len(pad) = 1
      BY <1>4, <2>1, <3>1
    <3>3. (d + (z + 1)) % 2 = 0
      BY <2>4
    <3> QED BY <1>12, <2>1, <2>3, <3>1, <3>2, <3>3
  <2>5. CASE (d + z) % 2 # 1
    <3>1. stack_args = z /\ ~(stack_args > z)
      BY <2>1, <2>2, <2>5
    <3>2. Len(pad) = 0
      BY <1>4, <2>1, <3>1
    <3>3. (d + z) % 2 = 0
      BY <2>5
    <3>4. Len(rest) = z
      BY <2>3, <3>2
    <3> QED BY <1>12, <2>1, <3>1, <3>3, <3>4
  <2> QED BY <2>4, <2>5
<1> QED BY <1>11, <1>14, <1>15, <1>16 DEF ArgumentsArrive

-----------------------------------------------------------------------------
(* The lists of arguments are lists of types: what push_args and           *)
(* assign_lvar_offsets walk through.                                       *)
LEMMA CallTyped ==
  ASSUME CallAssumption
  PROVE  CallSpec => []Typed
<1>1. CallInit => Typed
  <2>1. <<>> \in Seq(ArgTypes)
    OBVIOUS
  <2> QED BY <2>1 DEF CallInit, Typed
<1>2. Typed /\ [CallNext]_callVars => Typed'
  <2> SUFFICES ASSUME Typed, [CallNext]_callVars PROVE Typed'
    OBVIOUS
  <2>1. args \in Seq(ArgTypes) /\ hidden \in BOOLEAN /\ depth \in Nat
    BY DEF Typed
  <2>2. CASE AddArg
    <3>1. PICK type \in ArgTypes : args' = Append(args, type)
      BY <2>2 DEF AddArg
    <3>2. args' \in Seq(ArgTypes)
      BY <2>1, <3>1
    <3> QED BY <2>1, <2>2, <3>2 DEF AddArg, Typed
  <2>3. CASE UNCHANGED callVars
    BY <2>1, <2>3 DEF callVars, Typed
  <2> QED BY <2>2, <2>3 DEF CallNext
<1> QED BY <1>1, <1>2, PTL DEF CallSpec

(* Every parameter of every call has the words that the caller evaluated for it, in whatever   *)
(* registers and places on the stack: codegen_x86.c's four separate walks over the arguments,  *)
(* push_args, the pops, assign_lvar_offsets and the prologue, keep in step, and the stack is   *)
(* aligned at the call.  For every number of registers and every set of types that have a      *)
(* second half wherever the code looks for one.                                                *)
THEOREM ArgumentsAlwaysArrive ==
  ASSUME CallAssumption, HalvesAgree
  PROVE  CallSpec => []ArgumentsArrive
<1>1. Typed => ArgumentsArrive
  BY Arrive
<1> QED BY <1>1, CallTyped, PTL
=============================================================================
