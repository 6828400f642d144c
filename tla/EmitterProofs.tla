----------------------------- MODULE EmitterProofs -----------------------------
(***************************************************************************)
(* What w2c2 knows while it writes the body of a function is what          *)
(* validation knows, and the C text that it writes is declared and         *)
(* labelled, for every body that is valid.                                 *)
(***************************************************************************)
EXTENDS Emitter, TLAPS, SequenceTheorems, FiniteSetTheorems

(***************************************************************************)
(* table.size pushes a type that the writer does not push ("unimplemented  *)
(* opcode"): what is read after it is not translated rightly.              *)
(***************************************************************************)
TableSizeUnused == \A f \in Functions : \A o \in f.opcodes : o.op # "table.size"

-----------------------------------------------------------------------------
(* The inductive invariant. *)

BlockTypes == Types \cup {NoType}
Kinds == {"func", "block", "loop", "if", "else"}
OpenBlocks == [op : Kinds, type : BlockTypes, height : Nat, dead : BOOLEAN]
Labels == [index : Nat, typeStackLength : Int, type : BlockTypes]
ActiveCalls ==
    [op : Kinds \ {"func"}, ignore : BOOLEAN, typeStackLengthBeforeBranches : Int,
     blockType : BlockTypes, label : Nat]

(* the operands of a block lie on those of the blocks around it *)
ValidOK(v) ==
    /\ v = [operands |-> v.operands, blocks |-> v.blocks]
    /\ v.operands \in Seq(Types) /\ v.blocks \in Seq(OpenBlocks)
    /\ \A k \in 1 .. Len(v.blocks) : v.blocks[k].height <= Len(v.operands)
    /\ \A j, k \in 1 .. Len(v.blocks) : j <= k => v.blocks[j].height <= v.blocks[k].height

DeadUpTo(k) == \E j \in 1 .. k : valid.blocks[j].dead

(* one active call for each open block; it is skipping code if a block around it is dead *)
CallsOK ==
    /\ calls \in Seq(ActiveCalls) /\ Open = Len(calls) + 1 /\ valid.blocks[1].op = "func"
    /\ ignore <=> DeadUpTo(Open)
    /\ \A k \in 1 .. Len(calls) :
          /\ calls[k].op = valid.blocks[k + 1].op /\ calls[k].blockType = valid.blocks[k + 1].type
          /\ calls[k].ignore <=> DeadUpTo(k)

(* the blocks that were entered alive are the outer ones: they have the labels *)
LabelsOK ==
    /\ Len(labelStack) >= 1 /\ labelStack[1].index = 0
    /\ \A k \in 1 .. Len(calls) : calls[k].ignore <=> Len(labelStack) <= k
    /\ \A k \in 2 .. Len(labelStack) : labelStack[k].index = calls[k - 1].label
    /\ \A j, k \in 1 .. Len(labelStack) : j < k => labelStack[j].index < labelStack[k].index

(* below a block that was entered alive, the writer knows the operands *)
StackOK ==
    /\ ~ignore => typeStack = valid.operands
    /\ \A k \in 1 .. Open : ~DeadUpTo(k - 1) =>
          /\ valid.blocks[k].height <= Len(typeStack)
          /\ \A x \in 1 .. valid.blocks[k].height : typeStack[x] = valid.operands[x]
    /\ \A k \in 1 .. Len(calls) :
          ~calls[k].ignore => calls[k].typeStackLengthBeforeBranches = valid.blocks[k + 1].height
    /\ \A k \in 1 .. Len(labelStack) : labelStack[k].typeStackLength = valid.blocks[k].height

(* the label of a loop is placed when it is entered, other labels at the end *)
Places(i) == {k \in DOMAIN code : code[k] = Placed(i)}
Unplaced(i) ==
    /\ ~done
    /\ \/ i = 0
       \/ \E k \in 1 .. Len(calls) : ~calls[k].ignore /\ calls[k].op # "loop" /\ calls[k].label = i

(* its stack variables are declared and its jumps go to labels that were given out *)
StatementOK(s, declared, labels) ==
    /\ s.s = "assign" => (s.to[1] = "s" => <<s.to[2], s.to[3]>> \in declared)
    /\ \A j \in Jumps(s) :
          /\ j.copy # <<>> => (j.copy[1].to[1] = "s" => <<j.copy[1].to[2], j.copy[1].to[3]>> \in declared)
          /\ j.index \in 0 .. labels - 1

CodeOK ==
    /\ code \in Seq(ToSet(code))
    /\ \A k \in DOMAIN code : StatementOK(code[k], stackDeclarations, nextLabelIndex)
    /\ \A i \in Nat : Unplaced(i) \/ i >= nextLabelIndex => Places(i) = {}
    /\ \A i \in 0 .. nextLabelIndex - 1 : ~Unplaced(i) => \E p \in DOMAIN code : Places(i) = {p}

Typed ==
    /\ function \in Functions /\ ValidOK(valid)
    /\ typeStack \in Seq(Types) /\ ignore \in BOOLEAN /\ done \in BOOLEAN
    /\ nextLabelIndex \in Nat \ {0} /\ labelStack \in Seq(Labels)
    /\ Len(labelStack) <= Len(calls) + 1
    /\ \A k \in 1 .. Len(labelStack) : labelStack[k].index < nextLabelIndex

EmitterInv == Typed /\ (~done => CallsOK /\ LabelsOK /\ StackOK) /\ CodeOK

-----------------------------------------------------------------------------
(* Sequences. *)

LEMMA PrefixIs ==
    ASSUME NEW S, NEW s \in Seq(S), NEW m \in Int, m <= Len(s)
    PROVE  /\ SubSeq(s, 1, m) \in Seq(S)
           /\ Len(SubSeq(s, 1, m)) = IF m < 0 THEN 0 ELSE m
           /\ \A x \in 1 .. m : SubSeq(s, 1, m)[x] = s[x]
  OBVIOUS

LEMMA CatIs ==
    ASSUME NEW S, NEW s \in Seq(S), NEW t \in Seq(S)
    PROVE  /\ s \o t \in Seq(S) /\ Len(s \o t) = Len(s) + Len(t)
           /\ \A x \in 1 .. Len(s) : (s \o t)[x] = s[x]
           /\ \A x \in 1 .. Len(t) : (s \o t)[Len(s) + x] = t[x]
           /\ \A x \in Len(s) + 1 .. Len(s) + Len(t) : (s \o t)[x] = t[x - Len(s)]
  OBVIOUS

LEMMA AppendedIs ==
    ASSUME NEW S, NEW s \in Seq(S), NEW e \in S
    PROVE  /\ Append(s, e) \in Seq(S) /\ Len(Append(s, e)) = Len(s) + 1
           /\ \A x \in 1 .. Len(s) : Append(s, e)[x] = s[x]
           /\ Append(s, e)[Len(s) + 1] = e
  OBVIOUS

LEMMA EqualSequences ==
    ASSUME NEW S, NEW s \in Seq(S), NEW t \in Seq(S), Len(s) = Len(t),
           \A x \in 1 .. Len(s) : s[x] = t[x]
    PROVE  s = t
  OBVIOUS

LEMMA OfElements ==
    ASSUME NEW S, NEW s \in Seq(S)
    PROVE  s \in Seq(ToSet(s)) /\ ToSet(s) \subseteq S
  BY DEF ToSet

-----------------------------------------------------------------------------
(* Validation keeps its own invariant, whatever the writer does. *)

(* w agrees with v below the innermost block of v *)
Below(v, w) ==
    \A x \in 1 .. Top(v).height : x <= Len(w.operands) /\ w.operands[x] = v.operands[x]

LEMMA ResultsTyped ==
    ASSUME NEW t \in BlockTypes
    PROVE  Results(t) \in Seq(Types) /\ Len(Results(t)) = IF t = NoType THEN 0 ELSE 1
  BY WasmCodeAssumption DEF BlockTypes, Results

(* the type of what a call calls *)
LEMMA CalleeTyped ==
    ASSUME NEW o, WellFormed(o), o.op \in {"call", "call_indirect"},
           NEW callee, callee = Callees[o.callee]
    PROVE  /\ callee.params \in Seq(Types) /\ Len(callee.params) \in Nat
           /\ callee.result \in BlockTypes /\ Results(callee.result) \in Seq(Types)
<1>1. o.callee \in DOMAIN Callees
  BY DEF WellFormed
<1>2. callee.params \in Seq(Types) /\ callee.result \in BlockTypes
  BY <1>1, WasmCodeAssumption DEF BlockTypes
<1> QED BY <1>2, ResultsTyped

LEMMA PopsTyped ==
    ASSUME NEW o, WellFormed(o), o.op \in Plain
    PROVE  Pops(o) \in Seq(Types) /\ Pushes(o) \in Seq(Types)
<1>1. I32 \in Types /\ LocalTypes \in Seq(Types) /\ GlobalTypes \in Seq(Types)
  BY WasmCodeAssumption
<1>2. CASE o.op \in {"call", "call_indirect"}
  <2>1. PICK callee : callee = Callees[o.callee]
    OBVIOUS
  <2>2. callee.params \in Seq(Types) /\ Results(callee.result) \in Seq(Types)
    BY <1>2, <2>1, CalleeTyped
  <2>3. Append(callee.params, I32) \in Seq(Types)
    BY <1>1, <2>2
  <2>4. Pops(o) \in {callee.params, Append(callee.params, I32)} /\ Pushes(o) = Results(callee.result)
    BY <1>2, <2>1 DEF Pops, Pushes
  <2> QED BY <2>2, <2>3, <2>4
<1>3. CASE o.op \notin {"call", "call_indirect"}
  <2>1. Pops(o) \in Seq(Types)
    BY <1>1, <1>3 DEF WellFormed, Plain, Pops
  <2>2. Pushes(o) \in Seq(Types)
    BY <1>1, <1>3 DEF WellFormed, Plain, Pushes
  <2> QED BY <2>1, <2>2
<1> QED BY <1>2, <1>3

LEMMA TopIs ==
    ASSUME NEW v, ValidOK(v), v.blocks # <<>>
    PROVE  /\ Len(v.blocks) \in Nat \ {0} /\ Top(v) = v.blocks[Len(v.blocks)]
           /\ Top(v) \in OpenBlocks /\ Top(v).height \in Nat
           /\ Top(v).height <= Len(v.operands) /\ Len(v.operands) \in Nat
           /\ Own(v) \in Nat /\ Own(v) = Len(v.operands) - Top(v).height
           /\ v.operands \in Seq(Types) /\ v.blocks \in Seq(OpenBlocks)
<1>1. Len(v.blocks) \in Nat \ {0} /\ v.blocks \in Seq(OpenBlocks)
  BY DEF ValidOK
<1>2. Top(v) = v.blocks[Len(v.blocks)] /\ Top(v) \in OpenBlocks
  BY <1>1 DEF Top, Last
<1>3. Top(v).height \in Nat /\ Top(v).height <= Len(v.operands) /\ Len(v.operands) \in Nat
  BY <1>1, <1>2 DEF ValidOK, OpenBlocks
<1>4. v.operands \in Seq(Types)
  BY DEF ValidOK
<1> QED BY <1>1, <1>2, <1>3, <1>4 DEF Own

LEMMA Heights ==
    ASSUME NEW v, ValidOK(v), v.blocks # <<>>, NEW k \in 1 .. Len(v.blocks)
    PROVE  /\ v.blocks[k] \in OpenBlocks /\ v.blocks[k].height \in Nat
           /\ v.blocks[k].height <= Top(v).height
<1>1. v.blocks \in Seq(OpenBlocks) /\ Len(v.blocks) \in Nat \ {0} /\ Top(v) = v.blocks[Len(v.blocks)]
  BY TopIs
<1>2. v.blocks[k] \in OpenBlocks
  BY <1>1
<1>3. v.blocks[k].height \in Nat
  BY <1>2 DEF OpenBlocks
<1>4. Len(v.blocks) \in 1 .. Len(v.blocks) /\ k <= Len(v.blocks)
  BY <1>1
<1>5. v.blocks[k].height <= v.blocks[Len(v.blocks)].height
  BY <1>4 DEF ValidOK
<1> QED BY <1>1, <1>2, <1>3, <1>5

(* what is left when types are popped *)
LEMMA WithoutIs ==
    ASSUME NEW v, ValidOK(v), v.blocks # <<>>, NEW types \in Seq(Types)
    PROVE  /\ Without(v, types) \in Seq(Types)
           /\ Top(v).height <= Len(Without(v, types)) /\ Len(Without(v, types)) <= Len(v.operands)
           /\ \A x \in 1 .. Len(Without(v, types)) : Without(v, types)[x] = v.operands[x]
<1> DEFINE n == IF Len(types) < Own(v) THEN Len(types) ELSE Own(v)
<1>1. v.operands \in Seq(Types) /\ Len(types) \in Nat
  BY DEF ValidOK
<1>2. n \in Nat /\ n <= Own(v)
  BY <1>1, TopIs
<1>3. Len(v.operands) - n \in Nat /\ Top(v).height <= Len(v.operands) - n /\ Len(v.operands) - n <= Len(v.operands)
  BY <1>2, TopIs
<1>4. Without(v, types) = SubSeq(v.operands, 1, Len(v.operands) - n)
  BY DEF Without
<1> HIDE DEF n
<1> QED BY <1>1, <1>3, <1>4, PrefixIs

(* where the code can be reached the types are there *)
LEMMA OnTop ==
    ASSUME NEW v, ValidOK(v), v.blocks # <<>>, ~Dead(v), NEW types \in Seq(Types), HasOnTop(v, types)
    PROVE  /\ Len(types) <= Own(v)
           /\ Without(v, types) = SubSeq(v.operands, 1, Len(v.operands) - Len(types))
           /\ \A k \in 1 .. Len(types) : v.operands[Len(v.operands) - Len(types) + k] = types[k]
<1>1. Len(types) \in Nat /\ Own(v) \in Nat
  BY TopIs
<1>2. \A k \in 1 .. Len(types) : /\ Len(types) - k < Own(v)
                                 /\ v.operands[Len(v.operands) - (Len(types) - k)] = types[k]
  BY DEF HasOnTop
<1>3. Len(types) <= Own(v)
  <2>1. CASE Len(types) = 0
    BY <1>1, <2>1
  <2>2. CASE Len(types) # 0
    <3>1. Len(types) - 1 < Own(v)
      BY <1>1, <1>2, <2>2
    <3> QED BY <1>1, <3>1
  <2> QED BY <2>1, <2>2
<1>4. Without(v, types) = SubSeq(v.operands, 1, Len(v.operands) - Len(types))
  <2>1. (IF Len(types) < Own(v) THEN Len(types) ELSE Own(v)) = Len(types)
    BY <1>1, <1>3
  <2> QED BY <2>1 DEF Without
<1>5. Len(v.operands) \in Nat
  BY TopIs
<1>6. \A k \in 1 .. Len(types) : Len(v.operands) - (Len(types) - k) = Len(v.operands) - Len(types) + k
  BY <1>1, <1>5
<1> QED BY <1>2, <1>3, <1>4, <1>6

LEMMA SameBlocksOK ==
    ASSUME NEW v, ValidOK(v), v.blocks # <<>>, NEW ops \in Seq(Types),
           Top(v).height <= Len(ops),
           \A x \in 1 .. Top(v).height : ops[x] = v.operands[x],
           NEW w, w = [v EXCEPT !.operands = ops]
    PROVE  /\ ValidOK(w) /\ Below(v, w) /\ w.operands = ops /\ w.blocks = v.blocks
<1>1. w = [operands |-> ops, blocks |-> v.blocks]
  BY DEF ValidOK
<1>2. w.operands = ops /\ w.blocks = v.blocks
  BY <1>1
<1>3. /\ Len(v.blocks) \in Nat \ {0} /\ Top(v) = v.blocks[Len(v.blocks)]
      /\ Top(v).height \in Nat /\ v.blocks \in Seq(OpenBlocks) /\ Len(ops) \in Nat
  BY TopIs
<1>4. ASSUME NEW k \in 1 .. Len(v.blocks) PROVE v.blocks[k].height <= Len(ops)
  <2>1. v.blocks[k].height <= Top(v).height /\ v.blocks[k].height \in Nat
    BY Heights
  <2> QED BY <2>1, <1>3
<1>5. ValidOK(w)
  BY <1>1, <1>2, <1>3, <1>4 DEF ValidOK
<1>6. Below(v, w)
  BY <1>2, <1>3 DEF Below
<1> QED BY <1>2, <1>5, <1>6

(* w is v with one more block, which starts at the operands *)
OpensBlock(v, w, o) ==
    /\ Len(w.blocks) = Len(v.blocks) + 1
    /\ \A k \in 1 .. Len(v.blocks) : w.blocks[k] = v.blocks[k]
    /\ LET b == w.blocks[Len(v.blocks) + 1]
       IN b.op = o.op /\ b.type = o.type /\ b.height = Len(w.operands) /\ ~b.dead

LEMMA OpenedOK ==
    ASSUME NEW v, ValidOK(v), v.blocks # <<>>, NEW ops \in Seq(Types),
           Top(v).height <= Len(ops),
           \A x \in 1 .. Top(v).height : ops[x] = v.operands[x],
           NEW o, o.op \in {"block", "loop", "if"}, o.type \in BlockTypes,
           NEW w, w = Opened(v, o, ops)
    PROVE  ValidOK(w) /\ Below(v, w) /\ w.operands = ops /\ OpensBlock(v, w, o)
<1> DEFINE b == [op |-> o.op, type |-> o.type, height |-> Len(ops), dead |-> FALSE]
<1>1. w = [operands |-> ops, blocks |-> Append(v.blocks, b)]
  BY DEF Opened
<1>2. w.operands = ops /\ w.blocks = Append(v.blocks, b)
  BY <1>1
<1>3. /\ Len(v.blocks) \in Nat \ {0} /\ Top(v) = v.blocks[Len(v.blocks)]
      /\ Top(v).height \in Nat /\ v.blocks \in Seq(OpenBlocks) /\ Len(ops) \in Nat
  BY TopIs
<1>4. b \in OpenBlocks /\ b.height = Len(ops)
  BY <1>3 DEF OpenBlocks, Kinds
<1> HIDE DEF b
<1>5. /\ w.blocks \in Seq(OpenBlocks) /\ Len(w.blocks) = Len(v.blocks) + 1
      /\ \A k \in 1 .. Len(v.blocks) : w.blocks[k] = v.blocks[k]
      /\ w.blocks[Len(v.blocks) + 1] = b
  BY <1>2, <1>3, <1>4, AppendedIs
<1>6. ASSUME NEW k \in 1 .. Len(v.blocks)
      PROVE  v.blocks[k].height <= Len(ops) /\ v.blocks[k].height \in Nat
  <2>1. v.blocks[k].height <= Top(v).height /\ v.blocks[k].height \in Nat
    BY Heights
  <2> QED BY <2>1, <1>3
<1>7. \A k \in 1 .. Len(w.blocks) : w.blocks[k].height <= Len(ops)
  <2> SUFFICES ASSUME NEW k \in 1 .. Len(w.blocks) PROVE w.blocks[k].height <= Len(ops)
    OBVIOUS
  <2>1. CASE k = Len(v.blocks) + 1
    BY <2>1, <1>3, <1>4, <1>5
  <2>2. CASE k # Len(v.blocks) + 1
    <3>1. k \in 1 .. Len(v.blocks)
      BY <2>2, <1>3, <1>5
    <3> QED BY <3>1, <1>5, <1>6
  <2> QED BY <2>1, <2>2
<1>8. \A j, k \in 1 .. Len(w.blocks) : j <= k => w.blocks[j].height <= w.blocks[k].height
  <2> SUFFICES ASSUME NEW j \in 1 .. Len(w.blocks), NEW k \in 1 .. Len(w.blocks), j <= k
               PROVE  w.blocks[j].height <= w.blocks[k].height
    OBVIOUS
  <2>1. CASE k = Len(v.blocks) + 1
    BY <2>1, <1>4, <1>5, <1>7
  <2>2. CASE k # Len(v.blocks) + 1
    <3>1. j \in 1 .. Len(v.blocks) /\ k \in 1 .. Len(v.blocks)
      BY <2>2, <1>3, <1>5
    <3> QED BY <3>1, <1>5 DEF ValidOK
  <2> QED BY <2>1, <2>2
<1>9. ValidOK(w)
  BY <1>1, <1>2, <1>5, <1>7, <1>8 DEF ValidOK
<1>10. Below(v, w)
  BY <1>2, <1>3 DEF Below
<1>11. b.op = o.op /\ b.type = o.type /\ ~b.dead
  BY DEF b
<1>12. OpensBlock(v, w, o)
  BY <1>2, <1>4, <1>5, <1>11 DEF OpensBlock
<1> QED BY <1>2, <1>9, <1>10, <1>12

(* the operands below the innermost block *)
LEMMA CutIs ==
    ASSUME NEW v, ValidOK(v), v.blocks # <<>>
    PROVE  /\ SubSeq(v.operands, 1, Top(v).height) \in Seq(Types)
           /\ Len(SubSeq(v.operands, 1, Top(v).height)) = Top(v).height
           /\ \A x \in 1 .. Top(v).height : SubSeq(v.operands, 1, Top(v).height)[x] = v.operands[x]
<1>1. v.operands \in Seq(Types) /\ Top(v).height \in Nat /\ Top(v).height <= Len(v.operands)
  BY TopIs DEF ValidOK
<1> QED BY <1>1, PrefixIs

(* the innermost block changes in what is no height *)
WithTop(v, b) ==
    [operands |-> SubSeq(v.operands, 1, Top(v).height),
     blocks |-> [v.blocks EXCEPT ![Len(v.blocks)] = b]]

LEMMA TopChangedOK ==
    ASSUME NEW v, ValidOK(v), v.blocks # <<>>,
           NEW b \in OpenBlocks, b.height = Top(v).height,
           NEW w, w = WithTop(v, b)
    PROVE  /\ ValidOK(w) /\ Below(v, w) /\ w.operands = SubSeq(v.operands, 1, Top(v).height)
           /\ Len(w.blocks) = Len(v.blocks)
           /\ \A k \in 1 .. Len(v.blocks) - 1 : w.blocks[k] = v.blocks[k]
           /\ w.blocks[Len(v.blocks)] = b
<1> DEFINE ops == SubSeq(v.operands, 1, Top(v).height)
<1>1. w.operands = ops /\ w.blocks = [v.blocks EXCEPT ![Len(v.blocks)] = b]
  BY DEF WithTop
<1>2. ops \in Seq(Types) /\ Len(ops) = Top(v).height /\ \A x \in 1 .. Top(v).height : ops[x] = v.operands[x]
  BY CutIs
<1> HIDE DEF ops
<1>3. /\ Len(v.blocks) \in Nat \ {0} /\ Top(v) = v.blocks[Len(v.blocks)]
      /\ Top(v).height \in Nat /\ v.blocks \in Seq(OpenBlocks)
  BY TopIs
<1>4. /\ w.blocks \in Seq(OpenBlocks) /\ Len(w.blocks) = Len(v.blocks)
      /\ \A k \in 1 .. Len(v.blocks) - 1 : w.blocks[k] = v.blocks[k]
      /\ w.blocks[Len(v.blocks)] = b
  BY <1>1, <1>3
<1>5. \A k \in 1 .. Len(v.blocks) : w.blocks[k].height = v.blocks[k].height
  <2> SUFFICES ASSUME NEW k \in 1 .. Len(v.blocks) PROVE w.blocks[k].height = v.blocks[k].height
    OBVIOUS
  <2>1. CASE k = Len(v.blocks)
    BY <2>1, <1>3, <1>4
  <2>2. CASE k # Len(v.blocks)
    BY <2>2, <1>3, <1>4
  <2> QED BY <2>1, <2>2
<1>6. \A j, k \in 1 .. Len(v.blocks) : j <= k => v.blocks[j].height <= v.blocks[k].height
  BY DEF ValidOK
<1>7. \A k \in 1 .. Len(v.blocks) : v.blocks[k].height <= Len(ops)
  BY <1>2, Heights
<1>8. w = [operands |-> w.operands, blocks |-> w.blocks]
  BY DEF WithTop
<1>9. ValidOK(w)
  BY <1>1, <1>2, <1>4, <1>5, <1>6, <1>7, <1>8 DEF ValidOK
<1>10. Below(v, w)
  BY <1>1, <1>2, <1>3 DEF Below
<1> QED BY <1>1, <1>4, <1>9, <1>10 DEF ops

(* the innermost block ends *)
Closed(v) ==
    [operands |-> SubSeq(v.operands, 1, Top(v).height) \o Results(Top(v).type),
     blocks |-> Front(v.blocks)]

LEMMA ClosedOK ==
    ASSUME NEW v, ValidOK(v), v.blocks # <<>>,
           NEW w, w = Closed(v)
    PROVE  /\ ValidOK(w) /\ Below(v, w)
           /\ w.operands = SubSeq(v.operands, 1, Top(v).height) \o Results(Top(v).type)
           /\ Len(w.blocks) = Len(v.blocks) - 1
           /\ \A k \in 1 .. Len(v.blocks) - 1 : w.blocks[k] = v.blocks[k]
<1> DEFINE cut == SubSeq(v.operands, 1, Top(v).height)
           results == Results(Top(v).type)
<1>1. w.operands = cut \o results /\ w.blocks = Front(v.blocks)
  BY DEF Closed
<1>2. cut \in Seq(Types) /\ Len(cut) = Top(v).height /\ \A x \in 1 .. Top(v).height : cut[x] = v.operands[x]
  BY CutIs
<1>3. /\ Len(v.blocks) \in Nat \ {0} /\ Top(v) = v.blocks[Len(v.blocks)] /\ Top(v) \in OpenBlocks
      /\ Top(v).height \in Nat /\ v.blocks \in Seq(OpenBlocks)
  BY TopIs
<1>4. results \in Seq(Types) /\ Len(results) \in Nat
  BY <1>3, ResultsTyped DEF OpenBlocks
<1> HIDE DEF cut, results
<1>5. /\ w.operands \in Seq(Types) /\ Len(w.operands) = Top(v).height + Len(results)
      /\ \A x \in 1 .. Top(v).height : w.operands[x] = v.operands[x]
  <2>1. /\ cut \o results \in Seq(Types) /\ Len(cut \o results) = Len(cut) + Len(results)
        /\ \A x \in 1 .. Len(cut) : (cut \o results)[x] = cut[x]
    BY <1>2, <1>4, CatIs
  <2> QED BY <2>1, <1>1, <1>2, Zenon
<1>6. /\ w.blocks \in Seq(OpenBlocks) /\ Len(w.blocks) = Len(v.blocks) - 1
      /\ \A k \in 1 .. Len(v.blocks) - 1 : w.blocks[k] = v.blocks[k]
  BY <1>1, <1>3, PrefixIs DEF Front
<1>7. \A j, k \in 1 .. Len(v.blocks) : j <= k => v.blocks[j].height <= v.blocks[k].height
  BY DEF ValidOK
<1>8. ASSUME NEW k \in 1 .. Len(w.blocks)
      PROVE  w.blocks[k].height <= Len(w.operands)
  <2>1. k \in 1 .. Len(v.blocks) /\ w.blocks[k] = v.blocks[k]
    BY <1>3, <1>6
  <2>2. v.blocks[k].height <= Top(v).height /\ v.blocks[k].height \in Nat
    BY <2>1, Heights
  <2>3. Len(w.operands) = Top(v).height + Len(results) /\ Len(results) \in Nat /\ Top(v).height \in Nat
    BY <1>3, <1>4, <1>5
  <2> QED BY <2>1, <2>2, <2>3
<1>9. \A j, k \in 1 .. Len(w.blocks) : j <= k => w.blocks[j].height <= w.blocks[k].height
  <2> SUFFICES ASSUME NEW j \in 1 .. Len(w.blocks), NEW k \in 1 .. Len(w.blocks), j <= k
               PROVE  w.blocks[j].height <= w.blocks[k].height
    OBVIOUS
  <2>1. /\ j \in 1 .. Len(v.blocks) - 1 /\ k \in 1 .. Len(v.blocks) - 1
        /\ j \in 1 .. Len(v.blocks) /\ k \in 1 .. Len(v.blocks)
    BY <1>3, <1>6
  <2>2. w.blocks[j] = v.blocks[j] /\ w.blocks[k] = v.blocks[k]
    BY <2>1, <1>6
  <2> QED BY <2>1, <2>2, <1>7
<1>9a. w = [operands |-> w.operands, blocks |-> w.blocks]
  BY DEF Closed
<1>10. ValidOK(w)
  BY <1>9a, <1>5, <1>6, <1>8, <1>9 DEF ValidOK
<1>11. Below(v, w)
  BY <1>3, <1>4, <1>5 DEF Below
<1> QED BY <1>1, <1>6, <1>10, <1>11 DEF cut, results

-----------------------------------------------------------------------------
(* What the writer knows, one kind of step after the other. *)

Writing == Typed /\ ~done /\ CallsOK /\ LabelsOK /\ StackOK

LEMMA WritingIs ==
    ASSUME Writing
    PROVE  /\ ValidOK(valid) /\ valid.blocks # <<>> /\ Open \in Nat \ {0}
           /\ valid.blocks \in Seq(OpenBlocks) /\ Len(valid.blocks) = Open
           /\ calls \in Seq(ActiveCalls) /\ Len(calls) \in Nat /\ Open = Len(calls) + 1
           /\ labelStack \in Seq(Labels) /\ Len(labelStack) \in 1 .. Open
           /\ typeStack \in Seq(Types) /\ Len(typeStack) \in Nat
           /\ nextLabelIndex \in Nat \ {0} /\ ignore \in BOOLEAN
<1>1. ValidOK(valid) /\ calls \in Seq(ActiveCalls) /\ Open = Len(calls) + 1
  BY DEF Writing, Typed, CallsOK
<1>2. valid.blocks \in Seq(OpenBlocks) /\ Len(valid.blocks) = Open
  BY <1>1 DEF ValidOK, Open
<1>3. labelStack \in Seq(Labels) /\ Len(labelStack) <= Len(calls) + 1 /\ Len(labelStack) >= 1
  BY DEF Writing, Typed, LabelsOK
<1>4. Len(calls) \in Nat /\ Len(labelStack) \in Nat
  BY <1>1, <1>3
<1>5. /\ typeStack \in Seq(Types) /\ nextLabelIndex \in Nat \ {0} /\ ignore \in BOOLEAN
  BY DEF Writing, Typed
<1>6. valid.blocks # <<>>
  BY <1>1, <1>2, <1>4
<1> QED BY <1>1, <1>2, <1>3, <1>4, <1>5, <1>6

LEMMA DeadGrows ==
    ASSUME Writing, NEW k \in 1 .. Open
    PROVE  /\ DeadUpTo(k) <=> DeadUpTo(k - 1) \/ valid.blocks[k].dead
           /\ DeadUpTo(k) => ignore
           /\ ~DeadUpTo(0)
<1>1. k \in Nat /\ Open \in Nat
  BY WritingIs
<1>2. \A j : j \in 1 .. k <=> j \in 1 .. k - 1 \/ j = k
  BY <1>1
<1>3. DeadUpTo(k) <=> DeadUpTo(k - 1) \/ valid.blocks[k].dead
  BY <1>2 DEF DeadUpTo
<1>4. DeadUpTo(k) => DeadUpTo(Open)
  BY <1>1 DEF DeadUpTo
<1>5. DeadUpTo(k) => ignore
  BY <1>4 DEF Writing, CallsOK
<1>6. ~DeadUpTo(0)
  BY DEF DeadUpTo
<1> QED BY <1>3, <1>5, <1>6

LEMMA DeadSame ==
    ASSUME NEW n \in Nat, \A k \in 1 .. n : valid'.blocks[k].dead = valid.blocks[k].dead
    PROVE  DeadUpTo(n)' <=> DeadUpTo(n)
  BY DEF DeadUpTo

(* code that can be reached is not dead, and its operands are the writer's *)
LEMMA Reached ==
    ASSUME Writing, ~ignore
    PROVE  /\ ~Dead(valid) /\ typeStack = valid.operands /\ Len(labelStack) = Open
           /\ \A k \in 0 .. Open : ~DeadUpTo(k)
           /\ \A k \in 1 .. Len(calls) : ~calls[k].ignore
<1>1. Open \in Nat \ {0} /\ Open = Len(calls) + 1 /\ Len(labelStack) \in 1 .. Open
  BY WritingIs
<1>2. ~DeadUpTo(Open)
  BY DEF Writing, CallsOK
<1>3. \A k \in 0 .. Open : ~DeadUpTo(k)
  BY <1>1, <1>2 DEF DeadUpTo
<1>4. ~Dead(valid)
  <2>1. Top(valid) = valid.blocks[Open]
    BY WritingIs, TopIs DEF Open
  <2>2. Open \in 1 .. Open
    BY <1>1
  <2>3. ~valid.blocks[Open].dead
    BY <1>2, <2>2 DEF DeadUpTo
  <2> QED BY <2>1, <2>3 DEF Dead
<1>5. \A k \in 1 .. Len(calls) : ~calls[k].ignore
  <2>1. \A k \in 1 .. Len(calls) : k \in 0 .. Open
    BY <1>1
  <2> QED BY <1>3, <2>1 DEF Writing, CallsOK
<1>6. Len(labelStack) = Open
  <2>1. CASE Len(calls) = 0
    BY <1>1, <2>1
  <2>2. CASE Len(calls) # 0
    <3>1. Len(calls) \in 1 .. Len(calls)
      BY <1>1, <2>2
    <3>2. ~(Len(labelStack) <= Len(calls))
      BY <3>1, <1>5 DEF Writing, LabelsOK
    <3> QED BY <1>1, <3>2
  <2> QED BY <2>1, <2>2
<1> QED BY <1>3, <1>4, <1>5, <1>6 DEF Writing, StackOK

LEMMA Straightforward ==
    ASSUME Writing, ValidOK(valid'), Below(valid, valid'), valid'.blocks = valid.blocks,
           UNCHANGED <<function, labelStack, nextLabelIndex, ignore, calls, done>>,
           typeStack' \in Seq(Types),
           ignore => typeStack' = typeStack,
           ~ignore => typeStack' = valid'.operands
    PROVE  Writing'
<1>1. Open' = Open /\ \A k : DeadUpTo(k)' <=> DeadUpTo(k)
  BY DEF Open, DeadUpTo
<1>2. Typed'
  BY DEF Writing, Typed
<1>3. CallsOK' /\ LabelsOK'
  BY <1>1 DEF Writing, CallsOK, LabelsOK
<1>4. ASSUME NEW k \in 1 .. Open, ~DeadUpTo(k - 1)
      PROVE  /\ valid.blocks[k].height <= Len(typeStack')
             /\ \A x \in 1 .. valid.blocks[k].height : typeStack'[x] = valid'.operands[x]
  <2>1. CASE ignore
    <3>1. /\ valid.blocks[k].height <= Len(typeStack)
          /\ \A x \in 1 .. valid.blocks[k].height : typeStack[x] = valid.operands[x]
      BY <1>4 DEF Writing, StackOK
    <3>2. valid.blocks[k].height \in Nat /\ valid.blocks[k].height <= Top(valid).height
      BY WritingIs, Heights
    <3>3. Top(valid).height \in Nat
      BY WritingIs, TopIs
    <3>4. \A x \in 1 .. valid.blocks[k].height : x \in 1 .. Top(valid).height
      BY <3>2, <3>3
    <3>5. \A x \in 1 .. valid.blocks[k].height : valid'.operands[x] = valid.operands[x]
      BY <3>4 DEF Below
    <3> QED BY <2>1, <3>1, <3>5
  <2>2. CASE ~ignore
    <3>1. k \in 1 .. Len(valid'.blocks)
      BY WritingIs
    <3>2. valid'.blocks[k].height <= Len(valid'.operands)
      BY <3>1 DEF ValidOK
    <3> QED BY <2>2, <3>2
  <2> QED BY <2>1, <2>2
<1>5. StackOK'
  BY <1>1, <1>4 DEF Writing, StackOK
<1> QED BY <1>2, <1>3, <1>5 DEF Writing

(* after a branch the rest of the block is dead *)
LEMMA KillKeeps ==
    ASSUME Writing, ValidOK(valid'), Below(valid, valid'),
           Len(valid'.blocks) = Open,
           \A k \in 1 .. Open - 1 : valid'.blocks[k] = valid.blocks[k],
           valid'.blocks[Open] = [valid.blocks[Open] EXCEPT !.dead = TRUE],
           UNCHANGED <<function, labelStack, nextLabelIndex, calls, done>>, ignore' = TRUE,
           typeStack' \in Seq(Types),
           ignore => typeStack' = typeStack,
           ~ignore => /\ Top(valid).height <= Len(typeStack')
                      /\ \A x \in 1 .. Top(valid).height : typeStack'[x] = typeStack[x]
    PROVE  Writing'
<1>1. /\ Open' = Open /\ Open \in Nat \ {0} /\ Open = Len(calls) + 1 /\ Len(calls) \in Nat
      /\ Len(labelStack) \in 1 .. Open /\ Open \in 1 .. Open /\ valid.blocks[Open] \in OpenBlocks
  BY WritingIs, Heights DEF Open
<1>2. \A k \in 0 .. Open - 1 : DeadUpTo(k)' <=> DeadUpTo(k)
  BY <1>1, DeadSame
<1>3. DeadUpTo(Open)'
  BY <1>1 DEF DeadUpTo, OpenBlocks
<1>4. \A k \in 1 .. Open : /\ valid'.blocks[k].op = valid.blocks[k].op
                           /\ valid'.blocks[k].type = valid.blocks[k].type
                           /\ valid'.blocks[k].height = valid.blocks[k].height
  <2> SUFFICES ASSUME NEW k \in 1 .. Open
               PROVE  /\ valid'.blocks[k].op = valid.blocks[k].op
                      /\ valid'.blocks[k].type = valid.blocks[k].type
                      /\ valid'.blocks[k].height = valid.blocks[k].height
    OBVIOUS
  <2>1. CASE k = Open
    BY <2>1, <1>1 DEF OpenBlocks
  <2>2. CASE k # Open
    BY <2>2, <1>1
  <2> QED BY <2>1, <2>2
<1>5. Typed'
  BY DEF Writing, Typed
<1>6. CallsOK'
  <2>1. \A k \in 1 .. Len(calls) : k \in 0 .. Open - 1 /\ k + 1 \in 1 .. Open
    BY <1>1
  <2>2. \A k \in 1 .. Len(calls) :
          /\ calls[k].op = valid'.blocks[k + 1].op /\ calls[k].blockType = valid'.blocks[k + 1].type
          /\ calls[k].ignore <=> DeadUpTo(k)'
    BY <2>1, <1>2, <1>4 DEF Writing, CallsOK
  <2>3. calls' \in Seq(ActiveCalls) /\ Open' = Len(calls') + 1 /\ (ignore' <=> DeadUpTo(Open)')
    BY <1>1, <1>3 DEF Writing, CallsOK
  <2>4. valid'.blocks[1].op = "func"
    BY <1>1, <1>4 DEF Writing, CallsOK
  <2> QED BY <2>2, <2>3, <2>4, <1>1 DEF CallsOK
<1>7. LabelsOK'
  BY DEF Writing, LabelsOK
<1>8. ASSUME NEW k \in 1 .. Open, ~DeadUpTo(k - 1)'
      PROVE  /\ valid'.blocks[k].height <= Len(typeStack')
             /\ \A x \in 1 .. valid'.blocks[k].height : typeStack'[x] = valid'.operands[x]
  <2>1. ~DeadUpTo(k - 1)
    <3>1. k - 1 \in 0 .. Open - 1
      BY <1>1
    <3> QED BY <3>1, <1>2, <1>8
  <2>2. /\ valid.blocks[k].height <= Len(typeStack)
        /\ \A x \in 1 .. valid.blocks[k].height : typeStack[x] = valid.operands[x]
    BY <2>1 DEF Writing, StackOK
  <2>3. /\ valid.blocks[k].height \in Nat /\ valid.blocks[k].height <= Top(valid).height
        /\ Top(valid).height \in Nat
    BY WritingIs, Heights, TopIs
  <2>4. \A x \in 1 .. valid.blocks[k].height : x \in 1 .. Top(valid).height
    BY <2>3
  <2>5. \A x \in 1 .. valid.blocks[k].height : valid'.operands[x] = valid.operands[x]
    BY <2>4 DEF Below
  <2>6. valid.blocks[k].height <= Len(typeStack')
    <3>1. Len(typeStack') \in Nat
      OBVIOUS
    <3> QED BY <3>1, <2>2, <2>3
  <2>7. \A x \in 1 .. valid.blocks[k].height : typeStack'[x] = typeStack[x]
    BY <2>4
  <2> QED BY <1>4, <2>2, <2>5, <2>6, <2>7
<1>9. StackOK'
  <2>1. \A k \in 1 .. Len(calls) : k + 1 \in 1 .. Open
    BY <1>1
  <2>2. \A k \in 1 .. Len(labelStack) : k \in 1 .. Open
    BY <1>1
  <2>3. \A k \in 1 .. Len(calls) :
          ~calls[k].ignore => calls[k].typeStackLengthBeforeBranches = valid'.blocks[k + 1].height
    BY <2>1, <1>4 DEF Writing, StackOK
  <2>4. \A k \in 1 .. Len(labelStack) : labelStack[k].typeStackLength = valid'.blocks[k].height
    BY <2>2, <1>4 DEF Writing, StackOK
  <2> QED BY <2>3, <2>4, <1>1, <1>8 DEF StackOK
<1> QED BY <1>5, <1>6, <1>7, <1>9 DEF Writing

(* a block is entered when n blocks are open *)
EnteredBlock(n) ==
    /\ Len(valid'.blocks) = n + 1
    /\ \A k \in 1 .. n : valid'.blocks[k] = valid.blocks[k]
    /\ ~valid'.blocks[n + 1].dead /\ valid'.blocks[n + 1].height = Len(valid'.operands)
    /\ calls' \in Seq(ActiveCalls) /\ Len(calls') = n
    /\ \A k \in 1 .. n - 1 : calls'[k] = calls[k]
    /\ calls'[n].op = valid'.blocks[n + 1].op /\ calls'[n].blockType = valid'.blocks[n + 1].type
    /\ calls'[n].ignore = ignore

EnteredLabel(n) ==
    /\ calls'[n].typeStackLengthBeforeBranches = Len(valid'.operands)
    /\ calls'[n].label = nextLabelIndex
    /\ labelStack' \in Seq(Labels) /\ Len(labelStack') = n + 1
    /\ \A k \in 1 .. n : labelStack'[k] = labelStack[k]
    /\ labelStack'[n + 1].index = nextLabelIndex
    /\ labelStack'[n + 1].typeStackLength = Len(valid'.operands)
    /\ nextLabelIndex' = nextLabelIndex + 1
    /\ typeStack' = valid'.operands

LEMMA EnterKeeps ==
    ASSUME Writing, ValidOK(valid'), Below(valid, valid'),
           NEW n \in Nat \ {0}, n = Open, EnteredBlock(n),
           UNCHANGED <<function, ignore, done>>,
           ignore => UNCHANGED <<labelStack, nextLabelIndex, typeStack>>,
           ~ignore => EnteredLabel(n)
    PROVE  Writing'
<1>1. /\ n = Open /\ Open' = n + 1 /\ n = Len(calls) + 1 /\ Len(calls) \in Nat
      /\ Len(labelStack) \in 1 .. n /\ labelStack \in Seq(Labels) /\ nextLabelIndex \in Nat \ {0}
  BY WritingIs DEF Open, EnteredBlock
<1>2. /\ Len(valid'.blocks) = n + 1 /\ Len(calls') = n /\ calls' \in Seq(ActiveCalls)
      /\ \A k \in 1 .. n : valid'.blocks[k] = valid.blocks[k]
      /\ \A k \in 1 .. n - 1 : calls'[k] = calls[k]
      /\ ~valid'.blocks[n + 1].dead /\ valid'.blocks[n + 1].height = Len(valid'.operands)
      /\ calls'[n].op = valid'.blocks[n + 1].op /\ calls'[n].blockType = valid'.blocks[n + 1].type
      /\ calls'[n].ignore = ignore
  BY DEF EnteredBlock
<1>3. ~ignore => /\ calls'[n].typeStackLengthBeforeBranches = Len(valid'.operands)
                 /\ calls'[n].label = nextLabelIndex
                 /\ labelStack' \in Seq(Labels) /\ Len(labelStack') = n + 1
                 /\ \A k \in 1 .. n : labelStack'[k] = labelStack[k]
                 /\ labelStack'[n + 1].index = nextLabelIndex
                 /\ labelStack'[n + 1].typeStackLength = Len(valid'.operands)
                 /\ nextLabelIndex' = nextLabelIndex + 1 /\ typeStack' = valid'.operands
  BY DEF EnteredLabel
<1>5. ASSUME NEW k \in 0 .. n PROVE DeadUpTo(k)' <=> DeadUpTo(k)
  <2>1. k \in Nat /\ \A j \in 1 .. k : j \in 1 .. n
    BY <1>1, <1>2
  <2>2. \A j \in 1 .. k : valid'.blocks[j].dead = valid.blocks[j].dead
    BY <2>1, <1>2
  <2> QED BY <2>1, <2>2, DeadSame
<1>6. DeadUpTo(n + 1)' <=> ignore
  <2>1. \A j : j \in 1 .. n + 1 <=> j \in 1 .. n \/ j = n + 1
    BY <1>1, <1>2
  <2>2. DeadUpTo(n + 1)' <=> (DeadUpTo(n)' \/ valid'.blocks[n + 1].dead)
    BY <2>1 DEF DeadUpTo
  <2>3. DeadUpTo(n)' <=> DeadUpTo(n)
    BY <1>1, <1>2, <1>5
  <2> QED BY <2>2, <2>3, <1>2 DEF Writing, CallsOK
<1>7. CallsOK'
  <2>1. ASSUME NEW k \in 1 .. n
        PROVE  /\ calls'[k].op = valid'.blocks[k + 1].op
               /\ calls'[k].blockType = valid'.blocks[k + 1].type
               /\ calls'[k].ignore <=> DeadUpTo(k)'
    <3>1. CASE k = n
      <4>1. DeadUpTo(k)' <=> ignore
        BY <3>1, <1>1, <1>2, <1>5 DEF Writing, CallsOK
      <4> QED BY <4>1, <3>1, <1>2
    <3>2. CASE k # n
      <4>1. k \in 1 .. n - 1 /\ k + 1 \in 1 .. n /\ k \in 0 .. n
        BY <3>2, <1>1
      <4>2. k \in 1 .. Len(calls)
        BY <4>1, <1>1
      <4>3. /\ calls[k].op = valid.blocks[k + 1].op /\ calls[k].blockType = valid.blocks[k + 1].type
            /\ calls[k].ignore <=> DeadUpTo(k)
        BY <4>2 DEF Writing, CallsOK
      <4>4. calls'[k] = calls[k] /\ valid'.blocks[k + 1] = valid.blocks[k + 1]
        BY <4>1, <1>2
      <4> QED BY <4>1, <4>3, <4>4, <1>5
    <3> QED BY <3>1, <3>2
  <2>2. Open' = Len(calls') + 1
    BY <1>1, <1>2
  <2>3. ignore' <=> (\E j \in 1 .. n + 1 : valid'.blocks[j].dead)
    BY <1>6 DEF DeadUpTo
  <2>4. ignore' <=> DeadUpTo(Open)'
    BY <2>3, <1>1, <1>2 DEF DeadUpTo
  <2>5. valid'.blocks[1].op = "func"
    BY <1>2 DEF Writing, CallsOK
  <2> QED BY <2>1, <2>2, <2>4, <2>5, <1>1, <1>2 DEF CallsOK
<1>8. CASE ignore
  <2>1. Typed'
    BY <1>1, <1>2, <1>8 DEF Writing, Typed
  <2>2. LabelsOK'
    <3>1. ASSUME NEW k \in 1 .. n PROVE calls'[k].ignore <=> Len(labelStack) <= k
      <4>1. CASE k = n
        BY <4>1, <1>1, <1>2, <1>8
      <4>2. CASE k # n
        <5>1. k \in 1 .. Len(calls) /\ k \in 1 .. n - 1
          BY <4>2, <1>1, <1>2
        <5> QED BY <5>1, <1>2 DEF Writing, LabelsOK
      <4> QED BY <4>1, <4>2
    <3>2. ASSUME NEW k \in 2 .. Len(labelStack) PROVE labelStack[k].index = calls'[k - 1].label
      <4>1. k - 1 \in 1 .. n - 1
        BY <1>1, <1>2
      <4>2. calls'[k - 1] = calls[k - 1]
        BY <4>1, <1>2
      <4> QED BY <4>2 DEF Writing, LabelsOK
    <3>3. \A k \in 1 .. Len(calls') : calls'[k].ignore <=> Len(labelStack) <= k
      BY <3>1, <1>2
    <3> QED BY <3>2, <3>3, <1>8 DEF Writing, LabelsOK
  <2>3. ASSUME NEW k \in 1 .. n + 1, ~DeadUpTo(k - 1)'
        PROVE  /\ valid'.blocks[k].height <= Len(typeStack)
               /\ \A x \in 1 .. valid'.blocks[k].height : typeStack[x] = valid'.operands[x]
    <3>1. k # n + 1
      BY <2>3, <1>1, <1>2, <1>5, <1>8 DEF Writing, CallsOK
    <3>2. k \in 1 .. n /\ k - 1 \in 0 .. n
      BY <3>1, <1>1, <1>2
    <3>3. ~DeadUpTo(k - 1)
      BY <3>2, <2>3, <1>5
    <3>4. /\ valid.blocks[k].height <= Len(typeStack)
          /\ \A x \in 1 .. valid.blocks[k].height : typeStack[x] = valid.operands[x]
      BY <3>2, <3>3, <1>1 DEF Writing, StackOK
    <3>5. /\ valid.blocks[k].height \in Nat /\ valid.blocks[k].height <= Top(valid).height
          /\ Top(valid).height \in Nat
      BY <3>2, <1>1, WritingIs, Heights, TopIs DEF Open
    <3>6. \A x \in 1 .. valid.blocks[k].height : x \in 1 .. Top(valid).height
      BY <3>5
    <3>7. \A x \in 1 .. valid.blocks[k].height : valid'.operands[x] = valid.operands[x]
      BY <3>6 DEF Below
    <3> QED BY <3>2, <3>4, <3>7, <1>2
  <2>4. ASSUME NEW k \in 1 .. n, ~calls'[k].ignore
        PROVE  calls'[k].typeStackLengthBeforeBranches = valid'.blocks[k + 1].height
    <3>1. k # n
      BY <2>4, <1>8, <1>2
    <3>2. k \in 1 .. n - 1 /\ k \in 1 .. Len(calls) /\ k + 1 \in 1 .. n
      BY <3>1, <1>1, <1>2
    <3>3. calls'[k] = calls[k] /\ valid'.blocks[k + 1] = valid.blocks[k + 1]
      BY <3>2, <1>2
    <3> QED BY <3>2, <3>3, <2>4 DEF Writing, StackOK
  <2>5. \A k \in 1 .. Len(labelStack) : labelStack[k].typeStackLength = valid'.blocks[k].height
    <3>1. \A k \in 1 .. Len(labelStack) : k \in 1 .. n
      BY <1>1, <1>2
    <3> QED BY <3>1, <1>2, <1>1 DEF Writing, StackOK
  <2>6. StackOK'
    BY <2>3, <2>4, <2>5, <1>1, <1>2, <1>8 DEF StackOK
  <2> QED BY <2>1, <2>2, <2>6, <1>7 DEF Writing
<1>9. CASE ~ignore
  <2>1. typeStack = valid.operands /\ \A k \in 1 .. Len(calls) : ~calls[k].ignore
    BY <1>9, Reached
  <2>2. \A k \in 1 .. n : labelStack[k].index < nextLabelIndex /\ labelStack[k].index \in Nat
    <3>1. Len(labelStack) = n
      BY <1>9, Reached
    <3>2. \A k \in 1 .. n : labelStack[k].index < nextLabelIndex
      BY <3>1 DEF Writing, Typed
    <3>3. \A k \in 1 .. n : labelStack[k] \in Labels
      BY <3>1, <1>1
    <3> QED BY <3>2, <3>3 DEF Labels
  <2>3. typeStack' \in Seq(Types) /\ nextLabelIndex' \in Nat \ {0}
    BY <1>1, <1>9, <1>2, <1>3 DEF ValidOK
  <2>4. \A k \in 1 .. n + 1 : labelStack'[k].index < nextLabelIndex'
    <3>1. nextLabelIndex' = nextLabelIndex + 1 /\ nextLabelIndex \in Nat /\ labelStack'[n + 1].index = nextLabelIndex
      BY <1>1, <1>3, <1>9
    <3>2. \A k \in 1 .. n : labelStack'[k] = labelStack[k]
      BY <1>3, <1>9
    <3>3. \A k \in 1 .. n + 1 : k \in 1 .. n \/ k = n + 1
      OBVIOUS
    <3> QED BY <3>1, <3>2, <3>3, <2>2
  <2>5. Typed'
    BY <2>1, <2>3, <2>4, <1>1, <1>2, <1>3, <1>9 DEF Writing, Typed
  <2>6. \A k \in 1 .. n : ~calls'[k].ignore
    <3>1. \A k \in 1 .. n : k \in 1 .. n - 1 \/ k = n
      OBVIOUS
    <3>2. \A k \in 1 .. n - 1 : ~calls[k].ignore
      BY <2>1, <1>1
    <3>3. \A k \in 1 .. n - 1 : calls'[k] = calls[k]
      BY <1>2
    <3>4. ~calls'[n].ignore
      BY <1>2, <1>9
    <3> QED BY <3>1, <3>2, <3>3, <3>4
  <2>7. ASSUME NEW k \in 2 .. n + 1 PROVE labelStack'[k].index = calls'[k - 1].label
    <3>1. CASE k = n + 1
      <4>1. calls'[k - 1] = calls'[n]
        BY <3>1, <1>1, <1>2, <1>3, <1>9
      <4> QED BY <3>1, <4>1, <1>9, <1>2, <1>3
    <3>2. CASE k # n + 1
      <4>1. k \in 1 .. n /\ k \in 2 .. Len(labelStack) /\ k - 1 \in 1 .. n - 1
        BY <3>2, <1>1, <1>9, Reached, <1>2, <1>3
      <4> QED BY <4>1, <2>1, <1>2, <1>3, <1>9 DEF Writing, LabelsOK
    <3> QED BY <3>1, <3>2
  <2>8. ASSUME NEW j \in 1 .. n + 1, NEW k \in 1 .. n + 1, j < k
        PROVE  labelStack'[j].index < labelStack'[k].index
    <3>1. j \in 1 .. n /\ labelStack'[j] = labelStack[j]
      BY <2>8, <2>1, <1>1, <1>2, <1>3, <1>9
    <3>2. CASE k = n + 1
      BY <3>1, <3>2, <2>1, <2>2, <1>2, <1>3, <1>9
    <3>3. CASE k # n + 1
      <4>1. k \in 1 .. n /\ labelStack'[k] = labelStack[k]
        BY <3>3, <2>1, <1>1, <1>2, <1>3, <1>9
      <4>2. Len(labelStack) = n
        BY <1>9, Reached
      <4> QED BY <4>1, <4>2, <3>1, <2>8, <1>2, <1>3, <1>9 DEF Writing, LabelsOK
    <3> QED BY <3>2, <3>3
  <2>9. LabelsOK'
    <3>1. Len(labelStack') >= 1 /\ labelStack'[1].index = 0
      BY <2>1, <1>1, <1>2, <1>3, <1>9 DEF Writing, LabelsOK
    <3>2. \A k \in 1 .. Len(calls') : calls'[k].ignore <=> Len(labelStack') <= k
      BY <2>1, <2>6, <1>1, <1>2, <1>3, <1>9
    <3> QED BY <3>1, <3>2, <2>1, <2>7, <2>8, <1>2, <1>3, <1>9 DEF LabelsOK
  <2>10. \A k \in 1 .. n + 1 : valid'.blocks[k].height <= Len(valid'.operands)
    BY <1>2 DEF ValidOK
  <2>11. ASSUME NEW k \in 1 .. n
         PROVE  calls'[k].typeStackLengthBeforeBranches = valid'.blocks[k + 1].height
    <3>1. CASE k = n
      BY <3>1, <1>9, <1>2, <1>3
    <3>2. CASE k # n
      <4>1. k \in 1 .. n - 1 /\ k \in 1 .. Len(calls) /\ k + 1 \in 1 .. n
        BY <3>2, <1>1, <1>2, <1>3, <1>9
      <4>2. calls'[k] = calls[k] /\ valid'.blocks[k + 1] = valid.blocks[k + 1] /\ ~calls[k].ignore
        BY <4>1, <2>1, <1>2, <1>3, <1>9
      <4> QED BY <4>1, <4>2, <1>2, <1>3, <1>9 DEF Writing, StackOK
    <3> QED BY <3>1, <3>2
  <2>12. ASSUME NEW k \in 1 .. n + 1
         PROVE  labelStack'[k].typeStackLength = valid'.blocks[k].height
    <3>1. CASE k = n + 1
      BY <3>1, <2>1, <1>9, <1>2, <1>3
    <3>2. CASE k # n + 1
      <4>1. k \in 1 .. n /\ k \in 1 .. Len(labelStack)
        BY <3>2, <1>1, <1>9, Reached, <1>2, <1>3
      <4> QED BY <4>1, <2>1, <1>2, <1>3, <1>9 DEF Writing, StackOK
    <3> QED BY <3>1, <3>2
  <2>13. StackOK'
    BY <2>1, <2>10, <2>11, <2>12, <1>1, <1>9, <1>2, <1>3 DEF StackOK
  <2> QED BY <2>5, <2>9, <2>13, <1>7 DEF Writing
<1> QED BY <1>8, <1>9

(* the else branch of the innermost block starts as the block did *)
ElseOf(n) ==
    /\ Len(valid'.blocks) = n
    /\ \A k \in 1 .. n - 1 : valid'.blocks[k] = valid.blocks[k]
    /\ valid'.blocks[n] = [valid.blocks[n] EXCEPT !.op = "else", !.dead = FALSE]
    /\ calls' = [calls EXCEPT ![n - 1].op = "else"]

LEMMA ElseKeeps ==
    ASSUME Writing, ValidOK(valid'), Below(valid, valid'),
           NEW n \in Nat, n > 1, n = Open, ElseOf(n),
           UNCHANGED <<function, labelStack, nextLabelIndex, done>>,
           calls[n - 1].ignore => UNCHANGED <<ignore, typeStack>>,
           ~calls[n - 1].ignore => ignore' = FALSE /\ typeStack' = valid'.operands
    PROVE  Writing'
<1>1. /\ Open' = n /\ n = Len(calls) + 1 /\ n - 1 \in 1 .. Len(calls)
      /\ Len(labelStack) \in 1 .. n /\ n - 1 \in Nat /\ calls \in Seq(ActiveCalls)
  BY WritingIs DEF Open, ElseOf
<1>2. /\ Len(valid'.blocks) = n
      /\ \A k \in 1 .. n - 1 : valid'.blocks[k] = valid.blocks[k]
      /\ valid'.blocks[n] = [valid.blocks[n] EXCEPT !.op = "else", !.dead = FALSE]
      /\ valid.blocks[n] \in OpenBlocks
  BY <1>1, WritingIs DEF ElseOf
<1>3. /\ valid'.blocks[n].op = "else" /\ valid'.blocks[n].type = valid.blocks[n].type
      /\ valid'.blocks[n].height = valid.blocks[n].height /\ valid'.blocks[n].dead = FALSE
  BY <1>2 DEF OpenBlocks
<1>4. /\ calls' \in Seq(ActiveCalls) /\ Len(calls') = n - 1
      /\ \A k \in 1 .. n - 2 : calls'[k] = calls[k]
      /\ calls'[n - 1] = [calls[n - 1] EXCEPT !.op = "else"]
  <2>1. calls' = [calls EXCEPT ![n - 1] = [calls[n - 1] EXCEPT !.op = "else"]]
    BY <1>1 DEF ElseOf
  <2>2. calls[n - 1] \in ActiveCalls
    BY <1>1
  <2>3. [calls[n - 1] EXCEPT !.op = "else"] \in ActiveCalls
    BY <2>2 DEF ActiveCalls, Kinds
  <2> QED BY <2>1, <2>3, <1>1
<1>5. /\ calls'[n - 1].op = "else" /\ calls'[n - 1].ignore = calls[n - 1].ignore
      /\ calls'[n - 1].blockType = calls[n - 1].blockType /\ calls'[n - 1].label = calls[n - 1].label
      /\ calls'[n - 1].typeStackLengthBeforeBranches = calls[n - 1].typeStackLengthBeforeBranches
  <2>1. calls[n - 1] \in ActiveCalls
    BY <1>1
  <2> QED BY <2>1, <1>4 DEF ActiveCalls
<1>6. \A k \in 1 .. n - 1 :
        /\ calls'[k].ignore = calls[k].ignore /\ calls'[k].blockType = calls[k].blockType
        /\ calls'[k].label = calls[k].label
        /\ calls'[k].typeStackLengthBeforeBranches = calls[k].typeStackLengthBeforeBranches
  <2> TAKE k \in 1 .. n - 1
  <2>1. CASE k = n - 1
    BY <2>1, <1>5
  <2>2. CASE k # n - 1
    <3>1. k \in 1 .. n - 2
      BY <2>2, <1>1
    <3> QED BY <3>1, <1>4
  <2> QED BY <2>1, <2>2
<1>7. ASSUME NEW k \in 0 .. n - 1 PROVE DeadUpTo(k)' <=> DeadUpTo(k)
  <2>1. \A j \in 1 .. k : valid'.blocks[j].dead = valid.blocks[j].dead
    BY <1>2
  <2> QED BY <2>1, DeadSame
<1>8. DeadUpTo(n)' <=> calls[n - 1].ignore
  <2>1. \A j : j \in 1 .. n <=> j \in 1 .. n - 1 \/ j = n
    OBVIOUS
  <2>2. DeadUpTo(n)' <=> DeadUpTo(n - 1)'
    BY <2>1, <1>3 DEF DeadUpTo
  <2>3. calls[n - 1].ignore <=> DeadUpTo(n - 1)
    BY <1>1 DEF Writing, CallsOK
  <2> QED BY <2>2, <2>3, <1>7, <1>1
<1>9. calls[n - 1].ignore => ignore
  <2>1. calls[n - 1].ignore <=> DeadUpTo(n - 1)
    BY <1>1 DEF Writing, CallsOK
  <2>2. n - 1 \in 1 .. Open
    BY <1>1
  <2> QED BY <2>1, <2>2, DeadGrows
<1>10. calls[n - 1].ignore \in BOOLEAN
  <2>1. calls[n - 1] \in ActiveCalls
    BY <1>1
  <2> QED BY <2>1 DEF ActiveCalls
<1>11. Typed'
  <2>1. typeStack' \in Seq(Types) /\ ignore' \in BOOLEAN
    BY <1>10 DEF Writing, Typed, ValidOK
  <2> QED BY <2>1, <1>1, <1>4 DEF Writing, Typed
<1>12. CallsOK'
  <2>1. ignore' <=> DeadUpTo(n)'
    BY <1>8, <1>9, <1>10
  <2>2. ignore' <=> DeadUpTo(Open)'
    BY <2>1, <1>1 DEF DeadUpTo
  <2>3. ASSUME NEW k \in 1 .. n - 1
        PROVE  /\ calls'[k].op = valid'.blocks[k + 1].op
               /\ calls'[k].blockType = valid'.blocks[k + 1].type
               /\ calls'[k].ignore <=> DeadUpTo(k)'
    <3>1. calls[k].blockType = valid.blocks[k + 1].type /\ (calls[k].ignore <=> DeadUpTo(k))
      BY <1>1 DEF Writing, CallsOK
    <3>2. k \in 0 .. n - 1
      BY <1>1
    <3>3. calls'[k].ignore <=> DeadUpTo(k)'
      BY <3>1, <3>2, <1>6, <1>7
    <3>4. CASE k = n - 1
      <4>1. k + 1 = n
        BY <3>4, <1>1
      <4> QED BY <3>1, <3>3, <3>4, <4>1, <1>3, <1>5
    <3>5. CASE k # n - 1
      <4>1. k \in 1 .. n - 2 /\ k + 1 \in 1 .. n - 1
        BY <3>5, <1>1
      <4>2. calls'[k] = calls[k] /\ valid'.blocks[k + 1] = valid.blocks[k + 1]
        BY <4>1, <1>2, <1>4
      <4> QED BY <4>2, <3>3, <1>1 DEF Writing, CallsOK
    <3> QED BY <3>4, <3>5
  <2>4. valid'.blocks[1].op = "func"
    BY <1>1, <1>2 DEF Writing, CallsOK
  <2> QED BY <2>2, <2>3, <2>4, <1>1, <1>4 DEF CallsOK
<1>13. LabelsOK'
  <2>1. \A k \in 1 .. Len(calls') : calls'[k].ignore <=> Len(labelStack) <= k
    BY <1>1, <1>4, <1>6 DEF Writing, LabelsOK
  <2>2. \A k \in 2 .. Len(labelStack) : labelStack[k].index = calls'[k - 1].label
    <3> TAKE k \in 2 .. Len(labelStack)
    <3>1. k - 1 \in 1 .. n - 1
      BY <1>1
    <3> QED BY <3>1, <1>6 DEF Writing, LabelsOK
  <2> QED BY <2>1, <2>2 DEF Writing, LabelsOK
<1>14. \A k \in 1 .. n : valid'.blocks[k].height = valid.blocks[k].height
  <2> TAKE k \in 1 .. n
  <2>1. CASE k = n
    BY <2>1, <1>3
  <2>2. CASE k # n
    BY <2>2, <1>1, <1>2
  <2> QED BY <2>1, <2>2
<1>15. ASSUME NEW k \in 1 .. n, ~DeadUpTo(k - 1)'
       PROVE  /\ valid'.blocks[k].height <= Len(typeStack')
              /\ \A x \in 1 .. valid'.blocks[k].height : typeStack'[x] = valid'.operands[x]
  <2>1. CASE ~calls[n - 1].ignore
    <3>1. typeStack' = valid'.operands
      BY <2>1
    <3>2. valid'.blocks[k].height <= Len(valid'.operands)
      BY <1>2 DEF ValidOK
    <3> QED BY <3>1, <3>2
  <2>2. CASE calls[n - 1].ignore
    <3>1. ~DeadUpTo(k - 1)
      BY <1>15, <1>1, <1>7
    <3>2. /\ valid.blocks[k].height <= Len(typeStack)
          /\ \A x \in 1 .. valid.blocks[k].height : typeStack[x] = valid.operands[x]
      BY <3>1, <1>1 DEF Writing, StackOK
    <3>3. /\ valid.blocks[k].height \in Nat /\ valid.blocks[k].height <= Top(valid).height
          /\ Top(valid).height \in Nat
      BY <1>1, WritingIs, Heights, TopIs
    <3>4. \A x \in 1 .. valid.blocks[k].height : x \in 1 .. Top(valid).height
      BY <3>3
    <3>5. \A x \in 1 .. valid.blocks[k].height : valid'.operands[x] = valid.operands[x]
      BY <3>4 DEF Below
    <3>6. typeStack' = typeStack
      BY <2>2
    <3> QED BY <3>2, <3>5, <3>6, <1>14
  <2> QED BY <2>1, <2>2
<1>16. StackOK'
  <2>1. ~ignore' => typeStack' = valid'.operands
    BY <1>9
  <2>2. \A k \in 1 .. n - 1 :
          ~calls'[k].ignore => calls'[k].typeStackLengthBeforeBranches = valid'.blocks[k + 1].height
    <3> TAKE k \in 1 .. n - 1
    <3>1. k + 1 \in 1 .. n /\ k \in 1 .. Len(calls)
      BY <1>1
    <3> QED BY <3>1, <1>6, <1>14 DEF Writing, StackOK
  <2>3. \A k \in 1 .. Len(labelStack) : labelStack[k].typeStackLength = valid'.blocks[k].height
    BY <1>1, <1>14 DEF Writing, StackOK
  <2> QED BY <2>1, <2>2, <2>3, <1>1, <1>4, <1>15 DEF StackOK
<1> QED BY <1>11, <1>12, <1>13, <1>16 DEF Writing

(* the innermost of n blocks ends *)
EndOf(n) ==
    /\ Len(valid'.blocks) = n - 1
    /\ \A k \in 1 .. n - 1 : valid'.blocks[k] = valid.blocks[k]
    /\ calls' = Front(calls)

LEMMA EndKeeps ==
    ASSUME Writing, ValidOK(valid'), Below(valid, valid'),
           NEW n \in Nat, n > 1, n = Open, EndOf(n),
           UNCHANGED <<function, nextLabelIndex, done>>,
           calls[n - 1].ignore => UNCHANGED <<ignore, typeStack, labelStack>>,
           ~calls[n - 1].ignore => /\ ignore' = FALSE /\ typeStack' = valid'.operands
                                   /\ labelStack' = Front(labelStack)
    PROVE  Writing'
<1>1. /\ Open' = n - 1 /\ n = Len(calls) + 1 /\ n - 1 \in 1 .. Len(calls)
      /\ Len(labelStack) \in 1 .. n /\ n - 1 \in Nat /\ calls \in Seq(ActiveCalls)
      /\ labelStack \in Seq(Labels)
  BY WritingIs DEF Open, EndOf
<1>2. /\ Len(valid'.blocks) = n - 1
      /\ \A k \in 1 .. n - 1 : valid'.blocks[k] = valid.blocks[k]
  BY DEF EndOf
<1>3. /\ calls' \in Seq(ActiveCalls) /\ Len(calls') = n - 2
      /\ \A k \in 1 .. n - 2 : calls'[k] = calls[k]
  <2>1. calls' = SubSeq(calls, 1, Len(calls) - 1)
    BY DEF EndOf, Front
  <2> QED BY <2>1, <1>1, PrefixIs
<1>4. calls[n - 1].ignore \in BOOLEAN
  <2>1. calls[n - 1] \in ActiveCalls
    BY <1>1
  <2> QED BY <2>1 DEF ActiveCalls
<1>5. ~calls[n - 1].ignore => /\ Len(labelStack) = n /\ labelStack' \in Seq(Labels)
                              /\ Len(labelStack') = n - 1
                              /\ \A k \in 1 .. n - 1 : labelStack'[k] = labelStack[k]
  <2> SUFFICES ASSUME ~calls[n - 1].ignore
               PROVE  /\ Len(labelStack) = n /\ labelStack' \in Seq(Labels)
                      /\ Len(labelStack') = n - 1
                      /\ \A k \in 1 .. n - 1 : labelStack'[k] = labelStack[k]
    OBVIOUS
  <2>1. ~(Len(labelStack) <= n - 1)
    BY <1>1 DEF Writing, LabelsOK
  <2>2. Len(labelStack) = n
    BY <2>1, <1>1
  <2>3. labelStack' = SubSeq(labelStack, 1, n - 1)
    BY <2>2 DEF Front
  <2> QED BY <2>2, <2>3, <1>1, PrefixIs
<1>6. calls[n - 1].ignore => Len(labelStack) <= n - 1
  BY <1>1 DEF Writing, LabelsOK
<1>7. /\ labelStack' \in Seq(Labels) /\ Len(labelStack') \in 1 .. n - 1
      /\ Len(labelStack') <= Len(labelStack)
      /\ \A k \in 1 .. Len(labelStack') : labelStack'[k] = labelStack[k]
  <2>1. CASE calls[n - 1].ignore
    <3>1. labelStack' = labelStack
      BY <2>1
    <3> QED BY <3>1, <2>1, <1>1, <1>6
  <2>2. CASE ~calls[n - 1].ignore
    BY <2>2, <1>1, <1>5
  <2> QED BY <2>1, <2>2
<1>8. ASSUME NEW k \in 0 .. n - 1 PROVE DeadUpTo(k)' <=> DeadUpTo(k)
  <2>1. \A j \in 1 .. k : valid'.blocks[j].dead = valid.blocks[j].dead
    BY <1>2
  <2> QED BY <2>1, DeadSame
<1>9. DeadUpTo(n - 1)' <=> calls[n - 1].ignore
  <2>1. calls[n - 1].ignore <=> DeadUpTo(n - 1)
    BY <1>1 DEF Writing, CallsOK
  <2> QED BY <2>1, <1>8, <1>1
<1>10. calls[n - 1].ignore => ignore
  <2>1. calls[n - 1].ignore <=> DeadUpTo(n - 1)
    BY <1>1 DEF Writing, CallsOK
  <2>2. n - 1 \in 1 .. Open
    BY <1>1
  <2> QED BY <2>1, <2>2, DeadGrows
<1>11. Typed'
  <2>1. typeStack' \in Seq(Types) /\ ignore' \in BOOLEAN
    BY <1>4 DEF Writing, Typed, ValidOK
  <2>2. \A k \in 1 .. Len(labelStack') : labelStack'[k].index < nextLabelIndex
    BY <1>1, <1>7 DEF Writing, Typed
  <2> QED BY <2>1, <2>2, <1>1, <1>3, <1>7 DEF Writing, Typed
<1>12. CallsOK'
  <2>1. ignore' <=> DeadUpTo(n - 1)'
    BY <1>4, <1>9, <1>10
  <2>2. ignore' <=> DeadUpTo(Open)'
    BY <2>1, <1>1 DEF DeadUpTo
  <2>3. ASSUME NEW k \in 1 .. n - 2
        PROVE  /\ calls'[k].op = valid'.blocks[k + 1].op
               /\ calls'[k].blockType = valid'.blocks[k + 1].type
               /\ calls'[k].ignore <=> DeadUpTo(k)'
    <3>1. /\ calls[k].op = valid.blocks[k + 1].op /\ calls[k].blockType = valid.blocks[k + 1].type
          /\ calls[k].ignore <=> DeadUpTo(k)
      BY <1>1 DEF Writing, CallsOK
    <3>2. k \in 0 .. n - 1 /\ k + 1 \in 1 .. n - 1
      BY <1>1
    <3> QED BY <3>1, <3>2, <1>2, <1>3, <1>8
  <2>4. valid'.blocks[1].op = "func"
    BY <1>1, <1>2 DEF Writing, CallsOK
  <2> QED BY <2>2, <2>3, <2>4, <1>1, <1>3 DEF CallsOK
<1>13. LabelsOK'
  <2>1. \A k \in 1 .. n - 2 : calls'[k].ignore <=> Len(labelStack') <= k
    <3> TAKE k \in 1 .. n - 2
    <3>1. calls'[k].ignore <=> Len(labelStack) <= k
      BY <1>1, <1>3 DEF Writing, LabelsOK
    <3>2. CASE calls[n - 1].ignore
      BY <3>1, <3>2
    <3>3. CASE ~calls[n - 1].ignore
      BY <3>1, <3>3, <1>1, <1>5
    <3> QED BY <3>2, <3>3
  <2>2. \A k \in 2 .. Len(labelStack') : labelStack'[k].index = calls'[k - 1].label
    <3> TAKE k \in 2 .. Len(labelStack')
    <3>1. k \in 2 .. Len(labelStack) /\ k \in 1 .. Len(labelStack') /\ k - 1 \in 1 .. n - 2
      BY <1>1, <1>7
    <3>2. labelStack[k].index = calls[k - 1].label
      BY <3>1 DEF Writing, LabelsOK
    <3> QED BY <3>1, <3>2, <1>3, <1>7
  <2>3. \A j, k \in 1 .. Len(labelStack') : j < k => labelStack'[j].index < labelStack'[k].index
    <3>1. \A j, k \in 1 .. Len(labelStack) : j < k => labelStack[j].index < labelStack[k].index
      BY DEF Writing, LabelsOK
    <3>2. \A j \in 1 .. Len(labelStack') : j \in 1 .. Len(labelStack) /\ labelStack'[j] = labelStack[j]
      BY <1>1, <1>7
    <3> QED BY <3>1, <3>2
  <2>4. Len(labelStack') >= 1 /\ labelStack'[1].index = 0
    BY <1>1, <1>7 DEF Writing, LabelsOK
  <2> QED BY <2>1, <2>2, <2>3, <2>4, <1>3 DEF LabelsOK
<1>14. ASSUME NEW k \in 1 .. n - 1, ~DeadUpTo(k - 1)'
       PROVE  /\ valid'.blocks[k].height <= Len(typeStack')
              /\ \A x \in 1 .. valid'.blocks[k].height : typeStack'[x] = valid'.operands[x]
  <2>1. CASE ~calls[n - 1].ignore
    <3>1. typeStack' = valid'.operands
      BY <2>1
    <3>2. valid'.blocks[k].height <= Len(valid'.operands)
      BY <1>2 DEF ValidOK
    <3> QED BY <3>1, <3>2
  <2>2. CASE calls[n - 1].ignore
    <3>1. ~DeadUpTo(k - 1)
      BY <1>14, <1>1, <1>8
    <3>2. /\ valid.blocks[k].height <= Len(typeStack)
          /\ \A x \in 1 .. valid.blocks[k].height : typeStack[x] = valid.operands[x]
      BY <3>1, <1>1 DEF Writing, StackOK
    <3>3. /\ valid.blocks[k].height \in Nat /\ valid.blocks[k].height <= Top(valid).height
          /\ Top(valid).height \in Nat
      BY <1>1, WritingIs, Heights, TopIs
    <3>4. \A x \in 1 .. valid.blocks[k].height : x \in 1 .. Top(valid).height
      BY <3>3
    <3>5. \A x \in 1 .. valid.blocks[k].height : valid'.operands[x] = valid.operands[x]
      BY <3>4 DEF Below
    <3>6. typeStack' = typeStack
      BY <2>2
    <3> QED BY <3>2, <3>5, <3>6, <1>2
  <2> QED BY <2>1, <2>2
<1>15. StackOK'
  <2>1. ~ignore' => typeStack' = valid'.operands
    BY <1>10
  <2>2. \A k \in 1 .. n - 2 :
          ~calls'[k].ignore => calls'[k].typeStackLengthBeforeBranches = valid'.blocks[k + 1].height
    <3> TAKE k \in 1 .. n - 2
    <3>1. k + 1 \in 1 .. n - 1 /\ k \in 1 .. Len(calls)
      BY <1>1
    <3> QED BY <3>1, <1>2, <1>3 DEF Writing, StackOK
  <2>3. \A k \in 1 .. Len(labelStack') : labelStack'[k].typeStackLength = valid'.blocks[k].height
    <3> TAKE k \in 1 .. Len(labelStack')
    <3>1. k \in 1 .. n - 1 /\ k \in 1 .. Len(labelStack)
      BY <1>1, <1>7
    <3> QED BY <3>1, <1>2, <1>7 DEF Writing, StackOK
  <2> QED BY <2>1, <2>2, <2>3, <1>1, <1>3, <1>14 DEF StackOK
<1> QED BY <1>11, <1>12, <1>13, <1>15 DEF Writing

-----------------------------------------------------------------------------
(* The operand stack after an opcode on operands. *)

LEMMA SlotIs ==
    ASSUME Writing, NEW k \in Int
    PROVE  wasmTypeStackGetTopIndex(k) = Len(typeStack) - 1 - k
  BY DEF wasmTypeStackGetTopIndex

LEMMA DroppedIs ==
    ASSUME Writing, NEW count \in Nat, count <= Len(typeStack)
    PROVE  /\ Dropped(count) = SubSeq(typeStack, 1, Len(typeStack) - count)
           /\ Dropped(count) \in Seq(Types) /\ Len(Dropped(count)) = Len(typeStack) - count
<1>1. typeStack \in Seq(Types) /\ Len(typeStack) \in Nat
  BY WritingIs
<1>2. (IF count > Len(typeStack) THEN Len(typeStack) ELSE count) = count
  BY <1>1
<1>3. Dropped(count) = SubSeq(typeStack, 1, Len(typeStack) - count)
  BY <1>2 DEF Dropped
<1>4. Len(typeStack) - count \in Int /\ Len(typeStack) - count <= Len(typeStack) /\ Len(typeStack) - count >= 0
  BY <1>1
<1> QED BY <1>1, <1>3, <1>4, PrefixIs

LEMMA PlainAfter ==
    ASSUME Writing, NEW o, WellFormed(o), o.op \in Plain, Valid(valid, o), valid' = After(valid, o)
    PROVE  /\ ValidOK(valid') /\ Below(valid, valid') /\ valid'.blocks = valid.blocks
           /\ ~ignore => /\ Len(Pops(o)) <= Len(typeStack)
                         /\ valid'.operands = Dropped(Len(Pops(o))) \o Pushes(o)
                         /\ \A k \in 1 .. Len(Pops(o)) :
                               typeStack[Len(typeStack) - Len(Pops(o)) + k] = Pops(o)[k]
<1>1. ValidOK(valid) /\ valid.blocks # <<>>
  BY WritingIs
<1>2. Pops(o) \in Seq(Types) /\ Pushes(o) \in Seq(Types)
  BY PopsTyped
<1>3. HasOnTop(valid, Pops(o))
  BY DEF Valid, Plain
<1>4. valid' = [valid EXCEPT !.operands = Without(valid, Pops(o)) \o Pushes(o)]
  BY DEF After, Plain
<1>5. PICK rest : rest = Without(valid, Pops(o))
  OBVIOUS
<1>6. PICK pops : pops = Pops(o)
  OBVIOUS
<1>7. PICK pushes : pushes = Pushes(o)
  OBVIOUS
<1>8. /\ rest \in Seq(Types) /\ Top(valid).height <= Len(rest)
      /\ \A x \in 1 .. Len(rest) : rest[x] = valid.operands[x]
  BY <1>1, <1>2, <1>5, WithoutIs
<1>9. Top(valid).height \in Nat
  BY <1>1, TopIs
<1>10. /\ rest \o pushes \in Seq(Types) /\ Len(rest \o pushes) = Len(rest) + Len(pushes)
       /\ \A x \in 1 .. Len(rest) : (rest \o pushes)[x] = rest[x]
  BY <1>2, <1>7, <1>8, CatIs
<1>11. Len(rest) \in Nat /\ Len(pushes) \in Nat
  BY <1>2, <1>7, <1>8
<1>12. /\ Top(valid).height <= Len(rest \o pushes)
       /\ \A x \in 1 .. Top(valid).height : (rest \o pushes)[x] = valid.operands[x]
  BY <1>8, <1>9, <1>10, <1>11
<1>13. PICK ops : ops = rest \o pushes
  OBVIOUS
<1>14. /\ ops \in Seq(Types) /\ Top(valid).height <= Len(ops)
       /\ \A x \in 1 .. Top(valid).height : ops[x] = valid.operands[x]
  BY <1>10, <1>12, <1>13
<1>15. valid' = [valid EXCEPT !.operands = ops]
  BY <1>4, <1>5, <1>7, <1>13
<1>16. ValidOK(valid') /\ Below(valid, valid') /\ valid'.operands = ops /\ valid'.blocks = valid.blocks
  BY <1>1, <1>14, <1>15, SameBlocksOK
<1>17. ASSUME ~ignore
       PROVE  /\ Len(Pops(o)) <= Len(typeStack)
              /\ valid'.operands = Dropped(Len(Pops(o))) \o Pushes(o)
              /\ \A k \in 1 .. Len(Pops(o)) : typeStack[Len(typeStack) - Len(Pops(o)) + k] = Pops(o)[k]
  <2>1. ~Dead(valid) /\ typeStack = valid.operands
    BY <1>17, Reached
  <2>2. /\ Len(pops) <= Own(valid)
        /\ rest = SubSeq(valid.operands, 1, Len(valid.operands) - Len(pops))
        /\ \A k \in 1 .. Len(pops) : valid.operands[Len(valid.operands) - Len(pops) + k] = pops[k]
    BY <2>1, <1>1, <1>2, <1>3, <1>5, <1>6, OnTop
  <2>3. Own(valid) = Len(valid.operands) - Top(valid).height /\ Len(valid.operands) \in Nat
    BY <1>1, TopIs
  <2>4. Len(pops) \in Nat /\ Len(pops) <= Len(typeStack)
    BY <2>1, <2>2, <2>3, <1>2, <1>6, <1>9
  <2>5. Dropped(Len(pops)) = rest
    BY <2>1, <2>2, <2>4, DroppedIs
  <2> QED BY <2>1, <2>2, <2>4, <2>5, <1>6, <1>7, <1>13, <1>16
<1> QED BY <1>16, <1>17

LEMMA PlainKeeps ==
    ASSUME Writing, NEW o, WellFormed(o), o.op \in Plain, Valid(valid, o), valid' = After(valid, o),
           Straight, ignore => typeStack' = typeStack,
           ~ignore => typeStack' = Dropped(Len(Pops(o))) \o Pushes(o)
    PROVE  Writing'
<1>1. /\ ValidOK(valid') /\ Below(valid, valid') /\ valid'.blocks = valid.blocks
      /\ ~ignore => valid'.operands = Dropped(Len(Pops(o))) \o Pushes(o)
  BY PlainAfter
<1>2. ~ignore => typeStack' = valid'.operands
  BY <1>1
<1>3. typeStack \in Seq(Types) /\ ignore \in BOOLEAN
  BY WritingIs
<1>4. valid'.operands \in Seq(Types)
  BY <1>1 DEF ValidOK
<1>5. typeStack' \in Seq(Types)
  BY <1>2, <1>3, <1>4
<1>6. UNCHANGED <<function, labelStack, nextLabelIndex, ignore, calls, done>>
  BY DEF Straight
<1> QED BY <1>1, <1>2, <1>5, <1>6, Straightforward

LEMMA PushedIs ==
    ASSUME NEW S, NEW s \in Seq(S), NEW e \in S
    PROVE  Append(s, e) = s \o <<e>>
  OBVIOUS

(* an operand that is replaced by one of the same type *)
LEMMA ReplacedIs ==
    ASSUME Writing, Len(typeStack) >= 1
    PROVE  typeStack = Dropped(1) \o <<typeStack[Len(typeStack)]>>
<1>1. typeStack \in Seq(Types) /\ Len(typeStack) \in Nat
  BY WritingIs
<1>2. /\ Dropped(1) = SubSeq(typeStack, 1, Len(typeStack) - 1)
      /\ Dropped(1) \in Seq(Types) /\ Len(Dropped(1)) = Len(typeStack) - 1
  BY <1>1, DroppedIs
<1>3. PICK e \in Types : e = typeStack[Len(typeStack)]
  BY <1>1
<1>4. PICK rest \in Seq(Types) : rest = Dropped(1)
  BY <1>2
<1>5. \A x \in 1 .. Len(typeStack) - 1 : rest[x] = typeStack[x]
  BY <1>1, <1>2, <1>4
<1>6. /\ rest \o <<e>> \in Seq(Types) /\ Len(rest \o <<e>>) = Len(typeStack)
      /\ \A x \in 1 .. Len(typeStack) - 1 : (rest \o <<e>>)[x] = rest[x]
      /\ (rest \o <<e>>)[Len(typeStack)] = e
  BY <1>1, <1>2, <1>4
<1>7. \A x \in 1 .. Len(typeStack) : typeStack[x] = (rest \o <<e>>)[x]
  BY <1>1, <1>3, <1>5, <1>6
<1>8. typeStack = rest \o <<e>>
  BY <1>1, <1>6, <1>7, EqualSequences
<1> QED BY <1>3, <1>4, <1>8

-----------------------------------------------------------------------------
(* The C text, one kind of step after the other. *)

LabelsIn(c, i) == {k \in DOMAIN c : c[k] = Placed(i)}
NoLabel(s) == s.s # "label"

LEMMA BelowOrNew ==
    ASSUME NEW m \in Nat, NEW n \in Nat, m <= n, NEW i \in 0 .. n - 1
    PROVE  i \in Nat /\ (i < m \/ i \in m .. n - 1)
  OBVIOUS

LEMMA StatementsStayOK ==
    ASSUME NEW s, NEW d, NEW e, d \subseteq e, NEW m \in Nat, NEW n \in Nat, m <= n,
           StatementOK(s, d, m)
    PROVE  StatementOK(s, e, n)
<1>1. s.s = "assign" => (s.to[1] = "s" => <<s.to[2], s.to[3]>> \in e)
  BY DEF StatementOK
<1>2. ASSUME NEW j \in Jumps(s)
      PROVE  /\ j.copy # <<>> => (j.copy[1].to[1] = "s" => <<j.copy[1].to[2], j.copy[1].to[3]>> \in e)
             /\ j.index \in 0 .. n - 1
  BY <1>2 DEF StatementOK
<1> QED BY <1>1, <1>2 DEF StatementOK

LEMMA CatElements ==
    ASSUME NEW c, c \in Seq(ToSet(c)), NEW st, st \in Seq(ToSet(st))
    PROVE  /\ c \o st \in Seq(ToSet(c \o st))
           /\ DOMAIN (c \o st) = 1 .. Len(c) + Len(st) /\ DOMAIN c = 1 .. Len(c) /\ DOMAIN st = 1 .. Len(st)
           /\ Len(c) \in Nat /\ Len(st) \in Nat
           /\ \A x \in 1 .. Len(c) : (c \o st)[x] = c[x]
           /\ \A x \in Len(c) + 1 .. Len(c) + Len(st) : (c \o st)[x] = st[x - Len(c)]
<1>1. PICK S : S = ToSet(c) \cup ToSet(st)
  OBVIOUS
<1>2. c \in Seq(S) /\ st \in Seq(S)
  BY <1>1
<1>3. /\ c \o st \in Seq(S) /\ Len(c \o st) = Len(c) + Len(st)
      /\ \A x \in 1 .. Len(c) : (c \o st)[x] = c[x]
      /\ \A x \in Len(c) + 1 .. Len(c) + Len(st) : (c \o st)[x] = st[x - Len(c)]
  BY <1>2, CatIs
<1>4. c \o st \in Seq(ToSet(c \o st))
  BY <1>3, OfElements
<1> QED BY <1>2, <1>3, <1>4

LEMMA NoLabelsAdded ==
    ASSUME NEW c, c \in Seq(ToSet(c)), NEW st, st \in Seq(ToSet(st)),
           \A k \in DOMAIN st : NoLabel(st[k]), NEW i
    PROVE  LabelsIn(c \o st, i) = LabelsIn(c, i)
<1>1. PICK both : both = c \o st
  OBVIOUS
<1>2. /\ DOMAIN both = 1 .. Len(c) + Len(st) /\ DOMAIN c = 1 .. Len(c) /\ DOMAIN st = 1 .. Len(st)
      /\ Len(c) \in Nat /\ Len(st) \in Nat
      /\ \A x \in 1 .. Len(c) : both[x] = c[x]
      /\ \A x \in Len(c) + 1 .. Len(c) + Len(st) : both[x] = st[x - Len(c)]
  BY <1>1, CatElements
<1>3. \A k \in DOMAIN st : st[k] # Placed(i)
  BY DEF NoLabel, Placed
<1>4. \A k \in Len(c) + 1 .. Len(c) + Len(st) : both[k] # Placed(i)
  <2> TAKE k \in Len(c) + 1 .. Len(c) + Len(st)
  <2>1. k - Len(c) \in DOMAIN st
    BY <1>2
  <2> QED BY <2>1, <1>2, <1>3
<1>5. \A k : k \in 1 .. Len(c) + Len(st) <=> k \in 1 .. Len(c) \/ k \in Len(c) + 1 .. Len(c) + Len(st)
  BY <1>2
<1>6. LabelsIn(both, i) = LabelsIn(c, i)
  BY <1>2, <1>4, <1>5 DEF LabelsIn
<1> QED BY <1>1, <1>6

LEMMA LabelAdded ==
    ASSUME NEW c, c \in Seq(ToSet(c)), NEW st, st \in Seq(ToSet(st)),
           NEW p \in DOMAIN st, NEW l, st[p] = Placed(l),
           \A k \in DOMAIN st : k # p => NoLabel(st[k])
    PROVE  /\ \A i : i # l => LabelsIn(c \o st, i) = LabelsIn(c, i)
           /\ LabelsIn(c, l) = {} => LabelsIn(c \o st, l) = {Len(c) + p}
           /\ Len(c) + p \in DOMAIN (c \o st)
<1>1. PICK both : both = c \o st
  OBVIOUS
<1>2. /\ DOMAIN both = 1 .. Len(c) + Len(st) /\ DOMAIN c = 1 .. Len(c) /\ DOMAIN st = 1 .. Len(st)
      /\ Len(c) \in Nat /\ Len(st) \in Nat /\ p \in 1 .. Len(st)
      /\ \A x \in 1 .. Len(c) : both[x] = c[x]
      /\ \A x \in Len(c) + 1 .. Len(c) + Len(st) : both[x] = st[x - Len(c)]
  BY <1>1, CatElements
<1>3. \A k \in DOMAIN st : \A i : k # p => st[k] # Placed(i)
  BY DEF NoLabel, Placed
<1>4. \A i : i # l => Placed(i) # Placed(l)
  BY DEF Placed
<1>5. \A k \in Len(c) + 1 .. Len(c) + Len(st) : \A i : both[k] = Placed(i) <=> k = Len(c) + p /\ i = l
  <2> TAKE k \in Len(c) + 1 .. Len(c) + Len(st)
  <2>1. k - Len(c) \in DOMAIN st /\ both[k] = st[k - Len(c)]
    BY <1>2
  <2>2. k - Len(c) = p <=> k = Len(c) + p
    BY <1>2
  <2> QED BY <2>1, <2>2, <1>3, <1>4
<1>6. \A k : k \in 1 .. Len(c) + Len(st) <=> k \in 1 .. Len(c) \/ k \in Len(c) + 1 .. Len(c) + Len(st)
  BY <1>2
<1>7. \A i : i # l => LabelsIn(both, i) = LabelsIn(c, i)
  BY <1>2, <1>5, <1>6 DEF LabelsIn
<1>8. Len(c) + p \in Len(c) + 1 .. Len(c) + Len(st)
  BY <1>2
<1>9. LabelsIn(c, l) = {} => LabelsIn(both, l) = {Len(c) + p}
  <2> SUFFICES ASSUME LabelsIn(c, l) = {} PROVE LabelsIn(both, l) = {Len(c) + p}
    OBVIOUS
  <2>1. \A k \in 1 .. Len(c) : both[k] # Placed(l)
    BY <1>2 DEF LabelsIn
  <2>2. \A k \in 1 .. Len(c) + Len(st) : both[k] = Placed(l) <=> k = Len(c) + p
    <3> TAKE k \in 1 .. Len(c) + Len(st)
    <3>1. CASE k \in 1 .. Len(c)
      BY <3>1, <2>1, <1>8
    <3>2. CASE k \in Len(c) + 1 .. Len(c) + Len(st)
      BY <3>2, <1>5
    <3> QED BY <3>1, <3>2, <1>6
  <2> QED BY <2>2, <1>2, <1>6, <1>8 DEF LabelsIn
<1> QED BY <1>1, <1>2, <1>6, <1>7, <1>8, <1>9

LEMMA CodeSame ==
    ASSUME CodeOK, UNCHANGED <<code, stackDeclarations, nextLabelIndex>>,
           \A i \in Nat : Unplaced(i)' <=> Unplaced(i), nextLabelIndex \in Nat
    PROVE  CodeOK'
<1>1. \A i : Places(i)' = Places(i)
  BY DEF Places
<1>2. /\ code' \in Seq(ToSet(code'))
      /\ \A k \in DOMAIN code' : StatementOK(code'[k], stackDeclarations', nextLabelIndex')
  BY DEF CodeOK
<1>3. \A i \in Nat : Unplaced(i)' \/ i >= nextLabelIndex' => Places(i)' = {}
  BY <1>1 DEF CodeOK
<1>4. \A i \in 0 .. nextLabelIndex' - 1 : ~Unplaced(i)' => \E p \in DOMAIN code' : Places(i)' = {p}
  BY <1>1 DEF CodeOK
<1> QED BY <1>2, <1>3, <1>4 DEF CodeOK

(* statements are written that place no label *)
LEMMA CodeWritten ==
    ASSUME CodeOK, NEW st, st \in Seq(ToSet(st)), code' = code \o st,
           \A k \in DOMAIN st : NoLabel(st[k]) /\ StatementOK(st[k], stackDeclarations', nextLabelIndex'),
           stackDeclarations \subseteq stackDeclarations',
           nextLabelIndex \in Nat, nextLabelIndex' \in Nat, nextLabelIndex <= nextLabelIndex',
           \A i \in Nat : i < nextLabelIndex => (Unplaced(i)' <=> Unplaced(i)),
           \A i \in nextLabelIndex .. nextLabelIndex' - 1 : Unplaced(i)'
    PROVE  CodeOK'
<1>1. code \in Seq(ToSet(code))
  BY DEF CodeOK
<1>2. /\ code' \in Seq(ToSet(code')) /\ DOMAIN code \subseteq DOMAIN code'
      /\ \A k \in DOMAIN code' : (k \in DOMAIN code /\ code'[k] = code[k])
                                 \/ \E x \in DOMAIN st : code'[k] = st[x]
  <2>1. /\ code' \in Seq(ToSet(code'))
        /\ DOMAIN code' = 1 .. Len(code) + Len(st) /\ DOMAIN code = 1 .. Len(code) /\ DOMAIN st = 1 .. Len(st)
        /\ Len(code) \in Nat /\ Len(st) \in Nat
        /\ \A x \in 1 .. Len(code) : code'[x] = code[x]
        /\ \A x \in Len(code) + 1 .. Len(code) + Len(st) : code'[x] = st[x - Len(code)]
    BY <1>1, CatElements
  <2>2. DOMAIN code \subseteq DOMAIN code'
    BY <2>1
  <2>3. ASSUME NEW k \in DOMAIN code', k \notin DOMAIN code PROVE \E x \in DOMAIN st : code'[k] = st[x]
    <3>1. k \in Len(code) + 1 .. Len(code) + Len(st) /\ k - Len(code) \in DOMAIN st
      BY <2>1, <2>3
    <3> QED BY <3>1, <2>1
  <2>4. \A k \in DOMAIN code : code'[k] = code[k]
    BY <2>1
  <2> QED BY <2>1, <2>2, <2>3, <2>4
<1>3. ASSUME NEW k \in DOMAIN code' PROVE StatementOK(code'[k], stackDeclarations', nextLabelIndex')
  <2>1. CASE (k \in DOMAIN code /\ code'[k] = code[k])
    <3>1. StatementOK(code[k], stackDeclarations, nextLabelIndex)
      BY <2>1 DEF CodeOK
    <3>2. StatementOK(code[k], stackDeclarations', nextLabelIndex')
      BY <3>1, StatementsStayOK
    <3> QED BY <2>1, <3>2
  <2>2. CASE \E x \in DOMAIN st : code'[k] = st[x]
    BY <2>2
  <2> QED BY <1>2, <2>1, <2>2
<1>4. \A i : Places(i)' = Places(i)
  <2> TAKE i
  <2>1. LabelsIn(code \o st, i) = LabelsIn(code, i)
    BY <1>1, NoLabelsAdded
  <2> QED BY <2>1 DEF Places, LabelsIn
<1>5. ASSUME NEW i \in Nat, Unplaced(i)' \/ i >= nextLabelIndex' PROVE Places(i)' = {}
  <2>1. Unplaced(i) \/ i >= nextLabelIndex
    BY <1>5
  <2> QED BY <2>1, <1>4 DEF CodeOK
<1>6. ASSUME NEW i \in 0 .. nextLabelIndex' - 1, ~Unplaced(i)' PROVE \E p \in DOMAIN code' : Places(i)' = {p}
  <2>1. i \in Nat /\ (i < nextLabelIndex \/ i \in nextLabelIndex .. nextLabelIndex' - 1)
    BY BelowOrNew
  <2>2. i < nextLabelIndex
    BY <2>1, <1>6
  <2>3. i \in 0 .. nextLabelIndex - 1 /\ ~Unplaced(i)
    BY <2>1, <2>2, <1>6
  <2>4. \E p \in DOMAIN code : Places(i) = {p}
    BY <2>3 DEF CodeOK
  <2> QED BY <2>4, <1>2, <1>4
<1> QED BY <1>2, <1>3, <1>5, <1>6 DEF CodeOK

(* statements are written that place the label l *)
LEMMA CodeLabelled ==
    ASSUME CodeOK, NEW st, st \in Seq(ToSet(st)), code' = code \o st,
           NEW p \in DOMAIN st, NEW l \in Nat, st[p] = Placed(l),
           \A k \in DOMAIN st : k # p => NoLabel(st[k]),
           \A k \in DOMAIN st : StatementOK(st[k], stackDeclarations', nextLabelIndex'),
           stackDeclarations \subseteq stackDeclarations',
           nextLabelIndex \in Nat, nextLabelIndex' \in Nat, nextLabelIndex <= nextLabelIndex',
           Unplaced(l) \/ l >= nextLabelIndex, ~Unplaced(l)', l < nextLabelIndex',
           \A i \in Nat : i < nextLabelIndex /\ i # l => (Unplaced(i)' <=> Unplaced(i)),
           \A i \in nextLabelIndex .. nextLabelIndex' - 1 : i = l
    PROVE  CodeOK'
<1>1. code \in Seq(ToSet(code))
  BY DEF CodeOK
<1>2. /\ code' \in Seq(ToSet(code')) /\ DOMAIN code \subseteq DOMAIN code'
      /\ \A k \in DOMAIN code' : (k \in DOMAIN code /\ code'[k] = code[k])
                                 \/ \E x \in DOMAIN st : code'[k] = st[x]
  <2>1. /\ code' \in Seq(ToSet(code'))
        /\ DOMAIN code' = 1 .. Len(code) + Len(st) /\ DOMAIN code = 1 .. Len(code) /\ DOMAIN st = 1 .. Len(st)
        /\ Len(code) \in Nat /\ Len(st) \in Nat
        /\ \A x \in 1 .. Len(code) : code'[x] = code[x]
        /\ \A x \in Len(code) + 1 .. Len(code) + Len(st) : code'[x] = st[x - Len(code)]
    BY <1>1, CatElements
  <2>2. DOMAIN code \subseteq DOMAIN code'
    BY <2>1
  <2>3. ASSUME NEW k \in DOMAIN code', k \notin DOMAIN code PROVE \E x \in DOMAIN st : code'[k] = st[x]
    <3>1. k \in Len(code) + 1 .. Len(code) + Len(st) /\ k - Len(code) \in DOMAIN st
      BY <2>1, <2>3
    <3> QED BY <3>1, <2>1
  <2>4. \A k \in DOMAIN code : code'[k] = code[k]
    BY <2>1
  <2> QED BY <2>1, <2>2, <2>3, <2>4
<1>3. ASSUME NEW k \in DOMAIN code' PROVE StatementOK(code'[k], stackDeclarations', nextLabelIndex')
  <2>1. CASE (k \in DOMAIN code /\ code'[k] = code[k])
    <3>1. StatementOK(code[k], stackDeclarations, nextLabelIndex)
      BY <2>1 DEF CodeOK
    <3>2. StatementOK(code[k], stackDeclarations', nextLabelIndex')
      BY <3>1, StatementsStayOK
    <3> QED BY <2>1, <3>2
  <2>2. CASE \E x \in DOMAIN st : code'[k] = st[x]
    BY <2>2
  <2> QED BY <1>2, <2>1, <2>2
<1>4. Places(l) = {}
  BY DEF CodeOK
<1>5. \A i : i # l => Places(i)' = Places(i)
  <2> SUFFICES ASSUME NEW i, i # l PROVE Places(i)' = Places(i)
    OBVIOUS
  <2>1. LabelsIn(code \o st, i) = LabelsIn(code, i)
    BY <1>1, LabelAdded
  <2> QED BY <2>1 DEF Places, LabelsIn
<1>6. \E q \in DOMAIN code' : Places(l)' = {q}
  <2>1. LabelsIn(code, l) = {}
    BY <1>4 DEF Places, LabelsIn
  <2>2. PICK c : c = code
    OBVIOUS
  <2>3. LabelsIn(c \o st, l) = {Len(c) + p} /\ Len(c) + p \in DOMAIN (c \o st)
    <3>1. /\ c \in Seq(ToSet(c)) /\ LabelsIn(c, l) = {}
          /\ st \in Seq(ToSet(st)) /\ p \in DOMAIN st /\ st[p] = Placed(l)
          /\ \A k \in DOMAIN st : k # p => NoLabel(st[k])
      BY <2>1, <2>2, <1>1
    <3>2. /\ \A i : i # l => LabelsIn(c \o st, i) = LabelsIn(c, i)
          /\ LabelsIn(c, l) = {} => LabelsIn(c \o st, l) = {Len(c) + p}
          /\ Len(c) + p \in DOMAIN (c \o st)
      BY <3>1, LabelAdded
    <3> QED BY <3>1, <3>2
  <2> QED BY <2>2, <2>3 DEF Places, LabelsIn
<1>7. ASSUME NEW i \in Nat, Unplaced(i)' \/ i >= nextLabelIndex' PROVE Places(i)' = {}
  <2>1. i # l
    BY <1>7
  <2>2. Unplaced(i) \/ i >= nextLabelIndex
    BY <1>7, <2>1
  <2> QED BY <2>1, <2>2, <1>5 DEF CodeOK
<1>8. ASSUME NEW i \in 0 .. nextLabelIndex' - 1, ~Unplaced(i)' PROVE \E q \in DOMAIN code' : Places(i)' = {q}
  <2>1. CASE i = l
    BY <2>1, <1>6
  <2>2. CASE i # l
    <3>1. i \in Nat /\ (i < nextLabelIndex \/ i \in nextLabelIndex .. nextLabelIndex' - 1)
      BY BelowOrNew
    <3>2. i < nextLabelIndex
      BY <3>1, <2>2
    <3>3. i \in 0 .. nextLabelIndex - 1 /\ ~Unplaced(i)
      BY <3>1, <3>2, <1>8, <2>2
    <3>4. \E q \in DOMAIN code : Places(i) = {q}
      BY <3>3 DEF CodeOK
    <3> QED BY <3>4, <2>2, <1>2, <1>5
  <2> QED BY <2>1, <2>2
<1> QED BY <1>2, <1>3, <1>7, <1>8 DEF CodeOK

-----------------------------------------------------------------------------
(* Opcodes on operands. *)

LEMMA WriteIs ==
    ASSUME NEW declared, NEW types, NEW st, Write(declared, types, st), ignore \in BOOLEAN
    PROVE  /\ ignore => UNCHANGED <<typeStack, stackDeclarations, code>>
           /\ ~ignore => /\ stackDeclarations' = stackDeclarations \cup declared
                         /\ typeStack' = types /\ code' = code \o st
  BY DEF Write

LEMMA UnplacedSame ==
    ASSUME UNCHANGED <<calls, done>>
    PROVE  \A i \in Nat : Unplaced(i)' <=> Unplaced(i)
  BY DEF Unplaced

(* statements without labels, while the labels stay what they are *)
LEMMA WrittenKeeps ==
    ASSUME Writing, CodeOK, NEW declared, NEW types, NEW st, Write(declared, types, st),
           UNCHANGED <<calls, done, nextLabelIndex>>,
           ~ignore => /\ st \in Seq(ToSet(st))
                      /\ \A k \in DOMAIN st : NoLabel(st[k]) /\ StatementOK(st[k], declared, nextLabelIndex)
    PROVE  CodeOK'
<1>1. nextLabelIndex \in Nat /\ ignore \in BOOLEAN /\ nextLabelIndex' = nextLabelIndex
  BY WritingIs
<1>2. \A i \in Nat : Unplaced(i)' <=> Unplaced(i)
  BY UnplacedSame
<1>3. CASE ignore
  <2>1. UNCHANGED <<code, stackDeclarations, nextLabelIndex>>
    BY <1>1, <1>3, WriteIs
  <2> QED BY <2>1, <1>1, <1>2, CodeSame
<1>4. CASE ~ignore
  <2>1. code' = code \o st /\ stackDeclarations' = stackDeclarations \cup declared
    BY <1>1, <1>4, WriteIs
  <2>2. st \in Seq(ToSet(st)) /\ stackDeclarations \subseteq stackDeclarations'
    BY <2>1, <1>4
  <2>3. ASSUME NEW k \in DOMAIN st
        PROVE  NoLabel(st[k]) /\ StatementOK(st[k], stackDeclarations', nextLabelIndex')
    <3>1. NoLabel(st[k]) /\ StatementOK(st[k], declared, nextLabelIndex)
      BY <1>4
    <3>2. declared \subseteq stackDeclarations'
      BY <2>1
    <3>3. StatementOK(st[k], stackDeclarations', nextLabelIndex)
      BY <3>1, <3>2, <1>1, StatementsStayOK
    <3> QED BY <3>1, <3>3, <1>1
  <2>4. /\ nextLabelIndex' \in Nat /\ nextLabelIndex <= nextLabelIndex'
        /\ \A i \in Nat : i < nextLabelIndex => (Unplaced(i)' <=> Unplaced(i))
        /\ \A i \in nextLabelIndex .. nextLabelIndex' - 1 : Unplaced(i)'
    BY <1>1, <1>2
  <2> QED BY <2>1, <2>2, <2>3, <2>4, <1>1, CodeWritten
<1> QED BY <1>1, <1>3, <1>4

(* Read without the bound on the length of a body *)
Step(o) == WellFormed(o) /\ Valid(valid, o) /\ valid' = After(valid, o)

LEMMA PlainWritten ==
    ASSUME Writing, CodeOK, NEW o, o.op \in Plain, Step(o), Straight,
           NEW declared, NEW types, NEW st, Write(declared, types, st),
           ~ignore => /\ types = Dropped(Len(Pops(o))) \o Pushes(o)
                      /\ st \in Seq(ToSet(st))
                      /\ \A k \in DOMAIN st : NoLabel(st[k]) /\ StatementOK(st[k], declared, nextLabelIndex)
    PROVE  Writing' /\ CodeOK'
<1>1. ignore \in BOOLEAN
  BY WritingIs
<1>2. ignore => typeStack' = typeStack
  BY <1>1, WriteIs
<1>3. ~ignore => typeStack' = Dropped(Len(Pops(o))) \o Pushes(o)
  BY <1>1, WriteIs
<1>4. Writing'
  BY <1>2, <1>3, PlainKeeps DEF Step
<1>5. UNCHANGED <<calls, done, nextLabelIndex>>
  BY DEF Straight
<1>6. CodeOK'
  BY <1>5, WrittenKeeps
<1> QED BY <1>4, <1>6

LEMMA AssignIs ==
    ASSUME NEW slot, NEW type, NEW f, NEW args, NEW declared, <<slot, type>> \in declared, NEW m
    PROVE  /\ NoLabel(Assign(StackName(slot, type), f, args))
           /\ StatementOK(Assign(StackName(slot, type), f, args), declared, m)
<1>1. PICK s : s = Assign(StackName(slot, type), f, args)
  OBVIOUS
<1>2. s.s = "assign" /\ s.to = <<"s", slot, type>>
  BY <1>1 DEF Assign, StackName
<1>3. NoLabel(s) /\ Jumps(s) = {}
  BY <1>2 DEF NoLabel, Jumps
<1>4. StatementOK(s, declared, m)
  BY <1>2, <1>3 DEF StatementOK
<1> QED BY <1>1, <1>3, <1>4

(* statements that assign no stack variable, place no label and do not jump *)
LEMMA QuietIs ==
    ASSUME NEW s, s.s \in {"assign", "effect", "if", "else", "endif", "return"},
           s.s = "assign" => s.to[1] # "s", NEW declared, NEW m
    PROVE  NoLabel(s) /\ StatementOK(s, declared, m)
<1>1. NoLabel(s) /\ Jumps(s) = {}
  BY DEF NoLabel, Jumps
<1> QED BY <1>1 DEF StatementOK

LEMMA OneStatement ==
    ASSUME NEW s
    PROVE  <<s>> \in Seq(ToSet(<<s>>)) /\ DOMAIN <<s>> = {1} /\ <<s>>[1] = s
<1>1. <<s>> \in Seq({s}) /\ DOMAIN <<s>> = {1} /\ <<s>>[1] = s
  OBVIOUS
<1> QED BY <1>1, OfElements

LEMMA ResultKeeps ==
    ASSUME Writing, CodeOK, NEW o, o.op \in Plain, Step(o), Straight,
           NEW count \in Nat, NEW type, NEW f, NEW args, WriteResult(count, type, f, args),
           ~ignore => count = Len(Pops(o)) /\ Pushes(o) = <<type>> /\ type \in Types
    PROVE  Writing' /\ CodeOK'
<1>1. PICK slot : slot = Len(typeStack) - count
  OBVIOUS
<1>2. PICK declared : declared = {<<slot, type>>}
  OBVIOUS
<1>3. PICK types : types = Append(Dropped(count), type)
  OBVIOUS
<1>4. PICK s : s = Assign(StackName(slot, type), f, args)
  OBVIOUS
<1>5. Write(declared, types, <<s>>)
  BY <1>1, <1>2, <1>3, <1>4 DEF WriteResult
<1>6. NoLabel(s) /\ StatementOK(s, declared, nextLabelIndex)
  BY <1>2, <1>4, AssignIs
<1>7. <<s>> \in Seq(ToSet(<<s>>)) /\ DOMAIN <<s>> = {1} /\ <<s>>[1] = s
  BY OneStatement
<1>8. \A k \in DOMAIN <<s>> : NoLabel(<<s>>[k]) /\ StatementOK(<<s>>[k], declared, nextLabelIndex)
  BY <1>6, <1>7
<1>9. ~ignore => types = Dropped(Len(Pops(o))) \o Pushes(o)
  <2> SUFFICES ASSUME ~ignore PROVE types = Dropped(Len(Pops(o))) \o Pushes(o)
    OBVIOUS
  <2>1. count <= Len(typeStack)
    BY PlainAfter DEF Step
  <2>2. Dropped(count) \in Seq(Types)
    BY <2>1, DroppedIs
  <2>3. Append(Dropped(count), type) = Dropped(count) \o <<type>>
    BY <2>2, PushedIs
  <2> QED BY <2>3, <1>3
<1> QED BY <1>5, <1>7, <1>8, <1>9, PlainWritten

LEMMA NothingDropped ==
    ASSUME Writing
    PROVE  Dropped(0) = typeStack /\ Dropped(0) \o << >> = typeStack
<1>1. typeStack \in Seq(Types) /\ Len(typeStack) \in Nat
  BY WritingIs
<1>2. /\ Dropped(0) = SubSeq(typeStack, 1, Len(typeStack))
      /\ Dropped(0) \in Seq(Types) /\ Len(Dropped(0)) = Len(typeStack)
  BY <1>1, DroppedIs
<1>3. PICK rest \in Seq(Types) : rest = Dropped(0)
  BY <1>2
<1>4. \A x \in 1 .. Len(typeStack) : rest[x] = typeStack[x]
  BY <1>1, <1>2, <1>3
<1>5. rest = typeStack
  BY <1>1, <1>2, <1>3, <1>4, EqualSequences
<1>6. rest \o << >> = rest
  OBVIOUS
<1> QED BY <1>3, <1>5, <1>6

LEMMA ReadIs ==
    ASSUME NEW o, WellFormed(o), Read(o)
    PROVE  Step(o) /\ ~done
  BY DEF Read, Step

LEMMA NothingWrittenKeeps ==
    ASSUME Writing, CodeOK, NEW o, o.op \in {"nop", "elem.drop"}, Step(o), UNCHANGED <<function, writer, done>>
    PROVE  Writing' /\ CodeOK'
<1>1. Pops(o) = << >> /\ Pushes(o) = << >> /\ o.op \in Plain
  BY DEF Pops, Pushes, Plain
<1>2. Straight /\ UNCHANGED <<typeStack, stackDeclarations, code, nextLabelIndex, calls, done>>
  BY DEF Straight, writer
<1>3. typeStack' = Dropped(Len(Pops(o))) \o Pushes(o)
  BY <1>1, <1>2, NothingDropped
<1>4. Writing'
  BY <1>1, <1>2, <1>3, PlainKeeps DEF Step
<1>5. \A i \in Nat : Unplaced(i)' <=> Unplaced(i)
  BY <1>2, UnplacedSame
<1>6. nextLabelIndex \in Nat
  BY WritingIs
<1>7. CodeOK'
  BY <1>2, <1>5, <1>6, CodeSame
<1> QED BY <1>4, <1>7

(* an opcode without a result *)
LEMMA EffectKeeps ==
    ASSUME Writing, CodeOK, NEW o, o.op \in Plain, Step(o), Straight,
           NEW count \in Nat, count = Len(Pops(o)), Pushes(o) = << >>,
           NEW declared, NEW s, Write(declared, Dropped(count), <<s>>),
           ~ignore => NoLabel(s) /\ StatementOK(s, declared, nextLabelIndex)
    PROVE  Writing' /\ CodeOK'
<1>1. PICK types : types = Dropped(count)
  OBVIOUS
<1>2. Write(declared, types, <<s>>)
  BY <1>1
<1>3. <<s>> \in Seq(ToSet(<<s>>)) /\ DOMAIN <<s>> = {1} /\ <<s>>[1] = s
  BY OneStatement
<1>4. ~ignore => types = Dropped(Len(Pops(o))) \o Pushes(o)
  <2> SUFFICES ASSUME ~ignore PROVE types = Dropped(Len(Pops(o))) \o Pushes(o)
    OBVIOUS
  <2>1. count <= Len(typeStack)
    BY PlainAfter DEF Step
  <2>2. Dropped(count) \in Seq(Types)
    BY <2>1, DroppedIs
  <2>3. types \o << >> = types
    BY <2>2, <1>1
  <2> QED BY <2>3, <1>1
<1>5. ~ignore => \A k \in DOMAIN <<s>> : NoLabel(<<s>>[k]) /\ StatementOK(<<s>>[k], declared, nextLabelIndex)
  BY <1>3
<1> QED BY <1>2, <1>3, <1>4, <1>5, PlainWritten

LEMMA OperandTypes ==
    I32 \in Types /\ LocalTypes \in Seq(Types) /\ GlobalTypes \in Seq(Types)
  BY WasmCodeAssumption

(* opcodes that push a type that is known beforehand *)
LEMMA ResultsKept ==
    ASSUME Writing, CodeOK, NEW o, WellFormed(o),
           \/ ConstExpr(o) \/ LocalGetExpr(o) \/ GlobalGetExpr(o) \/ UnaryExpr(o) \/ BinaryExpr(o)
           \/ LoadExpr(o) \/ MemorySizeExpr(o)
    PROVE  Writing' /\ CodeOK'
<1>1. ASSUME ConstExpr(o) PROVE Writing' /\ CodeOK'
  <2>1. PICK args : args = <<<<"c", o.value, o.type>>>>
    OBVIOUS
  <2>2. o.op \in Plain /\ Step(o) /\ Straight /\ WriteResult(0, o.type, "const", args)
    BY <1>1, <2>1, ReadIs DEF ConstExpr, Plain
  <2>3. 0 = Len(Pops(o)) /\ Pushes(o) = <<o.type>> /\ o.type \in Types
    BY <1>1 DEF ConstExpr, Pops, Pushes, WellFormed
  <2> QED BY <2>2, <2>3, ResultKeeps
<1>2. ASSUME LocalGetExpr(o) PROVE Writing' /\ CodeOK'
  <2>1. PICK args : args = <<LocalName(o.index)>>
    OBVIOUS
  <2>2. o.op \in Plain /\ Step(o) /\ Straight /\ WriteResult(0, LocalTypes[o.index], "copy", args)
    BY <1>2, <2>1, ReadIs DEF LocalGetExpr, Plain
  <2>3. 0 = Len(Pops(o)) /\ Pushes(o) = <<LocalTypes[o.index]>> /\ LocalTypes[o.index] \in Types
    BY <1>2, OperandTypes DEF LocalGetExpr, Pops, Pushes, WellFormed
  <2> QED BY <2>2, <2>3, ResultKeeps
<1>3. ASSUME GlobalGetExpr(o) PROVE Writing' /\ CodeOK'
  <2>1. PICK args : args = <<GlobalName(o.index)>>
    OBVIOUS
  <2>2. o.op \in Plain /\ Step(o) /\ Straight /\ WriteResult(0, GlobalTypes[o.index], "copy", args)
    BY <1>3, <2>1, ReadIs DEF GlobalGetExpr, Plain
  <2>3. 0 = Len(Pops(o)) /\ Pushes(o) = <<GlobalTypes[o.index]>> /\ GlobalTypes[o.index] \in Types
    BY <1>3, OperandTypes DEF GlobalGetExpr, Pops, Pushes, WellFormed
  <2> QED BY <2>2, <2>3, ResultKeeps
<1>4. ASSUME UnaryExpr(o) PROVE Writing' /\ CodeOK'
  <2>1. PICK args : args = <<Operand(0)>>
    OBVIOUS
  <2>2. o.op \in Plain /\ Step(o) /\ Straight /\ WriteResult(1, o.type, "unary", args)
    BY <1>4, <2>1, ReadIs DEF UnaryExpr, Plain
  <2>3. 1 = Len(Pops(o)) /\ Pushes(o) = <<o.type>> /\ o.type \in Types
    BY <1>4 DEF UnaryExpr, Pops, Pushes, WellFormed
  <2> QED BY <2>2, <2>3, ResultKeeps
<1>5. ASSUME BinaryExpr(o) PROVE Writing' /\ CodeOK'
  <2>1. PICK args : args = <<Operand(1), Operand(0)>>
    OBVIOUS
  <2>2. o.op \in Plain /\ Step(o) /\ Straight /\ WriteResult(2, o.type, "binary", args)
    BY <1>5, <2>1, ReadIs DEF BinaryExpr, Plain
  <2>3. 2 = Len(Pops(o)) /\ Pushes(o) = <<o.type>> /\ o.type \in Types
    BY <1>5 DEF BinaryExpr, Pops, Pushes, WellFormed
  <2> QED BY <2>2, <2>3, ResultKeeps
<1>6. ASSUME LoadExpr(o) PROVE Writing' /\ CodeOK'
  <2>1. PICK args : args = <<Operand(0)>>
    OBVIOUS
  <2>2. o.op \in Plain /\ Step(o) /\ Straight /\ WriteResult(1, o.type, "load", args)
    BY <1>6, <2>1, ReadIs DEF LoadExpr, Plain
  <2>3. 1 = Len(Pops(o)) /\ Pushes(o) = <<o.type>> /\ o.type \in Types
    BY <1>6 DEF LoadExpr, Pops, Pushes, WellFormed
  <2> QED BY <2>2, <2>3, ResultKeeps
<1>7. ASSUME MemorySizeExpr(o) PROVE Writing' /\ CodeOK'
  <2>1. o.op \in Plain /\ Step(o) /\ Straight /\ WriteResult(0, I32, "size", << >>)
    BY <1>7, ReadIs DEF MemorySizeExpr, Plain
  <2>2. 0 = Len(Pops(o)) /\ Pushes(o) = <<I32>> /\ I32 \in Types
    BY <1>7, OperandTypes DEF MemorySizeExpr, Pops, Pushes
  <2> QED BY <2>1, <2>2, ResultKeeps
<1> QED BY <1>1, <1>2, <1>3, <1>4, <1>5, <1>6, <1>7

(* an opcode that leaves the type of its one operand on the stack *)
LEMMA TeeKeeps ==
    ASSUME Writing, CodeOK, NEW o, o.op \in Plain, Step(o), Straight,
           NEW type, Pops(o) = <<type>>, Pushes(o) = <<type>>,
           NEW declared, NEW s, Write(declared, typeStack, <<s>>),
           NoLabel(s) /\ StatementOK(s, declared, nextLabelIndex)
    PROVE  Writing' /\ CodeOK'
<1>1. PICK types : types = typeStack
  OBVIOUS
<1>2. Write(declared, types, <<s>>)
  BY <1>1
<1>3. <<s>> \in Seq(ToSet(<<s>>)) /\ DOMAIN <<s>> = {1} /\ <<s>>[1] = s
  BY OneStatement
<1>4. ~ignore => types = Dropped(Len(Pops(o))) \o Pushes(o)
  <2> SUFFICES ASSUME ~ignore PROVE types = Dropped(Len(Pops(o))) \o Pushes(o)
    OBVIOUS
  <2>1. Len(Pops(o)) = 1 /\ Pops(o)[1] = type
    OBVIOUS
  <2>2. /\ Len(Pops(o)) <= Len(typeStack)
        /\ \A k \in 1 .. Len(Pops(o)) : typeStack[Len(typeStack) - Len(Pops(o)) + k] = Pops(o)[k]
    BY PlainAfter DEF Step
  <2>3. Len(typeStack) \in Nat
    BY WritingIs
  <2>4. Len(typeStack) >= 1 /\ typeStack[Len(typeStack) - 1 + 1] = type
    BY <2>1, <2>2, <2>3
  <2>5. Len(typeStack) - 1 + 1 = Len(typeStack)
    BY <2>3
  <2>6. typeStack = Dropped(1) \o <<type>>
    BY <2>4, <2>5, ReplacedIs
  <2> QED BY <2>1, <2>6, <1>1
<1>5. \A k \in DOMAIN <<s>> : NoLabel(<<s>>[k]) /\ StatementOK(<<s>>[k], declared, nextLabelIndex)
  BY <1>3
<1> QED BY <1>2, <1>3, <1>4, <1>5, PlainWritten

LEMMA LocalAssignmentKeeps ==
    ASSUME Writing, CodeOK, NEW o, WellFormed(o), LocalAssignmentExpr(o)
    PROVE  Writing' /\ CodeOK'
<1>1. PICK top : top = wasmTypeStackGetTopIndex(0)
  OBVIOUS
<1>2. PICK type : type = LocalTypes[o.index]
  OBVIOUS
<1>3. PICK declared : declared = {<<top, type>>}
  OBVIOUS
<1>4. PICK s : s = Assign(LocalName(o.index), "copy", <<StackName(top, type)>>)
  OBVIOUS
<1>5. /\ o.op \in {"local.set", "local.tee"} /\ o.op \in Plain /\ Step(o) /\ Straight
      /\ Write(declared, IF o.op = "local.set" THEN Dropped(1) ELSE typeStack, <<s>>)
  BY <1>1, <1>2, <1>3, <1>4, ReadIs DEF LocalAssignmentExpr, Plain
<1>6. s.s = "assign" /\ s.to[1] = "l"
  BY <1>4 DEF Assign, LocalName
<1>7. NoLabel(s) /\ StatementOK(s, declared, nextLabelIndex)
  BY <1>6, QuietIs
<1>8. CASE o.op = "local.set"
  <2>1. 1 = Len(Pops(o)) /\ Pushes(o) = << >>
    BY <1>8 DEF Pops, Pushes
  <2>2. Write(declared, Dropped(1), <<s>>)
    BY <1>5, <1>8
  <2> QED BY <2>1, <2>2, <1>5, <1>7, EffectKeeps
<1>9. CASE o.op = "local.tee"
  <2>1. Pops(o) = <<type>> /\ Pushes(o) = <<type>>
    BY <1>2, <1>9 DEF Pops, Pushes
  <2>2. Write(declared, typeStack, <<s>>)
    BY <1>5, <1>9
  <2> QED BY <2>1, <2>2, <1>5, <1>7, TeeKeeps
<1> QED BY <1>5, <1>8, <1>9

LEMMA MemoryGrowKeeps ==
    ASSUME Writing, CodeOK, NEW o, WellFormed(o), MemoryGrowExpr(o)
    PROVE  Writing' /\ CodeOK'
<1>1. PICK top : top = wasmTypeStackGetTopIndex(0)
  OBVIOUS
<1>2. PICK declared : declared = {<<top, I32>>}
  OBVIOUS
<1>3. PICK args : args = <<Operand(0)>>
  OBVIOUS
<1>4. PICK s : s = Assign(StackName(top, I32), "grow", args)
  OBVIOUS
<1>5. /\ o.op = "memory.grow" /\ o.op \in Plain /\ Step(o) /\ Straight
      /\ Write(declared, typeStack, <<s>>)
  BY <1>1, <1>2, <1>3, <1>4, ReadIs DEF MemoryGrowExpr, Plain
<1>6. NoLabel(s) /\ StatementOK(s, declared, nextLabelIndex)
  BY <1>2, <1>4, AssignIs
<1>7. Pops(o) = <<I32>> /\ Pushes(o) = <<I32>>
  BY <1>5 DEF Pops, Pushes
<1> QED BY <1>5, <1>6, <1>7, TeeKeeps

LEMMA SelectKeeps ==
    ASSUME Writing, CodeOK, NEW o, WellFormed(o), SelectExpr(o)
    PROVE  Writing' /\ CodeOK'
<1>1. PICK type : type = TypeAt(wasmTypeStackGetTopIndex(1))
  OBVIOUS
<1>2. PICK args : args = <<Operand(0), Operand(2), Operand(1)>>
  OBVIOUS
<1>3. o.op = "select" /\ o.op \in Plain /\ Step(o) /\ Straight /\ WriteResult(3, type, "select", args)
  BY <1>1, <1>2, ReadIs DEF SelectExpr, Plain
<1>4. Pops(o) = <<o.type, o.type, I32>> /\ Pushes(o) = <<o.type>> /\ o.type \in Types
  BY <1>3 DEF Pops, Pushes, WellFormed
<1>5. ~ignore => 3 = Len(Pops(o)) /\ Pushes(o) = <<type>> /\ type \in Types
  <2> SUFFICES ASSUME ~ignore PROVE type = o.type
    BY <1>4
  <2>1. Len(Pops(o)) = 3 /\ Pops(o)[2] = o.type
    BY <1>4
  <2>2. \A k \in 1 .. Len(Pops(o)) : typeStack[Len(typeStack) - Len(Pops(o)) + k] = Pops(o)[k]
    BY <1>3, PlainAfter DEF Step
  <2>3. Len(typeStack) \in Nat
    BY WritingIs
  <2>4. typeStack[Len(typeStack) - 3 + 2] = o.type
    BY <2>1, <2>2
  <2>5. Len(typeStack) - 3 + 2 = Len(typeStack) - 1 - 1 + 1
    BY <2>3
  <2> QED BY <2>4, <2>5, <1>1 DEF TypeAt, wasmTypeStackGetTopIndex
<1> QED BY <1>3, <1>5, ResultKeeps

LEMMA EffectIs ==
    ASSUME NEW f, NEW args
    PROVE  NoLabel(Effect(f, args)) /\ \A m : StatementOK(Effect(f, args), {}, m)
<1>1. PICK s : s = Effect(f, args)
  OBVIOUS
<1>2. s.s = "effect"
  BY <1>1 DEF Effect
<1>3. NoLabel(s) /\ \A m : StatementOK(s, {}, m)
  BY <1>2, QuietIs
<1> QED BY <1>1, <1>3

(* a call, whether it has a result or not *)
LEMMA CallKeeps ==
    ASSUME Writing, CodeOK, NEW o, o.op \in Plain, Step(o), Straight,
           NEW count \in Nat, NEW callee, NEW f, NEW args, WriteCall(count, callee, f, args),
           callee.result \in BlockTypes,
           count = Len(Pops(o)), Pushes(o) = Results(callee.result)
    PROVE  Writing' /\ CodeOK'
<1>1. CASE callee.result = NoType
  <2>1. PICK s : s = Effect(f, args)
    OBVIOUS
  <2>2. Pushes(o) = << >> /\ Write({}, Dropped(count), <<s>>)
    BY <1>1, <2>1 DEF Results, WriteCall
  <2>3. NoLabel(s) /\ StatementOK(s, {}, nextLabelIndex)
    BY <2>1, EffectIs
  <2> QED BY <2>2, <2>3, EffectKeeps
<1>2. CASE callee.result # NoType
  <2>1. PICK type : type = callee.result
    OBVIOUS
  <2>2. Pushes(o) = <<type>> /\ type \in Types /\ WriteResult(count, type, f, args)
    BY <1>2, <2>1 DEF Results, WriteCall, BlockTypes
  <2> QED BY <2>2, ResultKeeps
<1> QED BY <1>1, <1>2

LEMMA CallsKept ==
    ASSUME Writing, CodeOK, NEW o, WellFormed(o), CallExpr(o) \/ CallIndirectExpr(o)
    PROVE  Writing' /\ CodeOK'
<1>1. PICK callee : callee = Callees[o.callee]
  OBVIOUS
<1>2. o.op \in {"call", "call_indirect"} /\ o.op \in Plain /\ Step(o) /\ Straight
  BY ReadIs DEF CallExpr, CallIndirectExpr, Plain
<1>3. callee.params \in Seq(Types) /\ Len(callee.params) \in Nat /\ callee.result \in BlockTypes
  BY <1>1, <1>2, CalleeTyped
<1>4. Pushes(o) = Results(callee.result)
  BY <1>1, <1>2 DEF Pushes
<1>5. CASE CallExpr(o)
  <2>1. PICK args : args = Arguments(callee.params, 0)
    OBVIOUS
  <2>2. WriteCall(Len(callee.params), callee, "call", args)
    BY <1>1, <1>5, <2>1 DEF CallExpr
  <2>3. Len(callee.params) = Len(Pops(o))
    BY <1>1, <1>5 DEF CallExpr, Pops
  <2> QED BY <1>2, <1>3, <1>4, <2>2, <2>3, CallKeeps
<1>6. CASE CallIndirectExpr(o)
  <2>1. PICK args : args = <<Operand(0)>> \o Arguments(callee.params, IndexOperands)
    OBVIOUS
  <2>2. WriteCall(Len(callee.params) + 1, callee, "call_indirect", args)
    BY <1>1, <1>6, <2>1 DEF CallIndirectExpr
  <2>3. Len(Append(callee.params, I32)) = Len(callee.params) + 1
    BY <1>3, OperandTypes, AppendedIs
  <2>4. Len(callee.params) + 1 = Len(Pops(o)) /\ Len(callee.params) + 1 \in Nat
    BY <1>1, <1>3, <1>6, <2>3 DEF CallIndirectExpr, Pops
  <2> QED BY <1>2, <1>3, <1>4, <2>2, <2>4, CallKeeps
<1> QED BY <1>5, <1>6

(* opcodes with an effect and no result *)
LEMMA EffectsKept ==
    ASSUME Writing, CodeOK, NEW o, WellFormed(o),
           GlobalSetExpr(o) \/ StoreExpr(o) \/ MemoryBulkExpr(o) \/ DataDrop(o)
    PROVE  Writing' /\ CodeOK'
<1>1. ASSUME GlobalSetExpr(o) PROVE Writing' /\ CodeOK'
  <2>1. PICK declared : declared = {<<wasmTypeStackGetTopIndex(0), GlobalTypes[o.index]>>}
    OBVIOUS
  <2>2. PICK s : s = Assign(GlobalName(o.index), "copy",
                            <<StackName(wasmTypeStackGetTopIndex(0), GlobalTypes[o.index])>>)
    OBVIOUS
  <2>3. o.op \in Plain /\ Step(o) /\ Straight /\ Write(declared, Dropped(1), <<s>>)
    BY <1>1, <2>1, <2>2, ReadIs DEF GlobalSetExpr, Plain
  <2>4. 1 = Len(Pops(o)) /\ Pushes(o) = << >>
    BY <1>1 DEF GlobalSetExpr, Pops, Pushes
  <2>5. s.s = "assign" /\ s.to[1] = "g"
    BY <2>2 DEF Assign, GlobalName
  <2>6. NoLabel(s) /\ StatementOK(s, declared, nextLabelIndex)
    BY <2>5, QuietIs
  <2> QED BY <2>3, <2>4, <2>6, EffectKeeps
<1>3. ASSUME StoreExpr(o) PROVE Writing' /\ CodeOK'
  <2>1. PICK args : args = <<Operand(1), Operand(0)>>
    OBVIOUS
  <2>2. PICK s : s = Effect("store", args)
    OBVIOUS
  <2>3. o.op \in Plain /\ Step(o) /\ Straight /\ Write({}, Dropped(2), <<s>>)
    BY <1>3, <2>1, <2>2, ReadIs DEF StoreExpr, Plain
  <2>4. 2 = Len(Pops(o)) /\ Pushes(o) = << >>
    BY <1>3 DEF StoreExpr, Pops, Pushes
  <2>5. NoLabel(s) /\ StatementOK(s, {}, nextLabelIndex)
    BY <2>2, EffectIs
  <2> QED BY <2>3, <2>4, <2>5, EffectKeeps
<1>4. ASSUME MemoryBulkExpr(o) PROVE Writing' /\ CodeOK'
  <2>1. PICK args : args = BulkOperands
    OBVIOUS
  <2>2. PICK s : s = Effect("fill", args)
    OBVIOUS
  <2>3. o.op \in Plain /\ Step(o) /\ Straight /\ Write({}, Dropped(3), <<s>>)
    BY <1>4, <2>1, <2>2, ReadIs DEF MemoryBulkExpr, Plain
  <2>4. 3 = Len(Pops(o)) /\ Pushes(o) = << >>
    BY <1>4 DEF MemoryBulkExpr, Pops, Pushes
  <2>5. NoLabel(s) /\ StatementOK(s, {}, nextLabelIndex)
    BY <2>2, EffectIs
  <2> QED BY <2>3, <2>4, <2>5, EffectKeeps
<1>5. ASSUME DataDrop(o) PROVE Writing' /\ CodeOK'
  <2>1. PICK s : s = Effect("data.drop", << >>)
    OBVIOUS
  <2>2. o.op \in Plain /\ Step(o) /\ Straight /\ Write({}, typeStack, <<s>>)
    BY <1>5, <2>1, ReadIs DEF DataDrop, Plain
  <2>3. Write({}, Dropped(0), <<s>>)
    BY <2>2, NothingDropped
  <2>4. 0 = Len(Pops(o)) /\ Pushes(o) = << >>
    BY <1>5 DEF DataDrop, Pops, Pushes
  <2>5. NoLabel(s) /\ StatementOK(s, {}, nextLabelIndex)
    BY <2>1, EffectIs
  <2> QED BY <2>2, <2>3, <2>4, <2>5, EffectKeeps
<1> QED BY <1>1, <1>3, <1>4, <1>5

LEMMA DropKeeps ==
    ASSUME Writing, CodeOK, NEW o, WellFormed(o), DropExpr(o)
    PROVE  Writing' /\ CodeOK'
<1>1. PICK types : types = Dropped(1)
  OBVIOUS
<1>2. o.op \in Plain /\ Step(o) /\ Straight /\ Write({}, types, << >>)
  BY <1>1, ReadIs DEF DropExpr, Plain
<1>3. Len(Pops(o)) = 1 /\ Pushes(o) = << >>
  BY DEF DropExpr, Pops, Pushes
<1>4. ~ignore => types = Dropped(Len(Pops(o))) \o Pushes(o)
  <2> SUFFICES ASSUME ~ignore PROVE types = Dropped(Len(Pops(o))) \o Pushes(o)
    OBVIOUS
  <2>1. 1 <= Len(typeStack)
    BY <1>2, <1>3, PlainAfter DEF Step
  <2>2. Dropped(1) \in Seq(Types)
    BY <2>1, DroppedIs
  <2>3. types \o << >> = types
    BY <2>2, <1>1
  <2> QED BY <2>3, <1>1, <1>3
<1>5. << >> \in Seq(ToSet(<< >>)) /\ DOMAIN << >> = {}
  OBVIOUS
<1>6. \A k \in DOMAIN << >> : NoLabel(<< >>[k]) /\ StatementOK(<< >>[k], {}, nextLabelIndex)
  BY <1>5
<1> QED BY <1>2, <1>4, <1>5, <1>6, PlainWritten

-----------------------------------------------------------------------------
(* Branches. *)

LEMMA KilledIs ==
    ASSUME Writing, valid' = Killed(valid)
    PROVE  /\ ValidOK(valid') /\ Below(valid, valid') /\ Len(valid'.blocks) = Open
           /\ \A k \in 1 .. Open - 1 : valid'.blocks[k] = valid.blocks[k]
           /\ valid'.blocks[Open] = [valid.blocks[Open] EXCEPT !.dead = TRUE]
<1>1. /\ ValidOK(valid) /\ valid.blocks # << >> /\ Len(valid.blocks) = Open /\ Open \in Nat \ {0}
      /\ valid.blocks \in Seq(OpenBlocks)
  BY WritingIs
<1>2. Top(valid) = valid.blocks[Open]
  BY <1>1, TopIs
<1>3. PICK b : b = [valid.blocks[Open] EXCEPT !.dead = TRUE]
  OBVIOUS
<1>4. valid.blocks[Open] \in OpenBlocks
  BY <1>1
<1>5. b \in OpenBlocks /\ b.height = Top(valid).height
  BY <1>2, <1>3, <1>4 DEF OpenBlocks
<1>6. [valid.blocks EXCEPT ![Len(valid.blocks)].dead = TRUE] = [valid.blocks EXCEPT ![Len(valid.blocks)] = b]
  BY <1>1, <1>3
<1>7. valid' = WithTop(valid, b)
  BY <1>6 DEF Killed, WithTop
<1>8. /\ ValidOK(valid') /\ Below(valid, valid') /\ Len(valid'.blocks) = Len(valid.blocks)
      /\ \A k \in 1 .. Len(valid.blocks) - 1 : valid'.blocks[k] = valid.blocks[k]
      /\ valid'.blocks[Len(valid.blocks)] = b
  BY <1>1, <1>5, <1>7, TopChangedOK
<1> QED BY <1>1, <1>3, <1>8

LEMMA BranchKeeps ==
    ASSUME Writing, CodeOK, valid' = Killed(valid), Branching, ignore' = TRUE,
           NEW declared, NEW types, NEW s, Write(declared, types, <<s>>),
           ~ignore => /\ NoLabel(s) /\ StatementOK(s, declared, nextLabelIndex)
                      /\ types \in Seq(Types) /\ Top(valid).height <= Len(types)
                      /\ \A x \in 1 .. Top(valid).height : types[x] = typeStack[x]
    PROVE  Writing' /\ CodeOK'
<1>1. /\ ValidOK(valid') /\ Below(valid, valid') /\ Len(valid'.blocks) = Open
      /\ \A k \in 1 .. Open - 1 : valid'.blocks[k] = valid.blocks[k]
      /\ valid'.blocks[Open] = [valid.blocks[Open] EXCEPT !.dead = TRUE]
  BY KilledIs
<1>2. ignore \in BOOLEAN /\ typeStack \in Seq(Types)
  BY WritingIs
<1>3. ignore => typeStack' = typeStack
  BY <1>2, WriteIs
<1>4. ~ignore => typeStack' = types
  BY <1>2, WriteIs
<1>5. ~ignore => /\ Top(valid).height <= Len(typeStack')
                 /\ \A x \in 1 .. Top(valid).height : typeStack'[x] = typeStack[x]
  BY <1>4
<1>6. typeStack' \in Seq(Types)
  BY <1>2, <1>3, <1>4
<1>7. UNCHANGED <<function, labelStack, nextLabelIndex, calls, done>>
  BY DEF Branching
<1>8. Writing'
  BY <1>1, <1>3, <1>5, <1>6, <1>7, KillKeeps
<1>9. <<s>> \in Seq(ToSet(<<s>>)) /\ DOMAIN <<s>> = {1} /\ <<s>>[1] = s
  BY OneStatement
<1>10. ~ignore => \A k \in DOMAIN <<s>> : NoLabel(<<s>>[k]) /\ StatementOK(<<s>>[k], declared, nextLabelIndex)
  BY <1>9
<1>11. CodeOK'
  BY <1>7, <1>9, <1>10, WrittenKeeps
<1> QED BY <1>8, <1>11

(* a jump to the label of an open block *)
JumpOK(j, declared, labels) ==
    /\ j.s = "goto"
    /\ j.copy # <<>> => (j.copy[1].to[1] = "s" => <<j.copy[1].to[2], j.copy[1].to[3]>> \in declared)
    /\ j.index \in 0 .. labels - 1

LEMMA GotoIs ==
    ASSUME Writing, NEW label, \E k \in 1 .. Len(labelStack) : label = labelStack[k], NEW dropped
    PROVE  JumpOK(Goto(label, dropped), GotoDeclares(label, dropped), nextLabelIndex)
<1>1. PICK value : value = StackName(GotoSource(dropped), TypeAt(GotoSource(dropped)))
  OBVIOUS
<1>2. PICK a : a = Assign(StackName(label.typeStackLength, label.type), "copy", <<value>>)
  OBVIOUS
<1>3. PICK j : j = Goto(label, dropped)
  OBVIOUS
<1>4. j = [s |-> "goto", index |-> label.index, copy |-> IF Copies(label, dropped) THEN <<a>> ELSE << >>]
  BY <1>1, <1>2, <1>3 DEF Goto
<1>5. j.s = "goto" /\ j.index = label.index /\ j.copy = IF Copies(label, dropped) THEN <<a>> ELSE << >>
  BY <1>4
<1>6. a.to = <<"s", label.typeStackLength, label.type>>
  BY <1>2 DEF Assign, StackName
<1>7. j.copy # << >> => <<j.copy[1].to[2], j.copy[1].to[3]>> \in GotoDeclares(label, dropped)
  <2> SUFFICES ASSUME j.copy # << >>
               PROVE  <<j.copy[1].to[2], j.copy[1].to[3]>> \in GotoDeclares(label, dropped)
    OBVIOUS
  <2>1. Copies(label, dropped) /\ j.copy = <<a>>
    BY <1>5
  <2>2. j.copy[1] = a
    BY <2>1
  <2>3. j.copy[1].to[2] = label.typeStackLength /\ j.copy[1].to[3] = label.type
    BY <2>2, <1>6
  <2> QED BY <2>1, <2>3 DEF GotoDeclares
<1>8. label.index \in 0 .. nextLabelIndex - 1
  <2>1. PICK k \in 1 .. Len(labelStack) : label = labelStack[k]
    OBVIOUS
  <2>2. labelStack \in Seq(Labels) /\ nextLabelIndex \in Nat
    BY WritingIs
  <2>3. labelStack[k] \in Labels /\ labelStack[k].index < nextLabelIndex
    BY <2>2 DEF Writing, Typed
  <2> QED BY <2>1, <2>2, <2>3 DEF Labels
<1> QED BY <1>3, <1>5, <1>7, <1>8 DEF JumpOK

LEMMA GotoStatement ==
    ASSUME NEW s, NEW declared, NEW m, JumpOK(s, declared, m)
    PROVE  NoLabel(s) /\ StatementOK(s, declared, m)
<1>1. s.s = "goto" /\ Jumps(s) = {s}
  BY DEF JumpOK, Jumps
<1> QED BY <1>1 DEF JumpOK, NoLabel, StatementOK

(* the label of an open block *)
LEMMA LabelAt ==
    ASSUME Writing, ~ignore, NEW d \in Nat, d < Open
    PROVE  \E k \in 1 .. Len(labelStack) : wasmLabelStackGetTop(d) = labelStack[k]
<1>1. Len(labelStack) = Open /\ Open \in Nat
  BY Reached, WritingIs
<1>2. Len(labelStack) - d \in 1 .. Len(labelStack)
  BY <1>1
<1> QED BY <1>2 DEF wasmLabelStackGetTop

LEMMA WholeStack ==
    ASSUME Writing, ~ignore
    PROVE  /\ typeStack \in Seq(Types) /\ Top(valid).height <= Len(typeStack) /\ Top(valid).height \in Nat
           /\ Own(valid) = Len(typeStack) - Top(valid).height /\ Len(typeStack) \in Nat
  BY Reached, WritingIs, TopIs

LEMMA BranchExprKeeps ==
    ASSUME Writing, CodeOK, NEW o, WellFormed(o), o.op = "br" => o.depth < Open, BranchExpr(o)
    PROVE  Writing' /\ CodeOK'
<1>1. PICK label : label = wasmLabelStackGetTop(o.depth)
  OBVIOUS
<1>2. PICK declared : declared = GotoDeclares(label, 0)
  OBVIOUS
<1>3. PICK types : types = typeStack
  OBVIOUS
<1>4. PICK s : s = Goto(label, 0)
  OBVIOUS
<1>5. o.op = "br" /\ Step(o) /\ Branching /\ ignore' = TRUE /\ Write(declared, types, <<s>>)
  BY <1>1, <1>2, <1>3, <1>4, ReadIs DEF BranchExpr
<1>6. valid' = Killed(valid)
  BY <1>5 DEF Step, After, Plain
<1>7. ~ignore => NoLabel(s) /\ StatementOK(s, declared, nextLabelIndex)
  <2> SUFFICES ASSUME ~ignore PROVE JumpOK(s, declared, nextLabelIndex)
    BY GotoStatement
  <2>1. o.depth \in Nat /\ o.depth < Open
    BY <1>5 DEF WellFormed
  <2>2. \E k \in 1 .. Len(labelStack) : label = labelStack[k]
    BY <2>1, <1>1, LabelAt
  <2> QED BY <2>2, <1>2, <1>4, GotoIs
<1>8. ~ignore => /\ types \in Seq(Types) /\ Top(valid).height <= Len(types)
                 /\ \A x \in 1 .. Top(valid).height : types[x] = typeStack[x]
  BY <1>3, WholeStack
<1> QED BY <1>5, <1>6, <1>7, <1>8, BranchKeeps

LEMMA ReturnExprKeeps ==
    ASSUME Writing, CodeOK, NEW o, WellFormed(o), ReturnExpr(o)
    PROVE  Writing' /\ CodeOK'
<1>1. PICK label : label = labelStack[1]
  OBVIOUS
<1>2. PICK declared : declared = GotoDeclares(label, 0)
  OBVIOUS
<1>3. PICK types : types = typeStack
  OBVIOUS
<1>4. PICK s : s = Goto(label, 0)
  OBVIOUS
<1>5. o.op = "return" /\ Step(o) /\ Branching /\ ignore' = TRUE /\ Write(declared, types, <<s>>)
  BY <1>1, <1>2, <1>3, <1>4, ReadIs DEF ReturnExpr
<1>6. valid' = Killed(valid)
  BY <1>5 DEF Step, After, Plain
<1>7. NoLabel(s) /\ StatementOK(s, declared, nextLabelIndex)
  <2>1. 1 \in 1 .. Len(labelStack)
    BY WritingIs
  <2>2. JumpOK(s, declared, nextLabelIndex)
    BY <2>1, <1>1, <1>2, <1>4, GotoIs
  <2> QED BY <2>2, GotoStatement
<1>8. ~ignore => /\ types \in Seq(Types) /\ Top(valid).height <= Len(types)
                 /\ \A x \in 1 .. Top(valid).height : types[x] = typeStack[x]
  BY <1>3, WholeStack
<1> QED BY <1>5, <1>6, <1>7, <1>8, BranchKeeps

LEMMA UnreachableKeeps ==
    ASSUME Writing, CodeOK, NEW o, WellFormed(o), Unreachable(o)
    PROVE  Writing' /\ CodeOK'
<1>1. PICK types : types = typeStack
  OBVIOUS
<1>2. PICK s : s = Effect("trap", << >>)
  OBVIOUS
<1>3. o.op = "unreachable" /\ Step(o) /\ Branching /\ ignore' = TRUE /\ Write({}, types, <<s>>)
  BY <1>1, <1>2, ReadIs DEF Unreachable
<1>4. valid' = Killed(valid)
  BY <1>3 DEF Step, After, Plain
<1>5. s.s = "effect"
  BY <1>2 DEF Effect
<1>6. NoLabel(s) /\ StatementOK(s, {}, nextLabelIndex)
  BY <1>5, QuietIs
<1>7. ~ignore => /\ types \in Seq(Types) /\ Top(valid).height <= Len(types)
                 /\ \A x \in 1 .. Top(valid).height : types[x] = typeStack[x]
  BY <1>1, WholeStack
<1> QED BY <1>3, <1>4, <1>6, <1>7, BranchKeeps

LEMMA CarriedTyped ==
    ASSUME Writing, NEW d \in Nat, d < Open
    PROVE  Carried(Target(valid, d)) \in Seq(Types)
<1>1. valid.blocks \in Seq(OpenBlocks) /\ Len(valid.blocks) = Open /\ Open \in Nat
  BY WritingIs
<1>2. Len(valid.blocks) - d \in 1 .. Len(valid.blocks)
  BY <1>1
<1>3. Target(valid, d) \in OpenBlocks
  BY <1>1, <1>2 DEF Target
<1>4. Target(valid, d).type \in BlockTypes
  BY <1>3 DEF OpenBlocks
<1>5. Results(Target(valid, d).type) \in Seq(Types)
  BY <1>4, ResultsTyped
<1> QED BY <1>5 DEF Carried

(* a branch on a condition takes the condition and leaves what it carries *)
LEMMA ConditionTaken ==
    ASSUME Writing, ~ignore, NEW carried \in Seq(Types), HasOnTop(valid, Append(carried, I32))
    PROVE  /\ Top(valid).height <= Len(typeStack) - 1 /\ 1 <= Len(typeStack)
           /\ Without(valid, Append(carried, I32)) \o carried = Dropped(1)
<1>1. PICK n \in Nat : n = Len(carried)
  OBVIOUS
<1>2. PICK pops : pops = Append(carried, I32)
  OBVIOUS
<1>3. pops \in Seq(Types) /\ Len(pops) = n + 1 /\ \A k \in 1 .. n : pops[k] = carried[k]
  BY <1>1, <1>2, OperandTypes, AppendedIs
<1>4. /\ ValidOK(valid) /\ valid.blocks # << >> /\ ~Dead(valid) /\ typeStack = valid.operands
  BY Reached, WritingIs
<1>5. HasOnTop(valid, pops)
  BY <1>2
<1>6. /\ n + 1 <= Own(valid)
      /\ Without(valid, pops) = SubSeq(typeStack, 1, Len(typeStack) - (n + 1))
      /\ \A k \in 1 .. n + 1 : typeStack[Len(typeStack) - (n + 1) + k] = pops[k]
  <2>1. PICK v : v = valid
    OBVIOUS
  <2>2. ValidOK(v) /\ v.blocks # << >> /\ ~Dead(v) /\ HasOnTop(v, pops)
    BY <1>4, <1>5, <2>1
  <2>3. /\ Len(pops) <= Own(v)
        /\ Without(v, pops) = SubSeq(v.operands, 1, Len(v.operands) - Len(pops))
        /\ \A k \in 1 .. Len(pops) : v.operands[Len(v.operands) - Len(pops) + k] = pops[k]
    BY <1>3, <2>2, OnTop
  <2> QED BY <2>1, <2>3, <1>3, <1>4
<1>7. PICK m \in Nat : m = Len(typeStack)
  BY WholeStack
<1>8. Own(valid) = m - Top(valid).height /\ Top(valid).height \in Nat
  BY <1>7, WholeStack
<1>9. n + 1 <= m /\ Top(valid).height <= m - 1 /\ 1 <= m
  BY <1>6, <1>8
<1>10. PICK rest : rest = Without(valid, pops)
  OBVIOUS
<1>11. m - (n + 1) \in Nat /\ m - (n + 1) <= m
  BY <1>9
<1>12. typeStack \in Seq(Types)
  BY WritingIs
<1>13. rest \in Seq(Types) /\ Len(rest) = m - (n + 1) /\ \A x \in 1 .. m - (n + 1) : rest[x] = typeStack[x]
  BY <1>6, <1>7, <1>10, <1>11, <1>12, PrefixIs
<1>14. PICK both : both = rest \o carried
  OBVIOUS
<1>15. /\ both \in Seq(Types) /\ Len(both) = m - 1
       /\ \A x \in 1 .. m - (n + 1) : both[x] = rest[x]
       /\ \A k \in 1 .. n : both[m - (n + 1) + k] = carried[k]
  <2>0. rest \in Seq(Types)
    BY <1>13
  <2>1. /\ rest \o carried \in Seq(Types) /\ Len(rest \o carried) = Len(rest) + Len(carried)
        /\ \A x \in 1 .. Len(rest) : (rest \o carried)[x] = rest[x]
        /\ \A k \in 1 .. Len(carried) : (rest \o carried)[Len(rest) + k] = carried[k]
    BY <2>0, CatIs
  <2>2. m - (n + 1) + n = m - 1
    OBVIOUS
  <2> QED BY <2>1, <2>2, <1>1, <1>13, <1>14
<1>16. \A x \in 1 .. m - 1 : both[x] = typeStack[x]
  <2> TAKE x \in 1 .. m - 1
  <2>1. CASE x <= m - (n + 1)
    BY <2>1, <1>13, <1>15
  <2>2. CASE ~(x <= m - (n + 1))
    <3>1. PICK k \in 1 .. n : x = m - (n + 1) + k
      <4>1. x - (m - (n + 1)) \in 1 .. n /\ x = m - (n + 1) + (x - (m - (n + 1)))
        BY <2>2, <1>11
      <4> QED BY <4>1
    <3>2. both[x] = carried[k] /\ typeStack[x] = pops[k]
      BY <3>1, <1>6, <1>7, <1>15
    <3> QED BY <3>2, <1>3
  <2> QED BY <2>1, <2>2
<1>17. /\ Dropped(1) = SubSeq(typeStack, 1, m - 1) /\ Dropped(1) \in Seq(Types) /\ Len(Dropped(1)) = m - 1
  BY <1>7, <1>9, DroppedIs
<1>18. m - 1 \in Nat /\ m - 1 <= Len(typeStack)
  BY <1>7, <1>9
<1>19. \A x \in 1 .. m - 1 : Dropped(1)[x] = typeStack[x]
  BY <1>12, <1>17, <1>18, PrefixIs
<1>20. both = Dropped(1)
  <2>1. PICK cut \in Seq(Types) : cut = Dropped(1)
    BY <1>17
  <2>2. Len(cut) = m - 1 /\ \A x \in 1 .. m - 1 : both[x] = cut[x]
    BY <2>1, <1>16, <1>17, <1>19
  <2>3. both = cut
    BY <2>2, <1>15, EqualSequences
  <2> QED BY <2>1, <2>3
<1> QED BY <1>2, <1>7, <1>9, <1>10, <1>14, <1>20

LEMMA BranchTableKeeps ==
    ASSUME Writing, CodeOK, NEW o, WellFormed(o), BranchTableExpr(o), \A d \in Targets(o) : d < Open
    PROVE  Writing' /\ CodeOK'
<1> DEFINE Jump(k) == Goto(wasmLabelStackGetTop(CaseDepth(o, k)), 1)
<1>0. o.op = "br_table"
  BY DEF BranchTableExpr
<1>1. /\ o.depths \in Seq(Nat) /\ Len(o.depths) \in Nat \ {0} /\ Targets(o) \subseteq Nat
      /\ \A k \in 1 .. Len(o.depths) : o.depths[k] \in Targets(o)
  BY <1>0 DEF WellFormed, Targets
<1>2. PICK last \in Nat \ {0} : last = Len(o.depths)
  BY <1>1
<1>3. PICK declared : declared = UNION {GotoDeclares(wasmLabelStackGetTop(d), 1) : d \in Targets(o)}
  OBVIOUS
<1>4. PICK types : types = Dropped(1)
  OBVIOUS
<1>5. PICK on : on = Operand(0)
  OBVIOUS
<1>6. PICK cases : cases = [k \in 1 .. last - 1 |-> Jump(k)]
  OBVIOUS
<1>7. PICK otherwise : otherwise = Jump(last)
  OBVIOUS
<1>8. PICK s : s = [s |-> "switch", on |-> on, cases |-> cases, otherwise |-> otherwise]
  OBVIOUS
<1>9. Step(o) /\ Branching /\ ignore' = TRUE /\ Write(declared, types, <<s>>)
  BY <1>2, <1>3, <1>4, <1>5, <1>6, <1>7, <1>8, ReadIs DEF BranchTableExpr
<1>10. valid' = Killed(valid)
  BY <1>0, <1>9 DEF Step, After, Plain
<1>11. ASSUME ~ignore, NEW k \in 1 .. last PROVE JumpOK(Jump(k), declared, nextLabelIndex)
  <2>1. PICK d \in Targets(o) : d = o.depths[k]
    BY <1>1, <1>2
  <2>2. d \in Nat /\ d < Open
    BY <1>1
  <2>3. PICK label : label = wasmLabelStackGetTop(d)
    OBVIOUS
  <2>4. \E x \in 1 .. Len(labelStack) : label = labelStack[x]
    BY <2>2, <2>3, <1>11, LabelAt
  <2>5. JumpOK(Goto(label, 1), GotoDeclares(label, 1), nextLabelIndex)
    BY <2>4, GotoIs
  <2>6. GotoDeclares(label, 1) \subseteq declared
    BY <2>3, <1>3
  <2>7. JumpOK(Goto(label, 1), declared, nextLabelIndex)
    BY <2>5, <2>6 DEF JumpOK
  <2> QED BY <2>1, <2>3, <2>7 DEF CaseDepth
<1>12. Jumps(s) \subseteq {Jump(k) : k \in 1 .. last}
  <2> HIDE DEF Jump
  <2>1. Jumps(s) = ToSet(cases) \cup {otherwise}
    BY <1>8 DEF Jumps
  <2>2. ToSet(cases) \subseteq {Jump(k) : k \in 1 .. last}
    BY <1>6 DEF ToSet
  <2>3. last \in 1 .. last
    OBVIOUS
  <2> QED BY <2>1, <2>2, <2>3, <1>7
<1>13. ~ignore => NoLabel(s) /\ StatementOK(s, declared, nextLabelIndex)
  <2> HIDE DEF Jump
  <2>1. s.s = "switch"
    BY <1>8
  <2>2. ~ignore => \A j \in Jumps(s) : JumpOK(j, declared, nextLabelIndex)
    BY <1>11, <1>12
  <2> QED BY <2>1, <2>2 DEF NoLabel, StatementOK, JumpOK
<1>14. ~ignore => /\ types \in Seq(Types) /\ Top(valid).height <= Len(types)
                  /\ \A x \in 1 .. Top(valid).height : types[x] = typeStack[x]
  <2> SUFFICES ASSUME ~ignore
               PROVE  /\ types \in Seq(Types) /\ Top(valid).height <= Len(types)
                      /\ \A x \in 1 .. Top(valid).height : types[x] = typeStack[x]
    OBVIOUS
  <2>1. PICK d \in Targets(o) : d = o.depths[1]
    BY <1>1
  <2>2. PICK carried : carried = Carried(Target(valid, d))
    OBVIOUS
  <2>3. carried \in Seq(Types)
    BY <2>2, <1>1, CarriedTyped
  <2>4. HasOnTop(valid, Append(carried, I32))
    BY <2>2, <1>0, <1>9 DEF Step, Valid, Plain
  <2>5. Top(valid).height <= Len(typeStack) - 1 /\ 1 <= Len(typeStack)
    BY <2>3, <2>4, ConditionTaken
  <2>6. typeStack \in Seq(Types) /\ Len(typeStack) \in Nat /\ Top(valid).height \in Nat
    BY WholeStack
  <2>7. types = SubSeq(typeStack, 1, Len(typeStack) - 1) /\ types \in Seq(Types) /\ Len(types) = Len(typeStack) - 1
    BY <2>5, <2>6, <1>4, DroppedIs
  <2>8. \A x \in 1 .. Len(typeStack) - 1 : types[x] = typeStack[x]
    BY <2>6, <2>7, PrefixIs
  <2> QED BY <2>5, <2>6, <2>7, <2>8
<1> QED BY <1>9, <1>10, <1>13, <1>14, BranchKeeps

LEMMA BranchIfKeeps ==
    ASSUME Writing, CodeOK, NEW o, WellFormed(o), BranchIfExpr(o), o.op = "br_if" => o.depth < Open
    PROVE  Writing' /\ CodeOK'
<1>1. PICK label : label = wasmLabelStackGetTop(o.depth)
  OBVIOUS
<1>2. PICK declared : declared = GotoDeclares(label, 1)
  OBVIOUS
<1>3. PICK types : types = Dropped(1)
  OBVIOUS
<1>4. PICK jump : jump = Goto(label, 1)
  OBVIOUS
<1>5. PICK on : on = Operand(0)
  OBVIOUS
<1>6. PICK s : s = [s |-> "br_if", on |-> on, jump |-> jump]
  OBVIOUS
<1>7. o.op = "br_if" /\ Step(o) /\ Straight /\ Write(declared, types, <<s>>)
  BY <1>1, <1>2, <1>3, <1>4, <1>5, <1>6, ReadIs DEF BranchIfExpr
<1>8. o.depth \in Nat /\ o.depth < Open
  BY <1>7 DEF WellFormed
<1>9. PICK carried : carried = Carried(Target(valid, o.depth))
  OBVIOUS
<1>10. carried \in Seq(Types)
  BY <1>8, <1>9, CarriedTyped
<1>11. /\ HasOnTop(valid, Append(carried, I32))
       /\ valid' = [valid EXCEPT !.operands = Without(valid, Append(carried, I32)) \o carried]
  BY <1>7, <1>9 DEF Step, Valid, After, Plain
<1>12. PICK pops : pops = Append(carried, I32)
  OBVIOUS
<1>13. pops \in Seq(Types)
  BY <1>10, <1>12, OperandTypes, AppendedIs
<1>14. PICK rest : rest = Without(valid, pops)
  OBVIOUS
<1>15. ValidOK(valid) /\ valid.blocks # << >> /\ Top(valid).height \in Nat
  BY WritingIs, TopIs
<1>16. /\ rest \in Seq(Types) /\ Top(valid).height <= Len(rest)
       /\ \A x \in 1 .. Len(rest) : rest[x] = valid.operands[x]
  BY <1>13, <1>14, <1>15, WithoutIs
<1>17. PICK ops : ops = rest \o carried
  OBVIOUS
<1>18. /\ ops \in Seq(Types) /\ Len(ops) = Len(rest) + Len(carried)
       /\ \A x \in 1 .. Len(rest) : ops[x] = rest[x]
  BY <1>10, <1>16, <1>17, CatIs
<1>19. Len(rest) \in Nat /\ Len(carried) \in Nat
  BY <1>10, <1>16
<1>20. Top(valid).height <= Len(ops) /\ \A x \in 1 .. Top(valid).height : ops[x] = valid.operands[x]
  BY <1>15, <1>16, <1>18, <1>19
<1>21. valid' = [valid EXCEPT !.operands = ops]
  BY <1>11, <1>12, <1>14, <1>17
<1>22. ValidOK(valid') /\ Below(valid, valid') /\ valid'.operands = ops /\ valid'.blocks = valid.blocks
  <2>1. PICK v : v = valid
    OBVIOUS
  <2>2. /\ ValidOK(v) /\ v.blocks # << >> /\ ops \in Seq(Types) /\ Top(v).height <= Len(ops)
        /\ \A x \in 1 .. Top(v).height : ops[x] = v.operands[x]
    BY <1>15, <1>18, <1>20, <2>1
  <2>3. PICK w : w = [v EXCEPT !.operands = ops]
    OBVIOUS
  <2>4. ValidOK(w) /\ Below(v, w) /\ w.operands = ops /\ w.blocks = v.blocks
    BY <2>2, <2>3, SameBlocksOK
  <2> QED BY <2>1, <2>3, <2>4, <1>21
<1>23. ignore \in BOOLEAN /\ typeStack \in Seq(Types)
  BY WritingIs
<1>24. ignore => typeStack' = typeStack
  BY <1>7, <1>23, WriteIs
<1>25. ~ignore => typeStack' = valid'.operands
  <2> SUFFICES ASSUME ~ignore PROVE typeStack' = valid'.operands
    OBVIOUS
  <2>1. typeStack' = types
    BY <1>7, <1>23, WriteIs
  <2>2. Without(valid, Append(carried, I32)) \o carried = Dropped(1)
    BY <1>10, <1>11, ConditionTaken
  <2> QED BY <2>1, <2>2, <1>3, <1>12, <1>14, <1>17, <1>22
<1>26. typeStack' \in Seq(Types)
  BY <1>18, <1>22, <1>23, <1>24, <1>25
<1>27. UNCHANGED <<function, labelStack, nextLabelIndex, ignore, calls, done>>
  BY <1>7 DEF Straight
<1>28. Writing'
  BY <1>22, <1>24, <1>25, <1>26, <1>27, Straightforward
<1>29. ~ignore => NoLabel(s) /\ StatementOK(s, declared, nextLabelIndex)
  <2> SUFFICES ASSUME ~ignore PROVE NoLabel(s) /\ StatementOK(s, declared, nextLabelIndex)
    OBVIOUS
  <2>1. \E k \in 1 .. Len(labelStack) : label = labelStack[k]
    BY <1>1, <1>8, LabelAt
  <2>2. JumpOK(jump, declared, nextLabelIndex)
    BY <2>1, <1>2, <1>4, GotoIs
  <2>3. s.s = "br_if" /\ Jumps(s) = {jump}
    BY <1>6 DEF Jumps
  <2> QED BY <2>2, <2>3 DEF NoLabel, StatementOK, JumpOK
<1>30. <<s>> \in Seq(ToSet(<<s>>)) /\ DOMAIN <<s>> = {1} /\ <<s>>[1] = s
  BY OneStatement
<1>31. ~ignore => \A k \in DOMAIN <<s>> : NoLabel(<<s>>[k]) /\ StatementOK(<<s>>[k], declared, nextLabelIndex)
  BY <1>29, <1>30
<1>32. CodeOK'
  BY <1>7, <1>27, <1>30, <1>31, WrittenKeeps
<1> QED BY <1>28, <1>32

-----------------------------------------------------------------------------
(* Blocks. *)

LEMMA AliveLabel ==
    ASSUME Writing, NEW k \in 1 .. Len(calls), ~calls[k].ignore
    PROVE  /\ k + 1 \in 1 .. Len(labelStack) /\ calls[k].label = labelStack[k + 1].index
           /\ calls[k].label \in Nat \ {0} /\ calls[k].label < nextLabelIndex
<1>1. /\ Len(labelStack) \in Nat /\ Len(calls) \in Nat /\ labelStack \in Seq(Labels) /\ k \in Nat \ {0}
  BY WritingIs
<1>2. ~(Len(labelStack) <= k)
  BY DEF Writing, LabelsOK
<1>3. k + 1 \in 1 .. Len(labelStack) /\ k + 1 \in 2 .. Len(labelStack) /\ 1 \in 1 .. Len(labelStack) /\ 1 < k + 1
  BY <1>1, <1>2
<1>4. labelStack[k + 1].index = calls[k].label
  <2>1. labelStack[k + 1].index = calls[k + 1 - 1].label
    BY <1>3 DEF Writing, LabelsOK
  <2>2. k + 1 - 1 = k
    BY <1>1
  <2> QED BY <2>1, <2>2
<1>5. labelStack[1].index = 0 /\ labelStack[1].index < labelStack[k + 1].index
  BY <1>3 DEF Writing, LabelsOK
<1>6. labelStack[k + 1].index \in Nat
  <2>1. labelStack[k + 1] \in Labels
    BY <1>1, <1>3
  <2> QED BY <2>1 DEF Labels
<1>7. labelStack[k + 1].index < nextLabelIndex
  BY <1>3 DEF Writing, Typed
<1> QED BY <1>3, <1>4, <1>5, <1>6, <1>7

LEMMA NextIsPlaced ==
    ASSUME Writing
    PROVE  ~Unplaced(nextLabelIndex) /\ \A i \in Nat : Unplaced(i) => i < nextLabelIndex
<1>1. nextLabelIndex \in Nat \ {0}
  BY WritingIs
<1>2. ASSUME NEW i \in Nat, Unplaced(i) PROVE i < nextLabelIndex
  <2>1. CASE i = 0
    BY <2>1, <1>1
  <2>2. CASE i # 0
    <3>1. PICK k \in 1 .. Len(calls) : ~calls[k].ignore /\ calls[k].label = i
      BY <1>2, <2>2 DEF Unplaced
    <3> QED BY <3>1, AliveLabel
  <2> QED BY <2>1, <2>2
<1>3. ~Unplaced(nextLabelIndex)
  <2>1. PICK n \in Nat : n = nextLabelIndex
    BY <1>1
  <2> QED BY <2>1, <1>2
<1> QED BY <1>2, <1>3

LEMMA UnplacedEntered ==
    ASSUME calls \in Seq(ActiveCalls), NEW c \in ActiveCalls, calls' = Append(calls, c), done' = done
    PROVE  \A i \in Nat : Unplaced(i)' <=> Unplaced(i)
                                           \/ (~done /\ ~c.ignore /\ c.op # "loop" /\ c.label = i)
<1>1. /\ Len(calls') = Len(calls) + 1 /\ Len(calls) \in Nat
      /\ \A k \in 1 .. Len(calls) : calls'[k] = calls[k]
      /\ calls'[Len(calls) + 1] = c
  BY AppendedIs
<1>2. \A k : k \in 1 .. Len(calls) + 1 <=> k \in 1 .. Len(calls) \/ k = Len(calls) + 1
  BY <1>1
<1> TAKE i \in Nat
<1>3. (\E k \in 1 .. Len(calls') : ~calls'[k].ignore /\ calls'[k].op # "loop" /\ calls'[k].label = i)
      <=> \/ \E k \in 1 .. Len(calls) : ~calls[k].ignore /\ calls[k].op # "loop" /\ calls[k].label = i
          \/ ~c.ignore /\ c.op # "loop" /\ c.label = i
  BY <1>1, <1>2
<1>4. Unplaced(i)' <=> Unplaced(i) \/ (~done /\ ~c.ignore /\ c.op # "loop" /\ c.label = i)
  BY <1>3, Zenon DEF Unplaced
<1> QED BY <1>4

(* what the writer knows when it enters a block *)
LEMMA EnterKnows ==
    ASSUME Writing, NEW o, WellFormed(o), o.op \in {"block", "loop", "if"},
           NEW ops \in Seq(Types), Top(valid).height <= Len(ops),
           \A x \in 1 .. Top(valid).height : ops[x] = valid.operands[x],
           valid' = Opened(valid, o, ops),
           NEW before \in Int, NEW type \in BlockTypes, NEW st, Enter(o, before, type, st),
           ~ignore => before = Len(ops) /\ SubSeq(typeStack, 1, before) = ops
    PROVE  Writing'
<1>1. /\ ValidOK(valid) /\ valid.blocks # << >> /\ Open \in Nat \ {0} /\ Len(valid.blocks) = Open
      /\ calls \in Seq(ActiveCalls) /\ Len(calls) \in Nat /\ Open = Len(calls) + 1
      /\ labelStack \in Seq(Labels) /\ nextLabelIndex \in Nat \ {0} /\ ignore \in BOOLEAN
  BY WritingIs
<1>2. PICK n \in Nat \ {0} : n = Open
  BY <1>1
<1>3. o.type \in BlockTypes
  BY DEF WellFormed, BlockTypes
<1>4. ValidOK(valid') /\ Below(valid, valid') /\ valid'.operands = ops /\ OpensBlock(valid, valid', o)
  <2>1. PICK w : w = valid'
    OBVIOUS
  <2>2. w = Opened(valid, o, ops)
    BY <2>1
  <2>3. ValidOK(w) /\ Below(valid, w) /\ w.operands = ops /\ OpensBlock(valid, w, o)
    <3>1. ValidOK(valid) /\ valid.blocks # << >>
      BY <1>1
    <3>2. Top(valid).height <= Len(ops) /\ \A x \in 1 .. Top(valid).height : ops[x] = valid.operands[x]
      OBVIOUS
    <3>3. o.op \in {"block", "loop", "if"} /\ o.type \in BlockTypes
      BY <1>3
    <3>4. PICK v : v = valid
      OBVIOUS
    <3>5. PICK h : h = Top(v).height
      OBVIOUS
    <3>6. ValidOK(v) /\ v.blocks # << >> /\ Top(v).height <= Len(ops)
          /\ \A x \in 1 .. Top(v).height : ops[x] = v.operands[x]
      BY <3>1, <3>2, <3>4
    <3>7. ValidOK(w) /\ Below(v, w) /\ w.operands = ops /\ OpensBlock(v, w, o)
      BY <3>6, <3>3, <3>4, <2>2, OpenedOK
    <3> QED BY <3>4, <3>7
  <2> QED BY <2>1, <2>3
<1>5. PICK c : c = Call(o, before)
  OBVIOUS
<1>6. /\ c.op = o.op /\ c.ignore = ignore /\ c.typeStackLengthBeforeBranches = before
      /\ c.blockType = o.type /\ c.label = nextLabelIndex
  BY <1>5 DEF Call, LabelIndex
<1>7. c \in ActiveCalls
  <2>1. o.op \in Kinds \ {"func"}
    BY DEF Kinds
  <2> QED BY <2>1, <1>1, <1>3, <1>5 DEF Call, LabelIndex, ActiveCalls
<1>8. calls' = Append(calls, c)
  BY <1>5 DEF Enter
<1>9. /\ calls' \in Seq(ActiveCalls) /\ Len(calls') = n
      /\ \A k \in 1 .. n - 1 : calls'[k] = calls[k]
      /\ calls'[n] = c
  <2>1. /\ calls' \in Seq(ActiveCalls) /\ Len(calls') = Len(calls) + 1
        /\ \A k \in 1 .. Len(calls) : calls'[k] = calls[k]
        /\ calls'[Len(calls) + 1] = c
    BY <1>1, <1>7, <1>8, AppendedIs
  <2> QED BY <2>1, <1>1, <1>2
<1>10. EnteredBlock(n)
  BY <1>1, <1>2, <1>4, <1>6, <1>9 DEF EnteredBlock, OpensBlock
<1>11. UNCHANGED <<function, ignore, done>>
  BY DEF Enter
<1>12. ignore => UNCHANGED <<labelStack, nextLabelIndex, typeStack>>
  BY DEF Enter, Write
<1>13. ~ignore => EnteredLabel(n)
  <2> SUFFICES ASSUME ~ignore PROVE EnteredLabel(n)
    OBVIOUS
  <2>1. PICK label : label = Label(before, type)
    OBVIOUS
  <2>2. /\ labelStack' = Append(labelStack, label) /\ nextLabelIndex' = nextLabelIndex + 1
        /\ typeStack' = SubSeq(typeStack, 1, before)
    BY <2>1 DEF Enter, Write
  <2>3. label.index = nextLabelIndex /\ label.typeStackLength = before
    BY <2>1 DEF Label, LabelIndex
  <2>4. label \in Labels
    BY <2>1, <1>1 DEF Label, LabelIndex, Labels
  <2>5. Len(labelStack) = n
    BY <1>2, Reached
  <2>6. /\ labelStack' \in Seq(Labels) /\ Len(labelStack') = n + 1
        /\ \A k \in 1 .. n : labelStack'[k] = labelStack[k]
        /\ labelStack'[n + 1] = label
    BY <2>2, <2>4, <2>5, <1>1, AppendedIs
  <2>7. typeStack' = valid'.operands /\ before = Len(valid'.operands)
    BY <2>2, <1>4
  <2> QED BY <2>2, <2>3, <2>6, <2>7, <1>6, <1>9 DEF EnteredLabel
<1> QED BY <1>2, <1>4, <1>10, <1>11, <1>12, <1>13, EnterKeeps

(* what it has written then *)
LEMMA EnterWrites ==
    ASSUME Writing, CodeOK, NEW o, WellFormed(o), o.op \in {"block", "loop", "if"},
           NEW before \in Int, NEW type, NEW st, Enter(o, before, type, st),
           \/ o.op = "block" /\ st = << >>
           \/ o.op = "if" /\ \E on : st = <<[s |-> "if", on |-> on, id |-> LabelIndex]>>
           \/ o.op = "loop" /\ st = <<Placed(LabelIndex)>>
    PROVE  CodeOK'
<1>1. /\ calls \in Seq(ActiveCalls) /\ nextLabelIndex \in Nat \ {0} /\ ignore \in BOOLEAN /\ ~done
  BY WritingIs DEF Writing
<1>2. PICK c : c = Call(o, before)
  OBVIOUS
<1>3. c.op = o.op /\ c.ignore = ignore /\ c.label = nextLabelIndex
  BY <1>2 DEF Call, LabelIndex
<1>4. c \in ActiveCalls
  <2>1. o.op \in Kinds \ {"func"} /\ o.type \in BlockTypes
    BY DEF Kinds, WellFormed, BlockTypes
  <2> QED BY <2>1, <1>1, <1>2 DEF Call, LabelIndex, ActiveCalls
<1>5. calls' = Append(calls, c) /\ done' = done
  BY <1>2 DEF Enter
<1>6. \A i \in Nat : Unplaced(i)' <=> Unplaced(i) \/ (~ignore /\ o.op # "loop" /\ i = nextLabelIndex)
  <2>1. \A i \in Nat : Unplaced(i)' <=> Unplaced(i) \/ (~done /\ ~c.ignore /\ c.op # "loop" /\ c.label = i)
    BY <1>1, <1>4, <1>5, UnplacedEntered
  <2> TAKE i \in Nat
  <2>2. Unplaced(i)' <=> Unplaced(i) \/ (~done /\ ~c.ignore /\ c.op # "loop" /\ c.label = i)
    BY <2>1
  <2>3. (~done /\ ~c.ignore /\ c.op # "loop" /\ c.label = i)
        <=> ~ignore /\ o.op # "loop" /\ i = nextLabelIndex
    BY <1>1, <1>3
  <2> QED BY <2>2, <2>3, Zenon
<1>7. CASE ignore
  <2>1. UNCHANGED <<code, stackDeclarations, nextLabelIndex>>
    BY <1>7 DEF Enter, Write
  <2>2. \A i \in Nat : Unplaced(i)' <=> Unplaced(i)
    <3> TAKE i \in Nat
    <3> QED BY <1>6, <1>7, Zenon
  <2> QED BY <2>1, <2>2, <1>1, CodeSame
<1>8. CASE ~ignore
  <2>1. /\ code' = code \o st /\ stackDeclarations' = stackDeclarations
        /\ nextLabelIndex' = nextLabelIndex + 1
    BY <1>8 DEF Enter, Write
  <2>2. PICK next \in Nat : next = nextLabelIndex
    BY <1>1
  <2>3. /\ nextLabelIndex' \in Nat /\ nextLabelIndex <= nextLabelIndex' /\ nextLabelIndex \in Nat
        /\ stackDeclarations \subseteq stackDeclarations' /\ next < nextLabelIndex'
        /\ \A i \in nextLabelIndex .. nextLabelIndex' - 1 : i = next
    BY <2>1, <2>2
  <2>4. \A i \in Nat : i < nextLabelIndex => (Unplaced(i)' <=> Unplaced(i))
    <3> TAKE i \in Nat
    <3>1. i < nextLabelIndex => i # nextLabelIndex
      BY <1>1
    <3> QED BY <3>1, <1>6, Zenon
  <2>5. CASE o.op # "loop"
    <3>1. \A i \in nextLabelIndex .. nextLabelIndex' - 1 : Unplaced(i)'
      <4>1. Unplaced(next)'
        BY <2>2, <2>5, <1>6, <1>8
      <4> QED BY <4>1, <2>3
    <3>2. /\ st \in Seq(ToSet(st))
          /\ \A k \in DOMAIN st : NoLabel(st[k]) /\ StatementOK(st[k], stackDeclarations', nextLabelIndex')
      <4>1. CASE st = << >>
        BY <4>1
      <4>2. ASSUME NEW on, st = <<[s |-> "if", on |-> on, id |-> LabelIndex]>>
            PROVE  /\ st \in Seq(ToSet(st))
                   /\ \A k \in DOMAIN st :
                         NoLabel(st[k]) /\ StatementOK(st[k], stackDeclarations', nextLabelIndex')
        <5>1. PICK s : s = [s |-> "if", on |-> on, id |-> LabelIndex]
          OBVIOUS
        <5>2. s.s = "if" /\ st = <<s>>
          BY <5>1, <4>2
        <5>3. NoLabel(s) /\ \A d, m : StatementOK(s, d, m)
          BY <5>2, QuietIs
        <5>4. st \in Seq(ToSet(st)) /\ DOMAIN st = {1} /\ st[1] = s
          BY <5>2, OneStatement
        <5> QED BY <5>3, <5>4
      <4> QED BY <4>1, <4>2, <2>5
    <3> QED BY <3>1, <3>2, <2>1, <2>3, <2>4, CodeWritten
  <2>6. CASE o.op = "loop"
    <3>1. PICK s : s = Placed(next)
      OBVIOUS
    <3>2. st = <<s>>
      BY <3>1, <2>2, <2>6 DEF LabelIndex
    <3>3. st \in Seq(ToSet(st)) /\ DOMAIN st = {1} /\ st[1] = Placed(next)
      BY <3>1, <3>2, OneStatement
    <3>4. \A d, m : StatementOK(s, d, m)
      BY <3>1 DEF Placed, StatementOK, Jumps
    <3>5. \A k \in DOMAIN st : StatementOK(st[k], stackDeclarations', nextLabelIndex')
      BY <3>1, <3>3, <3>4
    <3>6. 1 \in DOMAIN st /\ \A k \in DOMAIN st : k # 1 => NoLabel(st[k])
      BY <3>3
    <3>7. ~Unplaced(next)'
      <4>1. ~Unplaced(next)
        BY <2>2, NextIsPlaced
      <4> QED BY <4>1, <2>6, <1>6
    <3>8. \A i \in Nat : i < nextLabelIndex /\ i # next => (Unplaced(i)' <=> Unplaced(i))
      BY <2>4
    <3>9. Unplaced(next) \/ next >= nextLabelIndex
      BY <2>2
    <3> QED BY <3>3, <3>5, <3>6, <3>7, <3>8, <3>9, <2>1, <2>3, CodeLabelled
  <2> QED BY <2>5, <2>6
<1> QED BY <1>1, <1>7, <1>8

LEMMA IfKeeps ==
    ASSUME Writing, CodeOK, NEW o, WellFormed(o), IfExpr(o)
    PROVE  Writing' /\ CodeOK'
<1>1. PICK before : before = Len(typeStack) - 1
  OBVIOUS
<1>2. PICK on : on = Operand(0)
  OBVIOUS
<1>3. PICK st : st = <<[s |-> "if", on |-> on, id |-> LabelIndex]>>
  OBVIOUS
<1>4. o.op = "if" /\ Step(o) /\ Enter(o, before, o.type, st)
  BY <1>1, <1>2, <1>3, ReadIs DEF IfExpr
<1>5. PICK ops : ops = Without(valid, <<I32>>)
  OBVIOUS
<1>6. HasOnTop(valid, <<I32>>) /\ valid' = Opened(valid, o, ops)
  BY <1>4, <1>5 DEF Step, Valid, After, Plain
<1>7. ValidOK(valid) /\ valid.blocks # << >> /\ Top(valid).height \in Nat /\ typeStack \in Seq(Types) /\ Len(typeStack) \in Nat
  BY WritingIs, TopIs
<1>8. PICK pops : pops = <<I32>>
  OBVIOUS
<1>8a. pops \in Seq(Types) /\ Len(pops) = 1
  BY <1>8, OperandTypes
<1>9. /\ ops \in Seq(Types) /\ Top(valid).height <= Len(ops)
      /\ \A x \in 1 .. Len(ops) : ops[x] = valid.operands[x]
  <2>1. ops = Without(valid, pops)
    BY <1>5, <1>8
  <2> QED BY <2>1, <1>7, <1>8a, WithoutIs
<1>10. \A x \in 1 .. Top(valid).height : ops[x] = valid.operands[x]
  <2>1. Len(ops) \in Nat
    BY <1>9
  <2> QED BY <2>1, <1>7, <1>9
<1>11. before \in Int /\ o.type \in BlockTypes
  BY <1>1, <1>4, <1>7 DEF WellFormed, BlockTypes
<1>12. ~ignore => before = Len(ops) /\ SubSeq(typeStack, 1, before) = ops
  <2> SUFFICES ASSUME ~ignore PROVE before = Len(ops) /\ SubSeq(typeStack, 1, before) = ops
    OBVIOUS
  <2>1. ~Dead(valid) /\ typeStack = valid.operands
    BY Reached
  <2>2. Len(pops) <= Own(valid) /\ Without(valid, pops) = SubSeq(valid.operands, 1, Len(valid.operands) - Len(pops))
    <3>1. HasOnTop(valid, pops)
      BY <1>6, <1>8
    <3> QED BY <3>1, <2>1, <1>7, <1>8a, OnTop
  <2>3. Own(valid) = Len(typeStack) - Top(valid).height
    BY WholeStack
  <2>4. before \in Nat /\ before <= Len(typeStack)
    BY <2>2, <2>3, <1>1, <1>7, <1>8a
  <2>5. ops = SubSeq(typeStack, 1, before)
    BY <2>1, <2>2, <1>1, <1>5, <1>8, <1>8a
  <2>6. Len(SubSeq(typeStack, 1, before)) = before
    BY <2>4, <1>7, PrefixIs
  <2> QED BY <2>5, <2>6
<1>13. Writing'
  <2>1. o.op \in {"block", "loop", "if"}
    BY <1>4
  <2> QED BY <2>1, <1>4, <1>6, <1>9, <1>10, <1>11, <1>12, EnterKnows
<1>14. CodeOK'
  <2>1. o.op \in {"block", "loop", "if"} /\ o.op = "if"
    BY <1>4
  <2> QED BY <2>1, <1>3, <1>4, <1>11, EnterWrites
<1> QED BY <1>13, <1>14

LEMMA BlockKeeps ==
    ASSUME Writing, CodeOK, NEW o, WellFormed(o), BlockExpr(o) \/ LoopExpr(o)
    PROVE  Writing' /\ CodeOK'
<1>1. PICK before : before = Len(typeStack)
  OBVIOUS
<1>2. PICK type : type = IF o.op = "loop" THEN NoType ELSE o.type
  OBVIOUS
<1>3. PICK st : st = IF o.op = "loop" THEN <<Placed(LabelIndex)>> ELSE << >>
  OBVIOUS
<1>4. o.op \in {"block", "loop"} /\ Step(o) /\ Enter(o, before, type, st)
  <2>1. CASE BlockExpr(o)
    BY <2>1, <1>1, <1>2, <1>3, ReadIs DEF BlockExpr
  <2>2. CASE LoopExpr(o)
    BY <2>2, <1>1, <1>2, <1>3, ReadIs DEF LoopExpr
  <2> QED BY <2>1, <2>2
<1>5. PICK ops : ops = valid.operands
  OBVIOUS
<1>6. valid' = Opened(valid, o, ops)
  BY <1>4, <1>5 DEF Step, After, Plain
<1>7. /\ ValidOK(valid) /\ valid.blocks # << >> /\ Top(valid).height \in Nat
      /\ Top(valid).height <= Len(valid.operands) /\ valid.operands \in Seq(Types)
      /\ typeStack \in Seq(Types) /\ Len(typeStack) \in Nat
  BY WritingIs, TopIs
<1>8. /\ ops \in Seq(Types) /\ Top(valid).height <= Len(ops)
      /\ \A x \in 1 .. Top(valid).height : ops[x] = valid.operands[x]
  BY <1>5, <1>7
<1>9. before \in Int /\ type \in BlockTypes
  BY <1>1, <1>2, <1>4, <1>7 DEF WellFormed, BlockTypes
<1>10. ~ignore => before = Len(ops) /\ SubSeq(typeStack, 1, before) = ops
  <2> SUFFICES ASSUME ~ignore PROVE SubSeq(typeStack, 1, Len(typeStack)) = typeStack /\ typeStack = valid.operands
    BY <1>1, <1>5
  <2>1. typeStack = valid.operands
    BY Reached
  <2>2. Dropped(0) = typeStack
    BY NothingDropped
  <2>3. Dropped(0) = SubSeq(typeStack, 1, Len(typeStack) - 0) /\ Len(typeStack) - 0 = Len(typeStack)
    BY <1>7, DroppedIs
  <2> QED BY <2>1, <2>2, <2>3
<1>11. o.op \in {"block", "loop", "if"}
  BY <1>4
<1>12. Writing'
  BY <1>4, <1>6, <1>8, <1>9, <1>10, <1>11, EnterKnows
<1>13. (o.op = "block" /\ st = << >>) \/ (o.op = "loop" /\ st = <<Placed(LabelIndex)>>)
  BY <1>3, <1>4
<1>14. CodeOK'
  BY <1>4, <1>9, <1>11, <1>13, EnterWrites
<1> QED BY <1>12, <1>14

(* what a block left is cut to what was there when it was entered *)
LEMMA CutBack ==
    ASSUME Writing, NEW n \in Nat, n > 1, n = Open, ~calls[n - 1].ignore
    PROVE  SubSeq(typeStack, 1, calls[n - 1].typeStackLengthBeforeBranches)
             = SubSeq(valid.operands, 1, Top(valid).height)
<1>1. /\ n - 1 \in 1 .. Len(calls) /\ n \in 1 .. Open /\ Len(valid.blocks) = n
      /\ typeStack \in Seq(Types) /\ ValidOK(valid) /\ valid.blocks # << >>
  BY WritingIs
<1>2. PICK h \in Nat : h = Top(valid).height
  BY <1>1, TopIs
<1>3. valid.blocks[n].height = h
  BY <1>1, <1>2, TopIs
<1>4. calls[n - 1].typeStackLengthBeforeBranches = h
  <2>1. calls[n - 1].typeStackLengthBeforeBranches = valid.blocks[n - 1 + 1].height
    BY <1>1 DEF Writing, StackOK
  <2>2. n - 1 + 1 = n
    OBVIOUS
  <2> QED BY <2>1, <2>2, <1>3
<1>5. ~DeadUpTo(n - 1)
  BY <1>1 DEF Writing, CallsOK
<1>6. h <= Len(typeStack) /\ \A x \in 1 .. h : typeStack[x] = valid.operands[x]
  BY <1>1, <1>3, <1>5 DEF Writing, StackOK
<1>7. valid.operands \in Seq(Types) /\ h <= Len(valid.operands)
  BY <1>1, <1>2, TopIs
<1>8. /\ SubSeq(typeStack, 1, h) \in Seq(Types) /\ Len(SubSeq(typeStack, 1, h)) = h
      /\ \A x \in 1 .. h : SubSeq(typeStack, 1, h)[x] = typeStack[x]
  BY <1>1, <1>6, PrefixIs
<1>9. /\ SubSeq(valid.operands, 1, h) \in Seq(Types) /\ Len(SubSeq(valid.operands, 1, h)) = h
      /\ \A x \in 1 .. h : SubSeq(valid.operands, 1, h)[x] = valid.operands[x]
  BY <1>7, PrefixIs
<1>10. PICK s \in Seq(Types) : s = SubSeq(typeStack, 1, h)
  BY <1>8
<1>11. PICK t \in Seq(Types) : t = SubSeq(valid.operands, 1, h)
  BY <1>9
<1>12. Len(s) = Len(t) /\ \A x \in 1 .. Len(s) : s[x] = t[x]
  BY <1>6, <1>8, <1>9, <1>10, <1>11
<1>13. s = t
  BY <1>12, EqualSequences
<1> QED BY <1>2, <1>4, <1>10, <1>11, <1>13

(* the innermost call belongs to the innermost block *)
LEMMA InnermostCall ==
    ASSUME Writing, NEW n \in Nat, n > 1, n = Open
    PROVE  /\ Last(calls) = calls[n - 1] /\ Len(calls) = n - 1 /\ n - 1 \in 1 .. Len(calls)
           /\ calls[n - 1] \in ActiveCalls
           /\ Top(valid) = valid.blocks[n] /\ Top(valid) \in OpenBlocks
           /\ calls[n - 1].op = Top(valid).op /\ calls[n - 1].blockType = Top(valid).type
<1>1. /\ Len(calls) = n - 1 /\ n - 1 \in 1 .. Len(calls) /\ Len(valid.blocks) = n
      /\ calls \in Seq(ActiveCalls) /\ ValidOK(valid) /\ valid.blocks # << >>
  BY WritingIs
<1>2. Last(calls) = calls[n - 1] /\ calls[n - 1] \in ActiveCalls
  BY <1>1 DEF Last
<1>3. Top(valid) = valid.blocks[n] /\ Top(valid) \in OpenBlocks
  BY <1>1, TopIs
<1>4. calls[n - 1].op = valid.blocks[n - 1 + 1].op /\ calls[n - 1].blockType = valid.blocks[n - 1 + 1].type
  BY <1>1 DEF Writing, CallsOK
<1>5. n - 1 + 1 = n
  OBVIOUS
<1> QED BY <1>1, <1>2, <1>3, <1>4, <1>5

LEMMA AppendsOne ==
    ASSUME NEW c, c \in Seq(ToSet(c)), NEW e
    PROVE  Append(c, e) = c \o <<e>>
<1>1. PICK S : S = ToSet(c) \cup {e}
  OBVIOUS
<1>2. c \in Seq(S) /\ e \in S
  BY <1>1
<1> QED BY <1>2, PushedIs

LEMMA ElseWritten ==
    ASSUME Writing, CodeOK, NEW o, WellFormed(o), Else(o)
    PROVE  Writing' /\ CodeOK'
<1>1. o.op = "else" /\ Step(o)
  BY ReadIs DEF Else
<1>2. Top(valid).op = "if"
  BY <1>1 DEF Step, Valid, Plain
<1>3. PICK n \in Nat : n = Open /\ n > 1
  <2>1. /\ Open \in Nat \ {0} /\ valid.blocks[1].op = "func" /\ ValidOK(valid) /\ valid.blocks # << >>
        /\ Len(valid.blocks) = Open
    BY WritingIs DEF Writing, CallsOK
  <2>2. Top(valid) = valid.blocks[Open]
    BY <2>1, TopIs
  <2>3. Open # 1
    BY <2>1, <2>2, <1>2
  <2> QED BY <2>1, <2>3
<1>4. /\ Last(calls) = calls[n - 1] /\ Len(calls) = n - 1 /\ n - 1 \in 1 .. Len(calls)
      /\ calls[n - 1] \in ActiveCalls /\ calls[n - 1].op = "if"
      /\ Top(valid) = valid.blocks[n] /\ Top(valid) \in OpenBlocks
  BY <1>2, <1>3, InnermostCall
<1>5. PICK c : c = calls[n - 1]
  OBVIOUS
<1>6. c.ignore \in BOOLEAN
  BY <1>4, <1>5 DEF ActiveCalls
<1>7. /\ calls' = [calls EXCEPT ![n - 1].op = "else"]
      /\ UNCHANGED <<function, labelStack, nextLabelIndex, stackDeclarations, done>>
      /\ c.ignore => UNCHANGED <<typeStack, ignore, code>>
      /\ ~c.ignore => /\ ignore' = FALSE
                      /\ typeStack' = SubSeq(typeStack, 1, c.typeStackLengthBeforeBranches)
                      /\ code' = Append(code, [s |-> "else", id |-> c.label])
  BY <1>4, <1>5, <1>6 DEF Else, ElseLength
<1>8. PICK b : b = [valid.blocks[n] EXCEPT !.op = "else", !.dead = FALSE]
  OBVIOUS
<1>9. b \in OpenBlocks /\ b.height = Top(valid).height
  BY <1>4, <1>8 DEF OpenBlocks, Kinds
<1>10. ValidOK(valid) /\ valid.blocks # << >> /\ Len(valid.blocks) = n /\ valid.blocks \in Seq(OpenBlocks)
  BY <1>3, WritingIs
<1>11. valid' = WithTop(valid, b)
  <2>1. valid' = [operands |-> SubSeq(valid.operands, 1, Top(valid).height),
                  blocks |-> [valid.blocks EXCEPT ![Len(valid.blocks)]
                                = [valid.blocks[Len(valid.blocks)] EXCEPT !.op = "else", !.dead = FALSE]]]
    BY <1>1 DEF Step, After, Plain
  <2> QED BY <2>1, <1>8, <1>10 DEF WithTop
<1>12. /\ ValidOK(valid') /\ Below(valid, valid')
       /\ valid'.operands = SubSeq(valid.operands, 1, Top(valid).height)
       /\ Len(valid'.blocks) = Len(valid.blocks)
       /\ \A k \in 1 .. Len(valid.blocks) - 1 : valid'.blocks[k] = valid.blocks[k]
       /\ valid'.blocks[Len(valid.blocks)] = b
  <2>1. PICK v : v = valid
    OBVIOUS
  <2>2. PICK w : w = valid'
    OBVIOUS
  <2>3. /\ ValidOK(v) /\ v.blocks # << >> /\ b \in OpenBlocks /\ b.height = Top(v).height
        /\ w = WithTop(v, b)
    BY <2>1, <2>2, <1>9, <1>10, <1>11
  <2>4. /\ ValidOK(w) /\ Below(v, w) /\ w.operands = SubSeq(v.operands, 1, Top(v).height)
        /\ Len(w.blocks) = Len(v.blocks)
        /\ \A k \in 1 .. Len(v.blocks) - 1 : w.blocks[k] = v.blocks[k]
        /\ w.blocks[Len(v.blocks)] = b
    BY <2>3, TopChangedOK
  <2> QED BY <2>1, <2>2, <2>4
<1>13. ElseOf(n)
  BY <1>7, <1>8, <1>10, <1>12 DEF ElseOf
<1>14. ~c.ignore => typeStack' = valid'.operands
  BY <1>3, <1>5, <1>7, <1>12, CutBack
<1>15. /\ calls[n - 1].ignore => UNCHANGED <<ignore, typeStack>>
       /\ ~calls[n - 1].ignore => ignore' = FALSE /\ typeStack' = valid'.operands
  BY <1>5, <1>7, <1>14
<1>16. Writing'
  <2>1. UNCHANGED <<function, labelStack, nextLabelIndex, done>>
    BY <1>7
  <2> QED BY <2>1, <1>3, <1>12, <1>13, <1>15, ElseKeeps
<1>17. \A i \in Nat : Unplaced(i)' <=> Unplaced(i)
  <2> TAKE i \in Nat
  <2>1. calls' = [calls EXCEPT ![n - 1] = [c EXCEPT !.op = "else"]] /\ calls \in Seq(ActiveCalls)
    BY <1>5, <1>7, WritingIs
  <2>2. Len(calls') = Len(calls) /\ \A k \in 1 .. Len(calls) : k # n - 1 => calls'[k] = calls[k]
    BY <2>1
  <2>3. calls'[n - 1] = [c EXCEPT !.op = "else"]
    BY <2>1, <1>4
  <2>4. calls'[n - 1].op = "else" /\ calls'[n - 1].ignore = c.ignore /\ calls'[n - 1].label = c.label
    BY <2>3, <1>4, <1>5 DEF ActiveCalls
  <2>5. \A k \in 1 .. Len(calls) :
          (~calls'[k].ignore /\ calls'[k].op # "loop" /\ calls'[k].label = i)
          <=> (~calls[k].ignore /\ calls[k].op # "loop" /\ calls[k].label = i)
    BY <2>2, <2>4, <1>4, <1>5
  <2>6. (\E k \in 1 .. Len(calls') : ~calls'[k].ignore /\ calls'[k].op # "loop" /\ calls'[k].label = i)
        <=> (\E k \in 1 .. Len(calls) : ~calls[k].ignore /\ calls[k].op # "loop" /\ calls[k].label = i)
    BY <2>2, <2>5
  <2>7. done' = done
    BY <1>7
  <2> QED BY <2>6, <2>7, Zenon DEF Unplaced
<1>18. nextLabelIndex \in Nat /\ nextLabelIndex' = nextLabelIndex /\ code \in Seq(ToSet(code))
  BY <1>7, WritingIs DEF CodeOK
<1>19. CodeOK'
  <2>1. CASE c.ignore
    <3>1. UNCHANGED <<code, stackDeclarations, nextLabelIndex>>
      BY <2>1, <1>7
    <3> QED BY <3>1, <1>17, <1>18, CodeSame
  <2>2. CASE ~c.ignore
    <3>1. PICK e : e = [s |-> "else", id |-> c.label]
      OBVIOUS
    <3>2. code' = code \o <<e>>
      BY <3>1, <2>2, <1>7, <1>18, AppendsOne
    <3>3. e.s = "else"
      BY <3>1
    <3>4. NoLabel(e) /\ \A d, m : StatementOK(e, d, m)
      BY <3>3, QuietIs
    <3>5. <<e>> \in Seq(ToSet(<<e>>)) /\ DOMAIN <<e>> = {1} /\ <<e>>[1] = e
      BY OneStatement
    <3>6. \A k \in DOMAIN <<e>> : NoLabel(<<e>>[k]) /\ StatementOK(<<e>>[k], stackDeclarations', nextLabelIndex')
      BY <3>4, <3>5
    <3>7. /\ stackDeclarations \subseteq stackDeclarations'
          /\ nextLabelIndex' \in Nat /\ nextLabelIndex <= nextLabelIndex'
          /\ \A i \in nextLabelIndex .. nextLabelIndex' - 1 : Unplaced(i)'
      BY <1>7, <1>18
    <3>8. \A i \in Nat : i < nextLabelIndex => (Unplaced(i)' <=> Unplaced(i))
      BY <1>17
    <3> QED BY <3>2, <3>5, <3>6, <3>7, <3>8, <1>18, CodeWritten
  <2> QED BY <2>1, <2>2, <1>6
<1> QED BY <1>16, <1>19

LEMMA ClosingIs ==
    ASSUME NEW c \in ActiveCalls, c.op # "loop"
    PROVE  \E p \in DOMAIN Closing(c) :
             /\ Closing(c)[p] = Placed(c.label)
             /\ \A k \in DOMAIN Closing(c) : k # p => NoLabel(Closing(c)[k])
             /\ \A k \in DOMAIN Closing(c) : \A d, m : StatementOK(Closing(c)[k], d, m)
             /\ Closing(c) \in Seq(ToSet(Closing(c)))
<1>1. PICK l : l = Placed(c.label)
  OBVIOUS
<1>2. PICK e : e = [s |-> "endif", id |-> c.label]
  OBVIOUS
<1>3. l.s = "label" /\ e.s = "endif"
  BY <1>1, <1>2 DEF Placed
<1>4. NoLabel(e) /\ \A d, m : StatementOK(e, d, m) /\ StatementOK(l, d, m)
  <2>1. Jumps(l) = {} /\ Jumps(e) = {}
    BY <1>3 DEF Jumps
  <2> QED BY <2>1, <1>3 DEF NoLabel, StatementOK
<1>5. c.op \in {"block", "if", "else"}
  BY DEF ActiveCalls, Kinds
<1>6. PICK st : st = Closing(c)
  OBVIOUS
<1>7. CASE c.op = "block"
  <2>1. st = <<l>>
    BY <1>1, <1>6, <1>7 DEF Closing
  <2>2. st \in Seq(ToSet(st)) /\ DOMAIN st = {1} /\ st[1] = l
    BY <2>1, OneStatement
  <2>3. /\ 1 \in DOMAIN st /\ st[1] = Placed(c.label)
        /\ \A k \in DOMAIN st : k # 1 => NoLabel(st[k])
        /\ \A k \in DOMAIN st : \A d, m : StatementOK(st[k], d, m)
    BY <2>2, <1>1, <1>4
  <2> QED BY <2>2, <2>3, <1>6
<1>8. CASE c.op \in {"if", "else"}
  <2>1. st = <<e, l>>
    BY <1>1, <1>2, <1>6, <1>8 DEF Closing
  <2>2. st \in Seq({e, l}) /\ DOMAIN st = {1, 2} /\ st[1] = e /\ st[2] = l
    BY <2>1
  <2>3. st \in Seq(ToSet(st))
    BY <2>2, OfElements
  <2>4. /\ 2 \in DOMAIN st /\ st[2] = Placed(c.label)
        /\ \A k \in DOMAIN st : k # 2 => NoLabel(st[k])
        /\ \A k \in DOMAIN st : \A d, m : StatementOK(st[k], d, m)
    BY <2>2, <1>1, <1>4
  <2> QED BY <2>3, <2>4, <1>6
<1> QED BY <1>5, <1>7, <1>8

LEMMA UnplacedLeft ==
    ASSUME Writing, NEW n \in Nat, n > 1, n = Open, calls' = Front(calls), done' = done,
           NEW c, c = calls[n - 1], NEW i \in Nat
    PROVE  Unplaced(i) <=> Unplaced(i)' \/ (~c.ignore /\ c.op # "loop" /\ c.label = i)
<1>1. Len(calls) = n - 1 /\ n - 1 \in 1 .. Len(calls) /\ calls \in Seq(ActiveCalls) /\ ~done
  BY WritingIs DEF Writing
<1>2. Len(calls') = n - 2 /\ \A k \in 1 .. n - 2 : calls'[k] = calls[k]
  <2>1. calls' = SubSeq(calls, 1, n - 2)
    BY <1>1 DEF Front
  <2>2. n - 2 \in Int /\ n - 2 <= Len(calls) /\ n - 2 >= 0
    BY <1>1
  <2> QED BY <2>1, <2>2, <1>1, PrefixIs
<1>3. \A k : k \in 1 .. n - 1 <=> k \in 1 .. n - 2 \/ k = n - 1
  OBVIOUS
<1>4. (\E k \in 1 .. Len(calls) : ~calls[k].ignore /\ calls[k].op # "loop" /\ calls[k].label = i)
      <=> \/ \E k \in 1 .. Len(calls') : ~calls'[k].ignore /\ calls'[k].op # "loop" /\ calls'[k].label = i
          \/ ~c.ignore /\ c.op # "loop" /\ c.label = i
  BY <1>1, <1>2, <1>3
<1> QED BY <1>1, <1>4, Zenon DEF Unplaced

(* the label of the innermost block is no other block's *)
LEMMA LabelIsItsOwn ==
    ASSUME Writing, NEW n \in Nat, n > 1, n = Open, ~calls[n - 1].ignore,
           NEW k \in 1 .. Len(calls), ~calls[k].ignore, k # n - 1
    PROVE  calls[k].label # calls[n - 1].label
<1>1. Len(calls) = n - 1 /\ n - 1 \in 1 .. Len(calls)
  BY WritingIs
<1>2. k + 1 \in 1 .. Len(labelStack) /\ calls[k].label = labelStack[k + 1].index /\ calls[k].label \in Nat
  BY AliveLabel
<1>3. /\ n - 1 + 1 \in 1 .. Len(labelStack) /\ calls[n - 1].label = labelStack[n - 1 + 1].index
      /\ calls[n - 1].label \in Nat
  BY <1>1, AliveLabel
<1>4. k + 1 < n - 1 + 1
  BY <1>1
<1>5. labelStack[k + 1].index < labelStack[n - 1 + 1].index
  BY <1>2, <1>3, <1>4 DEF Writing, LabelsOK
<1> QED BY <1>2, <1>3, <1>5

LEMMA EndWritten ==
    ASSUME Writing, CodeOK, NEW o, WellFormed(o), End(o)
    PROVE  Writing' /\ CodeOK'
<1>1. o.op = "end" /\ Step(o) /\ calls # << >>
  BY ReadIs DEF End
<1>2. PICK n \in Nat : n = Open /\ n > 1
  <2>1. calls \in Seq(ActiveCalls) /\ Open = Len(calls) + 1
    BY WritingIs
  <2>2. Len(calls) \in Nat \ {0}
    BY <2>1, <1>1
  <2> QED BY <2>1, <2>2
<1>3. /\ Last(calls) = calls[n - 1] /\ Len(calls) = n - 1 /\ n - 1 \in 1 .. Len(calls)
      /\ calls[n - 1] \in ActiveCalls
      /\ Top(valid) = valid.blocks[n] /\ Top(valid) \in OpenBlocks
      /\ calls[n - 1].blockType = Top(valid).type
  BY <1>2, InnermostCall
<1>4. PICK c \in ActiveCalls : c = calls[n - 1]
  BY <1>3
<1>5. c.ignore \in BOOLEAN /\ c.label \in Nat
  BY DEF ActiveCalls
<1>6. /\ calls' = Front(calls)
      /\ UNCHANGED <<function, nextLabelIndex, stackDeclarations, done>>
      /\ c.ignore => UNCHANGED <<typeStack, labelStack, ignore, code>>
      /\ ~c.ignore => /\ ignore' = FALSE /\ code' = code \o Closing(c) /\ labelStack' = Front(labelStack)
                      /\ typeStack' = SubSeq(typeStack, 1, c.typeStackLengthBeforeBranches)
                                      \o Results(c.blockType)
  BY <1>3, <1>4, <1>5 DEF End, Skipped, Popped
<1>7. ValidOK(valid) /\ valid.blocks # << >> /\ Len(valid.blocks) = n
  BY <1>2, WritingIs
<1>8. PICK v : v = valid
  OBVIOUS
<1>9. PICK w : w = valid'
  OBVIOUS
<1>10. ValidOK(v) /\ v.blocks # << >> /\ w = Closed(v)
  BY <1>1, <1>7, <1>8, <1>9 DEF Step, After, Plain, Closed
<1>11. /\ ValidOK(w) /\ Below(v, w)
       /\ w.operands = SubSeq(v.operands, 1, Top(v).height) \o Results(Top(v).type)
       /\ Len(w.blocks) = Len(v.blocks) - 1
       /\ \A k \in 1 .. Len(v.blocks) - 1 : w.blocks[k] = v.blocks[k]
  BY <1>10, ClosedOK
<1>12. ValidOK(valid') /\ Below(valid, valid')
  BY <1>8, <1>9, <1>11
<1>13. EndOf(n)
  BY <1>6, <1>7, <1>8, <1>9, <1>11 DEF EndOf
<1>14. ~c.ignore => typeStack' = valid'.operands
  <2> SUFFICES ASSUME ~c.ignore PROVE typeStack' = valid'.operands
    OBVIOUS
  <2>1. SubSeq(typeStack, 1, c.typeStackLengthBeforeBranches) = SubSeq(valid.operands, 1, Top(valid).height)
    BY <1>2, <1>4, CutBack
  <2>2. Results(c.blockType) = Results(Top(valid).type)
    BY <1>3, <1>4
  <2> QED BY <2>1, <2>2, <1>6, <1>8, <1>9, <1>11
<1>15. Writing'
  <2>1. UNCHANGED <<function, nextLabelIndex, done>>
    BY <1>6
  <2>2. calls[n - 1].ignore => UNCHANGED <<ignore, typeStack, labelStack>>
    BY <1>4, <1>6
  <2>3. ~calls[n - 1].ignore => /\ ignore' = FALSE /\ typeStack' = valid'.operands
                                /\ labelStack' = Front(labelStack)
    BY <1>4, <1>6, <1>14
  <2> QED BY <2>1, <2>2, <2>3, <1>2, <1>12, <1>13, EndKeeps
<1>16. /\ nextLabelIndex \in Nat /\ nextLabelIndex' = nextLabelIndex /\ code \in Seq(ToSet(code)) /\ done' = done
       /\ stackDeclarations' = stackDeclarations
  BY <1>6, WritingIs DEF CodeOK
<1>17. ASSUME NEW i \in Nat
       PROVE  Unplaced(i) <=> Unplaced(i)' \/ (~c.ignore /\ c.op # "loop" /\ c.label = i)
  BY <1>2, <1>4, <1>6, UnplacedLeft
<1>18. CASE c.ignore
  <2>1. \A i \in Nat : Unplaced(i)' <=> Unplaced(i)
    BY <1>17, <1>18
  <2>2. UNCHANGED <<code, stackDeclarations, nextLabelIndex>>
    BY <1>6, <1>18
  <2>3. CodeOK'
    BY <2>1, <2>2, <1>16, CodeSame
  <2> QED BY <2>3, <1>15
<1>19. CASE ~c.ignore /\ c.op = "loop"
  <2>1. \A i \in Nat : Unplaced(i)' <=> Unplaced(i)
    BY <1>17, <1>19
  <2>2. code' = code
    <3>1. Closing(c) = << >>
      BY <1>19 DEF Closing
    <3>2. code \o << >> = code
      BY <1>16
    <3> QED BY <3>1, <3>2, <1>6, <1>19
  <2>3. CodeOK'
    BY <2>1, <2>2, <1>16, CodeSame
  <2> QED BY <2>3, <1>15
<1>20. CASE ~c.ignore /\ c.op # "loop"
  <2>1. PICK l \in Nat : l = c.label
    BY <1>5
  <2>2. PICK st : st = Closing(c)
    OBVIOUS
  <2>3. PICK p \in DOMAIN st :
          /\ st[p] = Placed(l)
          /\ \A k \in DOMAIN st : k # p => NoLabel(st[k])
          /\ \A k \in DOMAIN st : \A d, m : StatementOK(st[k], d, m)
          /\ st \in Seq(ToSet(st))
    BY <2>1, <2>2, <1>20, ClosingIs
  <2>4. code' = code \o st
    BY <2>2, <1>6, <1>20
  <2>5. l # 0 /\ l < nextLabelIndex
    BY <2>1, <1>3, <1>4, <1>20, AliveLabel
  <2>6. Unplaced(l)
    BY <2>1, <1>17, <1>20
  <2>7. ~Unplaced(l)'
    <3>1. calls \in Seq(ActiveCalls) /\ Len(calls') = n - 2 /\ \A k \in 1 .. n - 2 : calls'[k] = calls[k]
      <4>1. calls' = SubSeq(calls, 1, n - 2) /\ calls \in Seq(ActiveCalls)
        BY <1>3, <1>6, WritingIs DEF Front
      <4>2. n - 2 \in Int /\ n - 2 <= Len(calls) /\ n - 2 >= 0
        BY <1>3
      <4> QED BY <4>1, <4>2, PrefixIs
    <3>2. ASSUME NEW k \in 1 .. Len(calls'), ~calls'[k].ignore, calls'[k].label = l PROVE FALSE
      <4>1. k \in 1 .. Len(calls) /\ k # n - 1 /\ calls'[k] = calls[k]
        BY <3>1, <1>3
      <4>2. calls[k].label # calls[n - 1].label
        BY <4>1, <3>2, <1>2, <1>4, <1>20, LabelIsItsOwn
      <4> QED BY <4>1, <4>2, <3>2, <2>1, <1>4
    <3> QED BY <3>2, <2>5 DEF Unplaced
  <2>8. \A i \in Nat : i < nextLabelIndex /\ i # l => (Unplaced(i)' <=> Unplaced(i))
    BY <2>1, <1>17
  <2>9. \A k \in DOMAIN st : StatementOK(st[k], stackDeclarations', nextLabelIndex')
    BY <2>3
  <2>10. /\ stackDeclarations \subseteq stackDeclarations' /\ nextLabelIndex' \in Nat
         /\ nextLabelIndex <= nextLabelIndex' /\ l < nextLabelIndex'
         /\ \A i \in nextLabelIndex .. nextLabelIndex' - 1 : i = l
    BY <2>5, <1>16
  <2>11. CodeOK'
    BY <2>3, <2>4, <2>6, <2>7, <2>8, <2>9, <2>10, <1>16, CodeLabelled
  <2> QED BY <2>11, <1>15
<1> QED BY <1>5, <1>18, <1>19, <1>20

LEMMA CatTwice ==
    ASSUME NEW c, c \in Seq(ToSet(c)), NEW s, NEW t, t \in Seq(ToSet(t))
    PROVE  /\ (c \o <<s>>) \o t = c \o (<<s>> \o t)
           /\ <<s>> \o t \in Seq(ToSet(<<s>> \o t))
           /\ DOMAIN (<<s>> \o t) = 1 .. 1 + Len(t) /\ (<<s>> \o t)[1] = s
           /\ \A x \in 2 .. 1 + Len(t) : (<<s>> \o t)[x] = t[x - 1]
           /\ Len(t) \in Nat /\ DOMAIN t = 1 .. Len(t)
<1>1. PICK S : S = ToSet(c) \cup {s} \cup ToSet(t)
  OBVIOUS
<1>2. c \in Seq(S) /\ <<s>> \in Seq(S) /\ t \in Seq(S) /\ Len(<<s>>) = 1 /\ <<s>>[1] = s
  BY <1>1
<1>3. PICK one \in Seq(S) : one = <<s>>
  BY <1>2
<1>4. Len(one) = 1 /\ one[1] = s /\ Len(c) \in Nat /\ Len(t) \in Nat
  BY <1>2, <1>3
<1>5. /\ one \o t \in Seq(S) /\ Len(one \o t) = 1 + Len(t) /\ (one \o t)[1] = s
      /\ \A x \in 2 .. 1 + Len(t) : (one \o t)[x] = t[x - 1]
  <2>1. /\ one \o t \in Seq(S) /\ Len(one \o t) = Len(one) + Len(t)
        /\ \A x \in 1 .. Len(one) : (one \o t)[x] = one[x]
        /\ \A x \in Len(one) + 1 .. Len(one) + Len(t) : (one \o t)[x] = t[x - Len(one)]
    BY <1>2, <1>3, CatIs
  <2> QED BY <2>1, <1>4
<1>6. PICK rest \in Seq(S) : rest = one \o t
  BY <1>5
<1>7. /\ c \o one \in Seq(S) /\ Len(c \o one) = Len(c) + 1
      /\ \A x \in 1 .. Len(c) : (c \o one)[x] = c[x]
      /\ (c \o one)[Len(c) + 1] = s
  <2>1. /\ c \o one \in Seq(S) /\ Len(c \o one) = Len(c) + Len(one)
        /\ \A x \in 1 .. Len(c) : (c \o one)[x] = c[x]
        /\ \A x \in Len(c) + 1 .. Len(c) + Len(one) : (c \o one)[x] = one[x - Len(c)]
    BY <1>2, <1>3, CatIs
  <2>2. Len(c) + 1 \in Len(c) + 1 .. Len(c) + 1 /\ Len(c) + 1 - Len(c) = 1
    BY <1>4
  <2> QED BY <2>1, <2>2, <1>4
<1>8. PICK first \in Seq(S) : first = c \o one
  BY <1>7
<1>9. /\ first \o t \in Seq(S) /\ Len(first \o t) = Len(first) + Len(t)
      /\ \A x \in 1 .. Len(first) : (first \o t)[x] = first[x]
      /\ \A x \in Len(first) + 1 .. Len(first) + Len(t) : (first \o t)[x] = t[x - Len(first)]
  BY <1>2, CatIs
<1>10. /\ c \o rest \in Seq(S) /\ Len(c \o rest) = Len(c) + Len(rest)
       /\ \A x \in 1 .. Len(c) : (c \o rest)[x] = c[x]
       /\ \A x \in Len(c) + 1 .. Len(c) + Len(rest) : (c \o rest)[x] = rest[x - Len(c)]
  BY <1>2, CatIs
<1>11. PICK l \in Seq(S) : l = first \o t
  BY <1>9
<1>12. PICK r \in Seq(S) : r = c \o rest
  BY <1>10
<1>13a. Len(first) = Len(c) + 1
  BY <1>7, <1>8
<1>13b. Len(rest) = 1 + Len(t)
  BY <1>5, <1>6
<1>13c. Len(l) = Len(first) + Len(t) /\ Len(r) = Len(c) + Len(rest)
  BY <1>9, <1>10, <1>11, <1>12
<1>13. Len(l) = Len(c) + 1 + Len(t) /\ Len(r) = Len(c) + 1 + Len(t)
  BY <1>4, <1>13a, <1>13b, <1>13c
<1>14. \A x \in 1 .. Len(l) : l[x] = r[x]
  <2> TAKE x \in 1 .. Len(l)
  <2>1. CASE x \in 1 .. Len(c)
    <3>1. x \in 1 .. Len(first)
      BY <2>1, <1>4, <1>7, <1>8
    <3>2. l[x] = first[x]
      BY <3>1, <1>9, <1>11
    <3>3. first[x] = c[x] /\ r[x] = c[x]
      BY <2>1, <1>7, <1>8, <1>10, <1>12
    <3> QED BY <3>2, <3>3
  <2>2. CASE x = Len(c) + 1
    <3>1. x \in 1 .. Len(first) /\ x \in Len(c) + 1 .. Len(c) + Len(rest) /\ x - Len(c) = 1
      BY <2>2, <1>4, <1>13a, <1>13b
    <3>2. l[x] = first[x] /\ r[x] = rest[x - Len(c)]
      BY <3>1, <1>9, <1>10, <1>11, <1>12
    <3> QED BY <3>1, <3>2, <2>2, <1>5, <1>6, <1>7, <1>8
  <2>3. CASE x \in Len(c) + 2 .. Len(c) + 1 + Len(t)
    <3>1. /\ x \in Len(first) + 1 .. Len(first) + Len(t) /\ x - Len(first) = x - Len(c) - 1
          /\ x \in Len(c) + 1 .. Len(c) + Len(rest) /\ x - Len(c) \in 2 .. 1 + Len(t)
      BY <2>3, <1>4, <1>13a, <1>13b
    <3>2. l[x] = t[x - Len(first)] /\ r[x] = rest[x - Len(c)]
      BY <3>1, <1>9, <1>10, <1>11, <1>12
    <3>3. rest[x - Len(c)] = t[x - Len(c) - 1]
      <4>1. \A y \in 2 .. 1 + Len(t) : rest[y] = t[y - 1]
        BY <1>5, <1>6
      <4> QED BY <4>1, <3>1
    <3> QED BY <3>1, <3>2, <3>3
  <2> QED BY <2>1, <2>2, <2>3, <1>4, <1>13
<1>15. l = r
  BY <1>13, <1>14, EqualSequences
<1>16. rest \in Seq(ToSet(rest))
  BY OfElements
<1>17. DOMAIN rest = 1 .. 1 + Len(t) /\ DOMAIN t = 1 .. Len(t)
  BY <1>2, <1>5, <1>6
<1> QED BY <1>3, <1>4, <1>5, <1>6, <1>8, <1>11, <1>12, <1>15, <1>16, <1>17

LEMMA FunctionEndWritten ==
    ASSUME Writing, CodeOK, NEW o, WellFormed(o), FunctionEnd(o)
    PROVE  Typed' /\ CodeOK' /\ done'
<1>1. o.op = "end" /\ Step(o) /\ calls = << >> /\ ~done
  BY ReadIs DEF FunctionEnd
<1>2. /\ done' = TRUE /\ UNCHANGED <<function, labelStack, nextLabelIndex, ignore, calls>>
      /\ stackDeclarations' = stackDeclarations \cup (IF ReturnsResult THEN {<<0, function.result>>} ELSE {})
      /\ typeStack' = IF ReturnsResult THEN <<function.result>> ELSE typeStack
  BY DEF FunctionEnd
<1>3. PICK t : t = IF ReturnsResult THEN <<[s |-> "return", from |-> StackName(0, function.result)]>> ELSE << >>
  OBVIOUS
<1>4. labelStack[1].index = 0
  BY DEF Writing, LabelsOK
<1>5. code' = (code \o <<Placed(0)>>) \o t
  BY <1>3, <1>4 DEF FunctionEnd
<1>6. t \in Seq(ToSet(t)) /\ \A k \in DOMAIN t : NoLabel(t[k]) /\ \A d, m : StatementOK(t[k], d, m)
  <2>1. CASE ~ReturnsResult
    <3>1. t = << >>
      BY <2>1, <1>3
    <3> QED BY <3>1
  <2>2. CASE ReturnsResult
    <3>1. PICK from : from = StackName(0, function.result)
      OBVIOUS
    <3>2. PICK s : s = [s |-> "return", from |-> from]
      OBVIOUS
    <3>3. t = <<s>> /\ s.s = "return"
      BY <3>1, <3>2, <2>2, <1>3
    <3>4. NoLabel(s) /\ \A d, m : StatementOK(s, d, m)
      BY <3>3, QuietIs
    <3>5. t \in Seq(ToSet(t)) /\ DOMAIN t = {1} /\ t[1] = s
      BY <3>3, OneStatement
    <3> QED BY <3>4, <3>5
  <2> QED BY <2>1, <2>2
<1>7. code \in Seq(ToSet(code)) /\ nextLabelIndex \in Nat \ {0} /\ nextLabelIndex' = nextLabelIndex
  BY <1>2, WritingIs DEF CodeOK
<1>8. PICK label : label = Placed(0)
  OBVIOUS
<1>9. PICK st : st = <<label>> \o t
  OBVIOUS
<1>10. /\ code' = code \o st /\ st \in Seq(ToSet(st)) /\ DOMAIN st = 1 .. 1 + Len(t) /\ st[1] = label
       /\ \A x \in 2 .. 1 + Len(t) : st[x] = t[x - 1]
       /\ Len(t) \in Nat /\ DOMAIN t = 1 .. Len(t)
  BY <1>5, <1>6, <1>7, <1>8, <1>9, CatTwice
<1>11. 1 \in DOMAIN st /\ st[1] = Placed(0)
  BY <1>8, <1>10
<1>12. \A d, m : StatementOK(label, d, m)
  BY <1>8 DEF Placed, StatementOK, Jumps
<1>13. \A k \in DOMAIN st : (k # 1 => NoLabel(st[k])) /\ \A d, m : StatementOK(st[k], d, m)
  <2> TAKE k \in DOMAIN st
  <2>1. CASE k = 1
    BY <2>1, <1>10, <1>12
  <2>2. CASE k # 1
    <3>1. k \in 2 .. 1 + Len(t) /\ k - 1 \in DOMAIN t
      BY <2>2, <1>10
    <3> QED BY <3>1, <1>6, <1>10
  <2> QED BY <2>1, <2>2
<1>14. \A i \in Nat : ~Unplaced(i)' /\ (Unplaced(i) <=> i = 0)
  <2>1. Len(calls) = 0
    BY <1>1
  <2> QED BY <2>1, <1>1, <1>2 DEF Unplaced
<1>15. CodeOK'
  <2>1. \A k \in DOMAIN st : StatementOK(st[k], stackDeclarations', nextLabelIndex')
    BY <1>13
  <2>2. \A k \in DOMAIN st : k # 1 => NoLabel(st[k])
    BY <1>13
  <2>3. /\ stackDeclarations \subseteq stackDeclarations' /\ nextLabelIndex \in Nat /\ nextLabelIndex' \in Nat
        /\ nextLabelIndex <= nextLabelIndex' /\ 0 < nextLabelIndex'
        /\ \A i \in nextLabelIndex .. nextLabelIndex' - 1 : i = 0
    BY <1>2, <1>7
  <2>4. Unplaced(0) /\ ~Unplaced(0)'
    <3>1. 0 \in Nat
      OBVIOUS
    <3> QED BY <1>1, <1>2 DEF Unplaced
  <2>5. \A i \in Nat : i < nextLabelIndex /\ i # 0 => (Unplaced(i)' <=> Unplaced(i))
    BY <1>14
  <2> QED BY <2>1, <2>2, <2>3, <2>4, <2>5, <1>10, <1>11, CodeLabelled
<1>16. ValidOK(valid')
  <2>1. PICK v : v = valid
    OBVIOUS
  <2>2. PICK w : w = valid'
    OBVIOUS
  <2>3. ValidOK(v) /\ v.blocks # << >> /\ w = Closed(v)
    BY <2>1, <2>2, <1>1, WritingIs DEF Step, After, Plain, Closed
  <2>4. ValidOK(w)
    BY <2>3, ClosedOK
  <2> QED BY <2>2, <2>4
<1>17. typeStack' \in Seq(Types)
  <2>1. CASE ReturnsResult
    <3>1. function.result \in Types
      BY <2>1, EmitterAssumption DEF Writing, Typed, ReturnsResult
    <3> QED BY <3>1, <2>1, <1>2
  <2>2. CASE ~ReturnsResult
    BY <2>2, <1>2, WritingIs
  <2> QED BY <2>1, <2>2
<1>18. Typed'
  BY <1>2, <1>16, <1>17 DEF Writing, Typed
<1> QED BY <1>2, <1>15, <1>18

-----------------------------------------------------------------------------
(* The invariant. *)

LEMMA FirstIs ==
    ASSUME Init
    PROVE  EmitterInv
<1>1. /\ function \in Functions /\ valid = Function(function.result)
      /\ typeStack = << >> /\ stackDeclarations = {} /\ nextLabelIndex = 1
      /\ labelStack = <<[index |-> 0, typeStackLength |-> 0, type |-> function.result]>>
      /\ ignore = FALSE /\ calls = << >> /\ code = << >> /\ done = FALSE
  BY DEF Init
<1>2. PICK result \in BlockTypes : result = function.result
  BY <1>1, EmitterAssumption DEF BlockTypes
<1>3. PICK b : b = [op |-> "func", type |-> result, height |-> 0, dead |-> FALSE]
  OBVIOUS
<1>4. b \in OpenBlocks /\ b.height = 0 /\ b.op = "func" /\ b.dead = FALSE
  BY <1>3 DEF OpenBlocks, Kinds
<1>5. valid = [operands |-> << >>, blocks |-> <<b>>]
  BY <1>1, <1>2, <1>3 DEF Function
<1>6. valid.operands = << >> /\ valid.blocks = <<b>> /\ Len(valid.blocks) = 1 /\ valid.blocks[1] = b
  BY <1>5
<1>7. ValidOK(valid)
  <2>1. valid = [operands |-> valid.operands, blocks |-> valid.blocks]
    BY <1>5, <1>6
  <2>2. valid.operands \in Seq(Types) /\ valid.blocks \in Seq(OpenBlocks) /\ Len(valid.operands) = 0
    BY <1>4, <1>6
  <2>3. \A k \in 1 .. Len(valid.blocks) : valid.blocks[k].height = 0
    BY <1>4, <1>6
  <2> QED BY <2>1, <2>2, <2>3 DEF ValidOK
<1>8. PICK label : label = [index |-> 0, typeStackLength |-> 0, type |-> result]
  OBVIOUS
<1>9. label \in Labels /\ label.index = 0 /\ label.typeStackLength = 0
  BY <1>8 DEF Labels
<1>10. labelStack = <<label>> /\ Len(labelStack) = 1 /\ labelStack[1] = label /\ labelStack \in Seq(Labels)
  BY <1>1, <1>2, <1>8, <1>9
<1>11. Len(calls) = 0 /\ calls \in Seq(ActiveCalls)
  BY <1>1
<1>12. Typed
  <2>1. typeStack \in Seq(Types) /\ stackDeclarations \subseteq Nat \X Types /\ nextLabelIndex \in Nat \ {0}
    BY <1>1
  <2>2. \A k \in 1 .. Len(labelStack) : labelStack[k].index < nextLabelIndex
    BY <1>1, <1>9, <1>10
  <2>3. ignore \in BOOLEAN /\ done \in BOOLEAN
    BY <1>1
  <2> QED BY <1>1, <1>7, <1>10, <1>11, <2>1, <2>2, <2>3 DEF Typed
<1>13. CallsOK
  BY <1>1, <1>4, <1>6, <1>11 DEF CallsOK, Open, DeadUpTo
<1>14. LabelsOK
  BY <1>9, <1>10, <1>11 DEF LabelsOK
<1>15. StackOK
  BY <1>1, <1>4, <1>6, <1>9, <1>10, <1>11 DEF StackOK, Open
<1>16. CodeOK
  <2>1. Unplaced(0)
    BY <1>1 DEF Unplaced
  <2>2. \A i : Places(i) = {}
    BY <1>1 DEF Places
  <2>3. code \in Seq(ToSet(code)) /\ DOMAIN code = {}
    BY <1>1
  <2>4. \A i \in 0 .. nextLabelIndex - 1 : i = 0
    BY <1>1
  <2> QED BY <2>1, <2>2, <2>3, <2>4 DEF CodeOK
<1> QED BY <1>12, <1>13, <1>14, <1>15, <1>16 DEF EmitterInv

LEMMA OpcodeKeeps ==
    ASSUME EmitterInv, TableSizeUnused, NEW o \in function.opcodes, InRange(o), FunctionCode(o)
    PROVE  EmitterInv'
<1>1. WellFormed(o) /\ o.op # "table.size"
  BY EmitterAssumption DEF EmitterInv, Typed, TableSizeUnused
<1>2. ~done
  BY DEF FunctionCode, Read, Nop, ConstExpr, LocalGetExpr, LocalAssignmentExpr, GlobalGetExpr,
         GlobalSetExpr, UnaryExpr, BinaryExpr, SelectExpr, DropExpr, LoadExpr, StoreExpr,
         MemorySizeExpr, MemoryGrowExpr, MemoryBulkExpr, DataDrop, TableExpr, CallExpr,
         CallIndirectExpr, BranchExpr, BranchIfExpr, BranchTableExpr, ReturnExpr, Unreachable,
         IfExpr, BlockExpr, LoopExpr, Else, End, FunctionEnd
<1>3. Writing /\ CodeOK
  BY <1>2 DEF EmitterInv, Writing
<1>4. Writing' /\ CodeOK' => EmitterInv'
  BY DEF Writing, EmitterInv
<1>5. CASE Nop(o) \/ TableExpr(o)
  <2>1. o.op \in {"nop", "elem.drop"} /\ Step(o) /\ UNCHANGED <<function, writer, done>>
    BY <1>1, <1>5, ReadIs DEF Nop, TableExpr
  <2> QED BY <2>1, <1>3, <1>4, NothingWrittenKeeps
<1>6. CASE \/ ConstExpr(o) \/ LocalGetExpr(o) \/ GlobalGetExpr(o) \/ UnaryExpr(o) \/ BinaryExpr(o)
           \/ LoadExpr(o) \/ MemorySizeExpr(o)
  BY <1>1, <1>3, <1>4, <1>6, ResultsKept
<1>7. CASE LocalAssignmentExpr(o)
  BY <1>1, <1>3, <1>4, <1>7, LocalAssignmentKeeps
<1>8. CASE GlobalSetExpr(o) \/ StoreExpr(o) \/ MemoryBulkExpr(o) \/ DataDrop(o)
  BY <1>1, <1>3, <1>4, <1>8, EffectsKept
<1>9. CASE SelectExpr(o)
  BY <1>1, <1>3, <1>4, <1>9, SelectKeeps
<1>10. CASE DropExpr(o)
  BY <1>1, <1>3, <1>4, <1>10, DropKeeps
<1>11. CASE MemoryGrowExpr(o)
  BY <1>1, <1>3, <1>4, <1>11, MemoryGrowKeeps
<1>12. CASE BranchExpr(o)
  <2>1. o.op = "br" => o.depth < Open
    BY DEF InRange
  <2> QED BY <2>1, <1>1, <1>3, <1>4, <1>12, BranchExprKeeps
<1>13. CASE BranchIfExpr(o)
  <2>1. o.op = "br_if" => o.depth < Open
    BY DEF InRange
  <2> QED BY <2>1, <1>1, <1>3, <1>4, <1>13, BranchIfKeeps
<1>14. CASE BranchTableExpr(o)
  <2>1. \A d \in Targets(o) : d < Open
    BY <1>14 DEF InRange, BranchTableExpr
  <2> QED BY <2>1, <1>1, <1>3, <1>4, <1>14, BranchTableKeeps
<1>15. CASE ReturnExpr(o)
  BY <1>1, <1>3, <1>4, <1>15, ReturnExprKeeps
<1>16. CASE Unreachable(o)
  BY <1>1, <1>3, <1>4, <1>16, UnreachableKeeps
<1>17. CASE IfExpr(o)
  BY <1>1, <1>3, <1>4, <1>17, IfKeeps
<1>18. CASE BlockExpr(o) \/ LoopExpr(o)
  BY <1>1, <1>3, <1>4, <1>18, BlockKeeps
<1>19. CASE Else(o)
  BY <1>1, <1>3, <1>4, <1>19, ElseWritten
<1>20. CASE End(o)
  BY <1>1, <1>3, <1>4, <1>20, EndWritten
<1>21. CASE FunctionEnd(o)
  <2>1. Typed' /\ CodeOK' /\ done'
    BY <1>1, <1>3, <1>21, FunctionEndWritten
  <2> QED BY <2>1 DEF EmitterInv
<1>22. CASE CallExpr(o) \/ CallIndirectExpr(o)
  BY <1>1, <1>3, <1>4, <1>22, CallsKept
<1> QED BY <1>5, <1>6, <1>7, <1>8, <1>9, <1>10, <1>11, <1>12, <1>13, <1>14, <1>15, <1>16, <1>17,
           <1>18, <1>19, <1>20, <1>21, <1>22 DEF FunctionCode

LEMMA StutterKeeps ==
    ASSUME EmitterInv, UNCHANGED vars
    PROVE  EmitterInv'
<1>1. UNCHANGED <<function, valid, typeStack, stackDeclarations, labelStack, nextLabelIndex, ignore,
                  calls, code, done>>
  BY DEF vars, writer
<1>2. Typed'
  BY <1>1 DEF EmitterInv, Typed
<1>3. Open' = Open /\ \A k : DeadUpTo(k)' <=> DeadUpTo(k)
  BY <1>1 DEF Open, DeadUpTo
<1>4. ~done => CallsOK' /\ LabelsOK' /\ StackOK'
  BY <1>1, <1>3 DEF EmitterInv, CallsOK, LabelsOK, StackOK
<1>5. \A i \in Nat : Unplaced(i)' <=> Unplaced(i)
  BY <1>1, UnplacedSame
<1>6. nextLabelIndex \in Nat
  BY DEF EmitterInv, Typed
<1>7. CodeOK'
  BY <1>1, <1>5, <1>6, CodeSame DEF EmitterInv
<1> QED BY <1>1, <1>2, <1>4, <1>7 DEF EmitterInv

(***************************************************************************)
(* The invariant of the writer of a function's body, for every function    *)
(* that does not read the size of a table: its type stack is the operand   *)
(* stack that validation computes, one label and one active call belong to *)
(* every open block that was entered alive, and every label that is given  *)
(* out is placed once or will be (wasmCWriteFunctionCode, c.c).            *)
(***************************************************************************)
THEOREM WriterKnows ==
    ASSUME TableSizeUnused
    PROVE  Spec => []EmitterInv
<1>1. Init => EmitterInv
  BY FirstIs
<1>2. EmitterInv /\ [Next]_vars => EmitterInv'
  <2> SUFFICES ASSUME EmitterInv, [Next]_vars PROVE EmitterInv'
    OBVIOUS
  <2>1. CASE Next
    <3>1. PICK o \in function.opcodes : InRange(o) /\ FunctionCode(o)
      BY <2>1 DEF Next
    <3> QED BY <3>1, OpcodeKeeps
  <2>2. CASE UNCHANGED vars
    BY <2>2, StutterKeeps
  <2> QED BY <2>1, <2>2
<1> QED BY <1>1, <1>2, PTL DEF Spec

(***************************************************************************)
(* Whatever valid body is written, the writer's type stack is validation's *)
(* where code can be reached, and what it skips is dead.                   *)
(***************************************************************************)
THEOREM StackFollowsValidation ==
    ASSUME TableSizeUnused
    PROVE  Spec => []StackIsValidated
<1>1. EmitterInv => StackIsValidated
  <2> SUFFICES ASSUME EmitterInv PROVE StackIsValidated
    OBVIOUS
  <2>1. TypeOK
    BY DEF EmitterInv, Typed, TypeOK
  <2>2. ASSUME ~done
        PROVE  /\ ignore <=> \E k \in DOMAIN valid.blocks : valid.blocks[k].dead
               /\ ~ignore => /\ typeStack = valid.operands /\ Len(labelStack) = Open
                             /\ \A k \in 1 .. Open : labelStack[k].typeStackLength = valid.blocks[k].height
    <3>1. Writing
      BY <2>2 DEF EmitterInv, Writing
    <3>2. DOMAIN valid.blocks = 1 .. Open
      BY <3>1, WritingIs
    <3>3. ignore <=> \E k \in DOMAIN valid.blocks : valid.blocks[k].dead
      BY <3>1, <3>2 DEF Writing, CallsOK, DeadUpTo
    <3>4. ~ignore => typeStack = valid.operands /\ Len(labelStack) = Open
      BY <3>1, Reached
    <3>5. \A k \in 1 .. Len(labelStack) : labelStack[k].typeStackLength = valid.blocks[k].height
      BY <3>1 DEF Writing, StackOK
    <3> QED BY <3>3, <3>4, <3>5
  <2> QED BY <2>1, <2>2 DEF StackIsValidated, TypeStackIsValidated
<1>2. Spec => []EmitterInv
  BY WriterKnows
<1> QED BY <1>1, <1>2, PTL

(***************************************************************************)
(* Whatever valid body is written, its stack variables are declared with   *)
(* the type they are assigned at, and in the finished text every label     *)
(* stands once and every goto has its label.                               *)
(***************************************************************************)
THEOREM GotosAndAssignmentsHaveTargets ==
    ASSUME TableSizeUnused
    PROVE  Spec => []TargetsExist
<1>1. EmitterInv => TargetsExist
  <2> SUFFICES ASSUME EmitterInv PROVE TargetsExist
    OBVIOUS
  <2>1. ASSUME NEW k \in DOMAIN code
        PROVE  /\ code[k].s = "assign" => IsDeclared(code[k].to)
               /\ \A j \in Jumps(code[k]) : /\ j.copy # <<>> => IsDeclared(j.copy[1].to)
                                            /\ j.index \in 0 .. nextLabelIndex - 1
    <3>1. StatementOK(code[k], stackDeclarations, nextLabelIndex)
      BY DEF EmitterInv, CodeOK
    <3> QED BY <3>1 DEF StatementOK, IsDeclared
  <2>2. AssignedDeclared
    BY <2>1 DEF AssignedDeclared
  <2>3. ASSUME done, NEW i \in 0 .. nextLabelIndex - 1
        PROVE  Cardinality({k \in DOMAIN code : code[k] = Placed(i)}) = 1
    <3>1. ~Unplaced(i)
      BY <2>3 DEF Unplaced
    <3>2. PICK p \in DOMAIN code : Places(i) = {p}
      BY <3>1 DEF EmitterInv, CodeOK
    <3>3. {k \in DOMAIN code : code[k] = Placed(i)} = {p}
      BY <3>2 DEF Places
    <3> QED BY <3>3, FS_Singleton
  <2>4. LabelsPlacedOnce
    BY <2>1, <2>3 DEF LabelsPlacedOnce
  <2> QED BY <2>2, <2>4 DEF TargetsExist
<1>2. Spec => []EmitterInv
  BY WriterKnows
<1> QED BY <1>1, <1>2, PTL
=============================================================================
