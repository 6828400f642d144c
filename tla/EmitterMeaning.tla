--------------------------- MODULE EmitterMeaning ---------------------------
(***************************************************************************)
(* What running a function body means, before and after w2c2: the          *)
(* WebAssembly opcodes that were read and the C statements that were       *)
(* written, each as a machine with one step per opcode or statement. Both  *)
(* are external definitions (the two languages); they are compared when a  *)
(* function is finished.                                                   *)
(***************************************************************************)
EXTENDS Emitter

CONSTANTS
    Steps   \* bound on the steps a run is followed for

Numbers == 0 .. Modulus - 1

(* locals are 0 but for the parameter; globals are 0; cell a holds a + 1 *)
World(argument) ==
    [locals |-> [k \in DOMAIN LocalTypes |-> IF k = 1 THEN argument ELSE 0],
     globals |-> [k \in DOMAIN GlobalTypes |-> 0],
     memory |-> [a \in Numbers |-> (a + 1) % Modulus],
     pages |-> 1, segment |-> 1]

Grow(w, n) == IF w.pages + n < Modulus THEN [w EXCEPT !.pages = @ + n] ELSE w
GrowResult(w, n) == IF w.pages + n < Modulus THEN w.pages ELSE Modulus - 1

(* memory.fill d, v, n on the cells there are; more than those trap *)
FillTraps(d, n) == d + n > Modulus
Filled(w, d, v, n) ==
    [w EXCEPT !.memory = [a \in Numbers |-> IF a \in d .. d + n - 1 THEN v ELSE @[a]]]

Stored(w, a, v) == [w EXCEPT !.memory[a] = v]
Called(w, args) ==       \* the callee counts, in the last global, what it is called with
    IF GlobalTypes = <<>> THEN w
    ELSE [w EXCEPT !.globals[Len(GlobalTypes)] = (@ + Returned(args) + 1) % Modulus]

-----------------------------------------------------------------------------
(* WebAssembly: [pc, stack, blocks, world, status] *)
EndOf(start) ==
    LET Depth(j) == Cardinality({k \in start .. j : opcodes[k].op \in {"block", "loop", "if"}})
                    - Cardinality({k \in start .. j : opcodes[k].op = "end"})
    IN CHOOSE j \in start .. Len(opcodes) :
           Depth(j) = 0 /\ \A k \in start .. j - 1 : Depth(k) # 0

ElseOf(start) ==
    LET Depth(j) == Cardinality({k \in start .. j : opcodes[k].op \in {"block", "loop", "if"}})
                    - Cardinality({k \in start .. j : opcodes[k].op = "end"})
        elses == {j \in start .. EndOf(start) : opcodes[j].op = "else" /\ Depth(j) = 1}
    IN IF elses = {} THEN EndOf(start) ELSE CHOOSE j \in elses : TRUE

Entered(m, o) ==
    Append(m.blocks, [op |-> o.op, type |-> o.type, height |-> Len(m.stack) - (IF o.op = "if" THEN 1 ELSE 0),
                      start |-> m.pc])

Branched(m, stack, depth) ==
    LET b == m.blocks[Len(m.blocks) - depth]
        kept == SubSeq(stack, 1, b.height)
    IN IF b.op = "loop"
         THEN [m EXCEPT !.pc = b.start + 1, !.stack = kept,
                        !.blocks = SubSeq(@, 1, Len(@) - depth)]
         ELSE [m EXCEPT !.pc = IF b.op = "func" THEN Len(opcodes) + 1 ELSE EndOf(b.start) + 1,
                        !.stack = kept \o (IF b.type = NoType THEN <<>> ELSE <<Last(stack)>>),
                        !.blocks = SubSeq(@, 1, Len(@) - depth - 1)]

Trapped(m) == [m EXCEPT !.status = "trapped"]
Pushed(m, stack, x) == [m EXCEPT !.pc = @ + 1, !.stack = Append(stack, x)]
Goes(m, stack) == [m EXCEPT !.pc = @ + 1, !.stack = stack]

(* the call of a function with args, which were above stack *)
Calls(m, callee, stack, args) ==
    LET returned == IF callee.result = NoType THEN Goes(m, stack)
                                              ELSE Pushed(m, stack, Returned(args))
    IN [returned EXCEPT !.world = Called(@, args)]

WasmStep(m) ==
    LET o == opcodes[m.pc]
        n == Len(m.stack)
        Arg(k) == m.stack[n - k]
        Rest(k) == SubSeq(m.stack, 1, n - k)
    IN CASE o.op \in {"nop", "elem.drop"} -> Goes(m, m.stack)
         [] o.op = "const" -> Pushed(m, m.stack, o.value)
         [] o.op = "local.get" -> Pushed(m, m.stack, m.world.locals[o.index])
         [] o.op = "local.set" -> [Goes(m, Rest(1)) EXCEPT !.world.locals[o.index] = Arg(0)]
         [] o.op = "local.tee" -> [Goes(m, m.stack) EXCEPT !.world.locals[o.index] = Arg(0)]
         [] o.op = "global.get" -> Pushed(m, m.stack, m.world.globals[o.index])
         [] o.op = "global.set" -> [Goes(m, Rest(1)) EXCEPT !.world.globals[o.index] = Arg(0)]
         [] o.op = "drop" -> Goes(m, Rest(1))
         [] o.op = "select" -> Pushed(m, Rest(3), IF Arg(0) # 0 THEN Arg(2) ELSE Arg(1))
         [] o.op = "unary" -> Pushed(m, Rest(1), Unary(Arg(0)))
         [] o.op = "binary" -> Pushed(m, Rest(2), Binary(Arg(1), Arg(0)))
         [] o.op = "load" -> Pushed(m, Rest(1), m.world.memory[Arg(0)])
         [] o.op = "store" -> [Goes(m, Rest(2)) EXCEPT !.world = Stored(@, Arg(1), Arg(0))]
         [] o.op = "memory.size" -> Pushed(m, m.stack, m.world.pages)
         [] o.op = "memory.grow" ->
               [Pushed(m, Rest(1), GrowResult(m.world, Arg(0))) EXCEPT !.world = Grow(@, Arg(0))]
         [] o.op = "memory.fill" ->
               IF FillTraps(Arg(2), Arg(0)) THEN Trapped(m)
               ELSE [Goes(m, Rest(3)) EXCEPT !.world = Filled(@, Arg(2), Arg(1), Arg(0))]
         [] o.op = "data.drop" -> [Goes(m, m.stack) EXCEPT !.world.segment = 0]
         [] o.op = "call" ->
               LET count == Len(Callees[o.callee].params)
               IN Calls(m, Callees[o.callee], Rest(count), SubSeq(m.stack, n - count + 1, n))
         [] o.op = "call_indirect" ->
               LET count == Len(Callees[o.callee].params)
               IN IF Arg(0) # 0 THEN Trapped(m)
                  ELSE Calls(m, Callees[o.callee], Rest(count + 1), SubSeq(m.stack, n - count, n - 1))
         [] o.op = "unreachable" -> Trapped(m)
         [] o.op = "br" -> Branched(m, m.stack, o.depth)
         [] o.op = "br_if" -> IF Arg(0) # 0 THEN Branched(m, Rest(1), o.depth) ELSE Goes(m, Rest(1))
         [] o.op = "br_table" ->
               Branched(m, Rest(1), IF Arg(0) + 1 < Len(o.depths) THEN o.depths[Arg(0) + 1]
                                                                  ELSE Last(o.depths))
         [] o.op = "return" -> Branched(m, m.stack, Len(m.blocks) - 1)
         [] o.op \in {"block", "loop"} -> [Goes(m, m.stack) EXCEPT !.blocks = Entered(m, o)]
         [] o.op = "if" ->
               IF Arg(0) # 0 THEN [Goes(m, Rest(1)) EXCEPT !.blocks = Entered(m, o)]
               ELSE IF opcodes[ElseOf(m.pc)].op = "else"
                 THEN [Goes(m, Rest(1)) EXCEPT !.blocks = Entered(m, o), !.pc = ElseOf(m.pc) + 1]
                 ELSE [Goes(m, Rest(1)) EXCEPT !.pc = EndOf(m.pc) + 1]
         [] o.op = "else" -> [Goes(m, m.stack) EXCEPT !.pc = EndOf(Last(m.blocks).start)]
         [] o.op = "end" -> [Goes(m, m.stack) EXCEPT !.blocks = Front(@)]

WasmRun(argument) ==
    LET start == [pc |-> 1, stack |-> <<>>, world |-> World(argument), status |-> "running",
                  blocks |-> <<[op |-> "func", type |-> function.result, height |-> 0, start |-> 0]>>]
        run[k \in 0 .. Steps] ==
            IF k = 0 THEN start
            ELSE LET m == run[k - 1]
                 IN IF m.status # "running" THEN m
                    ELSE IF m.pc > Len(opcodes) THEN [m EXCEPT !.status = "returned"]
                    ELSE WasmStep(m)
        m == run[Steps]
    IN [status |-> m.status, world |-> [m.world EXCEPT !.locals = <<>>],
        value |-> IF m.status = "returned" /\ function.result # NoType THEN Last(m.stack) ELSE 0]

-----------------------------------------------------------------------------
(* C: [pc, slots, world, status, value]; a variable starts undefined *)
Get(c, name) ==
    CASE name[1] = "c" -> name[2]
      [] name[1] = "l" -> c.world.locals[name[2]]
      [] name[1] = "g" -> c.world.globals[name[2]]
      [] OTHER -> c.slots[<<name[2], name[3]>>]

Assigned(c, to, x) ==
    CASE to[1] = "l" -> [c EXCEPT !.world.locals[to[2]] = x]
      [] to[1] = "g" -> [c EXCEPT !.world.globals[to[2]] = x]
      [] OTHER -> [c EXCEPT !.slots[<<to[2], to[3]>>] = x]

Statement(c, st) ==
    LET args == [k \in DOMAIN st.args |-> Get(c, st.args[k])]
        Set(x) == Assigned(c, st.to, x)
        Call_(values) ==
            [IF st.s = "assign" THEN Set(Returned(values)) ELSE c
               EXCEPT !.world = Called(@, values)]
    IN IF Undefined \in ToSet(args) /\ st.f # "copy" THEN [c EXCEPT !.status = "undefined"]
       ELSE CASE st.f \in {"const", "copy"} -> Set(args[1])
              [] st.f = "unary" -> Set(Unary(args[1]))
              [] st.f = "binary" -> Set(Binary(args[1], args[2]))
              [] st.f = "select" -> Set(IF args[1] # 0 THEN args[2] ELSE args[3])
              [] st.f = "load" -> Set(Loaded(c.world.memory, args[1]))
              [] st.f = "size" -> Set(c.world.pages)
              [] st.f = "grow" -> [Set(GrowResult(c.world, args[1])) EXCEPT !.world = Grow(@, args[1])]
              [] st.f = "call" -> Call_(args)
              [] st.f = "call_indirect" ->
                    IF args[1] # 0 THEN [c EXCEPT !.status = "trapped"] ELSE Call_(Tail(args))
              [] st.f = "store" -> [c EXCEPT !.world = Stored(@, args[1], args[2])]
              [] st.f = "fill" ->
                    IF FillTraps(args[1], args[3]) THEN [c EXCEPT !.status = "trapped"]
                    ELSE [c EXCEPT !.world = Filled(@, args[1], args[2], args[3])]
              [] st.f = "data.drop" -> [c EXCEPT !.world.segment = 0]
              [] st.f = "trap" -> [c EXCEPT !.status = "trapped"]

At(s, id) ==
    LET found == {k \in DOMAIN code : code[k].s = s /\ code[k].id = id}
    IN IF found = {} THEN 0 ELSE CHOOSE k \in found : TRUE

Jumped(c, j) ==
    LET d == IF j.copy = <<>> THEN c ELSE Statement(c, j.copy[1])
    IN [d EXCEPT !.pc = CHOOSE k \in DOMAIN code : code[k] = Placed(j.index)]

CStep(c) ==
    LET st == code[c.pc]
        Next_(d) == [d EXCEPT !.pc = @ + 1]
        on == Get(c, st.on)
    IN CASE st.s \in {"assign", "effect"} -> Next_(Statement(c, st))
         [] st.s \in {"label", "endif"} -> Next_(c)
         [] st.s = "goto" -> Jumped(c, st)
         [] st.s \in {"if", "switch"} /\ on = Undefined -> [c EXCEPT !.status = "undefined"]
         [] st.s = "if" /\ on # Undefined ->
               IF on # 0 THEN Next_(c)
               ELSE [c EXCEPT !.pc = 1 + (IF At("else", st.id) # 0 THEN At("else", st.id)
                                                                   ELSE At("endif", st.id))]
         [] st.s = "else" -> [c EXCEPT !.pc = At("endif", st.id)]
         [] st.s = "br_if" /\ on # Undefined -> IF on # 0 THEN Jumped(c, st.jump) ELSE Next_(c)
         [] st.s = "switch" /\ on # Undefined ->
               Jumped(c, IF on < Len(st.cases) THEN st.cases[on + 1] ELSE st.otherwise)
         [] st.s = "return" -> [c EXCEPT !.status = "returned", !.value = Get(c, st.from)]

CRun(argument) ==
    LET start == [pc |-> 1, slots |-> [n \in (0 .. function.most) \X Types |-> Undefined],
                  world |-> World(argument), status |-> "running", value |-> 0]
        run[k \in 0 .. 2 * Steps] ==
            IF k = 0 THEN start
            ELSE LET c == run[k - 1]
                 IN IF c.status # "running" THEN c
                    ELSE IF c.pc > Len(code) THEN [c EXCEPT !.status = "returned"]
                    ELSE CStep(c)
        c == run[2 * Steps]
    IN [status |-> c.status, world |-> [c.world EXCEPT !.locals = <<>>], value |-> c.value]

-----------------------------------------------------------------------------
(* The variables that the text reads. *)
Reads(st) ==
    LET Args(copies) == UNION {ToSet(copies[k].args) : k \in DOMAIN copies}
    IN (IF st.s \in {"assign", "effect"} THEN ToSet(st.args) ELSE {})
       \cup (IF st.s \in {"if", "br_if", "switch"} THEN {st.on} ELSE {})
       \cup (IF st.s = "return" THEN {st.from} ELSE {})
       \cup UNION {Args(j.copy) : j \in Jumps(st)}

(* what validation knew before opcode j *)
Before(j) == FoldLeft(After, Function(function.result), SubSeq(opcodes, 1, j - 1))
Live(j) == LET blocks == Before(j).blocks IN \A k \in DOMAIN blocks : ~ blocks[k].dead

Starts(i) == opcodes[i].op \in {"block", "loop", "if"}

(* the opcodes at which a value may come out of the block that starts at i:  *)
(* its end, its else, and the branches that leave it by its label           *)
Leaves(i, j) ==
    LET level == Len(Before(i).blocks) + 1
        open == Before(j).blocks
    IN CASE opcodes[j].op \in {"else", "end"} -> Len(open) = level
         [] opcodes[j].op \in {"br", "br_if"} ->
               opcodes[i].op # "loop" /\ Len(open) - opcodes[j].depth = level
         [] opcodes[j].op = "br_table" ->
               opcodes[i].op # "loop" /\ \E d \in Targets(opcodes[j]) : Len(open) - d = level
         [] OTHER -> FALSE

(* every block that has a result can end with one *)
ValuesArrive ==
    \A i \in DOMAIN opcodes :
        Starts(i) /\ opcodes[i].type # NoType =>
            \E j \in i + 1 .. EndOf(i) : Live(j) /\ Leaves(i, j)

(***************************************************************************)
(* The text names nothing that is not there: what it assigns and what it   *)
(* reads is declared with that type, and every goto has its label. A block *)
(* with a result that nothing reaches the end of, as (loop (result i32)    *)
(* br 0), is the one exception: the code behind it reads a variable that   *)
(* nothing assigned, and w2c2 declares only what is assigned, so that such *)
(* a function may not compile (wasmCWriteLoopExpr sets the type stack to   *)
(* the block's result without wasmTypeStackSet on the declarations).       *)
(***************************************************************************)
NamesExist ==
    /\ TargetsExist
    /\ done => \/ \A k \in DOMAIN code : \A n \in Reads(code[k]) : IsDeclared(n)
               \/ ~ ValuesArrive

-----------------------------------------------------------------------------
(***************************************************************************)
(* The translation keeps the meaning: for every argument the C function    *)
(* returns what the WebAssembly function returns, leaves globals, memory   *)
(* and segments the same, traps when it traps and runs on when it runs on. *)
(* It never reads a stack variable that has no value.                      *)
(***************************************************************************)
SameMeaning ==
    done => \A argument \in Numbers :
        LET w == WasmRun(argument)
            c == CRun(argument)
        IN IF w.status = "running" THEN c.status = "running" ELSE c = w
===============================================================================
