-------------------------- MODULE StatementMeaning --------------------------
(***************************************************************************)
(* What a function body does, as C, as WebAssembly and as x86: the events  *)
(* of its expressions, in order, for every answer to its tests.  External: *)
(* the C standard, the WebAssembly specification and the processor.        *)
(***************************************************************************)
EXTENDS Statements

CONSTANTS
  Answers,      \* values of tested expressions
  MaxTests,     \* tests that are answered; the execution is cut at the next
  MaxEvents,    \* events that are observed; the execution is cut at the next
  Fuel          \* steps without end, for loops that contain no event

\* An execution: the events so far, the answers left and what happens next.
Start(answers) ==
  [sig |-> "run", to |-> NoLabel, value |-> 0, answers |-> answers, out |-> <<>>, fuel |-> Fuel]

Event(st, e) ==
  IF Len(st.out) = MaxEvents THEN [st EXCEPT !.sig = "cut"] ELSE [st EXCEPT !.out = Append(@, e)]

Ask(st, id) ==
  IF st.answers = <<>> \/ Len(st.out) = MaxEvents THEN [st EXCEPT !.sig = "cut"]
  ELSE [st EXCEPT !.out = Append(@, id), !.value = Head(st.answers), !.answers = Tail(@)]

Burn(st) == IF st.fuel = 0 THEN [st EXCEPT !.sig = "spent"] ELSE [st EXCEPT !.fuel = @ - 1]
Running(st) == st.sig = "run"

-----------------------------------------------------------------------------
(* C.  A jump to a label is a search for it from the top of the body.       *)

Holds(n, label) == \E m \in Nodes(n) : m.kind \in {"case", "label"} /\ m.label = label

\* The cases that belong to a switch, those of an inner switch left out.
RECURSIVE CasesOf(_)
CasesOf(n) == (IF n.kind = "case" THEN {n} ELSE {}) \union
              (IF n.kind = "switch" THEN {} ELSE UNION {CasesOf(c) : c \in ToSet(Children(n))})

Chosen(n, value) ==
  LET cases == CasesOf(n.then)
      fit == {c \in cases : c.range # <<>> /\ c.range[1] <= value /\ value <= c.range[2]}
      others == {c \in cases : c.range = <<>>}
  IN IF fit # {} THEN fit ELSE others

Seek(st, label) == [st EXCEPT !.sig = "seek", !.to = label]
Leave(st, how) == IF st.sig \in how THEN [st EXCEPT !.sig = "run"] ELSE st

RECURSIVE Exec(_, _, _)
RECURSIVE Again(_, _, _)

\* After the body of a loop: its end, or the next round.
Again(st, n, tree) ==
  LET next == Burn(Leave(st, {"continue"}))
      inc == IF n.init THEN Event(next, -n.id) ELSE next
      test == IF ~Running(inc) \/ ~n.cond THEN inc ELSE Ask(inc, n.id)
  IN IF st.sig \notin {"run", "continue"} THEN Leave(st, {"break"})
     ELSE IF ~Running(test) \/ (n.cond /\ test.value = 0) THEN test
     ELSE Again(Exec(test, n.then, tree), n, tree)

Exec(st, n, tree) ==
  IF st.sig \notin {"run", "seek"} \/ (st.sig = "seek" /\ ~Holds(n, st.to)) THEN st ELSE
  CASE n.kind = "act" -> Event(st, n.id)
    [] n.kind = "block" -> FoldLeft(LAMBDA s, c : Exec(s, c, tree), st, n.body)
    [] n.kind = "if" ->
         LET test == IF Running(st) THEN Ask(st, n.id) ELSE st
             first == IF Running(st) THEN test.value # 0 ELSE Holds(n.then, st.to)
         IN IF test.sig = "cut" THEN test
            ELSE IF first THEN Exec(test, n.then, tree)
            ELSE IF n.els = <<>> THEN test ELSE Exec(test, n.els[1], tree)
    [] n.kind = "for" ->
         LET init == IF Running(st) /\ n.init THEN Event(st, n.id) ELSE st
             test == IF Running(init) /\ n.cond THEN Ask(init, n.id) ELSE init
         IN IF test.sig = "cut" \/ (Running(st) /\ n.cond /\ test.value = 0) THEN test
            ELSE Again(Exec(test, n.then, tree), n, tree)
    [] n.kind = "do" -> Again(Exec(st, n.then, tree), n, tree)
    [] n.kind = "switch" ->
         LET test == IF Running(st) THEN Ask(st, n.id) ELSE st
             chosen == Chosen(n, test.value)
             target == IF Running(st) /\ chosen # {}
                         THEN Seek(test, (CHOOSE c \in chosen : TRUE).label) ELSE test
         IN IF test.sig = "cut" \/ (Running(st) /\ chosen = {}) THEN test
            ELSE Leave(Exec(target, n.then, tree), {"break"})
    [] n.kind \in {"case", "label"} ->
         Exec(IF st.sig = "seek" /\ st.to = n.label THEN [st EXCEPT !.sig = "run"] ELSE st,
              n.lhs, tree)
    [] n.kind = "jump" ->
         IF n.how = "goto"
           THEN Seek(st, (CHOOSE m \in Nodes(tree) : m.kind = "label" /\ m.name = n.name).label)
           ELSE [st EXCEPT !.sig = n.how]
    [] n.kind = "return" -> [st EXCEPT !.sig = "end"]

RECURSIVE RunC(_, _)
RunC(st, tree) ==
  LET r == Exec(st, tree, tree)
  IN IF r.sig = "run" THEN [r EXCEPT !.sig = "end"]
     ELSE IF r.sig = "seek" THEN (IF r.fuel = 0 THEN Burn(r) ELSE RunC(Burn(r), tree))
     ELSE r

-----------------------------------------------------------------------------
(* WebAssembly: structured code, branches by depth.                         *)

Opens(op) == op[1] \in {"block", "loop", "if"}

\* Nesting after each instruction.
Nesting(code) ==
  LET f[i \in 0..Len(code)] ==
        IF i = 0 THEN 0
        ELSE f[i - 1] + (IF Opens(code[i]) THEN 1 ELSE IF code[i][1] = "end" THEN -1 ELSE 0)
  IN f

Least(S) == CHOOSE i \in S : \A j \in S : i <= j
EndOf(code, nesting, i) == Least({j \in (i + 1)..Len(code) : nesting[j] = nesting[i] - 1})
ElseOf(code, nesting, i) ==
  {j \in (i + 1)..EndOf(code, nesting, i) : code[j][1] = "else" /\ nesting[j] = nesting[i]}

RECURSIVE RunWasm(_, _, _, _, _)
RunWasm(st, code, nesting, pc, labels) ==
  LET op == code[pc]
      next == Burn(st)
      inside == Append(labels, pc)
      target == labels[Len(labels) - op[2]]
      outside == SubSeq(labels, 1, Len(labels) - op[2] - 1)
      Go(s, at, ls) == RunWasm(s, code, nesting, at, ls)
      Branch(s) == IF code[target][1] = "loop"
                     THEN Go(s, target + 1, Append(outside, target))
                     ELSE Go(s, EndOf(code, nesting, target) + 1, outside)
  IN
  IF st.sig \in {"cut", "spent"} THEN st
  ELSE IF pc > Len(code) THEN [st EXCEPT !.sig = "end"]
  ELSE CASE op[1] = "act" -> Go(Event(next, op[2]), pc + 1, labels)
         [] op[1] \in {"test", "set"} -> Go(Ask(next, op[2]), pc + 1, labels)
         [] op[1] = "in" ->
              Go([next EXCEPT !.to = IF op[2] <= st.value /\ st.value <= op[3] THEN 1 ELSE 0],
                 pc + 1, labels)
         [] op[1] = "eqz" -> Go([next EXCEPT !.value = IF @ = 0 THEN 1 ELSE 0], pc + 1, labels)
         [] op[1] \in {"block", "loop"} -> Go(next, pc + 1, inside)
         [] op[1] = "if" ->
              IF st.value # 0 THEN Go(next, pc + 1, inside)
              ELSE LET els == ElseOf(code, nesting, pc)
                   IN IF els = {} THEN Go(next, EndOf(code, nesting, pc) + 1, labels)
                      ELSE Go(next, Least(els) + 1, inside)
         [] op[1] = "else" -> Go(next, EndOf(code, nesting, Last(labels)) + 1, Front(labels))
         [] op[1] = "end" -> Go(next, pc + 1, Front(labels))
         [] op[1] = "br" -> Branch(next)
         [] op[1] = "br_if" ->
              LET taken == IF code[pc - 1][1] = "in" THEN st.to # 0 ELSE st.value # 0
              IN IF taken THEN Branch(next) ELSE Go(next, pc + 1, labels)

-----------------------------------------------------------------------------
(* x86: instructions and labels.                                            *)

RECURSIVE RunX86(_, _, _)
RunX86(st, code, pc) ==
  LET op == code[pc]
      next == Burn(st)
      places == {i \in DOMAIN code : code[i] = <<"label", op[2]>>}
      Go(s, at) == RunX86(s, code, at)
      Branch(s) == IF Cardinality(places) = 1 THEN Go(s, Least(places)) ELSE [s EXCEPT !.sig = "stuck"]
  IN
  IF st.sig \in {"cut", "spent"} THEN st
  ELSE IF pc > Len(code) THEN [st EXCEPT !.sig = "end"]
  ELSE CASE op[1] = "act" -> Go(Event(next, op[2]), pc + 1)
         [] op[1] \in {"test", "set"} -> Go(Ask(next, op[2]), pc + 1)
         [] op[1] = "in" ->
              Go([next EXCEPT !.to = IF op[2] <= st.value /\ st.value <= op[3] THEN 1 ELSE 0], pc + 1)
         [] op[1] = "label" -> Go(next, pc + 1)
         [] op[1] = "jmp" -> Branch(next)
         [] op[1] = "je" -> IF st.value = 0 THEN Branch(next) ELSE Go(next, pc + 1)
         [] op[1] = "jne" ->
              LET taken == IF code[pc - 1][1] = "in" THEN st.to # 0 ELSE st.value # 0
              IN IF taken THEN Branch(next) ELSE Go(next, pc + 1)

-----------------------------------------------------------------------------
(* Properties.                                                              *)

\* Executions that ran out of fuel in a loop without events agree on what
\* they did before.
Agree(r, s) ==
  IF "spent" \in {r.sig, s.sig} THEN IsPrefix(r.out, s.out) \/ IsPrefix(s.out, r.out)
  ELSE r.sig = s.sig /\ r.out = s.out

\* As many answers as the body can ask for, up to the bound.
Oracles(tree) ==
  LET nodes == Nodes(tree)
      tests == {n \in nodes : n.kind \in {"if", "for", "do", "switch"}}
      repeats == \E n \in nodes : n.kind \in {"for", "do"} \/ (n.kind = "jump" /\ n.how = "goto")
      switches == \E n \in nodes : n.kind = "switch"
  IN [1..(IF repeats THEN MaxTests ELSE Cardinality(tests)) ->
        IF switches THEN Answers ELSE Answers \intersect {0, 1}]

\* Whatever nests and jumps: the blocks and depths that codegen.c counts by
\* hand do what the C text says, for every function it accepts.
WasmFlow ==
  body # <<>> /\ wasm.ok =>
    LET nesting == Nesting(wasm.code)
    IN \A answers \in Oracles(body[1]) :
         Agree(RunC(Start(answers), body[1]), RunWasm(Start(answers), wasm.code, nesting, 1, <<>>))

\* The labels and jumps of codegen_x86.c do what the C text says, with goto
\* in any direction and cases at any depth; every label is placed once.
X86Flow ==
  body # <<>> =>
    \A answers \in Oracles(body[1]) :
      Agree(RunC(Start(answers), body[1]), RunX86(Start(answers), x86, 1))

\* A case that is not at the top level of its switch, a label that is not at
\* the top level of the function (or behind another one), a goto that is not
\* forward: what the head of codegen.c and NOTES.md say is not supported.
TopLabels(tree) == {i \in DOMAIN tree.body : tree.body[i].kind = "label"}
NestedCase(tree) ==
  \E s \in Nodes(tree) : s.kind = "switch" /\ CasesOf(s.then) # ToSet(collect_cases(s.then))
NestedLabel(tree) ==
  \E l \in Nodes(tree) : l.kind = "label" /\ \A i \in TopLabels(tree) : tree.body[i] # l
BackwardGoto(tree) ==
  \E i \in TopLabels(tree), j \in DOMAIN tree.body :
    j >= i /\ \E n \in Nodes(tree.body[j]) :
      n.kind = "jump" /\ n.how = "goto" /\ n.name = tree.body[i].name

\* The backend refuses these and nothing else: NOTES.md, each "is a clear
\* error, not silent miscompilation".
RefusesOnlyUnsupported ==
  body # <<>> =>
    (wasm.ok <=> ~(NestedCase(body[1]) \/ NestedLabel(body[1]) \/ BackwardGoto(body[1])))
=============================================================================
