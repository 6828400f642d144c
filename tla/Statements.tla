----------------------------- MODULE Statements -----------------------------
(***************************************************************************)
(* Statements of the compiler in cc/: parse.c reads them into a tree and   *)
(* gives jumps their labels, codegen.c turns the tree into nested blocks   *)
(* of WebAssembly, codegen_x86.c into labels and jumps.                    *)
(*                                                                         *)
(* The text under compilation is arbitrary: a step of the parser consumes  *)
(* one token that some C function may have there.  An expression is an     *)
(* event with the number of its token; a tested one has a value that the   *)
(* environment chooses.  When the body is complete both back ends have run *)
(* and StatementMeaning compares what the three texts do.                  *)
(***************************************************************************)
EXTENDS Integers, Sequences, SequencesExt, FiniteSets

CONSTANTS
  Families,     \* pairs: the tokens of a function, a bound on their number
  CaseRanges,   \* pairs begin, end that follow "case"
  Names         \* names of labels

NoLabel == 0
RetLabel == -1        \* RET_LABEL

VARIABLES
  family,   \* the pair of this function
  count,    \* tokens consumed
  open,     \* constructs whose statements are being read, the outermost first
  brk_label, cont_label,
  current_switch,   \* position of its frame in open, 0 for NULL
  fresh,    \* the next unique name
  body,     \* the tree, once it is complete and its gotos are resolved
  wasm, x86 \* what the back ends made of it

vars == <<family, count, open, brk_label, cont_label, current_switch, fresh, body, wasm, x86>>
parser == <<open, brk_label, cont_label, current_switch>>

-----------------------------------------------------------------------------
(* Trees.  A jump keeps what was written (how, name) beside the label that  *)
(* the parser gave it; only the latter reaches the back ends.               *)

NoStmt == [kind |-> "none"]
Act(id) == [kind |-> "act", id |-> id]
Block(stmts) == [kind |-> "block", body |-> stmts]
If(id, then, els) == [kind |-> "if", id |-> id, then |-> then, els |-> els]
Jump(how, name, label) == [kind |-> "jump", how |-> how, name |-> name, label |-> label]
Labelled(name, label, lhs) == [kind |-> "label", name |-> name, label |-> label, lhs |-> lhs]
Return == [kind |-> "return"]
Case(label, range, lhs) == [kind |-> "case", label |-> label, range |-> range, lhs |-> lhs]
Switch(id, brk, then, cases, default) ==
  [kind |-> "switch", id |-> id, brk |-> brk, then |-> then, case_next |-> cases, default |-> default]
Loop(kind, id, brk, cont, cond, init, then) ==
  [kind |-> kind, id |-> id, brk |-> brk, cont |-> cont, cond |-> cond, init |-> init, then |-> then]

Children(n) ==
  CASE n.kind = "block" -> n.body
    [] n.kind = "if" -> <<n.then>> \o n.els
    [] n.kind \in {"for", "do", "switch"} -> <<n.then>>
    [] n.kind \in {"case", "label"} -> <<n.lhs>>
    [] OTHER -> <<>>

\* All nodes of a tree.
RECURSIVE Nodes(_)
Nodes(n) == {n} \union UNION {Nodes(c) : c \in ToSet(Children(n))}

\* resolve_goto_labels for one tree: the gotos are matched by name.
RECURSIVE Resolve(_, _)
Resolve(n, labels) ==
  CASE n.kind = "jump" /\ n.how = "goto" ->
         [n EXCEPT !.label = (CHOOSE y \in labels : y.name = n.name).label]
    [] n.kind = "block" -> [n EXCEPT !.body = [i \in DOMAIN n.body |-> Resolve(n.body[i], labels)]]
    [] n.kind = "if" -> [n EXCEPT !.then = Resolve(n.then, labels),
                                  !.els = [i \in DOMAIN n.els |-> Resolve(n.els[i], labels)]]
    [] n.kind \in {"for", "do", "switch"} -> [n EXCEPT !.then = Resolve(n.then, labels)]
    [] n.kind \in {"case", "label"} -> [n EXCEPT !.lhs = Resolve(n.lhs, labels)]
    [] OTHER -> n

-----------------------------------------------------------------------------
(* The wasm back end.  A generator is the code so far, the control stack    *)
(* and whether error_tok has been called.                                   *)

NoGenerator == [ok |-> TRUE, code |-> <<>>, ctl |-> <<>>, ids |-> 0]

Emit(g, op) == [g EXCEPT !.code = Append(@, op)]
Refuse(g) == [g EXCEPT !.ok = FALSE]

push_ctl(g, label) ==
  [g EXCEPT !.ctl = Append(@, [label |-> label, id |-> g.ids]), !.ids = @ + 1]

block(g, label) == push_ctl(Emit(g, <<"block">>), label)
loop(g) == push_ctl(Emit(g, <<"loop">>), NoLabel)
if_(g) == push_ctl(Emit(g, <<"if">>), NoLabel)
end(g) == [Emit(g, <<"end">>) EXCEPT !.ctl = Front(@)]

\* The innermost entry that fits, counted from the top of the control stack.
DepthOf(g, fits) == Len(g.ctl) - CHOOSE i \in fits : \A j \in fits : j <= i

br(g, op, label) ==
  LET fits == {i \in DOMAIN g.ctl : g.ctl[i].label = label}
  IN IF fits = {} THEN Refuse(g) ELSE Emit(g, <<op, DepthOf(g, fits)>>)

depth_of_id(g, id) == DepthOf(g, {i \in DOMAIN g.ctl : g.ctl[i].id = id})

\* A label may end only the innermost block, and that must be its own.
CloseOwn(g, label) ==
  IF g.ctl # <<>> /\ Last(g.ctl).label = label THEN end(g) ELSE Refuse(g)

\* case 1: case 2: stmt is a chain.
RECURSIVE Chain(_)
Chain(n) == IF n.kind = "case" THEN <<n>> \o Chain(n.lhs) ELSE <<>>

\* The cases at the top level of a switch, in source order.
collect_cases(body_) ==
  LET stmts == IF body_.kind = "block" THEN body_.body ELSE <<body_>>
  IN FlattenSeq([i \in DOMAIN stmts |-> Chain(stmts[i])])

\* Mutant: the first label's block is the outermost.
OpenForward(g, labels) == FoldLeft(block, g, labels)

\* One block per label, the first label's innermost.
OpenBlocks(g, labels) == FoldLeft(block, g, Reverse(labels))

\* Mutant: a range is tested for its first value alone.
WasmTestFirst(g, c) ==
  IF g.ok THEN br(Emit(g, <<"in", c.range[1], c.range[1]>>), "br_if", c.label) ELSE g

WasmTest(g, c) ==
  IF g.ok THEN br(Emit(g, <<"in", c.range[1], c.range[2]>>), "br_if", c.label) ELSE g

RECURSIVE WasmStmt(_, _)
WasmStmt(g, n) ==
  IF ~g.ok THEN g ELSE
  CASE n.kind = "act" -> Emit(g, <<"act", n.id>>)
    [] n.kind = "block" -> FoldLeft(WasmStmt, g, n.body)
    [] n.kind = "if" ->
         LET then == WasmStmt(if_(Emit(g, <<"test", n.id>>)), n.then)
             els == IF n.els = <<>> THEN then ELSE WasmStmt(Emit(then, <<"else">>), n.els[1])
         IN IF els.ok THEN end(els) ELSE els
    [] n.kind = "for" ->
         LET init == IF n.init THEN Emit(g, <<"act", n.id>>) ELSE g
             top == loop(block(init, n.brk))
             cond == IF n.cond
                       THEN br(Emit(Emit(top, <<"test", n.id>>), <<"eqz">>), "br_if", n.brk)
                       ELSE top
             then == WasmStmt(block(cond, n.cont), n.then)
             inc == IF n.init THEN Emit(end(then), <<"act", -n.id>>) ELSE end(then)
         IN IF ~then.ok THEN then
            ELSE end(end(Emit(inc, <<"br", depth_of_id(inc, Last(top.ctl).id)>>)))
    [] n.kind = "do" ->
         LET top == loop(block(g, n.brk))
             then == WasmStmt(block(top, n.cont), n.then)
             cond == Emit(end(then), <<"test", n.id>>)
         IN IF ~then.ok THEN then
            ELSE end(end(Emit(cond, <<"br_if", depth_of_id(cond, Last(top.ctl).id)>>)))
    [] n.kind = "switch" ->
         LET cases == collect_cases(n.then)
             opened == OpenBlocks(block(Emit(g, <<"set", n.id>>), n.brk),
                                  [i \in DOMAIN cases |-> cases[i].label])
             tests == FoldLeft(WasmTest, opened, n.case_next)
             others == IF n.default = NoLabel THEN n.brk ELSE n.default
             then == IF tests.ok THEN WasmStmt(br(tests, "br", others), n.then) ELSE tests
         IN IF then.ok THEN CloseOwn(then, n.brk) ELSE then
    [] n.kind \in {"case", "label"} ->
         LET own == CloseOwn(g, n.label) IN WasmStmt(own, n.lhs)
    [] n.kind = "jump" -> br(g, "br", n.label)
    [] n.kind = "return" -> br(g, "br", RetLabel)

gen_function(tree) ==
  LET labels == SelectSeq(tree.body, LAMBDA n : n.kind = "label")
      opened == OpenBlocks(block(NoGenerator, RetLabel), [k \in DOMAIN labels |-> labels[k].label])
      done == WasmStmt(opened, tree)
  IN IF done.ok /\ Len(done.ctl) = 1 THEN end(done) ELSE Refuse(done)

-----------------------------------------------------------------------------
(* The x86 back end: a list of instructions and of labels.  A label is one  *)
(* of the parser's unique names or one that count() has numbered.           *)

Unique(l) == <<"unique", l>>

\* A generator of this back end: code and the value of count().
Put(g, ops) == [g EXCEPT !.code = @ \o ops]

\* Mutant: a range is tested for its first value alone.
X86TestFirst(g, c) == Put(g, <<<<"in", c.range[1], c.range[1]>>, <<"jne", Unique(c.label)>>>>)

X86Test(g, c) == Put(g, <<<<"in", c.range[1], c.range[2]>>, <<"jne", Unique(c.label)>>>>)

RECURSIVE X86Stmt(_, _)
X86Stmt(g, n) ==
  LET c == g.count
      h == [g EXCEPT !.count = @ + 1]
  IN
  CASE n.kind = "act" -> Put(g, <<<<"act", n.id>>>>)
    [] n.kind = "block" -> FoldLeft(X86Stmt, g, n.body)
    [] n.kind = "if" ->
         LET then == X86Stmt(Put(h, <<<<"test", n.id>>, <<"je", <<"else", c>>>>>>), n.then)
             mid == Put(then, <<<<"jmp", <<"end", c>>>>, <<"label", <<"else", c>>>>>>)
             els == IF n.els = <<>> THEN mid ELSE X86Stmt(mid, n.els[1])
         IN Put(els, <<<<"label", <<"end", c>>>>>>)
    [] n.kind = "for" ->
         LET init == IF n.init THEN Put(h, <<<<"act", n.id>>>>) ELSE h
             begin == Put(init, <<<<"label", <<"begin", c>>>>>>)
             cond == IF n.cond THEN Put(begin, <<<<"test", n.id>>, <<"je", Unique(n.brk)>>>>) ELSE begin
             then == Put(X86Stmt(cond, n.then), <<<<"label", Unique(n.cont)>>>>)
             inc == IF n.init THEN Put(then, <<<<"act", -n.id>>>>) ELSE then
         IN Put(inc, <<<<"jmp", <<"begin", c>>>>, <<"label", Unique(n.brk)>>>>)
    [] n.kind = "do" ->
         LET then == X86Stmt(Put(h, <<<<"label", <<"begin", c>>>>>>), n.then)
         IN Put(then, <<<<"label", Unique(n.cont)>>, <<"test", n.id>>,
                        <<"jne", <<"begin", c>>>>, <<"label", Unique(n.brk)>>>>)
    [] n.kind = "switch" ->
         LET tests == FoldLeft(X86Test, Put(g, <<<<"set", n.id>>>>), n.case_next)
             default == IF n.default = NoLabel THEN tests
                        ELSE Put(tests, <<<<"jmp", Unique(n.default)>>>>)
             then == X86Stmt(Put(default, <<<<"jmp", Unique(n.brk)>>>>), n.then)
         IN Put(then, <<<<"label", Unique(n.brk)>>>>)
    [] n.kind \in {"case", "label"} -> X86Stmt(Put(g, <<<<"label", Unique(n.label)>>>>), n.lhs)
    [] n.kind = "jump" -> Put(g, <<<<"jmp", Unique(n.label)>>>>)
    [] n.kind = "return" -> Put(g, <<<<"jmp", <<"return", 0>>>>>>)

emit_function(tree) ==
  X86Stmt([code |-> <<>>, count |-> 1], tree).code \o <<<<"label", <<"return", 0>>>>>>

-----------------------------------------------------------------------------
(* The parser.  A frame is a construct whose statement is being read, with  *)
(* the values of the global variables that its function will restore.       *)

\* A state of the parser as a record, for the functions below.
Parser == [open |-> open, brk |-> brk_label, cont |-> cont_label, sw |-> current_switch]

\* The parser's state when the innermost construct is left.
Left(p) == [open |-> Front(p.open), brk |-> Last(p.open).brk,
            cont |-> Last(p.open).cont, sw |-> Last(p.open).sw]

\* A statement is complete: the construct that awaits it takes it, which may
\* complete that construct too.
RECURSIVE Deliver(_, _)
Deliver(p, stmt) ==
  LET top == Last(p.open)
      node == top.node
      at == Len(p.open)
  IN
  CASE top.kind = "block" -> [p EXCEPT !.open[at].node.body = Append(@, stmt)]
    [] top.kind = "then" -> [p EXCEPT !.open[at].kind = "else?", !.open[at].node.then = stmt]
    [] top.kind = "else" -> Deliver(Left(p), [node EXCEPT !.els = <<stmt>>])
    [] top.kind \in {"loop", "switch"} -> Deliver(Left(p), [node EXCEPT !.then = stmt])
    [] top.kind = "label" -> Deliver(Left(p), [node EXCEPT !.lhs = stmt])
    [] top.kind = "case" ->
         LET done == [node EXCEPT !.lhs = stmt]
             q == Left(p)
         IN Deliver(IF done.range = <<>>
                      THEN [q EXCEPT !.open[q.sw].node.default = done.label]
                      ELSE [q EXCEPT !.open[q.sw].node.case_next = <<done>> \o @], done)

\* An if whose then is read is complete unless the next token is else.
RECURSIVE Settle(_)
Settle(p) == IF Last(p.open).kind = "else?" THEN Settle(Deliver(Left(p), Last(p.open).node)) ELSE p

Become(p) ==
  /\ open' = p.open
  /\ brk_label' = p.brk
  /\ cont_label' = p.cont
  /\ current_switch' = p.sw

\* A token that starts a statement can be consumed.
Reads(token) ==
  /\ body = <<>>
  /\ token \in family[1]
  /\ count < family[2]
  /\ count' = count + 1
  /\ UNCHANGED <<family, body, wasm, x86>>

Statement(stmt) == Become(Deliver(Settle(Parser), stmt))

\* A construct with labels of its own is entered.
Enter(p, kind, node) ==
  [p EXCEPT !.open = Append(@, [kind |-> kind, node |-> node,
                                brk |-> p.brk, cont |-> p.cont, sw |-> p.sw])]

Here == Settle(Parser)
Id == count + 1       \* the number of the expression at this token

\* Two expression statements in a row are one.
ReadExpr ==
  /\ Reads("act")
  /\ LET top == Last(Here.open)
     IN ~(top.kind = "block" /\ top.node.body # <<>> /\ Last(top.node.body).kind = "act")
  /\ Statement(Act(Id))
  /\ UNCHANGED fresh

ReadReturn == Reads("return") /\ Statement(Return) /\ UNCHANGED fresh

\* The body of a construct, or (a token of its own here, since it only adds
\* to the number of functions) a block among statements.
ReadBlock ==
  /\ Reads(IF Last(Here.open).kind = "block" THEN "inner {" ELSE "{")
  /\ Become(Enter(Here, "block", Block(<<>>)))
  /\ UNCHANGED fresh

ReadEnd ==
  /\ Reads("}")
  /\ Len(Here.open) > 1
  /\ Last(Here.open).kind = "block"
  /\ Become(Deliver(Left(Here), Last(Here.open).node))
  /\ UNCHANGED fresh

ReadIf == Reads("if") /\ Become(Enter(Here, "then", If(Id, NoStmt, <<>>))) /\ UNCHANGED fresh

ReadElse ==
  /\ Reads("else")
  /\ Last(open).kind = "else?"
  /\ open' = [open EXCEPT ![Len(open)].kind = "else"]
  /\ UNCHANGED <<brk_label, cont_label, current_switch, fresh>>

\* for (init; cond; inc), for (init; ; inc) and while (cond).
LoopHeads == {<<"for", TRUE, TRUE>>, <<"for", FALSE, TRUE>>, <<"for", TRUE, FALSE>>,
              <<"do", TRUE, FALSE>>}

ReadLoop ==
  \E head \in LoopHeads :
    /\ Reads(head[1])
    /\ Become([Enter(Here, "loop", Loop(head[1], Id, fresh, fresh + 1, head[2], head[3], NoStmt))
                 EXCEPT !.brk = fresh, !.cont = fresh + 1])
    /\ fresh' = fresh + 2

ReadSwitch ==
  /\ Reads("switch")
  /\ Become([Enter(Here, "switch", Switch(Id, fresh, NoStmt, <<>>, NoLabel))
               EXCEPT !.brk = fresh, !.sw = Len(Here.open) + 1])
  /\ fresh' = fresh + 1

\* A value is in one case of a switch at most, and there is one default.
Disjoint(range, cases) ==
  \A i \in DOMAIN cases : range[2] < cases[i].range[1] \/ cases[i].range[2] < range[1]

\* The cases of the current switch that have been read or are being read.
CasesRead ==
  LET sw == Here.sw
      reading == SelectSeq(SubSeq(Here.open, sw + 1, Len(Here.open)),
                           LAMBDA f : f.kind = "case" /\ f.sw = sw)
  IN Here.open[sw].node.case_next \o
     SelectSeq([i \in DOMAIN reading |-> reading[i].node], LAMBDA c : c.range # <<>>)

DefaultRead ==
  LET sw == Here.sw
  IN \/ Here.open[sw].node.default # NoLabel
     \/ \E i \in (sw + 1)..Len(Here.open) :
          Here.open[i].kind = "case" /\ Here.open[i].sw = sw /\ Here.open[i].node.range = <<>>

ReadCase ==
  \E range \in CaseRanges :
    /\ Reads("case")
    /\ Here.sw # 0
    /\ Disjoint(range, CasesRead)
    /\ Become(Enter(Here, "case", Case(fresh, range, NoStmt)))
    /\ fresh' = fresh + 1

ReadDefault ==
  /\ Reads("default")
  /\ Here.sw # 0
  /\ ~DefaultRead
  /\ Become(Enter(Here, "case", Case(fresh, <<>>, NoStmt)))
  /\ fresh' = fresh + 1

ReadBreak ==
  /\ Reads("break")
  /\ Here.brk # NoLabel
  /\ Statement(Jump("break", "", Here.brk))
  /\ UNCHANGED fresh

ReadContinue ==
  /\ Reads("continue")
  /\ Here.cont # NoLabel
  /\ Statement(Jump("continue", "", Here.cont))
  /\ UNCHANGED fresh

ReadGoto ==
  \E name \in Names :
    /\ Reads("goto")
    /\ Statement(Jump("goto", name, NoLabel))
    /\ UNCHANGED fresh

ReadLabel ==
  \E name \in Names :
    /\ Reads("label")
    /\ ~\E i \in DOMAIN open : \E n \in {open[i].node} \union
          (IF open[i].kind = "block" THEN UNION {Nodes(s) : s \in ToSet(open[i].node.body)}
           ELSE IF open[i].kind \in {"else?", "else"} THEN Nodes(open[i].node.then) ELSE {}) :
          n.kind = "label" /\ n.name = name
    /\ Become(Enter(Here, "label", Labelled(name, fresh, NoStmt)))
    /\ fresh' = fresh + 1

\* The last brace: function resolves the gotos, and both back ends run.
Finish ==
  /\ body = <<>>
  /\ Len(Here.open) = 1
  /\ LET read == Here.open[1].node
         labels == {n \in Nodes(read) : n.kind = "label"}
         gotos == {n \in Nodes(read) : n.kind = "jump" /\ n.how = "goto"}
     IN /\ \A x \in gotos : \E y \in labels : y.name = x.name
        /\ LET tree == Resolve(read, labels)
           IN /\ body' = <<tree>>
              /\ wasm' = gen_function(tree)
              /\ x86' = emit_function(tree)
  /\ UNCHANGED <<family, count, parser, fresh>>

Init ==
  /\ family \in Families
  /\ count = 0
  /\ brk_label = NoLabel
  /\ cont_label = NoLabel
  /\ current_switch = 0
  /\ open = <<[kind |-> "block", node |-> Block(<<>>), brk |-> NoLabel, cont |-> NoLabel, sw |-> 0]>>
  /\ fresh = 1
  /\ body = <<>>
  /\ wasm = NoGenerator
  /\ x86 = <<>>

Next ==
  \/ ReadExpr \/ ReadReturn \/ ReadBlock \/ ReadEnd \/ ReadIf \/ ReadElse \/ ReadLoop
  \/ ReadSwitch \/ ReadCase \/ ReadDefault \/ ReadBreak \/ ReadContinue
  \/ ReadGoto \/ ReadLabel \/ Finish

Spec == Init /\ [][Next]_vars
=============================================================================
