----------------------------- MODULE Preprocessor -----------------------------
(***************************************************************************)
(* The preprocessor of the compiler, cc/preprocess.c.  A list of tokens is *)
(* read from its front: a macro is replaced in the list itself and read    *)
(* again, a directive acts on the macros, the stack of conditionals or the *)
(* list, and what is neither goes to the output.  A token keeps the names  *)
(* of the macros that it came from, its hideset, and at_bol, whether it is *)
(* the first of its line.                                                  *)
(*                                                                         *)
(* In a #define, "(" after the name has no space before it.  Positions,    *)
(* line markers (whose tokens are read) and the dynamic macros, __LINE__   *)
(* and its kind, are left out.                                             *)
(***************************************************************************)
EXTENDS Integers, Sequences, SequencesExt, FiniteSets, TLC

CONSTANTS
  Projects   \* records: main, the lines of the file that is compiled; files: path
             \* -> lines; include_paths: directories.  A path is a directory and a name

VARIABLES
  project,
  input,              \* tokens from here on
  output,
  macros,             \* name -> definition
  cond_incl,          \* the conditionals that are open, the innermost first
  pragma_once,        \* paths
  include_guards,     \* path -> name
  include_next_idx,
  cache,              \* of search_include_paths: name -> path
  status              \* "reading", "done" or "error"

vars == <<project, input, output, macros, cond_incl, pragma_once, include_guards,
          include_next_idx, cache, status>>

-----------------------------------------------------------------------------
(* Tokens.                                                                  *)

\* A line is a sequence of pairs: the kind of a token and its text.
Tokens(lines, path) ==
  LET ofLine(line) == [k \in DOMAIN line |-> [kind |-> line[k][1], text |-> line[k][2], at_bol |-> k = 1,
                                              hideset |-> {}, file |-> path]]
  IN FlattenSeq([k \in DOMAIN lines |-> ofLine(lines[k])])

None == [kind |-> "eof", text |-> "", at_bol |-> TRUE, hideset |-> {}, file |-> <<"", "">>]
At(s, k) == IF k <= Len(s) THEN s[k] ELSE None
From(s, k) == SubSeq(s, k, Len(s))
equal(tok, text) == tok.text = text /\ tok.kind \in {"punct", "ident"}
is_hash(s) == At(s, 1).at_bol /\ equal(At(s, 1), "#")

\* The number of tokens before the next one that begins a line.
LineLength(s) ==
  LET firsts == {k \in DOMAIN s : s[k].at_bol} IN
  IF firsts = {} THEN Len(s) ELSE (CHOOSE k \in firsts : \A j \in firsts : k <= j) - 1
copy_line(s) == SubSeq(s, 1, LineLength(s))
AfterLine(s) == From(s, LineLength(s) + 1)

\* Its loop goes on while tokens begin a line, so extra tokens stay.
skip_line(s) == s

add_hideset(s, hs) == [k \in DOMAIN s |-> [s[k] EXCEPT !.hideset = @ \cup hs]]

\* The first token of s gets the place of tok; at the end of the list that is the end.
InPlaceOf(tok, s) == IF s = <<>> THEN s ELSE [s EXCEPT ![1].at_bol = tok.at_bol]

find_macro(tok) == tok.kind = "ident" /\ tok.text \in DOMAIN macros

-----------------------------------------------------------------------------
(* Macro arguments.                                                         *)

Refused == [ok |-> FALSE]

\* Mutant: parentheses inside of an argument are not counted.
FirstComma(s, k, level, read_rest) ==
  LET ends == {j \in k..Len(s) : equal(s[j], ")") \/ (~read_rest /\ equal(s[j], ","))}
  IN IF ends = {} THEN 0 ELSE CHOOSE j \in ends : \A i \in ends : j <= i

\* The end of the argument that begins s: the first comma or parenthesis outside
\* of parentheses.  0 if there is none.
RECURSIVE ArgEnd(_, _, _, _)
ArgEnd(s, k, level, read_rest) ==
  CASE k > Len(s) -> 0
    [] level = 0 /\ (equal(At(s, k), ")") \/ (~read_rest /\ equal(At(s, k), ","))) -> k
    [] OTHER -> ArgEnd(s, k + 1, level + (IF equal(At(s, k), "(") THEN 1 ELSE IF equal(At(s, k), ")") THEN -1 ELSE 0),
                       read_rest)

\* args: name -> tokens; s begins after the "(" or at the comma before an argument.
RECURSIVE read_macro_args(_, _, _, _)
read_macro_args(s, params, va, args) ==
  LET first == args = <<>>
      comma == ~first /\ equal(At(s, 1), ",")
      rest == IF comma THEN Tail(s) ELSE s
      name == IF params # <<>> THEN Head(params) ELSE va
      end == ArgEnd(rest, 1, 0, params = <<>>)
      arg == name :> SubSeq(rest, 1, end - 1)
  IN CASE params = <<>> /\ (va = "" \/ equal(At(s, 1), ")")) ->
            IF equal(At(s, 1), ")")
              THEN [ok |-> TRUE, args |-> IF va = "" THEN args ELSE (va :> <<>>) @@ args, rest |-> s]
              ELSE Refused
       [] ~(params = <<>> /\ (va = "" \/ equal(At(s, 1), ")"))) /\ (end = 0 \/ ~(first \/ comma)) -> Refused
       [] OTHER -> IF params # <<>> THEN read_macro_args(From(rest, end), Tail(params), va, arg @@ args)
                   ELSE [ok |-> TRUE, args |-> arg @@ args, rest |-> From(rest, end)]

find_arg(args, tok) == tok.text \in DOMAIN args /\ tok.kind \in {"ident", "punct"}

JoinTexts(s) == FoldLeft(LAMBDA text, tok : text \o tok.text, "", s)
stringize(hash, arg) == [hash EXCEPT !.kind = "str", !.text = JoinTexts(arg), !.at_bol = TRUE, !.hideset = {}]

\* A pasted token is alone in a file of its own, where it begins a line.  A word or
\* a number goes on with another, nothing else makes one token.
CanPaste(l, r) == l.kind \in {"ident", "num"} /\ r.kind \in {"ident", "num"}
paste(l, r) == [l EXCEPT !.text = l.text \o r.text, !.at_bol = TRUE, !.hideset = {}]

-----------------------------------------------------------------------------
(* Replacement.                                                             *)

\* Mutant: the hideset of the closing parenthesis is left out.
NameHideset(name, macro_token, rparen) == macro_token.hideset \cup {name}

NewHideset(name, macro_token, rparen) == (macro_token.hideset \cap rparen.hideset) \cup {name}

Expands(s) ==
  LET tok == At(s, 1)
  IN /\ find_macro(tok) /\ tok.text \notin tok.hideset
     /\ macros[tok.text].is_objlike \/ equal(At(s, 2), "(")

RECURSIVE subst(_, _, _, _), expand_macro(_), Expanding(_, _, _, _, _)

\* Body s with the arguments put in after out; va is the one that takes the rest.
\* The replacement of an argument changes what a later use of it sees.
subst(s, args, va, out) ==
  LET tok == At(s, 1)
      next == At(s, 2)
      third == At(s, 3)
      go(n, more) == subst(From(s, n), args, va, out \o more)
      pasted(r) == Append(Front(out), paste(Last(out), r))
      lone(r, n, more) == IF CanPaste(Last(out), r) THEN subst(From(s, n), args, va, pasted(r) \o more) ELSE Refused
      opt == ArgEnd(s, 3, 0, TRUE)
  IN CASE s = <<>> -> [ok |-> TRUE, out |-> out]
       [] equal(tok, "#") -> IF find_arg(args, next) THEN go(3, <<stringize(tok, args[next.text])>>) ELSE Refused
       [] equal(tok, ",") /\ equal(next, "##") /\ find_arg(args, third) /\ third.text = va ->
            IF args[third.text] = <<>> THEN go(4, <<>>) ELSE go(3, <<tok>>)
       [] equal(tok, "##") ->
            IF out = <<>> \/ Len(s) = 1 THEN Refused
            ELSE IF ~find_arg(args, next) THEN lone(next, 3, <<>>)
            ELSE IF args[next.text] = <<>> THEN go(3, <<>>)
            ELSE lone(Head(args[next.text]), 3, Tail(args[next.text]))
       [] find_arg(args, tok) /\ equal(next, "##") ->
            IF args[tok.text] # <<>> THEN go(2, args[tok.text])
            ELSE go(4, IF find_arg(args, third) THEN args[third.text] ELSE <<third>>)
       [] equal(tok, "__VA_OPT__") /\ equal(next, "(") ->
            IF opt = 0 THEN Refused
            ELSE go(opt + 1, IF "__VA_ARGS__" \in DOMAIN args /\ args["__VA_ARGS__"] # <<>>
                               THEN SubSeq(s, 3, opt - 1) ELSE <<>>)
       [] find_arg(args, tok) ->
            LET list == args[tok.text]
                full == Expanding(list, Len(list), list, <<>>, 0)
                left == IF full.linked = 1 THEN InPlaceOf(tok, full.list) ELSE full.list
            IN IF full.ok THEN subst(From(s, 2), [args EXCEPT ![tok.text] = left], va, out \o InPlaceOf(tok, full.out))
               ELSE Refused
       [] OTHER -> go(2, <<tok>>)

\* The list after the macro call at its front is replaced; its last "left" tokens
\* were in it before.
expand_macro(s) ==
  LET tok == Head(s)
      m == macros[tok.text]
      call == read_macro_args(From(s, 3), m.params, m.va_args_name, <<>>)
      body == subst(m.body, call.args, m.va_args_name, <<>>)
      done(new, rest) == [ok |-> TRUE, rest |-> InPlaceOf(tok, new \o rest), left |-> Len(rest)]
  IN CASE m.is_objlike -> done(add_hideset(m.body, tok.hideset \cup {tok.text}), Tail(s))
       [] ~m.is_objlike /\ ~call.ok -> Refused
       [] OTHER -> IF ~body.ok THEN Refused
                   ELSE done(add_hideset(body.out, NewHideset(tok.text, tok, Head(call.rest))), Tail(call.rest))

\* preprocess2 of tokens without directives: an argument, the line of an #if.  The
\* last n of s are tokens of the list itself, which is linked anew: from the
\* first of its tokens that goes to the output (the linked-th there) it becomes
\* the output.  The tokens before that one stay, those of macro calls.
Expanding(s, n, list, out, linked) ==
  LET own == n = Len(s)
      e == expand_macro(s)
      kept == IF n < e.left THEN n ELSE e.left
      before == SubSeq(list, 1, Len(list) - n)
  IN CASE s = <<>> -> [ok |-> TRUE, out |-> out, linked |-> linked,
                       list |-> IF linked = 0 THEN list ELSE list \o From(out, linked)]
       [] s # <<>> /\ ~Expands(s) ->
            IF own /\ linked = 0 THEN Expanding(Tail(s), n - 1, before, Append(out, Head(s)), Len(out) + 1)
            ELSE Expanding(Tail(s), IF own THEN n - 1 ELSE n, list, Append(out, Head(s)), linked)
       [] OTHER ->
            IF ~e.ok THEN Refused
            ELSE Expanding(e.rest, kept,
                           IF linked # 0 THEN list
                           ELSE SubSeq(list, 1, Len(list) - kept) \o From(e.rest, Len(e.rest) - kept + 1),
                           out, linked)
Expanded(s) == Expanding(s, 0, <<>>, <<>>, 0)

-----------------------------------------------------------------------------
(* Conditions.                                                              *)

Number(n) == [None EXCEPT !.kind = "num", !.text = IF n THEN "1" ELSE "0", !.at_bol = FALSE]

RECURSIVE read_const_expr(_)
read_const_expr(s) ==
  LET paren == equal(At(s, 2), "(")
      name == IF paren THEN 3 ELSE 2
  IN CASE s = <<>> -> [ok |-> TRUE, out |-> <<>>]
       [] equal(At(s, 1), "defined") ->
            IF At(s, name).kind # "ident" \/ (paren /\ ~equal(At(s, 4), ")")) THEN Refused
            ELSE LET rest == read_const_expr(From(s, IF paren THEN 5 ELSE 3))
                 IN IF rest.ok THEN [rest EXCEPT !.out = <<Number(find_macro(At(s, name)))>> \o @] ELSE Refused
       [] OTHER -> LET rest == read_const_expr(Tail(s))
                   IN IF rest.ok THEN [rest EXCEPT !.out = <<Head(s)>> \o @] ELSE Refused

\* const_expr of a number with "!" before it any number of times.
RECURSIVE const_expr(_)
const_expr(s) ==
  CASE equal(At(s, 1), "!") -> LET e == const_expr(Tail(s)) IN IF e.ok THEN [e EXCEPT !.val = ~@] ELSE Refused
    [] Len(s) = 1 /\ At(s, 1).kind = "num" -> [ok |-> TRUE, val |-> At(s, 1).text # "0"]
    [] OTHER -> Refused

\* An identifier that is left is 0.
EvalReplaced(full) ==
  LET zero(t) == IF t.kind = "ident" THEN Number(FALSE) ELSE t
  IN IF ~full.ok THEN Refused ELSE const_expr([k \in DOMAIN full.out |-> zero(full.out[k])])

\* line: the tokens after if or elif.
eval_const_expr(line) ==
  LET expr == read_const_expr(line) IN IF ~expr.ok THEN Refused ELSE EvalReplaced(Expanded(expr.out))

Opens(s) == is_hash(s) /\ \E text \in {"if", "ifdef", "ifndef"} : equal(At(s, 2), text)

RECURSIVE skip_cond_incl2(_)
skip_cond_incl2(s) ==
  CASE s = <<>> -> s
    [] Opens(s) -> skip_cond_incl2(skip_cond_incl2(From(s, 3)))
    [] is_hash(s) /\ equal(At(s, 2), "endif") -> From(s, 3)
    [] OTHER -> skip_cond_incl2(Tail(s))

RECURSIVE skip_cond_incl(_)
skip_cond_incl(s) ==
  CASE s = <<>> -> s
    [] Opens(s) -> skip_cond_incl(skip_cond_incl2(From(s, 3)))
    [] is_hash(s) /\ (\E text \in {"elif", "else", "endif"} : equal(At(s, 2), text)) -> s
    [] OTHER -> skip_cond_incl(Tail(s))

push_cond_incl(included) == <<[ctx |-> "then", included |-> included]>> \o cond_incl

-----------------------------------------------------------------------------
(* Files.                                                                   *)

file_exists(path) == path \in DOMAIN project.files
Failed == <<"", "">>

Paths(name) == {k \in DOMAIN project.include_paths : file_exists(<<project.include_paths[k], name>>)}
FirstPath(name, from) ==
  LET found == {k \in Paths(name) : k >= from}
  IN IF found = {} THEN 0 ELSE CHOOSE k \in found : \A j \in found : k <= j

\* name and the rest of the tokens after the name, for "name", <name> and macros.
RECURSIVE read_include_filename(_)
read_include_filename(s) ==
  LET close == {k \in 2..Len(s) : equal(s[k], ">") /\ \A j \in 2..k : ~s[j].at_bol}
      end == CHOOSE k \in close : \A j \in close : k <= j
      named == read_include_filename(Expanded(copy_line(s)).out)
  IN CASE At(s, 1).kind = "str" -> [ok |-> TRUE, name |-> s[1].text, dquote |-> TRUE, rest |-> skip_line(Tail(s))]
       [] equal(At(s, 1), "<") /\ close # {} ->
            [ok |-> TRUE, name |-> JoinTexts(SubSeq(s, 2, end - 1)), dquote |-> FALSE, rest |-> skip_line(From(s, end + 1))]
       [] At(s, 1).kind = "ident" /\ find_macro(At(s, 1)) ->
            IF named.ok THEN [named EXCEPT !.rest = AfterLine(s)] ELSE Refused
       [] OTHER -> Refused

\* The name of an #ifndef and a #define that begin the file, if an #endif ends
\* it.  The test for nested conditionals looks at the "#" and finds none.
detect_include_guard(s) ==
  LET n == Len(s)
      name == At(s, 3).text
      end == n > 1 /\ is_hash(From(s, n - 1)) /\ equal(At(s, n), "endif")
  IN IF /\ is_hash(s) /\ equal(At(s, 2), "ifndef") /\ At(s, 3).kind = "ident"
        /\ is_hash(From(s, 4)) /\ equal(At(s, 5), "define") /\ equal(At(s, 6), name)
        /\ end
       THEN name ELSE ""

-----------------------------------------------------------------------------
(* One turn of preprocess2.                                                 *)

Init ==
  /\ project \in Projects
  /\ input = Tokens(project.main, <<"", "main">>)
  /\ output = <<>>
  /\ macros = <<>>
  /\ cond_incl = <<>>
  /\ pragma_once = {}
  /\ include_guards = <<>>
  /\ include_next_idx = 1
  /\ cache = <<>>
  /\ status = "reading"

includes == <<pragma_once, include_guards, include_next_idx, cache>>

Error == /\ status' = "error"
         /\ UNCHANGED <<input, output, macros, cond_incl, includes>>

\* The token at the front is no macro that can be replaced; the directive name.
Directive(name) ==
  status = "reading" /\ UNCHANGED project /\ is_hash(input) /\ equal(At(input, 2), name)
Goes(rest) == input' = rest /\ UNCHANGED <<output, status>>

Expand ==
  /\ status = "reading" /\ UNCHANGED project /\ Expands(input)
  /\ LET e == expand_macro(input)
     IN IF e.ok THEN Goes(e.rest) /\ UNCHANGED <<macros, cond_incl, includes>> ELSE Error

Pass ==
  /\ status = "reading" /\ UNCHANGED project /\ input # <<>> /\ ~Expands(input) /\ ~is_hash(input)
  /\ output' = Append(output, Head(input))
  /\ input' = Tail(input)
  /\ UNCHANGED <<macros, cond_incl, includes, status>>

\* path <<>> stands for the name itself, which is not among the files.
include_file(rest, path) ==
  IF path \in pragma_once \/ (path \in DOMAIN include_guards /\ include_guards[path] \in DOMAIN macros)
    THEN Goes(rest) /\ UNCHANGED <<macros, cond_incl, pragma_once, include_guards>>
  ELSE IF ~file_exists(path)
    THEN status' = "error" /\ UNCHANGED <<input, output, macros, cond_incl, pragma_once, include_guards>>
  ELSE LET new == Tokens(project.files[path], path)
           guard == detect_include_guard(new)
       IN /\ Goes(new \o rest)
          /\ include_guards' = IF guard = "" THEN include_guards ELSE (path :> guard) @@ include_guards
          /\ UNCHANGED <<macros, cond_incl, pragma_once>>

Include ==
  /\ Directive("include")
  /\ \E file \in {read_include_filename(From(input, 3))} :
     LET own == <<Head(input).file[1], file.name>>
         k == FirstPath(file.name, 1)
     IN CASE ~file.ok -> Error
          [] file.ok /\ file.dquote /\ file_exists(own) ->
               include_file(file.rest, own) /\ UNCHANGED <<include_next_idx, cache>>
          [] OTHER ->
               IF file.name \in DOMAIN cache
                 THEN include_file(file.rest, cache[file.name]) /\ UNCHANGED <<include_next_idx, cache>>
               ELSE IF k = 0
                 THEN include_file(file.rest, Failed) /\ UNCHANGED <<include_next_idx, cache>>
               ELSE /\ include_file(file.rest, <<project.include_paths[k], file.name>>)
                    /\ cache' = (file.name :> <<project.include_paths[k], file.name>>) @@ cache
                    /\ include_next_idx' = k + 1

IncludeNext ==
  /\ Directive("include_next")
  /\ \E file \in {read_include_filename(From(input, 3))} :
     LET k == FirstPath(file.name, include_next_idx)
     IN IF ~file.ok THEN Error
        ELSE /\ include_file(file.rest, IF k = 0 THEN Failed ELSE <<project.include_paths[k], file.name>>)
             /\ include_next_idx' = IF k = 0 THEN Len(project.include_paths) + 1 ELSE k
             /\ UNCHANGED cache

\* The parameters from s on: their names, that of the rest, and what follows.
RECURSIVE read_macro_params(_, _)
read_macro_params(s, params) ==
  LET rest == IF params = <<>> THEN s ELSE Tail(s)
      tok == At(rest, 1)
  IN CASE equal(At(s, 1), ")") -> [ok |-> TRUE, params |-> params, va |-> "", rest |-> Tail(s)]
       [] params # <<>> /\ ~equal(At(s, 1), ",") /\ ~equal(At(s, 1), ")") -> Refused
       [] OTHER ->
            IF equal(tok, "...") /\ equal(At(rest, 2), ")")
              THEN [ok |-> TRUE, params |-> params, va |-> "__VA_ARGS__", rest |-> From(rest, 3)]
            ELSE IF tok.kind = "ident" /\ equal(At(rest, 2), "...") /\ equal(At(rest, 3), ")")
              THEN [ok |-> TRUE, params |-> params, va |-> tok.text, rest |-> From(rest, 4)]
            ELSE IF tok.kind = "ident" /\ ~equal(At(rest, 2), "...")
              THEN read_macro_params(Tail(rest), Append(params, tok.text))
            ELSE Refused

Define ==
  /\ Directive("define")
  /\ LET name == At(input, 3)
         funclike == equal(At(input, 4), "(")
         p == IF funclike THEN read_macro_params(From(input, 5), <<>>)
              ELSE [ok |-> TRUE, params |-> <<>>, va |-> "", rest |-> From(input, 4)]
     IN IF name.kind # "ident" \/ ~p.ok THEN Error
        ELSE /\ macros' = (name.text :> [is_objlike |-> ~funclike, params |-> p.params, va_args_name |-> p.va,
                                         body |-> copy_line(p.rest)]) @@ macros
             /\ Goes(AfterLine(p.rest))
             /\ UNCHANGED <<cond_incl, includes>>

Undef ==
  /\ Directive("undef")
  /\ IF At(input, 3).kind # "ident" THEN Error
     ELSE /\ macros' = [name \in DOMAIN macros \ {At(input, 3).text} |-> macros[name]]
          /\ Goes(skip_line(From(input, 4)))
          /\ UNCHANGED <<cond_incl, includes>>

Opened(included, rest) ==
  /\ cond_incl' = push_cond_incl(included)
  /\ Goes(IF included THEN rest ELSE skip_cond_incl(rest))
  /\ UNCHANGED <<macros, includes>>

If ==
  /\ Directive("if")
  /\ \E val \in {eval_const_expr(copy_line(From(input, 3)))} :
     IF val.ok THEN Opened(val.val, AfterLine(From(input, 3))) ELSE Error

Ifdef ==
  \/ Directive("ifdef") /\ Opened(find_macro(At(input, 3)), skip_line(From(input, 4)))
  \/ Directive("ifndef") /\ Opened(~find_macro(At(input, 3)), skip_line(From(input, 4)))

MayTake(ci) == ~ci.included

Elif ==
  /\ Directive("elif")
  /\ IF cond_incl = <<>> \/ Head(cond_incl).ctx = "else" THEN Error
     ELSE \E val \in {eval_const_expr(copy_line(From(input, 3)))} :
          LET take == MayTake(Head(cond_incl))
              goes(included, rest) ==
                /\ cond_incl' = <<[ctx |-> "elif", included |-> included]>> \o Tail(cond_incl)
                /\ Goes(rest)
                /\ UNCHANGED <<macros, includes>>
          IN CASE take /\ ~val.ok -> Error
               [] take /\ val.ok /\ val.val -> goes(TRUE, AfterLine(From(input, 3)))
               [] take /\ val.ok /\ ~val.val -> goes(Head(cond_incl).included, skip_cond_incl(AfterLine(From(input, 3))))
               [] OTHER -> goes(Head(cond_incl).included, skip_cond_incl(From(input, 2)))

Else ==
  /\ Directive("else")
  /\ IF cond_incl = <<>> \/ Head(cond_incl).ctx = "else" THEN Error
     ELSE /\ cond_incl' = <<[Head(cond_incl) EXCEPT !.ctx = "else"]>> \o Tail(cond_incl)
          /\ Goes(IF MayTake(Head(cond_incl)) THEN skip_line(From(input, 3)) ELSE skip_cond_incl(skip_line(From(input, 3))))
          /\ UNCHANGED <<macros, includes>>

Endif ==
  /\ Directive("endif")
  /\ IF cond_incl = <<>> THEN Error
     ELSE cond_incl' = Tail(cond_incl) /\ Goes(skip_line(From(input, 3))) /\ UNCHANGED <<macros, includes>>

\* The arguments go through preprocess, which wants no conditional to be open.
Line ==
  /\ Directive("line")
  /\ \E line \in {Expanded(copy_line(From(input, 3)))} :
     IF cond_incl # <<>> \/ ~line.ok \/ At(line.out, 1).kind # "num" \/ (Len(line.out) > 1 /\ line.out[2].kind # "str")
          THEN Error
          ELSE Goes(AfterLine(From(input, 3))) /\ UNCHANGED <<macros, cond_incl, includes>>

Pragma ==
  /\ Directive("pragma")
  /\ LET once == equal(At(input, 3), "once")
     IN /\ pragma_once' = IF once THEN pragma_once \cup {At(input, 3).file} ELSE pragma_once
        /\ Goes(IF once THEN skip_line(From(input, 4)) ELSE AfterLine(From(input, 3)))
  /\ UNCHANGED <<macros, cond_incl, include_guards, include_next_idx, cache>>

Directives == {"include", "include_next", "define", "undef", "if", "ifdef", "ifndef", "elif", "else", "endif",
               "line", "pragma"}

\* A "#" alone, #error, and what is no directive.
OtherDirective ==
  /\ status = "reading" /\ UNCHANGED project /\ is_hash(input)
  /\ ~\E name \in Directives : equal(At(input, 2), name)
  /\ IF At(input, 2).at_bol THEN Goes(Tail(input)) /\ UNCHANGED <<macros, cond_incl, includes>> ELSE Error

\* preprocess: string literals that follow each other are one.
join_adjacent_string_literals(s) ==
  LET join(out, tok) ==
        IF out # <<>> /\ Last(out).kind = "str" /\ tok.kind = "str"
          THEN Append(Front(out), [Last(out) EXCEPT !.text = @ \o tok.text])
          ELSE Append(out, tok)
  IN FoldLeft(join, <<>>, s)

Finish ==
  /\ status = "reading" /\ input = <<>>
  /\ IF cond_incl # <<>> THEN status' = "error" /\ UNCHANGED output
     ELSE status' = "done" /\ output' = join_adjacent_string_literals(output)
  /\ UNCHANGED <<project, input, macros, cond_incl, includes>>

Ended == status # "reading" /\ UNCHANGED vars

Next ==
  \/ Expand \/ Pass \/ Include \/ IncludeNext \/ Define \/ Undef
  \/ If \/ Ifdef \/ Elif \/ Else \/ Endif
  \/ Line \/ Pragma \/ OtherDirective \/ Finish \/ Ended

Spec == Init /\ [][Next]_vars

=============================================================================
