------------------------- MODULE PreprocessorMeaning -------------------------
(***************************************************************************)
(* What a C file means before it is parsed, after sections 6.10.1 to       *)
(* 6.10.3 of the standard that the source cites: a file is a sequence of   *)
(* lines; of each conditional the first group whose condition holds is     *)
(* kept; the text between directives is replaced with the macros of that   *)
(* point.  A macro is not replaced inside of its own replacement: here the *)
(* end of a replacement is a mark in the list, where the code keeps sets   *)
(* of names with the tokens.                                               *)
(***************************************************************************)
EXTENDS Preprocessor

Blank == [kind |-> "eof", text |-> "", blue |-> FALSE]
Word(kind, text) == [kind |-> kind, text |-> text, blue |-> FALSE]
Mark(name) == Word("end", name)
Wrong == <<Word("wrong", "")>>
IsWrong(s) == \E k \in DOMAIN s : s[k].kind = "wrong"
Is(w, text) == w.text = text /\ w.kind \in {"punct", "ident"}
Nth(s, k) == IF k <= Len(s) THEN s[k] ELSE Blank
Texts(s) == [k \in DOMAIN s |-> <<s[k].kind, s[k].text>>]

-----------------------------------------------------------------------------
(* Replacement.                                                             *)

\* Macro name is being replaced where s[k] stands.
Active(s, k) == \E j \in k..Len(s) : s[j] = Mark(s[k].text)
Painted(s) == [k \in DOMAIN s |-> [s[k] EXCEPT !.blue = @ \/ (s[k].kind = "ident" /\ Active(s, k))]]
Unmarked(s) == SelectSeq(s, LAMBDA w : w.kind # "end")

\* The depth of parentheses after s[k], where s begins with "(".
Depth(s, k) ==
  Cardinality({j \in 1..k : Is(s[j], "(")}) - Cardinality({j \in 1..k : Is(s[j], ")")})

\* A call whose list begins s, for a macro with n parameters and a rest or not:
\* its arguments, and the length of the list.
Arguments(s, n, va) ==
  LET closing == {k \in DOMAIN s : Depth(s, k) = 0}
      close == CHOOSE k \in closing : \A j \in closing : k <= j
      commas == {k \in 1..close : Is(s[k], ",") /\ Depth(s, k) = 1}
      cuts == SetToSortSeq({k \in commas : ~va \/ Cardinality({j \in commas : j <= k}) <= n}, <)
      ends == <<1>> \o cuts \o <<close>>
      args == [k \in 1..(Len(ends) - 1) |-> Unmarked(SubSeq(s, ends[k] + 1, ends[k + 1] - 1))]
      none == n = 0 /\ args = <<<<>>>>
      short == va /\ Len(args) = n
  IN IF closing = {} THEN [ok |-> FALSE]
     ELSE [ok |-> none \/ short \/ Len(args) = n + (IF va THEN 1 ELSE 0),
           args |-> IF none /\ ~va THEN <<>> ELSE IF short THEN Append(args, <<>>) ELSE args,
           length |-> close]

Glue(l, r) ==
  CASE l = <<>> \/ r = <<>> -> l \o r
    [] OTHER -> IF CanPaste(Last(l), Head(r))
                  THEN Front(l) \o <<Word(Last(l).kind, Last(l).text \o Head(r).text)>> \o Tail(r)
                  ELSE Wrong

\* What the operators "#" and "##" make of a body.
RECURSIVE Operands(_, _)
Operands(body, glue) ==
  CASE body = <<>> -> <<>>
    [] Is(Nth(body, 1), "##") -> Operands(Tail(body), TRUE)
    [] Is(Nth(body, 1), "#") -> <<[glue |-> glue, string |-> TRUE, word |-> Nth(body, 2)]>> \o Operands(SubSeq(body, 3, Len(body)), FALSE)
    [] OTHER -> <<[glue |-> glue, string |-> FALSE, word |-> body[1]]>> \o Operands(Tail(body), FALSE)

\* __VA_OPT__ ( x ) is x or nothing.
WithoutOpt(body, keeps) ==
  LET opts == {k \in DOMAIN body : Is(body[k], "__VA_OPT__")}
      o == CHOOSE k \in opts : TRUE
      close == CHOOSE k \in DOMAIN body : k > o /\ Is(body[k], ")") /\ \A j \in o..(k - 1) : ~Is(body[j], ")")
  IN IF opts = {} THEN body
     ELSE SubSeq(body, 1, o - 1) \o (IF keeps THEN SubSeq(body, o + 2, close - 1) ELSE <<>>) \o SubSeq(body, close + 1, Len(body))

RECURSIVE Replaced(_, _)

\* Operands of a body of d with the arguments for its names, the last one va's.
Joined(ops, d, names, args, defs) ==
  LET named(w) == {j \in DOMAIN names : Is(w, names[j])}
      arg(w) == args[CHOOSE j \in named(w) : TRUE]
      glued(k) == k \in DOMAIN ops /\ ops[k].glue
      optional(k) == k + 1 \in DOMAIN ops /\ Is(ops[k].word, ",") /\ glued(k + 1) /\ d.va # "" /\ Is(ops[k + 1].word, d.va)
      text(k) ==
        LET w == ops[k].word
        IN CASE optional(k) -> IF arg(ops[k + 1].word) = <<>> THEN <<>> ELSE <<w>>
             [] ~optional(k) /\ ops[k].string -> IF named(w) = {} THEN Wrong ELSE <<Word("str", JoinTexts(arg(w)))>>
             [] ~optional(k) /\ ~ops[k].string /\ named(w) # {} ->
                  IF (glued(k) /\ ~optional(k - 1)) \/ glued(k + 1) THEN arg(w) ELSE Replaced(arg(w), defs)
             [] OTHER -> <<w>>
      \* Operands between "##"s are joined from the left, an empty one with nothing.
      step(units, k) ==
        IF glued(k) /\ ~(k > 1 /\ optional(k - 1)) THEN Append(Front(units), Glue(Last(units), text(k)))
        ELSE Append(units, text(k))
  IN FlattenSeq(FoldLeft(step, <<>>, [k \in DOMAIN ops |-> k]))

Substituted(d, args, defs) ==
  Joined(Operands(WithoutOpt(d.body, d.va # "" /\ Last(args) # <<>>), FALSE), d,
         IF d.va = "" THEN d.params ELSE Append(d.params, d.va), args, defs)

\* new stands for the macro name, and after comes after it.
Rescanned(name, new, after, defs) ==
  IF IsWrong(new) THEN Wrong ELSE Replaced(new \o <<Mark(name)>> \o after, defs)

\* A call of d; rest begins with its list at paren.
Called(name, d, call, paren, rest, defs) ==
  IF ~call.ok THEN Wrong
  ELSE Rescanned(name, Substituted(d, call.args, defs), SubSeq(rest, paren + call.length, Len(rest)), defs)

\* The list s after replacement with macros defs.
Replaced(s, defs) ==
  LET w == s[1]
      d == defs[w.text]
      rest == Tail(s)
      paren == CHOOSE k \in 1..(Len(rest) + 1) : /\ \A j \in 1..(k - 1) : rest[j].kind = "end"
                                                 /\ k = Len(rest) + 1 \/ rest[k].kind # "end"
      list == SubSeq(Painted(rest), paren, Len(rest))
  IN CASE s = <<>> -> <<>>
       [] s # <<>> /\ w.kind = "end" -> Replaced(rest, defs)
       [] OTHER ->
            IF w.kind # "ident" \/ w.text \notin DOMAIN defs \/ w.blue \/ Active(s, 1)
               \/ (~d.objlike /\ ~Is(Nth(rest, paren), "("))
              THEN <<[w EXCEPT !.blue = @ \/ (w.kind = "ident" /\ Active(s, 1))]>> \o Replaced(rest, defs)
            ELSE IF d.objlike THEN Rescanned(w.text, d.body, rest, defs)
            ELSE Called(w.text, d, Arguments(list, Len(d.params), d.va # ""), paren, rest, defs)

-----------------------------------------------------------------------------
(* Lines.                                                                   *)

DirectiveOf(line) == IF Is(Word(line[1][1], line[1][2]), "#") /\ Len(line) > 1 THEN line[2][2] ELSE ""
WordsFrom(line, k) == [j \in 1..(Len(line) - k + 1) |-> Word(line[j + k - 1][1], line[j + k - 1][2])]

Openers == {"if", "ifdef", "ifndef"}
Branches == {"elif", "else"}

\* The line that ends the group that line g of a file begins; 0 for none.
GroupEnd(lines, g) ==
  LET of(names, k) == Cardinality({j \in (g + 1)..(k - 1) : DirectiveOf(lines[j]) \in names})
      ends == {k \in (g + 1)..Len(lines) :
                 DirectiveOf(lines[k]) \in Branches \cup {"endif"} /\ of(Openers, k) = of({"endif"}, k)}
  IN IF ends = {} THEN 0 ELSE CHOOSE k \in ends : \A j \in ends : k <= j
Groups(lines) == {k \in DOMAIN lines : DirectiveOf(lines[k]) \in Openers \cup Branches}
Before(lines, g) == {h \in Groups(lines) : GroupEnd(lines, h) = g}

\* The groups of one conditional, from its first to g.
RECURSIVE Earlier(_, _)
Earlier(lines, g) == UNION {{h} \cup Earlier(lines, h) : h \in Before(lines, g)}
Enclosing(lines, k) == {g \in Groups(lines) : g < k /\ GroupEnd(lines, g) > k}

WellNested(lines, k) ==
  LET d == DirectiveOf(lines[k])
  IN /\ d \in Openers \cup Branches => GroupEnd(lines, k) # 0
     /\ d \in Branches \cup {"endif"} => Before(lines, k) # {}
     /\ d \in Branches => \A g \in Before(lines, k) : DirectiveOf(lines[g]) # "else"

\* A condition after replacement.
HoldsReplaced(full) ==
  LET nots == {k \in DOMAIN full : Is(full[k], "!")}
      number == Nth(full, Len(full))
  IN [ok |-> full # <<>> /\ nots = 1..(Len(full) - 1) /\ number.kind \in {"num", "ident"},
      val |-> (number.kind = "num" /\ number.text # "0") # (Cardinality(nots) % 2 = 1)]

\* A condition: "defined" first, then macros, then 0 for every other name.
Holds(words, defs) ==
  LET isDefined(k) == k > 1 /\ (Is(words[k - 1], "defined") \/ (k > 2 /\ Is(words[k - 1], "(") /\ Is(words[k - 2], "defined")))
      one(k) == IF isDefined(k) THEN <<Word("num", IF words[k].text \in DOMAIN defs THEN "1" ELSE "0")>>
                ELSE IF Is(words[k], "defined") \/ (k > 1 /\ Is(words[k - 1], "defined"))
                        \/ (k > 2 /\ Is(words[k], ")") /\ isDefined(k - 1)) THEN <<>>
                ELSE <<words[k]>>
  IN HoldsReplaced(
       Replaced(FlattenSeq([k \in DOMAIN words |-> IF isDefined(k) /\ Is(words[k], "(") THEN <<>> ELSE one(k)]), defs))

\* What a directive or a text line does to st: defs, the words of the text that
\* is still open, what came out, the groups that are kept, paths with #pragma
\* once; wrong is an error.
WithText(st, new) == [st EXCEPT !.text = <<>>, !.out = @ \o new, !.wrong = @ \/ IsWrong(new)]
Flushed(st) == WithText(st, Replaced(st.text, st.defs))

Definition(line) ==
  LET words == WordsFrom(line, 4)
      funclike == Is(Nth(words, 1), "(")
      close == CHOOSE k \in DOMAIN words : Is(words[k], ")") /\ \A j \in 1..(k - 1) : ~Is(words[j], ")")
      names == SelectSeq(SubSeq(words, 2, close - 1), LAMBDA w : w.kind = "ident")
      dots == \E k \in 1..close : Is(words[k], "...")
      given == dots /\ words[close - 2].kind = "ident"
      texts == [k \in DOMAIN names |-> names[k].text]
  IN [objlike |-> ~funclike,
      params |-> IF ~funclike THEN <<>> ELSE IF given THEN Front(texts) ELSE texts,
      va |-> IF ~funclike \/ ~dots THEN "" ELSE IF given THEN Last(texts) ELSE "__VA_ARGS__",
      body |-> IF funclike THEN SubSeq(words, close + 1, Len(words)) ELSE words]

\* The file that the words of a line of the file at path name; <<>> for none.
Named(line, words, path) ==
  LET quoted == words[1].kind = "str"
      name == IF quoted THEN words[1].text ELSE JoinTexts(SubSeq(words, 2, Len(words) - 1))
      dirs == project.include_paths
      from == IF DirectiveOf(line) = "include" THEN 1
              ELSE 1 + (CHOOSE k \in DOMAIN dirs : dirs[k] = path[1])
      found == FirstPath(name, from)
  IN IF DirectiveOf(line) = "include" /\ quoted /\ file_exists(<<path[1], name>>) THEN <<path[1], name>>
     ELSE IF found = 0 THEN <<>> ELSE <<dirs[found], name>>

Included(line, path, defs) ==
  LET given == WordsFrom(line, 3)
  IN Named(line, IF given[1].kind = "ident" THEN Replaced(given, defs) ELSE given, path)

Faulty(st) == [st EXCEPT !.wrong = TRUE]
Kept(st, k) == [st EXCEPT !.kept = @ \cup {k}]
KeptIf(st, k, cond) == IF ~cond.ok THEN Faulty(st) ELSE IF cond.val THEN Kept(st, k) ELSE st

RECURSIVE Meaning(_, _, _, _)

\* st after the file at path is included.
Entered(st, path) ==
  CASE path = <<>> -> Faulty(st)
    [] path # <<>> /\ path \in st.once -> st
    [] OTHER -> [Meaning(project.files[path], path, 1, [st EXCEPT !.kept = {}]) EXCEPT !.kept = st.kept]

\* at, where no text is open, after the directive on line k of the file at path.
Obeyed(lines, path, k, d, at) ==
  LET name == Nth(WordsFrom(lines[k], 3), 1).text
      first == Earlier(lines, k) \cap at.kept = {}
  IN CASE ~WellNested(lines, k) -> Faulty(at)
       [] WellNested(lines, k) /\ d \in {"if", "elif"} ->
            IF first THEN KeptIf(at, k, Holds(WordsFrom(lines[k], 3), at.defs)) ELSE at
       [] WellNested(lines, k) /\ d \notin {"if", "elif"} ->
            CASE d = "define" -> [at EXCEPT !.defs = (name :> Definition(lines[k])) @@ at.defs]
              [] d = "undef" -> [at EXCEPT !.defs = [n \in DOMAIN @ \ {name} |-> @[n]]]
              [] d \in {"include", "include_next"} -> Entered(at, Included(lines[k], path, at.defs))
              [] d = "ifdef" -> IF name \in DOMAIN at.defs THEN Kept(at, k) ELSE at
              [] d = "ifndef" -> IF name \notin DOMAIN at.defs THEN Kept(at, k) ELSE at
              [] d = "else" -> IF first THEN Kept(at, k) ELSE at
              [] d = "pragma" -> IF name = "once" THEN [at EXCEPT !.once = @ \cup {path}] ELSE at
              [] d \in {"endif", "line", ""} -> at
              [] OTHER -> Faulty(at)

\* st after lines k and on of the file at path.
Meaning(lines, path, k, st) ==
  LET text == lines[k][1][2] # "#" /\ DirectiveOf(lines[k]) = ""
      live == Enclosing(lines, k) \subseteq st.kept
      after ==
        CASE ~live -> st
          [] live /\ text -> [st EXCEPT !.text = @ \o WordsFrom(lines[k], 1)]
          [] live /\ ~text -> Obeyed(lines, path, k, DirectiveOf(lines[k]), Flushed(st))
  IN IF st.wrong THEN st ELSE IF k > Len(lines) THEN Flushed(st) ELSE Meaning(lines, path, k + 1, after)

Standard ==
  Meaning(project.main, <<"", "main">>, 1,
          [defs |-> <<>>, text |-> <<>>, out |-> <<>>, kept |-> {}, once |-> {}, wrong |-> FALSE])

-----------------------------------------------------------------------------
(* Properties.                                                              *)

\* When the preprocessor is done its output is the text that the standard gives:
\* the right groups of every conditional, every macro replaced to its end and
\* none inside of itself, each file read where it is included, whatever guards,
\* #pragma once and the cache of paths save (preprocess2, expand_macro, subst).
OutputAsDefined ==
  status = "done" =>
    LET s == Standard IN ~s.wrong /\ Texts(output) = Texts(join_adjacent_string_literals(s.out))

\* #line inside of a conditional: read_line_marker hands its arguments to preprocess,
\* which finds the conditional open at their end and calls it unterminated.
LineInConditional == is_hash(input) /\ equal(At(input, 2), "line") /\ cond_incl # <<>>

\* Text is refused only when it is wrong: a conditional that is not well nested, a
\* condition, a call or a "##" that cannot be made sense of, a file that is not
\* there (error_tok).  The one exception is a #line that is kept by a conditional.
RefusesOnlyIllFormed == status = "error" => Standard.wrong \/ LineInConditional

=============================================================================
