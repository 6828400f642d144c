---------------------------- MODULE MCPreprocessor ----------------------------
(***************************************************************************)
(* Projects for the preprocessor: conditionals in every order of six       *)
(* lines, definitions of two or three macros and a call, and files that    *)
(* include each other from two directories.                                *)
(***************************************************************************)
EXTENDS PreprocessorMeaning

Puncts == {"#", "##", "(", ")", ",", "...", "<", ">", "!"}
Numbers == {"0", "1", "2"}
Pair(text) == <<IF text \in Puncts THEN "punct" ELSE IF text \in Numbers THEN "num" ELSE "ident", text>>
L(texts) == [k \in DOMAIN texts |-> Pair(texts[k])]
Quoted(d, name) == <<Pair("#"), Pair(d), <<"str", name>>>>
Angled(d, name) == L(<<"#", d, "<", name, ">">>)
Def(texts) == L(<<"#", "define">> \o texts)

Alone(main) == [main |-> main, files |-> <<>>, include_paths |-> <<>>]
Lines(sets) == {f \in [DOMAIN sets -> UNION {sets[k] : k \in DOMAIN sets}] : \A k \in DOMAIN sets : f[k] \in sets[k]}

-----------------------------------------------------------------------------
Ifs == {L(<<"#", "if", "A">>), L(<<"#", "ifdef", "A">>), L(<<"#", "ifndef", "A">>),
        L(<<"#", "if", "!", "defined", "(", "B", ")">>)}
Conditional ==
  Ifs \cup {L(<<"#", "elif", "defined", "A">>), L(<<"#", "elif", "1">>), L(<<"#", "else">>), L(<<"#", "endif">>),
            Def(<<"A", "1">>), L(<<"#", "undef", "A">>), L(<<"A", "B">>)}
Opening == {L(<<"#", "if", "A">>), L(<<"#", "ifdef", "A">>), L(<<"#", "ifndef", "A">>), Def(<<"A", "1">>)}
Closing == {L(<<"#", "endif">>), L(<<"#", "else">>), L(<<"A", "B">>)}
Conditionals ==
  {Alone(main) : main \in Lines(<<Opening, Conditional, Conditional, Conditional, {L(<<"#", "endif">>)}>>)}
  \cup {Alone(main) : main \in Lines(<<{L(<<"#", "if", "A">>), L(<<"#", "if", "1">>)}, {L(<<"x">>), L(<<"#", "if", "0">>)},
                                       Closing \cup {L(<<"#", "elif", "1">>)}, Closing, Closing,
                                       {L(<<"#", "endif">>), L(<<"y">>), L(<<"#", "line", "1">>)}>>)}
  \* A #line that is kept by a conditional, or is not.
  \cup {Alone(main) : main \in Lines(<<Opening, {L(<<"x">>), L(<<"#", "line", "1">>)}, Closing, {L(<<"#", "line", "2">>)},
                                       {L(<<"#", "endif">>)}>>)}

-----------------------------------------------------------------------------
\* #define f ( x ) and a body, and so on.
F(body) == Def(<<"f", "(", "x", ")">> \o body)
G(body) == Def(<<"g", "(", "x", ")">> \o body)
Bodies_f == {<<"x">>, <<"x", "f">>, <<"f", "(", "x", ")">>, <<"x", "g">>, <<"#", "x", "x">>, <<"x", "##", "1">>,
             <<"a", "##", "x", "A">>, <<"x", "(", "A", ")">>}
Bodies_g == {<<"f", "(", "x", ")">>, <<"f">>, <<"x", "g">>, <<"A">>, <<"f", "(", "g", ")", "(", "x", ")">>}
Bodies_A == {<<"A", "1">>, <<"f">>, <<"f", "(", "1">>, <<"g", "(", "f", ")">>, <<"a", "1">>}
Calls == {<<"f", "(", "A", ")">>, <<"f", "(", "f", ")", "(", "1", ")">>, <<"A", "(", "2", ")">>, <<"A", ")">>,
          <<"f", "(", "g", "(", "A", ")", ")">>, <<"g", "(", "f", ")", "(", "2", ")">>, <<"f", "(", "(", "A", ",", "1", ")", ")">>,
          <<"f", "A">>, <<"f", "(", "1", ",", "2", ")">>, <<"g", "(", "1">>, <<"f", "(", ")", "x">>}
Recursive ==
  {Alone(<<F(f), G(g), Def(<<"A">> \o a), L(t)>>) : f \in Bodies_f, g \in Bodies_g, a \in Bodies_A, t \in Calls}
  \cup {Alone(<<Def(<<"A", "B">>), Def(<<"B">> \o b), L(<<"A", "B">>)>>) : b \in {<<"A">>, <<"A", "B">>, <<"A", "A">>}}

Bodies_p == {<<"x", "##", "y">>, <<"x", "##", "y", "##", "1">>, <<"A", "x", "##", "1", "y">>, <<"#", "x", "#", "y">>, <<"y", "x">>}
Calls_p == {<<"p", "(", "A", ",", "1", ")">>, <<"p", "(", "A", ",", ")">>, <<"p", "(", ",", "1", ")">>,
            <<"p", "(", "p", "(", "1", ",", "2", ")", ",", "A", ")">>, <<"p", "(", "A", ")">>,
            <<"p", "(", "A", "1", ",", "A", "1", ")">>, <<"p", "(", "(", ",", ")", ",", "2", ")">>}
Bodies_v == {<<"x", ",", "##", "__VA_ARGS__">>, <<"#", "__VA_ARGS__">>, <<"x", "__VA_OPT__", "(", ",", ")", "__VA_ARGS__">>,
             <<"f", "(", "__VA_ARGS__", ")">>}
Calls_v == {<<"v", "(", ")">>, <<"v", "(", "1", ")">>, <<"v", "(", "1", ",", "A", ")">>, <<"v", "(", "1", ",", "A", ",", "2", ")">>,
            <<"v", "(", "1", ",", ")">>, <<"v", "(", ",", "v", "(", "1", ",", "2", ")", ")">>}
Arglists ==
  {Alone(<<Def(<<"p", "(", "x", ",", "y", ")">> \o p), Def(<<"A", "B">>), Def(<<"B1", "A1">>), L(t)>>) : p \in Bodies_p, t \in Calls_p}
  \cup {Alone(<<Def(<<"v", "(", "x", ",", "...", ")">> \o v), F(<<"x", "f">>), Def(<<"A", "B">>), L(t)>>) : v \in Bodies_v, t \in Calls_v}
  \cup {Alone(<<Def(<<"v", "(", "rest", "...", ")">> \o v), L(t)>>) :
          v \in {<<"A", ",", "##", "rest">>, <<"rest", "1">>}, t \in Calls_v}

\* A parameter that is used two times, and arguments with macros at any place.
Uses == {<<"x", "x">>, <<"#", "x", "x">>, <<"x", "##", "1", "x">>}
OperandAfterUse == {<<"x", "#", "x">>, <<"x", "x", "##", "1">>, <<"x", "f", "#", "x">>}
CallFirst == {<<"A">>, <<"1", "2">>, <<"A", "1">>, <<"f", "(", "1", ")", "2">>, <<"E", "1">>, <<"E">>, <<"A", "E">>}
CallLater == {<<"1", "A">>, <<"1", "f", "(", "2", ")">>, <<"(", "A", ")">>, <<"1", "E", "2">>, <<"f", "A">>}
Twice(uses, args) ==
  {Alone(<<Def(<<"s", "(", "x", ")">> \o body), F(<<"x">>), Def(<<"A", "B">>), Def(<<"E">>), L(<<"s", "(">> \o arg \o <<")">>),
           L(<<"y">>)>>) : body \in uses, arg \in args}

-----------------------------------------------------------------------------
Text == L(<<"t", "A">>)
Guarded == <<L(<<"#", "ifndef", "G">>), Def(<<"G">>), Text, L(<<"#", "endif">>)>>
Headers_a == {<<Text>>, Guarded, <<L(<<"#", "pragma", "once">>), Text>>,
              <<L(<<"#", "ifndef", "G">>), Text, Def(<<"G">>), L(<<"#", "endif">>)>>,
              Guarded \o <<Def(<<"A", "2">>)>>}
Headers_b == {<<Quoted("include", "a")>>, <<L(<<"#", "pragma", "once">>), Angled("include", "a"), L(<<"#", "pragma", "pack">>), Text>>}
Including ==
  {Quoted("include", "a"), Angled("include", "a"), Quoted("include", "b"), L(<<"#", "undef", "G">>), Def(<<"A", "<", "a", ">">>),
   L(<<"#", "include", "A">>), L(<<"#">>), L(<<"A">>)}
Project(main, a, b) ==
  [main |-> main, include_paths |-> <<"d1", "d2">>,
   files |-> (<<"d1", "a">> :> a) @@ (<<"d2", "a">> :> <<L(<<"u">>)>>) @@ (<<"d2", "b">> :> b)]
Onward == <<Text, Angled("include_next", "a")>>
Files ==
  {Project(main, a, b) : main \in Lines(<<Including, Including, Including>>), a \in Headers_a, b \in Headers_b}
  \cup {Project(main, Onward, <<Text>>) :
          main \in LET lines == Including \ {Quoted("include", "b")} IN Lines(<<lines, lines, lines>>)}
  \cup {[main |-> <<Quoted("include", "c")>>, include_paths |-> <<"d1">>, files |-> <<"d1", "a">> :> <<>>],
        Alone(<<Angled("include", "a")>>), Alone(<<L(<<"#", "error", "x">>)>>), Alone(<<L(<<"#", "line", "1">>), L(<<"x">>)>>),
        Alone(<<Def(<<"s", "(", "x", ")", "#", "x">>), L(<<"s", "(", "1", ")", "s", "(", "2", ")">>)>>)}

MCProjects ==
  Conditionals \cup Recursive \cup Arglists \cup Files
  \cup Twice(Uses, CallFirst \cup CallLater) \cup Twice(OperandAfterUse, CallFirst)

\* A parameter that is an operand of # or ## after a use where its argument was
\* replaced, and a token of the argument before a macro call: the operand is the
\* argument after replacement.
Relinked == Twice(OperandAfterUse, CallLater)

\* A macro without a body at the end of a line, and a directive on the next.
EmptyAtEnd == {Alone(<<Def(<<"E">>), L(<<"x", "E">>), Def(<<"A", "1">>), L(<<"A">>)>>)}
\* A token after #endif.
Trailing == {Alone(<<L(<<"#", "ifdef", "A">>), L(<<"#", "endif", "A">>), L(<<"x">>)>>)}
\* The path of a is cached, and that of b was found after it: the index for
\* #include_next is b's.
StaleIndex == {Project(<<Quoted("include", "a"), Quoted("include", "b"), Quoted("include", "a")>>, Onward, <<Text>>)}
\* A file that begins as if guarded, and another conditional at its end.
HalfGuarded ==
  {[main |-> <<Quoted("include", "a"), Quoted("include", "a")>>, include_paths |-> <<"d1">>,
    files |-> <<"d1", "a">> :> <<L(<<"#", "ifndef", "G">>), Def(<<"G">>), L(<<"#", "endif">>), Text,
                                 L(<<"#", "ifdef", "B">>), L(<<"#", "endif">>)>>]}

=============================================================================
