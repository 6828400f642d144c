------------------------------- MODULE MCModule -------------------------------
(***************************************************************************)
(* Files for ModuleReader: texts that vary in some parts at a time, one of *)
(* them cut at every length, and small C programs as the compiler writes   *)
(* them.                                                                   *)
(***************************************************************************)
EXTENDS ModuleMeaning, Functions

CONSTANTS
  MaxDecls,     \* declarations of a program
  Repeated      \* may a variable have two tentative definitions?

MCStart == <<1>>
MCMemory == <<2>>
MCEnv == <<3>>
ImportName == <<4, 5>>
MCEnvNames == {ImportName}
MCHeapBase == <<26>>

-----------------------------------------------------------------------------
(* Texts.                                                                   *)

NoLimit == [min |-> 1, max |-> 0, shared |-> FALSE]
LimitsSet == {NoLimit, [NoLimit EXCEPT !.max = 3], [NoLimit EXCEPT !.max = 3, !.shared = TRUE]}
GlobalOf(m) == [valueType |-> 126, mutable |-> m]
AnImport(kind, type) == [module |-> MCEnv, name |-> <<5, kind>>, kind |-> kind, type |-> type]
ImportLists(l) ==
  {<<>>, <<AnImport(0, 1)>>,
   <<AnImport(3, GlobalOf(FALSE)), AnImport(0, 1), AnImport(2, l), AnImport(0, 0), AnImport(1, l)>>}
Bodies ==
  <<[type |-> 1, locals |-> <<[count |-> 3, type |-> 127], [count |-> 1, type |-> 124]>>, code |-> <<65, 7, 26, 11>>],
    [type |-> 0, locals |-> <<>>, code |-> <<11>>]>>
AnExport(name, kind, index) == [name |-> name, kind |-> kind, index |-> index]
\* The last function exported once and twice, the first one, memory and a global.
ExportLists(count) ==
  {<<AnExport(<<8>>, 2, 0), AnExport(<<9>>, 3, 0)>>}
  \union IF count = 0 THEN {} ELSE
    {<<AnExport(<<8>>, 0, count - 1)>>,
     <<AnExport(<<8>>, 0, 0), AnExport(<<9>>, 0, count - 1), AnExport(<<7>>, 0, count - 1)>>}
\* No names, one function named, all named, two alike, all alike.
NameLists(count) ==
  {<<>>} \union IF count = 0 THEN {} ELSE
    {<<[index |-> count - 1, name |-> <<6>>]>>,
     [i \in 1..count |-> [index |-> count - i, name |-> <<6, i>>]],
     [i \in 1..count |-> [index |-> i - 1, name |-> IF i \in {1, count} THEN <<6>> ELSE <<7>>]],
     [i \in 1..count |-> [index |-> i - 1, name |-> <<6>>]]}
Datum(mode) == [mode |-> mode, memoryIndex |-> 1, offset |-> <<65, 3, 11>>, bytes |-> <<8, 9>>]

Text(imports, n, l, exports, names, data, start) ==
  [types |-> <<[parameterTypes |-> <<>>, resultTypes |-> <<>>],
               [parameterTypes |-> <<127, 126>>, resultTypes |-> <<125>>]>>,
   imports |-> imports, functions |-> SubSeq(Bodies, 1, n),
   tables |-> <<l>>, memories |-> <<l>>,
   globals |-> <<[type |-> GlobalOf(TRUE), init |-> <<65, 4, 11>>], [type |-> GlobalOf(FALSE), init |-> <<35, 0, 11>>],
                 [type |-> GlobalOf(TRUE), init |-> <<11>>]>>,
   exports |-> exports, start |-> start,
   elements |-> <<[tableIndex |-> 0, offset |-> <<65, 0, 11>>, functionIndices |-> <<0, 0>>]>>,
   data |-> data, names |-> names, debugInfo |-> <<5, 5>>,
   debugName |-> <<10>>, nameName |-> <<11>>]

Count(imports, n) == Len(SelectSeq(imports, LAMBDA i : i.kind = 0)) + n

Texts ==
  {Text(imports, n, l, exports, names, data, start) :
     <<imports, n, l, exports, names, data, start>> \in
       UNION {UNION {{imports} \X {n} \X {l} \X ExportLists(Count(imports, n)) \X NameLists(Count(imports, n))
                     \X {<<>>, <<Datum(0), Datum(1), Datum(2)>>}
                     \X ({<<>>} \union IF n > 0 THEN {<<Count(imports, n) - 1>>} ELSE {})
                     : imports \in ImportLists(l)} : <<n, l>> \in (0..2) \X LimitsSet}}

Full == Text(<<AnImport(0, 1), AnImport(2, NoLimit)>>, 2, NoLimit, <<AnExport(<<8>>, 0, 2)>>,
             <<[index |-> 0, name |-> <<6>>], [index |-> 1, name |-> <<6>>], [index |-> 2, name |-> <<7>>]>>,
             <<Datum(0)>>, <<1>>)

TextSource(t, units, debug) ==
  [kind |-> "text", text |-> t, units |-> units, debug |-> debug, large |-> FALSE,
   whole |-> Len(units) >= Len(Encode(t)),
   decls |-> <<>>, debugName |-> t.debugName, nameName |-> t.nameName]

\* A kind of section that the reader has no reader for, after the magic.
WithUnknown(units) == SubSeq(units, 1, 8) \o <<13, 2, 1, 1>> \o SubSeq(units, 9, Len(units))

-----------------------------------------------------------------------------
(* Programs.                                                                *)

SigV == [params |-> <<>>, results |-> <<>>]
SigI == [params |-> <<127>>, results |-> <<127>>]
F == <<20>>
G == <<21>>
X == <<22>>
Y == <<23>>

Pool ==
  {Function(ImportName, SigI, <<>>),
   Function(F, SigI, <<Self(1), Call(ImportName), Address(X)>>),
   Function(F, SigI, <<>>),
   Function(G, SigV, <<Self(2), CallThrough(SigI), Address(X)>>),
   Function(MCStart, SigV, <<Self(3), Call(G), Address(Y), Address(F), Call(F), CallThrough([SigI EXCEPT !.results = <<>>])>>),
   Variable(X, 3, 1, FALSE, <<1, 2, 3>>, <<>>),
   Variable(X, 3, 1, FALSE, <<>>, <<>>),
   Variable(X, 3, 1, TRUE, <<>>, <<>>),
   Variable(Y, 9, 8, FALSE, <<9, 9, 9, 9, 9, 9, 9, 9, 9>>,
            <<[offset |-> 0, label |-> X, addend |-> 2], [offset |-> 4, label |-> F, addend |-> 0]>>),
   Variable(Y, 9, 8, FALSE, <<>>, <<>>)}
Large == Variable(<<24>>, 70000, 4, FALSE, <<>>, <<>>)

\* A function is defined once; a variable that is defined tentatively twice
\* only if Repeated says so.
Sensible(decls) ==
  \A i, j \in DOMAIN decls : i < j /\ decls[i].name = decls[j].name =>
     /\ decls[i].body = <<>> \/ decls[j].body = <<>>
     /\ Repeated \/ ~(decls[i].is_tentative /\ decls[j].is_tentative)

\* All of the functions and variables that are defined, in any order.
Whole == {d \in Pool : d.is_definition /\ ~d.is_tentative} \union {Function(ImportName, SigI, <<>>)}

Programs ==
  {p \in UNION {[1..n -> Pool] : n \in 1..MaxDecls} : Sensible(p)}
  \union IF Repeated THEN {} ELSE {p \in [1..Cardinality(Whole) -> Whole] : IsInjective(p)}

\* The address of __heap_base, in code and in data: declared, defined, or both.
HeapBaseOf(extern) == Variable(MCHeapBase, 1, 1, extern, <<>>, <<>>)
HeapBaseUses ==
  {Function(F, SigI, <<Self(1), Address(MCHeapBase), Address(X)>>),
   Variable(X, 5, 1, FALSE, <<9, 9, 9, 9, 9>>, <<[offset |-> 0, label |-> MCHeapBase, addend |-> 3]>>),
   HeapBaseOf(TRUE), HeapBaseOf(FALSE)}
HeapBasePrograms ==
  {p \in UNION {[1..n -> HeapBaseUses] : n \in 1..4} : IsInjective(p) /\ \E i \in DOMAIN p : p[i].name = MCHeapBase}

ProgramSource(p) ==
  [kind |-> "program", text |-> <<>>, units |-> codegen(p), debug |-> FALSE,
   large |-> FALSE, whole |-> TRUE, decls |-> p, debugName |-> <<10>>, nameName |-> <<11>>]

LargePrograms == {<<Large, Variable(X, 3, 1, FALSE, <<1, 2, 3>>, <<>>)>>, <<Large, [Large EXCEPT !.name = <<25>>]>>}

MCSources ==
  {ProgramSource(p) : p \in Programs \union HeapBasePrograms}
  \union {[ProgramSource(p) EXCEPT !.large = p[2].size = 70000] : p \in LargePrograms}
  \union IF Repeated THEN {} ELSE
    {TextSource(t, Encode(t), debug) : t \in Texts, debug \in BOOLEAN}
    \union {TextSource(Full, SubSeq(Encode(Full), 1, n), TRUE) : n \in 0..Len(Encode(Full))}
    \union {TextSource(Full, WithUnknown(Encode(Full)), TRUE)}

=============================================================================
