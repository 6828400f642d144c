---------------------------- MODULE ModuleMeaning ----------------------------
(***************************************************************************)
(* What ModuleReader must find in a file: all that the file says, nothing  *)
(* in one that is cut, and, in a file from the compiler, the functions,    *)
(* the table and the memory that the C program asks for.                   *)
(*                                                                         *)
(* A source is a text, which says what a module contains and is encoded    *)
(* here as the standard has it, or the declarations of a C program, which  *)
(* CompiledModule compiles.                                                *)
(***************************************************************************)
EXTENDS CompiledModule

-----------------------------------------------------------------------------
(* The binary format of WebAssembly.                                        *)

Vec(items) == <<Len(items)>> \o FlattenSeq(items)
Each(s, f(_)) == [i \in DOMAIN s |-> f(s[i])]

Limits(l) == IF l.shared THEN <<3, l.min, l.max>>
             ELSE IF l.max = 0 THEN <<0, l.min>> ELSE <<1, l.min, l.max>>
GlobalType(g) == <<g.valueType, IF g.mutable THEN 1 ELSE 0>>

Import(i) == buf_name(i.module) \o buf_name(i.name) \o <<i.kind>>
             \o CASE i.kind = 0 -> <<i.type>>
                  [] i.kind = 1 -> <<112>> \o Limits(i.type)
                  [] i.kind = 2 -> Limits(i.type)
                  [] i.kind = 3 -> GlobalType(i.type)
FunctionType(t) == Signature([params |-> t.parameterTypes, results |-> t.resultTypes])
Export(e) == buf_name(e.name) \o <<e.kind, e.index>>
Body(f) == Vec(Each(f.locals, LAMBDA l : <<l.count, l.type>>)) \o f.code
Code(f) == <<Len(Body(f))>> \o Body(f)
Element(e) == <<e.tableIndex>> \o e.offset \o Vec(Each(e.functionIndices, LAMBDA i : <<i>>))
Data(d) == <<d.mode>> \o (IF d.mode = 2 THEN <<d.memoryIndex>> ELSE <<>>)
           \o (IF d.mode = 1 THEN <<>> ELSE d.offset) \o <<Len(d.bytes)>> \o d.bytes
FunctionNames(names) ==
  LET content == Vec(Each(names, LAMBDA n : <<n.index>> \o buf_name(n.name)))
  IN <<0, 1, 7, 1, Len(content)>> \o content   \* after a subsection of another kind

\* The sections of a text, in the order of the standard.  An absent one is empty.
Sections(t) ==
  LET section(id, present, content) == IF present THEN buf_section(id, content) ELSE <<>>
  IN <<wasmMagic,
       buf_section(1, Vec(Each(t.types, FunctionType))),
       section(2, t.imports # <<>>, Vec(Each(t.imports, Import))),
       buf_section(3, Vec(Each(t.functions, LAMBDA f : <<f.type>>))),
       buf_section(4, Vec(Each(t.tables, LAMBDA l : <<112>> \o Limits(l)))),
       buf_section(5, Vec(Each(t.memories, Limits))),
       buf_section(6, Vec(Each(t.globals, LAMBDA g : GlobalType(g.type) \o g.init))),
       buf_section(7, Vec(Each(t.exports, Export))),
       section(8, t.start # <<>>, t.start),
       buf_section(9, Vec(Each(t.elements, Element))),
       buf_section(12, <<Len(t.data)>>),
       buf_section(10, Vec(Each(t.functions, Code))),
       buf_section(0, buf_name(t.debugName) \o t.debugInfo),
       buf_section(11, Vec(Each(t.data, Data))),
       section(0, t.names # <<>>, buf_name(t.nameName) \o FunctionNames(t.names)),
       buf_section(0, buf_name(MemoryName) \o <<9, 9>>)>>

Encode(t) == FlattenSeq(Sections(t))
\* The lengths at which a section ends.
Boundaries(t) == {Len(FlattenSeq(SubSeq(Sections(t), 1, i))) : i \in DOMAIN Sections(t)}

-----------------------------------------------------------------------------
(* What a text says, in the terms of the module that is read.               *)

Bound(l, unlimited) == [l EXCEPT !.max = IF @ = 0 THEN unlimited ELSE @]
Memory(l) == Bound(l, 65535)
Table(l) == Bound(l, UINT32_MAX)
OfKind(t, kind) == SelectSeq(t.imports, LAMBDA i : i.kind = kind)

\* The name by which the k-th function is exported last.
ExportName(t, k) ==
  LET of == {i \in DOMAIN t.exports : t.exports[i].kind = 0 /\ t.exports[i].index = Len(OfKind(t, 0)) + k - 1}
  IN IF of = {} THEN NoName ELSE t.exports[Max(of)].name

FunctionOf(t, k) ==
  LET f == t.functions[k]
      before == FoldLeft(+, 0, [j \in 1..(k - 1) |-> Len(Code(t.functions[j]))])
  IN [functionTypeIndex |-> f.type, exportName |-> ExportName(t, k), localsDeclarations |-> f.locals,
      start |-> 1 + before + 1 + Len(Body(f)) - Len(f.code), code |-> f.code, hash |-> Body(f)]

\* The names that no two functions have.
NamesOf(t) ==
  LET given(i) == {n.name : n \in {x \in ToSet(t.names) : x.index = i - 1}}
      count == Len(OfKind(t, 0)) + Len(t.functions)
  IN [i \in 1..count |->
        IF given(i) = {} \/ \E j \in (1..count) \ {i} : given(j) = given(i) THEN NoName
        ELSE CHOOSE name \in given(i) : TRUE]

Meaning(t) ==
  [functionTypes |-> t.types,
   functionImports |-> OfKind(t, 0),
   tableImports |-> Each(OfKind(t, 1), LAMBDA i : [i EXCEPT !.type = Table(@)]),
   memoryImports |-> Each(OfKind(t, 2), LAMBDA i : [i EXCEPT !.type = Memory(@)]),
   globalImports |-> OfKind(t, 3),
   functions |-> [k \in DOMAIN t.functions |-> FunctionOf(t, k)],
   tables |-> Each(t.tables, Table),
   memories |-> Each(t.memories, Memory),
   globals |-> t.globals,
   exports |-> t.exports,
   startFunction |-> t.start,
   elementSegments |-> t.elements,
   dataSegments |-> Each(t.data, LAMBDA d :
       [passive |-> d.mode = 1, memoryIndex |-> IF d.mode = 2 THEN d.memoryIndex ELSE 0,
        offset |-> IF d.mode = 1 THEN <<>> ELSE d.offset, bytes |-> d.bytes]),
   functionNames |-> IF source.debug /\ t.names # <<>> THEN NamesOf(t) ELSE <<>>,
   debugSections |-> <<t.debugInfo>>]

\* A file that says all of a text is read as that text, whatever other custom
\* sections stand in it: the indices of imports and definitions, the names of
\* exports, the extents of code and what a missing limit stands for.
\* (wasmModuleRead and the section readers, reader.c 560-2034)
ModuleIsRead ==
  source.kind = "text" /\ source.whole =>
    /\ phase # "failed"
    /\ phase = "read" => module = Meaning(source.text)

\* A file that ends within a section is refused, never read as a smaller
\* module.  (the length checks of reader.c and buffer.h, and the comparison of
\* end and expectedEnd in wasmModuleReadSection)
CutIsRefused ==
  source.kind = "text" /\ ~source.whole /\ phase = "read" => Len(source.units) \in Boundaries(source.text)

-----------------------------------------------------------------------------
(* What a C program asks for.                                               *)

Named_(name) == {i \in DOMAIN source.decls : source.decls[i].name = name}
Defined(name) == \E i \in Named_(name) : source.decls[i].is_definition
IsFunction(name) == \E i \in Named_(name) : source.decls[i].is_function

\* Every name that is used is defined, the environment's or __heap_base, none is
\* initialised twice.  The inputs that are too large for the memory are marked.
Legal ==
  /\ \A name \in Referenced(source.decls) :
        Defined(name) \/ (IsFunction(name) /\ name \in EnvNames) \/ (~IsFunction(name) /\ name = HeapBaseName)
  /\ \A d \in ToSet(source.decls) :
        Cardinality({i \in Named_(d.name) : source.decls[i].init_data # <<>>}) < 2
  /\ ~source.large

\* The compiler takes every legal program and refuses the others.  "one storage
\* location per name (a tentative definition repeated in several headers is one
\* object)" (codegen.c 852-853; parse.c scan_globals, codegen.c codegen).
TakesLegalPrograms ==
  source.kind = "program" => (source.units # <<>>) = Legal

Compiled == source.kind = "program" /\ phase = "read"

IndexIs(index, name) ==
  IF index < Len(module.functionImports)
    THEN module.functionImports[index + 1].name = name
    ELSE LET f == module.functions[index - Len(module.functionImports) + 1]
         IN \E d \in ToSet(source.decls) :
              d.name = name /\ d.body # <<>> /\ SubSeq(f.code, 1, 2) = <<65, -d.body[1].id>>

\* What stands in the table after instantiation.
TableIs(entry, name) ==
  LET segment == module.elementSegments[1]
  IN /\ entry \in 1..(module.tables[1].min - 1)
     /\ IndexIs(segment.functionIndices[entry - segment.offset[2] + 1], name)

TypeOfIndex(index) ==
  module.functionTypes[1 + IF index < Len(module.functionImports)
                             THEN module.functionImports[index + 1].type
                             ELSE module.functions[index - Len(module.functionImports) + 1].functionTypeIndex]

SigIs(type, sig) == type = [parameterTypes |-> sig.params, resultTypes |-> sig.results]

\* Where the k-th reference of a body stands in its code.
Position(body, k) == 1 + FoldLeft(LAMBDA n, r : n + IF r.kind = "pointer" THEN 3 ELSE 2, 0, SubSeq(body, 1, k - 1))

\* In the module that the translator reads every call reaches the function of
\* that name with its type, a function's address is the table entry that holds
\* it, a call through a pointer names the pointer's type, and _start is the
\* export.  (codegen, sig_index, func_idx, global_addr in codegen.c; the index
\* spaces of reader.c)
CallsReachTheirFunctions ==
  Compiled =>
    /\ \A d \in ToSet(source.decls) : d.body # <<>> =>
         \E f \in DOMAIN module.functions :
           /\ IndexIs(Len(module.functionImports) + f - 1, d.name)
           /\ \A k \in DOMAIN d.body :
                LET r == d.body[k]
                    operand == module.functions[f].code[Position(d.body, k) + 1]
                IN CASE r.kind = "call" -> /\ IndexIs(operand, r.name)
                                           /\ \A e \in ToSet(source.decls) :
                                                e.name = r.name => SigIs(TypeOfIndex(operand), e.sig)
                     [] r.kind = "address" -> IsFunction(r.name) => TableIs(operand, r.name)
                     [] r.kind = "pointer" -> SigIs(module.functionTypes[operand + 1], r.sig)
                     [] OTHER -> TRUE
    /\ Defined(StartName) =>
         \E e \in ToSet(module.exports) : e.name = StartName /\ e.kind = 0 /\ IndexIs(e.index, StartName)

\* The byte at an address of the initial memory.
MemoryAt(a) ==
  LET segment == module.dataSegments[1]
      i == a - segment.offset[2] + 1
  IN IF i \in DOMAIN segment.bytes THEN segment.bytes[i] ELSE 0

WordAt(a) == FoldLeft(LAMBDA n, k : n + MemoryAt(a + k) * 256 ^ k, 0, <<0, 1, 2, 3>>)

\* The variables have their own aligned places below the stack, which ends
\* within the memory; the memory holds their initial values, zeros, and
\* addresses of the right symbols; __heap_base is where the stack ends, unless
\* the program defines it.  (layout_globals, emit_data, global_addr)
DataIsInPlace ==
  Compiled =>
    LET layout == layout_globals(Reverse(parse(source.decls)))
        at(name) == (CHOOSE s \in ToSet(layout.offset) : s.name = name).at
        size(name) == Max({source.decls[i].size : i \in Named_(name)})
        variables == {d.name : d \in {e \in ToSet(source.decls) : ~e.is_function /\ e.is_definition}}
        top == module.globals[1].init[2]
        address(name) == IF name \in variables THEN at(name) ELSE top
    IN /\ variables = {s.name : s \in ToSet(layout.offset)}
       /\ \A v \in variables :
            /\ at(v) >= data_base /\ at(v) + size(v) <= top - opt_stack_size
            /\ \A w \in variables \ {v} : at(v) + size(v) <= at(w) \/ at(w) + size(w) <= at(v)
       /\ top <= module.memories[1].min * 65536 /\ module.memories[1].min <= module.memories[1].max
       /\ \A d \in ToSet(source.decls) : d.name \in variables =>
            /\ at(d.name) % d.align = 0
            /\ \A rel \in ToSet(d.rel) :
                 LET word == WordAt(at(d.name) + rel.offset)
                 IN IF IsFunction(rel.label) THEN TableIs(word, rel.label) ELSE word = address(rel.label) + rel.addend
            /\ \A k \in DOMAIN d.init_data :
                 (\A rel \in ToSet(d.rel) : k - rel.offset \notin 1..4) => MemoryAt(at(d.name) + k - 1) = d.init_data[k]
            /\ (\A i \in Named_(d.name) : source.decls[i].init_data = <<>>) =>
                 \A k \in 1..Min({d.size, 4}) : MemoryAt(at(d.name) + k - 1) = 0
       /\ \A d \in ToSet(source.decls) : d.body # <<>> =>
            \E f \in DOMAIN module.functions :
              /\ IndexIs(Len(module.functionImports) + f - 1, d.name)
              /\ \A k \in DOMAIN d.body :
                   d.body[k].kind = "address" /\ ~IsFunction(d.body[k].name) =>
                     module.functions[f].code[Position(d.body, k) + 1] = address(d.body[k].name)

=============================================================================
