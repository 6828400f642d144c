----------------------------- MODULE ModuleReader -----------------------------
(***************************************************************************)
(* The reader of the translator, w2c2/reader.c: the bytes of a module      *)
(* become the tables from which C is written.  It has a reader for each    *)
(* kind of section, takes the sections in the order of the file and stops  *)
(* at the first error.                                                     *)
(*                                                                         *)
(* The file is a sequence of units.  A unit is one byte, or one number     *)
(* whatever the length of its LEB128 (Constants models that encoding), or  *)
(* one letter of a name; sizes count units.                                *)
(***************************************************************************)
EXTENDS Integers, Sequences, SequencesExt, FiniteSets, TLC

CONSTANT Sources     \* records: units, the file; debug, the option -g; more

VARIABLES
  source,   \* the file that is read, and the options
  phase,    \* "magic", "sections", "read", "failed"; "crashed" for a NULL name
  buffer,   \* what is left of the file
  module,   \* what has been read
  error     \* the code of *error

vars == <<source, phase, buffer, module, error>>

NoError == "none"
NoName == <<-1>>         \* NULL
wasmMagic == <<0, 97, 115, 109, 1, 0, 0, 0>>
ValueTypes == 124..127
UINT32_MAX == -1         \* all bits set
MaxPages == 65535        \* UINT32_MAX / WASM_PAGE_SIZE

emptyModule ==
  [functionTypes |-> <<>>, functionImports |-> <<>>, globalImports |-> <<>>,
   memoryImports |-> <<>>, tableImports |-> <<>>, functions |-> <<>>, tables |-> <<>>,
   memories |-> <<>>, globals |-> <<>>, exports |-> <<>>, startFunction |-> <<>>,
   elementSegments |-> <<>>, dataSegments |-> <<>>, functionNames |-> <<>>,
   debugSections |-> <<>>]

-----------------------------------------------------------------------------
(* A cursor: the rest of the file, the first error, and the values read     *)
(* into the item at hand.  A failed cursor stays as it is.                  *)

Start(units) == [rest |-> units, error |-> NoError, out |-> <<>>]
Fresh(p) == [p EXCEPT !.out = <<>>]
Ok(p) == p.error = NoError
Fail(p, code) == [p EXCEPT !.error = code]
\* q has read one item: its value goes to the values of p.
Made(p, q, value) == IF Ok(q) THEN [q EXCEPT !.out = Append(p.out, value)] ELSE q

\* bufferReadByte, leb128ReadU32
Unit(p, code) ==
  CASE ~Ok(p) -> p
    [] Ok(p) /\ p.rest = <<>> -> Fail(p, code)
    [] OTHER -> [p EXCEPT !.rest = Tail(@), !.out = Append(@, Head(p.rest))]

UnitIn(p, allowed, code) ==
  LET q == Unit(p, code) IN IF Ok(q) /\ Last(q.out) \notin allowed THEN Fail(q, code) ELSE q

\* A length and that many units, no more than there are.
Units(p, code) ==
  LET q == Unit(Fresh(p), code)
  IN IF ~Ok(q) THEN q
     ELSE IF q.out[1] > Len(q.rest) THEN Fail(q, code)
     ELSE Made(p, [q EXCEPT !.rest = SubSeq(@, q.out[1] + 1, Len(@))], SubSeq(q.rest, 1, q.out[1]))

\* A count and that many items, each by one call of read.
Vector(p, read(_), code) ==
  LET n == Unit(Fresh(p), code)
      items == FoldLeft(LAMBDA q, i : read(q), Fresh(n), [i \in 1..n.out[1] |-> i])
  IN IF Ok(n) THEN Made(p, items, items.out) ELSE n

bufferSkip(p, length) == [p EXCEPT !.rest = SubSeq(@, length + 1, Len(@))]

wasmModuleReadValueType(p) == UnitIn(p, ValueTypes, "InvalidValueType")
wasmReadName(p, code) == Units(p, code)
Index(p) == Unit(p, "InvalidElementSectionFunctionIndex")

-----------------------------------------------------------------------------
wasmReadFunctionType(p) ==
  LET indicator == UnitIn(Fresh(p), {96}, "InvalidFunctionTypeIndicator")
      params == Vector(indicator, wasmModuleReadValueType, "InvalidFunctionTypeParameterCount")
      results == Vector(params, wasmModuleReadValueType, "InvalidFunctionTypeResultCount")
  IN Made(p, results, [parameterTypes |-> results.out[2], resultTypes |-> results.out[3]])

wasmReadGlobalType(p) ==
  LET q == UnitIn(wasmModuleReadValueType(Fresh(p)), {0, 1}, "InvalidGlobalSectionMutabilityIndicator")
  IN Made(p, q, [valueType |-> q.out[1], mutable |-> q.out[2] = 1])

\* A maximum of 0 stands for none; unlimited is what the caller puts there.
wasmReadLimits(p, unlimited) ==
  LET kind == Unit(Fresh(p), "InvalidLimitKind")
      min == Unit(kind, "InvalidLimitMinimum")
      max == IF min.out[1] = 0 THEN [min EXCEPT !.out = Append(@, 0)] ELSE Unit(min, "InvalidLimitMaximum")
  IN IF ~Ok(min) THEN min
     ELSE IF min.out[1] \notin {0, 1, 3} THEN Fail(min, "InvalidLimitKind")
     ELSE Made(p, max, [min |-> max.out[2],
                        max |-> IF max.out[3] = 0 THEN unlimited ELSE max.out[3],
                        shared |-> max.out[1] = 3])

wasmReadMemoryType(p) == wasmReadLimits(p, MaxPages)

wasmReadTableType(p) ==
  LET q == wasmReadLimits(UnitIn(Fresh(p), {112}, "InvalidTableSectionTableType"), UINT32_MAX)
  IN Made(p, q, q.out[2])

\* wasmReadConstantExpr: nothing, a constant or a global, and the end opcode.
wasmReadConstantExpr(p, code) ==
  LET opcode == UnitIn(Fresh(p), {65, 66, 67, 68, 35, 11}, code)
      value == Unit(opcode, code)
      end == IF opcode.out = <<11>> THEN opcode ELSE UnitIn(value, {11}, code)
  IN IF Ok(opcode) THEN Made(p, end, end.out) ELSE opcode

wasmReadImport(p) ==
  LET names == wasmReadName(wasmReadName(Fresh(p), "InvalidImportSectionImportModule"),
                            "InvalidImportSectionImportName")
      kind == UnitIn(names, 0..3, "InvalidImportSectionImportKind")
      what == CASE kind.out[3] = 0 -> Unit(kind, "InvalidImportSectionFunctionTypeIndex")
                [] kind.out[3] = 1 -> wasmReadTableType(kind)
                [] kind.out[3] = 2 -> wasmReadMemoryType(kind)
                [] kind.out[3] = 3 -> wasmReadGlobalType(kind)
  IN IF Ok(kind) THEN Made(p, what, [module |-> what.out[1], name |-> what.out[2],
                                     kind |-> what.out[3], type |-> what.out[4]])
     ELSE kind

\* The type of a function is one of those read so far.
wasmReadFunction(p) ==
  LET q == UnitIn(Fresh(p), 0..(Len(module.functionTypes) - 1), "InvalidFunctionTypeIndex")
  IN Made(p, q, [functionTypeIndex |-> q.out[1], exportName |-> NoName,
                 localsDeclarations |-> <<>>, start |-> 0, code |-> <<>>, hash |-> <<>>])

wasmReadGlobal(p) ==
  LET q == wasmReadConstantExpr(wasmReadGlobalType(Fresh(p)), "InvalidGlobalSectionInitExpression")
  IN Made(p, q, [type |-> q.out[1], init |-> q.out[2]])

FunctionCount == Len(module.functionImports) + Len(module.functions)

\* Only the index of a function is compared with what there is.
wasmReadExport(p) ==
  LET kind == UnitIn(wasmReadName(Fresh(p), "InvalidExportSectionExportName"), 0..3,
                     "InvalidExportSectionExportKind")
      q == IF Ok(kind) /\ kind.out[2] = 0
             THEN UnitIn(kind, 0..(FunctionCount - 1), "InvalidExportSectionExportIndex")
             ELSE Unit(kind, "InvalidExportSectionExportIndex")
  IN Made(p, q, [name |-> q.out[1], kind |-> q.out[2], index |-> q.out[3]])

wasmReadElementSegment(p) ==
  LET table == Unit(Fresh(p), "InvalidElementSectionTableIndex")
      offset == wasmReadConstantExpr(table, "InvalidElementSectionOffsetExpression")
      q == Vector(offset, Index, "InvalidElementSectionFunctionIndexCount")
  IN Made(p, q, [tableIndex |-> q.out[1], offset |-> q.out[2], functionIndices |-> q.out[3]])

wasmReadDataSegment(p) ==
  LET kind == UnitIn(Fresh(p), {0, 1, 2}, "InvalidDataSectionKind")
      memory == IF kind.out[1] = 2 THEN Unit(kind, "InvalidDataSectionMemoryIndex")
                ELSE [kind EXCEPT !.out = Append(@, 0)]
      offset == IF kind.out[1] = 1 THEN [memory EXCEPT !.out = Append(@, <<>>)]
                ELSE wasmReadConstantExpr(memory, "InvalidDataSectionOffsetExpression")
      q == Units(offset, "InvalidDataSectionBytes")
  IN IF ~Ok(kind) THEN kind ELSE IF ~Ok(memory) THEN memory ELSE IF ~Ok(offset) THEN offset
     ELSE Made(p, q, [passive |-> q.out[1] = 1, memoryIndex |-> q.out[2],
                      offset |-> q.out[3], bytes |-> q.out[4]])

wasmReadLocals(p) ==
  LET q == UnitIn(Unit(Fresh(p), "InvalidCodeSectionLocalsDeclarations"), ValueTypes,
                  "InvalidCodeSectionLocalsDeclarations")
  IN Made(p, q, [count |-> q.out[1], type |-> q.out[2]])

\* One body.  start counts from the beginning of the section's content.
wasmReadCode(p, section) ==
  LET size == Unit(Fresh(p), "InvalidCodeSectionCodeSize")
      locals == Vector(Fresh(size), wasmReadLocals, "InvalidCodeSectionLocalsDeclarations")
      length == size.out[1] - (Len(size.rest) - Len(locals.rest))
      after == bufferSkip(locals, length)
  IN IF ~Ok(size) THEN size
     ELSE IF size.out[1] > Len(size.rest) THEN Fail(size, "InvalidCodeSectionCodeSize")
     ELSE Made(p, after, [localsDeclarations |-> locals.out[1],
                          start |-> Len(section) - Len(locals.rest),
                          code |-> SubSeq(locals.rest, 1, length),
                          hash |-> SubSeq(size.rest, 1, size.out[1])])

wasmReadCodeSection(p) ==
  LET count == UnitIn(p, {Len(module.functions)}, "InvalidCodeSectionFunctionCount")
      read(q) == wasmReadCode(q, p.rest)
  IN IF Ok(count) THEN Vector(p, read, "InvalidCodeSectionFunctionCount") ELSE count
-----------------------------------------------------------------------------
(* Custom sections.                                                         *)

\* A name that two functions have is taken from both.  The names are sorted
\* with strcmp, which a function without a name gives NULL.
wasmFunctionNamesRemoveDuplicates(names) ==
  LET key(i) == IF names[i] = NoName THEN <<>> ELSE names[i]
  IN [i \in DOMAIN names |->
        IF \E j \in DOMAIN names \ {i} : key(j) = key(i) THEN NoName ELSE names[i]]

ComparesNull(names) == Len(names) > 1 /\ \E i \in DOMAIN names : names[i] = NoName

wasmReadFunctionName(p) ==
  LET index == UnitIn(Fresh(p), 0..(FunctionCount - 1), "InvalidNameSectionFunctionIndex")
      q == wasmReadName(index, "InvalidNameSectionFunctionName")
  IN Made(p, q, [index |-> q.out[1], name |-> q.out[2]])

\* The names of all functions after a subsection that lists some of them.
Named(names, listed) ==
  FoldLeft(LAMBDA all, entry : [all EXCEPT ![entry.index + 1] = entry.name],
           [i \in 1..FunctionCount |-> IF i \in DOMAIN names THEN names[i] ELSE NoName], listed)

\* The subsections until the end; out holds the names of all functions.
RECURSIVE wasmReadNameSection(_, _)
wasmReadNameSection(p, left) ==
  LET id == Unit(Fresh(p), "InvalidGlobalSectionMutabilityIndicator")
      size == Unit(id, "InvalidSectionSize")
      listed == Vector(size, wasmReadFunctionName, "InvalidNameSectionFunctionNameCount")
      next == IF ~Ok(size) THEN size
              ELSE IF id.out # <<1>> THEN [bufferSkip(size, size.out[2]) EXCEPT !.out = p.out]
              ELSE IF ~Ok(listed) THEN listed
              ELSE [listed EXCEPT !.out =
                      <<wasmFunctionNamesRemoveDuplicates(Named(p.out[1], listed.out[3])),
                        p.out[2] \/ ComparesNull(Named(p.out[1], listed.out[3]))>>]
  IN IF ~Ok(p) \/ Len(p.rest) <= left THEN p ELSE wasmReadNameSection(next, left)

-----------------------------------------------------------------------------
(* The sections.                                                            *)

Init ==
  /\ source \in Sources
  /\ phase = "magic"
  /\ buffer = source.units
  /\ module = emptyModule
  /\ error = NoError

Failed(code) ==
  /\ phase' = "failed"
  /\ error' = code
  /\ UNCHANGED <<source, buffer, module>>

wasmModuleReadMagic ==
  /\ phase = "magic"
  /\ IF IsPrefix(wasmMagic, buffer)
       THEN /\ phase' = "sections"
            /\ buffer' = SubSeq(buffer, Len(wasmMagic) + 1, Len(buffer))
            /\ UNCHANGED <<source, module, error>>
       ELSE Failed("InvalidMagic")

\* The file is at a section of this kind, whose header is there.
AtSection(id) == phase = "sections" /\ Len(buffer) > 1 /\ buffer[1] = id
Content == Start(SubSeq(buffer, 3, Len(buffer)))

\* Mutant: wherever it is.
FinishAnywhere(p, read) ==
  IF ~Ok(p) THEN Failed(p.error)
  ELSE /\ buffer' = p.rest
       /\ module' = read
       /\ UNCHANGED <<source, phase, error>>

\* The reader of the section has left p: it must be where the size says.
Finish(p, read) ==
  IF ~Ok(p) THEN Failed(p.error)
  ELSE IF Len(p.rest) # Len(buffer) - 2 - buffer[2] THEN Failed("IncorrectSectionRead")
  ELSE /\ buffer' = p.rest
       /\ module' = read
       /\ UNCHANGED <<source, phase, error>>

TypeSection ==
  /\ AtSection(1)
  /\ LET p == Vector(Content, wasmReadFunctionType, "InvalidTypeSectionTypeCount")
     IN Finish(p, [module EXCEPT !.functionTypes = p.out[1]])

\* The imports are appended to those that there are.
ImportSection ==
  /\ AtSection(2)
  /\ LET p == Vector(Content, wasmReadImport, "InvalidTypeSectionTypeCount")
         OfKind(kind) == SelectSeq(p.out[1], LAMBDA i : i.kind = kind)
     IN Finish(p, [module EXCEPT !.functionImports = @ \o OfKind(0), !.tableImports = @ \o OfKind(1),
                                 !.memoryImports = @ \o OfKind(2), !.globalImports = @ \o OfKind(3)])

FunctionSection ==
  /\ AtSection(3)
  /\ LET p == Vector(Content, wasmReadFunction, "InvalidFunctionSectionFunctionCount")
     IN Finish(p, [module EXCEPT !.functions = p.out[1]])

TableSection ==
  /\ AtSection(4)
  /\ LET p == Vector(Content, wasmReadTableType, "InvalidTableSectionTableCount")
     IN Finish(p, [module EXCEPT !.tables = p.out[1]])

MemorySection ==
  /\ AtSection(5)
  /\ LET p == Vector(Content, wasmReadMemoryType, "InvalidMemorySectionMemoryCount")
     IN Finish(p, [module EXCEPT !.memories = p.out[1]])

GlobalSection ==
  /\ AtSection(6)
  /\ LET p == Vector(Content, wasmReadGlobal, "InvalidGlobalSectionGlobalCount")
     IN Finish(p, [module EXCEPT !.globals = p.out[1]])

\* Mutant: the imports are not counted.
ExportedUncounted(functions, exports) ==
  FoldLeft(LAMBDA all, e : IF e.kind = 0 /\ e.index < Len(functions)
                             THEN [all EXCEPT ![e.index + 1].exportName = e.name] ELSE all,
           functions, exports)

\* A function that is defined here is given the name it is exported by, the
\* last one if there are several.
Exported(functions, exports) ==
  FoldLeft(LAMBDA all, e : IF e.kind = 0 /\ e.index >= Len(module.functionImports)
                             THEN [all EXCEPT ![e.index - Len(module.functionImports) + 1].exportName = e.name]
                             ELSE all,
           functions, exports)

ExportSection ==
  /\ AtSection(7)
  /\ LET p == Vector(Content, wasmReadExport, "InvalidExportSectionExportCount")
     IN Finish(p, [module EXCEPT !.exports = p.out[1], !.functions = Exported(@, p.out[1])])

StartSection ==
  /\ AtSection(8)
  /\ LET p == Unit(Content, "InvalidStartSectionFunctionIndex")
     IN Finish(p, [module EXCEPT !.startFunction = p.out])

ElementSection ==
  /\ AtSection(9)
  /\ LET p == Vector(Content, wasmReadElementSegment, "InvalidElementSectionElementSegmentCount")
     IN Finish(p, [module EXCEPT !.elementSegments = p.out[1]])

CodeSection ==
  /\ AtSection(10)
  /\ LET p == wasmReadCodeSection(Content)
     IN Finish(p, [module EXCEPT !.functions = [i \in DOMAIN @ |-> p.out[1][i] @@ @[i]]])

DataSection ==
  /\ AtSection(11)
  /\ LET p == Vector(Content, wasmReadDataSegment, "InvalidDataSectionDataSegmentCount")
     IN Finish(p, [module EXCEPT !.dataSegments = p.out[1]])

DataCountSection ==
  /\ AtSection(12)
  /\ Finish(Unit(Content, "InvalidDataCountSectionDataCount"), module)

\* A debug section is kept, the names are read if -g asks for them, and any
\* other section is skipped.  The content begins with the section's name.
CustomSection ==
  /\ AtSection(0)
  /\ LET name == wasmReadName(Content, "InvalidCustomSectionName")
         left == Len(buffer) - 2 - buffer[2]
         skipped == bufferSkip(name, Len(name.rest) - left)
         names == wasmReadNameSection([name EXCEPT !.out = <<module.functionNames, FALSE>>], left)
     IN CASE ~Ok(name) -> Failed(name.error)
          [] Ok(name) /\ name.out[1] = source.debugName ->
               Finish(skipped, [module EXCEPT !.debugSections = Append(@, SubSeq(name.rest, 1, Len(name.rest) - Len(skipped.rest)))])
          [] Ok(name) /\ name.out[1] = source.nameName /\ source.debug ->
               \/ Finish(names, [module EXCEPT !.functionNames = names.out[1]])
               \/ /\ Ok(names) /\ names.out[2]
                  /\ phase' = "crashed"
                  /\ UNCHANGED <<source, buffer, module, error>>
          [] OTHER -> Finish(skipped, module)

\* A kind of section that has no reader is skipped unread.
UnknownSection ==
  /\ phase = "sections" /\ Len(buffer) > 1 /\ buffer[1] \notin 0..12
  /\ buffer' = bufferSkip(Content, buffer[2]).rest
  /\ UNCHANGED <<source, phase, module, error>>

CutHeader == phase = "sections" /\ Len(buffer) = 1 /\ Failed("InvalidSectionSize")

EndOfFile ==
  /\ phase = "sections" /\ buffer = <<>>
  /\ phase' = "read"
  /\ UNCHANGED <<source, buffer, module, error>>

Next ==
  \/ wasmModuleReadMagic
  \/ TypeSection \/ ImportSection \/ FunctionSection \/ TableSection \/ MemorySection
  \/ GlobalSection \/ ExportSection \/ StartSection \/ ElementSection \/ CodeSection
  \/ DataSection \/ DataCountSection \/ CustomSection \/ UnknownSection
  \/ CutHeader \/ EndOfFile

Spec == Init /\ [][Next]_vars

=============================================================================
