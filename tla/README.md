# sandbox-stack in TLA+

The repository turns C into a native process that can only map the bytes of its
standard input to bytes of its standard output:

    C text --cc--> WebAssembly --w2c2--> C text --cc--> host + runtime + program --> process

This directory models the parts of that stack that decide whether the claim is
true: the runtime a translated module runs on, the process around it, the
translator that writes its C, the small libc that programs use, and the compiler
at both ends, from its preprocessor to its two back ends and its assembler. The
modules are checked with TLC on small instances, and what matters most is proved
with TLAPS for every value of the constants.

## Components

State, operations and interactions of each part, what is hard about it, and what
makes it correct. `PROJECT.json` lists every component with the modules that model
it, or the reason why none does, and the hazards with their lines and the properties
aimed at them.

**Runtime header**, `rt/w2c2_base.h`. State: the static arena `wasm_arena`, the one
`wasmMemory` (`data`, `size`, `pages`, `maxPages`), the table arena with its parallel
array of type ids, the lengths of the data segments. Operations: allocation, growth,
loads and stores of 1 to 8 bytes, `memory.copy`, `fill` and `init`, the look-up of
`call_indirect`, the traps of arithmetic. It is called by generated code and by the
host's imports, and calls `trap`. Hard: 32-bit arithmetic at the edges (page counts,
sums of address and length, `pages * 65536`), traps that must come before any effect,
pages that are promised to be zero. Correct if a checked access stays inside the
arena, pages never exposed are zero, an indirect call finds a function of the call
site's type, and every operation does what WebAssembly says.

**Generated instantiation**, written by `w2c2/c.c`. Fills memory and table from the
module's segments in a fixed order before the guest starts. Hard: it can trap at
each step, and segments may overlap.

**Host**, `host/main.c`. State: the kernel's seccomp mode, the process itself.
`cmain` asks for strict seccomp, instantiates, runs the guest, exits; `env.read`,
`env.write` and `env.exit` are the guest's way out; `trap` reports and exits. Hard:
the order of prctl and everything else, partial reads and writes, closed pipes,
the difference between exit and exit_group, a status that must tell what happened.
Correct if the process implements "read stdin, write stdout and stderr, end".

**Translator**, `w2c2/`. Reads a module (`reader.c`, section by section, with `leb128.h`
and `instruction.c` below), turns each function body into C (`wasmCWriteFunctionCode` in
`c.c`, with a stack of operand types, a stack of labels and a flag for code that cannot
be reached), and distributes the functions over files (`main.c`, `c.c`). Hard: a file
that is cut anywhere must be refused; structured control flow becomes gotos and
variables named by stack slot; dead code must be skipped without losing count;
constants must survive as C text; the order of functions must not depend on qsort.
Correct if the tables it reads are what the file says and the C means what the
WebAssembly means.

**libc**, `libc/`. An allocator that only grows, over `memory.grow`; stdio that
slurps its input, keeps output files in memory and writes all of them to one stream,
which `tools/split.py` takes apart; string functions. Hard: rounding and doubling at
the edge of `size_t`, partial reads and writes, contents that look like headers.

**Compiler**, `cc/`. chibicc's tokenizer, preprocessor (`preprocess.c`: macros with hide
sets, conditionals, inclusion with a cache, guards and `#include_next`), parser and types
(`parse.c`, `type.c`: trees, labels of jumps, conversions, constant folding, the objects of
a translation unit), x86 generator (`codegen_x86.c`), and the hash table below all of
them; and two parts of this repository's own: a WebAssembly back end (`codegen.c`, which
also lays out the module) and an assembler that writes ELF files (`asm.c`). Hard:
tombstones and rehashes; macros that end in the text behind a call; what is remembered of
a file between its inclusions; the depths of nested blocks, counted by hand; integers in
registers wider than they are; scratch locals and stack slots that all expressions of a
function share; two sides of a calling convention that count registers separately;
declarations of one name in any order; symbols used before their definition and
instructions whose form depends on their operands.

**Guests, control harness, tests, tools**: small programs that run on the stack, a
second host (Go, wazero) that must give them the same answers, scripts.

## Modules

| module | models | depends on |
|---|---|---|
| `WasmInstance` | what a module instance promises its guest (abstract) | |
| `Runtime` | `rt/w2c2_base.h`, instantiation, the guest as any program | `WasmInstance` (in `ImplementsInstance`) |
| `SandboxIO` | what a process built by the stack promises (abstract) | |
| `Sandbox` | `host/main.c` around `Runtime`, above a kernel | `Runtime`, `SandboxIO` (in `OnlyMapsStreams`) |
| `WasmCode` | WebAssembly validation (external) | |
| `Emitter` | the writer of function bodies | `WasmCode` |
| `EmitterMeaning` | execution of WebAssembly and of C (external) | `Emitter` |
| `Constants` | LEB128 readers and literals | |
| `FunctionFiles` | sorting, static and dynamic functions, files | |
| `ModuleReader` | `w2c2/reader.c`: sections, tables, errors | |
| `CompiledModule` | `codegen()` of `cc/codegen.c` and the declarations of `parse.c`: a program as a module | `ModuleReader` |
| `ModuleMeaning` | the binary format, and what a program asks of its module (external) | `CompiledModule` |
| `Heap` | `libc/libc.c`, the allocator | |
| `Stdio` | `libc/stdio.c`, `tools/split.py` | |
| `HashMap` | `cc/hashmap.c` | |
| `Preprocessor` | `cc/preprocess.c` | |
| `PreprocessorMeaning` | sections 6.10.1 to 6.10.3 of the C standard (external) | `Preprocessor` |
| `Statements` | statements of `parse.c`, `codegen.c`, `codegen_x86.c` | |
| `StatementMeaning` | their execution in C, WebAssembly, x86 (external) | `Statements` |
| `Arithmetic` | integer types, conversions, folding, both back ends | |
| `Expressions` | structs, assignments, calls: where values wait | |
| `ExpressionMeaning` | their execution in C, WebAssembly, x86 (external) | `Expressions` |
| `CallArgs` | the x86 calling convention, from both sides | |
| `Assembler` | `cc/asm.c` | |
| `AssemblerMeaning` | a loader and a decoder (external) | `Assembler` |
| `RuntimeProofs` | theorems | `Runtime`, `WasmInstance` |
| `SandboxProofs` | theorems | `Sandbox`, `SandboxIO`, `RuntimeProofs` |
| `EmitterProofs`, `HeapProofs`, `StdioProofs`, `HashMapProofs`, `CallArgsProofs` | theorems | the module of their name |
| `TranslatorProofs` | theorems | `FunctionFiles`, `Constants` |
| `MC*` | the instances that TLC checks | |

Most modules of the translator and the compiler have the same form. The input is
arbitrary: a state holds what has been read so far, a step reads one more opcode, token,
tree node or line, under the guards of the code, and does what the code does with it.
When an input is complete, a `...Meaning` module says what it is worth by the standard it
is written to, and the property compares. What the code decides while it reads (a type
stack, a label, an index) is state; what it derives from a finished tree is an operator.

### Runtime and WasmInstance

`Runtime` has one variable per field of the C structures, and the arena is a function
on its addresses. `size` is kept as the code keeps it, a product modulo 2^32. A trap
ends everything: it is recorded with the operands that raised it, so that the
refinement can ask whether it was justified. The guest is not a program but any
program: `Guest` is a disjunction over all calls that generated code can make, with
all operands. `EffectiveAddress` is the U32 sum that `wasmCWriteLoadExpr` prints.

`WasmInstance` has a memory that is exactly as long as its pages, a table that holds
functions and compares signatures, instantiation in one step. `Runtime` implements
it (`ImplementsInstance`): the mapping cuts the arena at `size`, hides the type ids
and makes the steps of instantiation stutters up to the last.

The code departs from the WebAssembly standard in two ways that `WasmInstance`
follows: effective addresses wrap at 2^32 (NOTES.md, sharp edge 2), and an active
data segment can still be read by `memory.init` after instantiation, because no
generated line sets its `dN_len` to 0. Not in the model: a second table (it would
share the one table arena), an imported memory (its data segments are never
loaded; the host offers no memory to import).

### Sandbox and SandboxIO

`host` is the place in `cmain`: `boot` until prctl has answered, `refused`, `running`
(instantiation and guest, whose own place is `Runtime`'s `phase`), `reported` after a
message (`writing` while that is under way), `gone`. The kernel is modelled from the host's calls: a read or write moves
any part of what was asked or fails, a write to a pipe without reader kills, and
under seccomp any call but read, write and exit kills. `env__read` and `env__write`
contain the descriptor test, the range check, the call and the result as one step: the
process has one thread and nothing else can change its memory. `SandboxIO` knows the
guest's memory, the streams, the message and the status: the bytes that leave stdin are those
that appear in memory, the bytes added to an output are those of the memory, and the count that the
guest gets is theirs.

Fairness: `WF(HostStep)`, for the code of cmain, instantiation and trap, which runs without
waiting for anyone. The one place where they wait is the write of a message to descriptor 2:
`EnterWrite` is under the fairness, `MessageWritten`, the return of the call, is not, since a
reader who neither reads nor closes a full pipe holds it back for ever. The guest has no fairness:
it may loop for ever, and its read or write may block for ever. Liveness is asked up to that
wait: a trap ends the process (`TrapIsFatal`) and instantiation comes to an end
(`GuestStartsOrEnds`), unless the process stays in that write.

What the status says is no more than the code makes sure of. Trap t ends in 100 + t
(`StatusTellsTrap`), but a guest can ask for that status too: `env.exit(106)` looks like trap 6 to
the parent. `StatusIsEnough` is the theorem about guests whose codes stay away from those of the host.
Nothing in the runtime or the host bounds the guest's recursion, so any call can run out of the
native stack: `StackOverflow` ends the process by SIGSEGV at any point of the guest. The claim
about signals is therefore only that seccomp kills no honest build (`SeccompSparesHonest`).

### Emitter, WasmCode, EmitterMeaning

The module under translation is arbitrary: each step of `Emitter` appends one opcode
that validation (`WasmCode`) allows and does what `wasmCWriteFunctionCode` does with
it. The recursion of `wasmCWriteIfExpr`, `wasmCWriteBlockExpr` and `wasmCWriteLoopExpr` is a stack of their
local variables. The C text is a sequence of statements; a variable is `<<"s", slot,
type>>`. When a function is finished, `EmitterMeaning` runs the opcodes and the
statements, for every argument, and compares results, globals, memory, segments and
traps (`MeaningIsKept`). A variable of the C that was never assigned is undefined, and
reading it is an error.

One opcode stands for each class that is translated alike (all unary operators, all
loads, ...). Opcodes of w2c2 that only print "unimplemented opcode" do in the model
what they do in the code: nothing. `table.size` among them would violate
`StackIsValidated`; no module of this repository contains one.

`NamesExist` asks that the text names nothing that is not there: what is assigned and what is read
is declared, every goto has its label. It has one exception, by name (`ValuesArrive`): the
result of a block that no path leaves is pushed without a declaration (`c.c` 2205, 2271,
2336), so `(loop (result i32) br 0)` followed by an opcode that only reads the value names a variable
that the C function does not declare, and the C does not compile. Its first half, on what is assigned
and on labels, has no exception (`TargetsExist`) and is what is proved.

### Constants, FunctionFiles

`Constants` scales the LEB128 format down (numbers of 7 bits in groups of 3) so that
all numbers, all their encodings, redundant bytes included, and the sign extension at
every length are covered. A float is its sign, whether its exponent is all ones, and
its significand above and inside the low 23 bits.

`FunctionFiles` takes qsort as any sort, so that what the comparison leaves open is
visible, and a digest as a number.

### ModuleReader, CompiledModule, ModuleMeaning

A file is a sequence of units: a byte, a number whatever its LEB128 length, a letter.
`phase` is where `wasmModuleRead` stands; a step reads one section, by the reader of its
kind, with its counts, limits, early returns and error codes. `CompiledModule` is the
other end: from the declarations of a C program it makes the list of objects
(`scan_globals` and the marking of live functions in `parse.c`), and from that list
the sections of `codegen()` with their indices, the table, the addresses of data and stack.
Both meet in `ModuleMeaning`: a file of the standard's format must be read as what it says
(`ModuleIsRead`), no proper prefix of it may be taken for whole (`CutIsRefused`), and in
a program compiled by `cc/` each call must arrive at the function of its name and each datum
at its address (`CallsReachTheirFunctions`, `DataIsInPlace`).

### Heap, Stdio, HashMap

`Heap` keeps addresses and the width of `size_t` as constants. `Stdio` keeps buffers,
capacities, what the kernel has taken of each stream, and how far `write_all` is;
`Split` is tools/split.py on that stream. `HashMap` keeps the buckets and, as a ghost,
the dictionary that the caller believes in. The caller may put and delete any key at any time.
A key that is put while an entry of it lies behind a tombstone has two entries from then on;
`doubled`, a second ghost, keeps such keys. `MapIsDictionary` says how far that goes: every key of the
dictionary is found with its last value; a key that is not in it is found only if it was
doubled; and rehash's assertion fails (`Abort`, the end of the program) only when some key is.

### Preprocessor, PreprocessorMeaning

`input` is the list of tokens that `preprocess2` walks, and a step is one turn of its
loop: a macro is replaced in the list itself, a directive acts on `macros`, `cond_incl`,
the list, or the caches of files. A token keeps its hide set and whether it is the first of
its line. `PreprocessorMeaning` does not know hide sets: it keeps a mark in the text where
a replacement ends, and does not replace a macro again before its mark.

`subst` replaces an argument by calling `preprocess2` on it, which relinks the argument's own list
(line 609): from then on the parameter's `#`, `##` and further uses see what the expansion left
there (`Expanding`). The model does the same. Projects in which that shows (a parameter used
plainly and then as an operand, an argument whose macro call has a token before it) are a set of
their own, `Relinked`: the run `relinked` finds the output wrong, and `text` has all others, among
them plain uses in a row and every order in which the operand comes first. `#line` inside an
open conditional is refused although it is well formed, because `read_line_marker` hands the line to
`preprocess`, which finds the conditional open at the line's end (822, 1205): the projects of `text`
contain it, and `RefusesOnlyIllFormed` names it as its one exception (`LineInConditional`).

### Statements, StatementMeaning

A step of the parser consumes one token that some C function may have there; `open` is the
recursion of `stmt`, and `brk_label`, `cont_label` and `current_switch` are the parser's globals,
saved and restored in its frames. When the body is complete, gotos are resolved, and both
back ends run: `codegen.c` with its stack of nested blocks, `codegen_x86.c` with labels.
An expression is an event; a tested one gets its value from the environment.
`WasmFlow` and `X86Flow` compare the events of the texts with those of C for every
sequence of values; `RefusesOnlyUnsupported` says which shapes the WebAssembly back end
may refuse. A test is an event: which cases a switch tests, in which order and where each leads is
compared; how a range is tested (a subtraction and an unsigned comparison in the width of the value,
`codegen_x86.c` 1255-1257) is not in the model.

### Arithmetic, Expressions, CallArgs

Three questions about one piece of code, `gen_expr` in both back ends. `Arithmetic` asks for
the value: types of 1, 2, 4 and 8 bytes have 2, 3, 4 and 8 bits, which keeps all that depends
on widths and signs and lets small values overflow. `Expressions` asks where values wait
while others are computed: all words are distinguishable, a struct is its address, and
the operand stack, the scratch locals, the shadow stack, the registers and the machine's
stack are those of the code. `CallArgs` asks whether `push_args`, the pops of a call,
`assign_lvar_offsets` and the prologue, which count registers each on its own, agree on where
every word of every argument is. A type is an integer, a floating-point number, a long double or
a struct with the offsets and classes of its members; the numbers of registers are constants.

`Avoided` names the shapes of expressions that the code is known to get wrong and that the
run leaves out, so that all others are still checked; a configuration to run by hand
shows them (see below).

### Assembler, AssemblerMeaning

A line comes parsed; a step encodes it into the current section, or defines a symbol, and
records a fixup where an address is not known; `Finish` places the sections, applies the fixups
and writes the image. The bytes of numbers have 8 values instead of 256, those of
opcodes and prefixes keep theirs. `AssemblerMeaning` loads the image as its program headers
say and decodes it with the processor's tables: every line must be found where it was
written with the operands that it names, in the one encoding that means that.

### Programs made of parts

Four MC modules (`MCCode`, `MCProgram`, `MCText`, `MCValues`) hold several
components that belong together but do not share state. They EXTEND the components whose
properties are proved, so that what the run checks and what the theorem states is one definition,
and INSTANCE the others. They have a variable `part`, which
says at the start which component this behaviour is about; the others stand still. Each
component's constants keep their own assumptions (`PartsAssumption`), and a property
is conditional on its part.

## Runs

| run | instance | what it shows |
|---|---|---|
| `runtime` | pages of 2 bytes, 3 pages in the 32-bit space, arenas of 2 and 3 pages, a table of 2, 6 modules | types, arena, zero pages, table, and the refinement of `WasmInstance` |
| `sandbox` | 2 modules, memories to 3 bytes, input to 2 bytes, descriptors 0 to 4, DEMO_ESCAPE | the host's safety, the refinement of `SandboxIO`, liveness |
| `code` | bodies to 8 opcodes out of three sets and to 6 out of one with effects, numbers modulo 3, callees with and without a result; modules and references to 3 functions, 2 digests, -f 0, 1, 2, 5; 7 bits in groups of 3, f32 patterns; statements of up to 5, 6 or 7 tokens out of six families, 3 answers to 3 tests | validation, names, meaning; order and partition; constants; control flow in both back ends |
| `program` | texts of every section, one cut at every length; programs of up to 3 declarations and all orders of a whole one, with and without `__heap_base`; 32-byte address space, pages of 8, 2 blocks held; 2 files, buffers from 3 to 7 bytes | reading; calls, data, stack; blocks; the stream |
| `text` | 13579 projects; texts of 5 lines and every form of instruction; 3 colliding keys in tables of 4 and 8 | preprocessing; the image; search and insertion; termination |
| `values` | expressions to 4 nodes out of seven families of types and forms, with six values; to 7 nodes with structs and calls; calls with up to 6 arguments | integers; places of values; arguments |

Why the bounds are enough. `runtime`: with 3 pages in 32 bits an arena of 3 is the first
whose size wraps, an arena of 2 lets memory grow once and be refused once, the U32
operands cover every sum that wraps, the table has an entry written twice and a null
one, types 1 and 3 are equal and 2 is not, and one module traps at each step of
instantiation. `sandbox`: a byte of output is enough for a short write, codes 106 and
257 collide with a trap's status and pass a byte. `code`: eight opcodes hold two
nested blocks with values below them and code behind the branch; three numbers
distinguish operand orders; equal bodies need two digests among three functions; a case and a `continue` of a switch in a
loop fit in five tokens, a chain of cases with a `break` in seven.
`program`: three declarations hold an import, a definition that uses it and one that uses
both; heap requests reach past the last page (and, in `heap_limit`, to the last number);
contents contain header and newline, a buffer doubles once and hits the limit of its size.
`text`: a conditional needs `#if`, three branches and `#endif`; two macros that call each other
and a call that is completed behind them are the smallest case that hide sets are for; a
second inclusion needs three lines; a fixup forward and one back across sections need four lines and a
definition; all keys collide or wrap around the table's end, a table of 4 fills with
tombstones, and three keys are enough for a doubled one to meet a rehash. `values`: a conversion of a conversion of an operation has three nodes, a
struct assigned inside an argument six; six arguments exhaust four general and three
floating-point registers.

Deadlock is checked in `text`: a project and a text for the assembler have a step of
their own once they are at their end (`Ended`), so none gets stuck before, and some call of the
table is always possible. Elsewhere the system may stop by itself: a process ends, a function is
finished, a bound is reached.

## What the code does otherwise

Six runs find the code at odds with what the repository says of it (the lines are
quoted in `PROJECT.json`):

- `heap_limit`: `malloc(n)` for n within 15 of 2^32 rounds to 0 and returns an empty
  block (`libc/libc.c` line 15); for the sixteen numbers below, the next block lies over
  this one.
- `double_constants`: `wasmCWriteLiteral` masks an f64's significand with the 23 bits
  of an f32, so the canonical f64 NaN becomes `INFINITY` (`w2c2/c.c` line 1122), while
  PATCHES.md says constants are exact.
- `tentative`: `int x; int x;` leaves x without storage (`cc/parse.c` line 3324).
- `half_guarded`: a header that begins with a small guarded part and ends with another
  conditional counts as guarded (`cc/preprocess.c` line 784).
- `relinked`: after a plain use of a parameter, a `#` or `##` of it takes the argument as the first
  use has expanded it (`cc/preprocess.c` line 609).
- `small_struct`: caller and callee disagree on a struct of at most eight bytes once the
  registers are all but used up (`cc/codegen_x86.c` line 1337: the callee looks for the second half
  of a struct eight bytes too far). The same line makes them disagree on the fourth argument of
  the type `struct { double; long; }`. `HalvesAgree` says which types it does not concern.

More shapes depart from C. The runs leave them out, by `Avoided`, `InRange` and `ValuesArrive` or by what
the instances contain. The configuration `MCAvoided.cfg` contains the five shapes of
expressions and nothing else; it is run by hand, and goes on after each violation (`tlc -continue
-config MCAvoided.cfg MCValues`, 6,494 states):

| violated | shape |
|---|---|
| `WasmExpression` | the value of a struct assignment inside another one is lost in WebAssembly: both use one scratch local (`codegen.c` 555-562, against NOTES.md line 150) |
| `X86Expression` | a large struct that a call returns, passed on as an argument, is overwritten on x86 (`codegen_x86.c` 452, 658) |
| `WasmIntegers`, `X86Integers` | `~` and shifts of an `unsigned char` are not promoted to int (`type.c` 248-252) |
| `FoldedIntegers` | a folded `-1 < 0` is 0 (`parse.c` 1911) |
| `X86Integers` | a computed enum is not sign-extended on x86 (`codegen_x86.c` 310) |

And, met while modelling: an insertion into the hash table takes the first tombstone
without looking further, so a key can be stored twice, and a later rehash fails
`assert(map2.used == nkeys)` (`hashmap.c` lines 91 and 51; `text` reaches both, and `MapIsDictionary`
says when); `#line` inside a conditional is refused (see Preprocessor); `skip_line` tests the wrong way
round (`preprocess.c` 80-89), so a token after `#endif` goes on to what follows; a macro with an
empty body at the end of a line takes the next line's directive with it; `##` with two empty
arguments in a row, `##` in an object-like macro and parameters inside `__VA_OPT__` are not
processed; `#include_next` goes on from the directory of the last search even when the path
came from the cache (691-693); `#include foo` recurses for ever when foo is not a macro. In
the translator, a function whose body the reference has at another index becomes dynamic
(`w2c2/main.c` 146-148), two functions without names crash `-g`'s removal of duplicates, a
memory with a maximum of 0 pages is read as one without, and `table.size` is not
translated. `.bss` is aligned to 16 whatever its alignment (`asm.c` 640).

## Proofs

`RuntimeProofs`, from the assumptions on sizes, bytes and modules in `Runtime`:
`TypeCorrect`, `AccessesInsideArena`, `NewPagesAreZero`, `TableIsTyped`. The invariants
are not inductive by themselves. `IInv` adds that segment lengths only shrink from what
the module declares (`SegmentsShrink`, without which `memory.init` could read beyond a
segment), the bounds that hold at each phase of instantiation (nothing is allocated
before `data`, the table arena is null before `elements`), and that the canonical id
of a type is the first index of an equal type, so that ids decide equality
(`CanonicalDecides`). The key steps are arithmetic: fewer than `PageLimit` pages have
a size that does not wrap (`SizeDoesNotWrap`), and a write into a checked range leaves
every address from `size` on alone (`WriteProperties`). One lemma per action, then
`StepInv`, then the temporal theorem.

Also in `RuntimeProofs`: `RuntimeImplements`, the refinement `ImplementsInstance`, for every page size, arena,
table, module and guest. Instantiation takes several steps of generated code and one of
`WasmInstance`, so the mapped state stands still until the last of them; that this one then
finds all segments in their places needs a second invariant, `Instantiated`: what the
segments loaded so far wrote, later over earlier, and nothing else
(`InstantiationInvariance`). After that each call is one step. Since a step of the runtime could
be some other step of the instance than the one intended, `CallsMeanWhatTheySay`
is proved too: load is load, fill is fill, with the same operands and result.

`SandboxProofs`: the process takes only steps of `Runtime` or none, so the theorems
above hold under the host (`ProcessInvariance`, which also gives `HostInv`: the links
between where cmain is, the two flags, the report and the status). From it follow
`Sealed`, `StatusTellsTheEnd`, `StatusIsEnough`, `TrapIsTheEnd` and `SeccompKillsNoHonestBuild`, and `OnlyMaps`: the process
implements `SandboxIO`, for every module, input, arena and build. `StatusTellsTheEnd` says which status
each end has; the converse needs the condition of `StatusIsEnough` on the guest's exit codes. The mapping turns the
host's place and the seccomp mode into the life of the abstract process; every action is
a step or a stutter of it (`StepsOfThePromise`).

`HeapProofs`, from `HeapAssumption` (a word is a multiple of the
page and of the alignment, memory fits into a word, the heap starts in the first page) and `RequestsFit` (no request, and no product that calloc lets through,
comes within two headers of the size of a word: the code does not test for it, and
`heap_limit` shows that it is needed): `BlocksStayApart`, for every sequence of malloc,
calloc, realloc and free and any writes of the owners into their blocks. `HeapInv` adds to the
property where `heap_top` is and that the header in front of each block holds its rounded size,
below `heap_top` and inside memory; without it nothing keeps realloc's copy inside the old
block. `NewBlock` is about the place of a block that malloc returns, `GrownMemory` about memory
that `memory.grow` extends, `Laid` and `FilledBlock` about what a new or written block leaves alone,
`NothingLaid` about a malloc that fails; then one lemma per operation. `program` checks the
property that `BlocksStayApart` states, `HeapKept`.

`EmitterProofs`: `StackFollowsValidation` (`StackIsValidated`) and `GotosAndAssignmentsHaveTargets` (`TargetsExist`), for all types,
variables, labels, function types, with and without result, and bodies of any length in which `table.size` does not
occur (`TableSizeUnused`: the writer pushes nothing for it, so the theorem is false with it).
`EmitterInv` relates the writer to validation block by block: there is one active call for each
block, and it skips code exactly if a block around it was dead (`CallsOK`); the blocks entered alive
are the outer ones and own the labels, in increasing order (`LabelsOK`); below the height of such a
block the writer knows the operands, and when nothing is dead it knows all (`StackOK`). The
last is what is needed at `end` and `else`, where the writer cuts its stack back to a
height it remembered although what lies above may be unknown after a branch.
`CodeOK` is about the text: what is assigned is declared, and each label that was given out either has its
one place in the text, or belongs to a block that will place it. One lemma per kind of opcode.

`TranslatorProofs`, from `FilesAssumption`: `SortingDetermined` (`OrderIsDetermined`) takes two results of
qsort that differ and looks at the least place where they do: the smaller of the two elements
there has no place left in the other. `LinksOnce` (`EveryFunctionOnce`): `FilesInv` says that the
static and the dynamic list are disjoint and hold together exactly the functions taken so
far, and that what has been written is the first `fileIndex * functionsPerFile` of one list
after all of the other, each at one place.

From `ConstantsAssumption`, in the same module: `ConstantsAreKept` (`ConstantKept`), for every width, every
length of groups and every encoding of a number, with as many redundant bytes as the format allows.
`ConstantInv` says that after n groups the value is the constant modulo 2^(n * Group), or modulo the width once that
is passed, and that the rest of the buffer holds the other groups; so the last byte leaves a
value that lacks only the sign, and the sign bit of that byte is the sign of the constant
because all bits above it are equal. Powers of 2 with variable exponents are a recursive function
(`pow2`), of which the solver needs only sums of exponents and that smaller powers divide larger ones. The
theorem assumes `"f64" \notin Kinds`: with it `double_constants` shows that the statement is false.

`CallArgsProofs`, from `CallAssumption` and `HalvesAgree`: `ArgumentsAlwaysArrive` (`ArgumentsArrive`), for every number of
registers, every set of types and every list of arguments. `HalvesAgree` (each struct that could go in registers
has a second half, and both ways to look at it agree) is a condition on types that the code
needs, as `small_struct` shows. `DecisionsAgree` and `SamePlaces` are about the counts of `push_args` and of
`assign_lvar_offsets`. `InStep` is the invariant along the arguments, after the pops of i of them: as many registers are
filled as are counted, up to all of them (`AsCounted`); the stack holds the arguments still to be popped above
those that stay there; the prologue has taken the same registers and has passed the words of those
on the stack. `StepKept` has one case for an argument on the stack (`OverStack`) and one for registers
(`InRegisters`, with one word or two). Then what a register holds stays until the call (`ToTheCall`), and what the callee reads
above its frame is the end of what was pushed first (`AtTheEnd`).

`StdioProofs`, from `StdioAssumption`: `StdioKeepsFiles` (`FilesKept`), for every stdin, every data and every
way in which the kernel cuts or fails reads and writes. `StdioInv` says of each FILE that it fits
its capacity, of the first reader that what it has and what stdin still has make up stdin, and of the
stream that, with what `write_all` still has to write, it is the closed files laid out one
behind the other. `SplitsLaidOut` then is an induction from the last file to the first:
split.py, a recursive function, finds each header where the previous content ended, whatever
the contents look like. `GrowIs` is the doubling of the buffer.

`HashMapProofs`, from `HashMapAssumption` (an initial size of at least 4; the source has 16; with fewer than 4 an
insertion can take the last NULL): `SearchesEnd` (`NeverUnreachable`), for every hash function and every sequence
of puts and deletes: `CountInv` says that `used` counts the buckets that are not NULL and is less than their
number, which the two watermarks preserve (`NotFull`, `GrownIs`). `TableIsDictionary` (`MapIsDictionary`), under no
condition on the caller: `MapInv` says that the first entry on each key's way has the value of the dictionary
and no NULL before it, and that a key with a second entry, or with one left over by a delete, is
in `doubled`. An insertion takes the first tombstone or the key itself, so what it writes leads (`Leads`)
whatever lies behind it; a delete removes the leading entry and leaves another only of a doubled
key. A rehash that keeps its count met no key twice, and one that does not is the `Abort`, which needs
a doubled key (`AbortKeepsInvariants`).
`RehashIs` follows the rehash bucket by bucket: the new table has as many entries as were copied, so
it stays below half (`CopyCounts`), and holds them and nothing else (`CopyIsFaithful`).

The prover has no induction principle that can be used with these definitions. Where a proof needs one
(a least element, a doubling, a list that is read from its end, a table that is copied bucket
by bucket), it takes the least counterexample, from the well-foundedness of < on the
naturals, and recursive functions are first shown to exist in the same way.

Only model-checked: all liveness, which needs fairness and ENABLED, out of reach of the
prover. What a text means: `MeaningIsKept`, `WasmFlow`, `X86Flow` and the properties of
`Arithmetic`, `Expressions`, `Preprocessor`, `Assembler` and `ModuleReader`, whose `...Meaning` modules are
recursive operators over trees and texts, which the prover does not handle. `CallsReachTheirFunctions` and `DataIsInPlace`, which
fold over the declarations of a program and share their modules with those recursive operators.
The findings are about single behaviours and need no proof.

## Not modelled

- Values of the numeric operators of WebAssembly and all floating-point values; atomics and threads
  (the translator's, unused by the stack); a second table; imported memories.
- From characters to tokens and back: the tokenizer, names and escapes in the C text, headers,
  imports and exports of a translated module, the operands of assembler lines, debug lines.
  They are functions of their input, without state, whose properties are about spelling.
- Of the preprocessor: the built-in macros, line markers, values of conditions other than numbers,
  `defined` and `!`.
- Of the parser: declarators, scopes, initializers, struct layout, bitfields, variable-length
  arrays; of the back ends, varargs, long double other than as an argument, bitfields and atomics.
- The string functions, qsort, strtoul and printf; fread and fseek of a slurped file.
- SHA-1, getopt, the stock runtime header, which the builds do not use; the options and paths
  of both programs; the guests (`Sandbox` has any guest) and the control harness, whose other
  half, wazero, is not in the repository; tests and build scripts.

## What could come next

1. Struct layout, initializers and bitfields: offsets of members against what both back ends load
   and store.
2. Scopes: which declaration a name means, on top of `HashMap`.
3. Varargs, and arguments in the WebAssembly convention, joined with `CallArgs`.
4. fread and fseek over a slurped file, and stdio over the heap.
5. Proofs: the indices and addresses of `CompiledModule`; the block depths of `Statements`; that a file cut
   anywhere is refused (`ModuleReader`).
