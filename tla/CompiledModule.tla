---------------------------- MODULE CompiledModule ----------------------------
(***************************************************************************)
(* What the compiler makes of a whole translation unit: parse.c turns the  *)
(* declarations into a list of functions and variables, and codegen() of   *)
(* cc/codegen.c numbers the functions, lays out the data and writes the    *)
(* module, in the units of ModuleReader.  Of the code of a function only   *)
(* its references to other symbols are kept, behind a constant that tells  *)
(* the function from the others.                                           *)
(***************************************************************************)
EXTENDS ModuleReader

CONSTANTS
  StartName, MemoryName, EnvName,   \* "_start", "memory", "env"
  EnvNames,                         \* the names that begin with "__env_"
  HeapBaseName,                     \* "__heap_base", which the compiler knows
  opt_stack_size, opt_max_pages

data_base == 1024

\* A declaration, and the object made of it: a function has a signature and,
\* when it is defined, a body, the sequence of its references; a variable has
\* a size, an alignment and, when it is initialised, bytes and relocations.
Function(name, sig, body) ==
  [name |-> name, is_function |-> TRUE, sig |-> sig, is_definition |-> body # <<>>, body |-> body,
   is_tentative |-> FALSE, size |-> 0, align |-> 1, init_data |-> <<>>, rel |-> <<>>]
Variable(name, size, align, extern, init, rel) ==
  [name |-> name, is_function |-> FALSE, sig |-> <<>>, is_definition |-> ~extern, body |-> <<>>,
   is_tentative |-> init = <<>> /\ ~extern, size |-> size, align |-> align, init_data |-> init, rel |-> rel]

Call(name) == [kind |-> "call", name |-> name]
Address(name) == [kind |-> "address", name |-> name]
CallThrough(sig) == [kind |-> "pointer", sig |-> sig]
Self(id) == [kind |-> "self", id |-> id]

-----------------------------------------------------------------------------
(* parse.c.  The list has the newest object first.                          *)

\* function: one object for all declarations, with the type of the first;
\* global_variable: an object for each.
declare(globals, d) ==
  LET same == {i \in DOMAIN globals : d.is_function /\ globals[i].is_function /\ globals[i].name = d.name}
  IN IF same = {} THEN <<d>> \o globals
     ELSE [i \in DOMAIN globals |->
             IF i \in same /\ d.is_definition
               THEN [globals[i] EXCEPT !.is_definition = TRUE, !.body = d.body] ELSE globals[i]]

\* Mutant: any other declaration makes a tentative definition redundant.
ScanDeclarations(globals) ==
  LET kept == SelectSeq([i \in DOMAIN globals |-> i],
                        LAMBDA i : ~(globals[i].is_tentative
                                     /\ \E j \in DOMAIN globals \ {i} : globals[j].name = globals[i].name))
  IN [k \in DOMAIN kept |-> globals[kept[k]]]

\* A tentative definition goes if the list has another definition of its name.
\* The list is relinked on the way: what went is still found before the first
\* object that is kept and after the last, not between two that are.
scan_globals(globals) ==
  LET unlinked(kept) == IF kept = <<>> THEN {} ELSE (Head(kept)..Last(kept)) \ ToSet(kept)
      redundant(kept, i) == \E j \in DOMAIN globals \ (unlinked(kept) \union {i}) :
                              globals[j].is_definition /\ globals[j].name = globals[i].name
      kept == FoldLeft(LAMBDA before, i : IF globals[i].is_tentative /\ redundant(before, i)
                                            THEN before ELSE Append(before, i),
                       <<>>, [i \in DOMAIN globals |-> i])
  IN [k \in DOMAIN kept |-> globals[kept[k]]]

parse(decls) == scan_globals(FoldLeft(declare, <<>>, decls))

-----------------------------------------------------------------------------
(* Numbers and addresses.  prog is the list in source order.                *)

Functions(prog) == SelectSeq(prog, LAMBDA o : o.is_function)
Definitions(prog) == SelectSeq(prog, LAMBDA o : o.is_function /\ o.is_definition)

\* mark_refs of every body, and the labels of the relocations.
Referenced(prog) ==
  {r.name : r \in UNION {{b \in ToSet(o.body) : b.kind \in {"call", "address"}} : o \in ToSet(prog)}}
  \union {r.label : r \in UNION {ToSet(o.rel) : o \in {v \in ToSet(prog) : v.is_definition}}}

Imported(prog) ==
  SelectSeq(prog, LAMBDA o : o.is_function /\ ~o.is_definition /\ o.name \in Referenced(prog))

funcs(prog) == Imported(prog) \o Definitions(prog)

\* Mutant: the number of the function among all, not behind the imports.
NumberInSource(prog, name) ==
  LET defined == SelectSeq(prog, LAMBDA o : o \in ToSet(funcs(prog)))
      found == {i \in DOMAIN defined : defined[i].name = name}
  IN IF found = {} THEN -1 ELSE (CHOOSE i \in found : TRUE) - 1

\* -1 where func_idx calls error_tok.
func_idx(prog, name) ==
  LET found == {i \in DOMAIN funcs(prog) : funcs(prog)[i].name = name}
  IN IF found = {} THEN -1 ELSE (CHOOSE i \in found : TRUE) - 1

align_to(n, align) == ((n + align - 1) \div align) * align

\* The variables that get storage, in the order in which they get it: first
\* those with initial data, and of each name the first.
Stored(prog) ==
  LET vars_ == SelectSeq(prog, LAMBDA o : ~o.is_function /\ o.is_definition)
      passes == SelectSeq(vars_, LAMBDA o : o.init_data # <<>>) \o SelectSeq(vars_, LAMBDA o : o.init_data = <<>>)
      first == SelectSeq([i \in DOMAIN passes |-> i],
                         LAMBDA i : \A j \in 1..(i - 1) : passes[j].name # passes[i].name)
  IN [k \in DOMAIN first |-> passes[first[k]]]

Redefined(prog) ==
  \E i, j \in DOMAIN prog : /\ i # j /\ prog[i].name = prog[j].name
                            /\ prog[i].init_data # <<>> /\ prog[j].init_data # <<>>

\* Mutant: the next address does not follow from the aligned one.
PlaceUnaligned(layout, var) ==
  LET offset == align_to(layout.addr, var.align)
  IN [layout EXCEPT !.addr = @ + var.size,
                    !.offset = Append(@, [name |-> var.name, at |-> offset]),
                    !.data_end = IF var.init_data # <<>> THEN offset + var.size ELSE @]

Place(layout, var) ==
  LET offset == align_to(layout.addr, var.align)
  IN [layout EXCEPT !.addr = offset + var.size,
                    !.offset = Append(@, [name |-> var.name, at |-> offset]),
                    !.data_end = IF var.init_data # <<>> THEN offset + var.size ELSE @]

layout_globals(prog) ==
  FoldLeft(Place, [addr |-> data_base, offset |-> <<>>, data_end |-> data_base], Stored(prog))

stack_bottom(layout) == align_to(layout.addr, 16)
stack_top(layout) == stack_bottom(layout) + align_to(opt_stack_size, 16)
DoesNotFit(layout) == stack_top(layout) + 65535 > opt_max_pages * 65536

\* A function has the index of its entry in the table; -1 for error_tok.
global_addr(prog, layout, name) ==
  LET at == {s \in ToSet(layout.offset) : s.name = name}
  IN IF \E f \in ToSet(Functions(prog)) : f.name = name
       THEN IF func_idx(prog, name) = -1 THEN -1 ELSE func_idx(prog, name) + 1
     ELSE IF at # {} THEN (CHOOSE s \in at : TRUE).at
     ELSE IF name = HeapBaseName THEN stack_top(layout) ELSE -1

-----------------------------------------------------------------------------
(* The sections.  buf_name and buf_section put a length before what follows. *)

buf_name(name) == <<Len(name)>> \o name
buf_section(id, content) == <<id, Len(content)>> \o content

Signature(sig) == <<96, Len(sig.params)>> \o sig.params \o <<Len(sig.results)>> \o sig.results

\* The types are entered in the order of sig_index's calls: for the imports,
\* the definitions, and then the calls through pointers in their code.
Entered(prog) ==
  FoldLeft(LAMBDA entries, sig : IF sig \in ToSet(entries) THEN entries ELSE Append(entries, sig), <<>>,
           [i \in DOMAIN funcs(prog) |-> funcs(prog)[i].sig]
             \o FlattenSeq([i \in DOMAIN Definitions(prog) |->
                  LET through == SelectSeq(Definitions(prog)[i].body, LAMBDA r : r.kind = "pointer")
                  IN [k \in DOMAIN through |-> through[k].sig]]))

sig_index(prog, sig) == (CHOOSE i \in DOMAIN Entered(prog) : Entered(prog)[i] = sig) - 1

gen_reference(prog, layout, r) ==
  CASE r.kind = "call" -> <<16, func_idx(prog, r.name)>>
    [] r.kind = "address" -> <<65, global_addr(prog, layout, r.name)>>
    [] r.kind = "pointer" -> <<17, sig_index(prog, r.sig), 0>>
    [] r.kind = "self" -> <<65, -r.id>>

\* Its size, the locals and the code.
gen_function(prog, layout, fn) ==
  LET locals == <<3, 127, 1, 126, 1, 125, 1, 124>>
      result == IF fn.sig.results = <<>> THEN <<>> ELSE <<1>> \o fn.sig.results
      code == FlattenSeq([i \in DOMAIN fn.body |-> gen_reference(prog, layout, fn.body[i])]) \o <<11>>
      body == <<IF result = <<>> THEN 4 ELSE 5>> \o locals \o result \o code
  IN <<Len(body)>> \o body

\* The four bytes of a number, the least first.
Bytes4(v) == [k \in 1..4 |-> (v \div 256 ^ (k - 1)) % 256]

\* The image of one variable: its bytes, and the relocations over them.
Initial(prog, layout, var) ==
  FoldLeft(LAMBDA img, rel :
             LET b == Bytes4(global_addr(prog, layout, rel.label) + rel.addend)
             IN [i \in DOMAIN img |-> IF i - rel.offset \in 1..4 THEN b[i - rel.offset] ELSE img[i]],
           var.init_data, var.rel)

emit_data(prog, layout) ==
  LET at(name) == (CHOOSE s \in ToSet(layout.offset) : s.name = name).at
      put(img, var) == LET bytes == Initial(prog, layout, var)
                       IN [i \in DOMAIN img |-> IF i - at(var.name) + data_base \in DOMAIN bytes
                                                  THEN bytes[i - at(var.name) + data_base] ELSE img[i]]
      n == layout.data_end - data_base
      image == FoldLeft(put, [i \in 1..n |-> 0], SelectSeq(Stored(prog), LAMBDA o : o.init_data # <<>>))
  IN <<1, 0, 65, data_base, 11, n>> \o image

min_pages(layout) == (stack_top(layout) + 65535) \div 65536

export_content(prog) ==
  LET start == func_idx(prog, StartName)
  IN <<IF start = -1 THEN 1 ELSE 2>> \o buf_name(MemoryName) \o <<2, 0>>
     \o (IF start = -1 THEN <<>> ELSE buf_name(StartName) \o <<0, start>>)

module_of(prog, layout) ==
  LET nfuncs == Len(funcs(prog))
      nimports == Len(Imported(prog))
      import(fn) == buf_name(EnvName) \o buf_name(fn.name) \o <<0, sig_index(prog, fn.sig)>>
      imports == FlattenSeq([i \in 1..nimports |-> import(funcs(prog)[i])])
  IN wasmMagic
     \o buf_section(1, <<Len(Entered(prog))>> \o FlattenSeq([i \in DOMAIN Entered(prog) |-> Signature(Entered(prog)[i])]))
     \o (IF nimports = 0 THEN <<>> ELSE buf_section(2, <<nimports>> \o imports))
     \o buf_section(3, <<nfuncs - nimports>>
                       \o [i \in 1..(nfuncs - nimports) |-> sig_index(prog, Definitions(prog)[i].sig)])
     \o buf_section(4, <<1, 112, 1, nfuncs + 1, nfuncs + 1>>)
     \o buf_section(5, <<1, 1, min_pages(layout), opt_max_pages>>)
     \o buf_section(6, <<1, 127, 1, 65, stack_top(layout), 11>>)
     \o buf_section(7, export_content(prog))
     \o buf_section(9, <<1, 0, 65, 1, 11, nfuncs>> \o [i \in 1..nfuncs |-> i - 1])
     \o buf_section(10, <<nfuncs - nimports>>
                        \o FlattenSeq([i \in DOMAIN Definitions(prog) |-> gen_function(prog, layout, Definitions(prog)[i])]))
     \o buf_section(11, emit_data(prog, layout))

\* error is called before anything is written.
Refused(prog, layout) ==
  \/ \E o \in ToSet(Imported(prog)) : o.name \notin EnvNames
  \/ \E name \in Referenced(prog) : global_addr(prog, layout, name) = -1
  \/ Redefined(prog)
  \/ DoesNotFit(layout)

codegen(decls) ==
  LET prog == Reverse(parse(decls))
      layout == layout_globals(prog)
  IN IF Refused(prog, layout) THEN <<>> ELSE module_of(prog, layout)

=============================================================================
