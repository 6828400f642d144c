------------------------------- MODULE Runtime -------------------------------
(***************************************************************************)
(* The runtime of a translated module: rt/w2c2_base.h, the instantiation   *)
(* code that w2c2/c.c writes into every generated file, and the calls into *)
(* both that it writes for the instructions of the guest.                  *)
(*                                                                         *)
(* The guest is any program: each action of the last section is one        *)
(* generated call with operands of the guest's choice, and env.read and    *)
(* env.write reach the memory through HostWrite and HostRead.              *)
(* The instance is the one static instance of the process: nothing frees   *)
(* it and nothing makes a second one (NewChild traps in calloc).           *)
(***************************************************************************)
EXTENDS Integers, Sequences

CONSTANTS
    PageSize,    \* WASM_PAGE_SIZE
    PageLimit,   \* pages in the 2^32 bytes that a U32 addresses
    ArenaSizes,  \* the values of ARENA_PAGES a host may be built with
    TableSize,   \* TABLE_SIZE
    Bytes,       \* the values of a byte
    Widths,      \* sizeof of the types that DEFINE_LOAD and DEFINE_STORE name
    Offsets,     \* static offsets of the load and store instructions
    Sigs,        \* function signatures
    Modules      \* decoded modules

U32Size == PageSize * PageLimit
U32 == 0 .. U32Size - 1
Pages == 0 .. PageLimit

IsModule(m) ==
    /\ m.minPages \in U32 /\ m.maxPages \in U32
    /\ m.minTable \in U32 /\ m.maxTable \in U32
    /\ m.types \in Seq(Sigs)
    /\ m.funcs \in Seq(DOMAIN m.types)
    /\ m.data \in Seq([active : BOOLEAN, offset : U32, bytes : Seq(Bytes)])
    /\ m.elems \in Seq([offset : U32, funcs : Seq(DOMAIN m.funcs)])
    /\ \A k \in DOMAIN m.data : Len(m.data[k].bytes) \in U32
    /\ \A k \in DOMAIN m.elems : Len(m.elems[k].funcs) \in U32

ASSUME SizesAssumption ==
    /\ PageSize \in Nat \ {0} /\ PageLimit \in Nat \ {0}
    /\ ArenaSizes \subseteq Nat /\ TableSize \in Nat
ASSUME BytesAssumption == Bytes \subseteq Nat /\ 0 \in Bytes
ASSUME WidthsAssumption == Widths \subseteq U32 /\ Offsets \subseteq U32
ASSUME ModulesAssumption == \A m \in Modules : IsModule(m)

VARIABLES
    mod,               \* the module that was translated
    wasm_arena_pages,  \* the size of the arena it is linked with
    arena,             \* wasm_arena
    pages, size, maxPages,   \* the fields of wasm_memory0
    segLen,            \* dN_len of every data segment
    tdata, ttypes,     \* wasm_table_arena and wasm_table_types_arena
    tsize,             \* t0.size
    phase,             \* the line of guestInstantiate that is next
    cursor,            \* the segment that is loaded next
    result,            \* what the last call returned to the guest
    trapped            \* <<>>, or the Trap and the operands that raised it

memory == <<pages, size, maxPages>>
tables == <<tdata, ttypes, tsize>>
vars == <<mod, wasm_arena_pages, arena, memory, segLen, tables,
          phase, cursor, result, trapped>>

-----------------------------------------------------------------------------
(* Helpers. *)

Address(n) == 0 .. n - 1
MinOf(a, b) == IF a <= b THEN a ELSE b
Add32(a, b) == (a + b) % U32Size
MinusOne == U32Size - 1

(* the address w2c2 writes for a load or a store: a U32 sum *)
EffectiveAddress(base, offset) == (base + offset) % U32Size

Covers(at, n, x) == at <= x /\ x < at + n
Read(f, at, n) == [i \in 1 .. n |-> f[at + i - 1]]
Write(f, at, s) ==
    [x \in DOMAIN f |-> IF Covers(at, Len(s), x) THEN s[x - at + 1] ELSE f[x]]

(* Two type indices get the same id exactly when the types are equal. *)
wasmCanonicalFunctionTypeIndex(m, t) ==
    CHOOSE j \in 1 .. t :
        /\ m.types[j] = m.types[t]
        /\ \A i \in 1 .. j - 1 : m.types[i] # m.types[t]

(* mutant: the index that the module declares, as it is *)
RawFunctionTypeIndex(m, f) == m.funcs[f]

wasmCanonicalFunctionTypeIndexOfFunction(m, f) ==
    wasmCanonicalFunctionTypeIndex(m, m.funcs[f])

Trap(t) ==
    /\ trapped' = t
    /\ result' = <<>>
    /\ UNCHANGED <<mod, wasm_arena_pages, arena, memory, segLen, tables,
                   phase, cursor>>

-----------------------------------------------------------------------------
(* The arenas are .bss: zero, null and id 0. *)
Init ==
    /\ mod \in Modules
    /\ wasm_arena_pages \in ArenaSizes
    /\ arena = [a \in Address(wasm_arena_pages * PageSize) |-> 0]
    /\ pages = 0 /\ size = 0 /\ maxPages = 0
    /\ segLen = [k \in DOMAIN mod.data |-> Len(mod.data[k].bytes)]
    /\ tdata = [x \in Address(TableSize) |-> 0]
    /\ ttypes = [x \in Address(TableSize) |-> 0]
    /\ tsize = 0
    /\ phase = "memory" /\ cursor = 1
    /\ result = <<>>
    /\ trapped = <<>>

-----------------------------------------------------------------------------
(* guestInstantiate, in the order of the generated code: InitMemories,     *)
(* which loads the active data segments, then InitTables.                  *)

Instantiating(p) == phase = p /\ trapped = <<>>

(* mutant: an arena of 65536 pages or more is accepted *)
AllocateAnyArena ==
    LET max == MinOf(mod.maxPages, wasm_arena_pages)
    IN  /\ Instantiating("memory")
        /\ mod.minPages <= max
        /\ pages' = mod.minPages
        /\ size' = (mod.minPages * PageSize) % U32Size
        /\ maxPages' = max
        /\ phase' = "data"
        /\ UNCHANGED <<mod, wasm_arena_pages, arena, segLen, tables,
                       cursor, result, trapped>>

wasmMemoryAllocate ==
    LET max == MinOf(mod.maxPages, wasm_arena_pages)
    IN  /\ Instantiating("memory")
        /\ \/ /\ wasm_arena_pages >= PageLimit \/ mod.minPages > max
              /\ Trap(<<5>>)
           \/ /\ wasm_arena_pages < PageLimit /\ mod.minPages <= max
              /\ pages' = mod.minPages
              /\ size' = (mod.minPages * PageSize) % U32Size
              /\ maxPages' = max
              /\ phase' = "data"
              /\ UNCHANGED <<mod, wasm_arena_pages, arena, segLen, tables,
                             cursor, result, trapped>>

(* wasm_check passes *)
wasm_check(addr, n) == addr + n <= size

(* mutant: the loop stops at a passive segment *)
LoadActiveOnly ==
    /\ Instantiating("data") /\ cursor \in DOMAIN mod.data
    /\ mod.data[cursor].active
    /\ arena' = Write(arena, mod.data[cursor].offset, mod.data[cursor].bytes)
    /\ cursor' = cursor + 1
    /\ UNCHANGED <<mod, wasm_arena_pages, memory, segLen, tables, phase, result,
                   trapped>>

LOAD_DATA ==
    /\ Instantiating("data") /\ cursor \in DOMAIN mod.data
    /\ LET s == mod.data[cursor] IN
       \/ /\ s.active /\ ~ wasm_check(s.offset, Len(s.bytes))
          /\ Trap(<<6, s.offset, Len(s.bytes)>>)
       \/ /\ s.active => wasm_check(s.offset, Len(s.bytes))
          /\ arena' = IF s.active THEN Write(arena, s.offset, s.bytes) ELSE arena
          /\ cursor' = cursor + 1
          /\ UNCHANGED <<mod, wasm_arena_pages, memory, segLen, tables, phase,
                         result, trapped>>

(* mutant: the size of the table is not compared with the arena *)
AllocateAnyTable ==
    /\ Instantiating("data") /\ cursor \notin DOMAIN mod.data
    /\ tsize' = mod.minTable
    /\ phase' = "elements" /\ cursor' = 1
    /\ UNCHANGED <<mod, wasm_arena_pages, arena, memory, segLen, tdata,
                   ttypes, result, trapped>>

wasmTableAllocate ==
    /\ Instantiating("data") /\ cursor \notin DOMAIN mod.data
    /\ \/ /\ mod.minTable > MinOf(mod.maxTable, TableSize)
          /\ Trap(<<5>>)
       \/ /\ mod.minTable <= MinOf(mod.maxTable, TableSize)
          /\ tsize' = mod.minTable
          /\ phase' = "elements" /\ cursor' = 1
          /\ UNCHANGED <<mod, wasm_arena_pages, arena, memory, segLen, tdata,
                         ttypes, result, trapped>>

(* wasm_table_init, and the stores of functions and type ids after it *)
InitElements ==
    /\ Instantiating("elements") /\ cursor \in DOMAIN mod.elems
    /\ LET s == mod.elems[cursor]
           count == Len(s.funcs)
       IN
       \/ /\ s.offset + count > tsize
          /\ Trap(<<7, s.offset, count>>)
       \/ /\ s.offset + count <= tsize
          /\ tdata' = Write(tdata, s.offset, s.funcs)
          /\ ttypes' = Write(ttypes, s.offset, [i \in 1 .. count |->
                          wasmCanonicalFunctionTypeIndexOfFunction(mod, s.funcs[i])])
          /\ cursor' = cursor + 1
          /\ UNCHANGED <<mod, wasm_arena_pages, arena, memory, segLen, tsize,
                         phase, result, trapped>>

(* the start function, or guest__start, is called *)
EnterGuest ==
    /\ Instantiating("elements") /\ cursor \notin DOMAIN mod.elems
    /\ phase' = "guest"
    /\ UNCHANGED <<mod, wasm_arena_pages, arena, memory, segLen, tables, cursor,
                   result, trapped>>

-----------------------------------------------------------------------------
(* The guest runs. *)

InGuest == phase = "guest" /\ trapped = <<>>

Return(r) ==
    /\ result' = r
    /\ UNCHANGED <<mod, wasm_arena_pages, maxPages, tables, phase, cursor, trapped>>

Stored(at, s) ==
    /\ arena' = Write(arena, at, s)
    /\ Return(<<>>)
    /\ UNCHANGED <<pages, size, segLen>>

OutOfBounds(at, n) == ~ wasm_check(at, n) /\ Trap(<<6, at, n>>)

(* DEFINE_LOAD *)
Load(base, offset, w) ==
    LET a == EffectiveAddress(base, offset)
    IN  /\ InGuest
        /\ \/ OutOfBounds(a, w)
           \/ /\ wasm_check(a, w)
              /\ Return(Read(arena, a, w))
              /\ UNCHANGED <<arena, pages, size, segLen>>

(* DEFINE_STORE *)
Store(base, offset, s) ==
    LET a == EffectiveAddress(base, offset)
    IN  /\ InGuest
        /\ \/ OutOfBounds(a, Len(s))
           \/ wasm_check(a, Len(s)) /\ Stored(a, s)

wasmMemoryCopy(d, s, n) ==
    /\ InGuest
    /\ \/ OutOfBounds(d, n)
       \/ wasm_check(d, n) /\ OutOfBounds(s, n)
       \/ wasm_check(d, n) /\ wasm_check(s, n) /\ Stored(d, Read(arena, s, n))

(* mutant: only the first byte of the range is checked *)
FillFromCheckedByte(d, v, n) ==
    /\ InGuest
    /\ \/ OutOfBounds(d, MinOf(n, 1))
       \/ wasm_check(d, MinOf(n, 1)) /\ Stored(d, [i \in 1 .. n |-> v])

wasmMemoryFill(d, v, n) ==
    /\ InGuest
    /\ \/ OutOfBounds(d, n)
       \/ wasm_check(d, n) /\ Stored(d, [i \in 1 .. n |-> v])

wasm_memory_init(d, k, s, n) ==
    /\ InGuest
    /\ \/ s + n > segLen[k] /\ Trap(<<6, s, n, k>>)
       \/ s + n <= segLen[k] /\ OutOfBounds(d, n)
       \/ /\ s + n <= segLen[k] /\ wasm_check(d, n)
          /\ Stored(d, Read(mod.data[k].bytes, s + 1, n))

DataDrop(k) ==
    /\ InGuest
    /\ segLen' = [segLen EXCEPT ![k] = 0]
    /\ Return(<<>>)
    /\ UNCHANGED <<arena, pages, size>>

MemorySize ==
    /\ InGuest
    /\ Return(<<pages>>)
    /\ UNCHANGED <<arena, pages, size, segLen>>

(* mutant: a sum that wraps is not noticed *)
GrowPastWrap(delta) ==
    LET new == Add32(pages, delta)
    IN  /\ InGuest
        /\ new <= maxPages
        /\ pages' = new
        /\ size' = (new * PageSize) % U32Size
        /\ Return(<<pages>>)
        /\ UNCHANGED <<arena, segLen>>

wasmMemoryGrow(delta) ==
    LET new == Add32(pages, delta)
    IN  /\ InGuest
        /\ \/ /\ new < pages \/ new > maxPages
              /\ Return(<<MinusOne>>)
              /\ UNCHANGED <<arena, pages, size, segLen>>
           \/ /\ new >= pages /\ new <= maxPages
              /\ pages' = new
              /\ size' = (new * PageSize) % U32Size
              /\ Return(<<pages>>)
              /\ UNCHANGED <<arena, segLen>>

(* wasm_table_get with the id of the call site's type; result is the callee *)
CallIndirect(i, t) ==
    /\ InGuest
    /\ \/ i >= tsize /\ Trap(<<7, i>>)
       \/ i < tsize /\ tdata[i] = 0 /\ Trap(<<8, i>>)
       \/ /\ i < tsize /\ tdata[i] # 0
          /\ ttypes[i] # wasmCanonicalFunctionTypeIndex(mod, t)
          /\ Trap(<<9, i, t>>)
       \/ /\ i < tsize /\ tdata[i] # 0
          /\ ttypes[i] = wasmCanonicalFunctionTypeIndex(mod, t)
          /\ Return(<<tdata[i]>>)
          /\ UNCHANGED <<arena, pages, size, segLen>>

(* UNREACHABLE, DIV_S and DIVREM_U, conversions *)
ArithmeticTrap(t) == InGuest /\ Trap(<<t>>)

(* env.read and env.write check the whole buffer, however many bytes the    *)
(* kernel moves; -1 is what they return for a bad descriptor or an error.   *)
HostRefuses ==
    /\ InGuest
    /\ Return(<<MinusOne>>)
    /\ UNCHANGED <<arena, pages, size, segLen>>

HostWrite(ptr, len, s) ==
    /\ InGuest /\ wasm_check(ptr, len) /\ Len(s) <= len
    /\ arena' = Write(arena, ptr, s)
    /\ Return(<<Len(s)>>)
    /\ UNCHANGED <<pages, size, segLen>>

HostRead(ptr, len, n) ==
    /\ InGuest /\ wasm_check(ptr, len) /\ n <= len
    /\ Return(<<n>>)
    /\ UNCHANGED <<arena, pages, size, segLen>>

-----------------------------------------------------------------------------
Instantiate ==
    \/ wasmMemoryAllocate \/ LOAD_DATA \/ wasmTableAllocate \/ InitElements
    \/ EnterGuest

Guest ==
    \/ \E base \in U32, offset \in Offsets, w \in Widths :
         \/ Load(base, offset, w)
         \/ \E s \in [1 .. w -> Bytes] : Store(base, offset, s)
    \/ \E d \in U32, n \in U32 :
         \/ \E s \in U32 : wasmMemoryCopy(d, s, n)
         \/ \E v \in Bytes : wasmMemoryFill(d, v, n)
         \/ \E k \in DOMAIN mod.data, s \in U32 : wasm_memory_init(d, k, s, n)
    \/ \E k \in DOMAIN mod.data : DataDrop(k)
    \/ MemorySize
    \/ \E delta \in U32 : wasmMemoryGrow(delta)
    \/ \E i \in U32, t \in DOMAIN mod.types : CallIndirect(i, t)
    \/ \E t \in 1 .. 4 : ArithmeticTrap(t)

HostCalls ==
    \/ HostRefuses
    \/ \E ptr \in U32, len \in U32 :
         \/ InGuest /\ OutOfBounds(ptr, len)
         \/ \E n \in 0 .. len :
              \/ HostRead(ptr, len, n)
              \/ wasm_check(ptr, len) /\ \E s \in [1 .. n -> Bytes] : HostWrite(ptr, len, s)

Next == Instantiate \/ Guest \/ HostCalls
Spec == Init /\ [][Next]_vars

-----------------------------------------------------------------------------
(* Properties. *)

Traps == {<<t>> : t \in 1 .. 5}
         \cup {<<6, a, n>> : a \in U32, n \in U32}
         \cup {<<6, a, n, k>> : a \in U32, n \in U32, k \in DOMAIN mod.data}
         \cup {<<7, a, n>> : a \in U32, n \in U32}
         \cup {<<t, i>> : t \in {7, 8}, i \in U32}
         \cup {<<9, i, t>> : i \in U32, t \in DOMAIN mod.types}

(* The state of the runtime is well formed. *)
TypeOK ==
    /\ mod \in Modules /\ wasm_arena_pages \in ArenaSizes
    /\ arena \in [Address(wasm_arena_pages * PageSize) -> Bytes]
    /\ pages \in Nat /\ size \in U32 /\ maxPages \in Nat
    /\ segLen \in [DOMAIN mod.data -> U32]
    /\ tdata \in [Address(TableSize) -> {0} \cup DOMAIN mod.funcs]
    /\ ttypes \in [Address(TableSize) -> {0} \cup DOMAIN mod.types]
    /\ tsize \in 0 .. TableSize
    /\ phase \in {"memory", "data", "elements", "guest"}
    /\ cursor \in Nat \ {0}
    /\ trapped = <<>> \/ trapped \in Traps

(***************************************************************************)
(* Every access that passes wasm_check stays inside wasm_arena: the U32    *)
(* product in size never wraps and the pages never pass the arena, through *)
(* allocation and any sequence of memory.grow.                             *)
(***************************************************************************)
MemoryInsideArena ==
    /\ pages <= maxPages /\ maxPages <= wasm_arena_pages
    /\ size = pages * PageSize

(***************************************************************************)
(* The comment in wasmMemoryGrow: pages that memory.grow may still expose  *)
(* are zero, because nothing writes past size and size never shrinks.      *)
(***************************************************************************)
FreshPagesAreZero == \A a \in DOMAIN arena : a >= size => arena[a] = 0

(***************************************************************************)
(* The two parallel arrays of the table agree: a non-null entry lies below *)
(* tsize, and its id equals the id of a call site's type exactly when the  *)
(* function has that signature, although wasm_table_arena and              *)
(* wasm_table_types_arena are written apart, segments overlap and a module *)
(* may list one signature several times.                                   *)
(***************************************************************************)
TableTypesAgree ==
    \A x \in DOMAIN tdata : tdata[x] # 0 =>
        /\ x < tsize
        /\ \A t \in DOMAIN mod.types :
              ttypes[x] = wasmCanonicalFunctionTypeIndex(mod, t)
                  <=> mod.types[mod.funcs[tdata[x]]] = mod.types[t]

(* The abstract instance that this state stands for. *)
Running == phase = "guest"
W == INSTANCE WasmInstance WITH
        status <- IF Running THEN "running" ELSE "init",
        mem    <- IF Running THEN [a \in Address(size) |-> arena[a]] ELSE <<>>,
        npages <- IF Running THEN pages ELSE 0,
        limit  <- IF Running THEN maxPages ELSE 0,
        table  <- IF Running THEN [x \in Address(tsize) |-> tdata[x]] ELSE <<>>,
        segs   <- [k \in DOMAIN mod.data |-> Read(mod.data[k].bytes, 1, segLen[k])],
        fault  <- trapped

(***************************************************************************)
(* The runtime implements the instance: what load, call_indirect and       *)
(* memory.grow return, what a store, copy, fill or init changes, that a    *)
(* trap changes nothing, and that every trap has its reason.               *)
(***************************************************************************)
ImplementsInstance == W!Spec
=============================================================================
