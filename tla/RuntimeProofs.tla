---------------------------- MODULE RuntimeProofs ----------------------------
(***************************************************************************)
(* Proofs about Runtime, for every page size, arena, table size, module    *)
(* and guest program: the type invariant, the safety invariants that the   *)
(* runs check, and that the runtime implements the instance:               *)
(* instantiation, spread over several steps of generated code, is the one  *)
(* step of WasmInstance, and every call that the guest makes is a step of  *)
(* it.                                                                     *)
(***************************************************************************)
EXTENDS Runtime, TLAPS, SequenceTheorems, WellFoundedInduction

USE SizesAssumption

-----------------------------------------------------------------------------
(* Arithmetic of pages and 32-bit sums. *)

(* Every remainder by 2^32 is a U32. *)
LEMMA ModInU32 == ASSUME NEW x \in Nat PROVE x % U32Size \in U32
<1>1. U32Size \in Nat \ {0}
  BY DEF U32Size
<1> HIDE DEF U32Size
<1> QED BY <1>1 DEF U32

(* The size of fewer than PageLimit pages does not wrap. *)
LEMMA SizeDoesNotWrap ==
  ASSUME NEW p \in Nat, p < PageLimit
  PROVE  (p * PageSize) % U32Size = p * PageSize
<1>1. p * PageSize \in Nat /\ U32Size \in Nat \ {0} /\ p * PageSize < U32Size
  BY DEF U32Size
<1>2. ASSUME NEW x \in Nat, NEW m \in Nat \ {0}, x < m PROVE x % m = x
  BY <1>2
<1> QED BY <1>1, <1>2

(* More pages are more bytes. *)
LEMMA PagesMonotonic ==
  ASSUME NEW p \in Nat, NEW q \in Nat, p <= q
  PROVE  p * PageSize <= q * PageSize /\ p * PageSize \in Nat
OBVIOUS

-----------------------------------------------------------------------------
(* Sequences written into an arena. *)

(* A function on 1 .. n is a sequence of length n. *)
LEMMA FunctionIsSequence ==
  ASSUME NEW S, NEW n \in Nat, NEW s \in [1 .. n -> S]
  PROVE  s \in Seq(S) /\ Len(s) = n
<1>1. s \in Seq(S)
  BY SeqDef
<1>2. Len(s) \in Nat /\ DOMAIN s = 1 .. Len(s)
  BY <1>1, LenProperties
<1> QED BY <1>1, <1>2

(* Write keeps an arena's type and changes only the addresses it covers. *)
LEMMA WriteProperties ==
  ASSUME NEW k \in Nat, NEW S, NEW f \in [Address(k) -> S],
         NEW at \in Nat, NEW s \in Seq(S)
  PROVE  /\ Write(f, at, s) \in [Address(k) -> S]
         /\ \A x \in Address(k) :
              Write(f, at, s)[x] = IF Covers(at, Len(s), x) THEN s[x - at + 1] ELSE f[x]
<1>1. Len(s) \in Nat /\ \A i \in 1 .. Len(s) : s[i] \in S
  BY LenProperties, ElementOfSeq
<1>2. ASSUME NEW x \in Address(k), Covers(at, Len(s), x)
      PROVE  s[x - at + 1] \in S
  BY <1>1, <1>2 DEF Covers, Address
<1>3. DOMAIN f = Address(k)
  OBVIOUS
<1> QED BY <1>2, <1>3 DEF Write

(* Read returns a sequence of what it reads. *)
LEMMA ReadProperties ==
  ASSUME NEW D, NEW S, NEW f \in [D -> S], NEW at \in Int, NEW n \in Nat,
         \A x \in at .. at + n - 1 : x \in D
  PROVE  Read(f, at, n) \in Seq(S) /\ Len(Read(f, at, n)) = n
<1>1. Read(f, at, n) \in [1 .. n -> S]
  BY DEF Read
<1> QED BY <1>1, FunctionIsSequence

-----------------------------------------------------------------------------
(* Canonical type ids. *)

(* A nonempty set of naturals has a least element. *)
LEMMA Least ==
  ASSUME NEW S \in SUBSET Nat, S # {}
  PROVE  \E x \in S : \A y \in S : x <= y
<1> DEFINE R == {ss \in Nat \X Nat : ss[1] < ss[2]}
<1>1. IsWellFoundedOn(R, Nat)
  BY NatLessThanWellFounded, Zenon DEF OpToRel
<1>2. \E x \in S : \A y \in S : ~ (<<y, x>> \in R)
  <2> HIDE DEF R
  <2> QED BY <1>1, WFMin
<1>3. ASSUME NEW x \in S, NEW y \in S, ~ (<<y, x>> \in R) PROVE x <= y
  BY <1>3
<1> QED BY <1>2, <1>3

(* The id of a type is an index of an equal type, and no smaller one is. *)
LEMMA CanonicalIsFirst ==
  ASSUME NEW m, NEW t \in Nat \ {0}
  PROVE  LET c == wasmCanonicalFunctionTypeIndex(m, t)
         IN  /\ c \in 1 .. t /\ m.types[c] = m.types[t]
             /\ \A i \in 1 .. c - 1 : m.types[i] # m.types[t]
<1> DEFINE S == {j \in 1 .. t : m.types[j] = m.types[t]}
<1>1. S \in SUBSET Nat /\ t \in S
  OBVIOUS
<1>2. PICK j \in S : \A y \in S : j <= y
  BY <1>1, Least
<1>3. \A i \in 1 .. j - 1 : m.types[i] # m.types[t]
  BY <1>2
<1> QED BY <1>2, <1>3 DEF wasmCanonicalFunctionTypeIndex

(* Ids agree exactly when the signatures do, however often each is listed. *)
LEMMA CanonicalDecides ==
  ASSUME NEW m, NEW t \in Nat \ {0}, NEW u \in Nat \ {0}
  PROVE  wasmCanonicalFunctionTypeIndex(m, t) = wasmCanonicalFunctionTypeIndex(m, u)
            <=> m.types[t] = m.types[u]
<1> DEFINE c == wasmCanonicalFunctionTypeIndex(m, t)
           d == wasmCanonicalFunctionTypeIndex(m, u)
<1>1. c \in 1 .. t /\ m.types[c] = m.types[t]
      /\ \A i \in 1 .. c - 1 : m.types[i] # m.types[t]
  BY CanonicalIsFirst
<1>2. d \in 1 .. u /\ m.types[d] = m.types[u]
      /\ \A i \in 1 .. d - 1 : m.types[i] # m.types[u]
  BY CanonicalIsFirst
<1> HIDE DEF c, d
<1>3. c = d => m.types[t] = m.types[u]
  BY <1>1, <1>2
<1>4. ASSUME m.types[t] = m.types[u], c < d PROVE FALSE
  <2>1. c \in 1 .. d - 1
    BY <1>1, <1>2, <1>4
  <2> QED BY <2>1, <1>1, <1>2, <1>4
<1>5. ASSUME m.types[t] = m.types[u], d < c PROVE FALSE
  <2>1. d \in 1 .. c - 1
    BY <1>1, <1>2, <1>5
  <2> QED BY <2>1, <1>1, <1>2, <1>5
<1>6. m.types[t] = m.types[u] => c = d
  BY <1>1, <1>2, <1>4, <1>5
<1> QED BY <1>3, <1>6 DEF c, d

-----------------------------------------------------------------------------
(* The inductive invariant. *)

(***************************************************************************)
(* What the properties need to be inductive: before the memory and the     *)
(* table are allocated their lengths are 0, so the whole arenas are still  *)
(* fresh, and a host whose arena would make size wrap never gets past      *)
(* allocation.                                                             *)
(***************************************************************************)
SegmentsShrink == \A k \in DOMAIN mod.data : segLen[k] <= Len(mod.data[k].bytes)

IInv ==
    /\ TypeOK /\ MemoryInsideArena /\ FreshPagesAreZero /\ TableTypesAgree
    /\ phase = "memory" => size = 0
    /\ phase # "memory" => wasm_arena_pages < PageLimit
    /\ phase \in {"memory", "data"} => tsize = 0
    /\ SegmentsShrink

(* A module keeps the shape that IsModule gives it. *)
LEMMA ModuleShape ==
  ASSUME TypeOK
  PROVE  /\ mod.minPages \in Nat /\ mod.maxPages \in Nat
         /\ mod.minTable \in Nat /\ mod.maxTable \in Nat
         /\ DOMAIN mod.funcs \subseteq Nat \ {0}
         /\ \A f \in DOMAIN mod.funcs : mod.funcs[f] \in DOMAIN mod.types
         /\ DOMAIN mod.types \subseteq Nat \ {0}
         /\ DOMAIN mod.data \subseteq Nat \ {0}
         /\ \A k \in DOMAIN mod.data :
              /\ mod.data[k].active \in BOOLEAN /\ mod.data[k].offset \in U32
              /\ mod.data[k].bytes \in Seq(Bytes) /\ Len(mod.data[k].bytes) \in U32
         /\ \A k \in DOMAIN mod.elems :
              /\ mod.elems[k].offset \in U32
              /\ mod.elems[k].funcs \in Seq(DOMAIN mod.funcs)
              /\ Len(mod.elems[k].funcs) \in U32
<1>1. IsModule(mod)
  BY ModulesAssumption DEF TypeOK
<1>2. U32 \subseteq Nat
  BY DEF U32, U32Size
<1>3. mod.types \in Seq(Sigs) /\ mod.funcs \in Seq(DOMAIN mod.types)
      /\ mod.data \in Seq([active : BOOLEAN, offset : U32, bytes : Seq(Bytes)])
      /\ mod.elems \in Seq([offset : U32, funcs : Seq(DOMAIN mod.funcs)])
  BY <1>1 DEF IsModule
<1>4. \A S : \A q \in Seq(S) : DOMAIN q \subseteq Nat \ {0}
                               /\ \A i \in DOMAIN q : q[i] \in S
  <2> SUFFICES ASSUME NEW S, NEW q \in Seq(S)
               PROVE  DOMAIN q \subseteq Nat \ {0} /\ \A i \in DOMAIN q : q[i] \in S
    OBVIOUS
  <2> QED BY LenProperties, ElementOfSeq
<1>5. \A k \in DOMAIN mod.data :
         mod.data[k] \in [active : BOOLEAN, offset : U32, bytes : Seq(Bytes)]
  BY <1>3, <1>4
<1>6. \A k \in DOMAIN mod.elems :
         mod.elems[k] \in [offset : U32, funcs : Seq(DOMAIN mod.funcs)]
  BY <1>3, <1>4
<1>7. /\ mod.minPages \in U32 /\ mod.maxPages \in U32
      /\ mod.minTable \in U32 /\ mod.maxTable \in U32
      /\ \A k \in DOMAIN mod.data : Len(mod.data[k].bytes) \in U32
      /\ \A k \in DOMAIN mod.elems : Len(mod.elems[k].funcs) \in U32
  BY <1>1 DEF IsModule
<1>8. /\ \A k \in DOMAIN mod.data :
           /\ mod.data[k].active \in BOOLEAN /\ mod.data[k].offset \in U32
           /\ mod.data[k].bytes \in Seq(Bytes)
      /\ \A k \in DOMAIN mod.elems :
           /\ mod.elems[k].offset \in U32
           /\ mod.elems[k].funcs \in Seq(DOMAIN mod.funcs)
  BY <1>5, <1>6
<1>9. /\ DOMAIN mod.funcs \subseteq Nat \ {0} /\ DOMAIN mod.types \subseteq Nat \ {0}
      /\ DOMAIN mod.data \subseteq Nat \ {0}
      /\ \A f \in DOMAIN mod.funcs : mod.funcs[f] \in DOMAIN mod.types
  BY <1>3, <1>4
<1> HIDE DEF U32
<1> QED BY <1>2, <1>7, <1>8, <1>9

(* The id of a function in the table is the canonical id of its type. *)
LEMMA FunctionIdDecides ==
  ASSUME TypeOK, NEW f \in DOMAIN mod.funcs
  PROVE  /\ wasmCanonicalFunctionTypeIndexOfFunction(mod, f) \in DOMAIN mod.types
         /\ \A t \in DOMAIN mod.types :
              wasmCanonicalFunctionTypeIndexOfFunction(mod, f)
              = wasmCanonicalFunctionTypeIndex(mod, t)
                  <=> mod.types[mod.funcs[f]] = mod.types[t]
<1>1. mod.funcs[f] \in DOMAIN mod.types /\ DOMAIN mod.types \subseteq Nat \ {0}
  BY ModuleShape
<1>2. \A t \in DOMAIN mod.types :
         wasmCanonicalFunctionTypeIndexOfFunction(mod, f)
             = wasmCanonicalFunctionTypeIndex(mod, t)
             <=> mod.types[mod.funcs[f]] = mod.types[t]
  BY <1>1, CanonicalDecides DEF wasmCanonicalFunctionTypeIndexOfFunction
<1>3. wasmCanonicalFunctionTypeIndexOfFunction(mod, f) \in 1 .. mod.funcs[f]
  BY <1>1, CanonicalIsFirst DEF wasmCanonicalFunctionTypeIndexOfFunction
<1>4. \E n \in Nat : DOMAIN mod.types = 1 .. n
  BY ModulesAssumption, LenProperties DEF IsModule, TypeOK
<1> QED BY <1>1, <1>2, <1>3, <1>4

(* The zeroed arenas of a fresh process satisfy the invariant. *)
LEMMA InitInv == Init => IInv
<1> SUFFICES ASSUME Init PROVE IInv
  OBVIOUS
<1>1. U32Size \in Nat \ {0} /\ 0 \in U32 /\ wasm_arena_pages \in Nat
  BY DEF Init, U32, U32Size
<1>2. wasm_arena_pages * PageSize \in Nat
  BY <1>1
<1>3. segLen \in [DOMAIN mod.data -> U32]
  <2>1. \A k \in DOMAIN mod.data : Len(mod.data[k].bytes) \in U32
    BY ModulesAssumption DEF Init, IsModule
  <2> QED BY <2>1 DEF Init
<1>4. TypeOK
  BY <1>1, <1>2, <1>3, BytesAssumption DEF Init, TypeOK, Address
<1> QED BY <1>1, <1>4
      DEF Init, IInv, MemoryInsideArena, FreshPagesAreZero, TableTypesAgree, SegmentsShrink, Address

-----------------------------------------------------------------------------
(* Every step keeps the invariant. *)

(* A trap changes only trapped. *)
LEMMA TrapInv == ASSUME IInv, NEW t \in Traps, Trap(t) PROVE IInv'
<1>1. TypeOK'
  BY DEF IInv, TypeOK, Trap, memory, tables, Traps
<1> QED BY <1>1
      DEF IInv, Trap, memory, tables, MemoryInsideArena, FreshPagesAreZero, TableTypesAgree, SegmentsShrink

(* Returning a value changes no arena, length or table. *)
LEMMA ReturnInv ==
  ASSUME IInv, NEW r, Return(r), UNCHANGED <<arena, pages, size, segLen>>
  PROVE  IInv'
<1>1. TypeOK'
  BY DEF IInv, TypeOK, Return, tables, Traps
<1> QED BY <1>1
      DEF IInv, Return, tables, MemoryInsideArena, FreshPagesAreZero, TableTypesAgree, SegmentsShrink

(* A write that passed wasm_check stays below size and inside the arena. *)
LEMMA WrittenInv ==
  ASSUME IInv, NEW at \in Nat, NEW s \in Seq(Bytes), NEW r,
         wasm_check(at, Len(s)), arena' = Write(arena, at, s), Return(r),
         UNCHANGED <<pages, size, segLen>>
  PROVE  IInv'
<1>1. wasm_arena_pages * PageSize \in Nat
  BY DEF IInv, TypeOK
<1>2. Len(s) \in Nat
  BY LenProperties
<1>3. /\ arena' \in [Address(wasm_arena_pages * PageSize) -> Bytes]
      /\ \A x \in DOMAIN arena : x >= size => arena'[x] = arena[x]
  <2>1. arena \in [Address(wasm_arena_pages * PageSize) -> Bytes]
    BY DEF IInv, TypeOK
  <2>2. /\ arena' \in [Address(wasm_arena_pages * PageSize) -> Bytes]
        /\ \A x \in Address(wasm_arena_pages * PageSize) :
             arena'[x] = IF Covers(at, Len(s), x) THEN s[x - at + 1] ELSE arena[x]
    BY <1>1, <2>1, WriteProperties
  <2>3. ASSUME NEW x \in Address(wasm_arena_pages * PageSize), x >= size
        PROVE  ~ Covers(at, Len(s), x)
    BY <1>1, <1>2, <2>3 DEF Covers, wasm_check, Address, IInv, TypeOK, U32, U32Size
  <2> QED BY <2>1, <2>2, <2>3
<1>4. TypeOK'
  BY <1>3 DEF IInv, TypeOK, Return, tables, Traps
<1>5. FreshPagesAreZero'
  BY <1>3 DEF IInv, TypeOK, FreshPagesAreZero
<1> QED BY <1>4, <1>5 DEF IInv, Return, tables, MemoryInsideArena, TableTypesAgree, SegmentsShrink

(* Growing exposes pages that are still zero. *)
LEMMA GrowInv == ASSUME IInv, NEW delta \in U32, wasmMemoryGrow(delta) PROVE IInv'
<1> DEFINE new == Add32(pages, delta)
<1>1. new \in Nat /\ MinusOne \in Int
  BY ModInU32 DEF Add32, IInv, TypeOK, U32, U32Size, MinusOne
<1>2. CASE Return(<<MinusOne>>) /\ UNCHANGED <<arena, pages, size, segLen>>
  BY <1>2, ReturnInv
<1>3. CASE /\ new >= pages /\ new <= maxPages
           /\ pages' = new
           /\ size' = (new * PageSize) % U32Size
           /\ Return(<<pages>>)
           /\ UNCHANGED <<arena, segLen>>
  <2> HIDE DEF new
  <2>1. phase = "guest"
    BY DEF wasmMemoryGrow, InGuest
  <2>2. new < PageLimit
    BY <1>1, <1>3, <2>1 DEF IInv, MemoryInsideArena, TypeOK
  <2>3. size' = new * PageSize /\ size <= size' /\ size' \in U32
    <3>1. size' = new * PageSize /\ size' \in U32
      BY <1>1, <1>3, <2>2, SizeDoesNotWrap, ModInU32
    <3>2. pages * PageSize <= new * PageSize
      BY <1>1, <1>3, PagesMonotonic DEF IInv, TypeOK
    <3> QED BY <3>1, <3>2 DEF IInv, MemoryInsideArena
  <2>4. TypeOK'
    BY <1>1, <1>3, <2>3 DEF IInv, TypeOK, Return, tables, Traps
  <2>5. MemoryInsideArena'
    BY <1>1, <1>3, <2>3 DEF IInv, MemoryInsideArena, Return
  <2>6. FreshPagesAreZero'
    <3>1. DOMAIN arena \subseteq Int /\ size \in Int /\ size' \in Int
      BY <2>3 DEF IInv, TypeOK, Address, U32, U32Size
    <3> QED BY <1>3, <2>3, <3>1 DEF IInv, FreshPagesAreZero
  <2> QED BY <1>3, <2>1, <2>4, <2>5, <2>6 DEF IInv, Return, tables, TableTypesAgree, SegmentsShrink
<1> QED BY <1>2, <1>3 DEF wasmMemoryGrow

(* wasmMemoryAllocate refuses what would not fit or would wrap size. *)
LEMMA AllocateMemoryInv == ASSUME IInv, wasmMemoryAllocate PROVE IInv'
<1> DEFINE max == MinOf(mod.maxPages, wasm_arena_pages)
<1>1. CASE Trap(<<5>>)
  BY <1>1, TrapInv DEF Traps
<1>2. CASE /\ wasm_arena_pages < PageLimit /\ mod.minPages <= max
           /\ pages' = mod.minPages
           /\ size' = (mod.minPages * PageSize) % U32Size
           /\ maxPages' = max
           /\ phase' = "data"
           /\ UNCHANGED <<mod, wasm_arena_pages, arena, segLen, tables,
                          cursor, result, trapped>>
  <2>1. mod.minPages \in Nat /\ mod.maxPages \in Nat /\ wasm_arena_pages \in Nat
    BY ModuleShape DEF IInv, TypeOK
  <2>2. max \in Nat /\ max <= wasm_arena_pages
    BY <2>1 DEF MinOf
  <2> HIDE DEF max
  <2>3. size' = mod.minPages * PageSize /\ size' \in U32
    <3>1. mod.minPages < PageLimit /\ mod.minPages * PageSize \in Nat
      BY <1>2, <2>1, <2>2
    <3>2. (mod.minPages * PageSize) % U32Size = mod.minPages * PageSize
      BY <2>1, <3>1, SizeDoesNotWrap
    <3>3. (mod.minPages * PageSize) % U32Size \in U32
      BY <3>1, ModInU32
    <3> QED BY <1>2, <3>2, <3>3
  <2>4. phase = "memory" /\ size = 0 /\ tsize = 0
    BY DEF wasmMemoryAllocate, Instantiating, IInv
  <2>5. TypeOK'
    BY <1>2, <2>1, <2>2, <2>3 DEF IInv, TypeOK, tables, Traps
  <2>6. MemoryInsideArena'
    BY <1>2, <2>2, <2>3 DEF MemoryInsideArena
  <2>7. FreshPagesAreZero'
    <3>1. \A a \in DOMAIN arena : a >= 0
      BY DEF IInv, TypeOK, Address
    <3> QED BY <1>2, <2>4, <3>1 DEF IInv, FreshPagesAreZero
  <2> QED BY <1>2, <2>4, <2>5, <2>6, <2>7 DEF IInv, TableTypesAgree, SegmentsShrink, tables
<1> QED BY <1>1, <1>2 DEF wasmMemoryAllocate

(* Loading a segment is a checked write, or nothing when it is passive. *)
LEMMA LoadDataInv == ASSUME IInv, LOAD_DATA PROVE IInv'
<1> DEFINE s == mod.data[cursor]
<1>1. /\ s.offset \in U32 /\ s.offset \in Nat /\ s.bytes \in Seq(Bytes)
      /\ Len(s.bytes) \in U32 /\ s.active \in BOOLEAN
  <2>1. U32 \subseteq Nat
    BY DEF U32, U32Size
  <2> QED BY <2>1, ModuleShape DEF IInv, LOAD_DATA
<1>2. CASE ~ wasm_check(s.offset, Len(s.bytes)) /\ Trap(<<6, s.offset, Len(s.bytes)>>)
  <2>1. <<6, s.offset, Len(s.bytes)>> \in Traps
    BY <1>1 DEF Traps
  <2> QED BY <1>2, <2>1, TrapInv
<1>3. CASE /\ s.active => wasm_check(s.offset, Len(s.bytes))
           /\ arena' = IF s.active THEN Write(arena, s.offset, s.bytes) ELSE arena
           /\ cursor' = cursor + 1
           /\ UNCHANGED <<mod, wasm_arena_pages, memory, segLen, tables, phase,
                          result, trapped>>
  <2> HIDE DEF s
  <2>1. wasm_arena_pages * PageSize \in Nat
        /\ arena \in [Address(wasm_arena_pages * PageSize) -> Bytes]
        /\ Len(s.bytes) \in Nat /\ size \in Nat
    BY <1>1, LenProperties DEF IInv, TypeOK, U32, U32Size
  <2>2. /\ arena' \in [Address(wasm_arena_pages * PageSize) -> Bytes]
        /\ \A x \in DOMAIN arena : x >= size => arena'[x] = arena[x]
    <3>1. CASE ~ s.active
      BY <1>3, <2>1, <3>1
    <3>2. CASE s.active
      <4>1. /\ arena' \in [Address(wasm_arena_pages * PageSize) -> Bytes]
            /\ \A x \in Address(wasm_arena_pages * PageSize) :
                 arena'[x] = IF Covers(s.offset, Len(s.bytes), x)
                             THEN s.bytes[x - s.offset + 1] ELSE arena[x]
        BY <1>1, <1>3, <2>1, <3>2, WriteProperties
      <4>2. ASSUME NEW x \in Address(wasm_arena_pages * PageSize), x >= size
            PROVE  ~ Covers(s.offset, Len(s.bytes), x)
        BY <1>1, <1>3, <2>1, <3>2, <4>2 DEF Covers, wasm_check, Address
      <4> QED BY <2>1, <4>1, <4>2
    <3> QED BY <3>1, <3>2
  <2>3. TypeOK'
    BY <1>3, <2>2 DEF IInv, TypeOK, memory, tables, Traps
  <2>4. FreshPagesAreZero'
    BY <1>3, <2>1, <2>2 DEF IInv, FreshPagesAreZero, memory
  <2> QED BY <1>3, <2>3, <2>4 DEF IInv, memory, tables, MemoryInsideArena, TableTypesAgree, SegmentsShrink
<1> QED BY <1>2, <1>3 DEF LOAD_DATA

(* The table is allocated while every entry is still null. *)
LEMMA AllocateTableInv == ASSUME IInv, wasmTableAllocate PROVE IInv'
<1>1. CASE Trap(<<5>>)
  BY <1>1, TrapInv DEF Traps
<1>2. CASE /\ mod.minTable <= MinOf(mod.maxTable, TableSize)
           /\ tsize' = mod.minTable
           /\ phase' = "elements" /\ cursor' = 1
           /\ UNCHANGED <<mod, wasm_arena_pages, arena, memory, segLen, tdata,
                          ttypes, result, trapped>>
  <2>1. mod.minTable \in 0 .. TableSize
    BY <1>2, ModuleShape DEF IInv, MinOf
  <2>2. \A x \in DOMAIN tdata : tdata[x] = 0
    <3>1. tsize = 0 /\ DOMAIN tdata \subseteq Nat
      BY DEF IInv, wasmTableAllocate, Instantiating, TypeOK, Address
    <3> QED BY <3>1 DEF IInv, TableTypesAgree
  <2>3. TypeOK'
    BY <1>2, <2>1 DEF IInv, TypeOK, memory, Traps
  <2>4. TableTypesAgree'
    BY <1>2, <2>2 DEF TableTypesAgree
  <2>5. wasm_arena_pages < PageLimit
    BY DEF IInv, wasmTableAllocate, Instantiating
  <2> QED BY <1>2, <2>3, <2>4, <2>5
        DEF IInv, memory, MemoryInsideArena, FreshPagesAreZero, SegmentsShrink
<1> QED BY <1>1, <1>2 DEF wasmTableAllocate

(* An element segment writes a function and its own id at each index. *)
LEMMA ElementsInv == ASSUME IInv, InitElements PROVE IInv'
<1> DEFINE s == mod.elems[cursor]
           count == Len(s.funcs)
           ids == [i \in 1 .. count |->
                     wasmCanonicalFunctionTypeIndexOfFunction(mod, s.funcs[i])]
<1>1. /\ s.offset \in U32 /\ s.offset \in Nat
      /\ s.funcs \in Seq(DOMAIN mod.funcs) /\ count \in U32 /\ count \in Nat
      /\ \A i \in 1 .. count : s.funcs[i] \in DOMAIN mod.funcs
  <2>1. U32 \subseteq Nat
    BY DEF U32, U32Size
  <2>2. s.offset \in U32 /\ s.funcs \in Seq(DOMAIN mod.funcs) /\ count \in U32
    BY ModuleShape DEF IInv, InitElements
  <2> QED BY <2>1, <2>2, ElementOfSeq
<1>2. CASE s.offset + count > tsize /\ Trap(<<7, s.offset, count>>)
  <2>1. <<7, s.offset, count>> \in Traps
    BY <1>1 DEF Traps
  <2> QED BY <1>2, <2>1, TrapInv
<1>3. CASE /\ s.offset + count <= tsize
           /\ tdata' = Write(tdata, s.offset, s.funcs)
           /\ ttypes' = Write(ttypes, s.offset, ids)
           /\ cursor' = cursor + 1
           /\ UNCHANGED <<mod, wasm_arena_pages, arena, memory, segLen, tsize,
                          phase, result, trapped>>
  <2> DEFINE Funcs == {0} \cup DOMAIN mod.funcs
             Ids == {0} \cup DOMAIN mod.types
  <2>1. /\ s.funcs \in Seq(Funcs)
        /\ tdata \in [Address(TableSize) -> Funcs] /\ TableSize \in Nat
        /\ ttypes \in [Address(TableSize) -> Ids] /\ tsize \in Nat
    <3>1. \A S, T : S \subseteq T => Seq(S) \subseteq Seq(T)
      BY SeqDef
    <3> QED BY <1>1, <3>1 DEF IInv, TypeOK
  <2>2. ids \in Seq(Ids) /\ Len(ids) = count
    <3>1. ids \in [1 .. count -> Ids]
      BY <1>1, FunctionIdDecides DEF IInv
    <3> HIDE DEF ids, count, s, Ids
    <3> QED BY <1>1, <3>1, FunctionIsSequence
  <2>3. \A i \in 1 .. count :
           ids[i] = wasmCanonicalFunctionTypeIndexOfFunction(mod, s.funcs[i])
    OBVIOUS
  <2> HIDE DEF ids, count, s, Funcs, Ids
  <2>4. /\ tdata' \in [Address(TableSize) -> Funcs]
        /\ \A x \in Address(TableSize) :
             tdata'[x] = IF Covers(s.offset, count, x) THEN s.funcs[x - s.offset + 1] ELSE tdata[x]
    BY <1>1, <1>3, <2>1, WriteProperties DEF count
  <2>5. /\ ttypes' \in [Address(TableSize) -> Ids]
        /\ \A x \in Address(TableSize) :
             ttypes'[x] = IF Covers(s.offset, count, x) THEN ids[x - s.offset + 1] ELSE ttypes[x]
    BY <1>1, <1>3, <2>1, <2>2, WriteProperties
  <2>6. TypeOK'
    BY <1>3, <2>4, <2>5 DEF IInv, TypeOK, memory, Traps, Funcs, Ids
  <2>7. ASSUME NEW x \in Address(TableSize), tdata'[x] # 0
        PROVE  /\ x < tsize
               /\ \A t \in DOMAIN mod.types :
                    ttypes'[x] = wasmCanonicalFunctionTypeIndex(mod, t)
                        <=> mod.types[mod.funcs[tdata'[x]]] = mod.types[t]
    <3>1. CASE Covers(s.offset, count, x)
      <4>1. x - s.offset + 1 \in 1 .. count /\ x < tsize
        BY <1>1, <1>3, <2>1, <3>1 DEF Covers, Address
      <4>2. /\ tdata'[x] \in DOMAIN mod.funcs
            /\ ttypes'[x] = wasmCanonicalFunctionTypeIndexOfFunction(mod, tdata'[x])
        BY <1>1, <2>3, <2>4, <2>5, <3>1, <4>1
      <4> QED BY <4>1, <4>2, FunctionIdDecides DEF IInv
    <3>2. CASE ~ Covers(s.offset, count, x)
      <4>1. tdata'[x] = tdata[x] /\ ttypes'[x] = ttypes[x]
        BY <2>4, <2>5, <3>2
      <4> QED BY <2>1, <2>7, <4>1 DEF IInv, TableTypesAgree
    <3> QED BY <3>1, <3>2
  <2>8. TableTypesAgree'
    <3>1. DOMAIN tdata' = Address(TableSize)
      BY <2>4
    <3> QED BY <1>3, <2>7, <3>1 DEF TableTypesAgree
  <2>9. phase = "elements"
    BY DEF InitElements, Instantiating
  <2> QED BY <1>3, <2>6, <2>8, <2>9
        DEF IInv, memory, MemoryInsideArena, FreshPagesAreZero, SegmentsShrink
<1> QED BY <1>2, <1>3 DEF InitElements

(* Entering the guest changes only the phase. *)
LEMMA EnterGuestInv == ASSUME IInv, EnterGuest PROVE IInv'
<1>1. TypeOK'
  BY DEF IInv, TypeOK, EnterGuest, memory, tables, Traps
<1>2. wasm_arena_pages < PageLimit
  BY DEF IInv, EnterGuest, Instantiating
<1> QED BY <1>1, <1>2
      DEF IInv, EnterGuest, memory, tables, MemoryInsideArena, FreshPagesAreZero, TableTypesAgree, SegmentsShrink

(* A range that wasm_check refuses raises a trap with that range. *)
LEMMA OutOfBoundsInv ==
  ASSUME IInv, NEW at \in U32, NEW n \in U32, OutOfBounds(at, n)
  PROVE  IInv'
<1>1. <<6, at, n>> \in Traps
  BY DEF Traps
<1> QED BY <1>1, TrapInv DEF OutOfBounds

(* A sequence of n bytes that the arena, a segment or the guest supplies. *)
LEMMA StoredBytesInv ==
  ASSUME IInv, NEW at \in U32, NEW n \in Nat, NEW s \in [1 .. n -> Bytes],
         wasm_check(at, n), Stored(at, s)
  PROVE  IInv'
<1>1. s \in Seq(Bytes) /\ Len(s) = n /\ at \in Nat
  BY FunctionIsSequence DEF U32, U32Size
<1> QED BY <1>1, WrittenInv DEF Stored

(* An address of a load or a store is a U32. *)
LEMMA EffectiveAddressIsU32 ==
  ASSUME NEW base \in U32, NEW offset \in Offsets
  PROVE  EffectiveAddress(base, offset) \in U32
<1>1. base + offset \in Nat
  BY WidthsAssumption DEF U32, U32Size
<1> QED BY <1>1, ModInU32 DEF EffectiveAddress

(* What a checked range of the memory holds is bytes. *)
LEMMA CheckedReadIsBytes ==
  ASSUME IInv, NEW at \in U32, NEW n \in U32, wasm_check(at, n)
  PROVE  Read(arena, at, n) \in [1 .. n -> Bytes]
<1>0. at \in Nat /\ n \in Nat
  BY DEF U32, U32Size
<1>1. /\ pages \in Nat /\ wasm_arena_pages \in Nat /\ maxPages \in Nat
      /\ pages <= wasm_arena_pages /\ size = pages * PageSize
  BY DEF IInv, TypeOK, MemoryInsideArena
<1>2. size <= wasm_arena_pages * PageSize /\ size \in Nat
  BY <1>1, PagesMonotonic
<1>3. wasm_arena_pages * PageSize \in Nat
  BY <1>1
<1>4. \A x \in at .. at + n - 1 : x \in Address(wasm_arena_pages * PageSize)
  BY <1>0, <1>2, <1>3 DEF wasm_check, Address
<1>5. arena \in [Address(wasm_arena_pages * PageSize) -> Bytes]
  BY DEF IInv, TypeOK
<1>6. ASSUME NEW i \in 1 .. n PROVE arena[at + i - 1] \in Bytes
  <2>1. at + i - 1 \in at .. at + n - 1
    BY <1>0
  <2> QED BY <1>4, <1>5, <2>1
<1> QED BY <1>6 DEF Read

(* Every instruction of the guest keeps the invariant. *)
LEMMA GuestInv == ASSUME IInv, Guest PROVE IInv'
<1> USE DEF IInv
<1>0. U32 \subseteq Nat /\ Widths \subseteq U32
  BY WidthsAssumption DEF U32, U32Size
<1>1. ASSUME NEW base \in U32, NEW offset \in Offsets, NEW w \in Widths,
             Load(base, offset, w)
      PROVE  IInv'
  BY <1>0, <1>1, EffectiveAddressIsU32, OutOfBoundsInv, ReturnInv DEF Load
<1>2. ASSUME NEW base \in U32, NEW offset \in Offsets, NEW w \in Widths,
             NEW s \in [1 .. w -> Bytes], Store(base, offset, s)
      PROVE  IInv'
  <2>1. Len(s) = w /\ w \in U32 /\ w \in Nat
    BY <1>0, FunctionIsSequence
  <2> QED BY <1>2, <2>1, EffectiveAddressIsU32, OutOfBoundsInv, StoredBytesInv DEF Store
<1>3. ASSUME NEW d \in U32, NEW n \in U32, NEW s \in U32, wasmMemoryCopy(d, s, n)
      PROVE  IInv'
  <2>1. CASE wasm_check(d, n) /\ wasm_check(s, n) /\ Stored(d, Read(arena, s, n))
    <3>1. Read(arena, s, n) \in [1 .. n -> Bytes]
      BY <2>1, CheckedReadIsBytes
    <3> QED BY <1>0, <2>1, <3>1, StoredBytesInv
  <2> QED BY <1>3, <2>1, OutOfBoundsInv DEF wasmMemoryCopy
<1>4. ASSUME NEW d \in U32, NEW n \in U32, NEW v \in Bytes, wasmMemoryFill(d, v, n)
      PROVE  IInv'
  <2>1. [i \in 1 .. n |-> v] \in [1 .. n -> Bytes]
    OBVIOUS
  <2> QED BY <1>0, <1>4, <2>1, OutOfBoundsInv, StoredBytesInv DEF wasmMemoryFill
<1>5. ASSUME NEW d \in U32, NEW n \in U32, NEW k \in DOMAIN mod.data, NEW s \in U32,
             wasm_memory_init(d, k, s, n)
      PROVE  IInv'
  <2>1. CASE s + n > segLen[k] /\ Trap(<<6, s, n, k>>)
    <3>1. <<6, s, n, k>> \in Traps
      BY DEF Traps
    <3> QED BY <2>1, <3>1, TrapInv
  <2>2. CASE /\ s + n <= segLen[k] /\ wasm_check(d, n)
             /\ Stored(d, Read(mod.data[k].bytes, s + 1, n))
    <3>1. segLen[k] <= Len(mod.data[k].bytes) /\ segLen[k] \in Nat
      BY <1>0 DEF TypeOK, SegmentsShrink
    <3>2. \A i \in 1 .. Len(mod.data[k].bytes) : mod.data[k].bytes[i] \in Bytes
      BY ModuleShape, ElementOfSeq
    <3>3. Len(mod.data[k].bytes) \in Nat
      BY <1>0, ModuleShape
    <3>4. Read(mod.data[k].bytes, s + 1, n) \in [1 .. n -> Bytes]
      BY <1>0, <2>2, <3>1, <3>2, <3>3 DEF Read
    <3> QED BY <1>0, <2>2, <3>4, StoredBytesInv
  <2> QED BY <1>5, <2>1, <2>2, OutOfBoundsInv DEF wasm_memory_init
<1>6. ASSUME NEW k \in DOMAIN mod.data, DataDrop(k) PROVE IInv'
  <2>1. 0 \in U32
    BY DEF U32, U32Size
  <2>2. TypeOK'
    BY <1>6, <2>1 DEF DataDrop, TypeOK, Return, tables, Traps
  <2>3. SegmentsShrink'
    BY <1>0, <1>6, ModuleShape DEF DataDrop, SegmentsShrink, Return, TypeOK
  <2> QED BY <1>6, <2>2, <2>3
        DEF DataDrop, Return, tables, MemoryInsideArena, FreshPagesAreZero, TableTypesAgree
<1>7. CASE MemorySize
  BY <1>7, ReturnInv DEF MemorySize
<1>8. ASSUME NEW i \in U32, NEW t \in DOMAIN mod.types, CallIndirect(i, t) PROVE IInv'
  <2>1. <<7, i>> \in Traps /\ <<8, i>> \in Traps /\ <<9, i, t>> \in Traps
    BY DEF Traps
  <2> QED BY <1>8, <2>1, TrapInv, ReturnInv DEF CallIndirect
<1>9. ASSUME NEW t \in 1 .. 4, ArithmeticTrap(t) PROVE IInv'
  <2>1. <<t>> \in Traps
    BY DEF Traps
  <2> QED BY <1>9, <2>1, TrapInv DEF ArithmeticTrap
<1> QED BY <1>1, <1>2, <1>3, <1>4, <1>5, <1>6, <1>7, <1>8, <1>9, GrowInv DEF Guest

(* What the kernel reads into a checked buffer, or takes from it, is no     *)
(* different from what the guest may write and read itself.                 *)
LEMMA HostCallsInv == ASSUME IInv, HostCalls PROVE IInv'
<1>0. U32 \subseteq Nat
  BY DEF U32, U32Size
<1>1. CASE HostRefuses
  BY <1>1, ReturnInv DEF HostRefuses
<1>2. ASSUME NEW ptr \in U32, NEW len \in U32, OutOfBounds(ptr, len) PROVE IInv'
  BY <1>2, OutOfBoundsInv
<1>3. ASSUME NEW ptr \in U32, NEW len \in U32, NEW n \in 0 .. len, HostRead(ptr, len, n)
      PROVE  IInv'
  BY <1>3, ReturnInv DEF HostRead
<1>4. ASSUME NEW ptr \in U32, NEW len \in U32, NEW n \in 0 .. len,
             NEW s \in [1 .. n -> Bytes], HostWrite(ptr, len, s)
      PROVE  IInv'
  <2>1. n \in Nat /\ ptr \in Nat /\ len \in Nat /\ n <= len
    BY <1>0
  <2>2. s \in Seq(Bytes) /\ Len(s) = n
    BY <2>1, FunctionIsSequence
  <2>3. wasm_check(ptr, Len(s))
    BY <1>0, <1>4, <2>1, <2>2 DEF HostWrite, wasm_check, IInv, TypeOK
  <2> QED BY <1>4, <2>1, <2>2, <2>3, WrittenInv DEF HostWrite
<1> QED BY <1>1, <1>2, <1>3, <1>4 DEF HostCalls

(* Every step keeps the invariant. *)
LEMMA StepInv == ASSUME IInv, [Next]_vars PROVE IInv'
<1>1. CASE Instantiate
  BY <1>1, AllocateMemoryInv, LoadDataInv, AllocateTableInv, ElementsInv, EnterGuestInv
     DEF Instantiate
<1>2. CASE Guest
  BY <1>2, GuestInv
<1>3. CASE HostCalls
  BY <1>3, HostCallsInv
<1>4. CASE UNCHANGED vars
  BY <1>4 DEF vars, memory, tables, IInv, TypeOK, Traps, MemoryInsideArena,
              FreshPagesAreZero, TableTypesAgree, SegmentsShrink
<1> QED BY <1>1, <1>2, <1>3, <1>4 DEF Next

-----------------------------------------------------------------------------
(* Theorems. *)

(***************************************************************************)
(* The inductive invariant holds in every reachable state.                 *)
(***************************************************************************)
THEOREM Invariance == Spec => []IInv
<1>1. Init => IInv
  BY InitInv
<1>2. IInv /\ [Next]_vars => IInv'
  BY StepInv
<1> QED BY <1>1, <1>2, PTL DEF Spec

(***************************************************************************)
(* The state stays well formed.                                            *)
(***************************************************************************)
THEOREM TypeCorrect == Spec => []TypeOK
BY Invariance, PTL DEF IInv

(***************************************************************************)
(* wasmMemoryAllocate and wasmMemoryGrow keep every checked access inside  *)
(* wasm_arena, whatever the ARENA_PAGES the host was built with.           *)
(***************************************************************************)
THEOREM AccessesInsideArena == Spec => []MemoryInsideArena
BY Invariance, PTL DEF IInv

(***************************************************************************)
(* The comment of wasmMemoryGrow: a page that is newly exposed is zero.    *)
(***************************************************************************)
THEOREM NewPagesAreZero == Spec => []FreshPagesAreZero
BY Invariance, PTL DEF IInv

(***************************************************************************)
(* wasm_table_get compares an id that decides signature equality for the   *)
(* function stored at that index.                                          *)
(***************************************************************************)
THEOREM TableIsTyped == Spec => []TableTypesAgree
BY Invariance, PTL DEF IInv

-----------------------------------------------------------------------------
(* Contents after instantiation, one segment at a time. *)

(* The last of a set of integers is the one that none exceeds. *)
LEMMA LatestIs ==
  ASSUME NEW K \in SUBSET Int, NEW k \in K, \A i \in K : i <= k
  PROVE  W!Latest(K) = k
<1>1. \A j \in K : (\A i \in K : i <= j) => j = k
  OBVIOUS
<1> QED BY <1>1 DEF W!Latest

(* LOAD_DATA loads active segments one after the other. *)
LEMMA ByteStep ==
  ASSUME NEW m, NEW k \in Nat \ {0}, NEW a
  PROVE  W!ByteAfter(m, k, a) =
           IF m.data[k].active /\ W!Covers(m.data[k], Len(m.data[k].bytes), a)
           THEN m.data[k].bytes[a - m.data[k].offset + 1]
           ELSE W!ByteAfter(m, k - 1, a)
<1> DEFINE K == W!DataCovering(m, k, a)
<1>1. CASE m.data[k].active /\ W!Covers(m.data[k], Len(m.data[k].bytes), a)
  <2>1. K \in SUBSET Int /\ k \in K /\ \A i \in K : i <= k
    BY <1>1 DEF W!DataCovering
  <2>2. W!Latest(K) = k /\ K # {}
    BY <2>1, LatestIs
  <2> QED BY <1>1, <2>2 DEF W!ByteAfter
<1>2. CASE ~ (m.data[k].active /\ W!Covers(m.data[k], Len(m.data[k].bytes), a))
  <2>1. K = W!DataCovering(m, k - 1, a)
    <3>1. \A j : j \in 1 .. k <=> j \in 1 .. k - 1 \/ j = k
      OBVIOUS
    <3> QED BY <1>2, <3>1 DEF W!DataCovering
  <2> QED BY <1>2, <2>1 DEF W!ByteAfter
<1> QED BY <1>1, <1>2

(* So does InitTables with the element segments. *)
LEMMA EntryStep ==
  ASSUME NEW m, NEW k \in Nat \ {0}, NEW x
  PROVE  W!EntryAfter(m, k, x) =
           IF W!Covers(m.elems[k], Len(m.elems[k].funcs), x)
           THEN m.elems[k].funcs[x - m.elems[k].offset + 1]
           ELSE W!EntryAfter(m, k - 1, x)
<1> DEFINE K == W!ElemCovering(m, k, x)
<1>1. CASE W!Covers(m.elems[k], Len(m.elems[k].funcs), x)
  <2>1. K \in SUBSET Int /\ k \in K /\ \A i \in K : i <= k
    BY <1>1 DEF W!ElemCovering
  <2>2. W!Latest(K) = k /\ K # {}
    BY <2>1, LatestIs
  <2> QED BY <1>1, <2>2 DEF W!EntryAfter
<1>2. CASE ~ W!Covers(m.elems[k], Len(m.elems[k].funcs), x)
  <2>1. K = W!ElemCovering(m, k - 1, x)
    <3>1. \A j : j \in 1 .. k <=> j \in 1 .. k - 1 \/ j = k
      OBVIOUS
    <3> QED BY <1>2, <3>1 DEF W!ElemCovering
  <2> QED BY <1>2, <2>1 DEF W!EntryAfter
<1> QED BY <1>1, <1>2

(* Nothing has been loaded at the start. *)
LEMMA NothingLoaded ==
  ASSUME NEW m, NEW a
  PROVE  W!ByteAfter(m, 0, a) = 0 /\ W!EntryAfter(m, 0, a) = 0
<1>1. 1 .. 0 = {}
  OBVIOUS
<1>2. W!DataCovering(m, 0, a) = {} /\ W!ElemCovering(m, 0, a) = {}
  BY <1>1 DEF W!DataCovering, W!ElemCovering
<1> QED BY <1>2 DEF W!ByteAfter, W!EntryAfter

(* Both modules mean the same addresses by the range of a write. *)
LEMMA CoversIsSpan ==
  ASSUME NEW s, s.offset \in Nat, NEW n \in Nat, NEW x \in Nat
  PROVE  W!Covers(s, n, x) <=> Covers(s.offset, n, x)
BY DEF W!Covers, W!Span, Covers

-----------------------------------------------------------------------------
(* The invariant of instantiation. *)

(***************************************************************************)
(* Until the guest is entered, the arenas hold what the segments so far    *)
(* put there and every one of them fitted, so that the last step can be    *)
(* the whole instantiation; and the guest has seen nothing of it.          *)
(***************************************************************************)
DataLoaded(n) ==
    /\ \A k \in 1 .. n : mod.data[k].active =>
         mod.data[k].offset + Len(mod.data[k].bytes) <= mod.minPages * PageSize
    /\ \A a \in Address(size) : arena[a] = W!ByteAfter(mod, n, a)

ElementsLoaded(n) ==
    /\ \A k \in 1 .. n : mod.elems[k].offset + Len(mod.elems[k].funcs) <= mod.minTable
    /\ \A x \in Address(tsize) : tdata[x] = W!EntryAfter(mod, n, x)

Untouched ==
    /\ result = <<>>
    /\ segLen = [k \in DOMAIN mod.data |-> Len(mod.data[k].bytes)]

Allocated ==
    /\ pages = mod.minPages
    /\ maxPages \in mod.minPages .. mod.maxPages

Instantiated ==
    /\ phase # "guest" => Untouched
    /\ phase \in {"data", "elements"} => Allocated
    /\ phase = "memory" => cursor = 1
    /\ phase = "data" => cursor \in 1 .. Len(mod.data) + 1 /\ DataLoaded(cursor - 1)
    /\ phase = "elements" =>
         /\ tsize = mod.minTable
         /\ cursor \in 1 .. Len(mod.elems) + 1
         /\ DataLoaded(Len(mod.data)) /\ ElementsLoaded(cursor - 1)

(* The lists of segments are sequences. *)
LEMMA SegmentLists ==
  ASSUME TypeOK
  PROVE  /\ Len(mod.data) \in Nat /\ DOMAIN mod.data = 1 .. Len(mod.data)
         /\ Len(mod.elems) \in Nat /\ DOMAIN mod.elems = 1 .. Len(mod.elems)
BY ModulesAssumption, LenProperties DEF IsModule, TypeOK

(* The sizes of a state that the invariant allows. *)
LEMMA Sizes ==
  ASSUME IInv
  PROVE  /\ pages \in Nat /\ wasm_arena_pages \in Nat /\ maxPages \in Nat /\ size \in Nat
         /\ pages <= maxPages /\ maxPages <= wasm_arena_pages
         /\ size = pages * PageSize /\ size <= wasm_arena_pages * PageSize
         /\ wasm_arena_pages * PageSize \in Nat
         /\ arena \in [Address(wasm_arena_pages * PageSize) -> Bytes]
         /\ tsize \in Nat /\ tsize <= TableSize /\ TableSize \in Nat
<1>1. TypeOK /\ MemoryInsideArena
  BY DEF IInv
<1>2. wasm_arena_pages \in Nat
  BY <1>1 DEF TypeOK
<1>3. pages \in Nat /\ maxPages \in Nat
  BY <1>1 DEF TypeOK
<1>4. arena \in [Address(wasm_arena_pages * PageSize) -> Bytes]
  BY <1>1 DEF TypeOK
<1>5. tsize \in 0 .. TableSize /\ TableSize \in Nat
  BY <1>1 DEF TypeOK
<1>6. pages <= maxPages /\ maxPages <= wasm_arena_pages /\ size = pages * PageSize
  BY <1>1 DEF MemoryInsideArena
<1>7. pages <= wasm_arena_pages
  BY <1>2, <1>3, <1>6
<1>8. size <= wasm_arena_pages * PageSize /\ size \in Nat
  BY <1>2, <1>3, <1>6, <1>7, PagesMonotonic
<1>9. wasm_arena_pages * PageSize \in Nat
  BY <1>2
<1> QED BY <1>2, <1>3, <1>4, <1>5, <1>6, <1>8, <1>9

(* A shorter range of addresses lies inside a longer one. *)
LEMMA AddressesNest ==
  ASSUME NEW p \in Nat, NEW q \in Nat, p <= q, NEW a \in Address(p)
  PROVE  a \in Address(q) /\ a \in Nat
BY DEF Address

LEMMA InitInstantiated == Init => Instantiated
BY DEF Init, Instantiated, Untouched

(* A trap leaves what has been loaded. *)
LEMMA TrapInstantiated ==
  ASSUME IInv, Instantiated, NEW t, phase # "guest", Trap(t)
  PROVE  Instantiated'
<1>1. /\ mod' = mod /\ arena' = arena /\ pages' = pages /\ size' = size
      /\ maxPages' = maxPages /\ segLen' = segLen /\ tdata' = tdata /\ tsize' = tsize
      /\ phase' = phase /\ cursor' = cursor /\ result' = <<>>
  BY DEF Trap, memory, tables
<1>2. DataLoaded(cursor - 1)' <=> DataLoaded(cursor - 1)
  BY <1>1 DEF DataLoaded
<1>3. DataLoaded(Len(mod.data))' <=> DataLoaded(Len(mod.data))
  BY <1>1 DEF DataLoaded
<1>4. ElementsLoaded(cursor - 1)' <=> ElementsLoaded(cursor - 1)
  BY <1>1 DEF ElementsLoaded
<1> QED BY <1>1, <1>2, <1>3, <1>4 DEF Instantiated, Untouched, Allocated

LEMMA AllocateMemoryInstantiated ==
  ASSUME IInv, Instantiated, wasmMemoryAllocate
  PROVE  Instantiated'
<1> DEFINE max == MinOf(mod.maxPages, wasm_arena_pages)
<1>0. phase = "memory"
  BY DEF wasmMemoryAllocate, Instantiating
<1>1. CASE Trap(<<5>>)
  BY <1>0, <1>1, TrapInstantiated
<1>2. CASE /\ wasm_arena_pages < PageLimit /\ mod.minPages <= max
           /\ pages' = mod.minPages
           /\ size' = (mod.minPages * PageSize) % U32Size
           /\ maxPages' = max
           /\ phase' = "data"
           /\ UNCHANGED <<mod, wasm_arena_pages, arena, segLen, tables,
                          cursor, result, trapped>>
  <2>1. /\ mod.minPages \in Nat /\ mod.maxPages \in Nat /\ wasm_arena_pages \in Nat
        /\ Len(mod.data) \in Nat
    <3>1. TypeOK
      BY DEF IInv
    <3> QED BY <3>1, ModuleShape, SegmentLists DEF TypeOK
  <2>2. max \in mod.minPages .. mod.maxPages
    BY <1>2, <2>1 DEF MinOf
  <2>3. cursor = 1 /\ cursor - 1 = 0
    BY <1>0 DEF Instantiated
  <2>4. \A a \in DOMAIN arena : arena[a] = 0
    <3>1. size = 0 /\ \A a \in DOMAIN arena : a >= 0
      BY <1>0 DEF IInv, TypeOK, Address
    <3> QED BY <3>1 DEF IInv, FreshPagesAreZero
  <2>5. \A a \in Address(size') : a \in DOMAIN arena
    <3>1. MemoryInsideArena' /\ TypeOK'
      BY AllocateMemoryInv DEF IInv
    <3>2. pages' \in Nat /\ maxPages' \in Nat
      BY <3>1 DEF TypeOK
    <3>3. pages' <= maxPages' /\ maxPages' <= wasm_arena_pages /\ size' = pages' * PageSize
      BY <1>2, <3>1 DEF MemoryInsideArena
    <3>4. pages' <= wasm_arena_pages
      BY <2>1, <3>2, <3>3
    <3>5. size' <= wasm_arena_pages * PageSize /\ size' \in Nat
      BY <2>1, <3>2, <3>3, <3>4, PagesMonotonic
    <3>6. DOMAIN arena = Address(wasm_arena_pages * PageSize)
          /\ wasm_arena_pages * PageSize \in Nat
      BY Sizes
    <3> QED BY <3>5, <3>6, AddressesNest
  <2>6. DataLoaded(0)'
    <3>1. \A a \in Address(size') : arena'[a] = W!ByteAfter(mod', 0, a)
      BY <1>2, <2>4, <2>5, NothingLoaded
    <3>2. 1 .. 0 = {}
      OBVIOUS
    <3> QED BY <3>1, <3>2 DEF DataLoaded
  <2>7. Untouched' /\ Allocated'
    BY <1>0, <1>2, <2>2 DEF Instantiated, Untouched, Allocated
  <2> QED BY <1>2, <2>1, <2>3, <2>6, <2>7 DEF Instantiated
<1> QED BY <1>1, <1>2 DEF wasmMemoryAllocate

(* A segment that is loaded fits, and is the last so far. *)
LEMMA LoadDataInstantiated ==
  ASSUME IInv, Instantiated, LOAD_DATA
  PROVE  Instantiated'
<1> DEFINE s == mod.data[cursor]
<1>0. phase = "data" /\ cursor \in DOMAIN mod.data
  BY DEF LOAD_DATA, Instantiating
<1>1. /\ s.offset \in Nat /\ s.bytes \in Seq(Bytes) /\ Len(s.bytes) \in Nat
      /\ s.active \in BOOLEAN /\ cursor \in Nat \ {0} /\ Len(mod.data) \in Nat
      /\ DOMAIN mod.data = 1 .. Len(mod.data)
  <2>1. U32 \subseteq Nat
    BY DEF U32, U32Size
  <2>2. TypeOK
    BY DEF IInv
  <2> QED BY <1>0, <2>1, <2>2, ModuleShape, SegmentLists
<1>2. CASE ~ wasm_check(s.offset, Len(s.bytes)) /\ Trap(<<6, s.offset, Len(s.bytes)>>)
  BY <1>0, <1>2, TrapInstantiated
<1>3. CASE /\ s.active => wasm_check(s.offset, Len(s.bytes))
           /\ arena' = IF s.active THEN Write(arena, s.offset, s.bytes) ELSE arena
           /\ cursor' = cursor + 1
           /\ UNCHANGED <<mod, wasm_arena_pages, memory, segLen, tables, phase,
                          result, trapped>>
  <2> HIDE DEF s
  <2>1. /\ wasm_arena_pages * PageSize \in Nat
        /\ arena \in [Address(wasm_arena_pages * PageSize) -> Bytes]
        /\ size \in Nat /\ size <= wasm_arena_pages * PageSize
    BY Sizes
  <2>2. size = mod.minPages * PageSize /\ DataLoaded(cursor - 1)
    BY <1>0 DEF IInv, MemoryInsideArena, Instantiated, Allocated
  <2>3. ASSUME NEW k \in 1 .. cursor, mod.data[k].active
        PROVE  mod.data[k].offset + Len(mod.data[k].bytes) <= mod.minPages * PageSize
    <3>1. CASE k = cursor
      BY <1>3, <2>2, <2>3, <3>1 DEF s, wasm_check
    <3>2. CASE k # cursor
      <4>1. k \in 1 .. cursor - 1
        BY <1>1, <3>2
      <4> QED BY <2>2, <2>3, <4>1 DEF DataLoaded
    <3> QED BY <3>1, <3>2
  <2>4. ASSUME NEW a \in Address(size)
        PROVE  arena'[a] = W!ByteAfter(mod, cursor, a)
    <3>1. a \in Address(wasm_arena_pages * PageSize) /\ a \in Nat
      BY AddressesNest, <2>1, <2>4
    <3>2. arena[a] = W!ByteAfter(mod, cursor - 1, a)
      BY <2>2 DEF DataLoaded
    <3>3. W!Covers(s, Len(s.bytes), a) <=> Covers(s.offset, Len(s.bytes), a)
      BY <1>1, <3>1, CoversIsSpan
    <3>4. W!ByteAfter(mod, cursor, a) =
             IF s.active /\ Covers(s.offset, Len(s.bytes), a)
             THEN s.bytes[a - s.offset + 1] ELSE arena[a]
      BY <1>1, <3>2, <3>3, ByteStep DEF s
    <3>5. CASE s.active
      <4>1. arena'[a] = IF Covers(s.offset, Len(s.bytes), a)
                        THEN s.bytes[a - s.offset + 1] ELSE arena[a]
        BY <1>1, <1>3, <2>1, <3>1, <3>5, WriteProperties
      <4> QED BY <3>4, <3>5, <4>1
    <3>6. CASE ~ s.active
      BY <1>3, <3>4, <3>6
    <3> QED BY <3>5, <3>6
  <2>5. /\ mod' = mod /\ size' = size /\ cursor' - 1 = cursor /\ phase' = phase
        /\ pages' = pages /\ maxPages' = maxPages /\ segLen' = segLen /\ result' = result
    BY <1>1, <1>3 DEF memory
  <2>6. DataLoaded(cursor - 1)'
    BY <2>3, <2>4, <2>5 DEF DataLoaded
  <2>7. cursor' \in 1 .. Len(mod'.data) + 1
    BY <1>0, <1>1, <1>3, <2>5
  <2>8. Untouched' /\ Allocated'
    BY <1>0, <2>5 DEF Instantiated, Untouched, Allocated
  <2> QED BY <1>0, <2>5, <2>6, <2>7, <2>8 DEF Instantiated
<1> QED BY <1>2, <1>3 DEF LOAD_DATA

(* The table starts with no entry. *)
LEMMA AllocateTableInstantiated ==
  ASSUME IInv, Instantiated, wasmTableAllocate
  PROVE  Instantiated'
<1>0. phase = "data" /\ cursor \notin DOMAIN mod.data
  BY DEF wasmTableAllocate, Instantiating
<1>1. CASE Trap(<<5>>)
  BY <1>0, <1>1, TrapInstantiated
<1>2. CASE /\ mod.minTable <= MinOf(mod.maxTable, TableSize)
           /\ tsize' = mod.minTable
           /\ phase' = "elements" /\ cursor' = 1
           /\ UNCHANGED <<mod, wasm_arena_pages, arena, memory, segLen, tdata,
                          ttypes, result, trapped>>
  <2>1. /\ mod.minTable \in Nat /\ mod.maxTable \in Nat /\ cursor \in Nat \ {0}
        /\ Len(mod.data) \in Nat /\ DOMAIN mod.data = 1 .. Len(mod.data)
        /\ Len(mod.elems) \in Nat
    <3>1. TypeOK
      BY DEF IInv
    <3> QED BY <3>1, ModuleShape, SegmentLists DEF TypeOK
  <2>2. cursor - 1 = Len(mod.data) /\ DataLoaded(Len(mod.data))
    <3>1. cursor \in 1 .. Len(mod.data) + 1 /\ DataLoaded(cursor - 1)
      BY <1>0 DEF Instantiated
    <3>2. cursor - 1 = Len(mod.data)
      BY <1>0, <2>1, <3>1
    <3> QED BY <3>1, <3>2
  <2>3. tsize' <= TableSize
    BY <1>2, <2>1 DEF MinOf
  <2>4. \A x \in DOMAIN tdata : tdata[x] = 0
    <3>1. tsize = 0 /\ DOMAIN tdata \subseteq Nat
      BY <1>0 DEF IInv, TypeOK, Address
    <3> QED BY <3>1 DEF IInv, TableTypesAgree
  <2>5. \A x \in Address(tsize') : x \in DOMAIN tdata
    <3>1. DOMAIN tdata = Address(TableSize)
      BY DEF IInv, TypeOK
    <3> QED BY <1>2, <2>1, <2>3, <3>1 DEF Address
  <2>6. /\ mod' = mod /\ size' = size /\ arena' = arena /\ phase' = "elements"
        /\ cursor' = 1 /\ cursor' - 1 = 0 /\ tdata' = tdata /\ tsize' = mod'.minTable
        /\ pages' = pages /\ maxPages' = maxPages /\ segLen' = segLen /\ result' = result
    BY <1>2 DEF memory
  <2>7. ElementsLoaded(0)'
    <3>1. \A x \in Address(tsize') : tdata'[x] = W!EntryAfter(mod', 0, x)
      BY <2>4, <2>5, <2>6, NothingLoaded
    <3>2. 1 .. 0 = {}
      OBVIOUS
    <3> QED BY <3>1, <3>2 DEF ElementsLoaded
  <2>8. DataLoaded(Len(mod.data))'
    BY <2>2, <2>6 DEF DataLoaded
  <2>9. Untouched' /\ Allocated'
    BY <1>0, <2>6 DEF Instantiated, Untouched, Allocated
  <2> QED BY <2>1, <2>6, <2>7, <2>8, <2>9 DEF Instantiated
<1> QED BY <1>1, <1>2 DEF wasmTableAllocate

(* An element segment that is loaded fits, and is the last so far. *)
LEMMA ElementsInstantiated ==
  ASSUME IInv, Instantiated, InitElements
  PROVE  Instantiated'
<1> DEFINE s == mod.elems[cursor]
           count == Len(s.funcs)
<1>0. phase = "elements" /\ cursor \in DOMAIN mod.elems
  BY DEF InitElements, Instantiating
<1>1. /\ s.offset \in Nat /\ s.funcs \in Seq(DOMAIN mod.funcs) /\ count \in Nat
      /\ cursor \in Nat \ {0} /\ Len(mod.elems) \in Nat
      /\ DOMAIN mod.elems = 1 .. Len(mod.elems)
  <2>1. U32 \subseteq Nat
    BY DEF U32, U32Size
  <2>2. TypeOK
    BY DEF IInv
  <2>3. Len(mod.elems) \in Nat /\ DOMAIN mod.elems = 1 .. Len(mod.elems)
    BY <2>2, SegmentLists
  <2>4. s.offset \in U32 /\ s.funcs \in Seq(DOMAIN mod.funcs) /\ count \in U32
    BY <1>0, <2>2, ModuleShape
  <2>5. cursor \in Nat \ {0}
    BY <1>0, <2>3
  <2> HIDE DEF s, count
  <2> QED BY <2>1, <2>3, <2>4, <2>5
<1>2. CASE s.offset + count > tsize /\ Trap(<<7, s.offset, count>>)
  BY <1>0, <1>2, TrapInstantiated
<1>3. CASE /\ s.offset + count <= tsize
           /\ tdata' = Write(tdata, s.offset, s.funcs)
           /\ cursor' = cursor + 1
           /\ UNCHANGED <<mod, wasm_arena_pages, arena, memory, segLen, tsize,
                          phase, result, trapped>>
  <2> DEFINE Funcs == {0} \cup DOMAIN mod.funcs
  <2> HIDE DEF s, count
  <2>1. /\ tdata \in [Address(TableSize) -> Funcs] /\ TableSize \in Nat
        /\ tsize \in 0 .. TableSize
    BY DEF IInv, TypeOK
  <2>2. tsize = mod.minTable /\ ElementsLoaded(cursor - 1) /\ DataLoaded(Len(mod.data))
    BY <1>0 DEF Instantiated
  <2>3. ASSUME NEW k \in 1 .. cursor
        PROVE  mod.elems[k].offset + Len(mod.elems[k].funcs) <= mod.minTable
    <3>1. CASE k = cursor
      BY <1>3, <2>2, <3>1 DEF s, count
    <3>2. CASE k # cursor
      <4>1. k \in 1 .. cursor - 1
        BY <1>1, <3>2
      <4> QED BY <2>2, <4>1 DEF ElementsLoaded
    <3> QED BY <3>1, <3>2
  <2>4. ASSUME NEW x \in Address(tsize)
        PROVE  tdata'[x] = W!EntryAfter(mod, cursor, x)
    <3>1. x \in Address(TableSize) /\ x \in Nat
      BY <2>1, <2>4, AddressesNest
    <3>2. tdata[x] = W!EntryAfter(mod, cursor - 1, x)
      BY <2>2 DEF ElementsLoaded
    <3>3. W!Covers(s, count, x) <=> Covers(s.offset, count, x)
      BY <1>1, <3>1, CoversIsSpan
    <3>4. W!EntryAfter(mod, cursor, x) =
             IF Covers(s.offset, count, x) THEN s.funcs[x - s.offset + 1] ELSE tdata[x]
      BY <1>1, <3>2, <3>3, EntryStep DEF s, count
    <3>5. s.funcs \in Seq(Funcs)
      <4>1. \A S, T : S \subseteq T => Seq(S) \subseteq Seq(T)
        BY SeqDef
      <4> QED BY <1>1, <4>1
    <3>6. tdata'[x] = IF Covers(s.offset, count, x) THEN s.funcs[x - s.offset + 1] ELSE tdata[x]
      <4> HIDE DEF Funcs
      <4> QED BY <1>1, <1>3, <2>1, <3>1, <3>5, WriteProperties DEF count
    <3> QED BY <3>4, <3>6
  <2>5. /\ mod' = mod /\ size' = size /\ arena' = arena /\ tsize' = tsize
        /\ cursor' - 1 = cursor /\ phase' = phase
        /\ pages' = pages /\ maxPages' = maxPages /\ segLen' = segLen /\ result' = result
    BY <1>1, <1>3 DEF memory
  <2>6. ElementsLoaded(cursor - 1)'
    BY <2>3, <2>4, <2>5 DEF ElementsLoaded
  <2>7. cursor' \in 1 .. Len(mod'.elems) + 1
    BY <1>0, <1>1, <1>3, <2>5
  <2>8. DataLoaded(Len(mod.data))'
    BY <2>2, <2>5 DEF DataLoaded
  <2>9. Untouched' /\ Allocated'
    BY <1>0, <2>5 DEF Instantiated, Untouched, Allocated
  <2> QED BY <1>0, <2>2, <2>5, <2>6, <2>7, <2>8, <2>9 DEF Instantiated
<1> QED BY <1>2, <1>3 DEF InitElements

(* The guest and the host never go back to the instantiation. *)
LEMMA GuestStays ==
  ASSUME Guest \/ HostCalls
  PROVE  phase' = "guest"
<1>1. \A t : Trap(t) => phase' = phase
  BY DEF Trap
<1>2. \A r : Return(r) => phase' = phase
  BY DEF Return
<1>3. \A a, n : OutOfBounds(a, n) => phase' = phase
  BY <1>1 DEF OutOfBounds
<1>4. \A a, s : Stored(a, s) => phase' = phase
  BY <1>2 DEF Stored
<1> QED
  BY <1>1, <1>2, <1>3, <1>4, Zenon
     DEF InGuest, Guest, HostCalls, Load, Store, wasmMemoryCopy, wasmMemoryFill,
         wasm_memory_init, DataDrop, MemorySize, wasmMemoryGrow, CallIndirect,
         ArithmeticTrap, HostRefuses, HostRead, HostWrite

(* Every step keeps the invariant. *)
LEMMA StepInstantiated ==
  ASSUME IInv, Instantiated, [Next]_vars
  PROVE  Instantiated'
<1>1. CASE Instantiate
  <2>1. CASE EnterGuest
    BY <2>1 DEF EnterGuest, Instantiated
  <2> QED BY <1>1, <2>1, AllocateMemoryInstantiated, LoadDataInstantiated,
             AllocateTableInstantiated, ElementsInstantiated DEF Instantiate
<1>2. CASE Guest \/ HostCalls
  <2>1. phase' = "guest"
    BY <1>2, GuestStays
  <2> QED BY <2>1 DEF Instantiated
<1>3. CASE UNCHANGED vars
  <2>1. /\ mod' = mod /\ arena' = arena /\ pages' = pages /\ size' = size
        /\ maxPages' = maxPages /\ segLen' = segLen /\ tdata' = tdata /\ tsize' = tsize
        /\ phase' = phase /\ cursor' = cursor /\ result' = result
    BY <1>3 DEF vars, memory, tables
  <2>2. DataLoaded(cursor - 1)' <=> DataLoaded(cursor - 1)
    BY <2>1 DEF DataLoaded
  <2>3. DataLoaded(Len(mod.data))' <=> DataLoaded(Len(mod.data))
    BY <2>1 DEF DataLoaded
  <2>4. ElementsLoaded(cursor - 1)' <=> ElementsLoaded(cursor - 1)
    BY <2>1 DEF ElementsLoaded
  <2> QED BY <2>1, <2>2, <2>3, <2>4 DEF Instantiated, Untouched, Allocated
<1> QED BY <1>1, <1>2, <1>3 DEF Next

-----------------------------------------------------------------------------
(* Instantiation is one step of the instance. *)

(* Reading a whole sequence gives the sequence. *)
LEMMA ReadWhole ==
  ASSUME NEW S, NEW q \in Seq(S)
  PROVE  Read(q, 1, Len(q)) = q
<1>1. Len(q) \in Nat /\ q \in [1 .. Len(q) -> S]
  BY LenProperties
<1>2. \A i \in 1 .. Len(q) : 1 + i - 1 = i
  BY <1>1
<1> QED BY <1>1, <1>2 DEF Read

(* Until the guest is entered no segment is dropped. *)
LEMMA SegmentsWhole ==
  ASSUME mod \in Modules, segLen = [k \in DOMAIN mod.data |-> Len(mod.data[k].bytes)]
  PROVE  [k \in DOMAIN mod.data |-> Read(mod.data[k].bytes, 1, segLen[k])]
           = [k \in DOMAIN mod.data |-> mod.data[k].bytes]
<1>1. ASSUME NEW k \in DOMAIN mod.data PROVE mod.data[k].bytes \in Seq(Bytes)
  <2>1. mod.data \in Seq([active : BOOLEAN, offset : U32, bytes : Seq(Bytes)])
    BY ModulesAssumption DEF IsModule
  <2>2. mod.data[k] \in [active : BOOLEAN, offset : U32, bytes : Seq(Bytes)]
    BY <2>1, LenProperties, ElementOfSeq
  <2> QED BY <2>2
<1>2. ASSUME NEW k \in DOMAIN mod.data
      PROVE  Read(mod.data[k].bytes, 1, segLen[k]) = mod.data[k].bytes
  BY <1>1, ReadWhole
<1> QED BY <1>2

LEMMA InitMaps == Init => W!Init
<1> SUFFICES ASSUME Init PROVE W!Init
  OBVIOUS
<1>1. ~ Running /\ mod \in Modules /\ result = <<>> /\ trapped = <<>>
  BY DEF Init, Running
<1>2. [k \in DOMAIN mod.data |-> Read(mod.data[k].bytes, 1, segLen[k])]
           = [k \in DOMAIN mod.data |-> mod.data[k].bytes]
  BY SegmentsWhole DEF Init
<1> QED BY <1>1, <1>2 DEF W!Init

(* Before the guest runs, the instance changes only by a trap. *)
LEMMA StillInit ==
  ASSUME ~ Running, ~ Running', mod' = mod, segLen' = segLen, result' = result,
         trapped' = trapped
  PROVE  UNCHANGED W!vars
BY DEF W!vars

LEMMA TrapsInInit ==
  ASSUME ~ Running, NEW t, Trap(t)
  PROVE  W!TrapWith(t)
<1>1. ~ Running' /\ mod' = mod /\ segLen' = segLen /\ trapped' = t /\ result' = <<>>
  BY DEF Trap, Running
<1> QED BY <1>1 DEF W!TrapWith

(* A trap of guestInstantiate has the reason that the instance gives. *)
LEMMA InstantiationTraps ==
  ASSUME IInv, Instantiated, NEW t, phase # "guest", trapped = <<>>, Trap(t),
         \/ t = << 5 >>
         \/ \E k \in DOMAIN mod.data :
              /\ mod.data[k].active
              /\ ~ W!Within(mod.data[k].offset, Len(mod.data[k].bytes), mod.minPages * PageSize)
              /\ t = <<6, mod.data[k].offset, Len(mod.data[k].bytes)>>
         \/ \E k \in DOMAIN mod.elems :
              /\ ~ W!Within(mod.elems[k].offset, Len(mod.elems[k].funcs), mod.minTable)
              /\ t = <<7, mod.elems[k].offset, Len(mod.elems[k].funcs)>>
  PROVE  W!AllocationFails \/ W!DataDoesNotFit \/ W!ElementsDoNotFit
<1>1. ~ Running /\ W!TrapWith(t)
  BY TrapsInInit DEF Running
<1> QED BY <1>1 DEF W!AllocationFails, W!DataDoesNotFit, W!ElementsDoNotFit

TrapsOrWaits ==
    W!AllocationFails \/ W!DataDoesNotFit \/ W!ElementsDoNotFit \/ UNCHANGED W!vars

LEMMA AllocateMemoryMaps ==
  ASSUME IInv, Instantiated, wasmMemoryAllocate
  PROVE  TrapsOrWaits
<1>0. phase = "memory" /\ trapped = <<>> /\ ~ Running
  BY DEF wasmMemoryAllocate, Instantiating, Running
<1>1. CASE Trap(<<5>>)
  BY <1>0, <1>1, InstantiationTraps DEF TrapsOrWaits
<1>2. CASE phase' = "data" /\ UNCHANGED <<mod, segLen, result, trapped>>
  BY <1>0, <1>2, StillInit DEF Running, TrapsOrWaits
<1> QED BY <1>1, <1>2 DEF wasmMemoryAllocate

LEMMA LoadDataMaps ==
  ASSUME IInv, Instantiated, LOAD_DATA
  PROVE  TrapsOrWaits
<1> DEFINE s == mod.data[cursor]
<1>0. phase = "data" /\ trapped = <<>> /\ ~ Running /\ cursor \in DOMAIN mod.data
  BY DEF LOAD_DATA, Instantiating, Running
<1>1. CASE s.active /\ ~ wasm_check(s.offset, Len(s.bytes))
           /\ Trap(<<6, s.offset, Len(s.bytes)>>)
  <2>1. size = mod.minPages * PageSize
    BY <1>0 DEF IInv, MemoryInsideArena, Instantiated, Allocated
  <2>2. ~ W!Within(s.offset, Len(s.bytes), mod.minPages * PageSize)
    BY <1>1, <2>1 DEF W!Within, wasm_check
  <2> QED BY <1>0, <1>1, <2>2, InstantiationTraps DEF TrapsOrWaits
<1>2. CASE UNCHANGED <<mod, segLen, phase, result, trapped>>
  BY <1>0, <1>2, StillInit DEF Running, TrapsOrWaits
<1> QED BY <1>1, <1>2 DEF LOAD_DATA

LEMMA AllocateTableMaps ==
  ASSUME IInv, Instantiated, wasmTableAllocate
  PROVE  TrapsOrWaits
<1>0. phase = "data" /\ trapped = <<>> /\ ~ Running
  BY DEF wasmTableAllocate, Instantiating, Running
<1>1. CASE Trap(<<5>>)
  BY <1>0, <1>1, InstantiationTraps DEF TrapsOrWaits
<1>2. CASE phase' = "elements" /\ UNCHANGED <<mod, segLen, result, trapped>>
  BY <1>0, <1>2, StillInit DEF Running, TrapsOrWaits
<1> QED BY <1>1, <1>2 DEF wasmTableAllocate

LEMMA ElementsMaps ==
  ASSUME IInv, Instantiated, InitElements
  PROVE  TrapsOrWaits
<1> DEFINE s == mod.elems[cursor]
<1>0. phase = "elements" /\ trapped = <<>> /\ ~ Running /\ cursor \in DOMAIN mod.elems
  BY DEF InitElements, Instantiating, Running
<1>1. CASE s.offset + Len(s.funcs) > tsize /\ Trap(<<7, s.offset, Len(s.funcs)>>)
  <2>1. tsize = mod.minTable /\ tsize \in Nat
    BY <1>0, Sizes DEF Instantiated
  <2>2. s.offset \in Nat /\ Len(s.funcs) \in Nat
    <3>1. TypeOK /\ U32 \subseteq Nat
      BY DEF IInv, U32, U32Size
    <3> QED BY <1>0, <3>1, ModuleShape
  <2>3. ~ W!Within(s.offset, Len(s.funcs), mod.minTable)
    <3> HIDE DEF s
    <3> QED BY <1>1, <2>1, <2>2 DEF W!Within
  <2> QED BY <1>0, <1>1, <2>3, InstantiationTraps DEF TrapsOrWaits
<1>2. CASE UNCHANGED <<mod, segLen, phase, result, trapped>>
  BY <1>0, <1>2, StillInit DEF Running, TrapsOrWaits
<1> QED BY <1>1, <1>2 DEF InitElements

(* Entering the guest shows it the whole instance at once. *)
LEMMA EnterGuestMaps ==
  ASSUME IInv, Instantiated, EnterGuest
  PROVE  W!Instantiate
<1>1. /\ phase = "elements" /\ trapped = <<>> /\ cursor \notin DOMAIN mod.elems
      /\ ~ Running /\ Running'
      /\ mod' = mod /\ arena' = arena /\ pages' = pages /\ size' = size
      /\ maxPages' = maxPages /\ segLen' = segLen /\ tdata' = tdata /\ tsize' = tsize
      /\ result' = result /\ trapped' = trapped
  BY DEF EnterGuest, Instantiating, Running, memory, tables
<1>2. /\ tsize = mod.minTable /\ DataLoaded(Len(mod.data))
      /\ cursor \in 1 .. Len(mod.elems) + 1 /\ ElementsLoaded(cursor - 1) /\ Allocated
  BY <1>1 DEF Instantiated
<1>3. size = mod.minPages * PageSize
  BY <1>2 DEF IInv, MemoryInsideArena, Allocated
<1>4. /\ DOMAIN mod.data = 1 .. Len(mod.data) /\ DOMAIN mod.elems = 1 .. Len(mod.elems)
      /\ Len(mod.elems) \in Nat
  BY SegmentLists DEF IInv
<1>5. cursor - 1 = Len(mod.elems)
  BY <1>1, <1>2, <1>4
<1>6. [a \in Address(size') |-> arena'[a]]
        = [a \in 0 .. mod.minPages * PageSize - 1 |-> W!ByteAfter(mod, Len(mod.data), a)]
  BY <1>1, <1>2, <1>3 DEF DataLoaded, Address
<1>7. [x \in Address(tsize') |-> tdata'[x]]
        = [x \in 0 .. mod.minTable - 1 |-> W!EntryAfter(mod, Len(mod.elems), x)]
  BY <1>1, <1>2, <1>5 DEF ElementsLoaded, Address
<1>8. \A k \in DOMAIN mod.data : mod.data[k].active =>
         W!Within(mod.data[k].offset, Len(mod.data[k].bytes), mod.minPages * PageSize)
  BY <1>2, <1>4 DEF DataLoaded, W!Within
<1>9. \A k \in DOMAIN mod.elems :
         W!Within(mod.elems[k].offset, Len(mod.elems[k].funcs), mod.minTable)
  BY <1>2, <1>4, <1>5 DEF ElementsLoaded, W!Within
<1> QED BY <1>1, <1>2, <1>6, <1>7, <1>8, <1>9 DEF W!Instantiate, Allocated

-----------------------------------------------------------------------------
(* Every call of the guest is a step of the instance. *)

(* The instance accepts the same ranges, and is alive with the guest. *)
LEMMA GuestIsAlive ==
  ASSUME IInv, InGuest
  PROVE  /\ W!Alive /\ Running
         /\ W!Size = size /\ size \in Nat
         /\ \A a, n : wasm_check(a, n) <=> W!Within(a, n, W!Size)
<1>1. Running /\ phase = "guest" /\ trapped = <<>>
  BY DEF InGuest, Running
<1>2. W!Size = size /\ size \in Nat
  BY <1>1, Sizes DEF W!Size
<1> QED BY <1>1, <1>2 DEF W!Alive, W!Within, wasm_check

(* A trap of the guest changes nothing else of the instance. *)
LEMMA TrapMaps ==
  ASSUME NEW t, Trap(t)
  PROVE  W!TrapWith(t)
BY DEF Trap, W!TrapWith, memory, tables, Running

(* A call that returns keeps the module, the ceiling and the table. *)
LEMMA ReturnMaps ==
  ASSUME InGuest, NEW r, Return(r)
  PROVE  /\ W!Return(r) /\ Running /\ Running'
         /\ mod' = mod /\ maxPages' = maxPages /\ tdata' = tdata /\ tsize' = tsize
BY DEF InGuest, Return, W!Return, tables, Running

(* A call that returns and stores nothing leaves the instance as it is. *)
LEMMA QuietMaps ==
  ASSUME InGuest, NEW r, Return(r), UNCHANGED <<arena, pages, size, segLen>>
  PROVE  /\ W!Return(r)
         /\ UNCHANGED << IF Running THEN [a \in Address(size) |-> arena[a]] ELSE <<>>,
                         IF Running THEN pages ELSE 0,
                         IF Running THEN [x \in Address(tsize) |-> tdata[x]] ELSE <<>>,
                         [k \in DOMAIN mod.data |-> Read(mod.data[k].bytes, 1, segLen[k])] >>
BY ReturnMaps

(* A range outside the memory traps with that range. *)
LEMMA OutOfBoundsMaps ==
  ASSUME IInv, InGuest, NEW a, NEW n, OutOfBounds(a, n)
  PROVE  W!OutOfBounds(a, n)
BY GuestIsAlive, TrapMaps DEF OutOfBounds, W!OutOfBounds

(* A write into the arena below size is the write into the memory. *)
LEMMA WriteMaps ==
  ASSUME IInv, NEW at \in Nat, NEW n \in Nat, NEW s \in [1 .. n -> Bytes],
         wasm_check(at, n)
  PROVE  [x \in Address(size) |-> Write(arena, at, s)[x]]
           = W!Write([x \in Address(size) |-> arena[x]], at, s)
<1>1. s \in Seq(Bytes) /\ Len(s) = n
  BY FunctionIsSequence
<1>2. ASSUME NEW x \in Address(size)
      PROVE  Write(arena, at, s)[x]
               = IF x \in W!Span(at, n) THEN s[x - at + 1] ELSE arena[x]
  <2>1. x \in Address(wasm_arena_pages * PageSize) /\ x \in Nat
    BY <1>2, Sizes, AddressesNest
  <2>2. Write(arena, at, s)[x] = IF Covers(at, n, x) THEN s[x - at + 1] ELSE arena[x]
    <3> DEFINE k == wasm_arena_pages * PageSize
    <3>1. k \in Nat /\ arena \in [Address(k) -> Bytes] /\ x \in Address(k)
      BY <2>1, Sizes
    <3> HIDE DEF k
    <3> QED BY <1>1, <3>1, WriteProperties
  <2>3. Covers(at, n, x) <=> x \in W!Span(at, n)
    BY <2>1 DEF Covers, W!Span
  <2> QED BY <2>2, <2>3
<1> QED BY <1>1, <1>2 DEF W!Write

(* What is stored below size, the instance stores. *)
LEMMA WrittenMaps ==
  ASSUME IInv, InGuest, NEW at \in U32, NEW n \in Nat, NEW s \in [1 .. n -> Bytes],
         wasm_check(at, n), arena' = Write(arena, at, s), NEW r, Return(r),
         UNCHANGED <<pages, size, segLen>>
  PROVE  /\ r = <<>> => W!Store(at, s)
         /\ r = <<n>> => W!HostStores(at, s)
         /\ at \in 0 .. W!Size /\ n \in 0 .. W!Size /\ Len(s) = n
<1>1. at \in Nat /\ Len(s) = n
  BY FunctionIsSequence DEF U32, U32Size
<1>2. /\ W!Return(r) /\ Running /\ Running' /\ mod' = mod
      /\ tdata' = tdata /\ tsize' = tsize
  BY ReturnMaps
<1>3. [x \in Address(size') |-> arena'[x]]
        = W!Write([x \in Address(size) |-> arena[x]], at, s)
  BY <1>1, WriteMaps
<1>4. W!Alive /\ W!Within(at, Len(s), W!Size) /\ W!Size \in Nat /\ at + n <= W!Size
  BY <1>1, GuestIsAlive DEF W!Within
<1> QED BY <1>1, <1>2, <1>3, <1>4 DEF W!Store, W!HostStores

LEMMA StoreMaps ==
  ASSUME IInv, InGuest, NEW at \in U32, NEW n \in U32, NEW s \in [1 .. n -> Bytes],
         wasm_check(at, n), Stored(at, s)
  PROVE  W!Store(at, s)
<1>1. n \in Nat
  BY DEF U32, U32Size
<1> QED BY <1>1, WrittenMaps DEF Stored

(* DEFINE_LOAD *)
LEMMA LoadMaps ==
  ASSUME IInv, NEW base \in U32, NEW offset \in Offsets, NEW w \in Widths,
         Load(base, offset, w)
  PROVE  LET a == EffectiveAddress(base, offset)
         IN  W!Load(a, w) \/ W!OutOfBounds(a, w)
<1> DEFINE a == EffectiveAddress(base, offset)
<1>1. InGuest /\ a \in U32 /\ w \in U32
  BY EffectiveAddressIsU32, WidthsAssumption DEF Load
<1>2. CASE OutOfBounds(a, w)
  BY <1>1, <1>2, OutOfBoundsMaps
<1>3. CASE /\ wasm_check(a, w)
           /\ Return(Read(arena, a, w))
           /\ UNCHANGED <<arena, pages, size, segLen>>
  <2> HIDE DEF a
  <2>1. a \in Nat /\ w \in Nat
    BY <1>1 DEF U32, U32Size
  <2>2. W!Alive /\ Running /\ W!Within(a, w, W!Size) /\ W!Size = size /\ size \in Nat
    BY <1>1, <1>3, GuestIsAlive
  <2>3. Read(arena, a, w) = W!Read([x \in Address(size) |-> arena[x]], a, w)
    <3>1. \A i \in 1 .. w : a + i - 1 \in Address(size)
      BY <1>3, <2>1, <2>2 DEF wasm_check, Address
    <3> QED BY <3>1 DEF Read, W!Read
  <2>4. W!Load(a, w)
    BY <1>1, <1>3, <2>2, <2>3, QuietMaps DEF W!Load
  <2> QED BY <2>4 DEF a
<1> QED BY <1>2, <1>3 DEF Load

(* DEFINE_STORE *)
LEMMA StoreCallMaps ==
  ASSUME IInv, NEW base \in U32, NEW offset \in Offsets, NEW w \in Widths,
         NEW s \in [1 .. w -> Bytes], Store(base, offset, s)
  PROVE  LET a == EffectiveAddress(base, offset)
         IN  W!Store(a, s) \/ W!OutOfBounds(a, w)
<1> DEFINE a == EffectiveAddress(base, offset)
<1>1. InGuest /\ a \in U32 /\ w \in U32 /\ w \in Nat
  BY EffectiveAddressIsU32, WidthsAssumption DEF Store, U32, U32Size
<1>2. Len(s) = w
  BY <1>1, FunctionIsSequence
<1>3. OutOfBounds(a, w) \/ (wasm_check(a, w) /\ Stored(a, s))
  BY <1>2 DEF Store
<1> HIDE DEF a
<1>4. W!Store(a, s) \/ W!OutOfBounds(a, w)
  BY <1>1, <1>3, OutOfBoundsMaps, StoreMaps
<1> QED BY <1>4 DEF a

LEMMA FillMaps ==
  ASSUME IInv, NEW d \in U32, NEW v \in Bytes, NEW n \in U32, wasmMemoryFill(d, v, n)
  PROVE  W!Store(d, [i \in 1 .. n |-> v]) \/ W!OutOfBounds(d, n)
<1>1. [i \in 1 .. n |-> v] \in [1 .. n -> Bytes]
  OBVIOUS
<1> QED BY <1>1, OutOfBoundsMaps, StoreMaps DEF wasmMemoryFill

(* memmove: a copy reads all of its bytes before it writes. *)
LEMMA CopyMaps ==
  ASSUME IInv, NEW d \in U32, NEW s \in U32, NEW n \in U32, wasmMemoryCopy(d, s, n)
  PROVE  W!Copy(d, s, n) \/ W!OutOfBounds(d, n) \/ W!OutOfBounds(s, n)
<1>0. InGuest /\ n \in Nat /\ d \in Nat /\ s \in Nat
  BY DEF wasmMemoryCopy, U32, U32Size
<1>1. CASE wasm_check(d, n) /\ wasm_check(s, n) /\ Stored(d, Read(arena, s, n))
  <2>1. Read(arena, s, n) \in [1 .. n -> Bytes]
    BY <1>1, CheckedReadIsBytes
  <2>2. /\ W!Alive /\ Running /\ W!Size = size /\ size \in Nat
        /\ W!Within(d, n, W!Size) /\ W!Within(s, n, W!Size)
    <3>1. \A a, b : wasm_check(a, b) <=> W!Within(a, b, W!Size)
      BY <1>0, GuestIsAlive
    <3>2. W!Alive /\ Running /\ W!Size = size /\ size \in Nat
      BY <1>0, GuestIsAlive
    <3> QED BY <1>1, <3>1, <3>2
  <2>3. Read(arena, s, n) = W!Read([x \in Address(size) |-> arena[x]], s, n)
    <3>1. \A i \in 1 .. n : s + i - 1 \in Address(size)
      BY <1>0, <1>1, <2>2 DEF wasm_check, Address
    <3> QED BY <3>1 DEF Read, W!Read
  <2>4. PICK q \in [1 .. n -> Bytes] : q = Read(arena, s, n)
    BY <2>1
  <2>5. W!Store(d, q)
    BY <1>0, <1>1, <2>4, StoreMaps
  <2> QED BY <2>2, <2>3, <2>4, <2>5 DEF W!Copy, W!Store
<1> QED BY <1>0, <1>1, OutOfBoundsMaps DEF wasmMemoryCopy

(* memory.init reads the bytes of a segment that has not been dropped. *)
LEMMA SegmentMaps ==
  ASSUME IInv, NEW k \in DOMAIN mod.data
  PROVE  LET segs == [j \in DOMAIN mod.data |-> Read(mod.data[j].bytes, 1, segLen[j])]
         IN  /\ segLen[k] \in Nat /\ segLen[k] <= Len(mod.data[k].bytes)
             /\ Len(segs[k]) = segLen[k]
             /\ \A i \in 1 .. segLen[k] :
                  segs[k][i] = mod.data[k].bytes[i] /\ mod.data[k].bytes[i] \in Bytes
<1>1. TypeOK /\ SegmentsShrink /\ U32 \subseteq Nat
  BY DEF IInv, U32, U32Size
<1>2. segLen[k] \in Nat /\ segLen[k] <= Len(mod.data[k].bytes)
  BY <1>1 DEF TypeOK, SegmentsShrink
<1>3. mod.data[k].bytes \in Seq(Bytes)
  BY <1>1, ModuleShape
<1>4. \A i \in 1 .. segLen[k] : mod.data[k].bytes[i] \in Bytes
  BY <1>2, <1>3, LenProperties, ElementOfSeq
<1>5. Read(mod.data[k].bytes, 1, segLen[k]) \in [1 .. segLen[k] -> Bytes]
  BY <1>2, <1>4 DEF Read
<1>6. Len(Read(mod.data[k].bytes, 1, segLen[k])) = segLen[k]
  BY <1>2, <1>5, FunctionIsSequence
<1>7. \A i \in 1 .. segLen[k] :
         Read(mod.data[k].bytes, 1, segLen[k])[i] = mod.data[k].bytes[i]
  BY <1>2 DEF Read
<1> QED BY <1>2, <1>4, <1>6, <1>7

LEMMA InitCallMaps ==
  ASSUME IInv, NEW d \in U32, NEW k \in DOMAIN mod.data, NEW s \in U32, NEW n \in U32,
         wasm_memory_init(d, k, s, n)
  PROVE  \/ W!CopyFromSegment(d, k, s, n) /\ s \in 0 .. segLen[k]
         \/ W!OutOfSegment(k, s, n) \/ W!OutOfBounds(d, n)
<1> DEFINE segs == [j \in DOMAIN mod.data |-> Read(mod.data[j].bytes, 1, segLen[j])]
<1>0. InGuest /\ n \in Nat /\ d \in Nat /\ s \in Nat
  BY DEF wasm_memory_init, U32, U32Size
<1>1. /\ segLen[k] \in Nat /\ segLen[k] <= Len(mod.data[k].bytes)
      /\ Len(segs[k]) = segLen[k]
      /\ \A i \in 1 .. segLen[k] :
           segs[k][i] = mod.data[k].bytes[i] /\ mod.data[k].bytes[i] \in Bytes
  BY SegmentMaps
<1>2. CASE s + n > segLen[k] /\ Trap(<<6, s, n, k>>)
  <2>1. ~ W!Within(s, n, Len(segs[k]))
    <3> HIDE DEF segs
    <3> QED BY <1>0, <1>1, <1>2 DEF W!Within
  <2> QED BY <1>0, <1>2, <2>1, GuestIsAlive, TrapMaps DEF W!OutOfSegment
<1>3. CASE /\ s + n <= segLen[k] /\ wasm_check(d, n)
           /\ Stored(d, Read(mod.data[k].bytes, s + 1, n))
  <2> DEFINE q == Read(mod.data[k].bytes, s + 1, n)
  <2>1. \A i \in 1 .. n : s + 1 + i - 1 \in 1 .. segLen[k]
    BY <1>0, <1>1, <1>3
  <2>2. q \in [1 .. n -> Bytes] /\ q = W!Read(segs[k], s + 1, n)
    <3> HIDE DEF segs
    <3> QED BY <1>1, <2>1 DEF Read, W!Read
  <2> HIDE DEF q
  <2>3. PICK b \in [1 .. n -> Bytes] : b = q
    BY <2>2
  <2>4. W!Store(d, b)
    BY <1>0, <1>3, <2>3, StoreMaps DEF q
  <2>5. W!Within(d, n, W!Size) /\ W!Within(s, n, Len(segs[k])) /\ s \in 0 .. segLen[k]
    <3>1. W!Within(d, n, W!Size)
      BY <1>0, <1>3, GuestIsAlive
    <3> HIDE DEF segs
    <3> QED BY <1>0, <1>1, <1>3, <3>1 DEF W!Within
  <2> QED BY <2>2, <2>3, <2>4, <2>5 DEF W!CopyFromSegment, W!Store
<1> QED BY <1>0, <1>2, <1>3, OutOfBoundsMaps DEF wasm_memory_init

(* A dropped segment has length 0. *)
LEMMA DropMaps ==
  ASSUME IInv, NEW k \in DOMAIN mod.data, DataDrop(k)
  PROVE  W!DropSegment(k)
<1> DEFINE segs == [j \in DOMAIN mod.data |-> Read(mod.data[j].bytes, 1, segLen[j])]
<1>1. InGuest /\ Return(<<>>) /\ segLen' = [segLen EXCEPT ![k] = 0]
      /\ arena' = arena /\ pages' = pages /\ size' = size
  BY DEF DataDrop
<1>2. /\ W!Return(<<>>) /\ Running /\ Running' /\ mod' = mod /\ tdata' = tdata /\ tsize' = tsize
  BY <1>1, ReturnMaps
<1>3. DOMAIN segLen = DOMAIN mod.data
  BY DEF IInv, TypeOK
<1>4. Read(mod.data[k].bytes, 1, 0) = <<>>
  <2>1. 1 .. 0 = {}
    OBVIOUS
  <2> QED BY <2>1 DEF Read
<1>5. [j \in DOMAIN mod'.data |-> Read(mod'.data[j].bytes, 1, segLen'[j])]
        = [segs EXCEPT ![k] = <<>>]
  BY <1>1, <1>2, <1>3, <1>4
<1>6. W!Alive
  BY <1>1, GuestIsAlive
<1> QED BY <1>1, <1>2, <1>5, <1>6 DEF W!DropSegment

LEMMA SizeMaps == ASSUME IInv, MemorySize PROVE W!MemorySize
<1>1. InGuest /\ Return(<<pages>>) /\ UNCHANGED <<arena, pages, size, segLen>>
  BY DEF MemorySize
<1>2. W!Alive /\ Running
  BY <1>1, GuestIsAlive
<1> QED BY <1>1, <1>2, QuietMaps DEF W!MemorySize

(* A sum of pages that wraps is more than the ceiling allows. *)
LEMMA GrowSum ==
  ASSUME IInv, InGuest, NEW delta \in U32
  PROVE  LET new == Add32(pages, delta)
         IN  /\ new < pages \/ new > maxPages => pages + delta > maxPages
             /\ new >= pages /\ new <= maxPages =>
                  new = pages + delta /\ pages + delta <= maxPages /\ new < PageLimit
<1>1. /\ pages \in Nat /\ maxPages \in Nat /\ wasm_arena_pages \in Nat
      /\ pages <= maxPages /\ maxPages <= wasm_arena_pages
  BY Sizes
<1>2. wasm_arena_pages < PageLimit
  BY DEF IInv, InGuest
<1>3. PageLimit <= U32Size /\ U32Size \in Nat \ {0}
  BY DEF U32Size
<1>4. delta \in Nat /\ delta < U32Size
  BY <1>3 DEF U32
<1>5. \A x \in Nat, m \in Nat \ {0} : x < m => x % m = x
  OBVIOUS
<1>6. \A x \in Nat, m \in Nat \ {0} : m <= x /\ x < 2 * m => x % m = x - m
  OBVIOUS
<1>7. CASE pages + delta < U32Size
  <2>1. Add32(pages, delta) = pages + delta
    BY <1>1, <1>3, <1>4, <1>5, <1>7 DEF Add32
  <2> QED BY <1>1, <1>2, <1>4, <2>1
<1>8. CASE pages + delta >= U32Size
  <2>1. pages < U32Size /\ pages + delta < 2 * U32Size
    BY <1>1, <1>2, <1>3, <1>4
  <2>2. Add32(pages, delta) = pages + delta - U32Size
    <3> DEFINE sum == pages + delta
    <3>1. sum \in Nat /\ U32Size <= sum /\ sum < 2 * U32Size
      BY <1>1, <1>4, <1>8, <2>1
    <3> HIDE DEF sum
    <3>2. sum % U32Size = sum - U32Size
      BY <1>3, <1>6, <3>1
    <3> QED BY <1>1, <1>3, <1>4, <3>2 DEF Add32, sum
  <2> QED BY <1>1, <1>2, <1>3, <1>4, <1>8, <2>1, <2>2
<1> QED BY <1>1, <1>3, <1>4, <1>7, <1>8

(* wasmMemoryGrow refuses exactly what the ceiling forbids, and what it    *)
(* exposes reads zero.                                                     *)
LEMMA GrowMaps ==
  ASSUME IInv, NEW delta \in U32, wasmMemoryGrow(delta)
  PROVE  W!Grow(delta) \/ W!GrowRefused(delta)
<1> DEFINE new == Add32(pages, delta)
<1>0. InGuest
  BY DEF wasmMemoryGrow
<1>1. W!Alive /\ Running /\ phase = "guest"
  BY <1>0, GuestIsAlive DEF InGuest
<1>2. /\ new < pages \/ new > maxPages => pages + delta > maxPages
      /\ new >= pages /\ new <= maxPages =>
           new = pages + delta /\ pages + delta <= maxPages /\ new < PageLimit
  BY <1>0, GrowSum
<1>3. pages \in Nat /\ delta \in Nat /\ size = pages * PageSize
  BY Sizes DEF U32, U32Size
<1> HIDE DEF new
<1>4. CASE /\ new < pages \/ new > maxPages
           /\ Return(<<MinusOne>>) /\ UNCHANGED <<arena, pages, size, segLen>>
  <2>1. MinusOne = PageSize * PageLimit - 1
    BY DEF MinusOne, U32Size
  <2>2. W!GrowRefused(delta)
    BY <1>0, <1>1, <1>2, <1>4, <2>1, QuietMaps DEF W!GrowRefused
  <2> QED BY <2>2
<1>5. CASE /\ new >= pages /\ new <= maxPages
           /\ pages' = new
           /\ size' = (new * PageSize) % U32Size
           /\ Return(<<pages>>)
           /\ UNCHANGED <<arena, segLen>>
  <2>1. pages' = pages + delta /\ pages + delta <= maxPages /\ new < PageLimit /\ new \in Nat
    BY <1>2, <1>3, <1>5
  <2>2. size' = (pages + delta) * PageSize
    BY <1>5, <2>1, SizeDoesNotWrap
  <2>3. /\ W!Return(<<pages>>) /\ Running' /\ mod' = mod /\ tdata' = tdata /\ tsize' = tsize
        /\ arena' = arena /\ segLen' = segLen
    BY <1>0, <1>5, ReturnMaps
  <2>4. W!Size = size
    BY <1>0, GuestIsAlive
  <2>5. ASSUME NEW a \in Address(size')
        PROVE  arena[a] = IF a < size THEN [x \in Address(size) |-> arena[x]][a] ELSE 0
    <3>1. a \in DOMAIN arena /\ a \in Nat
      <4>1. IInv'
        BY <1>3, GrowInv
      <4>2. MemoryInsideArena' /\ TypeOK'
        BY <4>1 DEF IInv
      <4>3. pages' \in Nat /\ maxPages' \in Nat
        BY <4>2 DEF TypeOK
      <4>4. pages' <= maxPages' /\ maxPages' <= wasm_arena_pages /\ size' = pages' * PageSize
        BY <1>5, <4>2 DEF MemoryInsideArena, Return
      <4>5. wasm_arena_pages \in Nat /\ wasm_arena_pages * PageSize \in Nat
            /\ DOMAIN arena = Address(wasm_arena_pages * PageSize)
        BY Sizes
      <4>6. pages' <= wasm_arena_pages
        BY <4>3, <4>4, <4>5
      <4>7. size' <= wasm_arena_pages * PageSize /\ size' \in Nat
        BY <4>3, <4>4, <4>5, <4>6, PagesMonotonic
      <4> QED BY <2>5, <4>5, <4>7, AddressesNest
    <3>2. CASE a < size
      <4>1. a \in Address(size)
        BY <3>1, <3>2, Sizes DEF Address
      <4> QED BY <3>2, <4>1
    <3>3. CASE ~ a < size
      <4>1. a >= size
        BY <3>1, <3>3, Sizes
      <4>2. arena[a] = 0
        BY <3>1, <4>1 DEF IInv, FreshPagesAreZero
      <4> QED BY <3>3, <4>2
    <3> QED BY <3>2, <3>3
  <2>6. [a \in Address(size') |-> arena'[a]]
          = [a \in 0 .. (pages + delta) * PageSize - 1 |->
               IF a < size THEN [x \in Address(size) |-> arena[x]][a] ELSE 0]
    <3>1. Address(size') = 0 .. (pages + delta) * PageSize - 1
      BY <2>2 DEF Address
    <3> QED BY <2>3, <2>5, <3>1
  <2>7. W!Grow(delta)
    BY <1>1, <2>1, <2>3, <2>4, <2>6 DEF W!Grow
  <2> QED BY <2>7
<1> QED BY <1>4, <1>5 DEF wasmMemoryGrow, new

(* wasm_table_get: the ids compare as the signatures do. *)
LEMMA CallMaps ==
  ASSUME IInv, NEW i \in U32, NEW t \in DOMAIN mod.types, CallIndirect(i, t)
  PROVE  W!Call(i, t) \/ W!CallFails(i, t)
<1> DEFINE table == [x \in Address(tsize) |-> tdata[x]]
<1>0. InGuest /\ i \in Nat
  BY DEF CallIndirect, U32, U32Size
<1>1. W!Alive /\ Running /\ tsize \in Nat /\ tsize <= TableSize /\ TableSize \in Nat
  BY <1>0, GuestIsAlive, Sizes
<1>2. i \in DOMAIN table <=> i < tsize
  BY <1>0, <1>1 DEF Address
<1>3. i < tsize => table[i] = tdata[i] /\ i \in DOMAIN tdata
  <2>1. DOMAIN tdata = Address(TableSize)
    BY DEF IInv, TypeOK
  <2> QED BY <1>0, <1>1, <2>1 DEF Address
<1>4. i < tsize /\ tdata[i] # 0 =>
        (ttypes[i] = wasmCanonicalFunctionTypeIndex(mod, t) <=> W!SigOf(mod, tdata[i]) = mod.types[t])
  BY <1>3 DEF IInv, TableTypesAgree, W!SigOf
<1> HIDE DEF table
<1>5. CASE i >= tsize /\ Trap(<<7, i>>)
  <2>1. i \notin DOMAIN table /\ W!TrapWith(<<7, i>>)
    BY <1>0, <1>1, <1>2, <1>5, TrapMaps
  <2> QED BY <1>1, <2>1 DEF W!CallFails, table
<1>6. CASE i < tsize /\ tdata[i] = 0 /\ Trap(<<8, i>>)
  <2>1. i \in DOMAIN table /\ table[i] = 0 /\ W!TrapWith(<<8, i>>)
    BY <1>2, <1>3, <1>6, TrapMaps
  <2> QED BY <1>1, <2>1 DEF W!CallFails, table
<1>7. CASE /\ i < tsize /\ tdata[i] # 0
           /\ ttypes[i] # wasmCanonicalFunctionTypeIndex(mod, t)
           /\ Trap(<<9, i, t>>)
  <2>1. i \in DOMAIN table /\ table[i] # 0 /\ W!TrapWith(<<9, i, t>>)
        /\ W!SigOf(mod, table[i]) # mod.types[t]
    BY <1>2, <1>3, <1>4, <1>7, TrapMaps
  <2> QED BY <1>1, <2>1 DEF W!CallFails, table
<1>8. CASE /\ i < tsize /\ tdata[i] # 0
           /\ ttypes[i] = wasmCanonicalFunctionTypeIndex(mod, t)
           /\ Return(<<tdata[i]>>)
           /\ UNCHANGED <<arena, pages, size, segLen>>
  <2>1. /\ i \in DOMAIN table /\ table[i] = tdata[i] /\ table[i] # 0
        /\ W!SigOf(mod, table[i]) = mod.types[t]
    BY <1>2, <1>3, <1>4, <1>8
  <2> QED BY <1>0, <1>1, <1>8, <2>1, QuietMaps DEF W!Call, table
<1> QED BY <1>0, <1>5, <1>6, <1>7, <1>8 DEF CallIndirect

LEMMA ArithmeticMaps ==
  ASSUME IInv, NEW t \in 1 .. 4, ArithmeticTrap(t)
  PROVE  W!Arithmetic(t)
BY GuestIsAlive, TrapMaps DEF ArithmeticTrap, W!Arithmetic

(* env.read and env.write: a checked buffer, or no effect. *)
LEMMA HostReturnMaps ==
  ASSUME IInv, InGuest, NEW n, Return(<<n>>), UNCHANGED <<arena, pages, size, segLen>>
  PROVE  W!HostReturns(n)
<1>1. W!Alive
  BY GuestIsAlive
<1> QED BY <1>1, QuietMaps DEF W!HostReturns

LEMMA HostWriteMaps ==
  ASSUME IInv, NEW ptr \in U32, NEW len \in U32, NEW n \in 0 .. len,
         NEW s \in [1 .. n -> Bytes], HostWrite(ptr, len, s)
  PROVE  /\ W!HostStores(ptr, s)
         /\ ptr \in 0 .. W!Size /\ n \in 0 .. W!Size
<1>1. n \in Nat /\ ptr \in Nat /\ len \in Nat /\ n <= len
  BY DEF U32, U32Size
<1>2. s \in Seq(Bytes) /\ Len(s) = n
  BY <1>1, FunctionIsSequence
<1>3. wasm_check(ptr, n)
  BY <1>1, Sizes DEF HostWrite, wasm_check
<1> QED BY <1>1, <1>2, <1>3, WrittenMaps DEF HostWrite

-----------------------------------------------------------------------------
(* Theorems. *)

(***************************************************************************)
(* What each call of the guest or of the host does to the instance.        *)
(***************************************************************************)
AccessesMean ==
    \A base \in U32, offset \in Offsets, w \in Widths :
        LET a == EffectiveAddress(base, offset)
        IN  /\ Load(base, offset, w) => W!Load(a, w) \/ W!OutOfBounds(a, w)
            /\ \A s \in [1 .. w -> Bytes] :
                 Store(base, offset, s) => W!Store(a, s) \/ W!OutOfBounds(a, w)

BulkMeans ==
    \A d \in U32, n \in U32 :
        /\ \A s \in U32 : wasmMemoryCopy(d, s, n) =>
             W!Copy(d, s, n) \/ W!OutOfBounds(d, n) \/ W!OutOfBounds(s, n)
        /\ \A v \in Bytes : wasmMemoryFill(d, v, n) =>
             W!Store(d, [i \in 1 .. n |-> v]) \/ W!OutOfBounds(d, n)
        /\ \A k \in DOMAIN mod.data, s \in U32 : wasm_memory_init(d, k, s, n) =>
             W!CopyFromSegment(d, k, s, n) \/ W!OutOfSegment(k, s, n) \/ W!OutOfBounds(d, n)

SizesMean ==
    /\ \A k \in DOMAIN mod.data : DataDrop(k) => W!DropSegment(k)
    /\ MemorySize => W!MemorySize
    /\ \A delta \in U32 : wasmMemoryGrow(delta) => W!Grow(delta) \/ W!GrowRefused(delta)

CallsMean ==
    /\ \A i \in U32, t \in DOMAIN mod.types :
         CallIndirect(i, t) => W!Call(i, t) \/ W!CallFails(i, t)
    /\ \A t \in 1 .. 4 : ArithmeticTrap(t) => W!Arithmetic(t)

HostMeans ==
    /\ HostRefuses => W!HostReturns(MinusOne)
    /\ \A ptr \in U32, len \in U32 :
         /\ InGuest /\ OutOfBounds(ptr, len) => W!OutOfBounds(ptr, len)
         /\ \A n \in 0 .. len :
              /\ HostRead(ptr, len, n) => W!HostReturns(n)
              /\ \A s \in [1 .. n -> Bytes] : HostWrite(ptr, len, s) => W!HostStores(ptr, s)

StepsMean ==
    /\ wasmMemoryAllocate \/ LOAD_DATA \/ wasmTableAllocate \/ InitElements =>
         TrapsOrWaits
    /\ EnterGuest => W!Instantiate
    /\ AccessesMean /\ BulkMeans /\ SizesMean /\ CallsMean /\ HostMeans

LEMMA AccessesMap == ASSUME IInv PROVE AccessesMean
BY LoadMaps, StoreCallMaps DEF AccessesMean

LEMMA BulkMaps == ASSUME IInv PROVE BulkMeans
BY CopyMaps, FillMaps, InitCallMaps DEF BulkMeans

LEMMA SizesMap == ASSUME IInv PROVE SizesMean
BY DropMaps, SizeMaps, GrowMaps DEF SizesMean

LEMMA CallsMap == ASSUME IInv PROVE CallsMean
BY CallMaps, ArithmeticMaps DEF CallsMean

LEMMA HostMaps == ASSUME IInv PROVE HostMeans
<1>1. HostRefuses => W!HostReturns(MinusOne)
  BY HostReturnMaps DEF HostRefuses
<1>2. ASSUME NEW ptr \in U32, NEW len \in U32, InGuest, OutOfBounds(ptr, len)
      PROVE  W!OutOfBounds(ptr, len)
  BY <1>2, OutOfBoundsMaps
<1>3. ASSUME NEW ptr \in U32, NEW len \in U32, NEW n \in 0 .. len, HostRead(ptr, len, n)
      PROVE  W!HostReturns(n)
  BY <1>3, HostReturnMaps DEF HostRead
<1>4. ASSUME NEW ptr \in U32, NEW len \in U32, NEW n \in 0 .. len,
             NEW s \in [1 .. n -> Bytes], HostWrite(ptr, len, s)
      PROVE  W!HostStores(ptr, s)
  BY <1>4, HostWriteMaps
<1> QED BY <1>1, <1>2, <1>3, <1>4 DEF HostMeans

LEMMA StepsMap == ASSUME IInv, Instantiated PROVE StepsMean
BY AllocateMemoryMaps, LoadDataMaps, AllocateTableMaps, ElementsMaps, EnterGuestMaps,
   AccessesMap, BulkMaps, SizesMap, CallsMap, HostMaps DEF StepsMean

(* So every step is a step of the instance, or changes nothing of it. *)
LEMMA InstantiateIsStep ==
  ASSUME IInv, Instantiated, Instantiate
  PROVE  [W!Next]_(W!vars)
BY StepsMap DEF StepsMean, Instantiate, TrapsOrWaits, W!Next

(* The ranges that the instance's steps quantify over. *)
LEMMA Ranges ==
  ASSUME IInv, InGuest
  PROVE  /\ U32 = W!Address
         /\ \A a \in U32, n \in U32 : wasm_check(a, n) => a \in 0 .. W!Size /\ n \in 0 .. W!Size
<1>1. U32 = W!Address /\ U32 \subseteq Nat
  BY DEF U32, U32Size, W!Address
<1>2. W!Size = size /\ size \in Nat
  BY GuestIsAlive
<1> QED BY <1>1, <1>2 DEF wasm_check

LEMMA GuestIsStep ==
  ASSUME IInv, Guest
  PROVE  W!Next
<1>0. /\ AccessesMean /\ BulkMeans /\ SizesMean /\ CallsMean
      /\ U32 \subseteq Nat /\ Widths \subseteq U32
  BY AccessesMap, BulkMaps, SizesMap, CallsMap, WidthsAssumption DEF U32, U32Size
<1>1. InGuest
  BY DEF Guest, Load, Store, wasmMemoryCopy, wasmMemoryFill, wasm_memory_init, DataDrop,
         MemorySize, wasmMemoryGrow, CallIndirect, ArithmeticTrap
<1>2. U32 = W!Address /\ W!Size \in Nat /\ Running
      /\ \A a, n : wasm_check(a, n) <=> W!Within(a, n, W!Size)
  BY <1>1, Ranges, GuestIsAlive
<1>3. ASSUME NEW a \in U32, NEW n \in U32, W!OutOfBounds(a, n) PROVE W!Next
  BY <1>2, <1>3 DEF W!Next
<1>4. ASSUME NEW a \in U32, NEW n \in U32, NEW s \in [1 .. n -> Bytes], W!Store(a, s)
      PROVE  W!Next
  <2>1. a \in Nat /\ n \in Nat /\ Len(s) = n
    BY <1>0, FunctionIsSequence
  <2>2. a + n <= W!Size
    BY <1>4, <2>1 DEF W!Store, W!Within
  <2>3. a \in 0 .. W!Size /\ n \in 0 .. W!Size
    BY <1>2, <2>1, <2>2
  <2> QED BY <1>4, <2>3 DEF W!Next
<1>5. ASSUME NEW base \in U32, NEW offset \in Offsets, NEW w \in Widths, Load(base, offset, w)
      PROVE  W!Next
  <2> DEFINE a == EffectiveAddress(base, offset)
  <2>1. a \in U32 /\ w \in U32 /\ a \in Nat /\ w \in Nat
    BY <1>0, EffectiveAddressIsU32
  <2>2. W!Load(a, w) \/ W!OutOfBounds(a, w)
    BY <1>0, <1>5 DEF AccessesMean
  <2> HIDE DEF a
  <2>3. CASE W!Load(a, w)
    <3>1. a + w <= W!Size
      BY <2>3 DEF W!Load, W!Within
    <3>2. a \in 0 .. W!Size /\ w \in 0 .. W!Size
      BY <1>2, <2>1, <3>1
    <3> QED BY <2>3, <3>2 DEF W!Next
  <2> QED BY <1>3, <2>1, <2>2, <2>3
<1>6. ASSUME NEW base \in U32, NEW offset \in Offsets, NEW w \in Widths,
             NEW s \in [1 .. w -> Bytes], Store(base, offset, s)
      PROVE  W!Next
  <2> DEFINE a == EffectiveAddress(base, offset)
  <2>1. a \in U32 /\ w \in U32
    BY <1>0, EffectiveAddressIsU32
  <2>2. W!Store(a, s) \/ W!OutOfBounds(a, w)
    BY <1>0, <1>6 DEF AccessesMean
  <2> HIDE DEF a
  <2> QED BY <1>3, <1>4, <2>1, <2>2
<1>7. ASSUME NEW d \in U32, NEW n \in U32, NEW s \in U32, wasmMemoryCopy(d, s, n)
      PROVE  W!Next
  <2>1. W!Copy(d, s, n) \/ W!OutOfBounds(d, n) \/ W!OutOfBounds(s, n)
    BY <1>0, <1>7 DEF BulkMeans
  <2>2. CASE W!Copy(d, s, n)
    <3>1. d + n <= W!Size /\ s + n <= W!Size
      BY <2>2 DEF W!Copy, W!Within
    <3>2. d \in 0 .. W!Size /\ s \in 0 .. W!Size /\ n \in 0 .. W!Size
      BY <1>0, <1>2, <3>1
    <3> QED BY <2>2, <3>2 DEF W!Next
  <2> QED BY <1>3, <2>1, <2>2
<1>8. ASSUME NEW d \in U32, NEW n \in U32, NEW v \in Bytes, wasmMemoryFill(d, v, n)
      PROVE  W!Next
  <2>1. W!Store(d, [i \in 1 .. n |-> v]) \/ W!OutOfBounds(d, n)
    BY <1>0, <1>8 DEF BulkMeans
  <2>2. [i \in 1 .. n |-> v] \in [1 .. n -> Bytes]
    OBVIOUS
  <2> QED BY <1>3, <1>4, <2>1, <2>2
<1>9. ASSUME NEW d \in U32, NEW n \in U32, NEW k \in DOMAIN mod.data, NEW s \in U32,
             wasm_memory_init(d, k, s, n)
      PROVE  W!Next
  <2>1. \/ W!CopyFromSegment(d, k, s, n) /\ s \in 0 .. segLen[k]
        \/ W!OutOfSegment(k, s, n) \/ W!OutOfBounds(d, n)
    BY <1>9, InitCallMaps
  <2>2. CASE W!CopyFromSegment(d, k, s, n) /\ s \in 0 .. segLen[k]
    <3>1. d + n <= W!Size
      BY <2>2 DEF W!CopyFromSegment, W!Within
    <3>2. d \in 0 .. W!Size /\ n \in 0 .. W!Size
      BY <1>0, <1>2, <3>1
    <3>3. Len([j \in DOMAIN mod.data |-> Read(mod.data[j].bytes, 1, segLen[j])][k]) = segLen[k]
      BY SegmentMaps
    <3> QED BY <2>2, <3>2, <3>3 DEF W!Next
  <2>3. CASE W!OutOfSegment(k, s, n)
    BY <1>2, <2>3 DEF W!Next
  <2> QED BY <1>3, <2>1, <2>2, <2>3
<1>10. ASSUME NEW k \in DOMAIN mod.data, DataDrop(k) PROVE W!Next
  BY <1>0, <1>10 DEF SizesMean, W!Next
<1>11. CASE MemorySize
  BY <1>0, <1>11 DEF SizesMean, W!Next
<1>12. ASSUME NEW delta \in U32, wasmMemoryGrow(delta) PROVE W!Next
  BY <1>0, <1>2, <1>12 DEF SizesMean, W!Next
<1>13. ASSUME NEW i \in U32, NEW t \in DOMAIN mod.types, CallIndirect(i, t) PROVE W!Next
  BY <1>0, <1>2, <1>13 DEF CallsMean, W!Next
<1>14. ASSUME NEW t \in 1 .. 4, ArithmeticTrap(t) PROVE W!Next
  BY <1>0, <1>14 DEF CallsMean, W!Next
<1> QED BY <1>5, <1>6, <1>7, <1>8, <1>9, <1>10, <1>11, <1>12, <1>13, <1>14 DEF Guest

LEMMA HostCallsIsStep ==
  ASSUME IInv, HostCalls
  PROVE  W!Next
<1>0. HostMeans /\ InGuest
  BY HostMaps DEF HostCalls, HostRefuses, HostRead, HostWrite
<1>1. U32 = W!Address /\ U32 \subseteq Nat
  BY <1>0, Ranges DEF U32, U32Size
<1>2. CASE HostRefuses
  <2>1. MinusOne \in U32
    BY DEF MinusOne, U32, U32Size
  <2> QED BY <1>0, <1>1, <1>2, <2>1 DEF HostMeans, W!Next
<1>3. ASSUME NEW ptr \in U32, NEW len \in U32, InGuest, OutOfBounds(ptr, len) PROVE W!Next
  BY <1>0, <1>1, <1>3 DEF HostMeans, W!Next
<1>4. ASSUME NEW ptr \in U32, NEW len \in U32, NEW n \in 0 .. len, HostRead(ptr, len, n)
      PROVE  W!Next
  <2>1. n \in U32
    BY DEF U32, U32Size
  <2> QED BY <1>0, <1>1, <1>4, <2>1 DEF HostMeans, W!Next
<1>5. ASSUME NEW ptr \in U32, NEW len \in U32, NEW n \in 0 .. len,
             NEW s \in [1 .. n -> Bytes], HostWrite(ptr, len, s)
      PROVE  W!Next
  BY <1>5, HostWriteMaps DEF W!Next
<1> QED BY <1>0, <1>2, <1>3, <1>4, <1>5 DEF HostCalls

LEMMA StutterMaps == ASSUME UNCHANGED vars PROVE UNCHANGED W!vars
BY DEF vars, memory, tables, W!vars, Running

LEMMA StepMaps ==
  ASSUME IInv, Instantiated, [Next]_vars
  PROVE  [W!Next]_(W!vars)
BY InstantiateIsStep, GuestIsStep, HostCallsIsStep, StutterMaps DEF Next

(***************************************************************************)
(* During guestInstantiate the arenas hold what the segments loaded so far *)
(* put there.                                                              *)
(***************************************************************************)
THEOREM InstantiationInvariance == Spec => []Instantiated
<1>1. Init => Instantiated
  BY InitInstantiated
<1>2. IInv /\ Instantiated /\ [Next]_vars => Instantiated'
  BY StepInstantiated
<1> QED BY <1>1, <1>2, Invariance, PTL DEF Spec

(***************************************************************************)
(* Every generated call, and every step of guestInstantiate, is the        *)
(* operation of the instance that it is meant to be: w2c2_base.h loads,    *)
(* stores, copies, fills and grows as WasmInstance says.                   *)
(***************************************************************************)
THEOREM CallsMeanWhatTheySay == Spec => [][StepsMean]_vars
<1>1. IInv /\ Instantiated /\ [Next]_vars => [StepsMean]_vars
  BY StepsMap
<1> QED BY <1>1, Invariance, InstantiationInvariance, PTL DEF Spec

(***************************************************************************)
(* The runtime header and the instantiation code implement the instance.   *)
(***************************************************************************)
THEOREM RuntimeImplements == Spec => ImplementsInstance
<1>1. Init => W!Init
  BY InitMaps
<1>2. IInv /\ Instantiated /\ [Next]_vars => [W!Next]_(W!vars)
  BY StepMaps
<1> QED BY <1>1, <1>2, Invariance, InstantiationInvariance, PTL
      DEF Spec, ImplementsInstance, W!Spec
=============================================================================
