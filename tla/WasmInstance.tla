---------------------------- MODULE WasmInstance ----------------------------
(***************************************************************************)
(* What a translated module promises its guest: a WebAssembly instance     *)
(* with one linear memory, one function table and its data segments.       *)
(*                                                                         *)
(* The memory here is exactly as long as its pages, the table holds        *)
(* functions and compares their structural signatures, instantiation is    *)
(* one step, an operation that traps has no other effect, and every trap   *)
(* is justified by the range, the entry or the type that it reports.       *)
(* Runtime, the translation of rt/w2c2_base.h, is shown to implement this  *)
(* module.                                                                 *)
(*                                                                         *)
(* It departs from the WebAssembly standard in two places, on purpose:     *)
(* effective addresses wrap at 2^32 (NOTES.md, sharp edge 2), and the      *)
(* active data segments are still readable by memory.init after            *)
(* instantiation, because no generated line sets their dN_len to 0.        *)
(***************************************************************************)
EXTENDS Integers, Sequences

CONSTANTS
    PageSize,   \* bytes of a page
    PageLimit,  \* pages that a 32-bit address space holds
    Bytes,      \* the values of one byte
    Modules     \* the modules that may be instantiated

VARIABLES
    mod,        \* the module
    status,     \* "init" or "running"
    mem,        \* the linear memory, a function on its addresses
    npages,     \* its length in pages
    limit,      \* the length that it may grow to
    table,      \* the function table; 0 is the null entry
    segs,       \* the bytes of every data segment, empty once dropped
    result,     \* what the last operation gave to the guest
    fault       \* <<>>, or the trap and the operands that justify it

vars == <<mod, status, mem, npages, limit, table, segs, result, fault>>

-----------------------------------------------------------------------------
Address == 0 .. PageSize * PageLimit - 1

Within(a, n, length) == a + n <= length
Span(a, n) == a .. a + n - 1

Read(f, a, n) == [i \in 1 .. n |-> f[a + i - 1]]
Write(f, a, s) ==
    [x \in DOMAIN f |-> IF x \in Span(a, Len(s)) THEN s[x - a + 1] ELSE f[x]]

SigOf(m, f) == m.types[m.funcs[f]]

(***************************************************************************)
(* The contents after instantiation, stated without a loop: an address     *)
(* holds what the last segment that covers it put there.                   *)
(***************************************************************************)
Covers(s, n, x) == x \in Span(s.offset, n)
Latest(K) == CHOOSE j \in K : \A i \in K : i <= j

DataCovering(m, k, a) ==
    {j \in 1 .. k : m.data[j].active /\ Covers(m.data[j], Len(m.data[j].bytes), a)}
ByteAfter(m, k, a) ==
    LET K == DataCovering(m, k, a)
        s == m.data[Latest(K)]
    IN  IF K = {} THEN 0 ELSE s.bytes[a - s.offset + 1]

ElemCovering(m, k, x) ==
    {j \in 1 .. k : Covers(m.elems[j], Len(m.elems[j].funcs), x)}
EntryAfter(m, k, x) ==
    LET K == ElemCovering(m, k, x)
        s == m.elems[Latest(K)]
    IN  IF K = {} THEN 0 ELSE s.funcs[x - s.offset + 1]

-----------------------------------------------------------------------------
Init ==
    /\ mod \in Modules
    /\ status = "init"
    /\ mem = <<>> /\ npages = 0 /\ limit = 0 /\ table = <<>>
    /\ segs = [k \in DOMAIN mod.data |-> mod.data[k].bytes]
    /\ result = <<>>
    /\ fault = <<>>

Alive == status = "running" /\ fault = <<>>

Return(r) ==
    /\ result' = r
    /\ UNCHANGED <<mod, status, limit, fault>>

TrapWith(f) ==
    /\ fault' = f
    /\ result' = <<>>
    /\ UNCHANGED <<mod, status, mem, npages, limit, table, segs>>

-----------------------------------------------------------------------------
(* Instantiation is all or nothing. *)

Instantiate ==
    /\ status = "init" /\ fault = <<>>
    /\ status' = "running"
    /\ npages' = mod.minPages
    /\ limit' \in mod.minPages .. mod.maxPages
    /\ \A k \in DOMAIN mod.data : mod.data[k].active =>
         Within(mod.data[k].offset, Len(mod.data[k].bytes), mod.minPages * PageSize)
    /\ \A k \in DOMAIN mod.elems :
         Within(mod.elems[k].offset, Len(mod.elems[k].funcs), mod.minTable)
    /\ mem' = [a \in 0 .. mod.minPages * PageSize - 1 |-> ByteAfter(mod, Len(mod.data), a)]
    /\ table' = [x \in 0 .. mod.minTable - 1 |-> EntryAfter(mod, Len(mod.elems), x)]
    /\ UNCHANGED <<mod, segs, result, fault>>

AllocationFails ==
    /\ status = "init" /\ fault = <<>>
    /\ TrapWith(<<5>>)

DataDoesNotFit ==
    /\ status = "init" /\ fault = <<>>
    /\ \E k \in DOMAIN mod.data :
         /\ mod.data[k].active
         /\ ~ Within(mod.data[k].offset, Len(mod.data[k].bytes), mod.minPages * PageSize)
         /\ TrapWith(<<6, mod.data[k].offset, Len(mod.data[k].bytes)>>)

ElementsDoNotFit ==
    /\ status = "init" /\ fault = <<>>
    /\ \E k \in DOMAIN mod.elems :
         /\ ~ Within(mod.elems[k].offset, Len(mod.elems[k].funcs), mod.minTable)
         /\ TrapWith(<<7, mod.elems[k].offset, Len(mod.elems[k].funcs)>>)

-----------------------------------------------------------------------------
(* Memory. *)

Size == npages * PageSize

Load(a, n) ==
    /\ Alive /\ Within(a, n, Size)
    /\ Return(Read(mem, a, n))
    /\ UNCHANGED <<mem, npages, table, segs>>

Store(a, s) ==
    /\ Alive /\ Within(a, Len(s), Size)
    /\ Return(<<>>)
    /\ mem' = Write(mem, a, s)
    /\ UNCHANGED <<npages, table, segs>>

(* The host may change a range of the memory, or only look at it. *)
HostStores(a, s) ==
    /\ Alive /\ Within(a, Len(s), Size)
    /\ Return(<<Len(s)>>)
    /\ mem' = Write(mem, a, s)
    /\ UNCHANGED <<npages, table, segs>>

HostReturns(n) ==
    /\ Alive
    /\ Return(<<n>>)
    /\ UNCHANGED <<mem, npages, table, segs>>

Copy(d, s, n) ==
    /\ Alive /\ Within(d, n, Size) /\ Within(s, n, Size)
    /\ Return(<<>>)
    /\ mem' = Write(mem, d, Read(mem, s, n))
    /\ UNCHANGED <<npages, table, segs>>

CopyFromSegment(d, k, s, n) ==
    /\ Alive /\ Within(d, n, Size) /\ Within(s, n, Len(segs[k]))
    /\ Return(<<>>)
    /\ mem' = Write(mem, d, Read(segs[k], s + 1, n))
    /\ UNCHANGED <<npages, table, segs>>

DropSegment(k) ==
    /\ Alive
    /\ Return(<<>>)
    /\ segs' = [segs EXCEPT ![k] = <<>>]
    /\ UNCHANGED <<mem, npages, table>>

MemorySize ==
    /\ Alive
    /\ Return(<<npages>>)
    /\ UNCHANGED <<mem, npages, table, segs>>

Grow(n) ==
    /\ Alive /\ npages + n <= limit
    /\ Return(<<npages>>)
    /\ npages' = npages + n
    /\ mem' = [a \in 0 .. (npages + n) * PageSize - 1 |-> IF a < Size THEN mem[a] ELSE 0]
    /\ UNCHANGED <<table, segs>>

GrowRefused(n) ==
    /\ Alive /\ npages + n > limit
    /\ Return(<<PageSize * PageLimit - 1>>)
    /\ UNCHANGED <<mem, npages, table, segs>>

OutOfBounds(a, n) ==
    /\ Alive /\ ~ Within(a, n, Size)
    /\ TrapWith(<<6, a, n>>)

OutOfSegment(k, s, n) ==
    /\ Alive /\ ~ Within(s, n, Len(segs[k]))
    /\ TrapWith(<<6, s, n, k>>)

-----------------------------------------------------------------------------
(* Indirect calls; t is the type that the call site was compiled for. *)

Call(x, t) ==
    /\ Alive /\ x \in DOMAIN table
    /\ table[x] # 0 /\ SigOf(mod, table[x]) = mod.types[t]
    /\ Return(<<table[x]>>)
    /\ UNCHANGED <<mem, npages, table, segs>>

CallFails(x, t) ==
    /\ Alive
    /\ \/ x \notin DOMAIN table
          /\ TrapWith(<<7, x>>)
       \/ x \in DOMAIN table /\ table[x] = 0
          /\ TrapWith(<<8, x>>)
       \/ x \in DOMAIN table /\ table[x] # 0 /\ SigOf(mod, table[x]) # mod.types[t]
          /\ TrapWith(<<9, x, t>>)

(* unreachable, and the traps of integer division and of conversions *)
Arithmetic(t) == Alive /\ TrapWith(<<t>>)

-----------------------------------------------------------------------------
Next ==
    \/ Instantiate \/ AllocationFails \/ DataDoesNotFit \/ ElementsDoNotFit
    \/ \E a \in Address, n \in Address :
         OutOfBounds(a, n) \/ \E k \in DOMAIN mod.data : OutOfSegment(k, a, n)
    \/ \E a \in 0 .. Size, n \in 0 .. Size :
         \/ Load(a, n)
         \/ \E s \in [1 .. n -> Bytes] : Store(a, s) \/ HostStores(a, s)
         \/ \E s \in 0 .. Size : Copy(a, s, n)
         \/ \E k \in DOMAIN mod.data : \E s \in 0 .. Len(segs[k]) : CopyFromSegment(a, k, s, n)
    \/ \E n \in Address : HostReturns(n)
    \/ \E k \in DOMAIN mod.data : DropSegment(k)
    \/ MemorySize
    \/ \E n \in Address : Grow(n) \/ GrowRefused(n)
    \/ \E x \in Address, t \in DOMAIN mod.types : Call(x, t) \/ CallFails(x, t)
    \/ \E t \in 1 .. 4 : Arithmetic(t)

Spec == Init /\ [][Next]_vars
=============================================================================
