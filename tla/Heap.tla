--------------------------------- MODULE Heap ---------------------------------
(***************************************************************************)
(* The allocator of the guests, libc/libc.c: a bump pointer over linear    *)
(* memory that grows with memory.grow, a header of Align bytes in front of *)
(* every block with the block's rounded size, and a free that does         *)
(* nothing.                                                                *)
(*                                                                         *)
(* The program around it is any program that keeps to its own blocks:      *)
(* "held" remembers what each block's owner asked for and last wrote.      *)
(* A cell of memory holds a byte or, in a header, a size_t.                *)
(***************************************************************************)
EXTENDS Integers, FiniteSets

CONSTANTS
    Word,        \* 2^32: size_t is taken modulo Word
    Align,       \* 16
    PageSize,    \* 65536
    HeapBase,    \* __heap_base
    HeapPages,    \* pages the host lets the memory have
    Requests,    \* sizes the program asks for
    MaxHeld      \* bound on the blocks the program holds

HeapAssumption ==
    /\ Align \in Nat \ {0} /\ PageSize \in Nat \ {0} /\ HeapPages \in Nat \ {0}
    /\ Word \in Nat /\ Word % Align = 0 /\ Word % PageSize = 0
    /\ HeapPages * PageSize <= Word
    /\ HeapBase \in 1 .. PageSize
    /\ Requests \subseteq 0 .. Word - 1 /\ MaxHeld \in Nat

(***************************************************************************)
(* No request, and no product that calloc lets through, comes within two   *)
(* headers of Word, nor does the base of the heap.  The code does not test *)
(* for it, and is wrong without it.                                        *)
(***************************************************************************)
SmallEnough(n) == n + 2 * Align <= Word

RequestsFit ==
    /\ SmallEnough(HeapBase)
    /\ \A n \in Requests : SmallEnough(n)
    /\ \A n, m \in Requests : n * m < Word => SmallEnough(n * m)

VARIABLES
    heap_top,   \* 0 until the first malloc
    pages,      \* memory.size
    mem,        \* the cells of linear memory
    held        \* ghost: pointer |-> what its owner may rely on

heapVars == <<heap_top, pages, mem, held>>

Values == {1, 2}
Unknown == -1
NULL == 0

Rounded(n) == (((n + Align - 1) % Word) \div Align) * Align
HeapCells(p) == 0 .. p * PageSize - 1

HeapInit ==
    /\ heap_top = 0 /\ pages = 1
    /\ mem = [a \in HeapCells(1) |-> 0]
    /\ held = <<>>

-----------------------------------------------------------------------------
(* malloc, as a function: the state it leaves and the pointer it returns.   *)

Top == IF heap_top = 0 THEN Rounded(HeapBase) ELSE heap_top

BlockEnd(n) == (Top + Align + Rounded(n)) % Word

Need(n) ==
    LET end == (pages * PageSize) % Word
    IN  IF BlockEnd(n) > end THEN ((BlockEnd(n) - end + PageSize - 1) % Word) \div PageSize
        ELSE 0

Fails(n) == BlockEnd(n) < Top \/ pages + Need(n) > HeapPages

Allocated == Top + Align

(* memory once malloc(n) has grown it and written the header *)
Grown(n) ==
    [a \in HeapCells(pages + Need(n)) |->
        IF a = Top THEN Rounded(n) ELSE IF a \in DOMAIN mem THEN mem[a] ELSE 0]

(* malloc fails: only the first one leaves a trace, the value of heap_top   *)
NoBlock ==
    /\ heap_top' = Top
    /\ UNCHANGED <<pages, mem, held>>

Block(n, contents, owned) ==
    /\ ~ Fails(n)
    /\ heap_top' = BlockEnd(n)
    /\ pages' = pages + Need(n)
    /\ mem' = contents
    /\ held' = owned

Hold(p, expected) ==
    [q \in DOMAIN held \cup {p} |-> IF q = p THEN expected ELSE held[q]]
Release(p) == [q \in DOMAIN held \ {p} |-> held[q]]

Filled(f, at, s) == [a \in DOMAIN f |-> IF a - at \in DOMAIN s THEN s[a - at] ELSE f[a]]
AllOf(n, v) == [i \in 0 .. n - 1 |-> v]

-----------------------------------------------------------------------------
malloc(n) ==
    /\ Cardinality(DOMAIN held) < MaxHeld
    /\ \/ Fails(n) /\ NoBlock
       \/ Block(n, Grown(n), Hold(Allocated, AllOf(n, Unknown)))

ProductWraps(n, m) == IF m = 0 THEN FALSE ELSE n > (Word - 1) \div m

calloc(n, m) ==
    /\ Cardinality(DOMAIN held) < MaxHeld
    /\ \/ ProductWraps(n, m) /\ UNCHANGED heapVars
       \/ /\ ~ ProductWraps(n, m)
          /\ \/ Fails(n * m) /\ NoBlock
             \/ Block(n * m, Filled(Grown(n * m), Allocated, AllOf(n * m, 0)),
                      Hold(Allocated, AllOf(n * m, 0)))

Header(p) == mem[p - Align]

(* what the owner may rely on once p is a block of n bytes *)
Kept(p, n) ==
    [i \in 0 .. n - 1 |-> IF i \in DOMAIN held[p] THEN held[p][i] ELSE Unknown]

(* mutant: the block's size is taken to include its header *)
CopiedLess(p) == [i \in 0 .. Header(p) - Align - 1 |-> mem[p + i]]

Copied(p) == [i \in 0 .. Header(p) - 1 |-> mem[p + i]]

(* realloc of a block; realloc(NULL, n) is malloc(n) *)
realloc(p, n) ==
    /\ p \in DOMAIN held
    /\ \/ /\ n <= Header(p)
          /\ held' = Hold(p, Kept(p, n))
          /\ UNCHANGED <<heap_top, pages, mem>>
       \/ /\ n > Header(p)
          /\ \/ Fails(n) /\ NoBlock
             \/ LET q == Allocated
                IN  Block(n, Filled(Grown(n), q, Copied(p)),
                          [r \in DOMAIN Release(p) \cup {q} |->
                              IF r = q THEN Kept(p, n) ELSE held[r]])

free(p) ==
    /\ p \in DOMAIN held
    /\ held' = Release(p)
    /\ UNCHANGED <<heap_top, pages, mem>>

(* the program fills a block it holds *)
Fill(p, v) ==
    /\ p \in DOMAIN held
    /\ held' = Hold(p, [i \in DOMAIN held[p] |-> v])
    /\ mem' = Filled(mem, p, held'[p])
    /\ UNCHANGED <<heap_top, pages>>

HeapNext ==
    \/ \E n \in Requests : malloc(n)
    \/ \E n \in Requests, m \in Requests : calloc(n, m)
    \/ \E p \in DOMAIN held, n \in Requests : realloc(p, n)
    \/ \E p \in DOMAIN held : free(p)
    \/ \E p \in DOMAIN held, v \in Values : Fill(p, v)

HeapSpec == HeapInit /\ [][HeapNext]_heapVars

-----------------------------------------------------------------------------
(* Properties. *)

BlockCells(p) == {p + i : i \in DOMAIN held[p]}

(***************************************************************************)
(* Two blocks that are held never share a cell, and every cell of a block  *)
(* is below the end of memory, so neither an owner's write nor its header  *)
(* traps or hits another block.                                            *)
(***************************************************************************)
BlocksDisjoint ==
    \A p \in DOMAIN held :
        /\ p % Align = 0 /\ p >= HeapBase + Align
        /\ BlockCells(p) \subseteq DOMAIN mem
        /\ \A q \in DOMAIN held \ {p} :
              (BlockCells(p) \cup {p - Align}) \cap (BlockCells(q) \cup {q - Align}) = {}

(***************************************************************************)
(* A block holds what its owner last wrote, across every later malloc,     *)
(* calloc and realloc: zero after calloc, the old bytes after realloc.     *)
(***************************************************************************)
ContentsKept ==
    \A p \in DOMAIN held : \A i \in DOMAIN held[p] :
        held[p][i] # Unknown => mem[p + i] = held[p][i]

(***************************************************************************)
(* libc.c: "A 16-byte header stores the block size so realloc can copy     *)
(* exactly": the size in the header is at least what was asked for.        *)
(***************************************************************************)
HeaderCoversRequest ==
    \A p \in DOMAIN held : \A i \in DOMAIN held[p] : i < Header(p)

(***************************************************************************)
(* What a program may rely on of malloc, calloc, realloc and free.         *)
(***************************************************************************)
HeapKept == BlocksDisjoint /\ ContentsKept /\ HeaderCoversRequest
=============================================================================
