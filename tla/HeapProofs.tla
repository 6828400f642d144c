------------------------------ MODULE HeapProofs ------------------------------
(***************************************************************************)
(* The allocator keeps blocks apart, inside memory and with their          *)
(* contents, for every size of a word, of a page and of the alignment, and *)
(* for every program, as long as no request wraps when it is rounded up.   *)
(***************************************************************************)
EXTENDS Heap, TLAPS

-----------------------------------------------------------------------------
(* Arithmetic. *)

(***************************************************************************)
(* Division rounds down (the shifts and masks of malloc).                  *)
(***************************************************************************)
LEMMA Division ==
    ASSUME NEW a \in Nat, NEW d \in Nat \ {0}
    PROVE  /\ a \div d \in Nat
           /\ (a \div d) * d <= a
           /\ a < (a \div d) * d + d
  BY SMT

(***************************************************************************)
(* A multiple leaves no rest, and neither does a sum of two multiples.     *)
(***************************************************************************)
LEMMA Multiple ==
    ASSUME NEW k \in Nat, NEW d \in Nat \ {0}
    PROVE  (k * d) % d = 0
  BY SMT

LEMMA SumOfMultiples ==
    ASSUME NEW a \in Nat, NEW b \in Nat, NEW d \in Nat \ {0}, a % d = 0, b % d = 0
    PROVE  (a + b) % d = 0
<1>1. a = (a \div d) * d /\ b = (b \div d) * d /\ a \div d \in Nat /\ b \div d \in Nat
  BY SMT
<1>2. a + b = (a \div d + b \div d) * d
  BY <1>1, SMT
<1>3. a \div d + b \div d \in Nat
  BY <1>1
<1> QED
  BY <1>2, <1>3, Multiple

LEMMA Small ==
    ASSUME NEW a \in Nat, NEW d \in Nat \ {0}, a < d
    PROVE  a % d = a
  BY SMT

(***************************************************************************)
(* malloc's (n + 15) & ~15 for a request that does not wrap.               *)
(***************************************************************************)
LEMMA RoundedUp ==
    ASSUME HeapAssumption, NEW n \in Nat, SmallEnough(n)
    PROVE  /\ Rounded(n) \in Nat
           /\ n <= Rounded(n)
           /\ Rounded(n) + Align < Word
           /\ Rounded(n) % Align = 0
<1> DEFINE k == (n + Align - 1) \div Align
<1>1. n + Align - 1 \in Nat /\ n + Align - 1 < Word /\ Word \in Nat \ {0} /\ Align \in Nat \ {0}
  BY DEF HeapAssumption, SmallEnough
<1>2. Rounded(n) = k * Align
  BY <1>1, Small DEF Rounded
<1>3. k \in Nat /\ k * Align <= n + Align - 1 /\ n + Align - 1 < k * Align + Align
  BY <1>1, Division
<1> HIDE DEF k
<1>4. k * Align \in Nat /\ (k * Align) % Align = 0
  <2>1. k \in Nat /\ Align \in Nat \ {0}
    BY <1>1, <1>3
  <2> QED
    BY <2>1, Multiple
<1> QED
  BY <1>1, <1>2, <1>3, <1>4 DEF HeapAssumption, SmallEnough

-----------------------------------------------------------------------------
(* The inductive invariant. *)

Placed(p) ==
    /\ p \in Nat /\ p % Align = 0 /\ HeapBase + Align <= p
    /\ Header(p) \in Nat
    /\ p + Header(p) <= heap_top
    /\ p + Header(p) <= pages * PageSize
    /\ \A i \in DOMAIN held[p] : i \in Nat /\ i < Header(p)

Apart(p, q) == p + Header(p) <= q - Align \/ q + Header(q) <= p - Align

HeapTop ==
    /\ heap_top \in Nat /\ heap_top % Align = 0 /\ heap_top < Word
    /\ heap_top # 0 => HeapBase <= heap_top
    /\ heap_top = 0 => DOMAIN held = {}

MemoryOK == pages \in 1 .. HeapPages /\ DOMAIN mem = HeapCells(pages)

(***************************************************************************)
(* Blocks lie between the base and heap_top and in memory, each with its   *)
(* header before it, and no two of them touch.  Without the headers'       *)
(* values and heap_top the properties are not inductive.                   *)
(***************************************************************************)
HeapInv ==
    /\ HeapTop
    /\ MemoryOK
    /\ \A p \in DOMAIN held : Placed(p)
    /\ \A p, q \in DOMAIN held : p # q => Apart(p, q)
    /\ ContentsKept

(***************************************************************************)
(* Where malloc puts a block when it does not fail.                        *)
(***************************************************************************)
LEMMA TopIsAligned ==
    ASSUME HeapAssumption, RequestsFit, HeapTop
    PROVE  Top \in Nat /\ Top % Align = 0 /\ Top < Word /\ HeapBase <= Top /\ heap_top <= Top
<1>1. HeapBase \in Nat /\ SmallEnough(HeapBase) /\ Align \in Nat
  BY DEF HeapAssumption, RequestsFit
<1>2. /\ Rounded(HeapBase) \in Nat
      /\ HeapBase <= Rounded(HeapBase)
      /\ Rounded(HeapBase) + Align < Word
      /\ Rounded(HeapBase) % Align = 0
  BY <1>1, RoundedUp
<1>3. Word \in Nat
  BY DEF HeapAssumption
<1>4. CASE heap_top = 0
  BY <1>1, <1>2, <1>3, <1>4 DEF Top, HeapTop
<1>5. CASE heap_top # 0
  BY <1>1, <1>3, <1>5 DEF Top, HeapTop
<1> QED
  BY <1>4, <1>5

LEMMA NewBlock ==
    ASSUME HeapAssumption, RequestsFit, HeapTop, MemoryOK,
           NEW n \in Nat, SmallEnough(n), ~ Fails(n)
    PROVE  /\ BlockEnd(n) = Top + Align + Rounded(n)
           /\ BlockEnd(n) < Word
           /\ Need(n) \in Nat /\ pages + Need(n) \in 1 .. HeapPages
           /\ BlockEnd(n) <= (pages + Need(n)) * PageSize
<1>1. /\ Top \in Nat /\ Top < Word /\ HeapBase <= Top
      /\ Rounded(n) \in Nat /\ Rounded(n) + Align < Word
  BY TopIsAligned, RoundedUp
<1>2. /\ Align \in Nat \ {0} /\ Word \in Nat \ {0} /\ PageSize \in Nat \ {0}
      /\ HeapPages \in Nat /\ pages \in 1 .. HeapPages /\ HeapPages * PageSize <= Word
      /\ HeapBase >= 1
  BY DEF HeapAssumption, MemoryOK
<1> DEFINE sum == Top + Align + Rounded(n)
           end == pages * PageSize
<1>3. sum \in Nat /\ sum < 2 * Word
  BY <1>1, <1>2
<1>4. sum < Word
  <2> SUFFICES ASSUME Word <= sum PROVE FALSE
    BY <1>2, <1>3
  <2>1. sum % Word = sum - Word
    BY <1>2, <1>3, SMT
  <2>2. BlockEnd(n) < Top
    BY <2>1, <1>1, <1>2 DEF BlockEnd
  <2> QED
    BY <2>2 DEF Fails
<1>5. BlockEnd(n) = sum
  BY <1>2, <1>3, <1>4, Small DEF BlockEnd
<1>6. end \in Nat /\ PageSize <= end /\ end <= Word
  <2>1. pages \in Nat /\ 1 <= pages /\ pages <= HeapPages
    BY <1>2
  <2>2. end \in Nat /\ 1 * PageSize <= end /\ end <= HeapPages * PageSize
    BY <2>1, <1>2, SMT
  <2> QED
    BY <2>2, <1>2
<1>7. /\ Need(n) \in Nat
      /\ BlockEnd(n) <= end + Need(n) * PageSize
  <2>1. CASE end = Word
    <3>1. end % Word = 0
      BY <1>2, <2>1, SMT
    <3> DEFINE a == (sum + PageSize - 1) % Word
    <3>2. a \in Nat
      BY <1>2, <1>3, SMT
    <3>3. Need(n) = a \div PageSize
      BY <3>1, <1>5, <1>1, <1>2, <1>3 DEF Need
    <3> HIDE DEF a
    <3>4. Need(n) \in Nat
      BY <3>2, <3>3, <1>2, Division
    <3>5. Need(n) * PageSize \in Nat
      BY <3>4, <1>2, SMT
    <3> HIDE DEF end, sum
    <3> QED
      BY <3>4, <3>5, <1>2, <1>3, <1>4, <1>5, <2>1 DEF sum
  <2>2. CASE end < Word
    <3>1. end % Word = end
      BY <1>6, <1>2, <2>2, Small
    <3>2. CASE sum <= end
      <4>1. Need(n) = 0
        BY <3>1, <3>2, <1>3, <1>5, <1>6 DEF Need
      <4> QED
        BY <4>1, <3>2, <1>2, <1>3, <1>5, <1>6
    <3>3. CASE end < sum
      <4> DEFINE a == sum - end + PageSize - 1
      <4>1. a \in Nat /\ a < Word
        BY <1>2, <1>3, <1>4, <1>6, <3>3
      <4>2. Need(n) = a \div PageSize
        BY <4>1, <3>1, <3>3, <1>2, <1>3, <1>5, <1>6, Small DEF Need
      <4>3. Need(n) \in Nat /\ a < Need(n) * PageSize + PageSize
        BY <4>1, <4>2, <1>2, Division
      <4>4. Need(n) * PageSize \in Nat
        BY <4>3, <1>2, SMT
      <4> QED
        BY <4>3, <4>4, <1>2, <1>3, <1>5, <1>6
    <3> QED
      BY <3>2, <3>3, <1>3, <1>6
  <2> QED
    BY <2>1, <2>2, <1>2, <1>6
<1>8. pages + Need(n) <= HeapPages
  BY <1>2, <1>7 DEF Fails
<1>9. (pages + Need(n)) * PageSize = end + Need(n) * PageSize
  BY <1>2, <1>7, SMT
<1> QED
  BY <1>2, <1>4, <1>5, <1>7, <1>8, <1>9

-----------------------------------------------------------------------------
(* What malloc leaves of the blocks that were there. *)

(***************************************************************************)
(* The cells below the new block are what they were, and its header tells  *)
(* its size (memory.grow, and the store of n at cur).                       *)
(***************************************************************************)
LEMMA GrownMemory ==
    ASSUME HeapAssumption, RequestsFit, HeapTop, MemoryOK,
           NEW n \in Nat, SmallEnough(n), ~ Fails(n)
    PROVE  /\ DOMAIN Grown(n) = HeapCells(pages + Need(n))
           /\ Top \in DOMAIN Grown(n) /\ Grown(n)[Top] = Rounded(n)
           /\ \A a \in DOMAIN mem : a < Top => a \in DOMAIN Grown(n) /\ Grown(n)[a] = mem[a]
<1>1. /\ BlockEnd(n) = Top + Align + Rounded(n)
      /\ Need(n) \in Nat /\ pages + Need(n) \in 1 .. HeapPages
      /\ BlockEnd(n) <= (pages + Need(n)) * PageSize
  BY NewBlock
<1>2. Top \in Nat /\ Rounded(n) \in Nat /\ Align \in Nat \ {0} /\ PageSize \in Nat \ {0} /\ pages \in Nat
  BY TopIsAligned, RoundedUp DEF HeapAssumption, MemoryOK
<1> DEFINE end == (pages + Need(n)) * PageSize
<1>3. end \in Nat /\ pages * PageSize <= end
  BY <1>1, <1>2, SMT
<1>4. DOMAIN Grown(n) = 0 .. end - 1
  BY DEF Grown, HeapCells
<1>5. Top \in 0 .. end - 1
  BY <1>1, <1>2, <1>3
<1>6. DOMAIN mem \subseteq 0 .. end - 1
  BY <1>2, <1>3 DEF MemoryOK, HeapCells
<1>7. \A a \in DOMAIN Grown(n) :
        Grown(n)[a] = IF a = Top THEN Rounded(n) ELSE IF a \in DOMAIN mem THEN mem[a] ELSE 0
  BY DEF Grown
<1>8. Grown(n)[Top] = Rounded(n)
  BY <1>4, <1>5, <1>7
<1>9. ASSUME NEW a \in DOMAIN mem, a < Top
      PROVE  a \in DOMAIN Grown(n) /\ Grown(n)[a] = mem[a]
  <2>1. a # Top
    BY <1>2, <1>6, <1>9
  <2> QED
    BY <2>1, <1>4, <1>6, <1>7
<1> QED
  BY <1>4, <1>5, <1>8, <1>9 DEF HeapCells

(***************************************************************************)
(* A new block with "expected" in it, while the program keeps the blocks   *)
(* of "kept": malloc, calloc and realloc end like this.                    *)
(***************************************************************************)
LEMMA Laid ==
    ASSUME HeapAssumption, RequestsFit, HeapInv,
           NEW n \in Nat, SmallEnough(n), ~ Fails(n),
           NEW kept \in SUBSET DOMAIN held, NEW q, q = Allocated, NEW expected,
           \A i \in DOMAIN expected : i \in 0 .. n - 1,
           heap_top' = BlockEnd(n), pages' = pages + Need(n),
           DOMAIN mem' = HeapCells(pages + Need(n)),
           mem'[Top] = Rounded(n),
           \A a \in DOMAIN mem : a < Top => mem'[a] = mem[a],
           DOMAIN held' = kept \cup {q}, held'[q] = expected,
           \A r \in kept : r # q => held'[r] = held[r],
           \A i \in DOMAIN expected : expected[i] # Unknown => mem'[q + i] = expected[i]
    PROVE  HeapInv'
<1>1. /\ BlockEnd(n) = Top + Align + Rounded(n) /\ BlockEnd(n) < Word
      /\ Need(n) \in Nat /\ pages + Need(n) \in 1 .. HeapPages
      /\ BlockEnd(n) <= (pages + Need(n)) * PageSize
  BY NewBlock DEF HeapInv
<1>2. /\ Top \in Nat /\ Top % Align = 0 /\ HeapBase <= Top /\ heap_top <= Top
      /\ Rounded(n) \in Nat /\ n <= Rounded(n) /\ Rounded(n) % Align = 0
  BY TopIsAligned, RoundedUp DEF HeapInv
<1>3. /\ Align \in Nat \ {0} /\ HeapBase \in Nat \ {0} /\ PageSize \in Nat \ {0}
      /\ pages \in Nat /\ heap_top \in Nat
  BY DEF HeapAssumption, HeapInv, MemoryOK, HeapTop
<1> DEFINE end == (pages + Need(n)) * PageSize
<1>4. end \in Nat /\ pages * PageSize \in Nat /\ pages * PageSize <= end /\ end = pages' * PageSize
  BY <1>1, <1>3, SMT
<1> HIDE DEF end
<1>5. /\ Align % Align = 0
      /\ q % Align = 0
      /\ BlockEnd(n) % Align = 0
  <2>1. Align % Align = 0
    BY <1>3, SMT
  <2>2. (Top + Align) % Align = 0
    BY <2>1, <1>2, <1>3, SumOfMultiples
  <2>3. Top + Align \in Nat
    BY <1>2, <1>3
  <2>4. (Top + Align + Rounded(n)) % Align = 0
    BY <2>2, <2>3, <1>2, <1>3, SumOfMultiples
  <2> QED
    BY <2>1, <2>2, <2>4, <1>1 DEF Allocated
<1>6. HeapTop'
  BY <1>1, <1>2, <1>3, <1>5 DEF HeapTop
<1>7. MemoryOK'
  BY <1>1 DEF MemoryOK, HeapCells
<1>8. DOMAIN held' = kept \cup {q} /\ q = Top + Align /\ held'[q] = expected
  BY DEF Allocated
\* A block that stays is untouched, header and all.
<1>9. ASSUME NEW p \in kept
      PROVE  /\ Placed(p) /\ Placed(p)'
             /\ p # q /\ held'[p] = held[p] /\ Header(p)' = Header(p)
             /\ p + Header(p) <= Top
             /\ \A i \in DOMAIN held[p] : p + i \in DOMAIN mem /\ mem'[p + i] = mem[p + i]
  <2>1. Placed(p)
    BY <1>9 DEF HeapInv
  <2>2. /\ p \in Nat /\ Header(p) \in Nat /\ HeapBase + Align <= p
        /\ p + Header(p) <= Top /\ p + Header(p) <= pages * PageSize
    BY <2>1, <1>2, <1>3 DEF Placed
  <2>3. p # q
    BY <2>2, <1>2, <1>3, <1>8
  <2>4. held'[p] = held[p]
    BY <2>3, <1>8, <1>9
  <2>5. \A a \in Nat : a < p + Header(p) => a \in DOMAIN mem
    BY <2>2, <1>3, <1>4 DEF HeapInv, MemoryOK, HeapCells
  <2>6. p - Align \in Nat /\ p - Align < p + Header(p) /\ p - Align < Top
    BY <2>2, <1>2, <1>3
  <2>7. mem'[p - Align] = mem[p - Align]
    BY <2>5, <2>6
  <2>8. Header(p)' = Header(p)
    BY <2>7 DEF Header
  <2>9. ASSUME NEW i \in DOMAIN held[p]
        PROVE  p + i \in DOMAIN mem /\ mem'[p + i] = mem[p + i]
    <3>1. i \in Nat /\ i < Header(p)
      BY <2>1 DEF Placed
    <3>2. p + i \in Nat /\ p + i < p + Header(p) /\ p + i < Top
      BY <3>1, <2>2, <1>2
    <3> QED
      BY <3>2, <2>5
  <2>10. Placed(p)'
    <3>1. p + Header(p) <= heap_top' /\ p + Header(p) <= pages' * PageSize
      BY <2>2, <1>1, <1>2, <1>3, <1>4
    <3> QED
      BY <3>1, <2>1, <2>2, <2>4, <2>8 DEF Placed
  <2> QED
    BY <2>1, <2>2, <2>3, <2>4, <2>8, <2>9, <2>10
<1>10. Header(q)' = Rounded(n)
  <2>1. q - Align = Top
    BY <1>2, <1>3, <1>8
  <2> QED
    BY <2>1 DEF Header
<1>11. Placed(q)'
  <2>1. /\ q \in Nat /\ HeapBase + Align <= q
        /\ q + Rounded(n) <= heap_top' /\ q + Rounded(n) <= pages' * PageSize
    BY <1>1, <1>2, <1>3, <1>4, <1>8 DEF end
  <2>2. \A i \in DOMAIN expected : i \in Nat /\ i < Rounded(n)
    BY <1>2
  <2> QED
    BY <2>1, <2>2, <1>2, <1>5, <1>8, <1>10 DEF Placed
<1>12. \A p \in DOMAIN held' : Placed(p)'
  BY <1>8, <1>9, <1>11
<1>13. ASSUME NEW p \in DOMAIN held', NEW r \in DOMAIN held', p # r
       PROVE  Apart(p, r)'
  <2>1. CASE p \in kept /\ r \in kept
    <3>1. Apart(p, r)
      BY <2>1, <1>13 DEF HeapInv
    <3> QED
      BY <3>1, <2>1, <1>9 DEF Apart
  <2>2. CASE p = q /\ r \in kept
    BY <2>2, <1>2, <1>3, <1>8, <1>9, <1>10 DEF Apart, Placed
  <2>3. CASE r = q /\ p \in kept
    BY <2>3, <1>2, <1>3, <1>8, <1>9, <1>10 DEF Apart, Placed
  <2> QED
    BY <2>1, <2>2, <2>3, <1>8, <1>13
<1>14. ContentsKept'
  <2> SUFFICES ASSUME NEW p \in DOMAIN held', NEW i \in DOMAIN held'[p], held'[p][i] # Unknown
               PROVE  mem'[p + i] = held'[p][i]
    BY DEF ContentsKept
  <2>1. CASE p = q
    BY <2>1, <1>8
  <2>2. CASE p \in kept
    <3>1. held'[p] = held[p] /\ mem'[p + i] = mem[p + i]
      BY <2>2, <1>9
    <3> QED
      BY <3>1, <2>2 DEF HeapInv, ContentsKept
  <2> QED
    BY <2>1, <2>2, <1>8
<1> QED
  BY <1>6, <1>7, <1>12, <1>13, <1>14 DEF HeapInv

(***************************************************************************)
(* A step that gives no block keeps the invariant if it leaves the headers *)
(* of the blocks alone, and what owners may rely on stays within a block   *)
(* and in memory.                                                          *)
(***************************************************************************)
LEMMA NothingLaid ==
    ASSUME HeapAssumption, HeapInv, HeapTop', heap_top \in Nat, heap_top <= heap_top',
           pages' = pages, DOMAIN mem' = DOMAIN mem,
           DOMAIN held' \subseteq DOMAIN held,
           \A p \in DOMAIN held' :
              /\ mem'[p - Align] = Header(p)
              /\ \A i \in DOMAIN held'[p] :
                    /\ i \in Nat /\ i < Header(p)
                    /\ held'[p][i] # Unknown => mem'[p + i] = held'[p][i]
    PROVE  HeapInv'
<1>1. MemoryOK'
  BY DEF HeapInv, MemoryOK
<1>2. ASSUME NEW p \in DOMAIN held'
      PROVE  Placed(p)' /\ Header(p)' = Header(p)
  <2>1. Placed(p) /\ Header(p)' = Header(p)
    BY <1>2 DEF HeapInv, Header
  <2>2. p \in Nat /\ Header(p) \in Nat /\ p + Header(p) <= heap_top
    BY <2>1 DEF Placed
  <2>3. p + Header(p) <= heap_top'
    BY <2>2 DEF HeapTop
  <2> QED
    BY <2>1, <2>3, <1>2 DEF Placed
<1>3. ASSUME NEW p \in DOMAIN held', NEW r \in DOMAIN held', p # r
      PROVE  Apart(p, r)'
  <2>1. Apart(p, r)
    BY <1>3 DEF HeapInv
  <2> QED
    BY <2>1, <1>2, <1>3 DEF Apart
<1>4. ContentsKept'
  BY DEF ContentsKept
<1> QED
  BY <1>1, <1>2, <1>3, <1>4 DEF HeapInv

(***************************************************************************)
(* A new block of n bytes whose first cells s fills: nothing at or below   *)
(* its header changes (calloc, and the copy loop of realloc).              *)
(***************************************************************************)
LEMMA FilledBlock ==
    ASSUME HeapAssumption, RequestsFit, HeapTop, MemoryOK,
           NEW n \in Nat, SmallEnough(n), ~ Fails(n),
           NEW s, NEW k \in Nat, k <= n, DOMAIN s = 0 .. k - 1
    PROVE  LET new == Filled(Grown(n), Allocated, s)
           IN  /\ DOMAIN new = HeapCells(pages + Need(n))
               /\ new[Top] = Rounded(n)
               /\ \A a \in DOMAIN mem : a < Top => new[a] = mem[a]
               /\ \A i \in 0 .. k - 1 : new[Allocated + i] = s[i]
<1> DEFINE new == Filled(Grown(n), Allocated, s)
<1>1. /\ DOMAIN Grown(n) = HeapCells(pages + Need(n))
      /\ Top \in DOMAIN Grown(n) /\ Grown(n)[Top] = Rounded(n)
      /\ \A a \in DOMAIN mem : a < Top => a \in DOMAIN Grown(n) /\ Grown(n)[a] = mem[a]
  BY GrownMemory
<1>2. /\ Top \in Nat /\ Rounded(n) \in Nat /\ n <= Rounded(n) /\ Align \in Nat \ {0}
      /\ PageSize \in Nat /\ pages \in Nat
  BY TopIsAligned, RoundedUp DEF HeapAssumption, MemoryOK
<1>3. /\ Need(n) \in Nat
      /\ Top + Align + Rounded(n) <= (pages + Need(n)) * PageSize
  BY NewBlock
<1> DEFINE end == (pages + Need(n)) * PageSize
<1>4. end \in Nat /\ Top + Align + Rounded(n) <= end /\ HeapCells(pages + Need(n)) = 0 .. end - 1
  BY <1>2, <1>3, SMT DEF HeapCells
<1> HIDE DEF end
<1>5. /\ DOMAIN new = DOMAIN Grown(n)
      /\ \A a \in DOMAIN Grown(n) :
            new[a] = IF a - Allocated \in DOMAIN s THEN s[a - Allocated] ELSE Grown(n)[a]
  BY DEF Filled
<1>6. Allocated = Top + Align
  BY DEF Allocated
<1> HIDE DEF new
<1>7. new[Top] = Rounded(n)
  <2>1. Top - Allocated \notin 0 .. k - 1
    BY <1>2, <1>6
  <2> QED
    BY <2>1, <1>1, <1>5
<1>8. ASSUME NEW a \in DOMAIN mem, a < Top
      PROVE  new[a] = mem[a]
  <2>1. a \in DOMAIN Grown(n) /\ Grown(n)[a] = mem[a]
    BY <1>1, <1>8
  <2>2. a \in 0 .. end - 1
    BY <2>1, <1>1, <1>4
  <2>3. a - Allocated \notin 0 .. k - 1
    BY <2>2, <1>2, <1>4, <1>6, <1>8
  <2> QED
    BY <2>1, <2>3, <1>5
<1>9. ASSUME NEW i \in 0 .. k - 1
      PROVE  new[Allocated + i] = s[i]
  <2>1. (Allocated + i) - Allocated = i /\ Allocated + i \in 0 .. end - 1
    BY <1>2, <1>4, <1>6, <1>9
  <2> QED
    BY <2>1, <1>1, <1>4, <1>5
<1> QED
  BY <1>1, <1>5, <1>7, <1>8, <1>9 DEF new

-----------------------------------------------------------------------------
(* One lemma per operation. *)

LEMMA InitHolds ==
    ASSUME HeapAssumption, HeapInit
    PROVE  HeapInv
<1>1. held = <<>> /\ DOMAIN held = {} /\ heap_top = 0 /\ pages = 1 /\ DOMAIN mem = HeapCells(1)
  BY DEF HeapInit
<1>2. Align \in Nat \ {0} /\ Word \in Nat \ {0} /\ HeapPages \in Nat \ {0}
  BY DEF HeapAssumption
<1>3. 0 % Align = 0
  BY <1>2, Small
<1>4. HeapTop
  BY <1>1, <1>2, <1>3 DEF HeapTop
<1>5. MemoryOK
  BY <1>1, <1>2 DEF MemoryOK
<1> QED
  BY <1>1, <1>4, <1>5 DEF HeapInv, ContentsKept

LEMMA NoBlockKeeps ==
    ASSUME HeapAssumption, RequestsFit, HeapInv, NoBlock
    PROVE  HeapInv'
<1>1. /\ Top \in Nat /\ Top % Align = 0 /\ Top < Word /\ HeapBase <= Top /\ heap_top <= Top
      /\ HeapBase \in Nat \ {0} /\ heap_top \in Nat
  BY TopIsAligned DEF HeapInv, HeapTop, HeapAssumption
<1>2. HeapTop'
  BY <1>1 DEF HeapTop, NoBlock
<1>3. ASSUME NEW p \in DOMAIN held, NEW i \in DOMAIN held[p]
      PROVE  i \in Nat /\ i < Header(p) /\ (held[p][i] # Unknown => mem[p + i] = held[p][i])
  BY <1>3 DEF HeapInv, Placed, ContentsKept
<1> QED
  BY <1>1, <1>2, <1>3, NothingLaid DEF NoBlock, Header

LEMMA MallocKeeps ==
    ASSUME HeapAssumption, RequestsFit, HeapInv, NEW n \in Requests, malloc(n)
    PROVE  HeapInv'
<1>1. n \in Nat /\ SmallEnough(n)
  BY DEF HeapAssumption, RequestsFit
<1>2. CASE Fails(n) /\ NoBlock
  BY <1>2, NoBlockKeeps
<1>3. CASE Block(n, Grown(n), Hold(Allocated, AllOf(n, Unknown)))
  <2>1. PICK q : q = Allocated
    OBVIOUS
  <2>2. PICK kept \in SUBSET DOMAIN held : kept = DOMAIN held
    OBVIOUS
  <2> DEFINE expected == AllOf(n, Unknown)
  <2>3. DOMAIN expected = 0 .. n - 1 /\ \A i \in DOMAIN expected : expected[i] = Unknown
    BY DEF AllOf
  <2>4. /\ DOMAIN held' = kept \cup {q} /\ held'[q] = expected
        /\ \A r \in kept : r # q => held'[r] = held[r]
    BY <1>3, <2>1, <2>2 DEF Block, Hold
  <2>5. ~ Fails(n) /\ heap_top' = BlockEnd(n) /\ pages' = pages + Need(n) /\ mem' = Grown(n)
    BY <1>3 DEF Block
  <2>6. /\ DOMAIN mem' = HeapCells(pages + Need(n)) /\ mem'[Top] = Rounded(n)
        /\ \A a \in DOMAIN mem : a < Top => mem'[a] = mem[a]
    BY <1>1, <2>5, GrownMemory DEF HeapInv
  <2> HIDE DEF expected
  <2>7. /\ \A i \in DOMAIN expected : i \in 0 .. n - 1
        /\ \A i \in DOMAIN expected : expected[i] # Unknown => mem'[q + i] = expected[i]
    BY <2>3
  <2> QED
    BY <1>1, <2>1, <2>4, <2>5, <2>6, <2>7, Laid
<1> QED
  BY <1>2, <1>3 DEF malloc

(***************************************************************************)
(* calloc's test lets no product through that wraps.                       *)
(***************************************************************************)
LEMMA ProductFits ==
    ASSUME HeapAssumption, NEW n \in Nat, NEW m \in Nat, ~ ProductWraps(n, m)
    PROVE  n * m \in Nat /\ n * m < Word
<1>1. Word \in Nat /\ Word - 1 \in Nat
  BY DEF HeapAssumption
<1>2. CASE m = 0
  BY <1>1, <1>2, SMT
<1>3. CASE m # 0
  <2>1. m \in Nat \ {0} /\ n <= (Word - 1) \div m
    BY <1>1, <1>3 DEF ProductWraps
  <2> DEFINE k == (Word - 1) \div m
  <2>2. k \in Nat /\ k * m <= Word - 1
    BY <1>1, <2>1, Division
  <2> HIDE DEF k
  <2>3. n * m \in Nat /\ n * m <= k * m
    BY <2>1, <2>2, SMT DEF k
  <2> QED
    BY <1>1, <2>2, <2>3, SMT
<1> QED
  BY <1>2, <1>3

LEMMA CallocKeeps ==
    ASSUME HeapAssumption, RequestsFit, HeapInv, NEW n \in Requests, NEW m \in Requests, calloc(n, m)
    PROVE  HeapInv'
<1>1. CASE ProductWraps(n, m) /\ UNCHANGED heapVars
  <2>1. HeapInv
    OBVIOUS
  <2> QED
    BY <1>1, <2>1 DEF heapVars, HeapInv, HeapTop, MemoryOK, Placed, Apart, Header, ContentsKept
<1>2. CASE ~ ProductWraps(n, m) /\ Fails(n * m) /\ NoBlock
  BY <1>2, NoBlockKeeps
<1>3. CASE /\ ~ ProductWraps(n, m)
           /\ Block(n * m, Filled(Grown(n * m), Allocated, AllOf(n * m, 0)), Hold(Allocated, AllOf(n * m, 0)))
  <2>1. n \in Nat /\ m \in Nat
    BY DEF HeapAssumption
  <2>2. PICK k \in Nat : k = n * m /\ SmallEnough(k)
    BY <1>3, <2>1, ProductFits DEF RequestsFit
  <2>3. PICK q : q = Allocated
    OBVIOUS
  <2>4. PICK kept \in SUBSET DOMAIN held : kept = DOMAIN held
    OBVIOUS
  <2> DEFINE expected == AllOf(k, 0)
  <2>5. DOMAIN expected = 0 .. k - 1 /\ \A i \in DOMAIN expected : expected[i] = 0
    BY DEF AllOf
  <2>6. /\ DOMAIN held' = kept \cup {q} /\ held'[q] = expected
        /\ \A r \in kept : r # q => held'[r] = held[r]
    BY <1>3, <2>2, <2>3, <2>4 DEF Block, Hold
  <2>7. ~ Fails(k) /\ heap_top' = BlockEnd(k) /\ pages' = pages + Need(k)
    BY <1>3, <2>2 DEF Block
  <2>8. mem' = Filled(Grown(k), Allocated, expected)
    BY <1>3, <2>2 DEF Block
  <2> HIDE DEF expected
  <2>9. HeapTop /\ MemoryOK
    BY DEF HeapInv
  <2>10. k <= k
    OBVIOUS
  <2>11. /\ DOMAIN mem' = HeapCells(pages + Need(k)) /\ mem'[Top] = Rounded(k)
         /\ \A a \in DOMAIN mem : a < Top => mem'[a] = mem[a]
         /\ \A i \in 0 .. k - 1 : mem'[q + i] = expected[i]
    BY <2>2, <2>3, <2>5, <2>7, <2>9, <2>10, <2>8, FilledBlock
  <2>12. /\ \A i \in DOMAIN expected : i \in 0 .. k - 1
         /\ \A i \in DOMAIN expected : expected[i] # Unknown => mem'[q + i] = expected[i]
    BY <2>5, <2>11
  <2>13. /\ DOMAIN mem' = HeapCells(pages + Need(k)) /\ mem'[Top] = Rounded(k)
         /\ \A a \in DOMAIN mem : a < Top => mem'[a] = mem[a]
    BY <2>11
  <2> QED
    BY <2>2, <2>3, <2>6, <2>7, <2>12, <2>13, Laid
<1> QED
  BY <1>1, <1>2, <1>3 DEF calloc

(***************************************************************************)
(* A block that shrinks or grows within its rounded size stays in place.   *)
(***************************************************************************)
LEMMA InPlaceKeeps ==
    ASSUME HeapAssumption, HeapInv, NEW p \in DOMAIN held, NEW n \in Nat,
           n <= Header(p), held' = Hold(p, Kept(p, n)), UNCHANGED <<heap_top, pages, mem>>
    PROVE  HeapInv'
<1>1. HeapTop' /\ heap_top \in Nat /\ heap_top <= heap_top'
  BY DEF HeapInv, HeapTop, Hold
<1>2. /\ DOMAIN held' = DOMAIN held
      /\ DOMAIN held'[p] = 0 .. n - 1
      /\ \A i \in 0 .. n - 1 : held'[p][i] = IF i \in DOMAIN held[p] THEN held[p][i] ELSE Unknown
      /\ \A r \in DOMAIN held : r # p => held'[r] = held[r]
  BY DEF Hold, Kept
<1>3. ASSUME NEW r \in DOMAIN held, NEW i \in DOMAIN held'[r]
      PROVE  /\ i \in Nat /\ i < Header(r)
             /\ held'[r][i] # Unknown => mem'[r + i] = held'[r][i]
  <2>1. Placed(r) /\ (\A j \in DOMAIN held[r] : held[r][j] # Unknown => mem[r + j] = held[r][j])
    BY DEF HeapInv, ContentsKept
  <2>2. CASE r = p
    <3>1. i \in 0 .. n - 1 /\ Header(p) \in Nat
      BY <1>2, <1>3, <2>1, <2>2 DEF Placed
    <3>2. i \in Nat /\ i < Header(r)
      BY <3>1, <2>2
    <3> QED
      BY <3>1, <3>2, <1>2, <2>1, <2>2
  <2>3. CASE r # p
    BY <1>2, <1>3, <2>1, <2>3 DEF Placed
  <2> QED
    BY <2>2, <2>3
<1>4. pages' = pages /\ mem' = mem
  OBVIOUS
<1>5. \A r \in DOMAIN held' : mem'[r - Align] = Header(r)
  BY <1>4 DEF Header
<1> QED
  BY <1>1, <1>2, <1>3, <1>4, <1>5, NothingLaid

LEMMA MoveKeeps ==
    ASSUME HeapAssumption, RequestsFit, HeapInv, NEW p \in DOMAIN held,
           NEW n \in Nat, SmallEnough(n), n > Header(p),
           Block(n, Filled(Grown(n), Allocated, Copied(p)),
                 [r \in DOMAIN Release(p) \cup {Allocated} |-> IF r = Allocated THEN Kept(p, n) ELSE held[r]])
    PROVE  HeapInv'
<1>1. PICK q : q = Allocated
  OBVIOUS
<1>2. PICK kept \in SUBSET DOMAIN held : kept = DOMAIN held \ {p}
  OBVIOUS
<1>3. PICK expected : expected = Kept(p, n)
  OBVIOUS
<1>4. PICK s : s = Copied(p)
  OBVIOUS
<1>5. PICK k : k = Header(p)
  OBVIOUS
<1>6. Placed(p) /\ k \in Nat /\ k <= n
  BY <1>5 DEF HeapInv, Placed
<1>7. /\ DOMAIN expected = 0 .. n - 1
      /\ \A i \in 0 .. n - 1 : expected[i] = IF i \in DOMAIN held[p] THEN held[p][i] ELSE Unknown
  BY <1>3 DEF Kept
<1>8. DOMAIN s = 0 .. k - 1 /\ \A i \in 0 .. k - 1 : s[i] = mem[p + i]
  BY <1>4, <1>5 DEF Copied
<1>9. ~ Fails(n) /\ heap_top' = BlockEnd(n) /\ pages' = pages + Need(n)
  BY DEF Block
<1>10. mem' = Filled(Grown(n), Allocated, s)
  BY <1>4 DEF Block
<1>11. /\ DOMAIN held' = kept \cup {q} /\ held'[q] = expected
       /\ \A r \in kept : r # q => held'[r] = held[r]
  BY <1>1, <1>2, <1>3 DEF Block, Release
<1>12. HeapTop /\ MemoryOK
  BY DEF HeapInv
<1>13. /\ DOMAIN mem' = HeapCells(pages + Need(n)) /\ mem'[Top] = Rounded(n)
       /\ \A a \in DOMAIN mem : a < Top => mem'[a] = mem[a]
       /\ \A i \in 0 .. k - 1 : mem'[q + i] = s[i]
  BY <1>1, <1>6, <1>8, <1>9, <1>10, <1>12, FilledBlock
<1>14. ASSUME NEW i \in DOMAIN expected, expected[i] # Unknown
       PROVE  mem'[q + i] = expected[i]
  <2>1. i \in DOMAIN held[p] /\ expected[i] = held[p][i] /\ held[p][i] # Unknown
    BY <1>7, <1>14
  <2>2. mem[p + i] = held[p][i]
    BY <2>1 DEF HeapInv, ContentsKept
  <2>3. i \in 0 .. k - 1
    BY <2>1, <1>5, <1>6 DEF Placed
  <2> QED
    BY <2>1, <2>2, <2>3, <1>8, <1>13
<1>15. \A i \in DOMAIN expected : i \in 0 .. n - 1
  BY <1>7
<1>16. /\ DOMAIN mem' = HeapCells(pages + Need(n)) /\ mem'[Top] = Rounded(n)
       /\ \A a \in DOMAIN mem : a < Top => mem'[a] = mem[a]
  BY <1>13
<1>17. \A i \in DOMAIN expected : expected[i] # Unknown => mem'[q + i] = expected[i]
  BY <1>14
<1>18. /\ n \in Nat /\ SmallEnough(n) /\ ~ Fails(n)
       /\ kept \in SUBSET DOMAIN held /\ q = Allocated
       /\ \A i \in DOMAIN expected : i \in 0 .. n - 1
       /\ heap_top' = BlockEnd(n) /\ pages' = pages + Need(n)
       /\ DOMAIN mem' = HeapCells(pages + Need(n)) /\ mem'[Top] = Rounded(n)
       /\ \A a \in DOMAIN mem : a < Top => mem'[a] = mem[a]
       /\ DOMAIN held' = kept \cup {q} /\ held'[q] = expected
       /\ \A r \in kept : r # q => held'[r] = held[r]
       /\ \A i \in DOMAIN expected : expected[i] # Unknown => mem'[q + i] = expected[i]
  BY <1>1, <1>9, <1>11, <1>15, <1>16, <1>17
<1> QED
  BY <1>18, Laid

LEMMA ReallocKeeps ==
    ASSUME HeapAssumption, RequestsFit, HeapInv, NEW p \in DOMAIN held, NEW n \in Requests, realloc(p, n)
    PROVE  HeapInv'
<1>1. n \in Nat /\ SmallEnough(n)
  BY DEF HeapAssumption, RequestsFit
<1>2. CASE n <= Header(p) /\ held' = Hold(p, Kept(p, n)) /\ UNCHANGED <<heap_top, pages, mem>>
  BY <1>1, <1>2, InPlaceKeeps
<1>3. CASE Fails(n) /\ NoBlock
  BY <1>3, NoBlockKeeps
<1>4. CASE /\ n > Header(p)
           /\ Block(n, Filled(Grown(n), Allocated, Copied(p)),
                    [r \in DOMAIN Release(p) \cup {Allocated} |-> IF r = Allocated THEN Kept(p, n) ELSE held[r]])
  BY <1>1, <1>4, MoveKeeps
<1> QED
  BY <1>2, <1>3, <1>4 DEF realloc

LEMMA FreeKeeps ==
    ASSUME HeapAssumption, HeapInv, NEW p \in DOMAIN held, free(p)
    PROVE  HeapInv'
<1>1. /\ DOMAIN held' = DOMAIN held \ {p} /\ \A r \in DOMAIN held' : held'[r] = held[r]
      /\ heap_top' = heap_top /\ pages' = pages /\ mem' = mem
  BY DEF free, Release
<1>2. HeapTop' /\ heap_top \in Nat /\ heap_top <= heap_top'
  BY <1>1 DEF HeapInv, HeapTop
<1>3. ASSUME NEW r \in DOMAIN held', NEW i \in DOMAIN held'[r]
      PROVE  /\ i \in Nat /\ i < Header(r)
             /\ held'[r][i] # Unknown => mem'[r + i] = held'[r][i]
  BY <1>1, <1>3 DEF HeapInv, Placed, ContentsKept
<1>4. \A r \in DOMAIN held' : mem'[r - Align] = Header(r)
  BY <1>1 DEF Header
<1> QED
  BY <1>1, <1>2, <1>3, <1>4, NothingLaid

(***************************************************************************)
(* An owner who writes to its own cells hits no header and no other block. *)
(***************************************************************************)
LEMMA FillKeeps ==
    ASSUME HeapAssumption, HeapInv, NEW p \in DOMAIN held, NEW v \in Values, Fill(p, v)
    PROVE  HeapInv'
<1>1. Align \in Nat \ {0} /\ Placed(p)
  BY DEF HeapAssumption, HeapInv
<1>2. /\ DOMAIN held' = DOMAIN held
      /\ DOMAIN held'[p] = DOMAIN held[p] /\ \A i \in DOMAIN held[p] : held'[p][i] = v
      /\ \A r \in DOMAIN held : r # p => held'[r] = held[r]
      /\ heap_top' = heap_top /\ pages' = pages
  BY DEF Fill, Hold
<1>3. /\ DOMAIN mem' = DOMAIN mem
      /\ \A a \in DOMAIN mem : mem'[a] = IF a - p \in DOMAIN held[p] THEN v ELSE mem[a]
  BY <1>2 DEF Fill, Filled
<1>4. HeapTop' /\ heap_top \in Nat /\ heap_top <= heap_top'
  BY <1>2 DEF HeapInv, HeapTop
<1>5. \A r \in DOMAIN held : \A a \in Nat : a < r + Header(r) => a \in DOMAIN mem
  <2> SUFFICES ASSUME NEW r \in DOMAIN held, NEW a \in Nat, a < r + Header(r)
               PROVE  a \in DOMAIN mem
    OBVIOUS
  <2>1. r \in Nat /\ Header(r) \in Nat /\ r + Header(r) <= pages * PageSize
    BY DEF HeapInv, Placed
  <2>2. pages * PageSize \in Nat
    BY SMT DEF HeapInv, MemoryOK, HeapAssumption
  <2>3. a < pages * PageSize
    BY <2>1, <2>2
  <2> QED
    BY <2>2, <2>3 DEF HeapInv, MemoryOK, HeapCells
\* Where a block or its header lies is no cell of another one.
<1>6. ASSUME NEW r \in DOMAIN held, r # p, NEW a \in Int, r - Align <= a, a < r + Header(r)
      PROVE  a - p \notin DOMAIN held[p]
  <2>1. /\ Apart(p, r) /\ p \in Nat /\ r \in Nat /\ Header(p) \in Nat /\ Header(r) \in Nat
        /\ \A i \in DOMAIN held[p] : i \in Nat /\ i < Header(p)
    BY <1>1, <1>6 DEF HeapInv, Placed
  <2>2. a - p < 0 \/ Header(p) <= a - p
    BY <2>1, <1>1, <1>6 DEF Apart
  <2> QED
    BY <2>1, <2>2
<1>7. ASSUME NEW r \in DOMAIN held
      PROVE  mem'[r - Align] = Header(r)
  <2>1. /\ r \in Nat /\ Header(r) \in Nat /\ HeapBase + Align <= r /\ HeapBase \in Nat
    BY DEF HeapInv, Placed, HeapAssumption
  <2>2. r - Align \in Nat /\ r - Align < r + Header(r)
    BY <2>1, <1>1
  <2>3. r - Align \in DOMAIN mem
    BY <2>2, <1>5
  <2>4. (r - Align) - p \notin DOMAIN held[p]
    <3>1. CASE r = p
      <4>1. (r - Align) - p < 0
        BY <3>1, <2>1, <1>1
      <4> QED
        BY <4>1, <1>1 DEF Placed
    <3>2. CASE r # p
      BY <3>2, <2>2, <1>1, <1>6
    <3> QED
      BY <3>1, <3>2
  <2> QED
    BY <2>3, <2>4, <1>3 DEF Header
<1>8. ASSUME NEW r \in DOMAIN held, NEW i \in DOMAIN held'[r]
      PROVE  /\ i \in Nat /\ i < Header(r)
             /\ held'[r][i] # Unknown => mem'[r + i] = held'[r][i]
  <2>1. /\ i \in DOMAIN held[r] /\ i \in Nat /\ i < Header(r)
        /\ r \in Nat /\ Header(r) \in Nat
        /\ held[r][i] # Unknown => mem[r + i] = held[r][i]
    BY <1>2, <1>8 DEF HeapInv, Placed, ContentsKept
  <2>2. r + i \in DOMAIN mem
    BY <2>1, <1>5
  <2>3. CASE r = p
    <3>1. (r + i) - p = i
      BY <2>1, <2>3
    <3> QED
      BY <3>1, <2>1, <2>2, <2>3, <1>2, <1>3
  <2>4. CASE r # p
    <3>1. (r + i) - p \notin DOMAIN held[p]
      BY <2>1, <2>4, <1>1, <1>6
    <3> QED
      BY <3>1, <2>1, <2>2, <2>4, <1>2, <1>3
  <2> QED
    BY <2>1, <2>3, <2>4
<1> QED
  BY <1>2, <1>3, <1>4, <1>7, <1>8, NothingLaid

LEMMA NextKeeps ==
    ASSUME HeapAssumption, RequestsFit, HeapInv, [HeapNext]_heapVars
    PROVE  HeapInv'
<1>1. ASSUME NEW n \in Requests, malloc(n) PROVE HeapInv'
  BY <1>1, MallocKeeps
<1>2. ASSUME NEW n \in Requests, NEW m \in Requests, calloc(n, m) PROVE HeapInv'
  BY <1>2, CallocKeeps
<1>3. ASSUME NEW p \in DOMAIN held, NEW n \in Requests, realloc(p, n) PROVE HeapInv'
  BY <1>3, ReallocKeeps
<1>4. ASSUME NEW p \in DOMAIN held, free(p) PROVE HeapInv'
  BY <1>4, FreeKeeps
<1>5. ASSUME NEW p \in DOMAIN held, NEW v \in Values, Fill(p, v) PROVE HeapInv'
  BY <1>5, FillKeeps
<1>6. CASE UNCHANGED heapVars
  BY <1>6 DEF heapVars, HeapInv, HeapTop, MemoryOK, Placed, Apart, Header, ContentsKept
<1> QED
  BY <1>1, <1>2, <1>3, <1>4, <1>5, <1>6 DEF HeapNext

(***************************************************************************)
(* In a state of the invariant the three properties hold.                  *)
(***************************************************************************)
LEMMA PropertiesFollow ==
    ASSUME HeapAssumption, HeapInv
    PROVE  BlocksDisjoint /\ ContentsKept /\ HeaderCoversRequest
<1>1. Align \in Nat \ {0} /\ HeapBase \in Nat /\ PageSize \in Nat /\ pages \in Nat
  BY DEF HeapAssumption, HeapInv, MemoryOK
<1>2. pages * PageSize \in Nat
  BY <1>1, SMT
<1>3. ASSUME NEW p \in DOMAIN held
      PROVE  /\ p \in Nat /\ p % Align = 0 /\ p >= HeapBase + Align
             /\ Header(p) \in Nat /\ p + Header(p) <= pages * PageSize
             /\ \A i \in DOMAIN held[p] : i \in Nat /\ i < Header(p)
  BY <1>1, <1>3 DEF HeapInv, Placed
<1>4. ASSUME NEW p \in DOMAIN held
      PROVE  BlockCells(p) \subseteq DOMAIN mem
  <2> SUFFICES ASSUME NEW i \in DOMAIN held[p] PROVE p + i \in DOMAIN mem
    BY DEF BlockCells
  <2>1. p + i \in Nat /\ p + i < pages * PageSize
    BY <1>2, <1>3
  <2> QED
    BY <2>1, <1>2 DEF HeapInv, MemoryOK, HeapCells
<1>5. ASSUME NEW p \in DOMAIN held, NEW q \in DOMAIN held \ {p}
      PROVE  (BlockCells(p) \cup {p - Align}) \cap (BlockCells(q) \cup {q - Align}) = {}
  <2> SUFFICES ASSUME NEW a \in BlockCells(p) \cup {p - Align}, a \in BlockCells(q) \cup {q - Align}
               PROVE  FALSE
    OBVIOUS
  <2>1. Apart(p, q)
    BY <1>5 DEF HeapInv
  <2>2. /\ p \in Nat /\ Header(p) \in Nat /\ q \in Nat /\ Header(q) \in Nat
    BY <1>3
  <2>3. a \in Int /\ p - Align <= a /\ a < p + Header(p)
    <3>1. CASE a = p - Align
      BY <3>1, <2>2, <1>1
    <3>2. CASE a \in BlockCells(p)
      <4>1. PICK i \in DOMAIN held[p] : a = p + i
        BY <3>2 DEF BlockCells
      <4>2. i \in Nat /\ i < Header(p)
        BY <1>3
      <4> QED
        BY <4>1, <4>2, <2>2, <1>1
    <3> QED
      BY <3>1, <3>2
  <2>4. q - Align <= a /\ a < q + Header(q)
    <3>1. CASE a = q - Align
      BY <3>1, <2>2, <1>1
    <3>2. CASE a \in BlockCells(q)
      <4>1. PICK i \in DOMAIN held[q] : a = q + i
        BY <3>2 DEF BlockCells
      <4>2. i \in Nat /\ i < Header(q)
        BY <1>3
      <4> QED
        BY <4>1, <4>2, <2>2, <1>1
    <3> QED
      BY <3>1, <3>2
  <2> QED
    BY <2>1, <2>2, <2>3, <2>4, <1>1 DEF Apart
<1>6. BlocksDisjoint
  BY <1>3, <1>4, <1>5 DEF BlocksDisjoint
<1>7. HeaderCoversRequest
  BY <1>3 DEF HeaderCoversRequest
<1> QED
  BY <1>6, <1>7 DEF HeapInv

-----------------------------------------------------------------------------
(***************************************************************************)
(* Blocks stay apart and in memory, keep what their owners put in, and     *)
(* their headers cover the requests, for every program whose requests do   *)
(* not come within two headers of the size of a word (malloc, calloc,      *)
(* realloc and free of libc.c).                                            *)
(***************************************************************************)
THEOREM HeapInvHolds ==
    ASSUME HeapAssumption, RequestsFit
    PROVE  HeapSpec => []HeapInv
<1>1. HeapInit => HeapInv
  BY InitHolds
<1>2. HeapInv /\ [HeapNext]_heapVars => HeapInv'
  BY NextKeeps
<1> QED
  BY <1>1, <1>2, PTL DEF HeapSpec

THEOREM BlocksStayApart ==
    ASSUME HeapAssumption, RequestsFit
    PROVE  HeapSpec => []HeapKept
<1>1. HeapInv => HeapKept
  BY PropertiesFollow DEF HeapKept
<1> QED
  BY <1>1, HeapInvHolds, PTL
=============================================================================
