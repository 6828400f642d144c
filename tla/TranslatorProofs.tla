--------------------------- MODULE TranslatorProofs ---------------------------
(***************************************************************************)
(* What the translator does around the bodies of functions.                *)
(*                                                                         *)
(* FunctionFiles: the order of the generated functions is a function of    *)
(* the module, and the generated files define every function once, for     *)
(* every module, reference module and number of functions in a file.       *)
(*                                                                         *)
(* Constants: a constant of a module keeps its bits. The LEB128 readers    *)
(* return the number that was encoded and stop at its last byte, and the C *)
(* text of an i32, i64 or f32 means it, for every width, size of a group   *)
(* and number.                                                             *)
(***************************************************************************)
EXTENDS FunctionFiles, Constants, TLAPS, FiniteSetTheorems

-----------------------------------------------------------------------------
(* Sequences and numbers. *)

(* A nonempty set of naturals has a least element. *)
LEMMA LeastOf ==
    ASSUME NEW S \in SUBSET Nat, S # {}
    PROVE  \E x \in S : \A y \in S : x <= y
<1> DEFINE R == {ss \in Nat \X Nat : ss[1] < ss[2]}
<1>1. IsWellFoundedOn(R, Nat)
  BY NatLessThanWellFounded, Zenon DEF OpToRel
<1>2. \E x \in S : \A y \in S : ~ (<<y, x>> \in R)
  <2> HIDE DEF R
  <2> QED BY <1>1, WFMin
<1>3. ASSUME NEW x \in S, NEW y \in S, ~ (<<y, x>> \in R) PROVE x <= y
  BY <1>3
<1> QED BY <1>2, <1>3

Distinct(s) == \A j, k \in 1 .. Len(s) : s[j] = s[k] => j = k

LEMMA FunctionIsSeq ==
    ASSUME NEW S, NEW n \in Nat, NEW s \in [1 .. n -> S]
    PROVE  s \in Seq(S) /\ Len(s) = n /\ DOMAIN s = 1 .. n
  OBVIOUS

-----------------------------------------------------------------------------
(* Sorting. *)

Before(a, b) == wasmFunctionIDsCompareHashes(a, b) < 0

LEMMA IDsAre ==
    ASSUME FilesAssumption, NEW hashes \in Lists
    PROVE  /\ hashes \in Seq(Hashes) /\ Len(hashes) \in Nat /\ DOMAIN hashes = 1 .. Len(hashes)
           /\ IsFiniteSet(IDs(hashes)) /\ Cardinality(IDs(hashes)) = Len(hashes)
<1>1. PICK n \in 0 .. MaxFunctions : hashes \in [1 .. n -> Hashes]
  BY DEF Lists
<1>2. n \in Nat /\ hashes \in Seq(Hashes) /\ Len(hashes) = n /\ DOMAIN hashes = 1 .. n
  BY <1>1, FunctionIsSeq DEF FilesAssumption
<1> DEFINE f == [k \in 1 .. n |-> [hash |-> hashes[k], index |-> k]]
<1>3. f \in Bijection(1 .. n, IDs(hashes))
  <2>1. f \in [1 .. n -> IDs(hashes)]
    BY <1>2 DEF IDs
  <2>2. \A j, k \in 1 .. n : f[j] = f[k] => j = k
    OBVIOUS
  <2>3. \A id \in IDs(hashes) : \E k \in 1 .. n : f[k] = id
    BY <1>2 DEF IDs
  <2> HIDE DEF f
  <2> QED BY <2>1, <2>2, <2>3 DEF Bijection, Injection, Surjection, IsInjective
<1>4. IsFiniteSet(1 .. n) /\ Cardinality(1 .. n) = n
  BY <1>2, FS_Interval
<1>5. IsFiniteSet(IDs(hashes)) /\ Cardinality(IDs(hashes)) = n
  <2> HIDE DEF f
  <2>1. ExistsBijection(1 .. n, IDs(hashes))
    BY <1>3 DEF ExistsBijection
  <2> QED BY <2>1, <1>4, FS_Bijection
<1> QED BY <1>2, <1>5

(* the comparison is a strict order of the functions of a module *)
LEMMA BeforeOrders ==
    ASSUME FilesAssumption, NEW hashes \in Lists,
           NEW a \in IDs(hashes), NEW b \in IDs(hashes), NEW c \in IDs(hashes)
    PROVE  /\ wasmFunctionIDsCompareHashes(a, b) <= 0 /\ a # b => Before(a, b)
           /\ Before(a, b) /\ Before(b, c) => Before(a, c)
           /\ ~(Before(a, b) /\ Before(b, a))
           /\ wasmFunctionIDsCompareHashes(a, b) = 0 <=> a = b
<1>1. \A id \in IDs(hashes) : id.hash \in Nat /\ id.index \in Nat /\ id = [hash |-> id.hash, index |-> id.index]
  <2> TAKE id \in IDs(hashes)
  <2>1. PICK k \in DOMAIN hashes : id = [hash |-> hashes[k], index |-> k]
    BY DEF IDs
  <2>2. hashes \in Seq(Hashes) /\ k \in 1 .. Len(hashes) /\ Len(hashes) \in Nat
    BY IDsAre
  <2>3. k \in Nat /\ hashes[k] \in Hashes
    BY <2>2
  <2> QED BY <2>1, <2>3 DEF FilesAssumption
<1>2. /\ a.hash \in Nat /\ b.hash \in Nat /\ c.hash \in Nat
      /\ a.index \in Nat /\ b.index \in Nat /\ c.index \in Nat
  BY <1>1
<1>3. a = b <=> a.hash = b.hash /\ a.index = b.index
  BY <1>1
<1> QED BY <1>2, <1>3 DEF Before, wasmFunctionIDsCompareHashes, Sign

(* what qsort may return: every function of the module, in order *)
LEMMA SortedIs ==
    ASSUME FilesAssumption, NEW hashes \in Lists, NEW s \in wasmSortedFunctionIDs(hashes)
    PROVE  /\ s \in Seq(IDs(hashes)) /\ Len(s) = Len(hashes) /\ Distinct(s)
           /\ \A id \in IDs(hashes) : \E k \in 1 .. Len(s) : s[k] = id
           /\ \A j, k \in 1 .. Len(s) : j < k => Before(s[j], s[k])
<1>1. PICK n \in Nat : n = Len(hashes)
  BY IDsAre
<1>2. IsFiniteSet(IDs(hashes)) /\ Cardinality(IDs(hashes)) = n
  BY <1>1, IDsAre
<1>3. /\ s \in [1 .. n -> IDs(hashes)]
      /\ \A i, j \in 1 .. n : i # j => s[i] # s[j]
      /\ \A k \in 1 .. Len(s) - 1 : wasmFunctionIDsCompareHashes(s[k], s[k + 1]) <= 0
  BY <1>2 DEF wasmSortedFunctionIDs, SetToSeqs
<1>4. s \in Seq(IDs(hashes)) /\ Len(s) = n
  BY <1>3, FunctionIsSeq
<1>5. \A id \in IDs(hashes) : \E k \in 1 .. n : s[k] = id
  <2>1. s \in Injection(1 .. n, IDs(hashes))
    BY <1>3 DEF Injection, IsInjective
  <2>2. Cardinality(1 .. n) = n
    BY FS_Interval
  <2>3. s \in Surjection(1 .. n, IDs(hashes))
    BY <2>1, <2>2, <1>2, FS_Injection
  <2> QED BY <2>3 DEF Surjection
<1>6. \A k \in 1 .. n - 1 : Before(s[k], s[k + 1])
  <2> TAKE k \in 1 .. n - 1
  <2>1. k \in 1 .. n /\ k + 1 \in 1 .. n /\ k # k + 1
    BY <1>1
  <2>2. s[k] \in IDs(hashes) /\ s[k + 1] \in IDs(hashes) /\ s[k] # s[k + 1]
    BY <2>1, <1>3
  <2>3. wasmFunctionIDsCompareHashes(s[k], s[k + 1]) <= 0
    BY <1>3, <1>4
  <2> QED BY <2>2, <2>3, BeforeOrders
<1>7. ASSUME NEW j \in 1 .. n, NEW k \in 1 .. n, j < k PROVE Before(s[j], s[k])
  <2> DEFINE Bad == {x \in j + 1 .. n : ~Before(s[j], s[x])}
  <2> SUFFICES Bad = {}
    BY <1>7
  <2> SUFFICES ASSUME Bad # {} PROVE FALSE
    OBVIOUS
  <2>1. Bad \in SUBSET Nat
    BY <1>1
  <2>2. PICK x \in Bad : \A y \in Bad : x <= y
    <3> HIDE DEF Bad
    <3> QED BY <2>1, LeastOf
  <2>3. x \in j + 1 .. n /\ ~Before(s[j], s[x])
    BY <2>2
  <2>4. x # j + 1
    BY <2>3, <1>6
  <2>5. x - 1 \in j + 1 .. n /\ x - 1 \in 1 .. n - 1 /\ x - 1 + 1 = x /\ x - 1 < x
    BY <2>3, <2>4
  <2>6. Before(s[j], s[x - 1]) /\ Before(s[x - 1], s[x])
    BY <2>2, <2>5, <1>6
  <2>7. s[j] \in IDs(hashes) /\ s[x - 1] \in IDs(hashes) /\ s[x] \in IDs(hashes)
    BY <2>3, <2>5, <1>3
  <2> QED BY <2>3, <2>6, <2>7, BeforeOrders
<1> QED BY <1>1, <1>3, <1>4, <1>5, <1>7 DEF Distinct

(* so it may return one sequence only *)
LEMMA SortedIsOne ==
    ASSUME FilesAssumption, NEW hashes \in Lists,
           NEW s \in wasmSortedFunctionIDs(hashes), NEW t \in wasmSortedFunctionIDs(hashes)
    PROVE  s = t
<1>1. PICK n \in Nat : n = Len(hashes)
  BY IDsAre
<1>2. /\ s \in Seq(IDs(hashes)) /\ Len(s) = n /\ Distinct(s)
      /\ \A id \in IDs(hashes) : \E k \in 1 .. n : s[k] = id
      /\ \A j, k \in 1 .. n : j < k => Before(s[j], s[k])
  BY <1>1, SortedIs
<1>3. /\ t \in Seq(IDs(hashes)) /\ Len(t) = n /\ Distinct(t)
      /\ \A id \in IDs(hashes) : \E k \in 1 .. n : t[k] = id
      /\ \A j, k \in 1 .. n : j < k => Before(t[j], t[k])
  BY <1>1, SortedIs
<1> DEFINE Differ == {k \in 1 .. n : s[k] # t[k]}
<1>4. Differ = {}
  <2> SUFFICES ASSUME Differ # {} PROVE FALSE
    OBVIOUS
  <2>1. Differ \in SUBSET Nat
    OBVIOUS
  <2>2. PICK k \in Differ : \A y \in Differ : k <= y
    <3> HIDE DEF Differ
    <3> QED BY <2>1, LeastOf
  <2>3. k \in 1 .. n /\ s[k] # t[k] /\ \A y \in 1 .. k - 1 : s[y] = t[y]
    BY <2>2
  <2>4. s[k] \in IDs(hashes) /\ t[k] \in IDs(hashes)
    BY <2>3, <1>2, <1>3
  <2>5. PICK i \in 1 .. n : s[i] = t[k]
    BY <2>4, <1>2
  <2>6. PICK j \in 1 .. n : t[j] = s[k]
    BY <2>4, <1>3
  <2>7. k < i
    <3>1. i # k
      BY <2>3, <2>5
    <3>2. i \notin 1 .. k - 1
      <4> SUFFICES ASSUME i \in 1 .. k - 1 PROVE FALSE
        OBVIOUS
      <4>1. t[i] = t[k] /\ i # k
        BY <2>3, <2>5
      <4> QED BY <4>1, <2>3, <1>3 DEF Distinct
    <3> QED BY <3>1, <3>2, <2>3, <2>5
  <2>8. k < j
    <3>1. j # k
      BY <2>3, <2>6
    <3>2. j \notin 1 .. k - 1
      <4> SUFFICES ASSUME j \in 1 .. k - 1 PROVE FALSE
        OBVIOUS
      <4>1. s[j] = s[k] /\ j # k
        BY <2>3, <2>6
      <4> QED BY <4>1, <2>3, <1>2 DEF Distinct
    <3> QED BY <3>1, <3>2, <2>3, <2>6
  <2>9. Before(s[k], t[k]) /\ Before(t[k], s[k])
    BY <2>3, <2>5, <2>6, <2>7, <2>8, <1>2, <1>3
  <2> QED BY <2>4, <2>9, BeforeOrders
<1>5. \A k \in 1 .. n : s[k] = t[k]
  BY <1>4
<1> QED BY <1>2, <1>3, <1>5

(* Where the lists of functions come from. *)
SortedOnce ==
    /\ functions \in Lists /\ referenceFunctions \in Lists
    /\ phase = "split" => /\ functionIDs \in wasmSortedFunctionIDs(functions)
                          /\ referenceFunctionIDs \in wasmSortedFunctionIDs(referenceFunctions)

LEMMA NoFunctions ==
    ASSUME FilesAssumption
    PROVE  <<>> \in Lists
<1>1. <<>> \in [1 .. 0 -> Hashes]
  OBVIOUS
<1>2. 0 \in 0 .. MaxFunctions
  BY DEF FilesAssumption
<1> QED BY <1>1, <1>2 DEF Lists

(***************************************************************************)
(* The comparison of w2c2 is a total order of a module's functions, so the *)
(* order of the generated functions does not depend on qsort.              *)
(***************************************************************************)
THEOREM SortingDetermined ==
    ASSUME FilesAssumption
    PROVE  FilesSpec => []OrderIsDetermined
<1>1. FilesInit => SortedOnce
  <2> SUFFICES ASSUME FilesInit PROVE SortedOnce
    OBVIOUS
  <2>1. functions \in Lists /\ referenceFunctions \in Lists
    BY NoFunctions DEF FilesInit
  <2>2. phase = "sort"
    BY DEF FilesInit
  <2> QED BY <2>1, <2>2 DEF SortedOnce
<1>2. SortedOnce /\ [FilesNext]_filesVars => SortedOnce'
  <2> SUFFICES ASSUME SortedOnce, [FilesNext]_filesVars PROVE SortedOnce'
    OBVIOUS
  <2>1. functions' = functions /\ referenceFunctions' = referenceFunctions
    BY DEF FilesNext, Sort, SplitStep, SplitEnd, WriteInOneFile, Plan, WriteFile, NextGroup, filesVars, lists
  <2>2. CASE Sort
    <3>1. functionIDs' \in wasmSortedFunctionIDs(functions)
      BY <2>2 DEF Sort
    <3>2. phase' = "split" => referenceFunctionIDs' \in wasmSortedFunctionIDs(referenceFunctions)
      BY <2>2 DEF Sort
    <3> QED BY <2>1, <3>1, <3>2 DEF SortedOnce, wasmSortedFunctionIDs
  <2>3. CASE SplitStep \/ UNCHANGED filesVars
    <3>1. UNCHANGED <<functionIDs, referenceFunctionIDs, phase>>
      BY <2>3 DEF SplitStep, filesVars, sorted
    <3> QED BY <2>1, <3>1 DEF SortedOnce, wasmSortedFunctionIDs
  <2>4. CASE SplitEnd \/ WriteInOneFile \/ Plan \/ WriteFile \/ NextGroup
    <3>1. phase' # "split"
      BY <2>4 DEF SplitEnd, WriteInOneFile, Plan, WriteFile, NextGroup
    <3> QED BY <2>1, <3>1 DEF SortedOnce
  <2> QED BY <2>2, <2>3, <2>4 DEF FilesNext
<1>3. SortedOnce => OrderIsDetermined
  BY SortedIsOne DEF SortedOnce, OrderIsDetermined
<1> QED BY <1>1, <1>2, <1>3, PTL DEF FilesSpec

-----------------------------------------------------------------------------
(* Who is where. *)

In(s, id) == \E x \in 1 .. Len(s) : s[x] = id
InFirst(s, n, id) == \E x \in 1 .. Len(s) : x <= n /\ s[x] = id
At(fs, id, f, k) == f \in DOMAIN fs /\ k \in DOMAIN fs[f] /\ fs[f][k] = id
Holds(fs, id) == \E f, k : At(fs, id, f, k)
Once(fs) == \A id, f, g, j, k : At(fs, id, f, j) /\ At(fs, id, g, k) => f = g /\ j = k

LEMMA Appended ==
    ASSUME NEW S, NEW s \in Seq(S), NEW e \in S
    PROVE  /\ Append(s, e) \in Seq(S) /\ Len(Append(s, e)) = Len(s) + 1
           /\ \A id : In(Append(s, e), id) <=> In(s, id) \/ id = e
           /\ Distinct(s) /\ ~In(s, e) => Distinct(Append(s, e))
<1>1. /\ Append(s, e) \in Seq(S) /\ Len(Append(s, e)) = Len(s) + 1
      /\ \A x \in 1 .. Len(s) : Append(s, e)[x] = s[x]
      /\ Append(s, e)[Len(s) + 1] = e
  OBVIOUS
<1>2. Len(s) \in Nat /\ \A x : x \in 1 .. Len(s) + 1 <=> x \in 1 .. Len(s) \/ x = Len(s) + 1
  OBVIOUS
<1>3. \A id : In(Append(s, e), id) <=> In(s, id) \/ id = e
  BY <1>1, <1>2, Zenon DEF In
<1>4. Distinct(s) /\ ~In(s, e) => Distinct(Append(s, e))
  BY <1>1, <1>2 DEF In, Distinct
<1> QED BY <1>1, <1>3, <1>4

LEMMA Filed ==
    ASSUME NEW S, NEW fs \in Seq(Seq(S)), Once(fs),
           NEW g \in Seq(S), Distinct(g), \A k \in 1 .. Len(g) : ~Holds(fs, g[k])
    PROVE  /\ Append(fs, g) \in Seq(Seq(S)) /\ Once(Append(fs, g))
           /\ \A id : Holds(Append(fs, g), id) <=> Holds(fs, id) \/ In(g, id)
<1> DEFINE n == Len(fs)
           new == Append(fs, g)
<1>1. /\ new \in Seq(Seq(S)) /\ n \in Nat /\ DOMAIN new = 1 .. n + 1 /\ DOMAIN fs = 1 .. n
      /\ \A x \in 1 .. n : new[x] = fs[x]
      /\ new[n + 1] = g /\ DOMAIN g = 1 .. Len(g)
  OBVIOUS
<1>2. \A x : (x \in 1 .. n + 1 <=> x \in 1 .. n \/ x = n + 1) /\ (x \in 1 .. n => x # n + 1)
  BY <1>1
<1> HIDE DEF n, new
<1>3. \A id, f, k : At(new, id, f, k) <=> At(fs, id, f, k) \/ (f = n + 1 /\ k \in 1 .. Len(g) /\ g[k] = id)
  BY <1>1, <1>2 DEF At
<1>4. \A id : Holds(new, id) <=> Holds(fs, id) \/ In(g, id)
  <2> TAKE id
  <2>1. Holds(fs, id) => Holds(new, id)
    BY <1>3, Zenon DEF Holds
  <2>2. In(g, id) => Holds(new, id)
    BY <1>3, Zenon DEF Holds, In
  <2>3. Holds(new, id) => Holds(fs, id) \/ In(g, id)
    BY <1>3, Zenon DEF Holds, In
  <2> QED BY <2>1, <2>2, <2>3
<1>5. Once(new)
  <2> SUFFICES ASSUME NEW id, NEW f, NEW h, NEW j, NEW k, At(new, id, f, j), At(new, id, h, k)
               PROVE  f = h /\ j = k
    BY DEF Once
  <2>1. CASE At(fs, id, f, j) /\ At(fs, id, h, k)
    BY <2>1 DEF Once
  <2>2. CASE ~At(fs, id, f, j) /\ ~At(fs, id, h, k)
    BY <2>2, <1>3 DEF Distinct
  <2>3. At(fs, id, f, j) => Holds(fs, id)
    BY DEF Holds
  <2>4. At(fs, id, h, k) => Holds(fs, id)
    BY DEF Holds
  <2>5. CASE At(fs, id, f, j) /\ ~At(fs, id, h, k)
    BY <2>3, <2>5, <1>3
  <2>6. CASE ~At(fs, id, f, j) /\ At(fs, id, h, k)
    BY <2>4, <2>6, <1>3
  <2> QED BY <2>1, <2>2, <2>5, <2>6
<1> QED BY <1>1, <1>4, <1>5 DEF new

LEMMA Slice ==
    ASSUME NEW S, NEW s \in Seq(S), Distinct(s), NEW start \in Nat, NEW end \in Nat,
           start <= end, end <= Len(s)
    PROVE  /\ SubSeq(s, start + 1, end) \in Seq(S) /\ Distinct(SubSeq(s, start + 1, end))
           /\ \A id : In(SubSeq(s, start + 1, end), id) <=> \E x \in start + 1 .. end : s[x] = id
<1>1. PICK t : t = SubSeq(s, start + 1, end)
  OBVIOUS
<1>2. /\ t \in Seq(S) /\ Len(t) = end - start /\ Len(s) \in Nat
      /\ \A x \in 1 .. end - start : t[x] = s[start + x]
  BY <1>1
<1>3. \A x \in 1 .. end - start : start + x \in start + 1 .. end /\ start + x \in 1 .. Len(s)
  BY <1>2
<1>4. \A x \in start + 1 .. end : x - start \in 1 .. end - start /\ start + (x - start) = x
  OBVIOUS
<1>5. \A id : In(t, id) <=> \E x \in start + 1 .. end : s[x] = id
  BY <1>2, <1>3, <1>4, Zenon DEF In
<1>6. Distinct(t)
  <2> SUFFICES ASSUME NEW j \in 1 .. end - start, NEW k \in 1 .. end - start, t[j] = t[k] PROVE j = k
    BY <1>2 DEF Distinct
  <2>1. s[start + j] = s[start + k] /\ start + j \in 1 .. Len(s) /\ start + k \in 1 .. Len(s)
    BY <1>2, <1>3
  <2>2. start + j = start + k
    BY <2>1 DEF Distinct
  <2> QED BY <2>2
<1> QED BY <1>1, <1>2, <1>5, <1>6

(* there is a next file as long as functions are left *)
LEMMA FilesLeft ==
    ASSUME NEW total \in Nat, NEW per \in Nat \ {0}, NEW i \in Nat
    PROVE  i < (IF total = 0 THEN 0 ELSE 1 + (total - 1) \div per) <=> i * per < total
<1>1. CASE total = 0
  <2>1. i * per >= 0
    OBVIOUS
  <2> QED BY <1>1, <2>1
<1>2. CASE total # 0
  <2>1. PICK q \in Nat : q = (total - 1) \div per
    BY <1>2
  <2>2. q * per <= total - 1 /\ total - 1 < q * per + per
    BY <1>2, <2>1
  <2>3. i <= q => i * per <= q * per
    <3>1. SUFFICES ASSUME i <= q PROVE i * per <= q * per
      OBVIOUS
    <3>2. PICK d \in Nat : q = i + d
      BY <3>1
    <3>3. q * per = i * per + d * per /\ d * per >= 0
      BY <3>2
    <3>4. i * per \in Int /\ d * per \in Int /\ q * per \in Int
      OBVIOUS
    <3> QED BY <3>3, <3>4
  <2>4. i >= q + 1 => i * per >= q * per + per
    <3>1. SUFFICES ASSUME i >= q + 1 PROVE i * per >= q * per + per
      OBVIOUS
    <3>2. PICK d \in Nat : i = q + 1 + d
      BY <3>1
    <3>3. i * per = q * per + per + d * per /\ d * per >= 0
      BY <3>2
    <3>4. i * per \in Int /\ d * per \in Int /\ q * per \in Int
      OBVIOUS
    <3> QED BY <3>3, <3>4
  <2>5. i * per \in Int /\ q * per \in Int
    OBVIOUS
  <2> QED BY <1>2, <2>1, <2>2, <2>3, <2>4, <2>5
<1> QED BY <1>1, <1>2

-----------------------------------------------------------------------------
(* The inductive invariant. *)

FilesTyped ==
    /\ functions \in Lists /\ referenceFunctions \in Lists
    /\ functionsPerFile \in Nat /\ fileIndex \in Nat /\ functionID \in Nat \ {0}
    /\ filePrefix \in {"s", "d"}
    /\ phase \in {"sort", "split", "plan", "write", "done", "failed"}

(* the functions that were divided are static or dynamic *)
Divided ==
    /\ staticFunctions \in Seq(IDs(functions)) /\ Distinct(staticFunctions)
    /\ dynamicFunctions \in Seq(IDs(functions)) /\ Distinct(dynamicFunctions)
    /\ \A id : ~(In(staticFunctions, id) /\ In(dynamicFunctions, id))

Taken(id) == In(staticFunctions, id) \/ In(dynamicFunctions, id)

SplitInv ==
    /\ phase = "sort" => staticFunctions = <<>> /\ dynamicFunctions = <<>> /\ functionID = 1
    /\ phase = "split" => /\ functionIDs \in wasmSortedFunctionIDs(functions)
                          /\ \A id : Taken(id) <=> InFirst(functionIDs, functionID - 1, id)
    /\ phase \in {"plan", "write", "done"} => \A id \in IDs(functions) : Taken(id)

(* what has been written: the first functions of the group, behind the static ones *)
Written(id) ==
    IF filePrefix = "s" THEN InFirst(staticFunctions, fileIndex * functionsPerFile, id)
    ELSE In(staticFunctions, id) \/ InFirst(dynamicFunctions, fileIndex * functionsPerFile, id)

WriteInv ==
    /\ files \in Seq(Seq(IDs(functions))) /\ Once(files)
    /\ phase \in {"sort", "split", "plan"} => files = <<>> /\ filePrefix = "s" /\ fileIndex = 0
    /\ phase = "write" => functionsPerFile # 0 /\ \A id : Holds(files, id) <=> Written(id)
    /\ phase = "done" => \A id \in IDs(functions) : Holds(files, id)

FilesInv == FilesTyped /\ Divided /\ SplitInv /\ WriteInv

-----------------------------------------------------------------------------
LEMMA NothingIn ==
    /\ \A id : ~In(<<>>, id) /\ Distinct(<<>>)
    /\ \A id : ~Holds(<<>>, id) /\ Once(<<>>)
<1>1. Len(<<>>) = 0 /\ DOMAIN <<>> = {}
  OBVIOUS
<1> QED BY <1>1 DEF In, Distinct, Holds, Once, At

LEMMA FirstFiles ==
    ASSUME FilesAssumption, FilesInit
    PROVE  FilesInv
<1>1. FilesTyped
  BY NoFunctions DEF FilesInit, FilesTyped, FilesAssumption
<1>2. Divided
  BY NothingIn DEF FilesInit, Divided
<1>3. SplitInv
  BY DEF FilesInit, SplitInv
<1>4. WriteInv
  BY NothingIn DEF FilesInit, WriteInv
<1> QED BY <1>1, <1>2, <1>3, <1>4 DEF FilesInv

LEMMA SortKeeps ==
    ASSUME FilesAssumption, FilesInv, Sort
    PROVE  FilesInv'
<1>1. /\ phase = "sort" /\ functionIDs' \in wasmSortedFunctionIDs(functions)
      /\ UNCHANGED <<functions, referenceFunctions, functionID, dynamicFunctions, functionsPerFile,
                     files, filePrefix, fileIndex>>
  BY DEF Sort, lists, cursors
<1>2. functions \in Lists /\ functionIDs' \in wasmSortedFunctionIDs(functions')
  BY <1>1 DEF FilesInv, FilesTyped, wasmSortedFunctionIDs
<1>3. /\ functionIDs' \in Seq(IDs(functions)) /\ Distinct(functionIDs')
      /\ \A id \in IDs(functions) : In(functionIDs', id)
  BY <1>1, <1>2, SortedIs, Zenon DEF In
<1>4. /\ staticFunctions = <<>> /\ dynamicFunctions = <<>> /\ functionID = 1
      /\ files = <<>> /\ filePrefix = "s" /\ fileIndex = 0
  BY <1>1 DEF FilesInv, SplitInv, WriteInv
<1>5. \A id : ~In(dynamicFunctions', id) /\ Distinct(dynamicFunctions') /\ ~Holds(files', id)
  BY <1>1, <1>4, NothingIn
<1>6. \/ phase' = "split" /\ staticFunctions' = <<>>
      \/ phase' = "plan" /\ staticFunctions' = functionIDs'
  BY <1>4 DEF Sort
<1>7. FilesTyped'
  BY <1>1, <1>6 DEF FilesInv, FilesTyped
<1>8. WriteInv'
  <2>1. IDs(functions') = IDs(functions) /\ files' = files
    BY <1>1
  <2> QED BY <2>1, <1>1, <1>4, <1>6 DEF FilesInv, WriteInv
<1>9. CASE phase' = "split" /\ staticFunctions' = <<>>
  <2>1. Divided'
    BY <1>1, <1>4, <1>5, <1>9, NothingIn DEF Divided
  <2>2. \A id : ~InFirst(functionIDs', functionID' - 1, id)
    BY <1>1, <1>4 DEF InFirst
  <2>3. \A id : ~Taken(id)'
    BY <1>1, <1>4, <1>5, <1>9, NothingIn DEF Taken
  <2>4. SplitInv'
    BY <1>2, <1>9, <2>2, <2>3 DEF SplitInv
  <2> QED BY <1>7, <1>8, <2>1, <2>4 DEF FilesInv
<1>10. CASE phase' = "plan" /\ staticFunctions' = functionIDs'
  <2>1. Divided'
    BY <1>1, <1>3, <1>4, <1>5, <1>10 DEF Divided
  <2>2. \A id \in IDs(functions) : Taken(id)'
    BY <1>3, <1>10 DEF Taken
  <2>3. SplitInv'
    BY <1>1, <1>10, <2>2 DEF SplitInv
  <2> QED BY <1>7, <1>8, <2>1, <2>3 DEF FilesInv
<1> QED BY <1>6, <1>9, <1>10

LEMMA SplitStepKeeps ==
    ASSUME FilesAssumption, FilesInv, SplitStep
    PROVE  FilesInv'
<1>1. /\ phase = "split" /\ phase' = "split"
      /\ UNCHANGED <<functions, referenceFunctions, functionIDs, referenceFunctionIDs, functionsPerFile,
                     files, filePrefix, fileIndex>>
  BY DEF SplitStep, lists, sorted
<1>2. FilesTyped /\ Divided /\ SplitInv /\ WriteInv
  BY DEF FilesInv
<1>3. WriteInv'
  BY <1>1, <1>2 DEF WriteInv
<1>4. functionIDs \in wasmSortedFunctionIDs(functions) /\ functions \in Lists
  BY <1>1, <1>2 DEF SplitInv, FilesTyped
<1>5. functionIDs' \in wasmSortedFunctionIDs(functions')
  BY <1>1, <1>4 DEF wasmSortedFunctionIDs
<1>6. /\ functionIDs \in Seq(IDs(functions)) /\ Distinct(functionIDs) /\ DOMAIN functionIDs = 1 .. Len(functionIDs)
      /\ functionID \in Nat \ {0} /\ Len(functionIDs) \in Nat
  BY <1>2, <1>4, SortedIs DEF FilesTyped
<1>7. \A id : Taken(id) <=> InFirst(functionIDs, functionID - 1, id)
  BY <1>1, <1>2 DEF SplitInv
<1>8. CASE OnlyInReference
  <2>1. UNCHANGED <<functionID, staticFunctions, dynamicFunctions>>
    BY <1>8 DEF OnlyInReference
  <2>2. FilesTyped' /\ Divided'
    BY <1>1, <1>2, <2>1 DEF FilesTyped, Divided
  <2>3. SplitInv'
    BY <1>1, <1>2, <1>5, <1>7, <2>1 DEF SplitInv, Taken
  <2> QED BY <1>3, <2>2, <2>3 DEF FilesInv
<1>9. CASE OnlyInModule \/ InBoth
  <2>1. PICK e : e = functionIDs[functionID]
    OBVIOUS
  <2>2. functionID \in 1 .. Len(functionIDs) /\ functionID' = functionID + 1
    BY <1>6, <1>9 DEF OnlyInModule, InBoth, BothLeft
  <2>3. e \in IDs(functions) /\ ~InFirst(functionIDs, functionID - 1, e)
    <3>1. e \in IDs(functions)
      BY <1>6, <2>1, <2>2
    <3>2. \A x \in 1 .. Len(functionIDs) : x <= functionID - 1 => functionIDs[x] # e
      BY <1>6, <2>1, <2>2 DEF Distinct
    <3> QED BY <3>1, <3>2 DEF InFirst
  <2>4. \A id : InFirst(functionIDs, functionID' - 1, id) <=> InFirst(functionIDs, functionID - 1, id) \/ id = e
    <3>1. \A x \in 1 .. Len(functionIDs) : x <= functionID' - 1 <=> x <= functionID - 1 \/ x = functionID
      BY <1>6, <2>2
    <3> QED BY <3>1, <2>1, <2>2, Zenon DEF InFirst
  <2>5. ~In(staticFunctions, e) /\ ~In(dynamicFunctions, e)
    BY <1>7, <2>3 DEF Taken
  <2>6. /\ staticFunctions \in Seq(IDs(functions)) /\ Distinct(staticFunctions)
        /\ dynamicFunctions \in Seq(IDs(functions)) /\ Distinct(dynamicFunctions)
        /\ \A id : ~(In(staticFunctions, id) /\ In(dynamicFunctions, id))
    BY <1>2 DEF Divided
  <2>7. /\ staticFunctions' \in Seq(IDs(functions)) /\ Distinct(staticFunctions')
        /\ dynamicFunctions' \in Seq(IDs(functions)) /\ Distinct(dynamicFunctions')
        /\ \A id : ~(In(staticFunctions', id) /\ In(dynamicFunctions', id))
        /\ \A id : Taken(id)' <=> Taken(id) \/ id = e
    <3>1. CASE staticFunctions' = Append(staticFunctions, e) /\ dynamicFunctions' = dynamicFunctions
      <4>1. PICK s \in Seq(IDs(functions)) : s = staticFunctions
        BY <2>6
      <4>2. /\ Append(s, e) \in Seq(IDs(functions)) /\ Distinct(Append(s, e))
            /\ \A id : In(Append(s, e), id) <=> In(s, id) \/ id = e
        BY <4>1, <2>3, <2>5, <2>6, Appended
      <4> QED BY <4>1, <4>2, <3>1, <2>5, <2>6 DEF Taken
    <3>2. CASE dynamicFunctions' = Append(dynamicFunctions, e) /\ staticFunctions' = staticFunctions
      <4>1. PICK s \in Seq(IDs(functions)) : s = dynamicFunctions
        BY <2>6
      <4>2. /\ Append(s, e) \in Seq(IDs(functions)) /\ Distinct(Append(s, e))
            /\ \A id : In(Append(s, e), id) <=> In(s, id) \/ id = e
        BY <4>1, <2>3, <2>5, <2>6, Appended
      <4> QED BY <4>1, <4>2, <3>2, <2>5, <2>6 DEF Taken
    <3> QED BY <3>1, <3>2, <1>9, <2>1 DEF OnlyInModule, InBoth
  <2>8. FilesTyped'
    BY <1>1, <1>2, <2>2 DEF FilesTyped
  <2>9. Divided'
    BY <1>1, <2>7 DEF Divided
  <2>10. SplitInv'
    <3>1. \A id : Taken(id)' <=> InFirst(functionIDs', functionID' - 1, id)
      BY <1>1, <1>7, <2>4, <2>7
    <3> QED BY <3>1, <1>1, <1>5 DEF SplitInv
  <2> QED BY <1>3, <2>8, <2>9, <2>10 DEF FilesInv
<1> QED BY <1>8, <1>9 DEF SplitStep

(* when the cursor has passed the last function, every function was divided *)
LEMMA SplitEndKeeps ==
    ASSUME FilesAssumption, FilesInv, SplitEnd
    PROVE  FilesInv'
<1>1. /\ phase = "split" /\ phase' = "plan" /\ functionID \notin DOMAIN functionIDs
      /\ UNCHANGED <<functions, referenceFunctions, functionIDs, functionID, staticFunctions,
                     dynamicFunctions, functionsPerFile, files, filePrefix, fileIndex>>
  BY DEF SplitEnd, lists, sorted, cursors
<1>2. FilesTyped /\ Divided /\ SplitInv /\ WriteInv
  BY DEF FilesInv
<1>3. /\ functionIDs \in Seq(IDs(functions)) /\ Len(functionIDs) \in Nat /\ functionID \in Nat \ {0}
      /\ \A id \in IDs(functions) : In(functionIDs, id)
  <2>1. functions \in Lists /\ functionIDs \in wasmSortedFunctionIDs(functions) /\ functionID \in Nat \ {0}
    BY <1>1, <1>2 DEF SplitInv, FilesTyped
  <2>2. functionIDs \in Seq(IDs(functions)) /\ \A id \in IDs(functions) : In(functionIDs, id)
    BY <2>1, SortedIs, Zenon DEF In
  <2> QED BY <2>1, <2>2
<1>4. Len(functionIDs) <= functionID - 1
  BY <1>1, <1>3
<1>5. \A id \in IDs(functions) : Taken(id)
  BY <1>1, <1>2, <1>3, <1>4 DEF SplitInv, In, InFirst
<1>6. FilesTyped' /\ Divided' /\ WriteInv'
  BY <1>1, <1>2 DEF FilesTyped, Divided, WriteInv
<1>7. SplitInv'
  BY <1>1, <1>5 DEF SplitInv, Taken
<1> QED BY <1>6, <1>7 DEF FilesInv

LEMMA WriteInOneFileKeeps ==
    ASSUME FilesAssumption, FilesInv, WriteInOneFile
    PROVE  FilesInv'
<1>1. /\ phase = "plan" /\ phase' = "done" /\ dynamicFunctions = <<>> /\ files' = <<staticFunctions>>
      /\ UNCHANGED <<functions, referenceFunctions, functionIDs, functionID, staticFunctions,
                     dynamicFunctions, functionsPerFile, filePrefix, fileIndex>>
  BY DEF WriteInOneFile, InOneFile, lists, sorted, cursors
<1>2. FilesTyped /\ Divided /\ SplitInv /\ WriteInv
  BY DEF FilesInv
<1>3. FilesTyped' /\ Divided'
  BY <1>1, <1>2 DEF FilesTyped, Divided
<1>4. SplitInv'
  BY <1>1, <1>2 DEF SplitInv, Taken
<1>5. PICK none \in Seq(Seq(IDs(functions))) : none = <<>>
  <2>1. \A S : <<>> \in Seq(S)
    OBVIOUS
  <2> QED BY <2>1
<1>6. staticFunctions \in Seq(IDs(functions)) /\ Distinct(staticFunctions)
  BY <1>2 DEF Divided
<1>7. Once(none) /\ \A id : ~Holds(none, id)
  BY <1>5, NothingIn
<1>8. /\ Append(none, staticFunctions) \in Seq(Seq(IDs(functions))) /\ Once(Append(none, staticFunctions))
      /\ \A id : Holds(Append(none, staticFunctions), id) <=> Holds(none, id) \/ In(staticFunctions, id)
  BY <1>6, <1>7, Filed
<1>9. files' = Append(none, staticFunctions)
  BY <1>1, <1>5, <1>6
<1>10. \A id \in IDs(functions) : In(staticFunctions, id)
  BY <1>1, <1>2, NothingIn DEF SplitInv, Taken
<1>11. WriteInv'
  BY <1>1, <1>8, <1>9, <1>10 DEF WriteInv
<1> QED BY <1>3, <1>4, <1>11 DEF FilesInv

LEMMA PlanKeeps ==
    ASSUME FilesAssumption, FilesInv, Plan
    PROVE  FilesInv'
<1>1. /\ phase = "plan" /\ phase' = "write" /\ ~InOneFile /\ functionsPerFile' = PerFileOrAll
      /\ UNCHANGED <<functions, referenceFunctions, functionIDs, functionID, staticFunctions,
                     dynamicFunctions, files, filePrefix, fileIndex>>
  BY DEF Plan, lists, sorted, cursors
<1>2. FilesTyped /\ Divided /\ SplitInv /\ WriteInv
  BY DEF FilesInv
<1>3. functions \in Lists /\ Len(functions) \in Nat /\ DOMAIN functions = 1 .. Len(functions)
  BY <1>2, IDsAre DEF FilesTyped
<1>4. functionsPerFile' \in Nat /\ functionsPerFile' # 0
  <2>1. CASE functionsPerFile # 0
    BY <1>1, <1>2, <2>1 DEF PerFileOrAll, FilesTyped
  <2>2. CASE functionsPerFile = 0
    <3>1. dynamicFunctions \in Seq(IDs(functions)) /\ dynamicFunctions # <<>>
      BY <1>1, <1>2, <1>3, <2>2 DEF PerFileOrAll, InOneFile, Divided
    <3>2. dynamicFunctions[1] \in IDs(functions)
      BY <3>1
    <3>3. Len(functions) # 0
      BY <1>3, <3>2 DEF IDs
    <3> QED BY <1>1, <1>3, <2>2, <3>3 DEF PerFileOrAll
  <2> QED BY <2>1, <2>2
<1>5. FilesTyped' /\ Divided'
  BY <1>1, <1>2, <1>4 DEF FilesTyped, Divided
<1>6. SplitInv'
  BY <1>1, <1>2 DEF SplitInv, Taken
<1>7. files = <<>> /\ filePrefix = "s" /\ fileIndex = 0
  BY <1>1, <1>2 DEF WriteInv
<1>8. \A id : ~Holds(files', id) /\ ~Written(id)'
  <2>1. fileIndex' * functionsPerFile' = 0
    BY <1>1, <1>4, <1>7
  <2>2. \A id : ~InFirst(staticFunctions', fileIndex' * functionsPerFile', id)
    BY <2>1 DEF InFirst
  <2> QED BY <2>2, <1>1, <1>7, NothingIn DEF Written
<1>9. WriteInv'
  BY <1>1, <1>2, <1>4, <1>8 DEF WriteInv
<1> QED BY <1>5, <1>6, <1>9 DEF FilesInv

(* the group that is written, and how far *)
LEMMA GroupIs ==
    ASSUME FilesInv, phase = "write"
    PROVE  /\ GroupIDs \in Seq(IDs(functions)) /\ Distinct(GroupIDs) /\ Len(GroupIDs) \in Nat
           /\ functionsPerFile \in Nat \ {0} /\ fileIndex \in Nat /\ fileIndex * functionsPerFile \in Nat
           /\ fileIndex < FileCount(Len(GroupIDs)) <=> fileIndex * functionsPerFile < Len(GroupIDs)
           /\ FileCount(Len(GroupIDs)) \in Int
<1>1. GroupIDs \in Seq(IDs(functions)) /\ Distinct(GroupIDs)
  BY DEF FilesInv, Divided, GroupIDs
<1>2. functionsPerFile \in Nat \ {0} /\ fileIndex \in Nat
  BY DEF FilesInv, FilesTyped, WriteInv
<1>3. PICK n \in Nat : n = Len(GroupIDs)
  BY <1>1
<1>4. fileIndex < FileCount(n) <=> fileIndex * functionsPerFile < n
  BY <1>2, FilesLeft DEF FileCount
<1>5. FileCount(n) \in Int
  <2>1. n # 0 => (n - 1) \div functionsPerFile \in Int
    BY <1>2
  <2> QED BY <2>1 DEF FileCount
<1> QED BY <1>1, <1>2, <1>3, <1>4, <1>5

LEMMA WriteFileKeeps ==
    ASSUME FilesAssumption, FilesInv, WriteFile
    PROVE  FilesInv'
<1>1. /\ phase = "write" /\ fileIndex < FileCount(Len(GroupIDs))
      /\ UNCHANGED <<functions, referenceFunctions, functionIDs, functionID, staticFunctions,
                     dynamicFunctions, functionsPerFile, filePrefix>>
  BY DEF WriteFile, lists, sorted, cursors
<1>2. FilesTyped /\ Divided /\ SplitInv /\ WriteInv
  BY DEF FilesInv
<1>3. PICK group \in Seq(IDs(functions)) : group = GroupIDs
  BY <1>1, GroupIs
<1>4. PICK start \in Nat : start = fileIndex * functionsPerFile
  BY <1>1, GroupIs
<1>5. /\ Distinct(group) /\ Len(group) \in Nat /\ start < Len(group)
      /\ functionsPerFile \in Nat \ {0} /\ fileIndex \in Nat
  BY <1>1, <1>3, <1>4, GroupIs
<1>6. PICK end \in Nat : end = IF start + functionsPerFile > Len(group) THEN Len(group) ELSE start + functionsPerFile
  BY <1>5
<1>7. start < end /\ end <= Len(group)
  BY <1>5, <1>6
<1>8. PICK g : g = SubSeq(group, start + 1, end)
  OBVIOUS
<1>9. \/ phase' = "write" /\ fileIndex' = fileIndex + 1 /\ files' = Append(files, g)
      \/ phase' = "failed" /\ fileIndex' = fileIndex /\ files' = files
  BY <1>1, <1>3, <1>4, <1>6, <1>7, <1>8 DEF WriteFile
<1>10. FilesTyped' /\ Divided'
  BY <1>1, <1>2, <1>9 DEF FilesTyped, Divided
<1>11. SplitInv'
  BY <1>1, <1>2, <1>9 DEF SplitInv, Taken
<1>12. CASE phase' = "failed" /\ fileIndex' = fileIndex /\ files' = files
  <2>1. WriteInv'
    BY <1>1, <1>2, <1>12 DEF WriteInv
  <2> QED BY <1>10, <1>11, <2>1 DEF FilesInv
<1>13. CASE phase' = "write" /\ fileIndex' = fileIndex + 1 /\ files' = Append(files, g)
  <2>1. /\ g \in Seq(IDs(functions)) /\ Distinct(g)
        /\ \A id : In(g, id) <=> \E x \in start + 1 .. end : group[x] = id
    <3>1. start <= end
      BY <1>7
    <3>2. /\ SubSeq(group, start + 1, end) \in Seq(IDs(functions)) /\ Distinct(SubSeq(group, start + 1, end))
          /\ \A id : In(SubSeq(group, start + 1, end), id) <=> \E x \in start + 1 .. end : group[x] = id
      BY <3>1, <1>5, <1>7, Slice
    <3> QED BY <3>2, <1>8
  <2>2. PICK fs \in Seq(Seq(IDs(functions))) : fs = files
    BY <1>2 DEF WriteInv
  <2>3. Once(fs) /\ \A id : Holds(fs, id) <=> Written(id)
    BY <1>1, <1>2, <2>2 DEF WriteInv
  <2>4. \A id : In(g, id) => ~Written(id) /\ In(group, id)
    <3> SUFFICES ASSUME NEW id, In(g, id) PROVE ~Written(id) /\ In(group, id)
      OBVIOUS
    <3>1. PICK x \in start + 1 .. end : group[x] = id
      BY <2>1
    <3>2. x \in 1 .. Len(group) /\ start < x
      BY <3>1, <1>5, <1>7
    <3>3. In(group, id)
      BY <3>1, <3>2 DEF In
    <3>4. ~InFirst(group, start, id)
      BY <3>1, <3>2, <1>5 DEF InFirst, Distinct
    <3>5. filePrefix # "s" => ~In(staticFunctions, id)
      BY <3>3, <1>2, <1>3 DEF Divided, GroupIDs
    <3> QED BY <3>3, <3>4, <3>5, <1>3, <1>4 DEF Written, GroupIDs
  <2>5. \A k \in 1 .. Len(g) : ~Holds(fs, g[k])
    <3>1. \A k \in 1 .. Len(g) : In(g, g[k])
      BY DEF In
    <3> QED BY <3>1, <2>3, <2>4
  <2>6. /\ Append(fs, g) \in Seq(Seq(IDs(functions))) /\ Once(Append(fs, g))
        /\ \A id : Holds(Append(fs, g), id) <=> Holds(fs, id) \/ In(g, id)
    BY <2>1, <2>3, <2>5, Filed
  <2>7. fileIndex' * functionsPerFile' = start + functionsPerFile
    BY <1>1, <1>4, <1>5, <1>13
  <2>8. \A id : InFirst(group, start + functionsPerFile, id) <=> InFirst(group, start, id) \/ In(g, id)
    <3>1. \A x \in 1 .. Len(group) : x <= start + functionsPerFile <=> x <= start \/ x \in start + 1 .. end
      BY <1>5, <1>6, <1>7
    <3>2. \A x \in start + 1 .. end : x \in 1 .. Len(group)
      BY <1>5, <1>7
    <3> QED BY <3>1, <3>2, <2>1, Zenon DEF InFirst
  <2>9. \A id : Written(id)' <=> Written(id) \/ In(g, id)
    BY <1>1, <1>3, <1>4, <2>7, <2>8 DEF Written, GroupIDs
  <2>10. WriteInv'
    BY <1>1, <1>2, <1>13, <2>2, <2>3, <2>6, <2>9 DEF WriteInv
  <2> QED BY <1>10, <1>11, <2>10 DEF FilesInv
<1> QED BY <1>9, <1>12, <1>13

LEMMA NextGroupKeeps ==
    ASSUME FilesAssumption, FilesInv, NextGroup
    PROVE  FilesInv'
<1>1. /\ phase = "write" /\ fileIndex >= FileCount(Len(GroupIDs)) /\ filePrefix' = "d" /\ fileIndex' = 0
      /\ phase' = IF filePrefix = "s" THEN "write" ELSE "done"
      /\ UNCHANGED <<functions, referenceFunctions, functionIDs, functionID, staticFunctions,
                     dynamicFunctions, functionsPerFile, files>>
  BY DEF NextGroup, lists, sorted, cursors
<1>2. FilesTyped /\ Divided /\ SplitInv /\ WriteInv
  BY DEF FilesInv
<1>3. FilesTyped' /\ Divided'
  BY <1>1, <1>2 DEF FilesTyped, Divided
<1>4. SplitInv'
  BY <1>1, <1>2 DEF SplitInv, Taken
<1>5. Len(GroupIDs) <= fileIndex * functionsPerFile
  BY <1>1, GroupIs
<1>6. \A id : InFirst(GroupIDs, fileIndex * functionsPerFile, id) <=> In(GroupIDs, id)
  <2>1. \A x \in 1 .. Len(GroupIDs) : x <= fileIndex * functionsPerFile
    BY <1>1, <1>5, GroupIs
  <2> QED BY <2>1, Zenon DEF In, InFirst
<1>7. CASE filePrefix = "s"
  <2>1. fileIndex' * functionsPerFile' = 0
    BY <1>1, GroupIs
  <2>2. \A id : ~InFirst(dynamicFunctions', fileIndex' * functionsPerFile', id)
    BY <2>1 DEF InFirst
  <2>3. \A id : Written(id)' <=> Written(id)
    BY <2>2, <1>1, <1>6, <1>7 DEF Written, GroupIDs
  <2>4. WriteInv'
    BY <1>1, <1>2, <1>7, <2>3 DEF WriteInv
  <2> QED BY <1>3, <1>4, <2>4 DEF FilesInv
<1>8. CASE filePrefix # "s"
  <2>1. \A id : Written(id) <=> Taken(id)
    BY <1>6, <1>8 DEF Written, Taken, GroupIDs
  <2>2. \A id \in IDs(functions) : Holds(files, id)
    BY <2>1, <1>1, <1>2 DEF SplitInv, WriteInv
  <2>3. WriteInv'
    BY <1>1, <1>2, <1>8, <2>2 DEF WriteInv
  <2> QED BY <1>3, <1>4, <2>3 DEF FilesInv
<1> QED BY <1>7, <1>8

(***************************************************************************)
(* Every function of the module is static or dynamic, and is written to    *)
(* one file at one place: the invariant of main, of the division into      *)
(* static and dynamic functions and of the writer of the files.            *)
(***************************************************************************)
THEOREM FilesInvariance ==
    ASSUME FilesAssumption
    PROVE  FilesSpec => []FilesInv
<1>1. FilesInit => FilesInv
  BY FirstFiles
<1>2. FilesInv /\ [FilesNext]_filesVars => FilesInv'
  <2> SUFFICES ASSUME FilesInv, [FilesNext]_filesVars PROVE FilesInv'
    OBVIOUS
  <2>1. CASE UNCHANGED filesVars
    <3>1. UNCHANGED <<functions, referenceFunctions, functionIDs, functionID, staticFunctions,
                      dynamicFunctions, functionsPerFile, files, filePrefix, fileIndex, phase>>
      BY <2>1 DEF filesVars, lists, sorted, cursors
    <3>2. FilesTyped' /\ Divided' /\ WriteInv'
      BY <3>1 DEF FilesInv, FilesTyped, Divided, WriteInv, Written
    <3>3. SplitInv'
      BY <3>1 DEF FilesInv, SplitInv, Taken, wasmSortedFunctionIDs
    <3> QED BY <3>2, <3>3 DEF FilesInv
  <2> QED BY <2>1, SortKeeps, SplitStepKeeps, SplitEndKeeps, WriteInOneFileKeeps, PlanKeeps,
             WriteFileKeeps, NextGroupKeeps DEF FilesNext
<1> QED BY <1>1, <1>2, PTL DEF FilesSpec

(***************************************************************************)
(* When the files are written, they define every function of the module,   *)
(* once, and nothing else: for every module, every reference module and    *)
(* every -f (wasmSplitStaticAndDynamicFunctions, wasmCWriteModule).        *)
(***************************************************************************)
THEOREM LinksOnce ==
    ASSUME FilesAssumption
    PROVE  FilesSpec => []EveryFunctionOnce
<1>1. FilesInv => EveryFunctionOnce
  <2> SUFFICES ASSUME FilesInv, phase = "done" PROVE EveryFunctionOnce
    BY DEF EveryFunctionOnce
  <2>1. /\ files \in Seq(Seq(IDs(functions))) /\ Once(files)
        /\ \A id \in IDs(functions) : Holds(files, id)
    BY DEF FilesInv, WriteInv
  <2>2. \A f \in DOMAIN files : ToSet(files[f]) \subseteq IDs(functions)
    <3> TAKE f \in DOMAIN files
    <3>1. files[f] \in Seq(IDs(functions))
      BY <2>1
    <3> QED BY <3>1 DEF ToSet
  <2>3. \A p, id : p \in LinesOf(id) <=> \E f, k : p = <<f, k>> /\ At(files, id, f, k)
    <3> TAKE p, id
    <3>1. p \in Lines <=> \E f \in DOMAIN files : \E k \in DOMAIN files[f] : p = <<f, k>>
      BY DEF Lines
    <3>2. ASSUME NEW f, NEW k, p = <<f, k>> PROVE p[1] = f /\ p[2] = k
      BY <3>2
    <3> QED BY <3>1, <3>2 DEF LinesOf, At
  <2>4. ASSUME NEW id \in IDs(functions) PROVE \E p \in Lines : LinesOf(id) = {p}
    <3>1. PICK f, k : At(files, id, f, k)
      BY <2>1 DEF Holds
    <3>2. PICK p : p = <<f, k>>
      OBVIOUS
    <3>3. p \in LinesOf(id)
      BY <2>3, <3>1, <3>2
    <3>4. \A q \in LinesOf(id) : q = p
      BY <2>1, <2>3, <3>1, <3>2 DEF Once
    <3> QED BY <3>3, <3>4 DEF LinesOf
  <2> QED BY <2>2, <2>4 DEF EveryFunctionOnce
<1>2. FilesSpec => []FilesInv
  BY FilesInvariance
<1> QED BY <1>1, <1>2, PTL

-----------------------------------------------------------------------------
(* A constant: division. *)

(* A quotient and a remainder are what division gives. *)
LEMMA QuotientIs ==
    ASSUME NEW c \in Nat \ {0}, NEW q \in Int, NEW r \in 0 .. c - 1
    PROVE  (q * c + r) % c = r /\ (q * c + r) \div c = q
  OBVIOUS

(* Every integer has them. *)
LEMMA QuotientOf ==
    ASSUME NEW c \in Nat \ {0}, NEW h \in Int
    PROVE  \E q \in Int, r \in 0 .. c - 1 : h = q * c + r
<1> DEFINE S == {x \in Nat : \E q \in Int : h = q * c + x}
<1>1. S # {}
  <2>1. CASE h >= 0
    <3>1. PICK z \in Int : z = 0
      OBVIOUS
    <3>2. h \in Nat /\ h = z * c + h
      BY <2>1, <3>1
    <3> QED BY <3>2
  <2>2. CASE h < 0
    <3>1. PICK k \in Nat, d \in Nat : k = -h /\ d = c - 1
      BY <2>2
    <3>2. PICK x \in Nat : x = k * d
      OBVIOUS
    <3>3. k * c = k * d + k
      BY <3>1
    <3>4. h * c = -(k * c)
      BY <3>1
    <3>5. h = h * c + x
      BY <3>1, <3>2, <3>3, <3>4
    <3> QED BY <3>5
  <2> HIDE DEF S
  <2> QED BY <2>1, <2>2
<1>2. PICK r \in S : \A y \in S : r <= y
  <2> HIDE DEF S
  <2>1. S \in SUBSET Nat
    BY DEF S
  <2> QED BY <1>1, <2>1, LeastOf
<1>3. PICK q \in Int : h = q * c + r
  BY <1>2
<1>4. r < c
  <2> SUFFICES ASSUME ~(r < c) PROVE FALSE
    OBVIOUS
  <2>1. PICK y \in Nat : y = r - c
    OBVIOUS
  <2>2. PICK z \in Int : z = q + 1
    OBVIOUS
  <2>3. h = z * c + y
    <3>1. z * c = q * c + c
      BY <2>2
    <3> QED BY <3>1, <1>3, <2>1
  <2>4. y \in S
    BY <2>3
  <2>5. r <= y
    <3> HIDE DEF S
    <3> QED BY <1>2, <2>4
  <2> QED BY <2>1, <2>5
<1>5. r \in 0 .. c - 1
  BY <1>2, <1>4
<1> QED BY <1>3, <1>5

LEMMA Associates ==
    ASSUME NEW a \in Int, NEW b \in Int, NEW c \in Int
    PROVE  a * (b * c) = (a * b) * c
  OBVIOUS

(* A remainder of a remainder. *)
LEMMA RemainderOfRemainder ==
    ASSUME NEW m \in Int, NEW w \in Nat \ {0}, NEW k \in Nat \ {0}
    PROVE  (m % (k * w)) % w = m % w
<1>1. PICK a \in Nat \ {0} : a = k * w
  OBVIOUS
<1>2. PICK q \in Int, r \in 0 .. a - 1 : m = q * a + r
  BY QuotientOf
<1>3. PICK t \in Int, u \in 0 .. w - 1 : r = t * w + u
  <2>1. r \in Int
    OBVIOUS
  <2> QED BY <2>1, QuotientOf
<1>4. m % a = r
  BY <1>2, QuotientIs
<1>5. r % w = u
  BY <1>3, QuotientIs
<1>6. PICK z \in Int : z = q * k + t
  OBVIOUS
<1>7. m = z * w + u
  <2>1. z * w = (q * k) * w + t * w
    BY <1>6
  <2>2. q * a = (q * k) * w
    BY <1>1, Associates
  <2> QED BY <2>1, <2>2, <1>2, <1>3
<1>8. m % w = u
  BY <1>7, QuotientIs
<1> QED BY <1>1, <1>4, <1>5, <1>8

(* Reducing before adding changes nothing. *)
LEMMA ReducedSum ==
    ASSUME NEW x \in Int, NEW y \in Int, NEW w \in Nat \ {0}
    PROVE  ((x % w) + y) % w = (x + y) % w
<1>1. PICK q \in Int, r \in 0 .. w - 1 : x = q * w + r
  BY QuotientOf
<1>2. PICK p \in Int, u \in 0 .. w - 1 : r + y = p * w + u
  <2>1. r + y \in Int
    OBVIOUS
  <2> QED BY <2>1, QuotientOf
<1>3. x % w = r /\ (r + y) % w = u
  BY <1>1, <1>2, QuotientIs
<1>4. PICK z \in Int : z = q + p
  OBVIOUS
<1>5. z * w = q * w + p * w
  BY <1>4
<1>6. x + y = z * w + u
  BY <1>1, <1>2, <1>5
<1>7. (x + y) % w = u
  BY <1>6, QuotientIs
<1> QED BY <1>3, <1>7

(* A remainder by a product: the next group above what is there. *)
LEMMA GroupAbove ==
    ASSUME NEW m \in Int, NEW a \in Nat \ {0}, NEW b \in Nat \ {0}
    PROVE  m % (a * b) = (m % a) + ((m \div a) % b) * a
<1>1. PICK q \in Int, r \in 0 .. a - 1 : m = q * a + r
  BY QuotientOf
<1>2. PICK p \in Int, t \in 0 .. b - 1 : q = p * b + t
  BY QuotientOf
<1>3. m % a = r /\ m \div a = q /\ q % b = t
  BY <1>1, <1>2, QuotientIs
<1>4. PICK c \in Nat \ {0} : c = a * b
  OBVIOUS
<1>5. PICK x \in Nat : x = t * a
  OBVIOUS
<1>6. x + a <= c
  <2>1. PICK d \in Nat : d = b - 1 - t
    OBVIOUS
  <2>2. b = d + 1 + t
    BY <2>1
  <2>3. c = d * a + a + t * a
    <3>1. c = (d + 1 + t) * a
      BY <1>4, <2>2
    <3>2. (d + 1 + t) * a = d * a + a + t * a
      OBVIOUS
    <3> QED BY <3>1, <3>2
  <2>4. d * a \in Nat
    OBVIOUS
  <2> QED BY <2>3, <2>4, <1>5
<1>7. q * a = p * c + x
  <2>1. q * a = (p * b) * a + t * a
    BY <1>2
  <2>2. (p * b) * a = p * (b * a) /\ b * a = c
    BY Associates, <1>4
  <2> QED BY <2>1, <2>2, <1>5
<1>8. PICK y \in 0 .. c - 1 : y = x + r
  BY <1>6
<1>9. m = p * c + y
  BY <1>1, <1>7, <1>8
<1>10. m % c = y
  BY <1>9, QuotientIs
<1> QED BY <1>3, <1>4, <1>5, <1>8, <1>10

-----------------------------------------------------------------------------
(* A constant: powers of two. *)

PowerStep(f, n) == IF n = 0 THEN 1 ELSE 2 * f[n - 1]
Powers(f, m) == \A n \in 0 .. m : f[n] = PowerStep(f, n)

(* There are powers of two up to any exponent ... *)
LEMMA PowersUpTo ==
    ASSUME NEW m \in Nat
    PROVE  \E f : Powers(f, m)
<1> DEFINE Wrong == {x \in Nat : ~ \E f : Powers(f, x)}
<1>1. ASSUME NEW x \in Nat, \A y \in 0 .. x - 1 : \E f : Powers(f, y) PROVE \E f : Powers(f, x)
  <2>1. CASE x = 0
    <3>1. PICK f : f = [n \in Nat |-> 1]
      OBVIOUS
    <3>2. Powers(f, x)
      BY <2>1, <3>1 DEF Powers, PowerStep
    <3> QED BY <3>2
  <2>2. CASE x # 0
    <3>1. x - 1 \in 0 .. x - 1
      BY <2>2
    <3>2. PICK f : Powers(f, x - 1)
      BY <1>1, <3>1
    <3>3. PICK g : g = [n \in Nat |-> IF n = x THEN PowerStep(f, x) ELSE f[n]]
      OBVIOUS
    <3>4. ASSUME NEW n \in 0 .. x PROVE g[n] = PowerStep(g, n)
      <4>1. n # 0 => n - 1 \in Nat /\ n - 1 # x
        OBVIOUS
      <4>2. PowerStep(g, n) = PowerStep(f, n)
        BY <3>3, <4>1 DEF PowerStep
      <4>3. n # x => n \in 0 .. x - 1
        OBVIOUS
      <4>4. n # x => f[n] = PowerStep(f, n)
        BY <4>3, <3>2 DEF Powers
      <4> QED BY <3>3, <4>2, <4>4
    <3> QED BY <3>4 DEF Powers
  <2> QED BY <2>1, <2>2
<1>2. Wrong = {}
  <2> SUFFICES ASSUME Wrong # {} PROVE FALSE
    OBVIOUS
  <2>1. Wrong \in SUBSET Nat
    OBVIOUS
  <2>2. PICK x \in Wrong : \A y \in Wrong : x <= y
    <3> HIDE DEF Wrong
    <3> QED BY <2>1, LeastOf
  <2>3. \A y \in 0 .. x - 1 : y \in Nat /\ y \notin Wrong
    <3> HIDE DEF Wrong
    <3> QED BY <2>1, <2>2
  <2>4. \A y \in 0 .. x - 1 : \E f : Powers(f, y)
    BY <2>3
  <2> QED BY <1>1, <2>4
<1> QED BY <1>2

(* ... and any two agree where both are. *)
LEMMA PowersAgree ==
    ASSUME NEW f, NEW g, NEW m \in Nat, NEW k \in Nat, Powers(f, m), Powers(g, k),
           NEW n \in Nat, n <= m, n <= k
    PROVE  f[n] = g[n]
<1> DEFINE Wrong == {x \in Nat : x <= m /\ x <= k /\ f[x] # g[x]}
<1>1. Wrong = {}
  <2> SUFFICES ASSUME Wrong # {} PROVE FALSE
    OBVIOUS
  <2>1. Wrong \in SUBSET Nat
    OBVIOUS
  <2>2. PICK x \in Wrong : \A y \in Wrong : x <= y
    <3> HIDE DEF Wrong
    <3> QED BY <2>1, LeastOf
  <2>3. x \in 0 .. m /\ x \in 0 .. k
    OBVIOUS
  <2>4. f[x] = PowerStep(f, x) /\ g[x] = PowerStep(g, x)
    BY <2>3 DEF Powers
  <2>5. x # 0
    BY <2>4 DEF PowerStep
  <2>6. x - 1 \in Nat /\ x - 1 <= m /\ x - 1 <= k /\ ~(x <= x - 1)
    BY <2>3, <2>5
  <2>7. f[x - 1] = g[x - 1]
    <3>1. x - 1 \notin Wrong
      <4> HIDE DEF Wrong
      <4> QED BY <2>2, <2>6
    <3> QED BY <3>1, <2>6
  <2>8. f[x] = g[x]
    BY <2>4, <2>5, <2>7 DEF PowerStep
  <2> QED BY <2>8
<1> QED BY <1>1

(* So pow2 is what its definition says. *)
LEMMA PowerIs ==
    pow2 = [n \in Nat |-> PowerStep(pow2, n)]
<1>1. PICK F : F = [m \in Nat |-> CHOOSE f : Powers(f, m)]
  OBVIOUS
<1>2. ASSUME NEW m \in Nat PROVE Powers(F[m], m)
  BY <1>1, PowersUpTo
<1>3. PICK g : g = [n \in Nat |-> F[n][n]]
  OBVIOUS
<1>4. ASSUME NEW n \in Nat PROVE g[n] = PowerStep(g, n)
  <2>1. F[n][n] = PowerStep(F[n], n)
    <3>1. Powers(F[n], n) /\ n \in 0 .. n
      BY <1>2
    <3> QED BY <3>1 DEF Powers
  <2>2. ASSUME n # 0 PROVE F[n][n - 1] = F[n - 1][n - 1]
    <3>1. n - 1 \in Nat /\ n - 1 <= n /\ n - 1 <= n - 1
      BY <2>2
    <3>2. Powers(F[n], n) /\ Powers(F[n - 1], n - 1)
      BY <1>2, <3>1
    <3> QED BY <3>1, <3>2, PowersAgree
  <2>3. n # 0 => n - 1 \in Nat /\ g[n - 1] = F[n - 1][n - 1]
    BY <1>3
  <2>4. g[n] = F[n][n]
    BY <1>3
  <2> QED BY <2>1, <2>2, <2>3, <2>4 DEF PowerStep
<1>5. g = [n \in Nat |-> PowerStep(g, n)]
  BY <1>3, <1>4
<1>6. \E f : f = [n \in Nat |-> IF n = 0 THEN 1 ELSE 2 * f[n - 1]]
  BY <1>5 DEF PowerStep
<1> QED BY <1>6 DEF pow2, PowerStep

LEMMA PowerOf ==
    ASSUME NEW n \in Nat
    PROVE  pow2[0] = 1 /\ pow2[n + 1] = 2 * pow2[n]
<1>1. PICK p : p = pow2
  OBVIOUS
<1>2. p = [x \in Nat |-> PowerStep(p, x)]
  BY <1>1, PowerIs
<1>3. p[0] = 1
  BY <1>2 DEF PowerStep
<1>4. p[n + 1] = 2 * p[n]
  <2>1. n + 1 \in Nat /\ n + 1 # 0 /\ (n + 1) - 1 = n
    OBVIOUS
  <2>2. p[n + 1] = PowerStep(p, n + 1)
    BY <1>2, <2>1
  <2> QED BY <2>1, <2>2 DEF PowerStep
<1> QED BY <1>1, <1>3, <1>4

(* They are positive ... *)
LEMMA PowerPositive ==
    ASSUME NEW n \in Nat
    PROVE  pow2[n] \in Nat \ {0}
<1> DEFINE Wrong == {x \in Nat : pow2[x] \notin Nat \ {0}}
<1>1. Wrong = {}
  <2> SUFFICES ASSUME Wrong # {} PROVE FALSE
    OBVIOUS
  <2>1. Wrong \in SUBSET Nat
    OBVIOUS
  <2>2. PICK x \in Wrong : \A y \in Wrong : x <= y
    <3> HIDE DEF Wrong
    <3> QED BY <2>1, LeastOf
  <2>3. x # 0
    BY PowerOf
  <2>4. PICK z \in Nat : x = z + 1 /\ ~(x <= z)
    <3>1. x \in Nat /\ x - 1 \in Nat /\ x = (x - 1) + 1 /\ ~(x <= x - 1)
      BY <2>3
    <3> QED BY <3>1
  <2>5. pow2[z] \in Nat \ {0}
    <3>1. z \notin Wrong
      <4> HIDE DEF Wrong
      <4> QED BY <2>2, <2>4
    <3> QED BY <3>1
  <2>6. pow2[x] = 2 * pow2[z]
    BY <2>4, PowerOf
  <2>7. pow2[x] \in Nat \ {0}
    BY <2>5, <2>6
  <2> QED BY <2>7
<1> QED BY <1>1

(* ... and the power of a sum is the product of the powers. *)
LEMMA PowerOfSum ==
    ASSUME NEW a \in Nat, NEW n \in Nat
    PROVE  pow2[a + n] = pow2[a] * pow2[n]
<1> DEFINE Wrong == {x \in Nat : pow2[a + x] # pow2[a] * pow2[x]}
<1>1. Wrong = {}
  <2> SUFFICES ASSUME Wrong # {} PROVE FALSE
    OBVIOUS
  <2>1. Wrong \in SUBSET Nat
    OBVIOUS
  <2>2. PICK x \in Wrong : \A y \in Wrong : x <= y
    <3> HIDE DEF Wrong
    <3> QED BY <2>1, LeastOf
  <2>3. pow2[a] \in Nat
    BY PowerPositive
  <2>4. x # 0
    <3> SUFFICES ASSUME x = 0 PROVE FALSE
      OBVIOUS
    <3>1. pow2[x] = 1 /\ a + x = a
      <4>1. pow2[0] = 1
        BY PowerOf
      <4> QED BY <4>1
    <3>2. pow2[a + x] = pow2[a] * pow2[x]
      BY <3>1, <2>3
    <3> QED BY <3>2
  <2>5. PICK z \in Nat : x = z + 1 /\ ~(x <= z)
    <3>1. x \in Nat /\ x - 1 \in Nat /\ x = (x - 1) + 1 /\ ~(x <= x - 1)
      BY <2>4
    <3> QED BY <3>1
  <2>6. pow2[a + z] = pow2[a] * pow2[z]
    <3>1. z \notin Wrong
      <4> HIDE DEF Wrong
      <4> QED BY <2>2, <2>5
    <3> QED BY <3>1
  <2>7. PICK p \in Nat, q \in Nat, r \in Nat : p = pow2[a] /\ q = pow2[z] /\ r = pow2[a + z]
    BY PowerPositive
  <2>8. pow2[x] = 2 * q
    BY <2>5, <2>7, PowerOf
  <2>9. pow2[a + x] = 2 * r
    <3>1. PICK y \in Nat : y = a + z
      OBVIOUS
    <3>2. a + x = y + 1
      BY <2>5, <3>1
    <3>3. pow2[y + 1] = 2 * pow2[y]
      BY PowerOf
    <3> QED BY <3>1, <3>2, <3>3, <2>7
  <2>10. r = p * q
    BY <2>6, <2>7
  <2>11. p * (2 * q) = 2 * (p * q)
    OBVIOUS
  <2>12. pow2[a + x] = pow2[a] * pow2[x]
    BY <2>7, <2>8, <2>9, <2>10, <2>11
  <2> QED BY <2>12
<1> QED BY <1>1

(* A smaller power divides a larger one. *)
LEMMA PowerDivides ==
    ASSUME NEW a \in Nat, NEW n \in Nat, a <= n
    PROVE  \E k \in Nat \ {0} : pow2[n] = k * pow2[a] /\ pow2[a] <= pow2[n]
<1>1. PICK d \in Nat : n = a + d
  <2>1. n - a \in Nat /\ n = a + (n - a)
    OBVIOUS
  <2> QED BY <2>1
<1>2. pow2[n] = pow2[a] * pow2[d]
  BY <1>1, PowerOfSum
<1>3. PICK p \in Nat \ {0}, k \in Nat \ {0} : p = pow2[a] /\ k = pow2[d]
  BY PowerPositive
<1>4. p * k = k * p /\ p <= k * p
  <2>1. PICK e \in Nat : k = e + 1
    <3>1. k - 1 \in Nat /\ k = (k - 1) + 1
      OBVIOUS
    <3> QED BY <3>1
  <2>2. (e + 1) * p = e * p + p /\ e * p \in Nat
    OBVIOUS
  <2> QED BY <2>1, <2>2
<1> QED BY <1>2, <1>3, <1>4

-----------------------------------------------------------------------------
(* A constant: what a reader of whole groups has when it ends. *)

LEMMA WordIs ==
    ASSUME ConstantsAssumption
    PROVE  /\ Word \in Nat \ {0} /\ Word = 2 * pow2[Bits - 1] /\ Word \div 2 = pow2[Bits - 1]
           /\ pow2[Bits - 1] \in Nat \ {0} /\ Bits \in Nat \ {0}
<1>1. PICK b \in Nat : Bits = b + 1
  <2>1. Bits - 1 \in Nat /\ Bits = (Bits - 1) + 1
    BY DEF ConstantsAssumption
  <2> QED BY <2>1
<1>2. Bits - 1 = b /\ Bits \in Nat \ {0}
  BY <1>1
<1>3. PICK p \in Nat \ {0} : p = pow2[b]
  BY PowerPositive
<1>4. pow2[Bits] = 2 * p
  BY <1>1, <1>3, PowerOf
<1>5. (2 * p) \div 2 = p
  OBVIOUS
<1> QED BY <1>2, <1>3, <1>4, <1>5 DEF Word

(* One group more. *)
LEMMA GroupAdds ==
    ASSUME ConstantsAssumption, NEW v \in Int, NEW s \in Nat
    PROVE  v % pow2[s + Group] = (v % pow2[s]) + GroupOf(v, s) * pow2[s]
<1>1. Group \in Nat
  BY DEF ConstantsAssumption
<1>2. PICK a \in Nat \ {0}, b \in Nat \ {0} : a = pow2[s] /\ b = pow2[Group]
  BY <1>1, PowerPositive
<1>3. pow2[s + Group] = a * b
  BY <1>1, <1>2, PowerOfSum
<1>4. v % (a * b) = (v % a) + ((v \div a) % b) * a
  BY GroupAbove
<1> QED BY <1>2, <1>3, <1>4 DEF GroupOf

(* A remainder by a larger power of two, reduced to a word. *)
LEMMA ReducedToWord ==
    ASSUME ConstantsAssumption, NEW v \in Int, NEW s \in Nat, Bits <= s
    PROVE  (v % pow2[s]) % Word = v % Word
<1>1. Bits \in Nat
  BY DEF ConstantsAssumption
<1>2. PICK k \in Nat \ {0} : pow2[s] = k * pow2[Bits]
  BY <1>1, PowerDivides
<1>3. PICK w \in Nat \ {0} : w = Word
  BY WordIs
<1>4. (v % (k * w)) % w = v % w
  BY RemainderOfRemainder
<1> QED BY <1>2, <1>3, <1>4 DEF Word

LEMMA SmallRemainder ==
    ASSUME NEW w \in Nat \ {0}, NEW v \in 0 .. w - 1
    PROVE  v % w = v
  OBVIOUS

LEMMA NegativeRemainder ==
    ASSUME NEW w \in Nat \ {0}, NEW v \in Int, -w <= v, v < 0
    PROVE  v % w = v + w
<1>1. PICK r \in 0 .. w - 1, q \in Int : r = v + w /\ q = -1
  OBVIOUS
<1>2. q * w = -w
  BY <1>1
<1>3. v = q * w + r
  BY <1>1, <1>2
<1>4. v % w = r
  BY <1>3, QuotientIs
<1> QED BY <1>1, <1>4

(* The last group of a number that fits tells its sign. *)
LEMMA SignOf ==
    ASSUME ConstantsAssumption, NEW s \in Nat, NEW v \in Int,
           -pow2[s + Group - 1] <= v, v < pow2[s + Group - 1]
    PROVE  /\ v >= 0 => GroupOf(v, s) < pow2[Group - 1]
           /\ v < 0 => GroupOf(v, s) >= pow2[Group - 1]
<1>1. Group - 1 \in Nat /\ Group \in Nat
  BY DEF ConstantsAssumption
<1>2. PICK a \in Nat \ {0}, g \in Nat \ {0} : a = pow2[s] /\ g = pow2[Group - 1]
  BY <1>1, PowerPositive
<1>3. PICK h \in Nat : h = g * a
  OBVIOUS
<1>4. pow2[s + Group - 1] = h
  <2>1. PICK n \in Nat : n = Group - 1
    BY <1>1
  <2>2. s + Group - 1 = s + n
    BY <1>1, <2>1
  <2>3. pow2[s + n] = pow2[s] * pow2[n]
    BY PowerOfSum
  <2>4. a * g = g * a
    OBVIOUS
  <2> QED BY <2>1, <2>2, <2>3, <2>4, <1>2, <1>3
<1>5. pow2[Group] = 2 * g
  <2>1. PICK n \in Nat : n = Group - 1
    BY <1>1
  <2>2. Group = n + 1
    BY <1>1, <2>1
  <2>3. pow2[n + 1] = 2 * pow2[n]
    BY PowerOf
  <2> QED BY <2>1, <2>2, <2>3, <1>2
<1>6. PICK q \in Int, r \in 0 .. a - 1 : v = q * a + r
  BY QuotientOf
<1>7. v \div a = q
  BY <1>6, QuotientIs
<1>8. PICK x \in Int : x = q * a
  OBVIOUS
<1>9. v >= 0 => q >= 0 /\ q < g
  <2> SUFFICES ASSUME v >= 0 PROVE q >= 0 /\ q < g
    OBVIOUS
  <2>1. CASE q < 0
    <3>1. PICK e \in Nat : q = -1 - e
      <4>1. -1 - q \in Nat /\ q = -1 - (-1 - q)
        BY <2>1
      <4> QED BY <4>1
    <3>2. (-1 - e) * a = -a - e * a /\ e * a \in Nat
      OBVIOUS
    <3> QED BY <3>1, <3>2, <1>6, <1>8
  <2>2. CASE q >= g
    <3>1. PICK e \in Nat : q = g + e
      <4>1. q - g \in Nat /\ q = g + (q - g)
        BY <2>2
      <4> QED BY <4>1
    <3>2. (g + e) * a = g * a + e * a /\ e * a \in Nat
      OBVIOUS
    <3> QED BY <3>1, <3>2, <1>3, <1>4, <1>6, <1>8
  <2> QED BY <2>1, <2>2
<1>10. v < 0 => q < 0 /\ -g <= q
  <2> SUFFICES ASSUME v < 0 PROVE q < 0 /\ -g <= q
    OBVIOUS
  <2>1. CASE q >= 0
    <3>1. q \in Nat
      BY <2>1
    <3>2. q * a \in Nat
      BY <3>1
    <3> QED BY <3>2, <1>6
  <2>2. CASE q < -g
    <3>1. PICK e \in Nat : q = -g - 1 - e
      <4>1. -g - 1 - q \in Nat /\ q = -g - 1 - (-g - 1 - q)
        BY <2>2
      <4> QED BY <4>1
    <3>2. (-g - 1 - e) * a = -(g * a) - a - e * a /\ e * a \in Nat
      OBVIOUS
    <3> QED BY <3>1, <3>2, <1>3, <1>4, <1>6, <1>8
  <2> QED BY <2>1, <2>2
<1>11. v >= 0 => q % (2 * g) = q
  <2> SUFFICES ASSUME v >= 0 PROVE q % (2 * g) = q
    OBVIOUS
  <2>1. PICK w \in Nat \ {0} : w = 2 * g
    OBVIOUS
  <2>2. q \in 0 .. w - 1
    BY <1>9, <2>1
  <2>3. q % w = q
    BY <2>2, SmallRemainder
  <2> QED BY <2>1, <2>3
<1>12. v < 0 => q % (2 * g) = q + 2 * g
  <2> SUFFICES ASSUME v < 0 PROVE q % (2 * g) = q + 2 * g
    OBVIOUS
  <2>1. PICK w \in Nat \ {0} : w = 2 * g
    OBVIOUS
  <2>2. -w <= q /\ q < 0
    BY <1>10, <2>1
  <2>3. q % w = q + w
    BY <2>2, NegativeRemainder
  <2> QED BY <2>1, <2>3
<1>13. GroupOf(v, s) = q % (2 * g)
  BY <1>2, <1>5, <1>7 DEF GroupOf
<1> QED BY <1>2, <1>9, <1>10, <1>11, <1>12, <1>13

(* What the readers return for n groups of a number. *)
Returned(k, v, n) ==
    LET s == n * Group
        r == (v % pow2[s]) % Word
    IN IF k = "i" /\ s < Bits /\ GroupOf(v, (n - 1) * Group) >= pow2[Group - 1]
         THEN r + (Word - pow2[s]) ELSE r

LEMMA SignedReturn ==
    ASSUME ConstantsAssumption, NEW n \in Nat \ {0}, NEW v \in NumbersOf("i"), Fits("i", v, n)
    PROVE  Returned("i", v, n) = v % Word
<1>1. Group \in Nat \ {0} /\ Bits \in Nat \ {0}
  BY DEF ConstantsAssumption
<1>2. PICK s \in Nat, t \in Nat : s = n * Group /\ t = (n - 1) * Group
  <2>1. PICK m \in Nat : m = n - 1
    OBVIOUS
  <2>2. m * Group \in Nat /\ n * Group \in Nat
    BY <1>1
  <2> QED BY <2>1, <2>2
<1>3. s = t + Group
  <2>1. PICK m \in Nat : m = n - 1 /\ n = m + 1
    <3>1. n - 1 \in Nat /\ n = (n - 1) + 1
      OBVIOUS
    <3> QED BY <3>1
  <2>2. (m + 1) * Group = m * Group + Group
    BY <1>1
  <2> QED BY <2>1, <2>2, <1>2
<1>4. /\ Word \in Nat \ {0} /\ Word = 2 * pow2[Bits - 1] /\ Word \div 2 = pow2[Bits - 1]
      /\ pow2[Bits - 1] \in Nat \ {0}
  BY WordIs
<1>5. v \in Int /\ -pow2[Bits - 1] <= v /\ v < pow2[Bits - 1]
  BY <1>4 DEF NumbersOf
<1>6. CASE s >= Bits
  <2>1. (v % pow2[s]) % Word = v % Word
    BY <1>1, <1>5, <1>6, ReducedToWord
  <2> QED BY <1>1, <1>2, <1>6, <2>1 DEF Returned
<1>7. CASE s < Bits
  <2>1. PICK h \in Nat \ {0} : h = pow2[s - 1] /\ pow2[s] = 2 * h
    <3>1. PICK x \in Nat : x = s - 1 /\ s = x + 1
      <4>1. s - 1 \in Nat /\ s = (s - 1) + 1
        BY <1>1, <1>3
      <4> QED BY <4>1
    <3>2. pow2[x + 1] = 2 * pow2[x] /\ pow2[x] \in Nat \ {0}
      BY PowerOf, PowerPositive
    <3> QED BY <3>1, <3>2
  <2>2. -h <= v /\ v < h
    <3>1. -pow2[n * Group - 1] <= v /\ v < pow2[n * Group - 1]
      BY DEF Fits
    <3>2. n * Group - 1 = s - 1
      BY <1>2
    <3> QED BY <3>1, <3>2, <2>1
  <2>3. 2 * h <= Word
    <3>1. pow2[s] <= pow2[Bits]
      BY <1>1, <1>7, PowerDivides
    <3> QED BY <3>1, <2>1 DEF Word
  <2>4. /\ v >= 0 => GroupOf(v, t) < pow2[Group - 1]
        /\ v < 0 => GroupOf(v, t) >= pow2[Group - 1]
    <3>1. t + Group - 1 = s - 1
      BY <1>1, <1>3
    <3>2. -pow2[t + Group - 1] <= v /\ v < pow2[t + Group - 1]
      BY <3>1, <2>1, <2>2
    <3> QED BY <3>2, <1>5, SignOf
  <2>5. pow2[Group - 1] \in Nat /\ GroupOf(v, t) \in Int
    <3>1. PICK x \in Nat : x = Group - 1
      BY <1>1
    <3>2. PICK a \in Nat \ {0}, b \in Nat \ {0} : a = pow2[t] /\ b = pow2[Group]
      BY <1>1, PowerPositive
    <3>3. (v \div a) % b \in Int
      BY <1>5
    <3>4. pow2[x] \in Nat
      BY PowerPositive
    <3> QED BY <3>1, <3>2, <3>3, <3>4 DEF GroupOf
  <2>6. PICK w \in Nat \ {0}, p \in Nat \ {0} : w = Word /\ p = 2 * h
    BY <1>4
  <2>7. CASE v >= 0
    <3>1. v \in 0 .. p - 1 /\ v \in 0 .. w - 1
      BY <2>2, <2>3, <2>6, <2>7, <1>5
    <3>2. v % p = v /\ v % w = v
      BY <3>1, SmallRemainder
    <3>3. (v % pow2[s]) % Word = v
      BY <3>2, <2>1, <2>6
    <3>4. ~(GroupOf(v, t) >= pow2[Group - 1])
      BY <2>4, <2>5, <2>7
    <3> QED BY <3>2, <3>3, <3>4, <1>2, <2>6 DEF Returned
  <2>8. CASE v < 0
    <3>1. -p <= v /\ -w <= v
      BY <2>2, <2>3, <2>6, <1>5
    <3>2. v % p = v + p /\ v % w = v + w
      BY <3>1, <2>8, <1>5, NegativeRemainder
    <3>3. PICK y \in 0 .. w - 1 : y = v + p
      BY <2>2, <2>3, <2>6, <2>8, <1>5
    <3>4. y % w = y
      BY SmallRemainder
    <3>5. (v % pow2[s]) % Word = v + p
      BY <3>2, <3>3, <3>4, <2>1, <2>6
    <3>6. GroupOf(v, t) >= pow2[Group - 1] /\ pow2[s] = p
      BY <2>4, <2>8, <2>1, <2>6
    <3>7. Returned("i", v, n) = (v + p) + (w - p)
      BY <3>5, <3>6, <1>2, <1>7, <2>6 DEF Returned
    <3> QED BY <3>2, <3>7, <2>6, <1>5
  <2> QED BY <2>7, <2>8, <1>5
<1> QED BY <1>1, <1>2, <1>6, <1>7

LEMMA UnsignedReturn ==
    ASSUME ConstantsAssumption, NEW n \in Nat \ {0}, NEW v \in NumbersOf("u"), Fits("u", v, n)
    PROVE  Returned("u", v, n) = v % Word
<1>1. Group \in Nat \ {0}
  BY DEF ConstantsAssumption
<1>2. PICK s \in Nat : s = n * Group
  <2>1. n * Group \in Nat
    BY <1>1
  <2> QED BY <2>1
<1>3. PICK p \in Nat \ {0} : p = pow2[s]
  BY PowerPositive
<1>4. Word \in Nat \ {0}
  BY WordIs
<1>5. v \in 0 .. p - 1
  BY <1>2, <1>3, <1>4 DEF NumbersOf, Fits
<1>6. v % p = v
  BY <1>5, SmallRemainder
<1> QED BY <1>2, <1>3, <1>6 DEF Returned

-----------------------------------------------------------------------------
(* A constant: the invariant. *)

Bytes == [more : BOOLEAN, bits : Nat]
ByteAt(n, j) == [more |-> j < n, bits |-> GroupOf(meant, (j - 1) * Group)]

(* count of the n groups of the number are read: the value has their bits, the
   buffer the others and what follows *)
ReadingOf(n) ==
    /\ meant \in NumbersOf(kind) /\ Fits(kind, meant, n)
    /\ count \in 0 .. n /\ shift = count * Group
    /\ value = (meant % pow2[shift]) % Word
    /\ bytes \in Seq(Bytes) /\ Len(bytes) = n - count + 1
    /\ \A j \in 1 .. n - count : bytes[j] = ByteAt(n, count + j)
    /\ bytes[n - count + 1] = Following
    /\ count > 0 => byte = ByteAt(n, count)
    /\ stopped \in BOOLEAN /\ (stopped <=> count = n)

WrittenLiteral == <<IF kind = "i" THEN IntegerLiteral(Extended) ELSE FloatLiteral(meant)>>

ConstantInv ==
    /\ kind \in Kinds
    /\ kind \in {"u", "i"} => \E n \in 1 .. MaxByteCount : ReadingOf(n)
    /\ kind \notin {"u", "i"} => meant \in Patterns(kind) /\ stopped = TRUE /\ bytes = <<Following>>
    /\ literal # <<>> => kind # "u" /\ stopped = TRUE /\ literal = WrittenLiteral

LEMMA ReaderLimits ==
    ASSUME ConstantsAssumption
    PROVE  MaxByteCount \in Int /\ Group \in Nat \ {0} /\ Word \in Nat \ {0}
<1>1. \A x \in Int : x \div Group \in Int
  BY DEF ConstantsAssumption
<1>2. Bits + Group - 1 \in Int
  BY DEF ConstantsAssumption
<1> QED BY <1>1, <1>2, WordIs DEF MaxByteCount, ConstantsAssumption

LEMMA NumbersAre ==
    ASSUME ConstantsAssumption, NEW k \in {"u", "i"}
    PROVE  NumbersOf(k) \in SUBSET Int
  BY WordIs DEF NumbersOf

LEMMA GroupBits ==
    ASSUME ConstantsAssumption, NEW v \in Int, NEW s \in Nat
    PROVE  GroupOf(v, s) \in Nat
<1>1. PICK a \in Nat \ {0}, b \in Nat \ {0} : a = pow2[s] /\ b = pow2[Group]
  BY PowerPositive DEF ConstantsAssumption
<1>2. (v \div a) \in Int
  OBVIOUS
<1>3. (v \div a) % b \in Nat
  BY <1>2
<1> QED BY <1>1, <1>3 DEF GroupOf

LEMMA ByteIs ==
    ASSUME ConstantsAssumption, NEW v \in Int, NEW n \in Nat, NEW j \in Nat \ {0}
    PROVE  [more |-> j < n, bits |-> GroupOf(v, (j - 1) * Group)] \in Bytes
<1>1. PICK m \in Nat : m = j - 1
  OBVIOUS
<1>2. m * Group \in Nat
  BY DEF ConstantsAssumption
<1>3. GroupOf(v, m * Group) \in Nat
  BY <1>2, GroupBits
<1> QED BY <1>1, <1>3 DEF Bytes

LEMMA FirstConstant ==
    ASSUME ConstantsAssumption, ConstantInit
    PROVE  ConstantInv
<1>1. kind \in Kinds /\ literal = <<>> /\ value = 0 /\ shift = 0 /\ count = 0
  BY DEF ConstantInit
<1>2. ASSUME kind \in {"u", "i"} PROVE \E n \in 1 .. MaxByteCount : ReadingOf(n)
  <2>1. PICK n \in 1 .. MaxByteCount : Fits(kind, meant, n) /\ bytes = Append(Encoding(meant, n), Following)
    BY <1>2 DEF ConstantInit
  <2>2. meant \in NumbersOf(kind) /\ stopped = FALSE
    BY <1>2 DEF ConstantInit
  <2>3. n \in Nat \ {0} /\ meant \in Int
    BY <1>2, <2>2, ReaderLimits, NumbersAre
  <2>4. PICK e : e = Encoding(meant, n)
    OBVIOUS
  <2>5. e = [j \in 1 .. n |-> ByteAt(n, j)]
    BY <2>4 DEF Encoding, ByteAt
  <2>6. \A j \in 1 .. n : ByteAt(n, j) \in Bytes
    BY <2>3, ByteIs DEF ByteAt
  <2>7. e \in Seq(Bytes) /\ Len(e) = n /\ \A j \in 1 .. n : e[j] = ByteAt(n, j)
    <3>1. e \in [1 .. n -> Bytes]
      BY <2>5, <2>6
    <3> QED BY <3>1, <2>3, <2>5
  <2>8. Following \in Bytes
    BY DEF Following, Bytes
  <2>9. PICK f : f = Following
    OBVIOUS
  <2>10. bytes \in Seq(Bytes) /\ Len(bytes) = n + 1 /\ bytes[n + 1] = f
         /\ \A j \in 1 .. n : bytes[j] = e[j]
    BY <2>1, <2>3, <2>4, <2>7, <2>8, <2>9
  <2>11. value = (meant % pow2[shift]) % Word /\ shift = count * Group
    <3>1. pow2[0] = 1
      BY PowerOf
    <3>2. meant % 1 = 0
      BY <2>3
    <3>3. 0 % Word = 0 /\ 0 * Group = 0
      BY ReaderLimits
    <3> QED BY <3>1, <3>2, <3>3, <1>1
  <2>12. ReadingOf(n)
    <3>1. n - count = n /\ count \in 0 .. n /\ ~(count > 0) /\ count # n
      BY <1>1, <2>3
    <3>3. stopped \in BOOLEAN /\ ~stopped
      BY <2>2
    <3>2. \A j \in 1 .. n : bytes[j] = ByteAt(n, count + j)
      BY <2>7, <2>10, <1>1
    <3> QED BY <3>1, <3>2, <3>3, <2>1, <2>2, <2>9, <2>10, <2>11 DEF ReadingOf
  <2> QED BY <2>12
<1>3. kind \notin {"u", "i"} => meant \in Patterns(kind) /\ stopped = TRUE /\ bytes = <<Following>>
  BY DEF ConstantInit
<1> QED BY <1>1, <1>2, <1>3 DEF ConstantInv

(* One turn of the loop of leb128Read. *)
LEMMA ReadKeeps ==
    ASSUME ConstantsAssumption, ConstantInv, leb128Read
    PROVE  ConstantInv'
<1>1. /\ stopped = FALSE /\ kind' = kind /\ meant' = meant /\ literal' = literal
      /\ byte' = Head(bytes) /\ bytes' = Tail(bytes) /\ count' = count + 1
      /\ shift' = shift + Group /\ stopped' = (~byte'.more \/ TooLong)
      /\ value' = (value + byte'.bits * pow2[shift]) % Word
  <2>1. ~stopped /\ stopped \in BOOLEAN
    BY DEF leb128Read, ConstantInv, ReadingOf
  <2> QED BY <2>1 DEF leb128Read
<1>2. kind \in {"u", "i"} /\ literal = <<>>
  BY <1>1 DEF ConstantInv
<1>3. PICK n \in 1 .. MaxByteCount : ReadingOf(n)
  BY <1>2 DEF ConstantInv
<1>4. n \in Nat \ {0} /\ n <= MaxByteCount /\ meant \in Int /\ Group \in Nat \ {0} /\ Word \in Nat \ {0}
  BY <1>2, <1>3, ReaderLimits, NumbersAre DEF ReadingOf
<1>5. count \in Nat /\ count < n
  BY <1>1, <1>3, <1>4 DEF ReadingOf
<1>6. byte' = ByteAt(n, count + 1)
  <2>1. bytes # <<>> /\ Head(bytes) = bytes[1]
    BY <1>3, <1>4, <1>5 DEF ReadingOf
  <2>2. 1 \in 1 .. n - count
    BY <1>4, <1>5
  <2> QED BY <1>1, <1>3, <2>1, <2>2 DEF ReadingOf
<1>7. byte'.more = (count + 1 < n) /\ byte'.bits = GroupOf(meant, shift)
  <2>1. (count + 1) - 1 = count
    BY <1>5
  <2> QED BY <1>6, <2>1, <1>3 DEF ByteAt, ReadingOf
<1>8. stopped' \in BOOLEAN /\ (stopped' <=> count' = n)
  <2>1. TooLong <=> count + 1 = MaxByteCount
    BY DEF TooLong
  <2>2. (byte').more <=> count + 1 < n
    BY <1>7
  <2>3. stopped' \in BOOLEAN /\ (stopped' <=> ~(byte').more \/ TooLong)
    BY <1>1
  <2>4. (~(count + 1 < n) \/ count + 1 = MaxByteCount) <=> count + 1 = n
    BY <1>4, <1>5, ReaderLimits
  <2>5. count' = count + 1
    BY <1>1
  <2> QED BY <2>1, <2>2, <2>3, <2>4, <2>5
<1>9. shift \in Nat /\ shift' = count' * Group
  <2>1. shift = count * Group /\ count * Group \in Nat
    BY <1>3, <1>4, <1>5 DEF ReadingOf
  <2>2. (count + 1) * Group = count * Group + Group
    BY <1>4, <1>5
  <2> QED BY <1>1, <2>1, <2>2
<1>10. value' = (meant % pow2[shift']) % Word
  <2>1. PICK x \in Int, y \in Int, w \in Nat \ {0} :
          x = meant % pow2[shift] /\ y = GroupOf(meant, shift) * pow2[shift] /\ w = Word
    <3>1. PICK p \in Nat \ {0} : p = pow2[shift]
      BY <1>9, PowerPositive
    <3>2. GroupOf(meant, shift) \in Nat
      BY <1>4, <1>9, GroupBits
    <3>3. meant % p \in Int /\ GroupOf(meant, shift) * p \in Int
      BY <1>4, <3>2
    <3> QED BY <1>4, <3>1, <3>3
  <2>2. ((x % w) + y) % w = (x + y) % w
    BY ReducedSum
  <2>3. meant % pow2[shift + Group] = x + y
    BY <1>4, <1>9, <2>1, GroupAdds
  <2>4. value = x % w
    BY <1>3, <2>1 DEF ReadingOf
  <2> QED BY <1>1, <1>7, <2>1, <2>2, <2>3, <2>4
<1>11. /\ bytes' \in Seq(Bytes) /\ Len(bytes') = n - count' + 1 /\ bytes'[n - count' + 1] = Following
       /\ \A j \in 1 .. n - count' : bytes'[j] = ByteAt(n, count' + j)
  <2>1. PICK b : b = bytes
    OBVIOUS
  <2>2. PICK m \in Nat : m = n - count /\ m > 0
    BY <1>4, <1>5
  <2>3. b \in Seq(Bytes) /\ Len(b) = m + 1 /\ b[m + 1] = Following
        /\ \A j \in 1 .. m : b[j] = ByteAt(n, count + j)
    BY <1>3, <2>2, <2>1 DEF ReadingOf
  <2>4. b # <<>> /\ Tail(b) \in Seq(Bytes) /\ Len(Tail(b)) = m
        /\ \A j \in 1 .. m : Tail(b)[j] = b[j + 1]
    BY <2>2, <2>1, <2>3
  <2>5. n - count' = m - 1 /\ n - count' + 1 = m
    BY <1>1, <1>4, <1>5, <2>2
  <2>6. Tail(b)[m] = Following
    BY <2>2, <2>3, <2>4
  <2>7. ASSUME NEW j \in 1 .. m - 1 PROVE Tail(b)[j] = ByteAt(n, count' + j)
    <3>1. j + 1 \in 1 .. m /\ count + (j + 1) = count' + j /\ j \in 1 .. m
      BY <1>1, <1>5, <2>2
    <3>2. b[j + 1] = ByteAt(n, count + (j + 1))
      BY <2>3, <3>1
    <3> QED BY <2>4, <3>1, <3>2
  <2> QED BY <1>1, <2>1, <2>4, <2>5, <2>6, <2>7
<1>12. ReadingOf(n)'
  <2>1. \A j : ByteAt(n, j)' = ByteAt(n, j)
    BY <1>1 DEF ByteAt
  <2>2. meant' \in NumbersOf(kind') /\ Fits(kind', meant', n)
    BY <1>1, <1>3 DEF ReadingOf
  <2>3. count' \in 0 .. n
    BY <1>1, <1>4, <1>5
  <2> QED BY <1>1, <1>6, <1>8, <1>9, <1>10, <1>11, <2>1, <2>2, <2>3 DEF ReadingOf
<1>13. kind' \in Kinds
  BY <1>1 DEF ConstantInv
<1> QED BY <1>1, <1>2, <1>12, <1>13 DEF ConstantInv

(* Writing the literal. *)
LEMMA WriteKeeps ==
    ASSUME ConstantInv, wasmCWriteLiteral
    PROVE  ConstantInv'
<1>1. /\ stopped /\ literal = <<>> /\ kind # "u"
      /\ literal' = WrittenLiteral
      /\ UNCHANGED <<kind, meant, bytes, value, shift, count, byte, stopped>>
  BY DEF wasmCWriteLiteral, WrittenLiteral
<1>2. stopped = TRUE
  BY <1>1 DEF ConstantInv, ReadingOf
<1>3. WrittenLiteral' = WrittenLiteral
  BY <1>1 DEF WrittenLiteral, IntegerLiteral, Extended, Extends, Negative, FloatLiteral, Significand
<1>4. kind \in {"u", "i"} => (\E n \in 1 .. MaxByteCount : ReadingOf(n))'
  <2> SUFFICES ASSUME kind \in {"u", "i"} PROVE \E n \in 1 .. MaxByteCount : ReadingOf(n)'
    OBVIOUS
  <2>1. PICK n \in 1 .. MaxByteCount : ReadingOf(n)
    BY DEF ConstantInv
  <2>2. ReadingOf(n)'
    BY <1>1, <2>1 DEF ReadingOf, ByteAt
  <2> QED BY <2>2
<1> QED BY <1>1, <1>2, <1>3, <1>4 DEF ConstantInv

(* In every state a constant is what has been read of it. *)
THEOREM ConstantInvariance ==
    ASSUME ConstantsAssumption
    PROVE  ConstantSpec => []ConstantInv
<1>1. ConstantInit => ConstantInv
  BY FirstConstant
<1>2. ConstantInv /\ [ConstantNext]_constantVars => ConstantInv'
  <2> SUFFICES ASSUME ConstantInv, [ConstantNext]_constantVars PROVE ConstantInv'
    OBVIOUS
  <2>1. CASE leb128Read
    BY <2>1, ReadKeeps
  <2>2. CASE wasmCWriteLiteral
    BY <2>2, WriteKeeps
  <2>3. CASE UNCHANGED constantVars
    BY <2>3 DEF constantVars, ConstantInv, ReadingOf, ByteAt, WrittenLiteral, IntegerLiteral, Extended,
      Extends, Negative, FloatLiteral, Significand
  <2> QED BY <2>1, <2>2, <2>3 DEF ConstantNext
<1> QED BY <1>1, <1>2, PTL DEF ConstantSpec

(* The reader has the number when it stops. *)
LEMMA ReadIsWhole ==
    ASSUME ConstantsAssumption, ConstantInv
    PROVE  ReadsWholeNumber
<1> SUFFICES ASSUME stopped PROVE bytes = <<Following>> /\ (kind \in {"u", "i"} => Extended = meant % Word)
  BY DEF ReadsWholeNumber
<1>1. CASE kind \notin {"u", "i"}
  BY <1>1 DEF ConstantInv
<1>2. CASE kind \in {"u", "i"}
  <2>1. PICK n \in 1 .. MaxByteCount : ReadingOf(n)
    BY <1>2 DEF ConstantInv
  <2>2. n \in Nat \ {0} /\ count = n
    BY <2>1, ReaderLimits DEF ReadingOf
  <2>3. bytes = <<Following>>
    <3>1. bytes \in Seq(Bytes) /\ Len(bytes) = 1 /\ bytes[1] = Following
      BY <2>1, <2>2 DEF ReadingOf
    <3> QED BY <3>1
  <2>4. Extended = Returned(kind, meant, n)
    <3>1. shift = n * Group /\ value = (meant % pow2[shift]) % Word /\ byte = ByteAt(n, n)
      BY <2>1, <2>2 DEF ReadingOf
    <3>2. byte.bits = GroupOf(meant, (n - 1) * Group)
      BY <3>1 DEF ByteAt
    <3> QED BY <3>1, <3>2 DEF Extended, Extends, Negative, Returned
  <2>5. Returned(kind, meant, n) = meant % Word
    <3>1. meant \in NumbersOf(kind) /\ Fits(kind, meant, n)
      BY <2>1 DEF ReadingOf
    <3>2. CASE kind = "i"
      BY <2>2, <3>1, <3>2, SignedReturn
    <3>3. CASE kind = "u"
      BY <2>2, <3>1, <3>3, UnsignedReturn
    <3> QED BY <1>2, <3>2, <3>3
  <2> QED BY <2>3, <2>4, <2>5
<1> QED BY <1>1, <1>2

(* The C text of a number means it. *)
LEMMA IntegerMeans ==
    ASSUME ConstantsAssumption, NEW v \in 0 .. Word - 1
    PROVE  Meaning(IntegerLiteral(v)) = v
<1>1. PICK w \in Nat \ {0}, h \in Int : w = Word /\ h = Word \div 2
  BY WordIs
<1>2. v % w = v
  BY <1>1, SmallRemainder
<1>3. w - (w - v) = v
  BY <1>1
<1> QED BY <1>1, <1>2, <1>3 DEF Meaning, IntegerLiteral

(* The C text of a float has its bits, where the mask of the significand is the type's. *)
LEMMA FloatMeans ==
    ASSUME kind = "f32", NEW p \in Patterns("f32")
    PROVE  Meaning(FloatLiteral(p)) = p
<1>1. p \in [sign : {0, 1}, ones : BOOLEAN, high : {0, 1}, low : {0, 1}] /\ p.high = 0
  BY DEF Patterns
<1>2. p = [sign |-> p.sign, ones |-> p.ones, high |-> p.high, low |-> p.low]
  BY <1>1
<1>3. CASE p.ones /\ Significand(p) = 0
  <2>1. p.low = 0 /\ p.ones = TRUE /\ p.high = 0
    BY <1>1, <1>3 DEF Significand
  <2>2. p.sign = IF p.sign = 1 THEN 1 ELSE 0
    BY <1>1
  <2>3. Meaning(FloatLiteral(p)) = [sign |-> IF p.sign = 1 THEN 1 ELSE 0, ones |-> TRUE, high |-> 0, low |-> 0]
    BY <1>3 DEF Meaning, FloatLiteral
  <2> QED BY <1>2, <2>1, <2>2, <2>3
<1>4. CASE ~(p.ones /\ Significand(p) = 0)
  BY <1>4 DEF Meaning, FloatLiteral
<1> QED BY <1>3, <1>4

(* Whatever its width, the length of its groups and of its encoding, a constant
   is read to its last byte and the C text has its bits (leb128Read,
   wasmCWriteLiteral).  An f64 is left out: the code masks its significand with
   the mask of an f32. *)
THEOREM ConstantsAreKept ==
    ASSUME ConstantsAssumption, "f64" \notin Kinds
    PROVE  ConstantSpec => []ConstantKept
<1>1. ConstantInv => ConstantKept
  <2> SUFFICES ASSUME ConstantInv PROVE ConstantKept
    OBVIOUS
  <2>1. ReadsWholeNumber
    BY ReadIsWhole
  <2>2. ConstantExact
    <3> SUFFICES ASSUME literal # <<>>
                 PROVE  Meaning(literal[1]) = IF kind = "i" THEN meant % Word ELSE meant
      BY DEF ConstantExact
    <3>1. kind # "u" /\ stopped = TRUE /\ literal = WrittenLiteral /\ kind \in Kinds /\ kind # "f64"
      BY DEF ConstantInv
    <3>2. CASE kind = "i"
      <4>1. Extended = meant % Word
        BY <2>1, <3>1, <3>2 DEF ReadsWholeNumber
      <4>2. meant \in Int
        BY <3>2, NumbersAre DEF ConstantInv, ReadingOf
      <4>3. PICK v \in 0 .. Word - 1 : v = meant % Word
        BY <4>2, ReaderLimits
      <4>4. Meaning(IntegerLiteral(v)) = v
        BY IntegerMeans
      <4> QED BY <3>1, <3>2, <4>1, <4>3, <4>4 DEF WrittenLiteral
    <3>3. CASE kind = "f32"
      <4>1. meant \in Patterns("f32")
        BY <3>3 DEF ConstantInv
      <4>2. Meaning(FloatLiteral(meant)) = meant
        BY <3>3, <4>1, FloatMeans
      <4> QED BY <3>1, <3>3, <4>2 DEF WrittenLiteral
    <3> QED BY <3>1, <3>2, <3>3 DEF ConstantsAssumption
  <2> QED BY <2>1, <2>2 DEF ConstantKept
<1> QED BY <1>1, ConstantInvariance, PTL
===============================================================================
