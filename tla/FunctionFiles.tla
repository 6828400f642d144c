---------------------------- MODULE FunctionFiles ----------------------------
(***************************************************************************)
(* Which generated file a function goes to: w2c2/main.c sorts the          *)
(* functions of the module and of the reference module (-r) by hash,       *)
(* merges the two lists into static and dynamic functions, and w2c2/c.c    *)
(* writes them into one file or into files of -f functions each.           *)
(*                                                                         *)
(* qsort is any sort: it may leave elements that compare as equal in any   *)
(* order. A hash is a number; equal bodies have equal hashes.              *)
(***************************************************************************)
EXTENDS Integers, Sequences, SequencesExt, FiniteSets

CONSTANTS
    Hashes,        \* the SHA-1 digests, ordered as memcmp orders them
    MaxFunctions,  \* bound on the functions of a module
    PerFile        \* the values of -f

FilesAssumption ==
    Hashes \subseteq Nat /\ MaxFunctions \in Nat /\ PerFile \subseteq Nat

VARIABLES
    functions, referenceFunctions,       \* hashes, by function index
    hasReference,                        \* -r was given
    functionIDs, referenceFunctionIDs,   \* sorted
    functionID, referenceFunctionID,     \* the cursors of the merge
    staticFunctions, dynamicFunctions,
    functionsPerFile,
    files,                               \* what was written, in order
    filePrefix, fileIndex,               \* the file that is written next
    phase                                \* "sort", "split", "plan", "write", "done", "failed"

lists == <<functions, referenceFunctions, hasReference>>
sorted == <<functionIDs, referenceFunctionIDs>>
cursors == <<functionID, referenceFunctionID>>
filesVars == <<lists, sorted, cursors, staticFunctions, dynamicFunctions,
          functionsPerFile, files, filePrefix, fileIndex, phase>>

-----------------------------------------------------------------------------
Lists == UNION {[1 .. n -> Hashes] : n \in 0 .. MaxFunctions}
IDs(hashes) == {[hash |-> hashes[k], index |-> k] : k \in DOMAIN hashes}

Sign(x, y) == IF x < y THEN -1 ELSE IF x > y THEN 1 ELSE 0

(* mutant: upstream's comparison *)
CompareHashesOnly(a, b) == Sign(a.hash, b.hash)

wasmFunctionIDsCompareHashes(a, b) ==
    IF a.hash # b.hash THEN Sign(a.hash, b.hash) ELSE Sign(a.index, b.index)

(* every list that a correct qsort may return *)
wasmSortedFunctionIDs(hashes) ==
    {s \in SetToSeqs(IDs(hashes)) :
        \A k \in 1 .. Len(s) - 1 : wasmFunctionIDsCompareHashes(s[k], s[k + 1]) <= 0}

FilesInit ==
    /\ functions \in Lists
    /\ hasReference \in BOOLEAN
    /\ referenceFunctions \in IF hasReference THEN Lists ELSE {<<>>}
    /\ functionsPerFile \in PerFile
    /\ functionIDs = <<>> /\ referenceFunctionIDs = <<>>
    /\ functionID = 1 /\ referenceFunctionID = 1
    /\ staticFunctions = <<>> /\ dynamicFunctions = <<>>
    /\ files = <<>> /\ filePrefix = "s" /\ fileIndex = 0
    /\ phase = "sort"

(* main: both lists are sorted; without a reference every function is static *)
Sort ==
    /\ phase = "sort"
    /\ functionIDs' \in wasmSortedFunctionIDs(functions)
    /\ \/ /\ hasReference
          /\ referenceFunctionIDs' \in wasmSortedFunctionIDs(referenceFunctions)
          /\ phase' = "split"
          /\ UNCHANGED staticFunctions
       \/ /\ ~ hasReference
          /\ staticFunctions' = functionIDs'
          /\ phase' = "plan"
          /\ UNCHANGED referenceFunctionIDs
    /\ UNCHANGED <<lists, cursors, dynamicFunctions, functionsPerFile, files,
                   filePrefix, fileIndex>>

-----------------------------------------------------------------------------
(* wasmSplitStaticAndDynamicFunctions *)

BothLeft ==
    /\ functionID \in DOMAIN functionIDs
    /\ referenceFunctionID \in DOMAIN referenceFunctionIDs

Comparison == wasmFunctionIDsCompareHashes(functionIDs[functionID],
                                           referenceFunctionIDs[referenceFunctionID])

(* mutant: a function of the reference that comes first is not skipped but  *)
(* taken for the module's                                                   *)
SkipBoth ==
    /\ BothLeft /\ Comparison > 0
    /\ functionID' = functionID + 1
    /\ referenceFunctionID' = referenceFunctionID + 1
    /\ UNCHANGED <<staticFunctions, dynamicFunctions>>

OnlyInModule ==
    /\ functionID \in DOMAIN functionIDs
    /\ BothLeft => Comparison < 0
    /\ dynamicFunctions' = Append(dynamicFunctions, functionIDs[functionID])
    /\ functionID' = functionID + 1
    /\ UNCHANGED <<referenceFunctionID, staticFunctions>>

OnlyInReference ==
    /\ BothLeft /\ Comparison > 0
    /\ referenceFunctionID' = referenceFunctionID + 1
    /\ UNCHANGED <<functionID, staticFunctions, dynamicFunctions>>

InBoth ==
    /\ BothLeft /\ Comparison = 0
    /\ staticFunctions' = Append(staticFunctions, functionIDs[functionID])
    /\ functionID' = functionID + 1
    /\ referenceFunctionID' = referenceFunctionID + 1
    /\ UNCHANGED dynamicFunctions

SplitStep ==
    /\ phase = "split"
    /\ OnlyInModule \/ OnlyInReference \/ InBoth
    /\ UNCHANGED <<lists, sorted, functionsPerFile, files, filePrefix, fileIndex, phase>>

SplitEnd ==
    /\ phase = "split" /\ functionID \notin DOMAIN functionIDs
    /\ phase' = "plan"
    /\ UNCHANGED <<lists, sorted, cursors, staticFunctions, dynamicFunctions,
                   functionsPerFile, files, filePrefix, fileIndex>>

-----------------------------------------------------------------------------
(* wasmCWriteModuleImplementation: one file, or the static files and then   *)
(* the dynamic ones.                                                        *)

PerFileOrAll == IF functionsPerFile = 0 THEN Len(functions) ELSE functionsPerFile
InOneFile == PerFileOrAll >= Len(functions) /\ dynamicFunctions = <<>>

WriteInOneFile ==
    /\ phase = "plan" /\ InOneFile
    /\ files' = <<staticFunctions>>
    /\ phase' = "done"
    /\ UNCHANGED <<lists, sorted, cursors, staticFunctions, dynamicFunctions,
                   functionsPerFile, filePrefix, fileIndex>>

Plan ==
    /\ phase = "plan" /\ ~ InOneFile
    /\ functionsPerFile' = PerFileOrAll
    /\ phase' = "write"
    /\ UNCHANGED <<lists, sorted, cursors, staticFunctions, dynamicFunctions,
                   files, filePrefix, fileIndex>>

GroupIDs == IF filePrefix = "s" THEN staticFunctions ELSE dynamicFunctions

FileCount(count) == IF count = 0 THEN 0 ELSE 1 + (count - 1) \div functionsPerFile

(* wasmCWriteImplementationFile, which may fail to open or close its file *)
WriteFile ==
    /\ phase = "write" /\ fileIndex < FileCount(Len(GroupIDs))
    /\ LET start == fileIndex * functionsPerFile
           end == IF start + functionsPerFile > Len(GroupIDs)
                  THEN Len(GroupIDs) ELSE start + functionsPerFile
       IN  \/ /\ files' = IF start > end THEN files
                          ELSE Append(files, SubSeq(GroupIDs, start + 1, end))
              /\ fileIndex' = fileIndex + 1
              /\ UNCHANGED phase
           \/ phase' = "failed" /\ UNCHANGED <<files, fileIndex>>
    /\ UNCHANGED <<lists, sorted, cursors, staticFunctions, dynamicFunctions,
                   functionsPerFile, filePrefix>>

NextGroup ==
    /\ phase = "write" /\ fileIndex >= FileCount(Len(GroupIDs))
    /\ filePrefix' = "d" /\ fileIndex' = 0
    /\ phase' = IF filePrefix = "s" THEN "write" ELSE "done"
    /\ UNCHANGED <<lists, sorted, cursors, staticFunctions, dynamicFunctions,
                   functionsPerFile, files>>

FilesNext == Sort \/ SplitStep \/ SplitEnd \/ WriteInOneFile \/ Plan \/ WriteFile \/ NextGroup
FilesSpec == FilesInit /\ [][FilesNext]_filesVars

-----------------------------------------------------------------------------
(* Properties. *)

(***************************************************************************)
(* PATCHES.md, patch 4: the order in which functions are emitted is a      *)
(* function of the module, whatever qsort the translator was built with.   *)
(***************************************************************************)
OrderIsDetermined ==
    phase = "split" =>
        /\ wasmSortedFunctionIDs(functions) = {functionIDs}
        /\ wasmSortedFunctionIDs(referenceFunctions) = {referenceFunctionIDs}

(* where a function is defined: in which file, at which place *)
Lines == UNION {{f} \X DOMAIN files[f] : f \in DOMAIN files}
LinesOf(id) == {p \in Lines : files[p[1]][p[2]] = id}

(***************************************************************************)
(* However the functions are split and grouped, the files that are linked  *)
(* together define every function, and define it once.                     *)
(***************************************************************************)
EveryFunctionOnce ==
    phase = "done" =>
        /\ \A f \in DOMAIN files : ToSet(files[f]) \subseteq IDs(functions)
        /\ \A id \in IDs(functions) : \E p \in Lines : LinesOf(id) = {p}
=============================================================================
