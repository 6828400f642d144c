-------------------------------- MODULE MCText --------------------------------
(***************************************************************************)
(* The text that the compiler reads and the text that it writes: the       *)
(* preprocessor, the hash table that its macros are kept in, and the       *)
(* assembler.  An instance takes one part at the start and the other parts *)
(* stand still.                                                            *)
(***************************************************************************)
EXTENDS MCPreprocessor, HashMap

CONSTANTS
  Families, Byte, BASE, PAGE   \* of Assembler

VARIABLES
  part,   \* "preprocessor", "assembler" or "map"
  family, lines, bytes, bss_len, cur, syms, fixups, numeric_count, error, image

A == INSTANCE MCAssembler

ASSUME PartsAssumption == A!SizeAssumption /\ HashMapAssumption

\* The families do not depend on Families.
AssemblerTexts == INSTANCE MCAssembler WITH Families <- {}
MCFamilies == AssemblerTexts!MCFamilies
\* Keys that collide: with four buckets, k1 and k2 start at the last one and wrap
\* around to that of k3; with eight, they start at the one before that of k3.
MCKeys == {"k1", "k2", "k3"}
MCHash == [k \in MCKeys |-> CASE k = "k1" -> 3 [] k = "k2" -> 11 [] k = "k3" -> 4]

-----------------------------------------------------------------------------
assemblerVars == <<family, lines, bytes, bss_len, cur, syms, fixups, numeric_count, error, image>>

PreprocessorIdle ==
  /\ project = "none" /\ input = <<>> /\ output = <<>> /\ macros = <<>> /\ cond_incl = <<>> /\ pragma_once = {}
  /\ include_guards = <<>> /\ include_next_idx = 0 /\ cache = <<>> /\ status = "none"
AssemblerIdle ==
  /\ family = <<>> /\ lines = <<>> /\ bytes = <<>> /\ bss_len = 0 /\ cur = "none" /\ syms = <<>> /\ fixups = <<>>
  /\ numeric_count = <<>> /\ error = FALSE /\ image = "none"
MapIdle ==
  /\ buckets = <<>> /\ used = 0 /\ dictionary = <<>> /\ doubled = {} /\ assertion = TRUE

\* Bound: only k2 is put with different values.
FewValues == \A k \in DOMAIN dictionary \ {"k2"} : dictionary[k] = 1

TextInit ==
  \/ part = "preprocessor" /\ Init /\ AssemblerIdle /\ MapIdle
  \/ part = "assembler" /\ PreprocessorIdle /\ A!Init /\ MapIdle
  \/ part = "map" /\ PreprocessorIdle /\ AssemblerIdle /\ MapInit

TextNext ==
  \/ part = "preprocessor" /\ Next /\ UNCHANGED <<part, assemblerVars, mapVars>>
  \/ part = "assembler" /\ A!Next /\ UNCHANGED <<part, vars, mapVars>>
  \/ part = "map" /\ (MapNext \/ Aborted) /\ FewValues' /\ UNCHANGED <<part, vars, assemblerVars>>

TextSpec == TextInit /\ [][TextNext]_<<part, vars, assemblerVars, mapVars>>

-----------------------------------------------------------------------------
\* Text is refused only when it is wrong (error_tok in preprocess.c).
TakesWellFormed == part = "preprocessor" => RefusesOnlyIllFormed

\* The output is the text that the C standard gives (preprocess2).
OutputIsDefined == part = "preprocessor" => OutputAsDefined

\* The assembler refuses a line only if the line is wrong (asm_error, error).
AssemblesLegal == part = "assembler" => A!RefusesOnlyWrong

\* The bytes of the image mean the program that the lines describe (assemble_elf).
ImageAsWritten == part = "assembler" => A!ProgramAsWritten
===============================================================================
