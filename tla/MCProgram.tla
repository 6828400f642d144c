------------------------------- MODULE MCProgram -------------------------------
(***************************************************************************)
(* A program and what it is linked with: the module that the compiler      *)
(* writes and the translator reads (ModuleReader, CompiledModule), and the *)
(* two parts of its libc that keep state, malloc (Heap) and the FILEs      *)
(* (Stdio).  An instance takes one part at the start and the other parts   *)
(* stand still.                                                            *)
(***************************************************************************)
EXTENDS MCModule, Heap, Stdio

VARIABLE part   \* "module", "heap" or "stdio"

ASSUME PartsAssumption == HeapAssumption /\ RequestsFit /\ StdioAssumption

\* Two files; contents with cells that look like the header of the other file, and
\* an input longer than the first capacity.
MCNames == {"a", "b"}
MCByte == [cell |-> "byte"]
MCData == {<<MCByte>>, <<NameCell("a"), LenCell(1), MCByte>>}
MCInput == <<MCByte, NameCell("b"), MCByte>>

-----------------------------------------------------------------------------
ModuleIdle ==
  source = [kind |-> "none"] /\ phase = "none" /\ buffer = <<>> /\ module = <<>> /\ error = NoError
HeapIdle == heap_top = 0 /\ pages = 0 /\ mem = <<>> /\ held = <<>>
StdioIdle ==
  /\ input = <<>> /\ files = <<>> /\ reading = 0 /\ pending = <<>> /\ out = <<>> /\ closed = <<>> /\ status = 0

ProgramInit ==
  \/ part = "module" /\ Init /\ HeapIdle /\ StdioIdle
  \/ part = "heap" /\ ModuleIdle /\ HeapInit /\ StdioIdle
  \/ part = "stdio" /\ ModuleIdle /\ HeapIdle /\ StdioInit

ProgramNext ==
  \/ part = "module" /\ Next /\ UNCHANGED <<part, heapVars, stdioVars>>
  \/ part = "heap" /\ HeapNext /\ UNCHANGED <<part, vars, stdioVars>>
  \/ part = "stdio" /\ StdioNext /\ UNCHANGED <<part, vars, heapVars>>

ProgramSpec == ProgramInit /\ [][ProgramNext]_<<part, vars, heapVars, stdioVars>>
===============================================================================
