------------------------------ MODULE MCRuntime ------------------------------
(***************************************************************************)
(* Small instances of Runtime: pages of two bytes, a 32-bit space of three *)
(* pages, a table arena of two entries.                                    *)
(***************************************************************************)
EXTENDS Runtime

Segment(active, offset, bytes) == [active |-> active, offset |-> offset, bytes |-> bytes]
Elements(offset, funcs) == [offset |-> offset, funcs |-> funcs]

(* Types 1 and 3 are equal, so functions 1 and 3 may stand for each other; *)
(* entry 0 is set twice, entry 1 is null; only the arena limits growth.    *)
Base == [minPages |-> 1, maxPages |-> 3, minTable |-> 2, maxTable |-> 2,
         types |-> <<"i", "v", "i">>, funcs |-> <<1, 2, 3>>,
         data |-> <<Segment(TRUE, 0, <<1, 1>>), Segment(FALSE, 0, <<1>>)>>,
         elems |-> <<Elements(0, <<2>>), Elements(0, <<3>>)>>]

(* Overlapping data segments, a ceiling below the arena. *)
Overlapping == [Base EXCEPT !.maxPages = 1,
                            !.data = <<Segment(TRUE, 0, <<1, 1>>), Segment(TRUE, 1, <<0>>)>>]

(* Modules whose instantiation traps, each at another of its steps. *)
Greedy      == [Base EXCEPT !.minPages = 3]
DataTooFar  == [Base EXCEPT !.data[1].offset = 1]
ElemsTooFar == [Base EXCEPT !.elems[2].offset = 2]
TableTooBig == [Base EXCEPT !.minTable = 3, !.maxTable = 4]

AllModules == {Base, Overlapping, Greedy, DataTooFar, ElemsTooFar, TableTooBig}
=============================================================================
