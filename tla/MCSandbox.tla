------------------------------ MODULE MCSandbox ------------------------------
(***************************************************************************)
(* A small process: a memory of at most two bytes, one word of input.      *)
(***************************************************************************)
EXTENDS Sandbox

Segment(active, offset, bytes) == [active |-> active, offset |-> offset, bytes |-> bytes]
Elements(offset, funcs) == [offset |-> offset, funcs |-> funcs]

Runs == [minPages |-> 1, maxPages |-> 2, minTable |-> 1, maxTable |-> 1,
         types |-> <<"v">>, funcs |-> <<1>>,
         data |-> <<Segment(TRUE, 0, <<1>>)>>,
         elems |-> <<Elements(0, <<1>>)>>]
Traps7 == [Runs EXCEPT !.elems[1].offset = 1, !.data = <<Segment(FALSE, 0, <<1>>)>>]

HostModules == {Runs, Traps7}
Words == {<<>>, <<1>>, <<0, 1>>}
=============================================================================
