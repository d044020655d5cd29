------------------------------ MODULE MCGcMark ------------------------------
(* A small heap: shared children, a cycle, two threads, one of them found   *)
(* late, and a userdata to be finalised that keeps a table alive.           *)
EXTENDS GcMark

HeapRefs == [a |-> <<"b", "c">>, b |-> <<"d">>, c |-> <<"d", "a", "late">>, d |-> <<>>,
             thread |-> <<"d", "b">>, late |-> <<"c">>,
             userdata |-> <<"kept", "d">>, kept |-> <<"userdata">>]
=============================================================================
