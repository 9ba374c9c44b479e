-------------------------- MODULE MCScratchPipeline --------------------------
(* Small instances of ScratchPipeline. *)
EXTENDS ScratchPipeline, TLC

CONSTANTS g1, g2, g3, a1, a2, w1, w2

(* The iterations of main up to the first best response.  A best-response  *)
(* pass is the last one of a run that ends with it.  A run may be saved at *)
(* the end; another process resumes it.                                    *)
ResponseLast == {<<"start", "cfr1">>, <<"cfr1", "cfr0">>, <<"cfr0", "cfr1">>,
                 <<"cfr0", "br">>, <<"cfr0", "save">>, <<"save", "quit">>,
                 <<"br", "quit">>,
                 <<"resumed", "load">>, <<"load", "cfr1">>, <<"load", "br">>}

(* A best-response pass and then another iteration (brFreq). *)
ResponseBetween == {<<"start", "cfr1">>, <<"cfr1", "cfr0">>, <<"cfr0", "cfr1">>,
                    <<"cfr0", "br">>, <<"br", "cfr1">>, <<"br", "quit">>}

TwoFiles == {<<g1, "r0">>, <<g2, "a0">>}
=============================================================================
