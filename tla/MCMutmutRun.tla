---------------------------- MODULE MCMutmutRun ----------------------------
(* Three mutants: a quick and a slow function of file a, a function of file *)
(* b; of the two tests the second alone reaches the slow function.          *)
EXTENDS MutmutRun

MCMutants == 1..3
MCFileOf == <<"a", "a", "b">>
MCFunctionOf == <<"a.f", "a.g", "b.h">>
MCTests == {"t1", "t2"}
MCCovers == [f \in {"a.f", "a.g", "b.h"} |->
                CASE f = "a.f" -> {"t1"} [] f = "a.g" -> {"t2"} [] OTHER -> {"t1"}]
MCPhaseTimes == [t \in {"t1", "t2"} |-> IF t = "t1" THEN <<0, 1, 0>> ELSE <<0, 1, 1>>]
MCRequests == {{}, {2}}
MCExitCodes == {0, 1, -9, SIGXCPU}

=============================================================================
