---------------------------- MODULE MCLspSession ----------------------------
(* Two tasks and a file of an empty line; what is inserted is a character    *)
(* that is two units of UTF-16, or ends a line.                              *)
EXTENDS LspSession

MCDisk == [f \in {"f"} |-> <<NL>>]
MCInserts == {<<"w">>, <<NL, "b">>}

=============================================================================
