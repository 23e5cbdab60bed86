----------------------------- MODULE MCProgram -----------------------------
(* The backends of the model-checking run of Program. *)
EXTENDS Program

OneBackend == <<"xray">>
=============================================================================
