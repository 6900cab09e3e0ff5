------------------------------ MODULE MCPsiCheck ------------------------------
(* Sections that fit into a packet, that need two, and that are too long. *)
EXTENDS PsiCheck
=============================================================================
