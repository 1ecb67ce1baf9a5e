------------------------- MODULE MCDocumentService -------------------------
(* Instances of DocumentService for TLC. *)
EXTENDS DocumentService, TLC

CONSTANTS plain, declaring, u1, u2, ext, v330, v460

\* One text without directives, one with a #version and an #extension.
MCDeclaredVersion == [t \in Texts |-> IF t = declaring THEN v330 ELSE NoVersion]
MCEnabledExtensions == [t \in Texts |-> IF t = declaring THEN {ext} ELSE {}]

Identities == Permutations(Contexts) \cup Permutations(Compilations) \cup Permutations(Requests)
=============================================================================
