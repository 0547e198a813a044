-------------------------- MODULE MCImportPreviews --------------------------
(***************************************************************************)
(* Small instances of ImportPreviews.                                      *)
(***************************************************************************)
EXTENDS ImportPreviews, TLC

Interchangeable ==
    Permutations(Tabs) \cup Permutations(Uploads) \cup Permutations(Tokens)
        \cup Permutations(Households)
=============================================================================
