--------------------------- MODULE MCTaskJournal ---------------------------
(* Small instances of TaskJournal: interchangeable identities. *)
EXTENDS TaskJournal, TLC

Symmetry == Permutations(Scopes) \cup Permutations(Tasks)
              \cup Permutations(Utterances) \cup Permutations(Questions)
=============================================================================
