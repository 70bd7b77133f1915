------------------------------- MODULE MCDeckRun -------------------------------
(* Symmetry of DeckRun: the pages are interchangeable. *)
EXTENDS DeckRun, TLC

AnyPage == Permutations(Pages)
=============================================================================
