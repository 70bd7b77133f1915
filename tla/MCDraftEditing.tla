---------------------------- MODULE MCDraftEditing ----------------------------
(* Symmetry of DraftEditing: tabs and slides are interchangeable. *)
EXTENDS DraftEditing, TLC

AnyTabAnySlide == Permutations(Tabs) \cup Permutations(Slides)
=============================================================================
