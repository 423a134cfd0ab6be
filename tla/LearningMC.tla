------------------------------ MODULE LearningMC ------------------------------
(***************************************************************************)
(* A small instance of Learning: windows of two to four entries, so that   *)
(* each of them fills up and slides.                                       *)
(***************************************************************************)
EXTENDS Learning

\* Nothing, and far more than there ever is.
FewGruValues == {0, 9000}

=============================================================================
