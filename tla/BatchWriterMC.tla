----------------------------- MODULE BatchWriterMC -----------------------------
(***************************************************************************)
(* Small instances of BatchWriter: batches of two, so that handlers flush  *)
(* too, and at most one failure of the database.                           *)
(***************************************************************************)
EXTENDS BatchWriter

CONSTANTS r1, r2, r3, r4

\* Two batches; or one and a half, for the runs that show a disagreement.
FourReq == {r1, r2, r3, r4}
ThreeReq == {r1, r2, r3}

\* A request whose row the database never takes, or none.
OneRefused == {r1}
NoneRefused == {}

=============================================================================
