------------------------- MODULE MCOutputPublication -------------------------
(* Instances of OutputPublication for TLC.                                  *)
EXTENDS OutputPublication

=============================================================================
