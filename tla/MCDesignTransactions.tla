------------------------ MODULE MCDesignTransactions ------------------------
(* Instances of DesignTransactions for TLC.                                 *)
EXTENDS DesignTransactions

CONSTANTS r1, r2, t1, l1, good, bad

\* Either many calls on transactions and the design, or a few with snapshots.
WorkOrSnapshots == { << 5, 0 >>, << 2, 2 >>, << 1, 3 >> }
FewCalls == { << 5, 0 >> }
=============================================================================
