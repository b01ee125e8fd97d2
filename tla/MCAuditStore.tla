---------------------------- MODULE MCAuditStore ----------------------------
(* Small values for the constants of AuditStore.                           *)
EXTENDS AuditStore, TLC

CONSTANTS r1, d1

MCRuns == {r1}

\* The demo and the server's run work on one ticket in common.
MCWork == (r1 :> <<"T1", "T2">>) @@ (d1 :> <<"T2", "T3">>)

MCSymmetry == Permutations(Requests)
=============================================================================
