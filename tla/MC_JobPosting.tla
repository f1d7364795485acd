---------------------------- MODULE MC_JobPosting ----------------------------
(***************************************************************************)
(* Values for JobPosting's constants that a configuration file cannot      *)
(* write, and the symmetry of the interchangeable workers.                 *)
(***************************************************************************)
EXTENDS JobPosting, TLC

CONSTANTS support, finance

\* The worker wallet pays most of the escrow, the employer wallet the fee and
\* the rest: every escrow holds money of both.
MixedWallet == [w \in Wallets |-> IF w = "EMPLOYER" THEN 2 ELSE 4]

Workers == Permutations(Apps)

=============================================================================
