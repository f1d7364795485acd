----------------------------- MODULE MC_Wallet -----------------------------
(***************************************************************************)
(* Values for Wallet's constants that a configuration file cannot write.   *)
(***************************************************************************)
EXTENDS Wallet

\* Either wallet pays for a part of the posting.
SmallBalances == [w \in Wallets |-> 1]

=============================================================================
