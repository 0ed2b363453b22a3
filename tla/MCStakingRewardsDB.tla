-------------------------- MODULE MCStakingRewardsDB --------------------------
(* The table of staking rewards for TLC: its addresses are interchangeable. *)
EXTENDS StakingRewardsDB, TLC

AddrSymmetry == Permutations(Addr)

=============================================================================
