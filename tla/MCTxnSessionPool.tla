-------------------------- MODULE MCTxnSessionPool --------------------------
(* Instances of TxnSessionPool for TLC.                                    *)
EXTENDS TxnSessionPool

Symmetry == Permutations(Transactions) \cup Permutations(Sessions)

=============================================================================
