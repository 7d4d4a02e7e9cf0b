------------------------------ MODULE MCWallet ------------------------------
(* Small wallets for TLC: one user, amounts 1 and 2, an opening of 3.      *)
EXTENDS WalletProps

MCOpening == [u \in Users |-> 3]
MCRefs == {"order", "admin", "deposit"}
MCOrderRefs == {"order"}
UpwardOnly == {1}
BothWays == {-2, 1}
=============================================================================
