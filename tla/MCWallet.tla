------------------------------- MODULE MCWallet -------------------------------
EXTENDS Wallet, TLC

CONSTANTS f1, f2, vault, c1, c2, w1, w2, k1, k2

(* Request threads are interchangeable, and so are schedulers.  The        *)
(* factories are not: Stored names one of them.                            *)
Symmetry == Permutations(Clients) \cup Permutations(Workers)

=============================================================================
