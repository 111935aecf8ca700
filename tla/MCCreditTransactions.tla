------------------------ MODULE MCCreditTransactions ------------------------
(* The instances of CreditTransactions that TLC checks, as initial states of one
   run: two reservations that compete for the balance and the key of one
   account, and batches over two accounts that race with each other and with the
   deletion of an account. *)
EXTENDS CreditTransactions, TLC

CONSTANTS u1, u2, k1, s1, s2

MCOwnerOf == k1 :> u1
MCKeyOf == (1 :> k1) @@ (2 :> k1)
MCAmountOf == (1 :> 1) @@ (2 :> 1)
MCBatch == {<<u1>>, <<u1, u2>>, <<u2, u1>>}
Connections == Permutations(Session)

OneAccount == users = {u1} /\ unissued = {1, 2}
TwoAccounts == users = {u1, u2} /\ unissued = {}

MCInit == StatementInit /\ (OneAccount \/ TwoAccounts)
MCSpec == MCInit /\ [][StatementNext]_statementVars
=============================================================================
