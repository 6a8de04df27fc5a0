---- MODULE Ledger ----
(***************************************************************************)
(* A wallet with its WalletTransaction rows (billing/models.py), oldest     *)
(* first.  opening is the balance an administrator created the wallet with. *)
(* Constant operators: Billing and Checkout share them.                     *)
(***************************************************************************)
EXTENDS Integers, Sequences

NoWallet == [open |-> FALSE, opening |-> 0, balance |-> 0, entries |-> <<>>]

WalletWith(coins) == [open |-> TRUE, opening |-> coins, balance |-> coins,
                      entries |-> <<>>]

(* wallet.balance += coins, with the row that records it; the wallet is     *)
(* created with balance 0 when there is none.                               *)
Booked(wallet, coins, p) ==
  [wallet EXCEPT !.open = TRUE,
                 !.balance = @ + coins,
                 !.entries = Append(@, [coins |-> coins,
                                        after |-> wallet.balance + coins,
                                        payment |-> p])]

(* Mutant: a withdrawal is looked for in place of a deposit.                *)
HasWithdrawal(wallet, p) ==
  \E n \in DOMAIN wallet.entries : /\ wallet.entries[n].payment = p
                                   /\ wallet.entries[n].coins < 0

(* payment.wallet_transactions.filter(type=DEPOSIT).exists()                *)
HasDeposit(wallet, p) ==
  \E n \in DOMAIN wallet.entries : /\ wallet.entries[n].payment = p
                                   /\ wallet.entries[n].coins > 0
====
