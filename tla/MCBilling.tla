---- MODULE MCBilling ----
(* Instances of Billing for TLC: one or two requests of one user.           *)
EXTENDS BillingProperties, TLC

CONSTANTS r1, r2, u1, i1, i2, i3, w1, w2

OneOwner == [r \in Requests |-> u1]
AllPaid == [r \in Requests |-> "paid"]
NoExpectation == [r \in Requests |-> 0]
ExpectTwo == [r \in Requests |-> 2]
FreeOfCharge == [r \in Requests |-> 0]
PriceOne == [r \in Requests |-> 1]
NoSku == [r \in Requests |-> FALSE]
OneSku == [r \in Requests |-> r = r1]
WithSku == [r \in Requests |-> TRUE]
ToFirst == [i \in Intents |-> r1]
ToBoth == [i \in Intents |-> IF i = i3 THEN r2 ELSE r1]

(* Two steps of a rate, an inactive one and one too large for the amounts.  *)
Rate(provider, base, coins, active) ==
  [provider |-> provider, base |-> base, coins |-> coins, active |-> active]
Rates == {Rate("iran_gw", 1, 1, TRUE), Rate("iran_gw", 2, 1, TRUE),
          Rate("iran_gw", 3, 9, TRUE), Rate("bazaar_iap", 1, 5, FALSE)}

WorkerSymmetry == Permutations(Workers)
====
