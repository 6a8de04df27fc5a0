---- MODULE CoinRates ----
(***************************************************************************)
(* How many coins a gateway payment is worth (billing/services.py           *)
(* _resolve_coin_rate, billing/models.py ProviderCoinRate).  There is one   *)
(* currency.  base and coins are PositiveIntegerFields, so zero is allowed. *)
(***************************************************************************)
EXTENDS Integers

CONSTANT CoinRateTable    \* the rows of ProviderCoinRate

(* The query of _resolve_coin_rate before its ordering.                     *)
EligibleRates(provider, amount) ==
  {rate \in CoinRateTable : /\ rate.active
                            /\ rate.provider = provider
                            /\ rate.base <= amount}

(* order_by("-base_amount").first(): a set of at most one rate, because     *)
(* (provider, currency, base_amount) is unique.                             *)
ResolveCoinRate(provider, amount) ==
  {rate \in EligibleRates(provider, amount) :
     \A other \in EligibleRates(provider, amount) : other.base <= rate.base}

CoinsForAmount(rate, amount) ==
  IF amount <= 0 \/ rate.base <= 0 THEN 0
  ELSE (amount \div rate.base) * rate.coins

(* The coins a payment may be credited with: none when there is no rate or  *)
(* the rate gives no coins (the two early returns before the wallet lock).  *)
CoinsGranted(provider, amount) ==
  {CoinsForAmount(rate, amount) : rate \in ResolveCoinRate(provider, amount)}
    \ {0}
====
