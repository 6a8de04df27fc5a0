---- MODULE MCAccounts ----
(* Instances of Accounts for TLC.                                           *)
EXTENDS Accounts

(* One number in two spellings, and one that is too long for the column     *)
(* with its country code.                                                   *)
TypedNumbers == {<<0, 1>>, <<0, 0, 9, 8, 1>>, <<1, 1, 1, 1, 1>>}
====
