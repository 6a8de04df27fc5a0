---- MODULE PhoneNumbers ----
(***************************************************************************)
(* UserManager.normalize_phone (accounts/managers.py), on the digits that   *)
(* str.isdigit leaves of what was typed.  A digit is a natural number: 0 to *)
(* 9 are the ASCII ones, greater numbers those of other scripts, which      *)
(* isdigit keeps and no prefix test recognises.  The plus sign in front of  *)
(* every result is left out.                                                *)
(***************************************************************************)
EXTENDS Naturals, Sequences

Digits == Nat

StartsWith(d, a) == Len(d) >= 1 /\ d[1] = a
StartsWithTwo(d, a, b) == Len(d) >= 2 /\ d[1] = a /\ d[2] = b

Iran == <<9, 8>>

(* 00 in front goes.                                                        *)
International(d) == IF StartsWithTwo(d, 0, 0) THEN SubSeq(d, 3, Len(d)) ELSE d

(* Mutant: the country code is put in front though it is there.             *)
CodedAgain(d) ==
  IF StartsWith(d, 0) THEN Iran \o SubSeq(d, 2, Len(d)) ELSE Iran \o d

(* A number gets the country code unless it has it: in place of a zero, or  *)
(* in front.                                                                *)
Coded(d) == CASE StartsWith(d, 0) -> Iran \o SubSeq(d, 2, Len(d))
              [] StartsWithTwo(d, 9, 8) -> d
              [] OTHER -> Iran \o d

Normalize(d) == Coded(International(d))
====
