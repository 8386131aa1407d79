------------------------------ MODULE StrOrder ------------------------------
(***************************************************************************)
(* Byte-wise string order, as Python's str "<" and git's refname sort use  *)
(* it, on strings given as sequences of character codes.                   *)
(***************************************************************************)
EXTENDS Naturals, Sequences

(* The first differing character decides, and a proper prefix is smaller. *)
RECURSIVE StrLess(_, _)
StrLess(s, t) ==
  IF t = <<>> THEN FALSE
  ELSE IF s = <<>> THEN TRUE
  ELSE IF s[1] # t[1] THEN s[1] < t[1]
  ELSE StrLess(Tail(s), Tail(t))
=============================================================================
