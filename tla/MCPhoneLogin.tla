---------------------------- MODULE MCPhoneLogin ----------------------------
(***************************************************************************)
(* An instance of PhoneLogin for TLC: two requests at once, and two logins *)
(* one after the other with one phone number, and so one registry key.     *)
(***************************************************************************)
EXTENDS PhoneLogin, TLC

CONSTANTS a, b, phone1, o1, o2

PhoneOfBoth == (a :> phone1) @@ (b :> phone1)

=============================================================================
