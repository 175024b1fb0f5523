----------------------------- MODULE MCQrLogin -----------------------------
(* Instance of QrLogin for TLC: two requests at once, two logins. *)
EXTENDS QrLogin, TLC

CONSTANTS a, b, o1, o2

=============================================================================
