---------------------------- MODULE MCEventRunner ----------------------------
(***************************************************************************)
(* Instances of EventRunner for TLC.  The bot sends a message, edits it    *)
(* and sends another one.                                                  *)
(***************************************************************************)
EXTENDS EventRunner, TLC

Messages == (1 :> 1) @@ (2 :> 1) @@ (3 :> 2)

(* A captcha or a button, then nothing or a poem, then the result. *)
Bot == (1 :> {"captcha", "click"}) @@ (2 :> {"poetry"}) @@ (3 :> {})

(***************************************************************************)
(* With an assertion, which makes the AI fallback possible: a captcha and  *)
(* a text.  Without: a button, and a poem, with a text and a pause between *)
(* them.                                                                   *)
(***************************************************************************)
Programs == {<<"send", "captcha", "send", "assert">>,
             <<"send", "wait", "click", "send", "wait", "poetry">>}

=============================================================================
