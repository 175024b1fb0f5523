-------------------------- MODULE MCTaskExecution --------------------------
(***************************************************************************)
(* Instances of TaskExecution for TLC: two tasks of account acc1 and one   *)
(* of account acc2.  Task t1 is started both by the scheduler (s1) and in  *)
(* the background (b1).                                                    *)
(***************************************************************************)
EXTENDS TaskExecution, TLC

CONSTANTS s1, b1, s2, s3, t1, t2, t3, acc1, acc2

TaskOfAll == (s1 :> t1) @@ (b1 :> t1) @@ (s2 :> t2) @@ (s3 :> t3)

TaskOfThree == (s1 :> t1) @@ (b1 :> t1) @@ (s2 :> t2)

AccountOfAll == (t1 :> acc1) @@ (t2 :> acc1) @@ (t3 :> acc2)

AccountOfTwo == (t1 :> acc1) @@ (t2 :> acc1)

=============================================================================
