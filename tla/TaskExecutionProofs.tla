------------------------ MODULE TaskExecutionProofs ------------------------
(***************************************************************************)
(* Proofs about TaskExecution for every set of runs, tasks and accounts    *)
(* and every value of the bounds.  Each part of the inductive invariant    *)
(* Inv is preserved by [Next]_vars given itself and the parts before it;   *)
(* each lemma below has one step per action.                               *)
(***************************************************************************)
EXTENDS TaskExecution, FiniteSetTheorems, TLAPS

(***************************************************************************)
(* Types are preserved; the retry loops stay within their bounds because a *)
(* run only sleeps before a retry it has left.                             *)
(***************************************************************************)
LEMMA TypeInvStep ==
  ASSUME TypeInv, [Next]_vars
  PROVE  TypeInv'
  <1> USE RunsAssumption, BoundsAssumption DEF TypeInv, Shape, RetriesLeft,
          At, Go, PassGate, BuildSigner, ClearFlags, ReleaseLock, StampRunEnd,
          EnterCleanup, RunSigner, SignerEnds, StopDriving, ReleaseSlot, Account,
          Points, Gated, HoldLock, HoldSlot
  <1>1. ASSUME NEW r \in Runs, StartInBackground(r) PROVE TypeInv'
    BY <1>1 DEF StartInBackground
  <1>2. ASSUME NEW r \in Runs, RunScheduled(r) PROVE TypeInv'
    BY <1>2 DEF RunScheduled
  <1>3. ASSUME NEW r \in Runs, BeginInBackground(r) PROVE TypeInv'
    BY <1>3 DEF BeginInBackground
  <1>4. ASSUME NEW r \in Runs, AcquireLock(r) PROVE TypeInv'
    <2>1. CASE pc'[r] = "cooldown"
      BY <1>4, <2>1, SMTT(60) DEF AcquireLock
    <2>2. CASE pc'[r] = "slot_wait"
      BY <1>4, <2>2, SMTT(60) DEF AcquireLock
    <2>3. CASE pc'[r] = "idle"
      BY <1>4, <2>3, SMTT(60) DEF AcquireLock
    <2> QED
      BY <1>4, <2>1, <2>2, <2>3 DEF AcquireLock
  <1>5. ASSUME NEW r \in Runs, LockWaitTimesOut(r) PROVE TypeInv'
    BY <1>5 DEF LockWaitTimesOut
  <1>6. ASSUME NEW r \in Runs, FinishCooldown(r) PROVE TypeInv'
    BY <1>6 DEF FinishCooldown
  <1>7. ASSUME NEW r \in Runs, AcquireSlot(r) PROVE TypeInv'
    BY <1>7 DEF AcquireSlot
  <1>8. ASSUME NEW r \in Runs, SlotWaitTimesOut(r) PROVE TypeInv'
    BY <1>8 DEF SlotWaitTimesOut
  <1>9. ASSUME NEW r \in Runs, SignerSucceeds(r) PROVE TypeInv'
    BY <1>9 DEF SignerSucceeds
  <1>10. ASSUME NEW r \in Runs, SessionLocked(r) PROVE TypeInv'
    BY <1>10 DEF SessionLocked
  <1>11. ASSUME NEW r \in Runs, BusinessFails(r) PROVE TypeInv'
    BY <1>11 DEF BusinessFails
  <1>12. ASSUME NEW r \in Runs, SignerFails(r) PROVE TypeInv'
    BY <1>12 DEF SignerFails
  <1>13. ASSUME NEW r \in Runs, SignerTimesOut(r) PROVE TypeInv'
    BY <1>13 DEF SignerTimesOut
  <1>14. ASSUME NEW r \in Runs, RetrySession(r) PROVE TypeInv'
    BY <1>14 DEF RetrySession
  <1>15. ASSUME NEW r \in Runs, RetryTask(r) PROVE TypeInv'
    BY <1>15 DEF RetryTask
  <1>16. ASSUME NEW r \in Runs, GraceEnds(r) PROVE TypeInv'
    BY <1>16 DEF GraceEnds
  <1>17. ASSUME NEW r \in Runs, LateSignerEnds(r) PROVE TypeInv'
    BY <1>17 DEF LateSignerEnds
  <1>18. ASSUME NEW r \in Runs, Settle(r) PROVE TypeInv'
    BY <1>18 DEF Settle
  <1>19. ASSUME NEW r \in Runs, FinishRun(r) PROVE TypeInv'
    BY <1>19 DEF FinishRun
  <1>20. ASSUME NEW r \in Runs, DeliverCancel(r), CancelWaiting(r) PROVE TypeInv'
    BY <1>20 DEF DeliverCancel, CancelWaiting
  <1>21. ASSUME NEW r \in Runs, DeliverCancel(r), CancelCooldown(r) PROVE TypeInv'
    BY <1>21 DEF DeliverCancel, CancelCooldown
  <1>22. ASSUME NEW r \in Runs, DeliverCancel(r), CancelUnslotted(r) PROVE TypeInv'
    BY <1>22 DEF DeliverCancel, CancelUnslotted
  <1>23. ASSUME NEW r \in Runs, DeliverCancel(r), CancelSlotted(r) PROVE TypeInv'
    BY <1>23 DEF DeliverCancel, CancelSlotted
  <1>24. ASSUME NEW r \in Runs, DeliverCancel(r), CancelCleanup(r) PROVE TypeInv'
    BY <1>24 DEF DeliverCancel, CancelCleanup
  <1>25. CASE Shutdown
    BY <1>25 DEF Shutdown
  <1>26. CASE Tick
    BY <1>26 DEF Tick
  <1>27. CASE UNCHANGED vars
    BY <1>27 DEF vars
  <1> QED
    BY <1>1, <1>2, <1>3, <1>4, <1>5, <1>6, <1>7, <1>8, <1>9, <1>10, <1>11, <1>12, <1>13, <1>14, <1>15, <1>16, <1>17, <1>18, <1>19, <1>20, <1>21, <1>22, <1>23, <1>24, <1>25, <1>26, <1>27
       DEF Next, Launch, Proceed, SignerReturns, DeliverCancel

(***************************************************************************)
(* The flags of a task follow its runs.                                    *)
(***************************************************************************)
LEMMA StatusInvStep ==
  ASSUME TypeInv, StatusInv, [Next]_vars
  PROVE  StatusInv'
  <1> USE RunsAssumption, BoundsAssumption DEF TypeInv, Shape, StatusInv, OneRunPerTask, IsTaskRunning,
          At, Go, PassGate, BuildSigner, ClearFlags, ReleaseLock, StampRunEnd,
          EnterCleanup, RunSigner, SignerEnds, StopDriving, ReleaseSlot, Account,
          Points, Gated, HoldLock, HoldSlot
  <1>1. ASSUME NEW r \in Runs, StartInBackground(r) PROVE StatusInv'
    BY <1>1 DEF StartInBackground
  <1>2. ASSUME NEW r \in Runs, RunScheduled(r) PROVE StatusInv'
    BY <1>2 DEF RunScheduled
  <1>3. ASSUME NEW r \in Runs, BeginInBackground(r) PROVE StatusInv'
    BY <1>3 DEF BeginInBackground
  <1>4. ASSUME NEW r \in Runs, AcquireLock(r) PROVE StatusInv'
    <2>1. CASE pc'[r] = "cooldown"
      BY <1>4, <2>1, SMTT(60) DEF AcquireLock
    <2>2. CASE pc'[r] = "slot_wait"
      BY <1>4, <2>2, SMTT(60) DEF AcquireLock
    <2>3. CASE pc'[r] = "idle"
      BY <1>4, <2>3, SMTT(60) DEF AcquireLock
    <2> QED
      BY <1>4, <2>1, <2>2, <2>3 DEF AcquireLock
  <1>5. ASSUME NEW r \in Runs, LockWaitTimesOut(r) PROVE StatusInv'
    BY <1>5 DEF LockWaitTimesOut
  <1>6. ASSUME NEW r \in Runs, FinishCooldown(r) PROVE StatusInv'
    BY <1>6 DEF FinishCooldown
  <1>7. ASSUME NEW r \in Runs, AcquireSlot(r) PROVE StatusInv'
    BY <1>7 DEF AcquireSlot
  <1>8. ASSUME NEW r \in Runs, SlotWaitTimesOut(r) PROVE StatusInv'
    BY <1>8 DEF SlotWaitTimesOut
  <1>9. ASSUME NEW r \in Runs, SignerSucceeds(r) PROVE StatusInv'
    BY <1>9 DEF SignerSucceeds
  <1>10. ASSUME NEW r \in Runs, SessionLocked(r) PROVE StatusInv'
    BY <1>10 DEF SessionLocked
  <1>11. ASSUME NEW r \in Runs, BusinessFails(r) PROVE StatusInv'
    BY <1>11 DEF BusinessFails
  <1>12. ASSUME NEW r \in Runs, SignerFails(r) PROVE StatusInv'
    BY <1>12 DEF SignerFails
  <1>13. ASSUME NEW r \in Runs, SignerTimesOut(r) PROVE StatusInv'
    BY <1>13 DEF SignerTimesOut
  <1>14. ASSUME NEW r \in Runs, RetrySession(r) PROVE StatusInv'
    BY <1>14 DEF RetrySession
  <1>15. ASSUME NEW r \in Runs, RetryTask(r) PROVE StatusInv'
    BY <1>15 DEF RetryTask
  <1>16. ASSUME NEW r \in Runs, GraceEnds(r) PROVE StatusInv'
    BY <1>16 DEF GraceEnds
  <1>17. ASSUME NEW r \in Runs, LateSignerEnds(r) PROVE StatusInv'
    BY <1>17 DEF LateSignerEnds
  <1>18. ASSUME NEW r \in Runs, Settle(r) PROVE StatusInv'
    BY <1>18 DEF Settle
  <1>19. ASSUME NEW r \in Runs, FinishRun(r) PROVE StatusInv'
    BY <1>19 DEF FinishRun
  <1>20. ASSUME NEW r \in Runs, DeliverCancel(r), CancelWaiting(r) PROVE StatusInv'
    BY <1>20 DEF DeliverCancel, CancelWaiting
  <1>21. ASSUME NEW r \in Runs, DeliverCancel(r), CancelCooldown(r) PROVE StatusInv'
    BY <1>21 DEF DeliverCancel, CancelCooldown
  <1>22. ASSUME NEW r \in Runs, DeliverCancel(r), CancelUnslotted(r) PROVE StatusInv'
    BY <1>22 DEF DeliverCancel, CancelUnslotted
  <1>23. ASSUME NEW r \in Runs, DeliverCancel(r), CancelSlotted(r) PROVE StatusInv'
    BY <1>23 DEF DeliverCancel, CancelSlotted
  <1>24. ASSUME NEW r \in Runs, DeliverCancel(r), CancelCleanup(r) PROVE StatusInv'
    BY <1>24 DEF DeliverCancel, CancelCleanup
  <1>25. CASE Shutdown
    BY <1>25 DEF Shutdown
  <1>26. CASE Tick
    BY <1>26 DEF Tick
  <1>27. CASE UNCHANGED vars
    BY <1>27 DEF vars
  <1> QED
    BY <1>1, <1>2, <1>3, <1>4, <1>5, <1>6, <1>7, <1>8, <1>9, <1>10, <1>11, <1>12, <1>13, <1>14, <1>15, <1>16, <1>17, <1>18, <1>19, <1>20, <1>21, <1>22, <1>23, <1>24, <1>25, <1>26, <1>27
       DEF Next, Launch, Proceed, SignerReturns, DeliverCancel

(***************************************************************************)
(* The lock of an account follows the run that holds it.                   *)
(***************************************************************************)
LEMMA LockStep ==
  ASSUME TypeInv, LockHeldByLiveRun, [Next]_vars
  PROVE  LockHeldByLiveRun'
  <1> USE RunsAssumption, BoundsAssumption DEF TypeInv, Shape, LockHeldByLiveRun,
          At, Go, PassGate, BuildSigner, ClearFlags, ReleaseLock, StampRunEnd,
          EnterCleanup, RunSigner, SignerEnds, StopDriving, ReleaseSlot, Account,
          Points, Gated, HoldLock, HoldSlot
  <1>1. ASSUME NEW r \in Runs, StartInBackground(r) PROVE LockHeldByLiveRun'
    BY <1>1 DEF StartInBackground
  <1>2. ASSUME NEW r \in Runs, RunScheduled(r) PROVE LockHeldByLiveRun'
    BY <1>2 DEF RunScheduled
  <1>3. ASSUME NEW r \in Runs, BeginInBackground(r) PROVE LockHeldByLiveRun'
    BY <1>3 DEF BeginInBackground
  <1>4. ASSUME NEW r \in Runs, AcquireLock(r) PROVE LockHeldByLiveRun'
    <2>1. CASE pc'[r] = "cooldown"
      BY <1>4, <2>1, SMTT(60) DEF AcquireLock
    <2>2. CASE pc'[r] = "slot_wait"
      BY <1>4, <2>2, SMTT(60) DEF AcquireLock
    <2>3. CASE pc'[r] = "idle"
      BY <1>4, <2>3, SMTT(60) DEF AcquireLock
    <2> QED
      BY <1>4, <2>1, <2>2, <2>3 DEF AcquireLock
  <1>5. ASSUME NEW r \in Runs, LockWaitTimesOut(r) PROVE LockHeldByLiveRun'
    BY <1>5 DEF LockWaitTimesOut
  <1>6. ASSUME NEW r \in Runs, FinishCooldown(r) PROVE LockHeldByLiveRun'
    BY <1>6 DEF FinishCooldown
  <1>7. ASSUME NEW r \in Runs, AcquireSlot(r) PROVE LockHeldByLiveRun'
    BY <1>7 DEF AcquireSlot
  <1>8. ASSUME NEW r \in Runs, SlotWaitTimesOut(r) PROVE LockHeldByLiveRun'
    BY <1>8 DEF SlotWaitTimesOut
  <1>9. ASSUME NEW r \in Runs, SignerSucceeds(r) PROVE LockHeldByLiveRun'
    BY <1>9 DEF SignerSucceeds
  <1>10. ASSUME NEW r \in Runs, SessionLocked(r) PROVE LockHeldByLiveRun'
    BY <1>10 DEF SessionLocked
  <1>11. ASSUME NEW r \in Runs, BusinessFails(r) PROVE LockHeldByLiveRun'
    BY <1>11 DEF BusinessFails
  <1>12. ASSUME NEW r \in Runs, SignerFails(r) PROVE LockHeldByLiveRun'
    BY <1>12 DEF SignerFails
  <1>13. ASSUME NEW r \in Runs, SignerTimesOut(r) PROVE LockHeldByLiveRun'
    BY <1>13 DEF SignerTimesOut
  <1>14. ASSUME NEW r \in Runs, RetrySession(r) PROVE LockHeldByLiveRun'
    BY <1>14 DEF RetrySession
  <1>15. ASSUME NEW r \in Runs, RetryTask(r) PROVE LockHeldByLiveRun'
    BY <1>15 DEF RetryTask
  <1>16. ASSUME NEW r \in Runs, GraceEnds(r) PROVE LockHeldByLiveRun'
    BY <1>16 DEF GraceEnds
  <1>17. ASSUME NEW r \in Runs, LateSignerEnds(r) PROVE LockHeldByLiveRun'
    BY <1>17 DEF LateSignerEnds
  <1>18. ASSUME NEW r \in Runs, Settle(r) PROVE LockHeldByLiveRun'
    BY <1>18 DEF Settle
  <1>19. ASSUME NEW r \in Runs, FinishRun(r) PROVE LockHeldByLiveRun'
    BY <1>19 DEF FinishRun
  <1>20. ASSUME NEW r \in Runs, DeliverCancel(r), CancelWaiting(r) PROVE LockHeldByLiveRun'
    BY <1>20 DEF DeliverCancel, CancelWaiting
  <1>21. ASSUME NEW r \in Runs, DeliverCancel(r), CancelCooldown(r) PROVE LockHeldByLiveRun'
    BY <1>21 DEF DeliverCancel, CancelCooldown
  <1>22. ASSUME NEW r \in Runs, DeliverCancel(r), CancelUnslotted(r) PROVE LockHeldByLiveRun'
    BY <1>22 DEF DeliverCancel, CancelUnslotted
  <1>23. ASSUME NEW r \in Runs, DeliverCancel(r), CancelSlotted(r) PROVE LockHeldByLiveRun'
    BY <1>23 DEF DeliverCancel, CancelSlotted
  <1>24. ASSUME NEW r \in Runs, DeliverCancel(r), CancelCleanup(r) PROVE LockHeldByLiveRun'
    BY <1>24 DEF DeliverCancel, CancelCleanup
  <1>25. CASE Shutdown
    BY <1>25 DEF Shutdown
  <1>26. CASE Tick
    BY <1>26 DEF Tick
  <1>27. CASE UNCHANGED vars
    BY <1>27 DEF vars
  <1> QED
    BY <1>1, <1>2, <1>3, <1>4, <1>5, <1>6, <1>7, <1>8, <1>9, <1>10, <1>11, <1>12, <1>13, <1>14, <1>15, <1>16, <1>17, <1>18, <1>19, <1>20, <1>21, <1>22, <1>23, <1>24, <1>25, <1>26, <1>27
       DEF Next, Launch, Proceed, SignerReturns, DeliverCancel

(***************************************************************************)
(* A signer is awaited until its run leaves it behind.                     *)
(***************************************************************************)
LEMMA SignerAwaitedStep ==
  ASSUME TypeInv, SignerAwaited, [Next]_vars
  PROVE  SignerAwaited'
  <1> USE RunsAssumption, BoundsAssumption DEF TypeInv, Shape, SignerAwaited,
          At, Go, PassGate, BuildSigner, ClearFlags, ReleaseLock, StampRunEnd,
          EnterCleanup, RunSigner, SignerEnds, StopDriving, ReleaseSlot, Account,
          Points, Gated, HoldLock, HoldSlot
  <1>1. ASSUME NEW r \in Runs, StartInBackground(r) PROVE SignerAwaited'
    BY <1>1 DEF StartInBackground
  <1>2. ASSUME NEW r \in Runs, RunScheduled(r) PROVE SignerAwaited'
    BY <1>2 DEF RunScheduled
  <1>3. ASSUME NEW r \in Runs, BeginInBackground(r) PROVE SignerAwaited'
    BY <1>3 DEF BeginInBackground
  <1>4. ASSUME NEW r \in Runs, AcquireLock(r) PROVE SignerAwaited'
    <2>1. CASE pc'[r] = "cooldown"
      BY <1>4, <2>1, SMTT(60) DEF AcquireLock
    <2>2. CASE pc'[r] = "slot_wait"
      BY <1>4, <2>2, SMTT(60) DEF AcquireLock
    <2>3. CASE pc'[r] = "idle"
      BY <1>4, <2>3, SMTT(60) DEF AcquireLock
    <2> QED
      BY <1>4, <2>1, <2>2, <2>3 DEF AcquireLock
  <1>5. ASSUME NEW r \in Runs, LockWaitTimesOut(r) PROVE SignerAwaited'
    BY <1>5 DEF LockWaitTimesOut
  <1>6. ASSUME NEW r \in Runs, FinishCooldown(r) PROVE SignerAwaited'
    BY <1>6 DEF FinishCooldown
  <1>7. ASSUME NEW r \in Runs, AcquireSlot(r) PROVE SignerAwaited'
    BY <1>7 DEF AcquireSlot
  <1>8. ASSUME NEW r \in Runs, SlotWaitTimesOut(r) PROVE SignerAwaited'
    BY <1>8 DEF SlotWaitTimesOut
  <1>9. ASSUME NEW r \in Runs, SignerSucceeds(r) PROVE SignerAwaited'
    BY <1>9 DEF SignerSucceeds
  <1>10. ASSUME NEW r \in Runs, SessionLocked(r) PROVE SignerAwaited'
    BY <1>10 DEF SessionLocked
  <1>11. ASSUME NEW r \in Runs, BusinessFails(r) PROVE SignerAwaited'
    BY <1>11 DEF BusinessFails
  <1>12. ASSUME NEW r \in Runs, SignerFails(r) PROVE SignerAwaited'
    BY <1>12 DEF SignerFails
  <1>13. ASSUME NEW r \in Runs, SignerTimesOut(r) PROVE SignerAwaited'
    BY <1>13 DEF SignerTimesOut
  <1>14. ASSUME NEW r \in Runs, RetrySession(r) PROVE SignerAwaited'
    BY <1>14 DEF RetrySession
  <1>15. ASSUME NEW r \in Runs, RetryTask(r) PROVE SignerAwaited'
    BY <1>15 DEF RetryTask
  <1>16. ASSUME NEW r \in Runs, GraceEnds(r) PROVE SignerAwaited'
    BY <1>16 DEF GraceEnds
  <1>17. ASSUME NEW r \in Runs, LateSignerEnds(r) PROVE SignerAwaited'
    BY <1>17 DEF LateSignerEnds
  <1>18. ASSUME NEW r \in Runs, Settle(r) PROVE SignerAwaited'
    BY <1>18 DEF Settle
  <1>19. ASSUME NEW r \in Runs, FinishRun(r) PROVE SignerAwaited'
    BY <1>19 DEF FinishRun
  <1>20. ASSUME NEW r \in Runs, DeliverCancel(r), CancelWaiting(r) PROVE SignerAwaited'
    BY <1>20 DEF DeliverCancel, CancelWaiting
  <1>21. ASSUME NEW r \in Runs, DeliverCancel(r), CancelCooldown(r) PROVE SignerAwaited'
    BY <1>21 DEF DeliverCancel, CancelCooldown
  <1>22. ASSUME NEW r \in Runs, DeliverCancel(r), CancelUnslotted(r) PROVE SignerAwaited'
    BY <1>22 DEF DeliverCancel, CancelUnslotted
  <1>23. ASSUME NEW r \in Runs, DeliverCancel(r), CancelSlotted(r) PROVE SignerAwaited'
    BY <1>23 DEF DeliverCancel, CancelSlotted
  <1>24. ASSUME NEW r \in Runs, DeliverCancel(r), CancelCleanup(r) PROVE SignerAwaited'
    BY <1>24 DEF DeliverCancel, CancelCleanup
  <1>25. CASE Shutdown
    BY <1>25 DEF Shutdown
  <1>26. CASE Tick
    BY <1>26 DEF Tick
  <1>27. CASE UNCHANGED vars
    BY <1>27 DEF vars
  <1> QED
    BY <1>1, <1>2, <1>3, <1>4, <1>5, <1>6, <1>7, <1>8, <1>9, <1>10, <1>11, <1>12, <1>13, <1>14, <1>15, <1>16, <1>17, <1>18, <1>19, <1>20, <1>21, <1>22, <1>23, <1>24, <1>25, <1>26, <1>27
       DEF Next, Launch, Proceed, SignerReturns, DeliverCancel

(***************************************************************************)
(* The cooldown a run sleeps through covers the rest its account still     *)
(* needs.                                                                  *)
(***************************************************************************)
LEMMA RestInvStep ==
  ASSUME TypeInv, LockHeldByLiveRun, RestInv, [Next]_vars
  PROVE  RestInv'
  <1> USE RunsAssumption, BoundsAssumption DEF TypeInv, Shape, LockHeldByLiveRun, RestInv,
          At, Go, PassGate, BuildSigner, ClearFlags, ReleaseLock, StampRunEnd,
          EnterCleanup, RunSigner, SignerEnds, StopDriving, ReleaseSlot, Account,
          Points, Gated, HoldLock, HoldSlot
  <1>1. ASSUME NEW r \in Runs, StartInBackground(r) PROVE RestInv'
    BY <1>1 DEF StartInBackground
  <1>2. ASSUME NEW r \in Runs, RunScheduled(r) PROVE RestInv'
    BY <1>2 DEF RunScheduled
  <1>3. ASSUME NEW r \in Runs, BeginInBackground(r) PROVE RestInv'
    BY <1>3 DEF BeginInBackground
  <1>4. ASSUME NEW r \in Runs, AcquireLock(r) PROVE RestInv'
    <2>1. CASE pc'[r] = "cooldown"
      BY <1>4, <2>1, SMTT(60) DEF AcquireLock
    <2>2. CASE pc'[r] = "slot_wait"
      BY <1>4, <2>2, SMTT(60) DEF AcquireLock
    <2>3. CASE pc'[r] = "idle"
      BY <1>4, <2>3, SMTT(60) DEF AcquireLock
    <2> QED
      BY <1>4, <2>1, <2>2, <2>3 DEF AcquireLock
  <1>5. ASSUME NEW r \in Runs, LockWaitTimesOut(r) PROVE RestInv'
    BY <1>5 DEF LockWaitTimesOut
  <1>6. ASSUME NEW r \in Runs, FinishCooldown(r) PROVE RestInv'
    BY <1>6 DEF FinishCooldown
  <1>7. ASSUME NEW r \in Runs, AcquireSlot(r) PROVE RestInv'
    BY <1>7 DEF AcquireSlot
  <1>8. ASSUME NEW r \in Runs, SlotWaitTimesOut(r) PROVE RestInv'
    BY <1>8 DEF SlotWaitTimesOut
  <1>9. ASSUME NEW r \in Runs, SignerSucceeds(r) PROVE RestInv'
    BY <1>9 DEF SignerSucceeds
  <1>10. ASSUME NEW r \in Runs, SessionLocked(r) PROVE RestInv'
    BY <1>10 DEF SessionLocked
  <1>11. ASSUME NEW r \in Runs, BusinessFails(r) PROVE RestInv'
    BY <1>11 DEF BusinessFails
  <1>12. ASSUME NEW r \in Runs, SignerFails(r) PROVE RestInv'
    BY <1>12 DEF SignerFails
  <1>13. ASSUME NEW r \in Runs, SignerTimesOut(r) PROVE RestInv'
    BY <1>13 DEF SignerTimesOut
  <1>14. ASSUME NEW r \in Runs, RetrySession(r) PROVE RestInv'
    BY <1>14 DEF RetrySession
  <1>15. ASSUME NEW r \in Runs, RetryTask(r) PROVE RestInv'
    BY <1>15 DEF RetryTask
  <1>16. ASSUME NEW r \in Runs, GraceEnds(r) PROVE RestInv'
    BY <1>16 DEF GraceEnds
  <1>17. ASSUME NEW r \in Runs, LateSignerEnds(r) PROVE RestInv'
    BY <1>17 DEF LateSignerEnds
  <1>18. ASSUME NEW r \in Runs, Settle(r) PROVE RestInv'
    BY <1>18 DEF Settle
  <1>19. ASSUME NEW r \in Runs, FinishRun(r) PROVE RestInv'
    BY <1>19 DEF FinishRun
  <1>20. ASSUME NEW r \in Runs, DeliverCancel(r), CancelWaiting(r) PROVE RestInv'
    BY <1>20 DEF DeliverCancel, CancelWaiting
  <1>21. ASSUME NEW r \in Runs, DeliverCancel(r), CancelCooldown(r) PROVE RestInv'
    BY <1>21 DEF DeliverCancel, CancelCooldown
  <1>22. ASSUME NEW r \in Runs, DeliverCancel(r), CancelUnslotted(r) PROVE RestInv'
    BY <1>22 DEF DeliverCancel, CancelUnslotted
  <1>23. ASSUME NEW r \in Runs, DeliverCancel(r), CancelSlotted(r) PROVE RestInv'
    BY <1>23 DEF DeliverCancel, CancelSlotted
  <1>24. ASSUME NEW r \in Runs, DeliverCancel(r), CancelCleanup(r) PROVE RestInv'
    BY <1>24 DEF DeliverCancel, CancelCleanup
  <1>25. CASE Shutdown
    BY <1>25 DEF Shutdown
  <1>26. CASE Tick
    BY <1>26 DEF Tick
  <1>27. CASE UNCHANGED vars
    BY <1>27 DEF vars
  <1> QED
    BY <1>1, <1>2, <1>3, <1>4, <1>5, <1>6, <1>7, <1>8, <1>9, <1>10, <1>11, <1>12, <1>13, <1>14, <1>15, <1>16, <1>17, <1>18, <1>19, <1>20, <1>21, <1>22, <1>23, <1>24, <1>25, <1>26, <1>27
       DEF Next, Launch, Proceed, SignerReturns, DeliverCancel

-----------------------------------------------------------------------------

Holders == {r \in Runs : pc[r] \in HoldSlot}

(* A run that takes a slot is one holder more. *)
LEMMA TakesSlot ==
  ASSUME NEW r \in Runs, Holders' = Holders \cup {r}, r \notin Holders
  PROVE  Cardinality(Holders') = Cardinality(Holders) + 1
  <1>1. IsFiniteSet(Holders)
    BY FS_Subset, RunsAssumption DEF Holders
  <1> QED
    BY <1>1, FS_AddElement

(* A run that gives its slot back is one holder less. *)
LEMMA GivesSlotBack ==
  ASSUME NEW r \in Runs, Holders' = Holders \ {r}, r \in Holders
  PROVE  Cardinality(Holders') = Cardinality(Holders) - 1
  <1>1. IsFiniteSet(Holders)
    BY FS_Subset, RunsAssumption DEF Holders
  <1> QED
    BY <1>1, FS_RemoveElement

(***************************************************************************)
(* Every step moves permits and the set of holders together: the only run  *)
(* that takes a slot is one whose wait for it ended, and each way out of   *)
(* HoldSlot gives exactly one back.                                        *)
(***************************************************************************)
LEMMA SlotsStep ==
  ASSUME TypeInv, SlotsConserved, [Next]_vars
  PROVE  SlotsConserved'
  <1>1. Cardinality(Holders) \in Nat /\ permits \in Nat /\ GlobalLimit \in Nat
    BY FS_Subset, FS_CardinalityType, RunsAssumption, BoundsAssumption
       DEF Holders, TypeInv, Shape
  <1>2. SlotsConserved <=> permits + Cardinality(Holders) = GlobalLimit
    BY DEF SlotsConserved, Holders
  <1>3. SlotsConserved' <=> permits' + Cardinality(Holders') = GlobalLimit
    BY DEF SlotsConserved, Holders
  <1>4. ASSUME Holders' = Holders, permits' = permits
        PROVE  SlotsConserved'
    BY <1>2, <1>3, <1>4
  <1>5. ASSUME NEW r \in Runs, AcquireSlot(r)
        PROVE  SlotsConserved'
    <2>1. /\ Holders' = Holders \cup {r}
          /\ r \notin Holders
          /\ permits' = permits - 1
      BY <1>5 DEF AcquireSlot, At, RunSigner, Go, Holders, HoldSlot, TypeInv,
                  Shape
    <2>2. Cardinality(Holders') = Cardinality(Holders) + 1
      BY <2>1, TakesSlot
    <2> QED
      BY <1>1, <1>2, <1>3, <2>1, <2>2
  <1>6. ASSUME NEW r \in Runs,
               \/ SignerSucceeds(r)
               \/ SignerFails(r)
               \/ GraceEnds(r)
               \/ DeliverCancel(r) /\ CancelSlotted(r)
        PROVE  SlotsConserved'
    <2>1. /\ Holders' = Holders \ {r}
          /\ r \in Holders
          /\ permits' = permits + 1
      BY <1>6 DEF SignerSucceeds, SignerFails, GraceEnds, CancelSlotted,
                  SignerEnds, At, EnterCleanup, Go, ReleaseSlot, Holders,
                  HoldSlot, TypeInv, Shape
    <2>2. Cardinality(Holders') = Cardinality(Holders) - 1
      BY <2>1, GivesSlotBack
    <2> QED
      BY <1>1, <1>2, <1>3, <2>1, <2>2
  <1>7. ASSUME NEW r \in Runs,
               \/ Launch(r)
               \/ BeginInBackground(r)
               \/ AcquireLock(r)
               \/ LockWaitTimesOut(r)
               \/ FinishCooldown(r)
               \/ SlotWaitTimesOut(r)
        PROVE  Holders' = Holders /\ permits' = permits
    BY <1>7 DEF Launch, StartInBackground, RunScheduled, BeginInBackground,
                AcquireLock, LockWaitTimesOut, FinishCooldown,
                SlotWaitTimesOut, At, Go, PassGate, BuildSigner, ClearFlags,
                EnterCleanup, Holders, HoldSlot, TypeInv, Shape
  <1>8. ASSUME NEW r \in Runs,
               \/ SessionLocked(r)
               \/ BusinessFails(r)
               \/ SignerTimesOut(r)
               \/ RetrySession(r)
               \/ RetryTask(r)
               \/ LateSignerEnds(r)
               \/ Settle(r)
               \/ FinishRun(r)
        PROVE  Holders' = Holders /\ permits' = permits
    BY <1>8 DEF SessionLocked, BusinessFails, SignerTimesOut, RetrySession,
                RetryTask, LateSignerEnds, Settle, FinishRun, SignerEnds,
                RunSigner, At, Go, ClearFlags, EnterCleanup, Holders, HoldSlot,
                TypeInv, Shape
  <1>9. ASSUME NEW r \in Runs,
               \/ CancelWaiting(r)
               \/ CancelCooldown(r)
               \/ CancelUnslotted(r)
               \/ CancelCleanup(r)
        PROVE  Holders' = Holders /\ permits' = permits
    BY <1>9 DEF CancelWaiting, CancelCooldown, CancelUnslotted, CancelCleanup,
                Go, ClearFlags, EnterCleanup, Holders, HoldSlot, TypeInv, Shape
  <1>10. ASSUME Shutdown \/ Tick \/ UNCHANGED vars
         PROVE  Holders' = Holders /\ permits' = permits
    BY <1>10 DEF Shutdown, Tick, vars, Holders
  <1> QED
    BY <1>4, <1>5, <1>6, <1>7, <1>8, <1>9, <1>10
       DEF Next, Proceed, SignerReturns, DeliverCancel

-----------------------------------------------------------------------------

(* Nothing has started: every part of the invariant holds. *)
LEMMA InitInv == Init => Inv
  <1> SUFFICES ASSUME Init PROVE Inv
    OBVIOUS
  <1> USE RunsAssumption, BoundsAssumption DEF Init
  <1>1. TypeInv
    <2>1. Shape
      <3>1. /\ pc \in [Runs -> Points]
            /\ child \in [Runs -> {"none", "running", "cancelled", "detached"}]
            /\ lock \in [Accounts -> Runs \cup {Free}]
        BY DEF Points
      <3>2. /\ attempt \in [Runs -> 0..(RetryCount + 1)]
            /\ session \in [Runs -> 0..SessionRetries]
            /\ sleepLeft \in [Runs -> 0..Cooldown]
        OBVIOUS
      <3>3. /\ coolLeft \in [Accounts -> 0..Cooldown]
            /\ restLeft \in [Accounts -> 0..Cooldown]
        OBVIOUS
      <3>4. /\ permits \in Nat
            /\ starting \in SUBSET Tasks
            /\ active \in SUBSET Tasks
            /\ cancelling \in SUBSET (Runs \ BackgroundRuns)
            /\ down \in BOOLEAN
        OBVIOUS
      <3> QED
        BY <3>1, <3>2, <3>3, <3>4 DEF Shape
    <2>2. RetriesLeft
      BY DEF RetriesLeft
    <2> QED
      BY <2>1, <2>2 DEF TypeInv
  <1>2. StatusInv
    BY DEF StatusInv, OneRunPerTask, Gated, HoldLock, HoldSlot
  <1>3. LockHeldByLiveRun
    BY DEF LockHeldByLiveRun, HoldLock, HoldSlot
  <1>4. SlotsConserved
    <2>1. {r \in Runs : pc[r] \in HoldSlot} = {}
      BY DEF HoldSlot
    <2>2. Cardinality({r \in Runs : pc[r] \in HoldSlot}) = 0
      BY <2>1, FS_EmptySet
    <2> QED
      BY <2>2 DEF SlotsConserved
  <1>5. SignerAwaited
    BY DEF SignerAwaited
  <1>6. RestInv
    BY DEF RestInv
  <1> QED
    BY <1>1, <1>2, <1>3, <1>4, <1>5, <1>6 DEF Inv

(* The inductive invariant holds of every behaviour. *)
THEOREM InvHolds == Spec => []Inv
  <1>1. Inv /\ [Next]_vars => Inv'
    BY TypeInvStep, StatusInvStep, LockStep, SlotsStep, SignerAwaitedStep,
       RestInvStep DEF Inv
  <1> QED
    BY InitInv, <1>1, PTL DEF Spec

(***************************************************************************)
(* Variables keep their types: retry counters, countdowns and the value of *)
(* the global semaphore stay within their bounds.                          *)
(***************************************************************************)
THEOREM TypeCorrect == Spec => []TypeOK
  <1>1. Inv => TypeOK
    <2> SUFFICES ASSUME Inv PROVE TypeOK
      OBVIOUS
    <2>1. Cardinality({r \in Runs : pc[r] \in HoldSlot}) \in Nat
      BY FS_Subset, FS_CardinalityType, RunsAssumption
    <2>2. permits \in 0..GlobalLimit
      <3> DEFINE n == Cardinality({r \in Runs : pc[r] \in HoldSlot})
      <3>1. n \in Nat /\ GlobalLimit \in Nat /\ permits + n = GlobalLimit /\ permits \in Nat
        BY <2>1, BoundsAssumption DEF Inv, SlotsConserved, TypeInv, Shape
      <3> HIDE DEF n
      <3> QED
        BY <3>1
    <2> QED
      BY <2>2 DEF Inv, TypeInv, Shape, TypeOK
  <1> QED
    BY InvHolds, <1>1, PTL

(* is_task_running reports a task exactly while a run of it is in flight. *)
THEOREM StatusCorrect == Spec => []StatusTruthful
  <1>1. Inv => StatusTruthful
    <2> SUFFICES ASSUME Inv, NEW k \in Tasks
                 PROVE  IsTaskRunning(k) <=>
                          \E r \in Runs : TaskOf[r] = k /\ pc[r] # "idle"
      BY DEF StatusTruthful
    <2>1. ASSUME IsTaskRunning(k)
          PROVE  \E r \in Runs : TaskOf[r] = k /\ pc[r] # "idle"
      <3>1. CASE k \in starting
        BY <3>1, RunsAssumption DEF Inv, StatusInv
      <3>2. CASE k \in active
        BY <3>2 DEF Inv, StatusInv, Gated, HoldLock, HoldSlot
      <3> QED
        BY <2>1, <3>1, <3>2 DEF IsTaskRunning
    <2>2. ASSUME NEW r \in Runs, TaskOf[r] = k, pc[r] # "idle"
          PROVE  IsTaskRunning(k)
      <3>1. pc[r] = "created" \/ pc[r] \in Gated
        BY <2>2 DEF Inv, TypeInv, Shape, Points
      <3> QED
        BY <2>2, <3>1 DEF Inv, StatusInv, IsTaskRunning
    <2> QED
      BY <2>1, <2>2
  <1> QED
    BY InvHolds, <1>1, PTL

(* A task never runs twice at once. *)
THEOREM OneRunCorrect == Spec => []OneRunPerTask
  <1>1. Inv => OneRunPerTask
    BY DEF Inv, StatusInv
  <1> QED
    BY InvHolds, <1>1, PTL

(***************************************************************************)
(* Runs of one account exclude each other, and no way out of a run leaks   *)
(* its account's lock.                                                     *)
(***************************************************************************)
THEOREM LockCorrect == Spec => []LockHeldByLiveRun
  <1>1. Inv => LockHeldByLiveRun
    BY DEF Inv
  <1> QED
    BY InvHolds, <1>1, PTL

(* No way out of a run loses or doubles a slot of the global semaphore. *)
THEOREM SlotsCorrect == Spec => []SlotsConserved
  <1>1. Inv => SlotsConserved
    BY DEF Inv
  <1> QED
    BY InvHolds, <1>1, PTL

(***************************************************************************)
(* Signers nobody gave up are one per account and at most GlobalLimit:     *)
(* their runs hold the account's lock and a slot.                          *)
(***************************************************************************)
THEOREM SignersCorrect == Spec => []SignersExclusive
  <1>1. Inv => SignersExclusive
    <2> SUFFICES ASSUME Inv PROVE SignersExclusive
      OBVIOUS
    <2>1. \A r, s \in LiveSigners : Account(r) = Account(s) => r = s
      BY RunsAssumption
         DEF Inv, SignerAwaited, LockHeldByLiveRun, LiveSigners, Account,
             HoldLock, HoldSlot
    <2>2. LiveSigners \subseteq Holders
      BY DEF Inv, SignerAwaited, LiveSigners, Holders, HoldSlot
    <2>3. IsFiniteSet(Holders)
      BY FS_Subset, RunsAssumption DEF Holders
    <2>4. /\ Cardinality(LiveSigners) <= Cardinality(Holders)
          /\ Cardinality(LiveSigners) \in Nat
          /\ Cardinality(Holders) \in Nat
      BY <2>2, <2>3, FS_Subset, FS_CardinalityType
    <2>5. Cardinality(Holders) <= GlobalLimit
      BY <2>4, BoundsAssumption
         DEF Inv, TypeInv, Shape, SlotsConserved, Holders
    <2> QED
      BY <2>1, <2>4, <2>5, BoundsAssumption DEF SignersExclusive
  <1> QED
    BY InvHolds, <1>1, PTL

(* No signer starts within Cooldown of the last run that drove its account. *)
THEOREM CooldownCorrect == Spec => CooldownRespected
  <1>1. Inv /\ [Next]_vars =>
          [\A r \in Runs : pc[r] = "slot_wait" /\ pc'[r] = "running"
                             => restLeft[Account(r)] = 0]_vars
    BY DEF Inv, RestInv
  <1> QED
    BY InvHolds, <1>1, PTL DEF Spec, CooldownRespected

(* A run never has two calls of its signer unwinding and running at once. *)
THEOREM RetryCorrect == Spec => NoRetryBesideLateSigner
  <1>1. Inv /\ [Next]_vars =>
          [\A r \in Runs : pc[r] # "running" /\ pc'[r] = "running"
                             => child[r] = "none"]_vars
    <2> SUFFICES ASSUME Inv, [Next]_vars, NEW r \in Runs,
                        pc[r] # "running", pc'[r] = "running"
                 PROVE  child[r] = "none"
      OBVIOUS
    <2>1. pc[r] \in {"slot_wait", "session_retry", "task_retry"}
      <3> USE DEF Inv, TypeInv, Shape, Go, At
      <3>1. ASSUME NEW q \in Runs, Launch(q) \/ BeginInBackground(q)
            PROVE  FALSE
        BY <3>1 DEF Launch, StartInBackground, RunScheduled,
                    BeginInBackground, PassGate
      <3>2. ASSUME NEW q \in Runs,
                   \/ AcquireLock(q) \/ LockWaitTimesOut(q)
                   \/ FinishCooldown(q) \/ SlotWaitTimesOut(q)
            PROVE  FALSE
        BY <3>2 DEF AcquireLock, LockWaitTimesOut, FinishCooldown,
                    SlotWaitTimesOut, BuildSigner, ClearFlags, EnterCleanup
      <3>3. ASSUME NEW q \in Runs,
                   \/ SignerSucceeds(q) \/ SessionLocked(q)
                   \/ BusinessFails(q) \/ SignerFails(q)
                   \/ SignerTimesOut(q) \/ GraceEnds(q)
                   \/ LateSignerEnds(q) \/ Settle(q) \/ FinishRun(q)
            PROVE  FALSE
        BY <3>3 DEF SignerSucceeds, SessionLocked, BusinessFails, SignerFails,
                    SignerTimesOut, GraceEnds, LateSignerEnds, Settle,
                    FinishRun, SignerEnds, ClearFlags, EnterCleanup
      <3>4. ASSUME NEW q \in Runs, DeliverCancel(q)
            PROVE  FALSE
        BY <3>4 DEF DeliverCancel, CancelWaiting, CancelCooldown,
                    CancelUnslotted, CancelSlotted, CancelCleanup, ClearFlags,
                    EnterCleanup
      <3>5. ASSUME Shutdown \/ Tick \/ UNCHANGED vars
            PROVE  FALSE
        BY <3>5 DEF Shutdown, Tick, vars
      <3>6. ASSUME NEW q \in Runs,
                   AcquireSlot(q) \/ RetrySession(q) \/ RetryTask(q)
            PROVE  pc[r] \in {"slot_wait", "session_retry", "task_retry"}
        BY <3>6 DEF AcquireSlot, RetrySession, RetryTask, RunSigner
      <3> QED
        BY <3>1, <3>2, <3>3, <3>4, <3>5, <3>6 DEF Next, Proceed, SignerReturns
    <2> QED
      BY <2>1 DEF Inv, SignerAwaited
  <1> QED
    BY InvHolds, <1>1, PTL DEF Spec, NoRetryBesideLateSigner

-----------------------------------------------------------------------------

(***************************************************************************)
(* run_task_with_logs implements AccountSlots: a step that takes or gives  *)
(* back the lock or a slot is the step of AccountSlots with that name, and *)
(* every other step leaves both alone.                                     *)
(***************************************************************************)
THEOREM Refinement == Spec => ImplementsSlots
  <1>1. Init => Slots!Init
    BY DEF Init, Slots!Init, HoldSlot
  <1>2. Inv /\ [Next]_vars => [Slots!Next]_(Slots!vars)
    <2> SUFFICES ASSUME Inv, [Next]_vars
                 PROVE  [Slots!Next]_(Slots!vars)
      OBVIOUS
    <2> USE DEF At, Go, Account
    <2>a. TypeInv /\ SlotsConserved
      BY DEF Inv
    <2>b. pc \in [Runs -> Points]
      BY <2>a DEF TypeInv, Shape
    <2>c. \A r \in Runs : pc[r] \in HoldLock => lock[AccountOf[TaskOf[r]]] = r
      BY RunsAssumption DEF Inv, LockHeldByLiveRun
    <2>d. \A r \in Runs : AccountOf[TaskOf[r]] \in Accounts
      BY RunsAssumption
    <2>0. \A r \in Runs : [q \in Runs |-> Account(q)][r] = AccountOf[TaskOf[r]]
      OBVIOUS
    <2>1. ASSUME NEW r \in Runs,
                 lock[AccountOf[TaskOf[r]]] = Free,
                 lock' = [lock EXCEPT ![AccountOf[TaskOf[r]]] = r],
                 Holders' = Holders
          PROVE  Slots!Own(r)
      BY <2>1, <2>0 DEF Slots!Own, Holders
    <2>2. ASSUME NEW r \in Runs,
                 lock[AccountOf[TaskOf[r]]] = r,
                 lock' = [lock EXCEPT ![AccountOf[TaskOf[r]]] = Free],
                 r \notin Holders,
                 Holders' = Holders
          PROVE  Slots!GiveUp(r)
      BY <2>2, <2>0 DEF Slots!GiveUp, Holders
    <2>3. ASSUME NEW r \in Runs, AcquireSlot(r)
          PROVE  Slots!Use(r)
      <3>1. /\ Holders' = Holders \cup {r}
            /\ r \notin Holders
            /\ lock' = lock
            /\ permits > 0
            /\ lock[AccountOf[TaskOf[r]]] = r
        BY <2>3, <2>b, <2>c
           DEF AcquireSlot, RunSigner, Holders, HoldLock, HoldSlot
      <3>2. Cardinality(Holders) < GlobalLimit
        <4>1. Cardinality(Holders) \in Nat
          BY FS_Subset, FS_CardinalityType, RunsAssumption DEF Holders
        <4>2. permits + Cardinality(Holders) = GlobalLimit
          BY <2>a DEF SlotsConserved, Holders
        <4> QED
          BY <2>a, <3>1, <4>1, <4>2, BoundsAssumption DEF TypeInv, Shape
      <3>3. Cardinality({q \in Runs : pc[q] \in HoldSlot}) < GlobalLimit
        BY <3>2 DEF Holders
      <3>4. /\ {q \in Runs : pc[q] \in HoldSlot}'
                = {q \in Runs : pc[q] \in HoldSlot} \cup {r}
            /\ r \notin {q \in Runs : pc[q] \in HoldSlot}
        BY <3>1 DEF Holders
      <3>5. lock[[q \in Runs |-> Account(q)][r]] = r
        BY <3>1, <2>0
      <3> QED
        BY <3>1, <3>3, <3>4, <3>5, Zenon
           DEF Slots!Use, Slots!Cardinality, Cardinality
    <2>4. ASSUME NEW r \in Runs,
                 r \in Holders, Holders' = Holders \ {r}, lock' = lock
          PROVE  Slots!StopUsing(r)
      BY <2>4 DEF Slots!StopUsing, Holders
    <2>5. ASSUME NEW r \in Runs,
                 \/ SignerSucceeds(r)
                 \/ SignerFails(r)
                 \/ GraceEnds(r)
                 \/ DeliverCancel(r) /\ CancelSlotted(r)
          PROVE  r \in Holders /\ Holders' = Holders \ {r} /\ lock' = lock
      BY <2>5, <2>b DEF SignerSucceeds, SignerFails, GraceEnds, DeliverCancel,
                  CancelSlotted, SignerEnds, EnterCleanup, Holders, HoldSlot
    <2>6. ASSUME NEW r \in Runs,
                 AcquireLock(r) \/ FinishCooldown(r) \/ FinishRun(r)
          PROVE  Slots!Own(r) \/ Slots!GiveUp(r) \/ UNCHANGED Slots!vars
      <3>1. r \notin Holders /\ Holders' = Holders
        BY <2>6, <2>b DEF AcquireLock, FinishCooldown, FinishRun, BuildSigner,
                          ClearFlags, Holders, HoldSlot
      <3>2. CASE AcquireLock(r)
        <4>1. /\ lock[AccountOf[TaskOf[r]]] = Free
              /\ \/ lock' = [lock EXCEPT ![AccountOf[TaskOf[r]]] = r]
                 \/ lock' = lock
          BY <3>2, <2>a, <2>d DEF TypeInv, Shape, AcquireLock, BuildSigner, ReleaseLock
        <4> QED
          BY <3>1, <4>1, <2>1 DEF Slots!vars, Holders
      <3>3. CASE FinishCooldown(r)
        <4>1. /\ lock[AccountOf[TaskOf[r]]] = r
              /\ \/ lock' = [lock EXCEPT ![AccountOf[TaskOf[r]]] = Free]
                 \/ lock' = lock
          <5>1. lock[AccountOf[TaskOf[r]]] = r
            BY <3>3, <2>c DEF FinishCooldown, HoldLock
          <5> QED
            BY <3>3, <5>1, <2>a, <2>d
               DEF TypeInv, Shape, FinishCooldown, BuildSigner, ReleaseLock
        <4> QED
          BY <3>1, <4>1, <2>2 DEF Slots!vars, Holders
      <3>4. CASE FinishRun(r)
        <4>1. /\ lock[AccountOf[TaskOf[r]]] = r
              /\ lock' = [lock EXCEPT ![AccountOf[TaskOf[r]]] = Free]
          BY <3>4, <2>c DEF FinishRun, ReleaseLock, HoldLock
        <4> QED
          BY <3>1, <4>1, <2>2
      <3> QED
        BY <2>6, <3>2, <3>3, <3>4
    <2>7. ASSUME NEW r \in Runs, DeliverCancel(r), CancelCooldown(r)
          PROVE  Slots!GiveUp(r)
      <3>1. /\ lock[AccountOf[TaskOf[r]]] = r
            /\ lock' = [lock EXCEPT ![AccountOf[TaskOf[r]]] = Free]
            /\ r \notin Holders
            /\ Holders' = Holders
        BY <2>7, <2>b, <2>c
           DEF CancelCooldown, ClearFlags, ReleaseLock, HoldLock, HoldSlot,
               Holders
      <3> QED
        BY <3>1, <2>2
    <2>8. ASSUME NEW r \in Runs,
                 \/ Launch(r)
                 \/ BeginInBackground(r)
                 \/ LockWaitTimesOut(r)
                 \/ SlotWaitTimesOut(r)
                 \/ SessionLocked(r)
                 \/ BusinessFails(r)
                 \/ SignerTimesOut(r)
                 \/ RetrySession(r)
                 \/ RetryTask(r)
                 \/ LateSignerEnds(r)
                 \/ Settle(r)
          PROVE  UNCHANGED Slots!vars
      BY <2>8, <2>b DEF Launch, StartInBackground, RunScheduled, BeginInBackground,
                  LockWaitTimesOut, SlotWaitTimesOut, SessionLocked,
                  BusinessFails, SignerTimesOut, RetrySession, RetryTask,
                  LateSignerEnds, Settle, SignerEnds, RunSigner, PassGate,
                  ClearFlags, EnterCleanup, HoldSlot, Slots!vars
    <2>9. ASSUME NEW r \in Runs,
                 \/ CancelWaiting(r)
                 \/ CancelUnslotted(r)
                 \/ CancelCleanup(r)
          PROVE  UNCHANGED Slots!vars
      BY <2>9, <2>b DEF CancelWaiting, CancelUnslotted, CancelCleanup, ClearFlags,
                  EnterCleanup, HoldSlot, Slots!vars
    <2>10. CASE Shutdown \/ Tick \/ UNCHANGED vars
      BY <2>10 DEF Shutdown, Tick, vars, Slots!vars
    <2> QED
      BY <2>3, <2>4, <2>5, <2>6, <2>7, <2>8, <2>9, <2>10
         DEF Next, Proceed, SignerReturns, DeliverCancel, Slots!Next
  <1> QED
    BY InvHolds, <1>1, <1>2, PTL DEF Spec, ImplementsSlots, Slots!Spec

=============================================================================
