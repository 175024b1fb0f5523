--------------------------- MODULE QrLoginProofs ---------------------------
(***************************************************************************)
(* Proofs about QrLogin for any number of requests and of logins and any   *)
(* deadlines.  The lock is the account's; what keeps two logins apart is   *)
(* that a start has its session to itself (StartInv), and that a session   *)
(* is started, registered or cleaned up, one after the other (PhaseInv).   *)
(* A start that broke before its try keeps the lock (broken): there is no  *)
(* session left that could release it.                                     *)
(***************************************************************************)
EXTENDS QrLogin, FiniteSets, FiniteSetTheorems, TLAPS

StartPoints == Starting \cup {"replacing", "lock_wait", "initializing"}

\* Nobody but the start knows the login_id before it is returned, and nobody
\* knows that of a start that broke.
StartInv ==
    /\ \A o \in Ops : pc[o] # "idle" => target[o] \in Sessions
    /\ \A o \in Ops :
          pc[o] \in StartPoints =>
             /\ timer[target[o]] = "none"
             /\ \A p \in Ops \ {o} : target[p] # target[o]
    /\ \A o \in Ops :
          pc[o] \in {"replacing", "lock_wait", "preparing"} => client[target[o]] = "none"
    /\ \A o \in Ops :
          pc[o] \notin {"idle", "replacing", "lock_wait", "preparing"} =>
             client[target[o]] # "none"
    /\ \A s \in broken : client[s] = "none" /\ \A o \in Ops : target[o] # s

\* A session without a client has not been registered, and one that is
\* cleaned up is not registered any more.
PhaseInv ==
    /\ \A s \in Sessions :
          client[s] = "none" => s \notin pending /\ cleaning[s] = "no" /\ timer[s] = "none"
    /\ \A s \in pending : cleaning[s] = "no"
    /\ \A o \in Ops :
          pc[o] \in Starting => target[o] \notin pending /\ cleaning[target[o]] = "no"

Inv ==
    /\ TypeOK
    /\ StartInv
    /\ PhaseInv
    /\ LockHeldInside
    /\ ClientsAccountedFor
    /\ DiscardedStaysOut

\* Nothing leaves its range: no deadline is moved past the extension.
LEMMA TypeStep ==
  ASSUME TypeOK, StartInv, [Next]_vars
  PROVE  TypeOK'
  <1> USE NamesAssumption, LimitsAssumption DEF TypeOK, StartInv, Points,
          Starting, StartPoints, Go, Begin, Return, cleanups, registry,
          clocks
  <1>1. ASSUME NEW o \in Ops, NEW s \in Sessions, RequestStart(o, s) PROVE TypeOK'
    BY <1>1 DEF RequestStart, Clean
  <1>2. ASSUME NEW o \in Ops, NEW s \in Sessions, PollExpired(o, s) PROVE TypeOK'
    BY <1>2 DEF PollExpired, Clean, Known
  <1>3. ASSUME NEW o \in Ops, NEW s \in Sessions, PollScanned(o, s) PROVE TypeOK'
    BY <1>3 DEF PollScanned, Known, Extend, Renew, Reconnect
  <1>4. ASSUME NEW o \in Ops, NEW s \in Sessions, SubmitExpired(o, s) PROVE TypeOK'
    BY <1>4 DEF SubmitExpired, Clean, Known
  <1>5. ASSUME NEW o \in Ops, NEW s \in Sessions, Submit(o, s) PROVE TypeOK'
    BY <1>5 DEF Submit, Known, Extend, Renew
  <1>6. ASSUME NEW o \in Ops, NEW s \in Sessions, Cancel(o, s) PROVE TypeOK'
    BY <1>6 DEF Cancel, Clean, Known
  <1>7. ASSUME NEW o \in Ops, AcquireStart(o) PROVE TypeOK'
    BY <1>7 DEF AcquireStart
  <1>8. ASSUME NEW o \in Ops, StartRefused(o) PROVE TypeOK'
    BY <1>8 DEF StartRefused
  <1>9. ASSUME NEW o \in Ops, Connected(o) PROVE TypeOK'
    BY <1>9 DEF Connected
  <1>10. ASSUME NEW o \in Ops, ExportFails(o) PROVE TypeOK'
    BY <1>10 DEF ExportFails
  <1>11. ASSUME NEW o \in Ops, Disconnected(o) PROVE TypeOK'
    BY <1>11 DEF Disconnected
  <1>12. ASSUME NEW o \in Ops, Exported(o) PROVE TypeOK'
    BY <1>12 DEF Exported
  <1>13. ASSUME NEW o \in Ops, Started(o) PROVE TypeOK'
    BY <1>13 DEF Started
  <1>14. ASSUME NEW o \in Ops, PasswordRequired(o) PROVE TypeOK'
    BY <1>14 DEF PasswordRequired, ExtendPending, Extend, Renew, PollReturns
  <1>15. ASSUME NEW o \in Ops, NotConfirmed(o) PROVE TypeOK'
    BY <1>15 DEF NotConfirmed, NewToken, Renew, PollReturns
  <1>16. ASSUME NEW o \in Ops, Confirmed(o) PROVE TypeOK'
    BY <1>16 DEF Confirmed
  <1>17. ASSUME NEW o \in Ops, PollSucceeds(o) PROVE TypeOK'
    BY <1>17 DEF PollSucceeds, EndByCleaning, Clean, Persist
  <1>18. ASSUME NEW o \in Ops, PollFails(o) PROVE TypeOK'
    BY <1>18 DEF PollFails, EndByCleaning, Clean
  <1>19. ASSUME NEW o \in Ops, SlotGranted(o) PROVE TypeOK'
    BY <1>19 DEF SlotGranted, Reconnect
  <1>20. ASSUME NEW o \in Ops, TryAgain(o) PROVE TypeOK'
    BY <1>20 DEF TryAgain, NewToken, Renew, Extend
  <1>21. ASSUME NEW o \in Ops, SubmitFails(o) PROVE TypeOK'
    BY <1>21 DEF SubmitFails, EndByCleaning, Clean
  <1>22. ASSUME NEW o \in Ops, PasswordAsked(o) PROVE TypeOK'
    BY <1>22 DEF PasswordAsked, ExtendPending, Extend, Renew
  <1>23. ASSUME NEW o \in Ops, SubmitSucceeds(o) PROVE TypeOK'
    BY <1>23 DEF SubmitSucceeds, EndByCleaning, Clean, Persist
  <1>24. ASSUME NEW o \in Ops, SubmitRetires(o) PROVE TypeOK'
    BY <1>24 DEF SubmitRetires, Persist
  <1>25. ASSUME NEW o \in Ops, SubmitRetired(o) PROVE TypeOK'
    BY <1>25 DEF SubmitRetired, EndByCleaning, Clean
  <1>26. ASSUME NEW s \in Sessions, Scanned(s) PROVE TypeOK'
    BY <1>26 DEF Scanned, Known, NewToken, Renew
  <1>27. ASSUME NEW s \in Sessions, TimerExpires(s) PROVE TypeOK'
    BY <1>27 DEF TimerExpires, Clean
  <1>28. ASSUME NEW s \in Sessions, TimerGoesOn(s) PROVE TypeOK'
    BY <1>28 DEF TimerGoesOn
  <1>29. ASSUME NEW s \in Sessions, TimerEnds(s) PROVE TypeOK'
    BY <1>29 DEF TimerEnds
  <1>30. ASSUME NEW s \in Sessions, CleanupStops(s) PROVE TypeOK'
    BY <1>30 DEF CleanupStops
  <1>31. ASSUME NEW s \in Sessions, CleanupEnds(s) PROVE TypeOK'
    BY <1>31 DEF CleanupEnds, CleanerGoesOn
  <1>32. CASE Tick
    BY <1>32 DEF Tick
  <1>33. CASE OtherAcquires
    BY <1>33 DEF OtherAcquires
  <1>34. CASE OtherReleases
    BY <1>34 DEF OtherReleases
  <1>35. CASE UNCHANGED vars
    BY <1>35 DEF vars
  <1>36. ASSUME NEW o \in Ops, StartBreaks(o) PROVE TypeOK'
    BY <1>36 DEF StartBreaks
  <1> QED
    BY <1>1, <1>2, <1>3, <1>4, <1>5, <1>6, <1>7, <1>8, <1>9, <1>10, <1>11,
       <1>12, <1>13, <1>14, <1>15, <1>16, <1>17, <1>18, <1>19, <1>20,
       <1>21, <1>22, <1>23, <1>24, <1>25, <1>26, <1>27, <1>28, <1>29,
       <1>30, <1>31, <1>32, <1>33, <1>34, <1>35, <1>36
       DEF Next, Choose, Proceed, RunTimer, RunCleanup

\* Requests name sessions whose start has returned.
LEMMA StartStep ==
  ASSUME Inv, [Next]_vars
  PROVE  StartInv'
  <1> USE NamesAssumption, LimitsAssumption DEF Inv, TypeOK, StartInv,
          PhaseInv, Points, Starting, StartPoints, Go, Begin, Return,
          cleanups, registry, clocks
  <1>1. ASSUME NEW o \in Ops, NEW s \in Sessions, RequestStart(o, s) PROVE StartInv'
    BY <1>1 DEF RequestStart, Clean
  <1>2. ASSUME NEW o \in Ops, NEW s \in Sessions, PollExpired(o, s) PROVE StartInv'
    BY <1>2 DEF PollExpired, Clean, Known
  <1>3. ASSUME NEW o \in Ops, NEW s \in Sessions, PollScanned(o, s) PROVE StartInv'
    BY <1>3 DEF PollScanned, Known, Extend, Renew, Reconnect
  <1>4. ASSUME NEW o \in Ops, NEW s \in Sessions, SubmitExpired(o, s) PROVE StartInv'
    BY <1>4 DEF SubmitExpired, Clean, Known
  <1>5. ASSUME NEW o \in Ops, NEW s \in Sessions, Submit(o, s) PROVE StartInv'
    BY <1>5 DEF Submit, Known, Extend, Renew
  <1>6. ASSUME NEW o \in Ops, NEW s \in Sessions, Cancel(o, s) PROVE StartInv'
    BY <1>6 DEF Cancel, Clean, Known
  <1>7. ASSUME NEW o \in Ops, AcquireStart(o) PROVE StartInv'
    BY <1>7 DEF AcquireStart
  <1>8. ASSUME NEW o \in Ops, StartRefused(o) PROVE StartInv'
    BY <1>8 DEF StartRefused
  <1>9. ASSUME NEW o \in Ops, Connected(o) PROVE StartInv'
    BY <1>9 DEF Connected
  <1>10. ASSUME NEW o \in Ops, ExportFails(o) PROVE StartInv'
    BY <1>10 DEF ExportFails
  <1>11. ASSUME NEW o \in Ops, Disconnected(o) PROVE StartInv'
    BY <1>11 DEF Disconnected
  <1>12. ASSUME NEW o \in Ops, Exported(o) PROVE StartInv'
    BY <1>12 DEF Exported
  <1>13. ASSUME NEW o \in Ops, Started(o) PROVE StartInv'
    BY <1>13 DEF Started
  <1>14. ASSUME NEW o \in Ops, PasswordRequired(o) PROVE StartInv'
    BY <1>14 DEF PasswordRequired, ExtendPending, Extend, Renew, PollReturns
  <1>15. ASSUME NEW o \in Ops, NotConfirmed(o) PROVE StartInv'
    BY <1>15 DEF NotConfirmed, NewToken, Renew, PollReturns
  <1>16. ASSUME NEW o \in Ops, Confirmed(o) PROVE StartInv'
    BY <1>16 DEF Confirmed
  <1>17. ASSUME NEW o \in Ops, PollSucceeds(o) PROVE StartInv'
    BY <1>17 DEF PollSucceeds, EndByCleaning, Clean, Persist
  <1>18. ASSUME NEW o \in Ops, PollFails(o) PROVE StartInv'
    BY <1>18 DEF PollFails, EndByCleaning, Clean
  <1>19. ASSUME NEW o \in Ops, SlotGranted(o) PROVE StartInv'
    BY <1>19 DEF SlotGranted, Reconnect
  <1>20. ASSUME NEW o \in Ops, TryAgain(o) PROVE StartInv'
    BY <1>20 DEF TryAgain, NewToken, Renew, Extend
  <1>21. ASSUME NEW o \in Ops, SubmitFails(o) PROVE StartInv'
    BY <1>21 DEF SubmitFails, EndByCleaning, Clean
  <1>22. ASSUME NEW o \in Ops, PasswordAsked(o) PROVE StartInv'
    BY <1>22 DEF PasswordAsked, ExtendPending, Extend, Renew
  <1>23. ASSUME NEW o \in Ops, SubmitSucceeds(o) PROVE StartInv'
    BY <1>23 DEF SubmitSucceeds, EndByCleaning, Clean, Persist
  <1>24. ASSUME NEW o \in Ops, SubmitRetires(o) PROVE StartInv'
    BY <1>24 DEF SubmitRetires, Persist
  <1>25. ASSUME NEW o \in Ops, SubmitRetired(o) PROVE StartInv'
    BY <1>25 DEF SubmitRetired, EndByCleaning, Clean
  <1>26. ASSUME NEW s \in Sessions, Scanned(s) PROVE StartInv'
    BY <1>26 DEF Scanned, Known, NewToken, Renew
  <1>27. ASSUME NEW s \in Sessions, TimerExpires(s) PROVE StartInv'
    BY <1>27 DEF TimerExpires, Clean
  <1>28. ASSUME NEW s \in Sessions, TimerGoesOn(s) PROVE StartInv'
    BY <1>28 DEF TimerGoesOn
  <1>29. ASSUME NEW s \in Sessions, TimerEnds(s) PROVE StartInv'
    BY <1>29 DEF TimerEnds
  <1>30. ASSUME NEW s \in Sessions, CleanupStops(s) PROVE StartInv'
    BY <1>30 DEF CleanupStops
  <1>31. ASSUME NEW s \in Sessions, CleanupEnds(s) PROVE StartInv'
    BY <1>31 DEF CleanupEnds, CleanerGoesOn
  <1>32. CASE Tick
    BY <1>32 DEF Tick
  <1>33. CASE OtherAcquires
    BY <1>33 DEF OtherAcquires
  <1>34. CASE OtherReleases
    BY <1>34 DEF OtherReleases
  <1>35. CASE UNCHANGED vars
    BY <1>35 DEF vars
  <1>36. ASSUME NEW o \in Ops, StartBreaks(o) PROVE StartInv'
    BY <1>36 DEF StartBreaks
  <1> QED
    BY <1>1, <1>2, <1>3, <1>4, <1>5, <1>6, <1>7, <1>8, <1>9, <1>10, <1>11,
       <1>12, <1>13, <1>14, <1>15, <1>16, <1>17, <1>18, <1>19, <1>20,
       <1>21, <1>22, <1>23, <1>24, <1>25, <1>26, <1>27, <1>28, <1>29,
       <1>30, <1>31, <1>32, <1>33, <1>34, <1>35, <1>36
       DEF Next, Choose, Proceed, RunTimer, RunCleanup

\* A session goes through its phases in order.
LEMMA PhaseStep ==
  ASSUME Inv, [Next]_vars
  PROVE  PhaseInv'
  <1> USE NamesAssumption, LimitsAssumption DEF Inv, TypeOK, StartInv,
          PhaseInv, Points, Starting, StartPoints, Go, Begin, Return,
          cleanups, registry, clocks
  <1>1. ASSUME NEW o \in Ops, NEW s \in Sessions, RequestStart(o, s) PROVE PhaseInv'
    BY <1>1 DEF RequestStart, Clean
  <1>2. ASSUME NEW o \in Ops, NEW s \in Sessions, PollExpired(o, s) PROVE PhaseInv'
    BY <1>2 DEF PollExpired, Clean, Known
  <1>3. ASSUME NEW o \in Ops, NEW s \in Sessions, PollScanned(o, s) PROVE PhaseInv'
    BY <1>3 DEF PollScanned, Known, Extend, Renew, Reconnect
  <1>4. ASSUME NEW o \in Ops, NEW s \in Sessions, SubmitExpired(o, s) PROVE PhaseInv'
    BY <1>4 DEF SubmitExpired, Clean, Known
  <1>5. ASSUME NEW o \in Ops, NEW s \in Sessions, Submit(o, s) PROVE PhaseInv'
    BY <1>5 DEF Submit, Known, Extend, Renew
  <1>6. ASSUME NEW o \in Ops, NEW s \in Sessions, Cancel(o, s) PROVE PhaseInv'
    BY <1>6 DEF Cancel, Clean, Known
  <1>7. ASSUME NEW o \in Ops, AcquireStart(o) PROVE PhaseInv'
    BY <1>7 DEF AcquireStart
  <1>8. ASSUME NEW o \in Ops, StartRefused(o) PROVE PhaseInv'
    BY <1>8 DEF StartRefused
  <1>9. ASSUME NEW o \in Ops, Connected(o) PROVE PhaseInv'
    BY <1>9 DEF Connected
  <1>10. ASSUME NEW o \in Ops, ExportFails(o) PROVE PhaseInv'
    BY <1>10 DEF ExportFails
  <1>11. ASSUME NEW o \in Ops, Disconnected(o) PROVE PhaseInv'
    BY <1>11 DEF Disconnected
  <1>12. ASSUME NEW o \in Ops, Exported(o) PROVE PhaseInv'
    BY <1>12 DEF Exported
  <1>13. ASSUME NEW o \in Ops, Started(o) PROVE PhaseInv'
    BY <1>13 DEF Started
  <1>14. ASSUME NEW o \in Ops, PasswordRequired(o) PROVE PhaseInv'
    BY <1>14 DEF PasswordRequired, ExtendPending, Extend, Renew, PollReturns
  <1>15. ASSUME NEW o \in Ops, NotConfirmed(o) PROVE PhaseInv'
    BY <1>15 DEF NotConfirmed, NewToken, Renew, PollReturns
  <1>16. ASSUME NEW o \in Ops, Confirmed(o) PROVE PhaseInv'
    BY <1>16 DEF Confirmed
  <1>17. ASSUME NEW o \in Ops, PollSucceeds(o) PROVE PhaseInv'
    BY <1>17 DEF PollSucceeds, EndByCleaning, Clean, Persist
  <1>18. ASSUME NEW o \in Ops, PollFails(o) PROVE PhaseInv'
    BY <1>18 DEF PollFails, EndByCleaning, Clean
  <1>19. ASSUME NEW o \in Ops, SlotGranted(o) PROVE PhaseInv'
    BY <1>19 DEF SlotGranted, Reconnect
  <1>20. ASSUME NEW o \in Ops, TryAgain(o) PROVE PhaseInv'
    BY <1>20 DEF TryAgain, NewToken, Renew, Extend
  <1>21. ASSUME NEW o \in Ops, SubmitFails(o) PROVE PhaseInv'
    BY <1>21 DEF SubmitFails, EndByCleaning, Clean
  <1>22. ASSUME NEW o \in Ops, PasswordAsked(o) PROVE PhaseInv'
    BY <1>22 DEF PasswordAsked, ExtendPending, Extend, Renew
  <1>23. ASSUME NEW o \in Ops, SubmitSucceeds(o) PROVE PhaseInv'
    BY <1>23 DEF SubmitSucceeds, EndByCleaning, Clean, Persist
  <1>24. ASSUME NEW o \in Ops, SubmitRetires(o) PROVE PhaseInv'
    BY <1>24 DEF SubmitRetires, Persist
  <1>25. ASSUME NEW o \in Ops, SubmitRetired(o) PROVE PhaseInv'
    BY <1>25 DEF SubmitRetired, EndByCleaning, Clean
  <1>26. ASSUME NEW s \in Sessions, Scanned(s) PROVE PhaseInv'
    BY <1>26 DEF Scanned, Known, NewToken, Renew
  <1>27. ASSUME NEW s \in Sessions, TimerExpires(s) PROVE PhaseInv'
    BY <1>27 DEF TimerExpires, Clean
  <1>28. ASSUME NEW s \in Sessions, TimerGoesOn(s) PROVE PhaseInv'
    BY <1>28 DEF TimerGoesOn
  <1>29. ASSUME NEW s \in Sessions, TimerEnds(s) PROVE PhaseInv'
    BY <1>29 DEF TimerEnds
  <1>30. ASSUME NEW s \in Sessions, CleanupStops(s) PROVE PhaseInv'
    BY <1>30 DEF CleanupStops
  <1>31. ASSUME NEW s \in Sessions, CleanupEnds(s) PROVE PhaseInv'
    BY <1>31 DEF CleanupEnds, CleanerGoesOn
  <1>32. CASE Tick
    BY <1>32 DEF Tick
  <1>33. CASE OtherAcquires
    BY <1>33 DEF OtherAcquires
  <1>34. CASE OtherReleases
    BY <1>34 DEF OtherReleases
  <1>35. CASE UNCHANGED vars
    BY <1>35 DEF vars
  <1>36. ASSUME NEW o \in Ops, StartBreaks(o) PROVE PhaseInv'
    BY <1>36 DEF StartBreaks
  <1> QED
    BY <1>1, <1>2, <1>3, <1>4, <1>5, <1>6, <1>7, <1>8, <1>9, <1>10, <1>11,
       <1>12, <1>13, <1>14, <1>15, <1>16, <1>17, <1>18, <1>19, <1>20,
       <1>21, <1>22, <1>23, <1>24, <1>25, <1>26, <1>27, <1>28, <1>29,
       <1>30, <1>31, <1>32, <1>33, <1>34, <1>35, <1>36
       DEF Next, Choose, Proceed, RunTimer, RunCleanup

\* The lock goes with the session through its phases.
LEMMA LockStep ==
  ASSUME Inv, [Next]_vars
  PROVE  LockHeldInside'
  <1> USE NamesAssumption, LimitsAssumption DEF Inv, TypeOK, StartInv,
          PhaseInv, LockHeldInside, BeingStarted, Points, Starting,
          StartPoints, Go, Begin, Return, cleanups, registry, clocks
  <1>1. ASSUME NEW o \in Ops, NEW s \in Sessions, RequestStart(o, s) PROVE LockHeldInside'
    BY <1>1 DEF RequestStart, Clean
  <1>2. ASSUME NEW o \in Ops, NEW s \in Sessions, PollExpired(o, s) PROVE LockHeldInside'
    BY <1>2 DEF PollExpired, Clean, Known
  <1>3. ASSUME NEW o \in Ops, NEW s \in Sessions, PollScanned(o, s) PROVE LockHeldInside'
    BY <1>3 DEF PollScanned, Known, Extend, Renew, Reconnect
  <1>4. ASSUME NEW o \in Ops, NEW s \in Sessions, SubmitExpired(o, s) PROVE LockHeldInside'
    BY <1>4 DEF SubmitExpired, Clean, Known
  <1>5. ASSUME NEW o \in Ops, NEW s \in Sessions, Submit(o, s) PROVE LockHeldInside'
    BY <1>5 DEF Submit, Known, Extend, Renew
  <1>6. ASSUME NEW o \in Ops, NEW s \in Sessions, Cancel(o, s) PROVE LockHeldInside'
    BY <1>6 DEF Cancel, Clean, Known
  <1>7. ASSUME NEW o \in Ops, AcquireStart(o) PROVE LockHeldInside'
    BY <1>7 DEF AcquireStart
  <1>8. ASSUME NEW o \in Ops, StartRefused(o) PROVE LockHeldInside'
    BY <1>8 DEF StartRefused
  <1>9. ASSUME NEW o \in Ops, Connected(o) PROVE LockHeldInside'
    BY <1>9 DEF Connected
  <1>10. ASSUME NEW o \in Ops, ExportFails(o) PROVE LockHeldInside'
    BY <1>10 DEF ExportFails
  <1>11. ASSUME NEW o \in Ops, Disconnected(o) PROVE LockHeldInside'
    BY <1>11 DEF Disconnected
  <1>12. ASSUME NEW o \in Ops, Exported(o) PROVE LockHeldInside'
    BY <1>12 DEF Exported
  <1>13. ASSUME NEW o \in Ops, Started(o) PROVE LockHeldInside'
    BY <1>13 DEF Started
  <1>14. ASSUME NEW o \in Ops, PasswordRequired(o) PROVE LockHeldInside'
    BY <1>14 DEF PasswordRequired, ExtendPending, Extend, Renew, PollReturns
  <1>15. ASSUME NEW o \in Ops, NotConfirmed(o) PROVE LockHeldInside'
    BY <1>15 DEF NotConfirmed, NewToken, Renew, PollReturns
  <1>16. ASSUME NEW o \in Ops, Confirmed(o) PROVE LockHeldInside'
    BY <1>16 DEF Confirmed
  <1>17. ASSUME NEW o \in Ops, PollSucceeds(o) PROVE LockHeldInside'
    BY <1>17 DEF PollSucceeds, EndByCleaning, Clean, Persist
  <1>18. ASSUME NEW o \in Ops, PollFails(o) PROVE LockHeldInside'
    BY <1>18 DEF PollFails, EndByCleaning, Clean
  <1>19. ASSUME NEW o \in Ops, SlotGranted(o) PROVE LockHeldInside'
    BY <1>19 DEF SlotGranted, Reconnect
  <1>20. ASSUME NEW o \in Ops, TryAgain(o) PROVE LockHeldInside'
    BY <1>20 DEF TryAgain, NewToken, Renew, Extend
  <1>21. ASSUME NEW o \in Ops, SubmitFails(o) PROVE LockHeldInside'
    BY <1>21 DEF SubmitFails, EndByCleaning, Clean
  <1>22. ASSUME NEW o \in Ops, PasswordAsked(o) PROVE LockHeldInside'
    BY <1>22 DEF PasswordAsked, ExtendPending, Extend, Renew
  <1>23. ASSUME NEW o \in Ops, SubmitSucceeds(o) PROVE LockHeldInside'
    BY <1>23 DEF SubmitSucceeds, EndByCleaning, Clean, Persist
  <1>24. ASSUME NEW o \in Ops, SubmitRetires(o) PROVE LockHeldInside'
    BY <1>24 DEF SubmitRetires, Persist
  <1>25. ASSUME NEW o \in Ops, SubmitRetired(o) PROVE LockHeldInside'
    BY <1>25 DEF SubmitRetired, EndByCleaning, Clean
  <1>26. ASSUME NEW s \in Sessions, Scanned(s) PROVE LockHeldInside'
    BY <1>26 DEF Scanned, Known, NewToken, Renew
  <1>27. ASSUME NEW s \in Sessions, TimerExpires(s) PROVE LockHeldInside'
    BY <1>27 DEF TimerExpires, Clean
  <1>28. ASSUME NEW s \in Sessions, TimerGoesOn(s) PROVE LockHeldInside'
    BY <1>28 DEF TimerGoesOn
  <1>29. ASSUME NEW s \in Sessions, TimerEnds(s) PROVE LockHeldInside'
    BY <1>29 DEF TimerEnds
  <1>30. ASSUME NEW s \in Sessions, CleanupStops(s) PROVE LockHeldInside'
    BY <1>30 DEF CleanupStops
  <1>31. ASSUME NEW s \in Sessions, CleanupEnds(s) PROVE LockHeldInside'
    BY <1>31 DEF CleanupEnds, CleanerGoesOn
  <1>32. CASE Tick
    BY <1>32 DEF Tick
  <1>33. CASE OtherAcquires
    BY <1>33 DEF OtherAcquires
  <1>34. CASE OtherReleases
    BY <1>34 DEF OtherReleases
  <1>35. CASE UNCHANGED vars
    BY <1>35 DEF vars
  <1>36. ASSUME NEW o \in Ops, StartBreaks(o) PROVE LockHeldInside'
    BY <1>36 DEF StartBreaks
  <1> QED
    BY <1>1, <1>2, <1>3, <1>4, <1>5, <1>6, <1>7, <1>8, <1>9, <1>10, <1>11,
       <1>12, <1>13, <1>14, <1>15, <1>16, <1>17, <1>18, <1>19, <1>20,
       <1>21, <1>22, <1>23, <1>24, <1>25, <1>26, <1>27, <1>28, <1>29,
       <1>30, <1>31, <1>32, <1>33, <1>34, <1>35, <1>36
       DEF Next, Choose, Proceed, RunTimer, RunCleanup

\* A client is made by a start and stopped by a cleanup.
LEMMA ClientStep ==
  ASSUME Inv, [Next]_vars
  PROVE  ClientsAccountedFor'
  <1> USE NamesAssumption, LimitsAssumption DEF Inv, TypeOK, StartInv,
          PhaseInv, ClientsAccountedFor, BeingStarted, Points, Starting,
          StartPoints, Go, Begin, Return, cleanups, registry, clocks
  <1>1. ASSUME NEW o \in Ops, NEW s \in Sessions, RequestStart(o, s) PROVE ClientsAccountedFor'
    BY <1>1 DEF RequestStart, Clean
  <1>2. ASSUME NEW o \in Ops, NEW s \in Sessions, PollExpired(o, s) PROVE ClientsAccountedFor'
    BY <1>2 DEF PollExpired, Clean, Known
  <1>3. ASSUME NEW o \in Ops, NEW s \in Sessions, PollScanned(o, s) PROVE ClientsAccountedFor'
    BY <1>3 DEF PollScanned, Known, Extend, Renew, Reconnect
  <1>4. ASSUME NEW o \in Ops, NEW s \in Sessions, SubmitExpired(o, s) PROVE ClientsAccountedFor'
    BY <1>4 DEF SubmitExpired, Clean, Known
  <1>5. ASSUME NEW o \in Ops, NEW s \in Sessions, Submit(o, s) PROVE ClientsAccountedFor'
    BY <1>5 DEF Submit, Known, Extend, Renew
  <1>6. ASSUME NEW o \in Ops, NEW s \in Sessions, Cancel(o, s) PROVE ClientsAccountedFor'
    BY <1>6 DEF Cancel, Clean, Known
  <1>7. ASSUME NEW o \in Ops, AcquireStart(o) PROVE ClientsAccountedFor'
    BY <1>7 DEF AcquireStart
  <1>8. ASSUME NEW o \in Ops, StartRefused(o) PROVE ClientsAccountedFor'
    BY <1>8 DEF StartRefused
  <1>9. ASSUME NEW o \in Ops, Connected(o) PROVE ClientsAccountedFor'
    BY <1>9 DEF Connected
  <1>10. ASSUME NEW o \in Ops, ExportFails(o) PROVE ClientsAccountedFor'
    BY <1>10 DEF ExportFails
  <1>11. ASSUME NEW o \in Ops, Disconnected(o) PROVE ClientsAccountedFor'
    BY <1>11 DEF Disconnected
  <1>12. ASSUME NEW o \in Ops, Exported(o) PROVE ClientsAccountedFor'
    BY <1>12 DEF Exported
  <1>13. ASSUME NEW o \in Ops, Started(o) PROVE ClientsAccountedFor'
    BY <1>13 DEF Started
  <1>14. ASSUME NEW o \in Ops, PasswordRequired(o) PROVE ClientsAccountedFor'
    BY <1>14 DEF PasswordRequired, ExtendPending, Extend, Renew, PollReturns
  <1>15. ASSUME NEW o \in Ops, NotConfirmed(o) PROVE ClientsAccountedFor'
    BY <1>15 DEF NotConfirmed, NewToken, Renew, PollReturns
  <1>16. ASSUME NEW o \in Ops, Confirmed(o) PROVE ClientsAccountedFor'
    BY <1>16 DEF Confirmed
  <1>17. ASSUME NEW o \in Ops, PollSucceeds(o) PROVE ClientsAccountedFor'
    BY <1>17 DEF PollSucceeds, EndByCleaning, Clean, Persist
  <1>18. ASSUME NEW o \in Ops, PollFails(o) PROVE ClientsAccountedFor'
    BY <1>18 DEF PollFails, EndByCleaning, Clean
  <1>19. ASSUME NEW o \in Ops, SlotGranted(o) PROVE ClientsAccountedFor'
    BY <1>19 DEF SlotGranted, Reconnect
  <1>20. ASSUME NEW o \in Ops, TryAgain(o) PROVE ClientsAccountedFor'
    BY <1>20 DEF TryAgain, NewToken, Renew, Extend
  <1>21. ASSUME NEW o \in Ops, SubmitFails(o) PROVE ClientsAccountedFor'
    BY <1>21 DEF SubmitFails, EndByCleaning, Clean
  <1>22. ASSUME NEW o \in Ops, PasswordAsked(o) PROVE ClientsAccountedFor'
    BY <1>22 DEF PasswordAsked, ExtendPending, Extend, Renew
  <1>23. ASSUME NEW o \in Ops, SubmitSucceeds(o) PROVE ClientsAccountedFor'
    BY <1>23 DEF SubmitSucceeds, EndByCleaning, Clean, Persist
  <1>24. ASSUME NEW o \in Ops, SubmitRetires(o) PROVE ClientsAccountedFor'
    BY <1>24 DEF SubmitRetires, Persist
  <1>25. ASSUME NEW o \in Ops, SubmitRetired(o) PROVE ClientsAccountedFor'
    BY <1>25 DEF SubmitRetired, EndByCleaning, Clean
  <1>26. ASSUME NEW s \in Sessions, Scanned(s) PROVE ClientsAccountedFor'
    BY <1>26 DEF Scanned, Known, NewToken, Renew
  <1>27. ASSUME NEW s \in Sessions, TimerExpires(s) PROVE ClientsAccountedFor'
    BY <1>27 DEF TimerExpires, Clean
  <1>28. ASSUME NEW s \in Sessions, TimerGoesOn(s) PROVE ClientsAccountedFor'
    BY <1>28 DEF TimerGoesOn
  <1>29. ASSUME NEW s \in Sessions, TimerEnds(s) PROVE ClientsAccountedFor'
    BY <1>29 DEF TimerEnds
  <1>30. ASSUME NEW s \in Sessions, CleanupStops(s) PROVE ClientsAccountedFor'
    BY <1>30 DEF CleanupStops
  <1>31. ASSUME NEW s \in Sessions, CleanupEnds(s) PROVE ClientsAccountedFor'
    BY <1>31 DEF CleanupEnds, CleanerGoesOn
  <1>32. CASE Tick
    BY <1>32 DEF Tick
  <1>33. CASE OtherAcquires
    BY <1>33 DEF OtherAcquires
  <1>34. CASE OtherReleases
    BY <1>34 DEF OtherReleases
  <1>35. CASE UNCHANGED vars
    BY <1>35 DEF vars
  <1>36. ASSUME NEW o \in Ops, StartBreaks(o) PROVE ClientsAccountedFor'
    BY <1>36 DEF StartBreaks
  <1> QED
    BY <1>1, <1>2, <1>3, <1>4, <1>5, <1>6, <1>7, <1>8, <1>9, <1>10, <1>11,
       <1>12, <1>13, <1>14, <1>15, <1>16, <1>17, <1>18, <1>19, <1>20,
       <1>21, <1>22, <1>23, <1>24, <1>25, <1>26, <1>27, <1>28, <1>29,
       <1>30, <1>31, <1>32, <1>33, <1>34, <1>35, <1>36
       DEF Next, Choose, Proceed, RunTimer, RunCleanup

\* Nobody stores a session after its cleanup has stopped its client.
LEMMA DiscardStep ==
  ASSUME Inv, [Next]_vars
  PROVE  DiscardedStaysOut'
  <1> USE NamesAssumption, LimitsAssumption DEF Inv, TypeOK, StartInv,
          PhaseInv, ClientsAccountedFor, DiscardedStaysOut, BeingStarted,
          Points, Starting, StartPoints, Go, Begin, Return, cleanups,
          registry, clocks
  <1>1. ASSUME NEW o \in Ops, NEW s \in Sessions, RequestStart(o, s) PROVE DiscardedStaysOut'
    BY <1>1 DEF RequestStart, Clean
  <1>2. ASSUME NEW o \in Ops, NEW s \in Sessions, PollExpired(o, s) PROVE DiscardedStaysOut'
    BY <1>2 DEF PollExpired, Clean, Known
  <1>3. ASSUME NEW o \in Ops, NEW s \in Sessions, PollScanned(o, s) PROVE DiscardedStaysOut'
    BY <1>3 DEF PollScanned, Known, Extend, Renew, Reconnect
  <1>4. ASSUME NEW o \in Ops, NEW s \in Sessions, SubmitExpired(o, s) PROVE DiscardedStaysOut'
    BY <1>4 DEF SubmitExpired, Clean, Known
  <1>5. ASSUME NEW o \in Ops, NEW s \in Sessions, Submit(o, s) PROVE DiscardedStaysOut'
    BY <1>5 DEF Submit, Known, Extend, Renew
  <1>6. ASSUME NEW o \in Ops, NEW s \in Sessions, Cancel(o, s) PROVE DiscardedStaysOut'
    BY <1>6 DEF Cancel, Clean, Known
  <1>7. ASSUME NEW o \in Ops, AcquireStart(o) PROVE DiscardedStaysOut'
    BY <1>7 DEF AcquireStart
  <1>8. ASSUME NEW o \in Ops, StartRefused(o) PROVE DiscardedStaysOut'
    BY <1>8 DEF StartRefused
  <1>9. ASSUME NEW o \in Ops, Connected(o) PROVE DiscardedStaysOut'
    BY <1>9 DEF Connected
  <1>10. ASSUME NEW o \in Ops, ExportFails(o) PROVE DiscardedStaysOut'
    BY <1>10 DEF ExportFails
  <1>11. ASSUME NEW o \in Ops, Disconnected(o) PROVE DiscardedStaysOut'
    BY <1>11 DEF Disconnected
  <1>12. ASSUME NEW o \in Ops, Exported(o) PROVE DiscardedStaysOut'
    BY <1>12 DEF Exported
  <1>13. ASSUME NEW o \in Ops, Started(o) PROVE DiscardedStaysOut'
    BY <1>13 DEF Started
  <1>14. ASSUME NEW o \in Ops, PasswordRequired(o) PROVE DiscardedStaysOut'
    BY <1>14 DEF PasswordRequired, ExtendPending, Extend, Renew, PollReturns
  <1>15. ASSUME NEW o \in Ops, NotConfirmed(o) PROVE DiscardedStaysOut'
    BY <1>15 DEF NotConfirmed, NewToken, Renew, PollReturns
  <1>16. ASSUME NEW o \in Ops, Confirmed(o) PROVE DiscardedStaysOut'
    BY <1>16 DEF Confirmed
  <1>17. ASSUME NEW o \in Ops, PollSucceeds(o) PROVE DiscardedStaysOut'
    BY <1>17 DEF PollSucceeds, EndByCleaning, Clean, Persist
  <1>18. ASSUME NEW o \in Ops, PollFails(o) PROVE DiscardedStaysOut'
    BY <1>18 DEF PollFails, EndByCleaning, Clean
  <1>19. ASSUME NEW o \in Ops, SlotGranted(o) PROVE DiscardedStaysOut'
    BY <1>19 DEF SlotGranted, Reconnect
  <1>20. ASSUME NEW o \in Ops, TryAgain(o) PROVE DiscardedStaysOut'
    BY <1>20 DEF TryAgain, NewToken, Renew, Extend
  <1>21. ASSUME NEW o \in Ops, SubmitFails(o) PROVE DiscardedStaysOut'
    BY <1>21 DEF SubmitFails, EndByCleaning, Clean
  <1>22. ASSUME NEW o \in Ops, PasswordAsked(o) PROVE DiscardedStaysOut'
    BY <1>22 DEF PasswordAsked, ExtendPending, Extend, Renew
  <1>23. ASSUME NEW o \in Ops, SubmitSucceeds(o) PROVE DiscardedStaysOut'
    BY <1>23 DEF SubmitSucceeds, EndByCleaning, Clean, Persist
  <1>24. ASSUME NEW o \in Ops, SubmitRetires(o) PROVE DiscardedStaysOut'
    BY <1>24 DEF SubmitRetires, Persist
  <1>25. ASSUME NEW o \in Ops, SubmitRetired(o) PROVE DiscardedStaysOut'
    BY <1>25 DEF SubmitRetired, EndByCleaning, Clean
  <1>26. ASSUME NEW s \in Sessions, Scanned(s) PROVE DiscardedStaysOut'
    BY <1>26 DEF Scanned, Known, NewToken, Renew
  <1>27. ASSUME NEW s \in Sessions, TimerExpires(s) PROVE DiscardedStaysOut'
    BY <1>27 DEF TimerExpires, Clean
  <1>28. ASSUME NEW s \in Sessions, TimerGoesOn(s) PROVE DiscardedStaysOut'
    BY <1>28 DEF TimerGoesOn
  <1>29. ASSUME NEW s \in Sessions, TimerEnds(s) PROVE DiscardedStaysOut'
    BY <1>29 DEF TimerEnds
  <1>30. ASSUME NEW s \in Sessions, CleanupStops(s) PROVE DiscardedStaysOut'
    BY <1>30 DEF CleanupStops
  <1>31. ASSUME NEW s \in Sessions, CleanupEnds(s) PROVE DiscardedStaysOut'
    BY <1>31 DEF CleanupEnds, CleanerGoesOn
  <1>32. CASE Tick
    BY <1>32 DEF Tick
  <1>33. CASE OtherAcquires
    BY <1>33 DEF OtherAcquires
  <1>34. CASE OtherReleases
    BY <1>34 DEF OtherReleases
  <1>35. CASE UNCHANGED vars
    BY <1>35 DEF vars
  <1>36. ASSUME NEW o \in Ops, StartBreaks(o) PROVE DiscardedStaysOut'
    BY <1>36 DEF StartBreaks
  <1> QED
    BY <1>1, <1>2, <1>3, <1>4, <1>5, <1>6, <1>7, <1>8, <1>9, <1>10, <1>11,
       <1>12, <1>13, <1>14, <1>15, <1>16, <1>17, <1>18, <1>19, <1>20,
       <1>21, <1>22, <1>23, <1>24, <1>25, <1>26, <1>27, <1>28, <1>29,
       <1>30, <1>31, <1>32, <1>33, <1>34, <1>35, <1>36
       DEF Next, Choose, Proceed, RunTimer, RunCleanup

\* The invariant holds in every reachable state.
THEOREM InvHolds == Spec => []Inv
  <1>1. Init => Inv
    BY NamesAssumption, LimitsAssumption
       DEF Init, Inv, TypeOK, StartInv, PhaseInv, LockHeldInside, ClientsAccountedFor,
           DiscardedStaysOut, BeingStarted, Points, Starting, StartPoints
  <1>2. Inv /\ [Next]_vars => Inv'
    BY TypeStep, StartStep, PhaseStep, LockStep, ClientStep, DiscardStep DEF Inv
  <1> QED
    BY <1>1, <1>2, PTL DEF Spec

(***************************************************************************)
(* No deadline of a QR login is moved past the extension, and a session is *)
(* in one phase at a time (telegram.py:717-723, :1114-1121).               *)
(***************************************************************************)
THEOREM TypeCorrect == Spec => []TypeOK
  BY InvHolds, PTL DEF Inv

(***************************************************************************)
(* A QR login holds the account's lock over all its requests, and whoever  *)
(* cleans it up releases that lock and no other (telegram.py:673-715).     *)
(* Nobody else has it in a login's name but a start that broke before its  *)
(* try (telegram.py:777-809), which keeps it.                              *)
(***************************************************************************)
THEOREM LockCorrect == Spec => []LockHeldInside
  BY InvHolds, PTL DEF Inv

(***************************************************************************)
(* No client of a QR login is left connected, however the login ends,      *)
(* except one that a late password request connects again                  *)
(* (telegram.py:905-918, :681-707, :1345-1348).                            *)
(***************************************************************************)
THEOREM ClientsCorrect == Spec => []ClientsAccountedFor
  BY InvHolds, PTL DEF Inv

(***************************************************************************)
(* A discarded QR login leaves no session string behind, also when it is   *)
(* confirmed while it is cleaned up (telegram.py:1009-1048, :708-715).     *)
(***************************************************************************)
THEOREM DiscardedCorrect == Spec => []DiscardedStaysOut
  BY InvHolds, PTL DEF Inv

-----------------------------------------------------------------------------

(***************************************************************************)
(* QR logins keep the promise of AccountSlots for their account.  Whoever  *)
(* has its lock owns it, and a session drives it while its client is       *)
(* connected, until the start that failed disconnects it.  Clients that    *)
(* were connected once more are left out: nobody owns the account for them *)
(* (telegram.py:1346-1348).                                                *)
(***************************************************************************)
Disconnecting(s) == \E o \in Ops : target[o] = s /\ pc[o] = "disconnecting"
Driven == {s \in Sessions \ reopened : client[s] = "live" /\ ~Disconnecting(s)}
Owners == Sessions \cup {Other}

Slots == INSTANCE AccountSlots WITH
            Users <- Owners, Accounts <- {"account"},
            AccountFor <- [u \in Owners |-> "account"], Limit <- 1,
            owner <- [x \in {"account"} |-> lock], using <- Driven

ImplementsSlots == Slots!Spec

\* Who drives the account has its lock.
LEMMA DriverOwns ==
  ASSUME Inv, NEW s \in Driven
  PROVE  s \in Sessions /\ lock = s
  BY DEF Driven, Inv, ClientsAccountedFor, LockHeldInside

\* What a step can do to the lock and to the drivers.
Shared ==
    \/ lock' = lock /\ Driven' = Driven
    \/ \E u \in Owners : lock = Free /\ lock' = u /\ Driven' = Driven
    \/ \E u \in Owners : lock = u /\ u \notin Driven /\ lock' = Free /\ Driven' = Driven
    \/ \E s \in Sessions : lock = s /\ s \notin Driven /\ lock' = lock /\ Driven' = Driven \cup {s}
    \/ \E s \in Driven : lock' = lock /\ Driven' = Driven \ {s}

\* A step of that kind is one of AccountSlots, or leaves both alone.
LEMMA SharedIsAllowed ==
  ASSUME Inv, Shared
  PROVE  [Slots!Next]_(Slots!vars)
  <1> USE DEF Owners
  <1>1. CASE lock' = lock /\ Driven' = Driven
    BY <1>1 DEF Slots!vars
  <1>2. ASSUME NEW u \in Owners, lock = Free, lock' = u, Driven' = Driven
        PROVE  Slots!Own(u)
    BY <1>2 DEF Slots!Own
  <1>3. ASSUME NEW u \in Owners, lock = u, u \notin Driven, lock' = Free, Driven' = Driven
        PROVE  Slots!GiveUp(u)
    BY <1>3 DEF Slots!GiveUp
  <1>4. ASSUME NEW s \in Sessions, lock = s, s \notin Driven, lock' = lock,
               Driven' = Driven \cup {s}
        PROVE  Slots!Use(s)
    <2>1. Driven = {}
      BY <1>4, DriverOwns
    <2>2. Cardinality(Driven) < 1
      BY <2>1, FS_EmptySet
    <2>3. [u \in Owners |-> "account"][s] = "account"
      BY <1>4
    <2>4. [x \in {"account"} |-> lock]["account"] = s
      BY <1>4
    <2>5. [x \in {"account"} |-> lock]' = [x \in {"account"} |-> lock]
      BY <1>4
    <2> QED
      BY <1>4, <2>2, <2>3, <2>4, <2>5, Zenon DEF Slots!Use, Slots!Cardinality, Cardinality
  <1>5. ASSUME NEW s \in Driven, lock' = lock, Driven' = Driven \ {s}
        PROVE  s \in Owners /\ Slots!StopUsing(s)
    BY <1>5, DriverOwns DEF Slots!StopUsing
  <1> QED
    BY <1>1, <1>2, <1>3, <1>4, <1>5 DEF Shared, Slots!Next

\* A step that leaves the clients alone and begins or ends no disconnecting
\* leaves the drivers alone.
SameClients ==
    /\ client' = client /\ reopened' = reopened
    /\ \A o \in Ops :
          /\ pc'[o] = "disconnecting" <=> pc[o] = "disconnecting"
          /\ pc[o] = "disconnecting" => target'[o] = target[o]

LEMMA SameDrivers ==
  ASSUME SameClients
  PROVE  Driven' = Driven
  <1>1. \A s : Disconnecting(s)' <=> Disconnecting(s)
    BY DEF SameClients, Disconnecting
  <1> QED
    BY <1>1 DEF SameClients, Driven

\* The steps of which that is true.
LEMMA QuietSteps ==
  ASSUME Inv,
         \/ \E o \in Ops, s \in Sessions :
               \/ RequestStart(o, s) \/ PollExpired(o, s) \/ SubmitExpired(o, s)
               \/ Submit(o, s) \/ Cancel(o, s)
         \/ \E o \in Ops :
               \/ StartBreaks(o)
               \/ Exported(o) \/ Started(o) \/ PasswordRequired(o) \/ NotConfirmed(o)
               \/ Confirmed(o) \/ PollSucceeds(o) \/ PollFails(o) \/ TryAgain(o)
               \/ SubmitFails(o) \/ PasswordAsked(o) \/ SubmitSucceeds(o) \/ SubmitRetired(o)
         \/ \E s \in Sessions : Scanned(s) \/ RunTimer(s)
         \/ Tick \/ UNCHANGED vars
  PROVE  lock' = lock /\ SameClients
  <1> USE DEF Inv, TypeOK, SameClients, Go, Begin, Return, cleanups, registry, clocks
  <1>1. ASSUME NEW o \in Ops, NEW s \in Sessions,
               \/ RequestStart(o, s) \/ PollExpired(o, s) \/ SubmitExpired(o, s)
               \/ Submit(o, s) \/ Cancel(o, s)
        PROVE  lock' = lock /\ SameClients
    BY <1>1 DEF RequestStart, PollExpired, SubmitExpired, Submit, Cancel
  <1>2. ASSUME NEW o \in Ops,
               \/ StartBreaks(o) \/ Exported(o) \/ Started(o) \/ PasswordRequired(o)
               \/ NotConfirmed(o) \/ Confirmed(o) \/ TryAgain(o) \/ PasswordAsked(o)
        PROVE  lock' = lock /\ SameClients
    BY <1>2 DEF StartBreaks, Exported, Started, PasswordRequired, NotConfirmed, PollReturns,
       Confirmed, TryAgain, PasswordAsked
  <1>3. ASSUME NEW o \in Ops,
               \/ PollSucceeds(o) \/ PollFails(o) \/ SubmitFails(o)
               \/ SubmitSucceeds(o) \/ SubmitRetired(o)
        PROVE  lock' = lock /\ SameClients
    BY <1>3 DEF PollSucceeds, PollFails, SubmitFails, SubmitSucceeds, SubmitRetired, EndByCleaning
  <1>4. ASSUME NEW s \in Sessions, Scanned(s) \/ RunTimer(s)
        PROVE  lock' = lock /\ SameClients
    BY <1>4 DEF Scanned, RunTimer, TimerExpires, TimerGoesOn, TimerEnds
  <1>5. CASE Tick \/ UNCHANGED vars
    BY <1>5 DEF Tick, vars
  <1> QED
    BY <1>1, <1>2, <1>3, <1>4, <1>5

\* A session's client is no longer driven once it is closed.
LEMMA ClosedIsDropped ==
  ASSUME Inv, NEW s \in Sessions, client' = [client EXCEPT ![s] = "closed"],
         reopened' = reopened, lock' = lock,
         \A o \in Ops : /\ pc'[o] = "disconnecting" <=> pc[o] = "disconnecting"
                        /\ pc[o] = "disconnecting" => target'[o] = target[o]
  PROVE  Shared
  <1>1. \A x : Disconnecting(x)' <=> Disconnecting(x)
    BY DEF Disconnecting
  <1>2. Driven' = Driven \ {s}
    BY <1>1 DEF Driven, Inv, TypeOK
  <1> QED
    BY <1>2 DEF Shared

\* A client that is connected again was driven already, or is left out.
LEMMA ReconnectedIsLeftOut ==
  ASSUME Inv, NEW s \in Sessions, Reconnect(s), client[s] # "none", lock' = lock,
         \A o \in Ops : /\ pc'[o] = "disconnecting" <=> pc[o] = "disconnecting"
                        /\ pc[o] = "disconnecting" => target'[o] = target[o]
  PROVE  Shared
  <1>1. \A x : Disconnecting(x)' <=> Disconnecting(x)
    BY DEF Disconnecting
  <1>2. Driven' = Driven
    BY <1>1 DEF Driven, Inv, TypeOK, Reconnect
  <1> QED
    BY <1>2 DEF Shared

\* Every step of the login is one of AccountSlots, or leaves the lock and the
\* drivers alone: a start that was granted the lock takes the account, its
\* client is driven once connected and until it is stopped or disconnected,
\* and only then is the lock released.
LEMMA StepIsShared ==
  ASSUME Inv, [Next]_vars
  PROVE  Shared
  <1> USE DEF Inv, TypeOK, Go, Return, cleanups, registry, Driven, Disconnecting, Shared
  <1>0. ASSUME lock' = lock, SameClients
        PROVE  Shared
    BY <1>0, SameDrivers
  <1>1. ASSUME NEW o \in Ops, AcquireStart(o)
        PROVE  Shared
    <2>1. SameClients
      BY <1>1 DEF AcquireStart, SameClients
    <2>2. target[o] \in Owners /\ lock = Free /\ lock' = target[o]
      BY <1>1 DEF AcquireStart, StartInv, Owners
    <2> QED
      BY <2>1, <2>2, SameDrivers
  <1>2. ASSUME NEW o \in Ops, StartRefused(o)
        PROVE  Shared
    <2>1. SameClients
      BY <1>2 DEF StartRefused, SameClients
    <2>2. target[o] \in Sessions /\ client[target[o]] = "none" /\ lock = target[o]
      BY <1>2 DEF StartRefused, StartInv, LockHeldInside, BeingStarted, Starting
    <2>3. target[o] \in Owners /\ target[o] \notin Driven /\ lock' = Free
      BY <1>2, <2>2 DEF StartRefused, Owners
    <2> QED
      BY <2>1, <2>2, <2>3, SameDrivers
  <1>3. ASSUME NEW o \in Ops, Connected(o)
        PROVE  Shared
    <2>1. target[o] \in Sessions /\ client[target[o]] = "none" /\ lock = target[o]
      BY <1>3 DEF Connected, StartInv, LockHeldInside, BeingStarted, Starting
    <2>2. \A x : Disconnecting(x)' <=> Disconnecting(x)
      BY <1>3 DEF Connected
    <2>3. ~Disconnecting(target[o])
      BY <1>3 DEF Connected, StartInv, StartPoints, Starting
    <2>4. Driven' = IF target[o] \in reopened THEN Driven ELSE Driven \cup {target[o]}
      <3> HIDE DEF Disconnecting
      <3> QED
        BY <1>3, <2>1, <2>2, <2>3 DEF Connected
    <2>5. target[o] \notin Driven /\ lock' = lock
      BY <1>3, <2>1 DEF Connected
    <2> QED
      BY <2>1, <2>4, <2>5
  <1>4. ASSUME NEW o \in Ops, ExportFails(o)
        PROVE  Shared
    <2>1. target[o] \in Sessions
      BY <1>4 DEF ExportFails, StartInv
    <2>2. \A x : Disconnecting(x)' <=> Disconnecting(x) \/ x = target[o]
      BY <1>4 DEF ExportFails
    <2>3. Driven' = Driven \ {target[o]} /\ lock' = lock
      <3> HIDE DEF Disconnecting
      <3> QED
        BY <1>4, <2>1, <2>2 DEF ExportFails
    <2> QED
      BY <2>3
  <1>5. ASSUME NEW o \in Ops, Disconnected(o)
        PROVE  Shared
    <2>1. target[o] \in Sessions /\ lock = target[o] /\ Disconnecting(target[o])
      BY <1>5 DEF Disconnected, StartInv, LockHeldInside, BeingStarted, Starting
    <2>2. \A x : x # target[o] => (Disconnecting(x)' <=> Disconnecting(x))
      BY <1>5 DEF Disconnected
    <2>3. Driven' = Driven /\ target[o] \notin Driven /\ lock' = Free
      <3> HIDE DEF Disconnecting
      <3> QED
        BY <1>5, <2>1, <2>2 DEF Disconnected
    <2> QED
      BY <2>1, <2>3 DEF Owners
  <1>6. ASSUME NEW o \in Ops, NEW s \in Sessions, PollScanned(o, s)
        PROVE  Shared
    <2>1. client[s] # "none"
      BY <1>6 DEF PollScanned, Known, PhaseInv
    <2> QED
      BY <1>6, <2>1, ReconnectedIsLeftOut DEF PollScanned, Begin
  <1>7. ASSUME NEW o \in Ops, SlotGranted(o)
        PROVE  Shared
    <2>1. target[o] \in Sessions /\ client[target[o]] # "none"
      BY <1>7 DEF SlotGranted, StartInv
    <2> QED
      BY <1>7, <2>1, ReconnectedIsLeftOut DEF SlotGranted
  <1>8. ASSUME NEW o \in Ops, SubmitRetires(o)
        PROVE  Shared
    <2>1. target[o] \in Sessions
      BY <1>8 DEF SubmitRetires, StartInv
    <2> QED
      BY <1>8, <2>1, ClosedIsDropped DEF SubmitRetires
  <1>9. ASSUME NEW s \in Sessions, CleanupStops(s)
        PROVE  Shared
    BY <1>9, ClosedIsDropped DEF CleanupStops
  <1>10. ASSUME NEW s \in Sessions, CleanupEnds(s)
         PROVE  Shared
    <2>1. SameClients
      BY <1>10 DEF CleanupEnds, CleanerGoesOn, SameClients
    <2>2. lock = s /\ s \notin Driven
      BY <1>10 DEF CleanupEnds, LockHeldInside, ClientsAccountedFor, PhaseInv, BeingStarted
    <2>3. s \in Owners /\ lock' = Free
      BY <1>10 DEF CleanupEnds, Owners
    <2> QED
      BY <2>1, <2>2, <2>3, SameDrivers
  <1>11. CASE OtherAcquires \/ OtherReleases
    <2>1. SameClients
      BY <1>11 DEF OtherAcquires, OtherReleases, SameClients
    <2>2. Other \in Owners /\ Other \notin Driven
      BY NamesAssumption DEF Owners
    <2> QED
      BY <1>11, <2>1, <2>2, SameDrivers DEF OtherAcquires, OtherReleases
  <1> HIDE DEF Inv, TypeOK, Go, Return, cleanups, registry, Driven, Disconnecting, Shared
  <1> QED
    BY <1>0, <1>1, <1>2, <1>3, <1>4, <1>5, <1>6, <1>7, <1>8, <1>9, <1>10, <1>11, QuietSteps
       DEF Next, Choose, Proceed, RunCleanup

\* From its start to the end of its cleanup a login uses the account as its
\* only owner, one connected client at a time, and releases the lock only
\* after the client is gone (telegram.py, start_qr_login and
\* _cleanup_qr_login): a QR login keeps to what the account locks promise.
\* That it gives the lock up at all is not promised here, and a start that
\* broke before its try does not: it stays the owner and never uses it.
THEOREM Refinement == Spec => ImplementsSlots
  <1>1. Init => Slots!Init
    BY DEF Init, Slots!Init, Driven
  <1>2. Inv /\ [Next]_vars => [Slots!Next]_(Slots!vars)
    BY StepIsShared, SharedIsAllowed
  <1> QED
    BY <1>1, <1>2, InvHolds, PTL DEF Spec, ImplementsSlots, Slots!Spec

=============================================================================
