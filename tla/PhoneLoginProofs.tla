-------------------------- MODULE PhoneLoginProofs --------------------------
(***************************************************************************)
(* Proofs about PhoneLogin for any number of requests and of logins, any   *)
(* assignment of phone numbers and any deadlines.  TypeOK and              *)
(* LockHeldInside are inductive one after the other; what happens to a     *)
(* login's client needs SessionInv, which says who works on which session. *)
(***************************************************************************)
EXTENDS PhoneLogin, FiniteSetTheorems, TLAPS

\* A start keeps its session to itself until it registers it.
StartInv ==
    /\ \A o \in Ops : pc[o] # "idle" => target[o] \in Sessions
    /\ \A o \in Ops : pc[o] \in {"replacing", "sending"} => kind[o] = "start"
    /\ \A o \in Ops :
          pc[o] \in {"lock_wait", "replacing"} /\ kind[o] = "start" =>
             client[target[o]] = "none"
    /\ \A o \in Ops :
          pc[o] \in {"lock_wait", "replacing", "sending"} /\ kind[o] = "start" =>
             /\ timer[target[o]] = "none"
             /\ \A p \in Ops \ {o} : pc[p] # "idle" => target[p] # target[o]

\* An operation inside the lock handles its own session: one that is not
\* registered yet, one that is, or one that is being closed.
HandlingInv ==
    /\ \A o \in Ops : pc[o] \in Inside => handling[o] \in Sessions
    /\ \A o \in Ops :
          pc[o] = "sending" =>
             /\ handling[o] = target[o]
             /\ client[target[o]] \in {"new", "live"}
    /\ \A o \in Ops :
          pc[o] \in {"signing", "retiring"} =>
             handling[o] \in pending /\ handling[o] = target[o]
    /\ \A o \in Ops : pc[o] \in Teardown => client[handling[o]] = "closing"

\* A client belongs to its pending session, to the start that makes it or to
\* who closes it; a session waits with its expiry task at its side.
SessionInv ==
    /\ \A s \in Sessions : s \in pending <=> timer[s] \in {"sleeping", "lock_wait"}
    /\ \A s \in Sessions : s \in pending => client[s] = "live"
    /\ \A s \in Sessions : client[s] = "none" => timer[s] = "none"
    /\ \A s \in Sessions : timer[s] = "closing" => client[s] = "closing"
    /\ \A s \in Sessions :
          client[s] \in {"new", "live"} =>
             s \in pending \/ \E o \in Ops : pc[o] = "sending" /\ handling[o] = s
    /\ \A s \in Sessions :
          client[s] = "closing" =>
             timer[s] = "closing" \/ \E o \in Ops : pc[o] \in Teardown /\ handling[o] = s

\* An account has one pending phone login at most, whatever the numbers.
OnePending ==
    /\ \A s, t \in pending : s = t
    /\ \A o \in Ops : pc[o] = "sending" => pending = {}

Inv == TypeOK /\ LockHeldInside /\ StartInv /\ HandlingInv /\ SessionInv /\ OnePending

\* Nothing leaves its range: a session is registered by its own start only.
LEMMA TypeStep ==
  ASSUME Inv, [Next]_vars
  PROVE  TypeOK'
  <1> USE NamesAssumption, LimitsAssumption DEF Inv, TypeOK, StartInv, Kinds, Points, Inside, Teardown, Go, Handle, clocks
  <1>1. ASSUME NEW o \in Ops, NEW s \in Sessions, RequestStart(o, s) PROVE TypeOK'
    BY <1>1 DEF RequestStart, Request
  <1>2. ASSUME NEW o \in Ops, NEW s \in Sessions, RequestVerify(o, s) PROVE TypeOK'
    BY <1>2 DEF RequestVerify, Request
  <1>3. ASSUME NEW o \in Ops, NEW s \in Sessions, RequestCancel(o, s) PROVE TypeOK'
    BY <1>3 DEF RequestCancel, Request
  <1>4. ASSUME NEW o \in Ops, AcquireStart(o) PROVE TypeOK'
    BY <1>4 DEF AcquireStart, Granted, Replace, Drop
  <1>5. ASSUME NEW o \in Ops, AcquireVerify(o) PROVE TypeOK'
    BY <1>5 DEF AcquireVerify, Granted, FindNothing, DropFound, Drop, Found, Registered
  <1>6. ASSUME NEW o \in Ops, Connect(o) PROVE TypeOK'
    BY <1>6 DEF Connect
  <1>7. ASSUME NEW o \in Ops, CodeSent(o) PROVE TypeOK'
    BY <1>7 DEF CodeSent, Register, Leave
  <1>8. ASSUME NEW o \in Ops, PasswordNeeded(o) PROVE TypeOK'
    <2>1. handling[o] \in Sessions
      BY <1>8 DEF PasswordNeeded, HandlingInv
    <2> QED
      BY <1>8, <2>1 DEF PasswordNeeded, Leave
  <1>9. ASSUME NEW o \in Ops, SignedIn(o) PROVE TypeOK'
    BY <1>9 DEF SignedIn
  <1>10. ASSUME NEW o \in Ops, CancelReplacing(o) PROVE TypeOK'
    BY <1>10 DEF CancelReplacing
  <1>11. ASSUME NEW o \in Ops, AcquireCancel(o) PROVE TypeOK'
    BY <1>11 DEF AcquireCancel, Granted, FindNothing, DropFound, Drop, Found, Registered
  <1>12. ASSUME NEW o \in Ops, WaitTimesOut(o) PROVE TypeOK'
    BY <1>12 DEF WaitTimesOut
  <1>13. ASSUME NEW o \in Ops, Replaced(o) PROVE TypeOK'
    BY <1>13 DEF Replaced, Replace, Drop, Leave
  <1>14. ASSUME NEW o \in Ops, SendingFails(o) PROVE TypeOK'
    BY <1>14 DEF SendingFails
  <1>15. ASSUME NEW o \in Ops, VerifyEnds(o) PROVE TypeOK'
    BY <1>15 DEF VerifyEnds, Drop
  <1>16. ASSUME NEW o \in Ops, TornDown(o) PROVE TypeOK'
    BY <1>16 DEF TornDown, Leave
  <1>17. ASSUME NEW s \in Sessions, TimerWakes(s) PROVE TypeOK'
    BY <1>17 DEF TimerWakes
  <1>18. ASSUME NEW s \in Sessions, TimerExpires(s) PROVE TypeOK'
    BY <1>18 DEF TimerExpires
  <1>19. ASSUME NEW s \in Sessions, TimerGoesOn(s) PROVE TypeOK'
    BY <1>19 DEF TimerGoesOn
  <1>20. ASSUME NEW s \in Sessions, TimerTornDown(s) PROVE TypeOK'
    BY <1>20 DEF TimerTornDown
  <1>21. CASE Shutdown
    BY <1>21 DEF Shutdown, Request
  <1>22. CASE Tick
    BY <1>22 DEF Tick
  <1>23. CASE OtherAcquires
    BY <1>23 DEF OtherAcquires
  <1>24. CASE OtherReleases
    BY <1>24 DEF OtherReleases
  <1>25. CASE UNCHANGED vars
    BY <1>25 DEF vars, clocks
  <1> QED
    BY <1>1, <1>2, <1>3, <1>4, <1>5, <1>6, <1>7, <1>8, <1>9, <1>10, <1>11,
       <1>12, <1>13, <1>14, <1>15, <1>16, <1>17, <1>18, <1>19, <1>20,
       <1>21, <1>22, <1>23, <1>24, <1>25
       DEF Next, Choose, Proceed, RunTimer

\* The lock is taken and given back with the state that goes with it.
LEMMA LockStep ==
  ASSUME Inv, [Next]_vars
  PROVE  LockHeldInside'
  <1> USE NamesAssumption, LimitsAssumption DEF Inv, TypeOK, LockHeldInside, Kinds, Points, Inside, Teardown, Go, Handle, clocks
  <1>1. ASSUME NEW o \in Ops, NEW s \in Sessions, RequestStart(o, s) PROVE LockHeldInside'
    BY <1>1 DEF RequestStart, Request
  <1>2. ASSUME NEW o \in Ops, NEW s \in Sessions, RequestVerify(o, s) PROVE LockHeldInside'
    BY <1>2 DEF RequestVerify, Request
  <1>3. ASSUME NEW o \in Ops, NEW s \in Sessions, RequestCancel(o, s) PROVE LockHeldInside'
    BY <1>3 DEF RequestCancel, Request
  <1>4. ASSUME NEW o \in Ops, AcquireStart(o) PROVE LockHeldInside'
    BY <1>4 DEF AcquireStart, Granted, Replace, Drop
  <1>5. ASSUME NEW o \in Ops, AcquireVerify(o) PROVE LockHeldInside'
    BY <1>5 DEF AcquireVerify, Granted, FindNothing, DropFound, Drop, Found, Registered
  <1>6. ASSUME NEW o \in Ops, Connect(o) PROVE LockHeldInside'
    BY <1>6 DEF Connect
  <1>7. ASSUME NEW o \in Ops, CodeSent(o) PROVE LockHeldInside'
    BY <1>7 DEF CodeSent, Register, Leave
  <1>8. ASSUME NEW o \in Ops, PasswordNeeded(o) PROVE LockHeldInside'
    BY <1>8 DEF PasswordNeeded, Leave
  <1>9. ASSUME NEW o \in Ops, SignedIn(o) PROVE LockHeldInside'
    BY <1>9 DEF SignedIn
  <1>10. ASSUME NEW o \in Ops, CancelReplacing(o) PROVE LockHeldInside'
    BY <1>10 DEF CancelReplacing
  <1>11. ASSUME NEW o \in Ops, AcquireCancel(o) PROVE LockHeldInside'
    BY <1>11 DEF AcquireCancel, Granted, FindNothing, DropFound, Drop, Found, Registered
  <1>12. ASSUME NEW o \in Ops, WaitTimesOut(o) PROVE LockHeldInside'
    BY <1>12 DEF WaitTimesOut
  <1>13. ASSUME NEW o \in Ops, Replaced(o) PROVE LockHeldInside'
    BY <1>13 DEF Replaced, Replace, Drop, Leave
  <1>14. ASSUME NEW o \in Ops, SendingFails(o) PROVE LockHeldInside'
    BY <1>14 DEF SendingFails
  <1>15. ASSUME NEW o \in Ops, VerifyEnds(o) PROVE LockHeldInside'
    BY <1>15 DEF VerifyEnds, Drop
  <1>16. ASSUME NEW o \in Ops, TornDown(o) PROVE LockHeldInside'
    BY <1>16 DEF TornDown, Leave
  <1>17. ASSUME NEW s \in Sessions, TimerWakes(s) PROVE LockHeldInside'
    BY <1>17 DEF TimerWakes
  <1>18. ASSUME NEW s \in Sessions, TimerExpires(s) PROVE LockHeldInside'
    BY <1>18 DEF TimerExpires
  <1>19. ASSUME NEW s \in Sessions, TimerGoesOn(s) PROVE LockHeldInside'
    BY <1>19 DEF TimerGoesOn
  <1>20. ASSUME NEW s \in Sessions, TimerTornDown(s) PROVE LockHeldInside'
    BY <1>20 DEF TimerTornDown
  <1>21. CASE Shutdown
    BY <1>21 DEF Shutdown, Request
  <1>22. CASE Tick
    BY <1>22 DEF Tick
  <1>23. CASE OtherAcquires
    BY <1>23 DEF OtherAcquires
  <1>24. CASE OtherReleases
    BY <1>24 DEF OtherReleases
  <1>25. CASE UNCHANGED vars
    BY <1>25 DEF vars, clocks
  <1> QED
    BY <1>1, <1>2, <1>3, <1>4, <1>5, <1>6, <1>7, <1>8, <1>9, <1>10, <1>11,
       <1>12, <1>13, <1>14, <1>15, <1>16, <1>17, <1>18, <1>19, <1>20,
       <1>21, <1>22, <1>23, <1>24, <1>25
       DEF Next, Choose, Proceed, RunTimer

\* Requests name sessions no start is about to make.
LEMMA StartStep ==
  ASSUME Inv, [Next]_vars
  PROVE  StartInv'
  <1> USE NamesAssumption, LimitsAssumption DEF Inv, TypeOK, LockHeldInside, StartInv, HandlingInv, SessionInv, Kinds, Points, Inside, Teardown, Go, Handle, clocks
  <1>1. ASSUME NEW o \in Ops, NEW s \in Sessions, RequestStart(o, s) PROVE StartInv'
    BY <1>1 DEF RequestStart, Request
  <1>2. ASSUME NEW o \in Ops, NEW s \in Sessions, RequestVerify(o, s) PROVE StartInv'
    BY <1>2 DEF RequestVerify, Request
  <1>3. ASSUME NEW o \in Ops, NEW s \in Sessions, RequestCancel(o, s) PROVE StartInv'
    BY <1>3 DEF RequestCancel, Request
  <1>4. ASSUME NEW o \in Ops, AcquireStart(o) PROVE StartInv'
    BY <1>4 DEF AcquireStart, Granted, Replace, Drop
  <1>5. ASSUME NEW o \in Ops, AcquireVerify(o) PROVE StartInv'
    BY <1>5 DEF AcquireVerify, Granted, FindNothing, DropFound, Drop, Found, Registered
  <1>6. ASSUME NEW o \in Ops, Connect(o) PROVE StartInv'
    BY <1>6 DEF Connect
  <1>7. ASSUME NEW o \in Ops, CodeSent(o) PROVE StartInv'
    BY <1>7 DEF CodeSent, Register, Leave
  <1>8. ASSUME NEW o \in Ops, PasswordNeeded(o) PROVE StartInv'
    BY <1>8 DEF PasswordNeeded, Leave
  <1>9. ASSUME NEW o \in Ops, SignedIn(o) PROVE StartInv'
    BY <1>9 DEF SignedIn
  <1>10. ASSUME NEW o \in Ops, CancelReplacing(o) PROVE StartInv'
    BY <1>10 DEF CancelReplacing
  <1>11. ASSUME NEW o \in Ops, AcquireCancel(o) PROVE StartInv'
    BY <1>11 DEF AcquireCancel, Granted, FindNothing, DropFound, Drop, Found, Registered
  <1>12. ASSUME NEW o \in Ops, WaitTimesOut(o) PROVE StartInv'
    BY <1>12 DEF WaitTimesOut
  <1>13. ASSUME NEW o \in Ops, Replaced(o) PROVE StartInv'
    BY <1>13 DEF Replaced, Replace, Drop, Leave
  <1>14. ASSUME NEW o \in Ops, SendingFails(o) PROVE StartInv'
    BY <1>14 DEF SendingFails
  <1>15. ASSUME NEW o \in Ops, VerifyEnds(o) PROVE StartInv'
    BY <1>15 DEF VerifyEnds, Drop
  <1>16. ASSUME NEW o \in Ops, TornDown(o) PROVE StartInv'
    BY <1>16 DEF TornDown, Leave
  <1>17. ASSUME NEW s \in Sessions, TimerWakes(s) PROVE StartInv'
    BY <1>17 DEF TimerWakes
  <1>18. ASSUME NEW s \in Sessions, TimerExpires(s) PROVE StartInv'
    BY <1>18 DEF TimerExpires
  <1>19. ASSUME NEW s \in Sessions, TimerGoesOn(s) PROVE StartInv'
    BY <1>19 DEF TimerGoesOn
  <1>20. ASSUME NEW s \in Sessions, TimerTornDown(s) PROVE StartInv'
    BY <1>20 DEF TimerTornDown
  <1>21. CASE Shutdown
    BY <1>21 DEF Shutdown, Request
  <1>22. CASE Tick
    BY <1>22 DEF Tick
  <1>23. CASE OtherAcquires
    BY <1>23 DEF OtherAcquires
  <1>24. CASE OtherReleases
    BY <1>24 DEF OtherReleases
  <1>25. CASE UNCHANGED vars
    BY <1>25 DEF vars, clocks
  <1> QED
    BY <1>1, <1>2, <1>3, <1>4, <1>5, <1>6, <1>7, <1>8, <1>9, <1>10, <1>11,
       <1>12, <1>13, <1>14, <1>15, <1>16, <1>17, <1>18, <1>19, <1>20,
       <1>21, <1>22, <1>23, <1>24, <1>25
       DEF Next, Choose, Proceed, RunTimer

\* Who holds the lock is alone with the session it handles.
LEMMA HandlingStep ==
  ASSUME Inv, [Next]_vars
  PROVE  HandlingInv'
  <1> USE NamesAssumption, LimitsAssumption DEF Inv, TypeOK, LockHeldInside, StartInv, HandlingInv, SessionInv, Kinds, Points, Inside, Teardown, Go, Handle, clocks
  <1>1. ASSUME NEW o \in Ops, NEW s \in Sessions, RequestStart(o, s) PROVE HandlingInv'
    BY <1>1 DEF RequestStart, Request
  <1>2. ASSUME NEW o \in Ops, NEW s \in Sessions, RequestVerify(o, s) PROVE HandlingInv'
    BY <1>2 DEF RequestVerify, Request
  <1>3. ASSUME NEW o \in Ops, NEW s \in Sessions, RequestCancel(o, s) PROVE HandlingInv'
    BY <1>3 DEF RequestCancel, Request
  <1>4. ASSUME NEW o \in Ops, AcquireStart(o) PROVE HandlingInv'
    BY <1>4 DEF AcquireStart, Granted, Replace, Drop
  <1>5. ASSUME NEW o \in Ops, AcquireVerify(o) PROVE HandlingInv'
    BY <1>5 DEF AcquireVerify, Granted, FindNothing, DropFound, Drop, Found, Registered
  <1>6. ASSUME NEW o \in Ops, Connect(o) PROVE HandlingInv'
    BY <1>6 DEF Connect
  <1>7. ASSUME NEW o \in Ops, CodeSent(o) PROVE HandlingInv'
    BY <1>7 DEF CodeSent, Register, Leave
  <1>8. ASSUME NEW o \in Ops, PasswordNeeded(o) PROVE HandlingInv'
    BY <1>8 DEF PasswordNeeded, Leave
  <1>9. ASSUME NEW o \in Ops, SignedIn(o) PROVE HandlingInv'
    BY <1>9 DEF SignedIn
  <1>10. ASSUME NEW o \in Ops, CancelReplacing(o) PROVE HandlingInv'
    BY <1>10 DEF CancelReplacing
  <1>11. ASSUME NEW o \in Ops, AcquireCancel(o) PROVE HandlingInv'
    BY <1>11 DEF AcquireCancel, Granted, FindNothing, DropFound, Drop, Found, Registered
  <1>12. ASSUME NEW o \in Ops, WaitTimesOut(o) PROVE HandlingInv'
    BY <1>12 DEF WaitTimesOut
  <1>13. ASSUME NEW o \in Ops, Replaced(o) PROVE HandlingInv'
    BY <1>13 DEF Replaced, Replace, Drop, Leave
  <1>14. ASSUME NEW o \in Ops, SendingFails(o) PROVE HandlingInv'
    BY <1>14 DEF SendingFails
  <1>15. ASSUME NEW o \in Ops, VerifyEnds(o) PROVE HandlingInv'
    BY <1>15 DEF VerifyEnds, Drop
  <1>16. ASSUME NEW o \in Ops, TornDown(o) PROVE HandlingInv'
    BY <1>16 DEF TornDown, Leave
  <1>17. ASSUME NEW s \in Sessions, TimerWakes(s) PROVE HandlingInv'
    BY <1>17 DEF TimerWakes
  <1>18. ASSUME NEW s \in Sessions, TimerExpires(s) PROVE HandlingInv'
    BY <1>18 DEF TimerExpires
  <1>19. ASSUME NEW s \in Sessions, TimerGoesOn(s) PROVE HandlingInv'
    BY <1>19 DEF TimerGoesOn
  <1>20. ASSUME NEW s \in Sessions, TimerTornDown(s) PROVE HandlingInv'
    BY <1>20 DEF TimerTornDown
  <1>21. CASE Shutdown
    BY <1>21 DEF Shutdown, Request
  <1>22. CASE Tick
    BY <1>22 DEF Tick
  <1>23. CASE OtherAcquires
    BY <1>23 DEF OtherAcquires
  <1>24. CASE OtherReleases
    BY <1>24 DEF OtherReleases
  <1>25. CASE UNCHANGED vars
    BY <1>25 DEF vars, clocks
  <1> QED
    BY <1>1, <1>2, <1>3, <1>4, <1>5, <1>6, <1>7, <1>8, <1>9, <1>10, <1>11,
       <1>12, <1>13, <1>14, <1>15, <1>16, <1>17, <1>18, <1>19, <1>20,
       <1>21, <1>22, <1>23, <1>24, <1>25
       DEF Next, Choose, Proceed, RunTimer

\* A session, its expiry task and its client change together.
LEMMA SessionStep ==
  ASSUME Inv, [Next]_vars
  PROVE  SessionInv'
  <1> USE NamesAssumption, LimitsAssumption DEF Inv, TypeOK, LockHeldInside, StartInv, HandlingInv, SessionInv, Kinds, Points, Inside, Teardown, Go, Handle, clocks
  <1>1. ASSUME NEW o \in Ops, NEW s \in Sessions, RequestStart(o, s) PROVE SessionInv'
    BY <1>1 DEF RequestStart, Request
  <1>2. ASSUME NEW o \in Ops, NEW s \in Sessions, RequestVerify(o, s) PROVE SessionInv'
    BY <1>2 DEF RequestVerify, Request
  <1>3. ASSUME NEW o \in Ops, NEW s \in Sessions, RequestCancel(o, s) PROVE SessionInv'
    BY <1>3 DEF RequestCancel, Request
  <1>4. ASSUME NEW o \in Ops, AcquireStart(o) PROVE SessionInv'
    BY <1>4 DEF AcquireStart, Granted, Replace, Drop
  <1>5. ASSUME NEW o \in Ops, AcquireVerify(o) PROVE SessionInv'
    BY <1>5 DEF AcquireVerify, Granted, FindNothing, DropFound, Drop, Found, Registered
  <1>6. ASSUME NEW o \in Ops, Connect(o) PROVE SessionInv'
    BY <1>6 DEF Connect
  <1>7. ASSUME NEW o \in Ops, CodeSent(o) PROVE SessionInv'
    BY <1>7 DEF CodeSent, Register, Leave
  <1>8. ASSUME NEW o \in Ops, PasswordNeeded(o) PROVE SessionInv'
    BY <1>8 DEF PasswordNeeded, Leave
  <1>9. ASSUME NEW o \in Ops, SignedIn(o) PROVE SessionInv'
    BY <1>9 DEF SignedIn
  <1>10. ASSUME NEW o \in Ops, CancelReplacing(o) PROVE SessionInv'
    BY <1>10 DEF CancelReplacing
  <1>11. ASSUME NEW o \in Ops, AcquireCancel(o) PROVE SessionInv'
    BY <1>11 DEF AcquireCancel, Granted, FindNothing, DropFound, Drop, Found, Registered
  <1>12. ASSUME NEW o \in Ops, WaitTimesOut(o) PROVE SessionInv'
    BY <1>12 DEF WaitTimesOut
  <1>13. ASSUME NEW o \in Ops, Replaced(o) PROVE SessionInv'
    BY <1>13 DEF Replaced, Replace, Drop, Leave
  <1>14. ASSUME NEW o \in Ops, SendingFails(o) PROVE SessionInv'
    BY <1>14 DEF SendingFails
  <1>15. ASSUME NEW o \in Ops, VerifyEnds(o) PROVE SessionInv'
    BY <1>15 DEF VerifyEnds, Drop
  <1>16. ASSUME NEW o \in Ops, TornDown(o) PROVE SessionInv'
    BY <1>16 DEF TornDown, Leave
  <1>17. ASSUME NEW s \in Sessions, TimerWakes(s) PROVE SessionInv'
    BY <1>17 DEF TimerWakes
  <1>18. ASSUME NEW s \in Sessions, TimerExpires(s) PROVE SessionInv'
    BY <1>18 DEF TimerExpires
  <1>19. ASSUME NEW s \in Sessions, TimerGoesOn(s) PROVE SessionInv'
    BY <1>19 DEF TimerGoesOn
  <1>20. ASSUME NEW s \in Sessions, TimerTornDown(s) PROVE SessionInv'
    BY <1>20 DEF TimerTornDown
  <1>21. CASE Shutdown
    BY <1>21 DEF Shutdown, Request
  <1>22. CASE Tick
    BY <1>22 DEF Tick
  <1>23. CASE OtherAcquires
    BY <1>23 DEF OtherAcquires
  <1>24. CASE OtherReleases
    BY <1>24 DEF OtherReleases
  <1>25. CASE UNCHANGED vars
    BY <1>25 DEF vars, clocks
  <1> QED
    BY <1>1, <1>2, <1>3, <1>4, <1>5, <1>6, <1>7, <1>8, <1>9, <1>10, <1>11,
       <1>12, <1>13, <1>14, <1>15, <1>16, <1>17, <1>18, <1>19, <1>20,
       <1>21, <1>22, <1>23, <1>24, <1>25
       DEF Next, Choose, Proceed, RunTimer

\* A start registers its session when there is no other.
LEMMA OneStep ==
  ASSUME Inv, [Next]_vars
  PROVE  OnePending'
  <1> USE NamesAssumption, LimitsAssumption DEF Inv, TypeOK, LockHeldInside, StartInv, HandlingInv, OnePending, Kinds, Points, Inside, Teardown, Go, Handle, clocks
  <1>1. ASSUME NEW o \in Ops, NEW s \in Sessions, RequestStart(o, s) PROVE OnePending'
    BY <1>1 DEF RequestStart, Request
  <1>2. ASSUME NEW o \in Ops, NEW s \in Sessions, RequestVerify(o, s) PROVE OnePending'
    BY <1>2 DEF RequestVerify, Request
  <1>3. ASSUME NEW o \in Ops, NEW s \in Sessions, RequestCancel(o, s) PROVE OnePending'
    BY <1>3 DEF RequestCancel, Request
  <1>4. ASSUME NEW o \in Ops, AcquireStart(o) PROVE OnePending'
    BY <1>4 DEF AcquireStart, Granted, Replace, Drop
  <1>5. ASSUME NEW o \in Ops, AcquireVerify(o) PROVE OnePending'
    BY <1>5 DEF AcquireVerify, Granted, FindNothing, DropFound, Drop, Found, Registered
  <1>6. ASSUME NEW o \in Ops, Connect(o) PROVE OnePending'
    BY <1>6 DEF Connect
  <1>7. ASSUME NEW o \in Ops, CodeSent(o) PROVE OnePending'
    BY <1>7 DEF CodeSent, Register, Leave
  <1>8. ASSUME NEW o \in Ops, PasswordNeeded(o) PROVE OnePending'
    BY <1>8 DEF PasswordNeeded, Leave
  <1>9. ASSUME NEW o \in Ops, SignedIn(o) PROVE OnePending'
    BY <1>9 DEF SignedIn
  <1>10. ASSUME NEW o \in Ops, CancelReplacing(o) PROVE OnePending'
    BY <1>10 DEF CancelReplacing
  <1>11. ASSUME NEW o \in Ops, AcquireCancel(o) PROVE OnePending'
    BY <1>11 DEF AcquireCancel, Granted, FindNothing, DropFound, Drop, Found, Registered
  <1>12. ASSUME NEW o \in Ops, WaitTimesOut(o) PROVE OnePending'
    BY <1>12 DEF WaitTimesOut
  <1>13. ASSUME NEW o \in Ops, Replaced(o) PROVE OnePending'
    BY <1>13 DEF Replaced, Replace, Drop, Leave
  <1>14. ASSUME NEW o \in Ops, SendingFails(o) PROVE OnePending'
    BY <1>14 DEF SendingFails
  <1>15. ASSUME NEW o \in Ops, VerifyEnds(o) PROVE OnePending'
    BY <1>15 DEF VerifyEnds, Drop
  <1>16. ASSUME NEW o \in Ops, TornDown(o) PROVE OnePending'
    BY <1>16 DEF TornDown, Leave
  <1>17. ASSUME NEW s \in Sessions, TimerWakes(s) PROVE OnePending'
    BY <1>17 DEF TimerWakes
  <1>18. ASSUME NEW s \in Sessions, TimerExpires(s) PROVE OnePending'
    BY <1>18 DEF TimerExpires
  <1>19. ASSUME NEW s \in Sessions, TimerGoesOn(s) PROVE OnePending'
    BY <1>19 DEF TimerGoesOn
  <1>20. ASSUME NEW s \in Sessions, TimerTornDown(s) PROVE OnePending'
    BY <1>20 DEF TimerTornDown
  <1>21. CASE Shutdown
    BY <1>21 DEF Shutdown, Request
  <1>22. CASE Tick
    BY <1>22 DEF Tick
  <1>23. CASE OtherAcquires
    BY <1>23 DEF OtherAcquires
  <1>24. CASE OtherReleases
    BY <1>24 DEF OtherReleases
  <1>25. CASE UNCHANGED vars
    BY <1>25 DEF vars, clocks
  <1> QED
    BY <1>1, <1>2, <1>3, <1>4, <1>5, <1>6, <1>7, <1>8, <1>9, <1>10, <1>11,
       <1>12, <1>13, <1>14, <1>15, <1>16, <1>17, <1>18, <1>19, <1>20,
       <1>21, <1>22, <1>23, <1>24, <1>25
       DEF Next, Choose, Proceed, RunTimer

\* The invariant holds in every reachable state.
THEOREM InvHolds == Spec => []Inv
  <1>1. Init => Inv
    <2> SUFFICES ASSUME Init PROVE Inv
      OBVIOUS
    <2> USE NamesAssumption, LimitsAssumption DEF Init, Kinds, Points, Inside, Teardown
    <2>1. TypeOK
      <3>1. 0 \in 0..TTL /\ 0 \in 0..Renewals
        OBVIOUS
      <3>2. stopping \in SUBSET Ops /\ pending \in SUBSET Sessions
        OBVIOUS
      <3>3. /\ alarm \in [Sessions -> 0..TTL] /\ left \in [Sessions -> 0..TTL]
            /\ renewed \in [Sessions -> 0..Renewals]
        BY <3>1
      <3>4. /\ kind \in [Ops -> Kinds] /\ pc \in [Ops -> Points]
            /\ client \in [Sessions -> {"none", "new", "live", "closing", "closed"}]
            /\ timer \in [Sessions -> {"none", "sleeping", "lock_wait", "closing", "over"}]
        OBVIOUS
      <3>5. /\ target \in [Ops -> Sessions \cup {None}]
            /\ handling \in [Ops -> Sessions \cup {None}]
        OBVIOUS
      <3> QED
        BY <3>2, <3>3, <3>4, <3>5 DEF TypeOK
    <2>2. LockHeldInside
      BY DEF LockHeldInside
    <2>3. StartInv /\ HandlingInv /\ SessionInv /\ OnePending
      BY DEF StartInv, HandlingInv, SessionInv, OnePending
    <2> QED
      BY <2>1, <2>2, <2>3 DEF Inv
  <1>2. Inv /\ [Next]_vars => Inv'
    BY TypeStep, LockStep, StartStep, HandlingStep, SessionStep, OneStep DEF Inv
  <1> QED
    BY <1>1, <1>2, PTL DEF Spec

(***************************************************************************)
(* No deadline is moved past its TTL and no password is asked for more     *)
(* often than that; a lock is held by an operation, an expiry task or a    *)
(* stranger (telegram.py:447-456, :560-594).                               *)
(***************************************************************************)
THEOREM TypeCorrect == Spec => []TypeOK
  BY InvHolds, PTL DEF Inv

(***************************************************************************)
(* Whichever way a login operation ends, it gives the account's lock back, *)
(* and no pending login holds it (telegram.py:493-600).                    *)
(***************************************************************************)
THEOREM LockCorrect == Spec => []LockHeldInside
  BY InvHolds, PTL DEF Inv

(***************************************************************************)
(* start_login leaves one pending login of the account, whatever phone     *)
(* numbers were used (telegram.py:497-503).                                *)
(***************************************************************************)
THEOREM OnePendingCorrect == Spec => [](Cardinality(pending) <= 1)
  <1>1. Inv => Cardinality(pending) <= 1
    <2> SUFFICES ASSUME Inv PROVE Cardinality(pending) <= 1
      OBVIOUS
    <2>1. CASE pending = {}
      BY <2>1, FS_EmptySet
    <2>2. CASE pending # {}
      <3>1. PICK s \in pending : pending = {s}
        BY <2>2 DEF Inv, OnePending
      <3> QED
        BY <3>1, FS_Singleton
    <2> QED
      BY <2>1, <2>2
  <1> QED
    BY InvHolds, <1>1, PTL

\* One coroutine at most is closing a session's client.
LEMMA OneCloser ==
  ASSUME Inv, NEW s \in Sessions, client[s] = "closing"
  PROVE  Cardinality({o \in Owners(s) : pc[o] \in Teardown})
           + (IF timer[s] = "closing" THEN 1 ELSE 0) = 1
  <1> DEFINE C == {o \in Owners(s) : pc[o] \in Teardown}
  <1>1. CASE timer[s] = "closing"
    <2>1. C = {}
      BY <1>1, NamesAssumption DEF Inv, LockHeldInside, Owners, Inside
    <2> QED
      BY <1>1, <2>1, FS_EmptySet
  <1>2. CASE timer[s] # "closing"
    <2>1. PICK o \in Ops : pc[o] \in Teardown /\ handling[o] = s
      BY <1>2 DEF Inv, SessionInv
    <2>2. C = {o}
      BY <2>1 DEF Inv, LockHeldInside, Owners, Inside
    <2> QED
      BY <1>2, <2>2, FS_Singleton
  <1> QED
    BY <1>1, <1>2

(***************************************************************************)
(* No temporary client is leaked and none is closed twice, whatever fails, *)
(* is cancelled or expires (telegram.py:366-456, :505-533).                *)
(***************************************************************************)
THEOREM ClientsCorrect == Spec => []ClientsAccountedFor
  <1>1. Inv => ClientsAccountedFor
    <2> SUFFICES ASSUME Inv, NEW s \in Sessions
                 PROVE  /\ client[s] \in {"new", "live"} =>
                             (s \in pending \/ \E o \in Owners(s) : pc[o] = "sending")
                        /\ client[s] = "closing" =>
                             Cardinality({o \in Owners(s) : pc[o] \in Teardown})
                               + (IF timer[s] = "closing" THEN 1 ELSE 0) = 1
                        /\ s \in pending => client[s] = "live"
      BY DEF ClientsAccountedFor
    <2>1. client[s] \in {"new", "live"} =>
             (s \in pending \/ \E o \in Owners(s) : pc[o] = "sending")
      BY DEF Inv, SessionInv, Owners, Inside
    <2>2. client[s] = "closing" =>
             Cardinality({o \in Owners(s) : pc[o] \in Teardown})
               + (IF timer[s] = "closing" THEN 1 ELSE 0) = 1
      BY OneCloser
    <2>3. s \in pending => client[s] = "live"
      BY DEF Inv, SessionInv
    <2> QED
      BY <2>1, <2>2, <2>3
  <1> QED
    BY InvHolds, <1>1, PTL

(***************************************************************************)
(* An operation meant for a login that was replaced meanwhile leaves the   *)
(* replacement alone (tests/e2e/resource_efficiency_scenarios.txt:14).     *)
(***************************************************************************)
THEOREM ReplacementsSpared == Spec => NeverTakesReplacement
  <1> DEFINE Spared ==
        \A s \in pending \ pending' :
          \/ left[s] = 0
          \/ \E o \in Ops : lock' = o /\ (kind[o] = "start" \/ target[o] = s)
  <1>1. Inv /\ [Next]_vars => [Spared]_vars
    <2> SUFFICES ASSUME Inv, [Next]_vars, NEW s \in pending, s \notin pending'
                 PROVE  \/ left[s] = 0
                        \/ \E o \in Ops : lock' = o /\ (kind[o] = "start" \/ target[o] = s)
      OBVIOUS
    <2> USE DEF Inv, TypeOK, Go, Handle, Drop
    <2>1. CASE \E o \in Ops : AcquireStart(o) \/ Replaced(o)
      BY <2>1 DEF AcquireStart, Replaced, Replace, Granted, Leave, LockHeldInside, StartInv,
                  Inside, Teardown
    <2>2. CASE \E o \in Ops : AcquireVerify(o) \/ AcquireCancel(o)
      BY <2>2 DEF AcquireVerify, AcquireCancel, FindNothing, DropFound, Found
    <2>3. CASE \E o \in Ops : VerifyEnds(o)
      BY <2>3 DEF VerifyEnds, LockHeldInside, HandlingInv, Inside
    <2>4. CASE \E t \in Sessions : TimerExpires(t)
      BY <2>4 DEF TimerExpires
    <2>5. CASE \E o \in Ops : CodeSent(o)
      BY <2>5 DEF CodeSent, Register
    <2>6. CASE pending' = pending
      BY <2>6
    <2>7. \/ \E o \in Ops :
               \/ AcquireStart(o) \/ Replaced(o) \/ AcquireVerify(o) \/ AcquireCancel(o)
               \/ VerifyEnds(o) \/ CodeSent(o)
          \/ \E t \in Sessions : TimerExpires(t)
          \/ pending' = pending
      BY DEF Next, Choose, Proceed, RunTimer, RequestStart, RequestVerify, RequestCancel,
             Request, Connect, PasswordNeeded, SignedIn, CancelReplacing, WaitTimesOut,
             SendingFails, TornDown, TimerWakes, TimerGoesOn, TimerTornDown, Shutdown, Tick,
             OtherAcquires, OtherReleases, vars
    <2> QED
      BY <2>1, <2>2, <2>3, <2>4, <2>5, <2>6, <2>7
  <1> QED
    BY InvHolds, <1>1, PTL DEF Spec, NeverTakesReplacement

=============================================================================
