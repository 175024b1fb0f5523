------------------------- MODULE EventRunnerProofs --------------------------
(***************************************************************************)
(* Proofs about EventRunner for any messages and their versions, any       *)
(* programs of a chat and any limits.  The argument turns on message_lock: *)
(* a step of a coroutine keeps the lock, takes it or gives it up (Shape),  *)
(* every other step leaves the holder alone (Undisturbed), so what the     *)
(* holder saw when it took its message still holds when it is through      *)
(* (HoldersSaw).  So what was acted on is marked before anybody else looks *)
(* at it (Acts).                                                           *)
(*                                                                         *)
(* The types come last: that an index moves on from an action that is      *)
(* there is a part of what the holder saw.                                 *)
(***************************************************************************)
EXTENDS EventRunner, TLAPS

\* The marks of what was tried go together, as the other groups of variables.
USE DEF tries

\* What the proofs need to know of the types.
Typed ==
    /\ pc \in [Procs -> Points]
    /\ lock \in Procs \cup {Free}
    /\ actions \in Chats
    /\ epoch \in Nat
    /\ pc[Scan] \in Inside \cup {"lock_wait"} => scanned.version \in Versions

\* What a handler saw when it took its message stays as it was: the message
\* is not handled yet, is no result and belongs to this attempt, and the
\* action it is for is the current one.
HolderSaw(h) ==
    /\ Msg(h) \notin Seen
    /\ ~Success(Msg(h))
    /\ born = epoch
    /\ pc[h] \in {"thinking", "acting"} =>
          index \in DOMAIN Response /\ Response[index] \notin Immediate
    /\ pc[h] \in {"asking", "falling"} => index \notin DOMAIN Response

\* Every handler that has the lock still has what it saw.
HoldersSaw == \A h \in Handlers : pc[h] \in Inside => HolderSaw(h)

\* A message whose text is the result is processed by setting finished.
ResultTaken == \A v \in processed : Success(v) => Finished

\* Until it presses the button, nobody has marked its message as clicked or
\* as answered.
NotYetAttempted ==
    (~Finished /\ pc[Run] # "over") =>
        \A h \in Handlers :
            (pc[h] = "asking" \/ (pc[h] = "thinking" /\ Response[index] # "captcha"))
            => Msg(h) \notin attempted

\* The part of the invariant that a step preserves by its shape alone.
Locked == Typed /\ LockHeldInside

\* The coroutines are told apart by their names.
LEMMA Names ==
  /\ Free \notin Procs /\ Run \in Procs /\ Scan \in Procs /\ Retry \in Procs
  /\ Run \notin Handlers /\ Retry \notin Handlers /\ Scan \in Handlers
  /\ Handlers \subseteq Procs
  /\ \A h \in Handlers : h # Scan => h \in Versions
  /\ \A p \in Procs : p \in Handlers \/ p = Run \/ p = Retry
  BY NamesAssumption DEF Procs, Handlers

\* Who rests does not have the lock.
LEMMA RestOut ==
  ASSUME NEW p \in Procs
  PROVE  Rest(p) \in Points \ Inside
  BY DEF Rest, Points, Inside, Effects

\* Moved moves one coroutine, and the retry task that a new epoch creates.
LEMMA MovedFacts ==
  ASSUME Typed, NEW p \in Procs, NEW point \in Points, Moved(p, point),
         epoch' # epoch => pc[Retry] = "off"
  PROVE  /\ pc' \in [Procs -> Points]
         /\ pc'[p] = point
         /\ \A q \in Procs \ {p} :
               pc'[q] = pc[q] \/ (q = Retry /\ pc[q] = "off" /\ pc'[q] = "lock_wait")
         /\ epoch' # epoch /\ p # Retry => pc'[Retry] = "lock_wait"
  <1>1. pc' = [q \in Procs |-> IF q = p THEN point
                               ELSE IF q = Retry /\ epoch' # epoch THEN "lock_wait" ELSE pc[q]]
    BY DEF Moved
  <1>2. "lock_wait" \in Points
    BY DEF Points
  <1> HIDE DEF Points
  <1> QED
    BY <1>1, <1>2, Names DEF Typed

\* _schedule_retry begins a new attempt only when no retry is under way, and
\* otherwise leaves the index alone.
LEMMA ScheduleFacts ==
  ASSUME Typed, ScheduleRetry
  PROVE  /\ epoch' \in Nat
         /\ epoch' # epoch => pc[Retry] = "off"
         /\ Finished => result' = result
         /\ epoch' # epoch \/ index' = index
         /\ Finished \/ RetryPending \/ epoch' # epoch \/ Finished'
  BY DEF ScheduleRetry, Typed, Finished, RetryPending, attempt

\* p gives up the lock.
Released(p) ==
    /\ pc[p] # "over"
    /\ lock' = Free
    /\ pc' \in [Procs -> Points]
    /\ pc'[p] = Rest(p)
    /\ \A q \in Procs : pc'[q] \notin Inside
    /\ \A q \in Procs \ {p} :
          pc'[q] = pc[q] \/ (q = Retry /\ pc[q] = "off" /\ pc'[q] = "lock_wait")
    /\ epoch' # epoch /\ p # Retry => pc'[Retry] = "lock_wait"

\* p keeps the lock, or takes it.
Holds(p, point) ==
    /\ pc[p] # "over"
    /\ lock' = p /\ processed' = processed /\ stale' = stale
    /\ pc' \in [Procs -> Points]
    /\ pc'[p] = point
    /\ \A q \in Procs \ {p} : pc[q] \notin Inside /\ pc'[q] = pc[q]
    /\ p = Scan => pc[p] \in Inside \cup {"lock_wait"}

\* Leave gives up the lock, whoever holds it.
LEMMA LeaveFacts ==
  ASSUME Locked, NEW p \in Procs, NEW marked, NEW followed, Leave(p, marked, followed),
         lock \in {Free, p}, pc[p] # "over", epoch' # epoch => pc[Retry] = "off"
  PROVE  Released(p)
  <1>1. Moved(p, Rest(p)) /\ lock' = Free
    BY DEF Leave
  <1>2. Rest(p) \in Points \ Inside
    BY RestOut
  <1>3. \A q \in Procs \ {p} : pc[q] \notin Inside
    BY Names DEF Locked, LockHeldInside
  <1>4. "lock_wait" \notin Inside
    BY DEF Inside, Effects
  <1> HIDE DEF Inside, Points, Leave
  <1> QED
    BY <1>1, <1>2, <1>3, <1>4, MovedFacts, Names DEF Released, Locked

\* Stay keeps the lock.
LEMMA StayFacts ==
  ASSUME Locked, NEW p \in Procs, NEW point \in Inside, Stay(p, point) ,
         pc[p] \in Inside, epoch' = epoch
  PROVE  Holds(p, point)
  <1>1. Moved(p, point) /\ lock' = lock /\ processed' = processed /\ stale' = stale
    BY DEF Stay
  <1>2. lock = p
    BY DEF Locked, LockHeldInside
  <1>3. \A q \in Procs \ {p} : pc[q] \notin Inside
    BY <1>2 DEF Locked, LockHeldInside
  <1>4. point \in Points
    BY DEF Inside, Points
  <1>5. pc' = [q \in Procs |-> IF q = p THEN point ELSE pc[q]]
    BY <1>1 DEF Moved
  <1>6. pc[p] # "over"
    BY DEF Inside, Effects
  <1> HIDE DEF Inside
  <1> QED
    BY <1>1, <1>2, <1>3, <1>4, <1>5, <1>6 DEF Holds, Locked, Typed

\* Giving up the lock leaves nobody inside.
LEMMA ReleasedLock ==
  ASSUME NEW p \in Procs, Released(p)
  PROVE  LockHeldInside'
  BY Names DEF Released, LockHeldInside

\* Keeping or taking the lock leaves its holder inside and nobody else.
LEMMA HoldsLock ==
  ASSUME NEW p \in Procs, NEW point \in Inside, Holds(p, point)
  PROVE  LockHeldInside'
  BY Names DEF Holds, LockHeldInside

\* What a step of p can do to the lock.
Shape(p) == Released(p) \/ \E point \in Inside : Holds(p, point)

\* What no step of a coroutine changes.
Frame == epoch' \in Nat /\ scanned' = scanned /\ actions' = actions

\* Quit gives up the lock.
LEMMA QuitShape ==
  ASSUME Locked, NEW p \in Procs, NEW marked, NEW followed, Quit(p, marked, followed),
         lock \in {Free, p}, pc[p] # "over", epoch' \in Nat, epoch' # epoch => pc[Retry] = "off"
  PROVE  Released(p) /\ Frame
  BY LeaveFacts DEF Quit, Frame

\* A handler that does nothing with its message gives up the lock.
LEMMA UnhandledShape ==
  ASSUME Locked, NEW h \in Procs, Unhandled(h), lock \in {Free, h}, pc[h] # "over", epoch' = epoch
  PROVE  Released(h) /\ Frame
  BY LeaveFacts DEF Unhandled, Frame, Locked, Typed

\* Stay keeps the lock and what no coroutine changes.
LEMMA StayShape ==
  ASSUME Locked, NEW p \in Procs, NEW point \in Inside, Stay(p, point),
         pc[p] \in Inside, epoch' = epoch
  PROVE  Holds(p, point) /\ Frame
  BY StayFacts DEF Stay, Frame, Locked, Typed, scanning

\* A handler whose action came to nothing keeps the lock or gives it up.
LEMMA FallThroughShape ==
  ASSUME Locked, NEW h \in Procs, FallThrough(h), pc[h] \in Inside
  PROVE  Shape(h) /\ Frame
  <1>1. epoch' = epoch /\ epoch' \in Nat /\ lock = h /\ pc[h] # "over"
    BY DEF FallThrough, attempt, Locked, Typed, LockHeldInside, Inside, Effects
  <1>2. CASE Unhandled(h)
    BY <1>1, <1>2, UnhandledShape DEF Shape
  <1>3. CASE Stay(h, "asking")
    BY <1>1, <1>3, StayShape DEF Shape, Inside
  <1> QED
    BY <1>2, <1>3 DEF FallThrough

\* A handler that is through keeps the lock for what follows or gives it up.
LEMMA HandledShape ==
  ASSUME Locked, NEW h \in Procs, NEW r, NEW advance, Handled(h, r, advance), pc[h] \in Inside
  PROVE  Shape(h) /\ Frame
  <1>1. epoch' = epoch /\ epoch' \in Nat /\ lock = h /\ pc[h] # "over"
    BY DEF Handled, Locked, Typed, LockHeldInside, Inside, Effects
  <1>2. CASE Quit(h, {Msg(h)}, TRUE)
    BY <1>1, <1>2, QuitShape DEF Shape
  <1>3. CASE Stay(h, "follow")
    BY <1>1, <1>3, StayShape DEF Shape, Inside, Effects
  <1> QED
    BY <1>2, <1>3 DEF Handled

\* So does every step of a handler.
LEMMA HandlerShape ==
  ASSUME Locked, NEW h \in Handlers, Acquire(h) \/ Choose(h) \/ Fails(h)
  PROVE  Shape(h) /\ Frame
  <1> USE Names
  <1>0. epoch \in Nat /\ (pc[h] \in Inside => lock = h) /\ (pc[h] \in Inside \cup {"lock_wait"} => pc[h] # "over")
    BY DEF Locked, Typed, LockHeldInside, Inside, Effects
  <1>1. CASE Acquire(h)
    <2>1. lock = Free /\ pc[h] # "over" /\ \A q \in Procs : pc[q] \notin Inside
      BY <1>1 DEF Acquire, Locked, LockHeldInside
    <2>2. ASSUME Quit(h, {}, FALSE) \/ Quit(h, {Msg(h)}, FALSE), epoch' = epoch
          PROVE  Shape(h) /\ Frame
      BY <1>0, <2>1, <2>2, QuitShape DEF Shape
    <2>3. ASSUME NEW point \in {"acting", "thinking", "asking"}, NEW guarded,
                 Begin(h, point, guarded), epoch' = epoch
          PROVE  Shape(h) /\ Frame
      <3>1. pc' = [q \in Procs |-> IF q = h THEN point ELSE pc[q]]
        BY <2>3 DEF Begin, Moved
      <3>2. point \in Points /\ point \in Inside
        BY DEF Points, Inside, Effects
      <3>3. Holds(h, point)
        BY <1>1, <2>1, <2>3, <3>1, <3>2 DEF Acquire, Begin, Holds, Locked, Typed
      <3> QED
        BY <1>0, <2>3, <3>2, <3>3 DEF Begin, Frame, Shape, scanning
    <2>4. ASSUME Unhandled(h), epoch' = epoch PROVE Shape(h) /\ Frame
      BY <2>1, <2>4, UnhandledShape DEF Shape
    <2>5. CASE React(h, Msg(h)) /\ epoch' = epoch
      BY <2>3, <2>4, <2>5 DEF React
    <2> QED
      BY <1>1, <2>2, <2>5 DEF Acquire, attempt
  <1>2. CASE Think(h)
    <2>1. pc[h] \in Inside
      BY <1>2 DEF Think, Inside
    <2>2. CASE Handled(h, result, TRUE)
      BY <2>1, <2>2, HandledShape
    <2>3. CASE Stay(h, "acting") /\ epoch' = epoch
      BY <2>1, <2>3, StayShape DEF Shape, Inside, Effects
    <2> QED
      BY <1>2, <2>2, <2>3 DEF Think, attempt
  <1>3. CASE NoAnswer(h)
    BY <1>3, FallThroughShape DEF NoAnswer, Inside
  <1>4. CASE CaptchaUnusable(h)
    BY <1>0, <1>4, ScheduleFacts, QuitShape DEF CaptchaUnusable, Inside, Shape, Locked
  <1>5. CASE CaptchaIsResult(h)
    BY <1>0, <1>5, QuitShape DEF CaptchaIsResult, Inside, Shape
  <1>6. CASE Confirmed(h)
    <2>1. pc[h] \in Inside
      BY <1>6 DEF Confirmed, Inside, Effects
    <2>2. \E r, advance : Handled(h, r, advance)
      BY <1>6, Zenon DEF Confirmed
    <2> QED
      BY <2>1, <2>2, HandledShape, Zenon
  <1>7. CASE Unconfirmed(h)
    BY <1>7, FallThroughShape DEF Unconfirmed, Inside, Effects
  <1>8. CASE Decide(h)
    <2>1. pc[h] \in Inside /\ epoch' = epoch
      BY <1>8 DEF Decide, Inside, attempt
    <2>2. CASE Stay(h, "falling")
      BY <2>1, <2>2, StayShape DEF Shape, Inside, Effects
    <2>3. CASE Quit(h, {Msg(h)}, FALSE)
      BY <1>0, <2>1, <2>3, QuitShape DEF Shape
    <2>4. CASE Unhandled(h)
      BY <1>0, <2>1, <2>4, UnhandledShape DEF Shape
    <2> QED
      BY <1>8, <2>2, <2>3, <2>4 DEF Decide
  <1>9. CASE FellBack(h)
    BY <1>0, <1>9, QuitShape DEF FellBack, Inside, Effects, Shape
  <1>10. CASE FallbackUnconfirmed(h)
    BY <1>0, <1>10, UnhandledShape DEF FallbackUnconfirmed, Inside, Effects, Shape, attempt
  <1>11. CASE Breaks(h)
    BY <1>0, <1>11, QuitShape DEF Breaks, Inside, Effects, Shape
  <1>12. CASE Fails(h)
    BY <1>0, <1>12, ScheduleFacts, QuitShape DEF Fails, Inside, Effects, Shape, Locked
  <1>13. CASE PressAgain(h)
    <2>1. pc[h] \in Inside /\ epoch' = epoch /\ Stay(h, pc[h])
      BY <1>13 DEF PressAgain, Clicking, attempt, Inside, Effects
    <2> QED
      BY <2>1, StayShape DEF Shape
  <1> QED
    BY <1>1, <1>2, <1>3, <1>4, <1>5, <1>6, <1>7, <1>8, <1>9, <1>10, <1>11, <1>12, <1>13 DEF Choose

\* Run and retry: going on to what waits for no message.
LEMMA DrainShape ==
  ASSUME Locked, NEW p \in {Run, Retry}, Drain(p), lock \in {Free, p}, pc[p] # "over"
  PROVE  Shape(p) /\ Frame
  <1>1. p \in Procs /\ epoch \in Nat
    BY Names DEF Locked, Typed
  <1>2. CASE FollowUpNext(p, index)
    <2>1. pc' = [q \in Procs |-> IF q = p THEN "follow" ELSE pc[q]] /\ lock' = p /\ epoch' = epoch
          /\ processed' = processed /\ stale' = stale
      BY <1>2 DEF Drain, Moved, attempt
    <2>2. "follow" \in Points /\ "follow" \in Inside
      BY DEF Points, Inside, Effects
    <2>3. Holds(p, "follow")
      BY <1>1, <2>1, <2>2, Names, NamesAssumption DEF Holds, Locked, Typed, LockHeldInside
    <2> QED
      BY <1>1, <1>2, <2>1, <2>2, <2>3 DEF Drain, Frame, Shape, scanning
  <1>3. CASE ~FollowUpNext(p, index)
    <2>1. Leave(p, {}, FALSE) /\ epoch' = epoch
      BY <1>3 DEF Drain
    <2>2. Released(p)
      BY <1>1, <2>1, LeaveFacts
    <2> QED
      BY <1>1, <1>3, <2>1, <2>2 DEF Drain, Shape, Frame
  <1> QED
    BY <1>2, <1>3

\* Run and retry: going on to the next entry action.
LEMMA EntryShape ==
  ASSUME Locked, NEW p \in {Run, Retry}, NEW n, EntryAt(p, n), lock \in {Free, p}, pc[p] # "over"
  PROVE  Shape(p) /\ Frame
  <1>1. p \in Procs /\ epoch \in Nat
    BY Names DEF Locked, Typed
  <1>2. CASE n \in DOMAIN Entry /\ ~Finished
    <2>1. PICK point \in {"retry_wait", "entry"} :
            pc' = [q \in Procs |-> IF q = p THEN point ELSE pc[q]]
      BY <1>2 DEF EntryAt, Moved, attempt
    <2>2. /\ lock' = p /\ epoch' = epoch /\ actions' = actions /\ scanned' = scanned
          /\ processed' = processed /\ stale' = stale
      BY <1>2 DEF EntryAt, attempt, scanning, marks
    <2>3. point \in Points /\ point \in Inside
      BY DEF Points, Inside, Effects
    <2>4. Holds(p, point)
      BY <1>1, <2>1, <2>2, <2>3, Names, NamesAssumption DEF Holds, Locked, Typed, LockHeldInside
    <2> QED
      BY <1>1, <2>2, <2>3, <2>4 DEF Frame, Shape
  <1>3. CASE Drain(p)
    BY <1>3, DrainShape
  <1> QED
    BY <1>2, <1>3 DEF EntryAt

\* Every step of the other coroutines, and of the follow-up actions.
LEMMA OtherShape ==
  ASSUME Locked, NEW p \in Procs,
         \/ FollowedUp(p) \/ FollowUpFails(p)
         \/ p \in {Run, Retry} /\ (Enter(p) \/ EntryDone(p))
         \/ p = Retry /\ (RetryGoesOn \/ RetryBreaks)
  PROVE  Shape(p) /\ Frame
  <1>0. epoch \in Nat /\ (pc[p] \in Inside => lock = p) /\ (pc[p] \in Inside \cup {"lock_wait"} => pc[p] # "over")
    BY DEF Locked, Typed, LockHeldInside, Inside, Effects
  <1>1. CASE FollowedUp(p)
    <2>1. pc[p] \in Inside /\ epoch' = epoch
      BY <1>1 DEF FollowedUp, Inside, Effects
    <2>2. CASE Stay(p, "follow")
      BY <2>1, <2>2, StayShape DEF Shape, Inside, Effects
    <2>3. CASE Quit(p, Marked(p), TRUE)
      BY <1>0, <2>1, <2>3, QuitShape DEF Shape
    <2> QED
      BY <1>1, <2>2, <2>3 DEF FollowedUp
  <1>2. CASE FollowUpFails(p)
    BY <1>0, <1>2, ScheduleFacts, QuitShape DEF FollowUpFails, Inside, Effects, Shape, Locked
  <1>3. CASE p \in {Run, Retry} /\ Enter(p)
    BY <1>3, EntryShape DEF Enter
  <1>4. CASE p \in {Run, Retry} /\ EntryDone(p)
    BY <1>0, <1>4, EntryShape DEF EntryDone, Inside, Effects
  <1>5. CASE p = Retry /\ RetryGoesOn
    <2>1. pc[p] \in Inside
      BY <1>5 DEF RetryGoesOn, Inside
    <2>2. CASE Stay(p, "entry") /\ epoch' = epoch
      BY <2>1, <2>2, StayShape DEF Shape, Inside, Effects
    <2>3. CASE Drain(Retry)
      BY <1>0, <1>5, <2>1, <2>3, DrainShape
    <2> QED
      BY <1>5, <2>2, <2>3 DEF RetryGoesOn, attempt
  <1>6. CASE p = Retry /\ RetryBreaks
    BY <1>0, <1>6, QuitShape DEF RetryBreaks, Inside, Effects, Shape
  <1> QED
    BY <1>1, <1>2, <1>3, <1>4, <1>5, <1>6

\* Nobody takes the lock or gives it up.
Aside ==
    /\ lock' = lock
    /\ pc' \in [Procs -> Points]
    /\ \A q \in Procs : pc[q] \in Inside \/ pc'[q] \in Inside => pc'[q] = pc[q]

\* The steps that leave the lock alone.
LEMMA AsideShape ==
  ASSUME Locked,
         \/ \E v \in Versions : Appear(v) \/ Deliver(v) \/ HandOver(v)
         \/ Rescue \/ Read \/ ReadFails \/ ScanOver \/ UNCHANGED vars
  PROVE  Aside /\ Typed'
  <1> USE Names DEF Locked, Typed, Aside, Points, Inside, Effects, attempt, marks, chat, scanning
  <1>1. ASSUME NEW v \in Versions, Appear(v) PROVE Aside /\ Typed'
    BY <1>1 DEF Appear
  <1>2. ASSUME NEW v \in Versions, Deliver(v) PROVE Aside /\ Typed'
    <2>1. v \in Procs /\ v # Scan
      BY NamesAssumption DEF Procs, Handlers
    <2> QED
      BY <1>2, <2>1 DEF Deliver
  <1>3. ASSUME NEW v \in Versions, HandOver(v) PROVE Aside /\ Typed'
    BY <1>3 DEF HandOver
  <1>4. CASE Rescue
    BY <1>4 DEF Rescue
  <1>5. CASE Read
    BY <1>5 DEF Read, ScanEnds, AtStartup
  <1>6. CASE ReadFails
    BY <1>6 DEF ReadFails, ScanEnds, AtStartup
  <1>7. CASE ScanOver
    BY <1>7 DEF ScanOver, ScanEnds, AtStartup
  <1>8. CASE UNCHANGED vars
    BY <1>8 DEF vars
  <1> QED
    BY <1>1, <1>2, <1>3, <1>4, <1>5, <1>6, <1>7, <1>8

\* The run is over, but perhaps for the scan.
LEMMA OverShape ==
  ASSUME Locked, NEW left \in BOOLEAN, Over(left)
  PROVE  /\ Typed' /\ LockHeldInside'
         /\ pc'[Run] = "over"
         /\ \A q \in Procs : pc'[q] \in Inside => q = Scan /\ pc'[q] = pc[q]
  <1>1. pc' = [p \in Procs |-> IF p = Run THEN "over"
                               ELSE IF p = Scan /\ left THEN pc[p] ELSE "off"]
    BY DEF Over
  <1>2. lock' = IF lock = Scan /\ left THEN lock ELSE Free
    BY DEF Over
  <1>3. epoch' = epoch /\ actions' = actions /\ scanned' = scanned
    BY DEF Over, attempt, chat, scanning
  <1> QED
    BY <1>1, <1>2, <1>3, Names DEF Locked, Typed, LockHeldInside, Points, Inside, Effects

\* Steps of this shape preserve the lock part of the invariant.
LEMMA ShapeLock ==
  ASSUME Locked, NEW p \in Procs, Shape(p), Frame
  PROVE  Locked'
  <1>1. CASE Released(p)
    <2>1. pc'[Scan] = "lock_wait" => pc[Scan] = "lock_wait" /\ p # Scan
      BY <1>1, Names DEF Released, Rest
    <2> HIDE DEF Inside
    <2> QED
      BY <1>1, <2>1, Names, ReleasedLock DEF Frame, Locked, Typed, Released
  <1>2. ASSUME NEW point \in Inside, Holds(p, point) PROVE Locked'
    <2>1. p # Scan => pc'[Scan] = pc[Scan]
      BY <1>2, Names DEF Holds
    <2>2. p = Scan => pc[Scan] \in Inside \cup {"lock_wait"}
      BY <1>2 DEF Holds
    <2> QED
      BY <1>2, <2>1, <2>2, Names, HoldsLock DEF Frame, Locked, Typed, Holds
  <1> QED
    BY <1>1, <1>2 DEF Shape

\* Every step preserves it.
LEMMA LockedStep ==
  ASSUME Locked, [Next]_vars
  PROVE  Locked'
  <1>1. ASSUME Aside, Typed' PROVE Locked'
    BY <1>1 DEF Aside, Locked, Typed, LockHeldInside
  <1>2. ASSUME NEW h \in Handlers, Acquire(h) \/ Choose(h) \/ Fails(h) PROVE Locked'
    BY <1>2, Names, HandlerShape, ShapeLock
  <1>3. ASSUME NEW p \in Procs, FollowedUp(p) \/ FollowUpFails(p) PROVE Locked'
    BY <1>3, OtherShape, ShapeLock
  <1>4. ASSUME NEW p \in {Run, Retry}, Enter(p) \/ EntryDone(p) PROVE Locked'
    BY <1>4, Names, OtherShape, ShapeLock
  <1>5. CASE RetryGoesOn \/ RetryBreaks
    BY <1>5, Names, OtherShape, ShapeLock
  <1>6. CASE Complete \/ Abort
    <2>1. \E left \in BOOLEAN : Over(left)
      BY <1>6 DEF Complete, Abort
    <2> QED
      BY <2>1, OverShape DEF Locked
  <1> QED
    BY <1>1, <1>2, <1>3, <1>4, <1>5, <1>6, AsideShape DEF Next

\* The inductive invariant.
Inv ==
    /\ Locked
    /\ HoldersSaw
    /\ ResultTaken
    /\ GivenUpCanBeRetried
    /\ NotYetAttempted

\* The run is still looking for its result.
Active == ~Finished /\ pc[Run] # "over"

\* The rest of the invariant, about what is handled and attempted.
Goal == HoldersSaw /\ ResultTaken /\ GivenUpCanBeRetried /\ NotYetAttempted

\* The chat's program stays, and with it what a message is.
LEMMA SameProgram ==
  ASSUME actions' = actions
  PROVE  /\ Response' = Response /\ RequiresResult' = RequiresResult
         /\ \A v : Success(v)' <=> Success(v)
  BY DEF Response, RequiresResult, Success

\* A run that is active after a step was active before it.
LEMMA ActiveBack ==
  ASSUME NEW p \in Procs, Shape(p), Finished => Finished', Active'
  PROVE  Active
  <1>1. pc[Run] # "over"
    <2>1. CASE p = Run
      BY <2>1 DEF Shape, Released, Holds
    <2>2. CASE p # Run
      BY <2>2, Names, NamesAssumption DEF Shape, Released, Holds, Active
    <2> QED
      BY <2>1, <2>2
  <1> QED
    BY <1>1 DEF Active

\* Who leaves the lock has marked its message, or has taken back what it
\* had attempted.
LEMMA LeaveData ==
  ASSUME Inv, NEW p \in Procs, NEW marked, NEW followed,
         Leave(p, marked, followed), Released(p), Frame, lock \in {Free, p},
         Finished => Finished',
         marked \subseteq Marked(p),
         \A v \in marked : Success(v) => Finished',
         Active' => \A v \in attempted' :
                       /\ v \in attempted /\ epoch' = epoch
                       /\ pc[p] \in Inside /\ v \in Marked(p) => v \in marked
  PROVE  Goal'
  <1> USE Names, SameProgram
  <1>1. \A q \in Procs : pc'[q] \notin Inside
    BY DEF Released
  <1>2. processed' \subseteq processed \cup marked
    BY DEF Leave, Kept
  <1>3. HoldersSaw'
    BY <1>1 DEF HoldersSaw
  <1>4. ResultTaken'
    BY <1>2 DEF ResultTaken, Inv, Frame
  <1>5. NotYetAttempted'
    BY <1>1 DEF NotYetAttempted, Inside, Effects
  <1>6. GivenUpCanBeRetried'
    <2> SUFFICES ASSUME Active', NEW v \in attempted' PROVE v \in processed'
      BY DEF GivenUpCanBeRetried, Active
    <2>1. Active
      BY ActiveBack DEF Shape
    <2>2. v \in attempted /\ epoch' = epoch
      OBVIOUS
    <2>3. processed' = processed \cup (IF lock = Free \/ epoch = born THEN marked ELSE {})
      BY <2>2 DEF Leave, Kept
    <2>4. CASE v \in processed
      BY <2>3, <2>4
    <2>5. CASE v \notin processed
      <3>1. PICK h \in Handlers : pc[h] \in Inside /\ v = Msg(h)
        BY <2>1, <2>2, <2>5 DEF Inv, GivenUpCanBeRetried, Active
      <3>2. h = p
        BY <3>1 DEF Inv, Locked, LockHeldInside
      <3>3. v \in marked
        BY <3>1, <3>2 DEF Marked
      <3>4. epoch = born
        BY <3>1 DEF Inv, HoldersSaw, HolderSaw
      <3> QED
        BY <2>3, <3>3, <3>4
    <2> QED
      BY <2>4, <2>5
  <1> QED
    BY <1>3, <1>4, <1>5, <1>6 DEF Goal

\* p holds the lock, and nothing is marked.
LEMMA HoldsData ==
  ASSUME Inv, NEW p \in Procs, NEW point \in Inside, Holds(p, point), Frame,
         Finished => Finished',
         epoch' = epoch,
         p \in Handlers => HolderSaw(p)',
         Active' => \A v \in attempted' : v \in attempted \/ v \in Marked(p),
         pc[p] \in Inside \/ lock = Free,
         Active' /\ p \in Handlers
            /\ (point = "asking" \/ (point = "thinking" /\ Response[index'] # "captcha"))
            => Msg(p) \notin attempted'
  PROVE  Goal'
  <1> USE Names, SameProgram
  <1>1. \A q \in Procs : pc'[q] \in Inside => q = p
    BY DEF Holds
  <1>2. HoldersSaw'
    BY <1>1 DEF HoldersSaw
  <1>3. ResultTaken'
    BY DEF ResultTaken, Inv, Frame, Holds
  <1>4. Msg(p)' = Msg(p)
    BY DEF Msg, Frame
  <1>5. NotYetAttempted'
    <2> SUFFICES ASSUME Active', NEW h \in Handlers,
                        pc'[h] = "asking" \/ (pc'[h] = "thinking" /\ Response'[index'] # "captcha")
                 PROVE  Msg(h)' \notin attempted'
      BY DEF NotYetAttempted, Active
    <2>1. h = p
      BY <1>1 DEF Inside
    <2>2. pc'[p] = point
      BY DEF Holds
    <2>3. Response' = Response
      BY SameProgram DEF Frame
    <2>4. point = "asking" \/ (point = "thinking" /\ Response[index'] # "captcha")
      BY <2>1, <2>2, <2>3
    <2> QED
      BY <1>4, <2>1, <2>4
  <1>6. GivenUpCanBeRetried'
    <2> SUFFICES ASSUME Active', NEW v \in attempted', v \notin processed'
                 PROVE  \E h \in Handlers : pc'[h] \in Inside /\ v = Msg(h)'
      BY DEF GivenUpCanBeRetried, Active
    <2>1. Active
      BY ActiveBack DEF Shape
    <2>2. pc'[p] \in Inside
      BY DEF Holds
    <2>3. CASE v \in Marked(p)
      BY <1>4, <2>2, <2>3 DEF Marked
    <2>4. CASE v \in attempted
      <3>1. PICK h \in Handlers : pc[h] \in Inside /\ v = Msg(h)
        BY <2>1, <2>4 DEF Inv, GivenUpCanBeRetried, Active, Holds
      <3>2. h = p
        BY <3>1 DEF Inv, Locked, LockHeldInside
      <3> QED
        BY <1>4, <2>2, <3>1, <3>2
    <2> QED
      BY <2>3, <2>4
  <1> QED
    BY <1>2, <1>3, <1>5, <1>6 DEF Goal

\* What is known of the holder of the lock.
LEMMA Holder ==
  ASSUME Inv, NEW p \in Procs, pc[p] \in Inside
  PROVE  /\ lock = p /\ epoch \in Nat /\ pc[p] # "over"
         /\ p \in Handlers => HolderSaw(p) /\ Marked(p) = {Msg(p)}
         /\ Active => \A v \in attempted : v \in processed \/ v \in Marked(p)
  <1>1. lock = p /\ \A q \in Procs : pc[q] \in Inside => q = p
    BY DEF Inv, Locked, LockHeldInside
  <1>2. epoch \in Nat /\ pc[p] # "over"
    BY DEF Inv, Locked, Typed, Inside, Effects
  <1>3. p \in Handlers => HolderSaw(p) /\ Marked(p) = {Msg(p)}
    BY DEF Inv, HoldersSaw, Marked
  <1> HIDE DEF Inside
  <1> QED
    BY <1>1, <1>2, <1>3, Names DEF Inv, GivenUpCanBeRetried, Active, Marked

\* Quit, from inside the lock or straight from the wait for it.
LEMMA QuitData ==
  ASSUME Inv, NEW p \in Procs, NEW marked, NEW followed, Quit(p, marked, followed),
         pc[p] \in Inside \/ (lock = Free /\ pc[p] = "lock_wait"),
         epoch' \in Nat, epoch' # epoch => pc[Retry] = "off",
         Finished => Finished',
         marked \subseteq Marked(p),
         \A v \in marked : Success(v) => Finished',
         Active' => \A v \in attempted' :
                       /\ v \in attempted /\ epoch' = epoch
                       /\ pc[p] \in Inside /\ v \in Marked(p) => v \in marked
  PROVE  Goal'
  <1>1. lock \in {Free, p} /\ pc[p] # "over"
    BY Holder
  <1>2. Released(p) /\ Frame
    BY <1>1, QuitShape DEF Inv
  <1>3. Leave(p, marked, followed)
    BY DEF Quit
  <1> QED
    BY <1>1, <1>2, <1>3, LeaveData

\* A message nothing was done with has not been attempted.
LEMMA UnhandledData ==
  ASSUME Inv, NEW h \in Handlers, Unhandled(h),
         pc[h] \in Inside \/ (lock = Free /\ pc[h] = "lock_wait"),
         epoch' = epoch, result' = result,
         Active' => /\ attempted' \subseteq attempted
                    /\ pc[h] \in Inside => Msg(h) \notin attempted'
  PROVE  Goal'
  <1>1. lock \in {Free, h} /\ pc[h] # "over" /\ h \in Procs
    BY Holder, Names
  <1>2. Released(h) /\ Frame
    BY <1>1, UnhandledShape DEF Inv
  <1>3. Leave(h, {}, FALSE)
    BY DEF Unhandled
  <1>4. Marked(h) = {Msg(h)}
    BY DEF Marked
  <1>5. Finished => Finished'
    BY DEF Finished
  <1>6. Active' => \A v \in attempted' :
                      /\ v \in attempted /\ epoch' = epoch
                      /\ pc[h] \in Inside /\ v \in Marked(h) => v \in {}
    BY <1>4
  <1> HIDE DEF Active
  <1> QED
    <2>1. ASSUME NEW marked, NEW followed, marked = {}, Leave(h, marked, followed) PROVE Goal'
      BY <1>1, <1>2, <1>5, <1>6, <2>1, LeaveData
    <2> QED
      BY <1>3, <2>1, Zenon

\* The holder goes on with its message.
LEMMA StayData ==
  ASSUME Inv, NEW p \in Procs, NEW point \in Inside \ {"thinking"}, Stay(p, point),
         pc[p] \in Inside, epoch' = epoch, Finished => Finished',
         p \in Handlers /\ point = "acting" =>
             index' \in DOMAIN Response /\ Response[index'] \notin Immediate,
         p \in Handlers /\ point \in {"asking", "falling"} => index' \notin DOMAIN Response,
         Active' => \A v \in attempted' : v \in attempted \/ v \in Marked(p),
         Active' /\ p \in Handlers /\ point = "asking" => Msg(p) \notin attempted'
  PROVE  Goal'
  <1>1. Holds(p, point) /\ Frame
    BY StayShape DEF Inv
  <1>2. processed' = processed /\ stale' = stale /\ born' = born
    BY DEF Stay
  <1>3. ASSUME p \in Handlers PROVE HolderSaw(p)'
    <2>1. HolderSaw(p)
      BY <1>3, Holder
    <2>2. Msg(p)' = Msg(p) /\ Response' = Response /\ \A v : Success(v)' <=> Success(v)
      BY <1>1, SameProgram DEF Frame, Msg
    <2>3. pc'[p] = point
      BY <1>1 DEF Holds
    <2> QED
      BY <1>2, <1>3, <2>1, <2>2, <2>3 DEF HolderSaw, Seen
  <1> QED
    BY <1>1, <1>2, <1>3, HoldsData

\* The action came to nothing: nothing is left attempted.
LEMMA FallThroughData ==
  ASSUME Inv, NEW h \in Handlers, FallThrough(h), pc[h] \in Inside,
         Active => attempted' \subseteq attempted /\ Msg(h) \notin attempted'
  PROVE  Goal'
  <1>1. epoch' = epoch /\ index' = index /\ result' = result
    BY DEF FallThrough, attempt
  <1>2. CASE Unhandled(h)
    <2>1. h \in Procs /\ Released(h)
      BY <1>1, <1>2, Names, Holder, UnhandledShape DEF Inv
    <2>2. Active' => Active
      BY <1>1, <2>1, ActiveBack DEF Shape, Finished
    <2> QED
      BY <1>1, <1>2, <2>2, UnhandledData
  <1>3. CASE CanAsk /\ Stay(h, "asking")
    <2>1. h \in Procs /\ Holds(h, "asking")
      BY <1>1, <1>3, Names, StayShape DEF Inv, Inside
    <2>2. Active' => Active
      BY <1>1, <2>1, ActiveBack DEF Shape, Finished, Inside
    <2> QED
      BY <1>1, <1>3, <2>1, <2>2, StayData DEF CanAsk, Inside, Finished
  <1> QED
    BY <1>2, <1>3 DEF FallThrough

\* The message is handled: it is marked, or what follows is begun.
LEMMA HandledData ==
  ASSUME Inv, NEW h \in Handlers, NEW r, NEW advance, Handled(h, r, advance),
         pc[h] \in Inside, Finished => r # "none",
         attempted' \subseteq attempted
  PROVE  Goal'
  <1>1. epoch' = epoch /\ (Finished => Finished') /\ h \in Procs
    BY Names DEF Handled, Finished
  <1>2. lock = h /\ epoch \in Nat /\ HolderSaw(h) /\ Marked(h) = {Msg(h)}
    BY <1>1, Holder
  <1>3. CASE Quit(h, {Msg(h)}, TRUE)
    BY <1>1, <1>2, <1>3, QuitData DEF HolderSaw
  <1>4. CASE Stay(h, "follow")
    BY <1>1, <1>2, <1>4, StayData DEF Inside, Effects
  <1> QED
    BY <1>3, <1>4 DEF Handled

\* A handler that looks at its message for the first time.
LEMMA AcquireData ==
  ASSUME Inv, NEW h \in Handlers, Acquire(h)
  PROVE  Goal'
  <1>1. /\ lock = Free /\ pc[h] = "lock_wait" /\ h \in Procs /\ Marked(h) = {Msg(h)}
        /\ pc[h] \notin Inside /\ epoch \in Nat
    BY Names DEF Acquire, Marked, Inside, Effects, Inv, Locked, Typed
  <1>2. Msg(h) \in Versions
    BY <1>1 DEF Inv, Locked, Typed, Msg, Handlers
  <1>3. CASE attempt' = attempt /\ attempted' = attempted /\ Quit(h, {}, FALSE)
    <2>1. ASSUME NEW followed, NEW marked, marked = {}, Quit(h, marked, followed) PROVE Goal'
      BY <1>1, <1>3, <2>1, QuitData DEF attempt, Finished
    <2> QED
      BY <1>3, <2>1, Zenon
  <1>4. CASE /\ FinishAs("success") /\ epoch' = epoch /\ attempted' = attempted
             /\ Quit(h, {Msg(h)}, FALSE)
    <2>1. ASSUME NEW followed, Quit(h, {Msg(h)}, followed) PROVE Goal'
      BY <1>1, <1>4, <2>1, QuitData DEF FinishAs, Finished
    <2> QED
      BY <1>4, <2>1, Zenon
  <1>5. CASE attempt' = attempt /\ Msg(h) \notin Seen /\ ~Success(Msg(h)) /\ React(h, Msg(h))
    <2>0. epoch' = epoch /\ index' = index /\ result' = result
      BY <1>5 DEF attempt
    <2>1. ASSUME NEW point \in {"acting", "thinking", "asking"}, NEW guarded,
                 Begin(h, point, guarded), guarded \subseteq Marked(h),
                 point \in {"acting", "thinking"} =>
                     index \in DOMAIN Response /\ Response[index] \notin Immediate,
                 point = "asking" => index \notin DOMAIN Response,
                 guarded = {} \/ point = "acting" \/ Response[index] = "captcha",
                 point = "asking" => guarded = {}
          PROVE  Goal'
      <3>1. Shape(h) /\ Frame
        BY HandlerShape DEF Inv
      <3>2. point \in Inside /\ pc'[h] = point
        BY <1>1, <2>0, <2>1 DEF Begin, Moved, Inside, Effects, Inv, Locked, Typed
      <3>3. Holds(h, point)
        BY <1>1, <3>1, <3>2, RestOut DEF Shape, Released, Holds
      <3>4. HolderSaw(h)'
        <4>1. Msg(h)' = Msg(h) /\ Response' = Response /\ \A v : Success(v)' <=> Success(v)
          BY <3>1, SameProgram DEF Frame, Msg
        <4> QED
          BY <1>5, <2>0, <2>1, <3>2, <4>1 DEF HolderSaw, Seen, Begin
      <3>5. Active' => Active
        <4>1. Finished => Finished'
          BY <2>0 DEF Finished
        <4> QED
          BY <1>1, <3>1, <4>1, ActiveBack
      <3>6. Active => Msg(h) \notin attempted
        <4>1. \A q \in Procs : pc[q] \notin Inside
          BY <1>1, Names DEF Inv, Locked, LockHeldInside
        <4> QED
          BY <1>5, <4>1, Names DEF Inv, GivenUpCanBeRetried, Active, Seen
      <3>7. attempted' = attempted \cup guarded /\ processed' = processed /\ stale' = stale
        BY <2>1 DEF Begin
      <3> HIDE DEF Active
      <3> QED
        BY <1>1, <2>0, <2>1, <3>1, <3>2, <3>3, <3>4, <3>5, <3>6, <3>7, HoldsData DEF Finished
    <2>2. CASE CanAct(Msg(h))
      <3>1. index \in DOMAIN Response /\ Response[index] \in Offers[Msg(h)]
        BY <2>2 DEF CanAct, Current
      <3>2. Response[index] \notin Immediate
        BY <1>2, <3>1, MessagesAssumption DEF Replies, Clicks, Immediate
      <3>3. CASE Response[index] = "click" /\ Begin(h, "acting", {Msg(h)})
        BY <1>1, <2>1, <3>1, <3>2, <3>3
      <3>4. CASE Response[index] = "captcha" /\ Begin(h, "thinking", {Msg(h)})
        BY <1>1, <2>1, <3>1, <3>2, <3>4
      <3>5. CASE Begin(h, "thinking", {})
        <4>1. ASSUME NEW guarded, guarded = {}, Begin(h, "thinking", guarded) PROVE Goal'
          BY <2>1, <3>1, <3>2, <4>1
        <4> QED
          BY <3>5, <4>1
      <3> QED
        BY <1>5, <2>2, <3>3, <3>4, <3>5 DEF React
    <2>3. CASE CanAsk /\ Begin(h, "asking", {})
      <3>1. ASSUME NEW guarded, guarded = {}, Begin(h, "asking", guarded) PROVE Goal'
        BY <2>1, <2>3, <3>1 DEF CanAsk
      <3> QED
        BY <2>3, <3>1
    <2>4. CASE Unhandled(h) /\ attempted' = attempted
      BY <1>1, <2>0, <2>4, UnhandledData
    <2> QED
      BY <1>5, <2>2, <2>3, <2>4 DEF React
  <1> QED
    BY <1>3, <1>4, <1>5 DEF Acquire, attempt

\* Every other step of a handler preserves the rest of the invariant.
LEMMA ChooseData ==
  ASSUME Inv, NEW h \in Handlers, Choose(h) \/ Fails(h)
  PROVE  Goal'
  <1> USE Names
  <1>0. ASSUME pc[h] \in {"thinking", "acting", "asking", "falling", "follow"}
        PROVE  /\ pc[h] \in Inside /\ lock = h /\ epoch \in Nat /\ HolderSaw(h)
               /\ Marked(h) = {Msg(h)} /\ ~Success(Msg(h))
    <2>1. pc[h] \in Inside
      BY <1>0 DEF Inside, Effects
    <2> QED
      BY <2>1, Holder DEF HolderSaw
  <1>1. CASE Think(h)
    <2>1. pc[h] \in Inside /\ HolderSaw(h) /\ Marked(h) = {Msg(h)}
      BY <1>0, <1>1 DEF Think
    <2>2. CASE Finished /\ attempted' = attempted \ {Msg(h)} /\ Handled(h, result, TRUE)
      <3>1. ASSUME NEW r, NEW advance, Handled(h, r, advance), r = result PROVE Goal'
        BY <2>1, <2>2, <3>1, HandledData DEF Finished
      <3> QED
        BY <2>2, <3>1, Zenon
    <2>3. CASE /\ ~Finished /\ attempt' = attempt /\ Stay(h, "acting")
               /\ attempted' \subseteq attempted \cup {Msg(h)}
      BY <1>1, <2>1, <2>3, StayData DEF attempt, Finished, Think, HolderSaw, Inside, Effects
    <2> QED
      BY <1>1, <2>2, <2>3 DEF Think
  <1>2. CASE NoAnswer(h)
    <2>1. Active => Msg(h) \notin attempted
      BY <1>2 DEF NoAnswer, Inv, NotYetAttempted, Active
    <2> QED
      BY <1>0, <1>2, <2>1, FallThroughData DEF NoAnswer
  <1>3. CASE CaptchaUnusable(h)
    <2>1. /\ ScheduleRetry /\ attempted' = Kept(attempted) /\ pc[h] = "thinking"
          /\ Quit(h, {Msg(h)}, TRUE)
      BY <1>3 DEF CaptchaUnusable
    <2>2. /\ epoch' \in Nat /\ (epoch' # epoch => pc[Retry] = "off")
          /\ (Finished => Finished')
      BY <2>1, ScheduleFacts DEF Inv, Locked, Finished
    <2>3. \A v \in attempted' : v \in attempted /\ epoch' = epoch
      BY <2>1 DEF Kept
    <2>4. ASSUME NEW followed, Quit(h, {Msg(h)}, followed) PROVE Goal'
      BY <1>0, <2>1, <2>2, <2>3, <2>4, QuitData
    <2> QED
      BY <2>1, <2>4, Zenon
  <1>4. CASE CaptchaIsResult(h)
    <2>1. /\ FinishAs("success") /\ attempted' = attempted /\ pc[h] = "thinking"
          /\ epoch' = epoch /\ Quit(h, {Msg(h)}, TRUE)
      BY <1>4 DEF CaptchaIsResult
    <2>2. Finished'
      BY <2>1 DEF FinishAs, Finished
    <2>3. ASSUME NEW followed, Quit(h, {Msg(h)}, followed) PROVE Goal'
      BY <1>0, <2>1, <2>2, <2>3, QuitData
    <2> QED
      BY <2>1, <2>3, Zenon
  <1>5. CASE Confirmed(h)
    <2>1. pc[h] \in Inside /\ attempted' = attempted
      BY <1>0, <1>5 DEF Confirmed
    <2>2. \E r, advance : Handled(h, r, advance) /\ (Finished => r # "none")
      <3>1. PICK o \in Outcomes(Response[index] \in Clicks) :
               \E done \in {TRUE, Response[index] # "poetry"} :
                  Handled(h, IF o.text THEN "success" ELSE result, done)
        BY <1>5, Zenon DEF Confirmed
      <3>2. ASSUME NEW r, r = IF o.text THEN "success" ELSE result
            PROVE  Finished => r # "none"
        BY <3>2 DEF Finished
      <3>3. Finished => (IF o.text THEN "success" ELSE result) # "none"
        BY <3>2
      <3> QED
        BY <3>1, <3>3, Zenon
    <2>3. ASSUME NEW r, NEW advance, Handled(h, r, advance), Finished => r # "none"
          PROVE  Goal'
      BY <2>1, <2>3, HandledData
    <2> QED
      BY <2>2, <2>3, Zenon
  <1>6. CASE Unconfirmed(h)
    BY <1>0, <1>6, FallThroughData DEF Unconfirmed
  <1>7. CASE Decide(h)
    <2>1. /\ pc[h] = "asking" /\ epoch' = epoch /\ index' = index /\ result' = result
          /\ h \in Procs
      BY <1>7 DEF Decide, attempt
    <2>2. /\ pc[h] \in Inside /\ lock = h /\ epoch \in Nat /\ HolderSaw(h)
          /\ Marked(h) = {Msg(h)} /\ ~Success(Msg(h))
      BY <1>0, <2>1
    <2>3. CASE Stay(h, "falling") /\ attempted' \subseteq attempted \cup {Msg(h)}
      BY <2>1, <2>2, <2>3, StayData DEF Finished, HolderSaw, Inside, Effects
    <2>4. CASE Quit(h, {Msg(h)}, FALSE) /\ attempted' = attempted
      <3>1. ASSUME NEW followed, Quit(h, {Msg(h)}, followed) PROVE Goal'
        BY <2>1, <2>2, <2>4, <3>1, QuitData DEF Finished
      <3> QED
        BY <2>4, <3>1, Zenon
    <2>5. CASE Unhandled(h) /\ attempted' = attempted
      <3>1. Active' => Active
        BY <2>1, <2>2, <2>5, UnhandledShape, ActiveBack DEF Shape, Finished, Inv
      <3>2. Active => Msg(h) \notin attempted
        BY <2>1 DEF Inv, NotYetAttempted, Active
      <3> QED
        BY <2>1, <2>2, <2>5, <3>1, <3>2, UnhandledData
    <2>6. CASE /\ \E clicked \in {{}, {Msg(h)} \ attempted} : attempted' = attempted \cup clicked
               /\ Stay(h, "falling")
      BY <2>3, <2>6
    <2> QED
      BY <1>7, <2>4, <2>5, <2>6 DEF Decide
  <1>8. CASE FellBack(h)
    <2>1. /\ pc[h] = "falling" /\ epoch' = epoch /\ attempted' = attempted
          /\ (Finished => Finished') /\ Quit(h, {Msg(h)}, FALSE)
      BY <1>8 DEF FellBack, Finished
    <2>2. ASSUME NEW followed, Quit(h, {Msg(h)}, followed) PROVE Goal'
      BY <1>0, <2>1, <2>2, QuitData
    <2> QED
      BY <2>1, <2>2, Zenon
  <1>9. CASE FallbackUnconfirmed(h)
    BY <1>0, <1>9, UnhandledData DEF FallbackUnconfirmed, attempt
  <1>10. CASE Breaks(h) \/ Fails(h)
    <2>1. /\ pc[h] \in {"thinking", "acting", "asking", "falling", "follow"}
          /\ Quit(h, {}, FALSE)
      BY <1>10 DEF Breaks, Fails
    <2>2. /\ epoch' \in Nat /\ (epoch' # epoch => pc[Retry] = "off") /\ (Finished => Finished')
          /\ Active' => /\ \A v \in attempted' : v \in attempted /\ epoch' = epoch
                        /\ Msg(h) \notin attempted'
      <3>1. CASE Breaks(h)
        BY <1>0, <2>1, <3>1 DEF Breaks, FinishAs, Finished, Active
      <3>2. CASE Fails(h)
        BY <3>2, ScheduleFacts DEF Fails, Inv, Locked, Finished, Kept
      <3> QED
        BY <1>10, <3>1, <3>2
    <2>3. ASSUME NEW marked, marked = {}, NEW followed, Quit(h, marked, followed) PROVE Goal'
      BY <1>0, <2>1, <2>2, <2>3, QuitData
    <2> QED
      BY <2>1, <2>3, Zenon
  <1>11. CASE PressAgain(h)
    <2>1. /\ pc[h] \in {"acting", "falling"} /\ Stay(h, pc[h]) /\ attempted' = attempted
          /\ epoch' = epoch /\ index' = index /\ result' = result /\ h \in Procs
      BY <1>11 DEF PressAgain, Clicking, attempt
    <2>2. HolderSaw(h) /\ pc[h] \in Inside \ {"thinking"}
      BY <1>0, <2>1
    <2> QED
      BY <2>1, <2>2, StayData DEF HolderSaw, Finished
  <1> QED
    BY <1>1, <1>2, <1>3, <1>4, <1>5, <1>6, <1>7, <1>8, <1>9, <1>10, <1>11 DEF Choose

\* A coroutine without a message of its own goes on or gives the lock up.
LEMMA EntryData ==
  ASSUME Inv, NEW p \in {Run, Retry}, NEW n, EntryAt(p, n) \/ Drain(p),
         lock = Free \/ lock = p, pc[p] \in Inside \cup {"lock_wait"}
  PROVE  Goal'
  <1>1. p \in Procs /\ p \notin Handlers /\ pc[p] # "over" /\ Marked(p) = {}
    BY Names DEF Inside, Effects, Marked
  <1>2. Shape(p) /\ Frame
    BY <1>1, EntryShape, DrainShape DEF Inv
  <1>3. pc[p] \in Inside \/ lock = Free
    BY <1>1, Names DEF Inv, Locked, LockHeldInside
  <1>4. attempted' = attempted /\ epoch' = epoch /\ (Finished => Finished')
    BY DEF EntryAt, Drain, attempt, marks, Finished
  <1>5. CASE Leave(p, {}, FALSE)
    <2>1. lock' = Free
      BY <1>5 DEF Leave
    <2>2. Released(p)
      BY <1>1, <1>2, <2>1, Names DEF Shape, Holds
    <2>3. ASSUME NEW marked, NEW followed, marked = {}, Leave(p, marked, followed) PROVE Goal'
      BY <1>1, <1>2, <1>4, <2>2, <2>3, LeaveData
    <2> QED
      BY <1>5, <2>3, Zenon
  <1>6. CASE lock' = p /\ processed' = processed /\ stale' = stale
    <2>1. PICK point \in Inside : Holds(p, point)
      BY <1>1, <1>2, <1>6, Names DEF Shape, Released
    <2> QED
      BY <1>1, <1>2, <1>3, <1>4, <1>6, <2>1, HoldsData
  <1> QED
    BY <1>5, <1>6 DEF EntryAt, Drain, marks

\* The steps of run, of the retry and of the follow-up actions preserve it.
LEMMA OtherData ==
  ASSUME Inv, NEW p \in Procs,
         \/ FollowedUp(p) \/ FollowUpFails(p)
         \/ p \in {Run, Retry} /\ (Enter(p) \/ EntryDone(p))
         \/ p = Retry /\ (RetryGoesOn \/ RetryBreaks)
  PROVE  Goal'
  <1> USE Names
  <1>0. ASSUME pc[p] \in {"follow", "entry", "retry_wait"}
        PROVE  /\ pc[p] \in Inside /\ lock = p /\ epoch \in Nat
               /\ \A v \in Marked(p) : ~Success(v)
    <2>1. pc[p] \in Inside
      BY <1>0 DEF Inside, Effects
    <2> QED
      BY <2>1, Holder DEF HolderSaw, Marked
  <1>1. CASE FollowedUp(p)
    <2>1. /\ pc[p] = "follow" /\ epoch' = epoch /\ attempted' = attempted
          /\ (Finished => Finished')
      BY <1>1 DEF FollowedUp, Finished
    <2>2. CASE Stay(p, "follow")
      BY <1>0, <2>1, <2>2, StayData DEF Inside, Effects
    <2>3. CASE Quit(p, Marked(p), TRUE)
      <3>1. ASSUME NEW followed, Quit(p, Marked(p), followed) PROVE Goal'
        BY <1>0, <2>1, <3>1, QuitData
      <3> QED
        BY <2>3, <3>1, Zenon
    <2> QED
      BY <1>1, <2>2, <2>3 DEF FollowedUp
  <1>2. CASE FollowUpFails(p)
    <2>1. /\ pc[p] = "follow" /\ ScheduleRetry /\ attempted' = Kept(attempted)
          /\ Quit(p, Marked(p), TRUE)
      BY <1>2 DEF FollowUpFails
    <2>2. /\ epoch' \in Nat /\ (epoch' # epoch => pc[Retry] = "off")
          /\ (Finished => Finished')
      BY <2>1, ScheduleFacts DEF Inv, Locked, Finished
    <2>3. \A v \in attempted' : v \in attempted /\ epoch' = epoch
      BY <2>1 DEF Kept
    <2>4. ASSUME NEW followed, Quit(p, Marked(p), followed) PROVE Goal'
      BY <1>0, <2>1, <2>2, <2>3, <2>4, QuitData
    <2> QED
      BY <2>1, <2>4, Zenon
  <1>3. CASE p \in {Run, Retry} /\ Enter(p)
    BY <1>3, EntryData DEF Enter
  <1>4. CASE p \in {Run, Retry} /\ EntryDone(p)
    BY <1>0, <1>4, EntryData DEF EntryDone
  <1>5. CASE p = Retry /\ RetryGoesOn
    <2>1. pc[p] = "retry_wait"
      BY <1>5 DEF RetryGoesOn
    <2>2. CASE attempt' = attempt /\ attempted' = attempted /\ Stay(p, "entry")
      BY <1>0, <1>5, <2>1, <2>2, StayData DEF Inside, Effects, attempt, Finished
    <2>3. CASE Drain(Retry)
      BY <1>0, <1>5, <2>1, <2>3, EntryData
    <2> QED
      BY <1>5, <2>2, <2>3 DEF RetryGoesOn, attempt
  <1>6. CASE p = Retry /\ RetryBreaks
    <2>1. /\ pc[p] \in {"follow", "entry"} /\ FinishAs("failed") /\ epoch' = epoch
          /\ Quit(p, {}, FALSE)
      BY <1>6 DEF RetryBreaks
    <2>2. Finished'
      BY <2>1 DEF FinishAs, Finished
    <2>3. ASSUME NEW marked, marked = {}, NEW followed, Quit(p, marked, followed) PROVE Goal'
      BY <1>0, <2>1, <2>2, <2>3, QuitData DEF Active
    <2> QED
      BY <2>1, <2>3, Zenon
  <1> QED
    BY <1>1, <1>2, <1>3, <1>4, <1>5, <1>6

\* Nothing changes for whoever holds the lock, though a result may be taken
\* or the scan go on to another message meanwhile.
Undisturbed ==
    /\ actions' = actions /\ born' = born /\ epoch' = epoch /\ index' = index
    /\ attempted' = attempted /\ acted' = acted /\ stale' = stale /\ step' = step
    /\ Finished => Finished'
    /\ pc'[Retry] = pc[Retry]
    /\ pc'[Run] # "over" => pc[Run] # "over"
    /\ processed \subseteq processed'
    /\ \A v \in processed' \ processed : Finished' /\ v \notin Marked(lock)
    /\ pc[Scan] \in Inside => scanned' = scanned

\* The steps beside the lock leave its holder alone.
LEMMA AsideFrame ==
  ASSUME Locked,
         \/ \E v \in Versions : Appear(v) \/ Deliver(v) \/ HandOver(v)
         \/ Rescue \/ Read \/ ReadFails \/ ScanOver \/ UNCHANGED vars
  PROVE  Undisturbed
  <1> USE Names DEF Undisturbed, Locked, Typed, attempt, marks, chat, scanning, Finished
  <1>1. ASSUME NEW v \in Versions, Appear(v) PROVE Undisturbed
    BY <1>1 DEF Appear
  <1>2. ASSUME NEW v \in Versions, Deliver(v) PROVE Undisturbed
    <2>1. v \in Procs /\ v # Run /\ v # Retry
      BY NamesAssumption DEF Procs, Handlers
    <2>2. actions' = actions /\ born' = born /\ epoch' = epoch /\ index' = index
          /\ attempted' = attempted /\ acted' = acted /\ stale' = stale /\ scanned' = scanned
          /\ step' = step
      BY <1>2 DEF Deliver
    <2>3. pc'[Run] = pc[Run] /\ pc'[Retry] = pc[Retry] /\ (Finished => Finished') /\ processed \subseteq processed'
      BY <1>2, <2>1 DEF Deliver, FinishAs
    <2>4. \A w \in processed' \ processed : Finished' /\ w \notin Marked(lock)
      BY <1>2 DEF Deliver, FinishAs
    <2> QED
      BY <2>2, <2>3, <2>4
  <1>3. ASSUME NEW v \in Versions, HandOver(v) PROVE Undisturbed
    BY <1>3, NamesAssumption DEF HandOver, Inside, Effects
  <1>4. CASE Rescue
    BY <1>4, NamesAssumption DEF Rescue
  <1>5. CASE Read
    BY <1>5, NamesAssumption DEF Read, ScanEnds, AtStartup
  <1>6. CASE ReadFails
    BY <1>6, NamesAssumption DEF ReadFails, ScanEnds, AtStartup
  <1>7. CASE ScanOver
    BY <1>7, NamesAssumption DEF ScanOver, ScanEnds, AtStartup
  <1>8. CASE UNCHANGED vars
    BY <1>8 DEF vars
  <1> QED
    BY <1>1, <1>2, <1>3, <1>4, <1>5, <1>6, <1>7, <1>8

\* They preserve what its holder saw.
LEMMA AsideData ==
  ASSUME Inv, Aside, Undisturbed
  PROVE  Goal'
  <1> USE Names
  <1>1. Response' = Response /\ \A v : Success(v)' <=> Success(v)
    BY SameProgram DEF Undisturbed
  <1>2. ASSUME NEW h \in Handlers, pc'[h] \in Inside
        PROVE  pc[h] = pc'[h] /\ lock = h /\ Msg(h)' = Msg(h)
    <2>1. pc[h] = pc'[h]
      BY <1>2 DEF Aside
    <2>2. lock = h
      BY <1>2, <2>1 DEF Inv, Locked, LockHeldInside
    <2>3. Msg(h)' = Msg(h)
      BY <1>2, <2>1 DEF Undisturbed, Msg
    <2> QED
      BY <2>1, <2>2, <2>3
  <1>3. HoldersSaw'
    <2> SUFFICES ASSUME NEW h \in Handlers, pc'[h] \in Inside PROVE HolderSaw(h)'
      BY DEF HoldersSaw
    <2>1. HolderSaw(h) /\ pc'[h] = pc[h] /\ Msg(h)' = Msg(h) /\ Marked(lock) = {Msg(h)}
      BY <1>2 DEF Inv, HoldersSaw, Marked
    <2>2. Msg(h) \notin processed' \cup stale'
      BY <2>1 DEF HolderSaw, Undisturbed, Seen
    <2> QED
      BY <1>1, <2>1, <2>2 DEF HolderSaw, Undisturbed, Seen
  <1>4. ResultTaken'
    BY <1>1 DEF ResultTaken, Inv, Undisturbed
  <1>5. Active' => Active
    BY DEF Active, Undisturbed
  <1>6. GivenUpCanBeRetried'
    <2> SUFFICES ASSUME Active', NEW v \in attempted', v \notin processed'
                 PROVE  \E h \in Handlers : pc'[h] \in Inside /\ v = Msg(h)'
      BY DEF GivenUpCanBeRetried, Active
    <2>1. PICK h \in Handlers : pc[h] \in Inside /\ v = Msg(h)
      BY <1>5 DEF Inv, GivenUpCanBeRetried, Active, Undisturbed
    <2>2. pc'[h] = pc[h]
      BY <2>1 DEF Aside
    <2> QED
      BY <1>2, <2>1, <2>2
  <1>7. NotYetAttempted'
    <2> SUFFICES ASSUME Active', NEW h \in Handlers,
                        pc'[h] = "asking" \/ (pc'[h] = "thinking" /\ Response'[index'] # "captcha")
                 PROVE  Msg(h)' \notin attempted'
      BY DEF NotYetAttempted, Active
    <2>1. pc'[h] = pc[h] /\ Msg(h)' = Msg(h)
      BY <1>2 DEF Inside
    <2> QED
      BY <1>1, <1>5, <2>1 DEF Inv, NotYetAttempted, Active, Undisturbed
  <1> QED
    BY <1>3, <1>4, <1>6, <1>7 DEF Goal

\* The end of the run preserves it.
LEMMA OverData ==
  ASSUME Inv, NEW left \in BOOLEAN, Over(left)
  PROVE  Goal'
  <1> USE Names
  <1>1. /\ actions' = actions /\ scanned' = scanned /\ born' = born /\ epoch' = epoch
        /\ index' = index /\ result' = result /\ processed' = processed /\ stale' = stale
    BY DEF Over, attempt, chat, scanning
  <1>2. /\ pc'[Run] = "over"
        /\ \A q \in Procs : pc'[q] \in Inside => q = Scan /\ pc'[q] = pc[q]
    BY OverShape DEF Inv
  <1>3. Response' = Response /\ \A v : Success(v)' <=> Success(v)
    BY <1>1, SameProgram
  <1>4. HoldersSaw'
    BY <1>1, <1>2, <1>3 DEF Inv, HoldersSaw, HolderSaw, Seen, Msg
  <1>5. ResultTaken'
    BY <1>1, <1>3 DEF Inv, ResultTaken, Finished
  <1> QED
    BY <1>2, <1>4, <1>5 DEF Goal, GivenUpCanBeRetried, NotYetAttempted

\* The invariant holds when run() comes to its first await.
LEMMA InvInit == Init => Inv
  <1> SUFFICES ASSUME Init PROVE Inv
    OBVIOUS
  <1>1. \A p \in Procs : pc[p] \in Points \ Inside
    BY Names DEF Init, Points, Inside, Effects
  <1>2. pc \in [Procs -> Points] /\ pc[Scan] # "lock_wait"
    BY <1>1, Names, NamesAssumption DEF Init
  <1>3. Locked
    BY <1>1, <1>2, Names DEF Init, Locked, Typed, LockHeldInside
  <1>4. HoldersSaw
    BY <1>1, Names DEF HoldersSaw
  <1>5. ResultTaken /\ GivenUpCanBeRetried /\ NotYetAttempted
    BY DEF Init, ResultTaken, GivenUpCanBeRetried, NotYetAttempted
  <1> QED
    BY <1>3, <1>4, <1>5 DEF Inv

\* Every step preserves the invariant.
LEMMA InvStep ==
  ASSUME Inv, [Next]_vars
  PROVE  Inv'
  <1>1. Locked'
    BY LockedStep DEF Inv
  <1>2. Goal'
    <2>1. ASSUME \/ \E v \in Versions : Appear(v) \/ Deliver(v) \/ HandOver(v)
                 \/ Rescue \/ Read \/ ReadFails \/ ScanOver \/ UNCHANGED vars
          PROVE  Goal'
      BY <2>1, AsideShape, AsideFrame, AsideData DEF Inv
    <2>2. ASSUME NEW h \in Handlers, Acquire(h) \/ Choose(h) \/ Fails(h) PROVE Goal'
      BY <2>2, AcquireData, ChooseData
    <2>3. ASSUME NEW p \in Procs, FollowedUp(p) \/ FollowUpFails(p) PROVE Goal'
      BY <2>3, OtherData
    <2>4. ASSUME NEW p \in {Run, Retry}, Enter(p) \/ EntryDone(p) PROVE Goal'
      BY <2>4, Names, OtherData
    <2>5. CASE RetryGoesOn \/ RetryBreaks
      BY <2>5, Names, OtherData
    <2>6. CASE Complete \/ Abort
      <3>1. PICK left \in BOOLEAN : Over(left)
        BY <2>6, Zenon DEF Complete, Abort
      <3> QED
        BY <3>1, OverData
    <2> QED
      BY <2>1, <2>2, <2>3, <2>4, <2>5, <2>6 DEF Next
  <1> QED
    BY <1>1, <1>2 DEF Goal, Inv

\* The invariant holds in every reachable state, whatever is delivered late,
\* twice or not at all, and whoever times out or is cancelled.
THEOREM InvHolds == Spec => []Inv
  BY InvInit, InvStep, PTL DEF Spec

\* message_lock: one coroutine at a time handles a message or sends, and the
\* lock is free again however it ends.
THEOREM LockCorrect == Spec => []LockHeldInside
  BY InvHolds, PTL DEF Inv, Locked

\* clicked_versions and sent_captcha_versions: a message that was given up
\* can be tried again.
THEOREM RetriedCorrect == Spec => []GivenUpCanBeRetried
  BY InvHolds, PTL DEF Inv

\* A step of a coroutine, of those beside the lock, or the end.
Steps ==
    \/ Aside /\ Undisturbed
    \/ \E left \in BOOLEAN : Over(left)
    \/ \E h \in Handlers : (Acquire(h) \/ Choose(h) \/ Fails(h)) /\ Shape(h)
    \/ \E p \in Procs : /\ Shape(p)
                       /\ \/ FollowedUp(p) \/ FollowUpFails(p)
                          \/ p \in {Run, Retry} /\ (Enter(p) \/ EntryDone(p))
                          \/ p = Retry /\ (RetryGoesOn \/ RetryBreaks)

\* Every step is one of them.
LEMMA StepCases ==
  ASSUME Inv, [Next]_vars
  PROVE  Steps
  <1> USE Names
  <1>1. ASSUME \/ \E v \in Versions : Appear(v) \/ Deliver(v) \/ HandOver(v)
               \/ Rescue \/ Read \/ ReadFails \/ ScanOver \/ UNCHANGED vars
        PROVE  Steps
    BY <1>1, AsideShape, AsideFrame DEF Inv, Steps
  <1>2. ASSUME NEW h \in Handlers, Acquire(h) \/ Choose(h) \/ Fails(h) PROVE Steps
    BY <1>2, HandlerShape DEF Steps, Inv
  <1>3. ASSUME NEW p \in Procs, FollowedUp(p) \/ FollowUpFails(p) PROVE Steps
    BY <1>3, OtherShape DEF Steps, Inv
  <1>4. ASSUME NEW p \in {Run, Retry}, Enter(p) \/ EntryDone(p) PROVE Steps
    BY <1>4, OtherShape DEF Steps, Inv
  <1>5. CASE RetryGoesOn \/ RetryBreaks
    BY <1>5, OtherShape DEF Steps, Inv
  <1>6. CASE Complete \/ Abort
    BY <1>6, Zenon DEF Complete, Abort, Steps
  <1> QED
    BY <1>1, <1>2, <1>3, <1>4, <1>5, <1>6 DEF Next

\* What is inside in the next state was there before, or has just come.
LEMMA Insiders ==
  ASSUME Inv, Steps, NEW p \in Procs, pc'[p] \in Inside
  PROVE  pc'[p] = pc[p] \/ \E point \in Inside : Holds(p, point)
  <1>1. ASSUME NEW q \in Procs, Shape(q)
        PROVE  pc'[p] = pc[p] \/ \E point \in Inside : Holds(p, point)
    BY <1>1 DEF Shape, Released, Holds
  <1>2. CASE Aside
    BY <1>2 DEF Aside
  <1>3. ASSUME NEW left \in BOOLEAN, Over(left) PROVE pc'[p] = pc[p]
    BY <1>3, OverShape DEF Inv
  <1> QED
    BY <1>1, <1>2, <1>3, Names DEF Steps

\* Once there is a result, a handler keeps the lock for the AI fallback only,
\* or for a click that is under way.
LEMMA QuietHandler ==
  ASSUME Inv, Finished, NEW h \in Handlers, Acquire(h) \/ Choose(h) \/ Fails(h),
         lock' = h, h # Free
  PROVE  Stay(h, "asking") \/ Stay(h, "falling") \/ (pc[h] = "acting" /\ Stay(h, "acting"))
  <1>1. ASSUME NEW marked, NEW followed, Leave(h, marked, followed) PROVE FALSE
    BY <1>1 DEF Leave
  <1>2. ASSUME NEW marked, NEW followed, Quit(h, marked, followed) PROVE FALSE
    BY <1>1, <1>2 DEF Quit
  <1>3. ~Unhandled(h)
    BY <1>1, Zenon DEF Unhandled
  <1>4. ~Quit(h, {}, FALSE) /\ ~Quit(h, {Msg(h)}, FALSE) /\ ~Quit(h, {Msg(h)}, TRUE)
    BY <1>2, Zenon
  <1>5. ASSUME NEW r, NEW advance, r # "none", Handled(h, r, advance) PROVE FALSE
    BY <1>4, <1>5 DEF Handled
  <1>6. CASE Acquire(h)
    BY <1>4, <1>6 DEF Acquire
  <1>7. CASE Think(h)
    <2>1. Handled(h, result, TRUE)
      BY <1>7 DEF Think
    <2>2. \E r, advance : r # "none" /\ Handled(h, r, advance)
      BY <2>1, Zenon DEF Finished
    <2> QED
      BY <1>5, <2>2, Zenon
  <1>8. CASE NoAnswer(h) \/ Unconfirmed(h)
    BY <1>3, <1>8 DEF NoAnswer, Unconfirmed, FallThrough
  <1>9. CASE CaptchaUnusable(h) \/ CaptchaIsResult(h) \/ FellBack(h) \/ Breaks(h) \/ Fails(h)
    BY <1>4, <1>9 DEF CaptchaUnusable, CaptchaIsResult, FellBack, Breaks, Fails
  <1>10. CASE Confirmed(h)
    <2>1. PICK o \in Outcomes(Response[index] \in Clicks) :
               \E done \in {TRUE, Response[index] # "poetry"} :
                  Handled(h, IF o.text THEN "success" ELSE result, done)
      BY <1>10, Zenon DEF Confirmed
    <2>2. (IF o.text THEN "success" ELSE result) # "none"
      BY DEF Finished
    <2> QED
      BY <1>5, <2>1, <2>2, Zenon
  <1>11. CASE Decide(h)
    BY <1>3, <1>4, <1>11 DEF Decide
  <1>12. CASE FallbackUnconfirmed(h)
    BY <1>3, <1>12 DEF FallbackUnconfirmed
  <1>13. CASE PressAgain(h)
    BY <1>13 DEF PressAgain, Clicking
  <1> QED
    BY <1>6, <1>7, <1>8, <1>9, <1>10, <1>11, <1>12, <1>13 DEF Choose

\* The other coroutines go on with nothing.
LEMMA QuietOther ==
  ASSUME Finished, NEW p \in Procs,
         \/ FollowedUp(p) \/ FollowUpFails(p)
         \/ p \in {Run, Retry} /\ (Enter(p) \/ EntryDone(p))
         \/ p = Retry /\ (RetryGoesOn \/ RetryBreaks)
  PROVE  lock' = Free
  <1>1. CASE FollowedUp(p)
    BY <1>1 DEF FollowedUp, FollowUpNext, Quit, Leave
  <1>2. CASE FollowUpFails(p)
    BY <1>2 DEF FollowUpFails, Quit, Leave
  <1>3. ASSUME Drain(p) PROVE lock' = Free
    BY <1>3 DEF Drain, FollowUpNext, Leave
  <1>4. CASE p \in {Run, Retry} /\ (Enter(p) \/ EntryDone(p))
    BY <1>3, <1>4 DEF Enter, EntryDone, EntryAt
  <1>5. CASE p = Retry /\ RetryGoesOn
    BY <1>3, <1>5 DEF RetryGoesOn
  <1>6. CASE p = Retry /\ RetryBreaks
    BY <1>6 DEF RetryBreaks, Quit, Leave
  <1> QED
    BY <1>1, <1>2, <1>4, <1>5, <1>6

\* finished: nothing is begun once the result is known, except by the AI
\* fallback and by a click under way, which do not ask.
THEOREM QuietCorrect == Spec => QuietAfterResult
  <1>1. Inv /\ [Next]_vars =>
          [Finished => \A p \in Procs :
             Begins(p) => \/ pc'[p] = "falling"
                          \/ pc[p] = "acting" /\ pc'[p] = "acting"]_vars
    <2> DEFINE Unasked(q) == pc'[q] = "falling" \/ (pc[q] = "acting" /\ pc'[q] = "acting")
    <2> SUFFICES ASSUME Inv, [Next]_vars, Finished, NEW p \in Procs, Begins(p)
                 PROVE  Unasked(p)
      OBVIOUS
    <2> USE Names
    <2>1. pc'[p] \in Effects /\ pc'[p] \in Inside
      BY DEF Begins, Inside
    <2>2. ASSUME NEW q \in Procs, Shape(q), lock' # Free
          PROVE  lock' = q /\ p = q
      <3>1. PICK point \in Inside : Holds(q, point)
        BY <2>2 DEF Shape, Released
      <3>2. lock' = q
        BY <3>1 DEF Holds
      <3>3. p = q
        BY <2>1, <3>1 DEF Holds
      <3> QED
        BY <3>2, <3>3
    <2>3. LockHeldInside'
      BY LockedStep DEF Inv, Locked
    <2>4. lock' = p
      BY <2>1, <2>3 DEF LockHeldInside
    <2>5. ASSUME NEW h \in Handlers, Acquire(h) \/ Choose(h) \/ Fails(h), Shape(h)
          PROVE  Unasked(p)
      <3>1. p = h
        BY <2>2, <2>4, <2>5
      <3>2. Stay(h, "asking") \/ Stay(h, "falling") \/ (pc[h] = "acting" /\ Stay(h, "acting"))
        BY <2>4, <2>5, <3>1, QuietHandler
      <3> QED
        BY <2>1, <3>1, <3>2 DEF Stay, Moved, Effects
    <2>6. ASSUME NEW q \in Procs,
                 \/ FollowedUp(q) \/ FollowUpFails(q)
                 \/ q \in {Run, Retry} /\ (Enter(q) \/ EntryDone(q))
                 \/ q = Retry /\ (RetryGoesOn \/ RetryBreaks)
          PROVE  FALSE
      BY <2>4, <2>6, QuietOther
    <2>7. CASE Aside /\ Undisturbed
      BY <2>1, <2>7 DEF Begins, Aside, Undisturbed
    <2>8. ASSUME NEW left \in BOOLEAN, Over(left) PROVE FALSE
      BY <2>1, <2>8, OverShape DEF Inv, Begins, Over, attempt
    <2> QED
      BY <2>5, <2>6, <2>7, <2>8, StepCases DEF Steps
  <1> QED
    BY InvHolds, <1>1, PTL DEF Spec, QuietAfterResult

\* The steps beside the lock send nobody to rest who has looked at a message.
LEMMA AsideRest ==
  ASSUME Locked, NEW h \in Handlers, pc[h] \notin {"off", "reading"}, pc'[h] # pc[h],
         \/ \E v \in Versions : Appear(v) \/ Deliver(v) \/ HandOver(v)
         \/ Rescue \/ Read \/ ReadFails \/ ScanOver \/ UNCHANGED vars
  PROVE  pc'[h] # Rest(h)
  <1> USE Names DEF Locked, Typed
  <1>1. ASSUME NEW v \in Versions, Deliver(v) PROVE pc'[h] = pc[h]
    BY <1>1 DEF Deliver
  <1>2. ASSUME NEW v \in Versions, HandOver(v) PROVE h = Scan /\ pc'[h] = "lock_wait"
    BY <1>2 DEF HandOver
  <1>3. CASE ScanOver
    BY <1>3 DEF ScanOver, ScanEnds, AtStartup, Rest
  <1>4. CASE Rescue \/ Read \/ ReadFails
    BY <1>4 DEF Rescue, Read, ReadFails, ScanEnds, AtStartup
  <1>5. ASSUME NEW v \in Versions, Appear(v) PROVE FALSE
    BY <1>5 DEF Appear
  <1>6. ~UNCHANGED vars
    BY DEF vars
  <1> QED
    BY <1>1, <1>2, <1>3, <1>4, <1>5, <1>6 DEF Rest

\* _classify_text before and under the lock: whoever looks at a message with
\* the result ends with the result known.
THEOREM ResultCorrect == Spec => ResultNotMissed
  <1> DEFINE Missed(h) ==
        /\ pc[h] # "off" /\ pc'[h] = Rest(h) /\ pc[h] # pc'[h]
        /\ pc'[Run] # "over" /\ pc[h] # "reading"
        /\ RequiresResult /\ Msg(h) \in Result \ stale
  <1>1. Inv /\ [Next]_vars => [\A h \in Handlers : Missed(h) => result' # "none"]_vars
    <2> SUFFICES ASSUME Inv, [Next]_vars, NEW h \in Handlers, Missed(h), vars' # vars
                 PROVE  Finished'
      BY DEF Finished, vars
    <2> USE Names
    <2>1. /\ pc[h] # "off" /\ pc'[h] = Rest(h) /\ pc[h] # pc'[h]
          /\ pc'[Run] # "over" /\ pc[h] # "reading"
          /\ Success(Msg(h)) /\ Msg(h) \notin stale
      BY DEF Success
    <2> HIDE DEF Missed
    <2>2. pc[h] \in Inside => FALSE
      BY <2>1 DEF Inv, HoldersSaw, HolderSaw
    <2>3. ASSUME NEW q \in Procs, Shape(q), q # h PROVE FALSE
      BY <2>1, <2>3, NamesAssumption DEF Shape, Released, Holds, Handlers
    <2>4. ASSUME Acquire(h) PROVE Finished'
      <3>1. CASE Finished \/ Msg(h) \in Seen
        BY <2>1, <3>1, <2>4 DEF Acquire, attempt, Finished, Seen, Inv, ResultTaken, FinishAs
      <3>2. CASE FinishAs("success")
        BY <3>2 DEF FinishAs, Finished
      <3> QED
        BY <2>1, <2>4, <3>1, <3>2 DEF Acquire
    <2>5. ASSUME Choose(h) \/ Fails(h) PROVE FALSE
      BY <2>2, <2>5 DEF Choose, Fails, Think, NoAnswer, CaptchaUnusable, CaptchaIsResult,
           Confirmed, PressAgain, Clicking, Unconfirmed, Decide, FellBack, FallbackUnconfirmed, Breaks,
           Inside, Effects
    <2>6. ASSUME FollowedUp(h) \/ FollowUpFails(h) PROVE FALSE
      BY <2>2, <2>6 DEF FollowedUp, FollowUpFails, Inside, Effects
    <2>7. ASSUME \/ \E v \in Versions : Appear(v) \/ Deliver(v) \/ HandOver(v)
                 \/ Rescue \/ Read \/ ReadFails \/ ScanOver \/ UNCHANGED vars
          PROVE  FALSE
      BY <2>1, <2>7, AsideRest DEF Inv
    <2>8. ASSUME NEW left \in BOOLEAN, Over(left) PROVE FALSE
      BY <2>1, <2>8, OverShape DEF Inv
    <2>9. ASSUME NEW k \in Handlers, Acquire(k) \/ Choose(k) \/ Fails(k) PROVE Finished'
      <3>1. Shape(k)
        BY <2>9, HandlerShape DEF Inv
      <3> QED
        BY <2>3, <2>4, <2>5, <2>9, <3>1
    <2>10. ASSUME NEW p \in Procs,
                  \/ FollowedUp(p) \/ FollowUpFails(p)
                  \/ p \in {Run, Retry} /\ (Enter(p) \/ EntryDone(p))
                  \/ p = Retry /\ (RetryGoesOn \/ RetryBreaks)
           PROVE  FALSE
      <3>1. Shape(p)
        BY <2>10, OtherShape DEF Inv
      <3> QED
        BY <2>3, <2>6, <2>10, <3>1
    <2>11. ASSUME Complete \/ Abort PROVE FALSE
      BY <2>8, <2>11, Zenon DEF Complete, Abort
    <2> QED
      BY <2>7, <2>9, <2>10, <2>11 DEF Next
  <1> QED
    BY InvHolds, <1>1, PTL DEF Spec, ResultNotMissed

\* Nothing that needs no message is left to do.
Done(p) ==
    \/ Finished' \/ pc'[Retry] # "off"
    \/ index' \notin DOMAIN Response \/ Response[index'] \notin Immediate
    \/ p = Retry /\ index' = index

\* A handler that gives up the lock leaves nothing behind.
LEMMA HandlerDone ==
  ASSUME Inv, NEW h \in Handlers, Choose(h) \/ Fails(h), Released(h)
  PROVE  Done(h)
  <1> USE Names
  <1>1. ASSUME pc[h] \in {"thinking", "acting", "asking", "falling"}, index' = index
        PROVE  Done(h)
    <2>1. pc[h] \in Inside
      BY <1>1 DEF Inside, Effects
    <2> QED
      BY <1>1, <2>1, Holder DEF HolderSaw, Done
  <1>2. ASSUME ScheduleRetry, pc[h] \in {"thinking", "acting", "asking", "falling"}
        PROVE  Done(h)
    <2>1. epoch' # epoch => pc'[Retry] = "lock_wait"
      BY DEF Released
    <2>2. epoch' # epoch \/ index' = index
      BY <1>2, ScheduleFacts DEF Inv, Locked
    <2> QED
      BY <1>1, <1>2, <2>1, <2>2 DEF Done
  <1>3. ASSUME NEW r, NEW advance, Handled(h, r, advance), pc[h] \in {"thinking", "acting"}
        PROVE  Done(h)
    <2>1. CASE Stay(h, "follow")
      BY <2>1, <1>3 DEF Stay, Moved, Released, Inside, Effects
    <2>2. CASE index' = index
      BY <1>1, <1>3, <2>2
    <2> QED
      BY <1>3, <2>1, <2>2 DEF Handled, Done
  <1>4. CASE Think(h)
    <2>1. CASE Handled(h, result, TRUE)
      <3>1. \E r, advance : Handled(h, r, advance)
        BY <2>1, Zenon
      <3> QED
        BY <1>3, <1>4, <3>1 DEF Think
    <2>2. CASE attempt' = attempt
      BY <1>1, <1>4, <2>2 DEF Think, attempt
    <2> QED
      BY <1>4, <2>1, <2>2 DEF Think
  <1>5. CASE \/ NoAnswer(h) \/ Unconfirmed(h) \/ FallbackUnconfirmed(h) \/ Decide(h)
             \/ PressAgain(h)
    BY <1>1, <1>5 DEF PressAgain, Clicking, NoAnswer, Unconfirmed, FallbackUnconfirmed, Decide, FallThrough, attempt
  <1>6. CASE CaptchaUnusable(h) \/ Fails(h)
    BY <1>2, <1>6 DEF CaptchaUnusable, Fails
  <1>7. CASE CaptchaIsResult(h) \/ Breaks(h)
    BY <1>7 DEF CaptchaIsResult, Breaks, FinishAs, Finished, Done
  <1>8. CASE FellBack(h)
    BY <1>1, <1>8 DEF FellBack
  <1>9. CASE Confirmed(h)
    <2>1. \E r, advance : Handled(h, r, advance)
      BY <1>9, Zenon DEF Confirmed
    <2> QED
      BY <1>3, <1>9, <2>1 DEF Confirmed
  <1> QED
    BY <1>4, <1>5, <1>6, <1>7, <1>8, <1>9 DEF Choose

\* Nor do the other coroutines.
LEMMA OtherDone ==
  ASSUME Inv, NEW p \in Procs, Released(p), lock = p,
         \/ FollowedUp(p) \/ FollowUpFails(p)
         \/ p \in {Run, Retry} /\ (Enter(p) \/ EntryDone(p))
         \/ p = Retry /\ (RetryGoesOn \/ RetryBreaks)
  PROVE  Done(p)
  <1> USE Names
  <1>1. p # Retry /\ RetryPending => pc'[Retry] # "off"
    BY DEF Released, RetryPending
  <1>2. CASE FollowedUp(p)
    <2>1. CASE Stay(p, "follow")
      BY <2>1 DEF Stay, Moved, Released, Inside, Effects
    <2>2. CASE ~FollowUpNext(p, index') /\ (Finished => Finished')
      BY <1>1, <2>2 DEF FollowUpNext, Done
    <2> QED
      BY <1>2, <2>1, <2>2 DEF FollowedUp, Finished
  <1>3. CASE FollowUpFails(p)
    <2>1. ScheduleRetry /\ pc[p] = "follow"
      BY <1>3 DEF FollowUpFails
    <2>2. CASE p = Retry
      BY <2>1, <2>2 DEF ScheduleRetry, RetryPending, attempt, Done
    <2>3. CASE p # Retry
      <3>1. epoch' # epoch => pc'[Retry] = "lock_wait"
        BY <2>3 DEF Released
      <3>2. Finished \/ RetryPending \/ epoch' # epoch \/ Finished'
        BY <2>1, ScheduleFacts DEF Inv, Locked
      <3>3. Finished => Finished'
        BY <2>1, ScheduleFacts DEF Inv, Locked, Finished
      <3> QED
        BY <1>1, <2>3, <3>1, <3>2, <3>3 DEF Done
    <2> QED
      BY <2>2, <2>3
  <1>4. ASSUME Drain(p) PROVE Done(p)
    <2>1. ~FollowUpNext(p, index) /\ index' = index /\ (Finished => Finished')
      BY <1>4 DEF Drain, Released, Finished
    <2> QED
      BY <1>1, <2>1 DEF FollowUpNext, Done
  <1>5. CASE p \in {Run, Retry} /\ Enter(p)
    BY <1>5 DEF Enter
  <1>6. CASE p \in {Run, Retry} /\ EntryDone(p)
    BY <1>4, <1>6 DEF EntryDone, EntryAt, Released
  <1>7. CASE p = Retry /\ RetryGoesOn
    <2>1. CASE Stay(p, "entry")
      BY <2>1 DEF Stay, Moved, Released, Inside, Effects
    <2> QED
      BY <1>4, <1>7, <2>1 DEF RetryGoesOn
  <1>8. CASE p = Retry /\ RetryBreaks
    BY <1>8 DEF RetryBreaks, FinishAs, Finished, Done
  <1> QED
    BY <1>2, <1>3, <1>5, <1>6, <1>7, <1>8

\* _drain_immediate_response_actions: actions that wait for no message are
\* not left behind.
THEOREM FollowUpsCorrect == Spec => FollowUpsDone
  <1> DEFINE LeftNothing ==
        (lock # Free /\ lock' = Free /\ pc'[Run] # "over") =>
           \/ result' # "none" \/ pc'[Retry] # "off"
           \/ index' \notin DOMAIN Response \/ Response[index'] \notin Immediate
           \/ lock = Retry /\ index' = index
  <1>1. Inv /\ [Next]_vars => [LeftNothing]_vars
    <2> SUFFICES ASSUME Inv, [Next]_vars, lock # Free, lock' = Free, pc'[Run] # "over"
                 PROVE  Done(lock)
      BY DEF Done, Finished
    <2> USE Names
    <2>1. ASSUME NEW p \in Procs, Shape(p), pc[p] \in Inside \/ lock = Free
          PROVE  lock = p /\ Released(p)
      BY <2>1 DEF Shape, Holds, Inv, Locked, LockHeldInside
    <2>2. ASSUME NEW h \in Handlers, Acquire(h) \/ Choose(h) \/ Fails(h), Shape(h)
          PROVE  Done(lock)
      <3>1. Choose(h) \/ Fails(h)
        BY <2>2 DEF Acquire
      <3>2. pc[h] \in Inside
        BY <3>1 DEF Choose, Fails, Think, NoAnswer, CaptchaUnusable, CaptchaIsResult,
           Confirmed, PressAgain, Clicking, Unconfirmed, Decide, FellBack, FallbackUnconfirmed, Breaks,
           Inside, Effects
      <3> QED
        BY <2>1, <2>2, <3>1, <3>2, HandlerDone
    <2>3. ASSUME NEW q \in Procs, Shape(q),
                 \/ FollowedUp(q) \/ FollowUpFails(q)
                 \/ q \in {Run, Retry} /\ (Enter(q) \/ EntryDone(q))
                 \/ q = Retry /\ (RetryGoesOn \/ RetryBreaks)
          PROVE  Done(lock)
      <3>1. pc[q] \in Inside
        BY <2>3 DEF FollowedUp, FollowUpFails, Enter, EntryDone, RetryGoesOn, RetryBreaks,
                   Inside, Effects
      <3> QED
        BY <2>1, <2>3, <3>1, OtherDone
    <2>4. CASE Aside
      BY <2>4 DEF Aside
    <2>5. ASSUME NEW left \in BOOLEAN, Over(left) PROVE FALSE
      BY <2>5, OverShape DEF Inv
    <2> QED
      BY <2>2, <2>3, <2>4, <2>5, StepCases DEF Steps
  <1> QED
    BY InvHolds, <1>1, PTL DEF Spec, FollowUpsDone

-----------------------------------------------------------------------------

\* The run is over, with an action left that waits for no message: a scan
\* that is left behind finds nothing to do.
LeftBehind ==
    /\ pc[Run] = "over" /\ pc[Retry] = "off"
    /\ \A p \in Procs : pc[p] # "follow"
    /\ Current(Immediate)

\* The message v was handled, and what comes after it is being done.
Following(v) == \E h \in Handlers : pc[h] = "follow" /\ Msg(h) = v

\* Whoever works on a message is the first to act on it, since a message that
\* was acted on is marked, or will be by the one who has the lock.
Acts ==
    /\ acted \in [Versions -> Nat]
    /\ \A v \in Versions : acted[v] <= 1
    /\ \A h \in Handlers : AtWork(h) => acted[Msg(h)] = 0
    /\ \A p \in Procs : pc[p] = "follow" => Current(Immediate)
    /\ Finished \/ \A v \in Versions \ Seen : acted[v] > 0 => Following(v) \/ LeftBehind

\* What a step of p does that acts on the messages in S.
ActStep(p, S) ==
    /\ Acted(S) /\ (Finished => Finished')
    /\ S # {} => S = {Msg(p)} /\ p \in Handlers /\ AtWork(p) /\ epoch' = epoch
    /\ epoch' = epoch => Seen \subseteq Seen' /\ (p # Retry => pc'[Retry] = pc[Retry])
    /\ p \in Handlers /\ lock' = Free /\ (S # {} \/ pc[p] = "follow")
          => Finished' \/ Msg(p) \in Seen'
    /\ pc'[p] = "follow" => index' \in DOMAIN Response /\ Response[index'] \in Immediate
    /\ lock' # Free => S = {} \/ pc'[p] = "follow"
    /\ p \in Handlers /\ lock' = p
          => epoch' = epoch /\ (pc'[p] = "follow" \/ (AtWork(p)' /\ acted[Msg(p)] = 0))
    /\ p \in Handlers /\ pc[p] = "lock_wait" => index' = index /\ pc'[p] # "follow"
    /\ p \in Handlers => pc[p] \in {"lock_wait", "follow"} \/ AtWork(p)
    /\ p = Retry => pc[p] # "off"

\* The coroutine is one that takes such a step.
Works(p) ==
    /\ p \in Handlers => pc[p] \in {"lock_wait", "follow"} \/ AtWork(p)
    /\ p = Retry => pc[p] # "off"

\* Who works has the lock.
LEMMA AtWorkInside ==
  ASSUME NEW h \in Handlers, AtWork(h)
  PROVE  pc[h] \in Inside /\ pc[h] \notin {"lock_wait", "follow", "off"}
  BY DEF AtWork, Inside, Effects

\* Nothing was acted on.
LEMMA SameActs ==
  ASSUME Acts, acted' = acted, epoch' = epoch
  PROVE  Acted({})
  <1>1. acted = [v \in Versions |-> acted[v]] /\ \A v \in Versions : acted[v] \in Nat
    BY DEF Acts
  <1>2. \A v \in Versions : acted[v] + 0 = acted[v]
    BY <1>1
  <1>3. [v \in Versions |-> (IF epoch' = epoch \/ v \in stale' THEN acted[v] ELSE 0)
                            + (IF v \in {} THEN 1 ELSE 0)]
        = [v \in Versions |-> acted[v]]
    BY <1>2
  <1> QED
    BY <1>1, <1>3 DEF Acted

\* p leaves the lock, and has marked what it acted on.
LEMMA LeaveActs ==
  ASSUME Acts, NEW p \in Procs, NEW S, NEW marked, NEW followed,
         Leave(p, marked, followed), Works(p), Acted(S), Finished => Finished',
         S # {} => S = {Msg(p)} /\ p \in Handlers /\ AtWork(p) /\ epoch' = epoch,
         p \in Handlers /\ (S # {} \/ pc[p] = "follow") => Finished' \/ Msg(p) \in marked,
         p \in Handlers /\ pc[p] = "lock_wait" => index' = index,
         pc \in [Procs -> Points]
  PROVE  ActStep(p, S)
  <1> USE Names
  <1>1. pc' = [q \in Procs |-> IF q = p THEN Rest(p)
                               ELSE IF q = Retry /\ epoch' # epoch THEN "lock_wait"
                               ELSE pc[q]]
        /\ lock' = Free
    BY DEF Leave, Moved
  <1>2. pc'[p] = Rest(p) /\ Rest(p) # "follow"
    BY <1>1, RestOut DEF Inside, Effects
  <1>3. marked \subseteq Seen' /\ (epoch' = epoch => Seen \subseteq Seen')
    BY DEF Leave, Kept, Seen
  <1>4. epoch' = epoch /\ p # Retry => pc'[Retry] = pc[Retry]
    BY <1>1
  <1> QED
    BY <1>1, <1>2, <1>3, <1>4 DEF ActStep, Works

\* p keeps the lock, and goes on with its message or with what follows.
LEMMA StayActs ==
  ASSUME Acts, NEW p \in Procs, NEW S, NEW point, Stay(p, point), Works(p), Acted(S),
         Finished => Finished', pc[p] \in Inside, epoch' = epoch,
         S # {} => S = {Msg(p)} /\ p \in Handlers /\ AtWork(p) /\ point = "follow",
         point = "follow" => index' \in DOMAIN Response /\ Response[index'] \in Immediate,
         p \in Handlers /\ point # "follow" =>
             AtWork(p) /\ point \in {"thinking", "acting", "asking", "falling"},
         pc \in [Procs -> Points], lock = p
  PROVE  ActStep(p, S)
  <1> USE Names
  <1>1. pc' = [q \in Procs |-> IF q = p THEN point ELSE pc[q]]
    BY DEF Stay, Moved
  <1>2. pc'[p] = point /\ lock' = p /\ pc[p] # "lock_wait" /\ Seen' = Seen
    BY <1>1 DEF Stay, Inside, Effects, Seen
  <1>3. p # Retry => pc'[Retry] = pc[Retry]
    BY <1>1
  <1>4. p \in Handlers /\ point # "follow" => AtWork(p)' /\ acted[Msg(p)] = 0
    BY <1>2 DEF AtWork, Acts
  <1> QED
    BY <1>2, <1>3, <1>4 DEF ActStep, Works

\* A handler that does nothing leaves the lock.
LEMMA UnhandledActs ==
  ASSUME Inv, Acts, NEW h \in Handlers, Unhandled(h), Works(h), pc[h] # "follow",
         acted' = acted, attempt' = attempt
  PROVE  ActStep(h, {})
  <1>1. epoch' = epoch /\ index' = index /\ (Finished => Finished')
    BY DEF attempt, Finished
  <1>2. ASSUME NEW marked, NEW followed, Leave(h, marked, followed) PROVE ActStep(h, {})
    BY <1>1, <1>2, SameActs, LeaveActs, Names DEF Inv, Locked, Typed
  <1> QED
    BY <1>2, Zenon DEF Unhandled

\* So does one whose action came to nothing, unless it asks the AI.
LEMMA FallThroughActs ==
  ASSUME Inv, Acts, NEW h \in Handlers, FallThrough(h), AtWork(h), acted' = acted
  PROVE  ActStep(h, {})
  <1>1. attempt' = attempt /\ Works(h) /\ h \in Procs
    BY Names DEF FallThrough, Works
  <1>2. epoch' = epoch /\ (Finished => Finished')
    BY <1>1 DEF attempt, Finished
  <1>3. CASE Unhandled(h)
    BY <1>1, <1>3, UnhandledActs, AtWorkInside
  <1>4. CASE Stay(h, "asking")
    BY <1>1, <1>2, <1>4, SameActs, StayActs, AtWorkInside, Holder DEF Inv, Locked, Typed
  <1> QED
    BY <1>3, <1>4 DEF FallThrough

\* A handler that is through marks its message, or does what follows first.
LEMMA HandledActs ==
  ASSUME Inv, Acts, NEW h \in Handlers, NEW S, NEW r, NEW advance, Handled(h, r, advance),
         AtWork(h), Acted(S), S \subseteq {Msg(h)}, Finished => r # "none"
  PROVE  ActStep(h, S)
  <1>1. epoch' = epoch /\ (Finished => Finished') /\ Works(h) /\ h \in Procs /\ pc[h] \in Inside
    BY Names, AtWorkInside DEF Handled, Finished, Works
  <1>2. lock = h /\ pc \in [Procs -> Points] /\ pc[h] \notin {"lock_wait", "follow"}
    BY <1>1, Holder, AtWorkInside DEF Inv, Locked, Typed
  <1>3. S # {} => S = {Msg(h)}
    OBVIOUS
  <1>4. CASE Quit(h, {Msg(h)}, TRUE)
    BY <1>1, <1>2, <1>3, <1>4, LeaveActs DEF Quit
  <1>5. CASE /\ Stay(h, "follow")
             /\ index' \in DOMAIN Response /\ Response[index'] \in Immediate
    BY <1>1, <1>2, <1>3, <1>5, StayActs
  <1> QED
    BY <1>4, <1>5 DEF Handled

\* A handler that begins is the first: nobody does what follows while the
\* lock is free, and a scan that is left behind has nothing to begin with.
LEMMA AcquireActs ==
  ASSUME Inv, Acts, NEW h \in Handlers, Acquire(h)
  PROVE  ActStep(h, {})
  <1> USE Names
  <1>1. /\ lock = Free /\ pc[h] = "lock_wait" /\ h \in Procs /\ Works(h)
        /\ pc \in [Procs -> Points]
    BY DEF Acquire, Works, Inv, Locked, Typed
  <1>2. Msg(h) \in Versions
    BY <1>1 DEF Inv, Locked, Typed, Msg, Handlers
  <1>3. ASSUME NEW marked, NEW followed, Quit(h, marked, followed), acted' = acted,
               epoch' = epoch, index' = index, Finished => Finished'
        PROVE  ActStep(h, {})
    BY <1>1, <1>3, SameActs, LeaveActs DEF Quit
  <1>4. CASE attempt' = attempt /\ acted' = acted /\ Quit(h, {}, FALSE)
    <2>1. epoch' = epoch /\ index' = index /\ (Finished => Finished')
      BY <1>4 DEF attempt, Finished
    <2> QED
      BY <1>3, <1>4, <2>1, Zenon
  <1>5. CASE /\ FinishAs("success") /\ epoch' = epoch /\ index' = index /\ acted' = acted
             /\ Quit(h, {Msg(h)}, FALSE)
    <2>1. Finished => Finished'
      BY <1>5 DEF FinishAs, Finished
    <2> QED
      BY <1>3, <1>5, <2>1, Zenon
  <1>6. CASE /\ attempt' = attempt /\ ~Finished /\ Msg(h) \notin Seen
             /\ React(h, Msg(h))
    <2>1. epoch' = epoch /\ index' = index /\ (Finished => Finished')
      BY <1>6 DEF attempt, Finished
    <2>2. ASSUME ~Current(Immediate), NEW point \in {"acting", "thinking", "asking"},
                 NEW guarded, Begin(h, point, guarded)
          PROVE  ActStep(h, {})
      <3>1. ~Following(Msg(h))
        BY <1>1 DEF Following, Inv, Locked, LockHeldInside, Inside, Effects
      <3>2. acted[Msg(h)] = 0
        BY <1>2, <1>6, <2>2, <3>1 DEF Acts, LeftBehind
      <3>3. pc' = [q \in Procs |-> IF q = h THEN point ELSE pc[q]] /\ lock' = h
            /\ acted' = acted /\ Seen' = Seen
        BY <2>1, <2>2 DEF Begin, Moved, Seen
      <3>4. pc'[h] = point /\ pc'[Retry] = pc[Retry] /\ AtWork(h)'
        BY <1>1, <3>3 DEF AtWork
      <3> QED
        BY <1>1, <2>1, <2>2, <3>2, <3>3, <3>4, SameActs DEF ActStep, Works
    <2>3. CanAct(Msg(h)) => ~Current(Immediate)
      <3>1. Offers[Msg(h)] \subseteq Replies \cup Clicks
        BY <1>2, MessagesAssumption
      <3> QED
        BY <3>1 DEF CanAct, Current, Replies, Clicks, Immediate
    <2>4. CanAsk => ~Current(Immediate)
      BY DEF CanAsk, Current
    <2>5. CASE CanAct(Msg(h)) /\ \E point \in {"acting", "thinking"} : \E guarded : Begin(h, point, guarded)
      BY <2>2, <2>3, <2>5
    <2>6. CASE CanAsk /\ Begin(h, "asking", {})
      BY <2>2, <2>4, <2>6
    <2>7. CASE Unhandled(h) /\ acted' = acted
      BY <1>1, <1>6, <2>7, UnhandledActs
    <2> QED
      BY <1>6, <2>5, <2>6, <2>7 DEF React
  <1> QED
    BY <1>4, <1>5, <1>6 DEF Acquire

\* Every step of a handler marks what it acts on.
LEMMA HandlerActs ==
  ASSUME Inv, Acts, NEW h \in Handlers, Acquire(h) \/ Choose(h) \/ Fails(h)
  PROVE  ActStep(h, {}) \/ ActStep(h, {Msg(h)})
  <1> USE Names
  <1>0. h \in Procs /\ pc \in [Procs -> Points] /\ (AtWork(h) => Works(h) /\ lock = h)
    BY Holder, AtWorkInside DEF Works, Inv, Locked, Typed
  <1>1. ASSUME NEW S \in {{}, {Msg(h)}}, NEW marked, NEW followed, Quit(h, marked, followed),
               AtWork(h), Acted(S), Finished => Finished',
               S # {} => epoch' = epoch /\ (Finished' \/ Msg(h) \in marked)
        PROVE  ActStep(h, S)
    BY <1>0, <1>1, LeaveActs, AtWorkInside DEF Quit
  <1>2. ASSUME NEW point \in {"acting", "falling"}, Stay(h, point), AtWork(h),
               acted' = acted, attempt' = attempt
        PROVE  ActStep(h, {})
    <2>1. epoch' = epoch /\ (Finished => Finished')
      BY <1>2 DEF attempt, Finished
    <2> QED
      BY <1>0, <1>2, <2>1, SameActs, StayActs, AtWorkInside
  <1>3. CASE Acquire(h)
    BY <1>3, AcquireActs
  <1>4. CASE Think(h)
    <2>1. AtWork(h)
      BY <1>4 DEF Think, AtWork
    <2>2. CASE Finished /\ acted' = acted /\ Handled(h, result, TRUE)
      <3>1. Acted({})
        BY <2>2, SameActs DEF Handled
      <3>2. \E r, advance : r # "none" /\ Handled(h, r, advance)
        BY <2>2, Zenon DEF Finished
      <3> QED
        BY <2>1, <3>1, <3>2, HandledActs
    <2>3. CASE Stay(h, "acting") /\ acted' = acted /\ attempt' = attempt
      BY <1>2, <2>1, <2>3
    <2> QED
      BY <1>4, <2>2, <2>3 DEF Think
  <1>5. CASE NoAnswer(h) \/ Unconfirmed(h)
    <2>1. AtWork(h) /\ FallThrough(h) /\ acted' = acted
      BY <1>5 DEF NoAnswer, Unconfirmed, AtWork
    <2> QED
      BY <2>1, FallThroughActs
  <1>6. CASE CaptchaUnusable(h) \/ Fails(h)
    <2>1. AtWork(h) /\ ScheduleRetry /\ Acted({})
      BY <1>6 DEF CaptchaUnusable, Fails, AtWork
    <2>2. Finished => Finished'
      BY <2>1, ScheduleFacts DEF Inv, Locked, Finished
    <2>3. \E marked, followed : Quit(h, marked, followed)
      BY <1>6, Zenon DEF CaptchaUnusable, Fails
    <2> QED
      BY <1>1, <2>1, <2>2, <2>3
  <1>7. CASE CaptchaIsResult(h) \/ (Breaks(h) /\ AtWork(h))
    <2>1. AtWork(h) /\ Finished' /\ acted' = acted /\ epoch' = epoch
      BY <1>7 DEF CaptchaIsResult, Breaks, AtWork, FinishAs, Finished
    <2>2. \E marked, followed : Quit(h, marked, followed)
      BY <1>7, Zenon DEF CaptchaIsResult, Breaks
    <2> QED
      BY <1>1, <2>1, <2>2, SameActs
  <1>8. CASE Breaks(h) /\ pc[h] = "follow"
    <2>1. Finished' /\ acted' = acted /\ epoch' = epoch /\ Works(h)
      BY <1>8 DEF Breaks, FinishAs, Finished, Works
    <2>2. \E marked, followed : Leave(h, marked, followed)
      BY <1>8, Zenon DEF Breaks, Quit
    <2> QED
      BY <1>0, <1>8, <2>1, <2>2, SameActs, LeaveActs
  <1>9. CASE Confirmed(h)
    <2>1. AtWork(h) /\ Acted({Msg(h)})
      BY <1>9 DEF Confirmed, AtWork
    <2>2. PICK o \in Outcomes(Response[index] \in Clicks) :
               \E done \in {TRUE, Response[index] # "poetry"} :
                  Handled(h, IF o.text THEN "success" ELSE result, done)
      BY <1>9, Zenon DEF Confirmed
    <2>3. Finished => (IF o.text THEN "success" ELSE result) # "none"
      BY DEF Finished
    <2>4. ASSUME NEW r, NEW advance, Handled(h, r, advance), Finished => r # "none"
          PROVE  ActStep(h, {Msg(h)})
      BY <2>1, <2>4, HandledActs
    <2> QED
      BY <2>2, <2>3, <2>4, Zenon
  <1>10. CASE PressAgain(h)
    <2>1. /\ pc[h] \in {"acting", "falling"} /\ AtWork(h) /\ Stay(h, pc[h])
          /\ acted' = acted /\ attempt' = attempt
      BY <1>10 DEF PressAgain, Clicking, AtWork
    <2> QED
      BY <1>2, <2>1
  <1>11. CASE Decide(h)
    <2>1. /\ AtWork(h) /\ Works(h) /\ pc[h] # "follow" /\ attempt' = attempt
          /\ epoch' = epoch /\ (Finished => Finished')
      BY <1>0, <1>11 DEF Decide, AtWork, attempt, Finished
    <2>2. CASE Stay(h, "falling") /\ acted' = acted
      BY <1>2, <2>1, <2>2
    <2>3. CASE Quit(h, {Msg(h)}, FALSE) /\ Acted({Msg(h)})
      <3>1. ASSUME NEW marked, NEW followed, marked = {Msg(h)}, Quit(h, marked, followed)
            PROVE  ActStep(h, {Msg(h)})
        BY <1>1, <2>1, <2>3, <3>1
      <3> QED
        BY <2>3, <3>1, Zenon
    <2>4. CASE Unhandled(h) /\ acted' = acted
      BY <2>1, <2>4, UnhandledActs
    <2> QED
      BY <1>11, <2>2, <2>3, <2>4 DEF Decide
  <1>12. CASE FellBack(h)
    <2>1. AtWork(h) /\ Acted({Msg(h)}) /\ epoch' = epoch /\ Quit(h, {Msg(h)}, FALSE)
          /\ (Finished => Finished')
      BY <1>12 DEF FellBack, AtWork, Finished
    <2>2. ASSUME NEW marked, NEW followed, marked = {Msg(h)}, Quit(h, marked, followed)
          PROVE  ActStep(h, {Msg(h)})
      BY <1>1, <2>1, <2>2
    <2> QED
      BY <2>1, <2>2, Zenon
  <1>13. CASE FallbackUnconfirmed(h)
    <2>1. AtWork(h) /\ pc[h] # "follow" /\ Unhandled(h) /\ acted' = acted /\ attempt' = attempt
      BY <1>13 DEF FallbackUnconfirmed, AtWork
    <2> QED
      BY <1>0, <2>1, UnhandledActs
  <1>14. Breaks(h) => AtWork(h) \/ pc[h] = "follow"
    BY DEF Breaks, AtWork
  <1> QED
    BY <1>3, <1>4, <1>5, <1>6, <1>7, <1>8, <1>9, <1>10, <1>11, <1>12, <1>13, <1>14 DEF Choose

\* Going on to what waits for no message acts on none.
LEMMA DrainActs ==
  ASSUME Inv, Acts, NEW p \in {Run, Retry}, Drain(p), Works(p)
  PROVE  ActStep(p, {})
  <1> USE Names
  <1>0. p \in Procs /\ p \notin Handlers /\ pc \in [Procs -> Points]
    BY DEF Inv, Locked, Typed
  <1>1. epoch' = epoch /\ acted' = acted /\ (Finished => Finished') /\ Acted({})
    BY SameActs DEF Drain, attempt, Finished
  <1>2. CASE FollowUpNext(p, index)
    <2>1. pc' = [q \in Procs |-> IF q = p THEN "follow" ELSE pc[q]]
          /\ index' = index /\ Seen' = Seen
      BY <1>1, <1>2 DEF Drain, Moved, attempt, Seen
    <2>2. p # Retry => pc'[Retry] = pc[Retry]
      BY <2>1
    <2> QED
      BY <1>0, <1>1, <1>2, <2>1, <2>2 DEF ActStep, Works, FollowUpNext
  <1>3. CASE ~FollowUpNext(p, index)
    <2>1. \E marked, followed : Leave(p, marked, followed)
      BY <1>3, Zenon DEF Drain
    <2> QED
      BY <1>0, <1>1, <2>1, LeaveActs
  <1> QED
    BY <1>2, <1>3

\* Nor does an entry action.
LEMMA EntryActs ==
  ASSUME Inv, Acts, NEW p \in {Run, Retry}, NEW n, EntryAt(p, n), Works(p)
  PROVE  ActStep(p, {})
  <1> USE Names
  <1>1. CASE n \in DOMAIN Entry /\ ~Finished
    <2>1. PICK point \in {"retry_wait", "entry"} :
            pc' = [q \in Procs |-> IF q = p THEN point ELSE pc[q]]
      BY <1>1 DEF EntryAt, Moved, attempt
    <2>2. /\ epoch' = epoch /\ acted' = acted /\ Seen' = Seen /\ ~Finished
      BY <1>1 DEF EntryAt, attempt, marks, Seen
    <2>3. pc'[p] = point /\ (p # Retry => pc'[Retry] = pc[Retry])
      BY <2>1
    <2> QED
      BY <2>2, <2>3, SameActs DEF ActStep, Works
  <1>2. CASE Drain(p)
    BY <1>2, DrainActs
  <1> QED
    BY <1>1, <1>2 DEF EntryAt

\* Nor do the others; who does the last of what follows marks its message.
LEMMA OtherActs ==
  ASSUME Inv, Acts, NEW p \in Procs,
         \/ FollowedUp(p) \/ FollowUpFails(p)
         \/ p \in {Run, Retry} /\ (Enter(p) \/ EntryDone(p))
         \/ p = Retry /\ (RetryGoesOn \/ RetryBreaks)
  PROVE  ActStep(p, {})
  <1> USE Names
  <1>0. pc \in [Procs -> Points] /\ (p \in Handlers => Msg(p) \in Marked(p))
    BY DEF Inv, Locked, Typed, Marked
  <1>1. CASE FollowedUp(p)
    <2>1. pc[p] = "follow" /\ pc[p] \in Inside /\ lock = p /\ Works(p)
      BY <1>1, Holder DEF FollowedUp, Inside, Effects, Works
    <2>2. epoch' = epoch /\ acted' = acted /\ Acted({}) /\ (Finished => Finished')
      BY <1>1, SameActs DEF FollowedUp, Finished
    <2>3. CASE Stay(p, "follow") /\ FollowUpNext(p, index')
      BY <1>0, <2>1, <2>2, <2>3, StayActs DEF FollowUpNext
    <2>4. CASE Quit(p, Marked(p), TRUE)
      BY <1>0, <2>1, <2>2, <2>4, LeaveActs DEF Quit
    <2> QED
      BY <1>1, <2>3, <2>4 DEF FollowedUp
  <1>2. CASE FollowUpFails(p)
    <2>1. pc[p] = "follow" /\ Works(p) /\ ScheduleRetry /\ Acted({}) /\ Leave(p, Marked(p), TRUE)
      BY <1>2 DEF FollowUpFails, Works, Quit
    <2>2. Finished => Finished'
      BY <2>1, ScheduleFacts DEF Inv, Locked, Finished
    <2> QED
      BY <1>0, <2>1, <2>2, LeaveActs
  <1>3. CASE p \in {Run, Retry} /\ Enter(p)
    BY <1>3, EntryActs DEF Enter, Works
  <1>4. CASE p \in {Run, Retry} /\ EntryDone(p)
    BY <1>4, EntryActs DEF EntryDone, Works
  <1>5. CASE p = Retry /\ RetryGoesOn
    <2>1. pc[p] = "retry_wait" /\ pc[p] \in Inside /\ lock = p /\ Works(p)
      BY <1>5, Holder DEF RetryGoesOn, Inside, Works
    <2>2. CASE Stay(p, "entry") /\ attempt' = attempt /\ acted' = acted
      <3>1. epoch' = epoch /\ (Finished => Finished')
        BY <2>2 DEF attempt, Finished
      <3> QED
        BY <1>0, <1>5, <2>1, <2>2, <3>1, SameActs, StayActs
    <2>3. CASE Drain(p)
      BY <1>5, <2>1, <2>3, DrainActs
    <2> QED
      BY <1>5, <2>2, <2>3 DEF RetryGoesOn
  <1>6. CASE p = Retry /\ RetryBreaks
    <2>1. /\ Works(p) /\ epoch' = epoch /\ acted' = acted /\ (Finished => Finished')
          /\ p \notin Handlers
      BY <1>6 DEF RetryBreaks, Works, FinishAs, Finished
    <2>2. \E marked, followed : Leave(p, marked, followed)
      BY <1>6, Zenon DEF RetryBreaks, Quit
    <2> QED
      BY <1>0, <2>1, <2>2, SameActs, LeaveActs
  <1> QED
    BY <1>1, <1>2, <1>3, <1>4, <1>5, <1>6

\* Such a step preserves the invariant: what was acted on in this attempt is
\* marked when the lock is given up, and is what follows it until then.
LEMMA ActsKept ==
  ASSUME Inv, Acts, NEW p \in Procs, NEW S, Shape(p), Frame, ActStep(p, S)
  PROVE  Acts'
  <1> USE Names
  <1>1. Response' = Response /\ \A h \in Handlers : Msg(h)' = Msg(h)
    BY SameProgram DEF Frame, Msg
  <1>2. \A q \in Procs \ {p} : pc'[q] \in Inside => FALSE
    BY DEF Shape, Released, Holds
  <1>3. acted' = [v \in Versions |->
                   (IF epoch' = epoch \/ v \in stale' THEN acted[v] ELSE 0)
                   + (IF v \in S THEN 1 ELSE 0)]
    BY DEF ActStep, Acted
  <1>4. \A v \in Versions : acted[v] \in Nat /\ acted[v] <= 1 /\ (v \in S => acted[v] = 0)
    BY DEF Acts, ActStep
  <1>5. acted' \in [Versions -> Nat] /\ \A v \in Versions : acted'[v] <= 1
    BY <1>3, <1>4
  <1>6. \A h \in Handlers : AtWork(h)' => acted'[Msg(h)'] = 0
    <2> SUFFICES ASSUME NEW h \in Handlers, AtWork(h)' PROVE acted'[Msg(h)] = 0
      BY <1>1
    <2>1. pc'[h] \in Inside /\ pc'[h] # "follow"
      BY DEF AtWork, Inside, Effects
    <2>2. h = p /\ lock' = p
      BY <1>2, <2>1 DEF Shape, Released, Holds
    <2>3. acted[Msg(p)] = 0 /\ S = {} /\ epoch' = epoch
      BY <2>1, <2>2 DEF ActStep
    <2>4. Msg(p) \in Versions
      <3>1. pc'[p] \in Inside /\ lock' # Free
        BY <2>1, <2>2
      <3>2. pc[p] \in Inside \cup {"lock_wait"}
        BY <2>2, AtWorkInside DEF ActStep, Inside, Effects
      <3> QED
        BY <2>2, <3>2 DEF Inv, Locked, Typed, Msg
    <2> QED
      BY <1>3, <2>2, <2>3, <2>4
  <1>7. \A q \in Procs : pc'[q] = "follow" => Current(Immediate)'
    <2> SUFFICES ASSUME NEW q \in Procs, pc'[q] = "follow" PROVE Current(Immediate)'
      OBVIOUS
    <2>1. q = p
      BY <1>2 DEF Inside, Effects
    <2> QED
      BY <1>1, <2>1 DEF ActStep, Current, Immediate
  <1>8. Finished' \/ \A v \in Versions \ Seen' : acted'[v] > 0 => Following(v)' \/ LeftBehind'
    <2> SUFFICES ASSUME ~Finished', NEW v \in Versions, v \notin Seen', acted'[v] > 0
                 PROVE  Following(v)' \/ LeftBehind'
      OBVIOUS
    <2>1. epoch' = epoch /\ v \notin Seen /\ ~Finished
      BY <1>3, <1>4 DEF ActStep, Seen
    <2>2. CASE v \in S
      <3>1. p \in Handlers /\ v = Msg(p) /\ lock' # Free
        BY <2>2 DEF ActStep
      <3>2. pc'[p] = "follow"
        BY <2>2, <3>1 DEF ActStep
      <3> QED
        BY <1>1, <3>1, <3>2 DEF Following
    <2>3. CASE v \notin S
      <3>1. acted[v] > 0
        BY <1>3, <1>4, <2>1, <2>3
      <3>2. CASE Following(v)
        <4>1. PICK h \in Handlers : pc[h] = "follow" /\ Msg(h) = v
          BY <3>2 DEF Following
        <4>2. pc[h] \in Inside
          BY <4>1 DEF Inside, Effects
        <4>3. h = p
          <5>1. pc'[h] \in Inside \/ h = p
            BY <4>1, <4>2 DEF Shape, Released, Holds
          <5> QED
            BY <1>2, <5>1
        <4>4. lock' = p
          <5>1. lock' # Free
            BY <2>1, <4>1, <4>3 DEF ActStep
          <5> QED
            BY <5>1 DEF Shape, Released, Holds
        <4>5. pc'[p] = "follow"
          BY <3>1, <4>1, <4>3, <4>4 DEF ActStep
        <4> QED
          BY <1>1, <4>1, <4>3, <4>5 DEF Following
      <3>3. CASE LeftBehind
        <4>1. pc[p] # "over" /\ p \in Handlers
          BY <3>3 DEF Shape, Released, Holds, LeftBehind, ActStep
        <4>2. ~AtWork(p)
          <5> SUFFICES ASSUME AtWork(p) PROVE FALSE
            OBVIOUS
          <5>1. HolderSaw(p)
            BY <4>1, AtWorkInside, Holder
          <5> QED
            BY <3>3, <5>1 DEF HolderSaw, LeftBehind, Current, AtWork
        <4>3. pc[p] = "lock_wait" /\ index' = index /\ pc'[p] # "follow"
          BY <3>3, <4>1, <4>2 DEF ActStep, LeftBehind
        <4>4. pc'[Run] = "over" /\ pc'[Retry] = "off"
          <5>1. p # Run /\ p # Retry /\ Run # Retry
            BY <4>1, NamesAssumption
          <5>2. pc'[Run] = pc[Run]
            BY <5>1 DEF Shape, Released, Holds
          <5>3. pc'[Retry] = pc[Retry]
            BY <2>1, <5>1 DEF ActStep
          <5> QED
            BY <3>3, <5>2, <5>3 DEF LeftBehind
        <4>5. \A q \in Procs : pc'[q] # "follow"
          BY <1>2, <4>3 DEF Inside, Effects
        <4> QED
          BY <1>1, <3>3, <4>3, <4>4, <4>5 DEF LeftBehind, Current, Immediate
      <3> QED
        BY <2>1, <3>1, <3>2, <3>3 DEF Acts
    <2> QED
      BY <2>2, <2>3
  <1> QED
    BY <1>5, <1>6, <1>7, <1>8 DEF Acts

\* The steps beside the lock act on nothing.
LEMMA AsideActs ==
  ASSUME Inv, Acts, Aside, Undisturbed
  PROVE  Acts'
  <1> USE Names
  <1>1. /\ Response' = Response /\ index' = index /\ acted' = acted /\ Seen \subseteq Seen'
        /\ Finished => Finished'
    BY SameProgram DEF Undisturbed, Seen
  <1>2. \A q \in Procs : pc[q] \in Inside \/ pc'[q] \in Inside => pc'[q] = pc[q]
    BY DEF Aside
  <1>3. \A h \in Handlers : pc[h] \in Inside => Msg(h)' = Msg(h)
    BY DEF Undisturbed, Msg
  <1>4. \A h \in Handlers : AtWork(h)' => AtWork(h) /\ Msg(h)' = Msg(h)
    BY <1>2, <1>3 DEF AtWork, Inside, Effects
  <1>5. \A q \in Procs : pc'[q] = "follow" <=> pc[q] = "follow"
    BY <1>2 DEF Inside, Effects
  <1>6. Current(Immediate)' = Current(Immediate)
    BY <1>1 DEF Current, Immediate
  <1>7. \A v : Following(v) => Following(v)'
    BY <1>3, <1>5 DEF Following, Inside, Effects
  <1>8. LeftBehind => LeftBehind'
    BY <1>5, <1>6 DEF LeftBehind, Undisturbed
  <1> QED
    BY <1>1, <1>4, <1>5, <1>6, <1>7, <1>8 DEF Acts

\* Nor does the end of the run, though it may leave undone what follows.
LEMMA OverActs ==
  ASSUME Inv, Acts, NEW left \in BOOLEAN, Over(left)
  PROVE  Acts'
  <1> USE Names
  <1>1. /\ Response' = Response /\ index' = index /\ acted' = acted /\ Seen' = Seen
        /\ Finished' = Finished /\ \A h \in Handlers : Msg(h)' = Msg(h)
    BY SameProgram DEF Over, attempt, chat, scanning, Seen, Finished, Msg
  <1>2. /\ pc'[Run] = "over" /\ pc'[Retry] = "off"
        /\ \A q \in Procs : pc'[q] \in Inside => pc'[q] = pc[q]
    BY OverShape, NamesAssumption DEF Inv, Over
  <1>3. Current(Immediate)' = Current(Immediate)
    BY <1>1 DEF Current, Immediate
  <1>4. \A h \in Handlers : AtWork(h)' => AtWork(h)
    BY <1>2 DEF AtWork, Inside, Effects
  <1>5. \A q \in Procs : pc'[q] = "follow" => pc[q] = "follow"
    BY <1>2 DEF Inside, Effects
  <1>6. ASSUME NEW v, Following(v) PROVE Following(v)' \/ LeftBehind'
    <2>1. PICK h \in Handlers : pc[h] = "follow" /\ Msg(h) = v
      BY <1>6 DEF Following
    <2>2. Current(Immediate)
      BY <2>1 DEF Acts
    <2>3. \A q \in Procs : pc[q] = "follow" => q = h
      BY <2>1 DEF Inv, Locked, LockHeldInside, Inside, Effects
    <2>4. CASE pc'[h] = "follow"
      BY <1>1, <2>1, <2>4 DEF Following
    <2>5. CASE pc'[h] # "follow"
      BY <1>2, <1>3, <1>5, <2>2, <2>3, <2>5 DEF LeftBehind
    <2> QED
      BY <2>4, <2>5
  <1>7. LeftBehind => LeftBehind'
    BY <1>2, <1>3, <1>5 DEF LeftBehind
  <1> QED
    BY <1>1, <1>3, <1>4, <1>5, <1>6, <1>7 DEF Acts

\* Every step preserves it.
LEMMA ActsStep ==
  ASSUME Inv, Acts, [Next]_vars
  PROVE  Acts'
  <1> USE Names
  <1>1. ASSUME NEW h \in Handlers, Acquire(h) \/ Choose(h) \/ Fails(h) PROVE Acts'
    BY <1>1, HandlerActs, HandlerShape, ActsKept DEF Inv
  <1>2. ASSUME NEW p \in Procs,
               \/ FollowedUp(p) \/ FollowUpFails(p)
               \/ p \in {Run, Retry} /\ (Enter(p) \/ EntryDone(p))
               \/ p = Retry /\ (RetryGoesOn \/ RetryBreaks)
        PROVE  Acts'
    BY <1>2, OtherActs, OtherShape, ActsKept DEF Inv
  <1>3. CASE Aside /\ Undisturbed
    BY <1>3, AsideActs
  <1>4. ASSUME NEW left \in BOOLEAN, Over(left) PROVE Acts'
    BY <1>4, OverActs
  <1> QED
    BY <1>1, <1>2, <1>3, <1>4, StepCases DEF Steps

\* Nobody has acted when run() comes to its first await.
LEMMA ActsInit == Init => Acts
  BY Names, NamesAssumption DEF Init, Acts, AtWork, Finished

\* A message that was acted on is marked before anybody else looks at it.
THEOREM ActsHold == Spec => []Acts
  <1>1. Inv /\ Acts /\ [Next]_vars => Acts'
    BY ActsStep
  <1> QED
    BY InvHolds, ActsInit, <1>1, PTL DEF Spec

\* processed_versions and stale_attempt_versions: a message is acted on once
\* in an attempt, though updates and scans offer it several times, and nobody
\* works on one that was acted on.
THEOREM HandledOnceCorrect == Spec => []HandledOnce
  <1>1. Inv /\ Acts => HandledOnce
    <2> SUFFICES ASSUME Inv, Acts PROVE HandledOnce
      OBVIOUS
    <2>1. ASSUME NEW h \in Handlers, NEW k \in Handlers, AtWork(h), AtWork(k) PROVE h = k
      BY <2>1, AtWorkInside, Names DEF Inv, Locked, LockHeldInside
    <2> QED
      BY <2>1 DEF Acts, HandledOnce
  <1> QED
    BY InvHolds, ActsHold, <1>1, PTL

(***************************************************************************)
(* The types.  What the others need of them is in Typed; the rest takes    *)
(* what a handler saw: an index moves on from an action that is there.     *)
(***************************************************************************)
\* Where run, a retry and the handlers are in the chat's program.
Program ==
    /\ index \in Positions(Response)
    /\ step \in StepRange
    /\ \A p \in Procs : pc[p] = "follow" => index \in DOMAIN Response
    /\ \A p \in {Run, Retry} : pc[p] \in {"entry", "retry_wait"} => step \in DOMAIN Entry
    /\ \A h \in Handlers : pc[h] \in {"acting", "falling"} => step \in 1..Presses

\* The attempts.  One retry too many is counted, and ends the run.
Counters ==
    /\ born \in 0..MaxRetries /\ epoch \in 0..MaxRetries
    /\ retryCount \in 0..(MaxRetries + 1)
    /\ epoch <= retryCount
    /\ ~Finished => retryCount <= MaxRetries
    /\ result \in {"none", "success", "failed"}

\* The messages that are marked, and the scan.
Marks ==
    /\ processed \subseteq Versions /\ stale \subseteq Versions
    /\ shown \subseteq Versions /\ todo \subseteq Versions
    /\ tracked \subseteq Ids
    /\ scanned.version \in Versions \cup {0}
    /\ advanced \in BOOLEAN /\ suspended \in BOOLEAN
    /\ failures \in 0..FailureThreshold

Tries == attempted \subseteq Versions /\ before \subseteq Ids

Types == Program /\ Counters /\ Marks /\ Tries

\* A coroutine that is about to handle a message has one.
LEMMA MsgTyped ==
  ASSUME Locked, NEW p \in Procs, pc[p] \in Inside \cup {"lock_wait"}
  PROVE  Marked(p) \subseteq Versions /\ (p \in Handlers => Msg(p) \in Versions)
  BY Names DEF Locked, Typed, Marked, Msg

\* Leaving the lock marks a message at most.
LEMMA LeaveMarks ==
  ASSUME Locked, Marks, NEW p \in Procs, NEW marked \in SUBSET Versions, NEW followed,
         Leave(p, marked, followed), pc[p] \in Inside \cup {"lock_wait"}
  PROVE  /\ processed' \subseteq Versions /\ stale' \subseteq Versions
         /\ tracked' \subseteq Ids /\ advanced' \in BOOLEAN
  <1>1. Marked(p) \subseteq Versions
    BY MsgTyped
  <1>2. processed' \subseteq processed \cup marked /\ stale' \subseteq stale \cup marked
    BY DEF Leave, Kept
  <1>3. tracked' \subseteq tracked \cup {IdOf[v] : v \in Marked(p)}
    <2>1. PICK again \in {Marked(p), {}} : tracked' = Kept(tracked) \cup {IdOf[v] : v \in again}
      BY Zenon DEF Leave
    <2> QED
      BY <2>1 DEF Kept
  <1>4. advanced' \in BOOLEAN
    BY DEF Leave
  <1> QED
    BY <1>1, <1>2, <1>3, <1>4 DEF Marks, Ids

\* Nor does Quit, which marks what it is given.
LEMMA QuitMarks ==
  ASSUME Locked, Marks, NEW p \in Procs, NEW marked \in SUBSET Versions, NEW followed,
         Quit(p, marked, followed), pc[p] \in Inside \cup {"lock_wait"}
  PROVE  Marks' /\ born' = born
  BY LeaveMarks DEF Quit, Marks

\* A message that is left unhandled is marked for the scan only.
LEMMA UnhandledMarks ==
  ASSUME Locked, Marks, NEW p \in Procs, Unhandled(p), pc[p] \in Inside \cup {"lock_wait"}
  PROVE  Marks' /\ born' = born
  <1>1. Leave(p, {}, FALSE) /\ {} \in SUBSET Versions
    BY DEF Unhandled
  <1>2. /\ processed' \subseteq Versions /\ stale' \subseteq Versions
        /\ tracked' \subseteq Ids /\ advanced' \in BOOLEAN
    BY <1>1, LeaveMarks
  <1> QED
    BY <1>2 DEF Unhandled, Marks

\* Who keeps the lock marks nothing.
LEMMA StayMarks ==
  ASSUME Marks, NEW p, NEW point, Stay(p, point)
  PROVE  Marks' /\ born' = born
  BY DEF Stay, Marks, scanning

\* An action that came to nothing marks nothing.
LEMMA FallThroughMarks ==
  ASSUME Locked, Marks, NEW h \in Procs, FallThrough(h), pc[h] \in Inside
  PROVE  Marks' /\ born' = born
  BY UnhandledMarks, StayMarks DEF FallThrough

\* A message that was handled is marked when its handler quits.
LEMMA HandledMarks ==
  ASSUME Locked, Marks, NEW h \in Handlers, NEW r, NEW advance, Handled(h, r, advance),
         pc[h] \in Inside
  PROVE  Marks' /\ born' = born
  <1>1. {Msg(h)} \in SUBSET Versions /\ h \in Procs
    BY MsgTyped, Names
  <1>2. CASE Quit(h, {Msg(h)}, TRUE)
    BY <1>1, <1>2, QuitMarks
  <1>3. CASE Stay(h, "follow")
    BY <1>3, StayMarks
  <1> QED
    BY <1>2, <1>3 DEF Handled

\* The steps of a handler mark messages, and no others.
LEMMA HandlerMarks ==
  ASSUME Locked, Marks, NEW h \in Handlers, Acquire(h) \/ Choose(h) \/ Fails(h)
  PROVE  Marks' /\ born' \in {born, epoch}
  <1>0. ASSUME pc[h] \in Inside \cup {"lock_wait"}
        PROVE  {Msg(h)} \in SUBSET Versions /\ {} \in SUBSET Versions /\ h \in Procs
    BY <1>0, MsgTyped, Names
  <1>1. ASSUME NEW marked \in {{}, {Msg(h)}}, NEW followed, Quit(h, marked, followed),
               pc[h] \in Inside \cup {"lock_wait"}
        PROVE  Marks' /\ born' = born
    BY <1>0, <1>1, QuitMarks
  <1>2. CASE Acquire(h)
    <2>1. pc[h] \in Inside \cup {"lock_wait"} /\ h \in Procs
      BY <1>2, Names DEF Acquire
    <2>2. ASSUME NEW point, NEW guarded, Begin(h, point, guarded) PROVE Marks' /\ born' = epoch
      BY <2>2 DEF Begin, Marks, scanning
    <2>3. CASE Unhandled(h)
      BY <2>1, <2>3, UnhandledMarks
    <2>4. CASE Quit(h, {}, FALSE) \/ Quit(h, {Msg(h)}, FALSE)
      BY <1>1, <2>1, <2>4
    <2>5. \/ Unhandled(h) \/ Quit(h, {}, FALSE) \/ Quit(h, {Msg(h)}, FALSE)
          \/ \E point, guarded : Begin(h, point, guarded)
      BY <1>2, Zenon DEF Acquire, React
    <2> QED
      BY <2>2, <2>3, <2>4, <2>5
  <1>3. CASE Choose(h) \/ Fails(h)
    <2>1. pc[h] \in Inside /\ h \in Procs
      BY <1>3, Names DEF Choose, Fails, Think, NoAnswer, CaptchaUnusable, CaptchaIsResult, Confirmed,
         PressAgain, Clicking, Unconfirmed, Decide, FellBack, FallbackUnconfirmed, Breaks,
           Inside, Effects
    <2>2. \/ \E marked \in {{}, {Msg(h)}} : \E followed : Quit(h, marked, followed)
          \/ \E r, advance : Handled(h, r, advance)
          \/ Unhandled(h)
          \/ FallThrough(h)
          \/ \E point : Stay(h, point)
      <3>1. CASE Think(h)
        BY <3>1, Zenon DEF Think
      <3>2. CASE NoAnswer(h) \/ Unconfirmed(h) \/ FallbackUnconfirmed(h)
        BY <3>2 DEF NoAnswer, Unconfirmed, FallbackUnconfirmed
      <3>3. CASE CaptchaUnusable(h) \/ CaptchaIsResult(h) \/ FellBack(h)
        BY <3>3, Zenon DEF CaptchaUnusable, CaptchaIsResult, FellBack
      <3>4. CASE Confirmed(h)
        BY <3>4, Zenon DEF Confirmed
      <3>5. CASE Decide(h)
        BY <3>5, Zenon DEF Decide
      <3>6. CASE Breaks(h) \/ Fails(h)
        BY <3>6, Zenon DEF Breaks, Fails
      <3>7. CASE PressAgain(h)
        BY <3>7, Zenon DEF PressAgain
      <3> QED
        BY <1>3, <3>1, <3>2, <3>3, <3>4, <3>5, <3>6, <3>7 DEF Choose
    <2>3. ASSUME NEW point, Stay(h, point) PROVE Marks' /\ born' = born
      BY <2>3, StayMarks
    <2> QED
      BY <1>1, <2>1, <2>2, <2>3, UnhandledMarks, FallThroughMarks, HandledMarks
  <1> QED
    BY <1>2, <1>3

\* The ids of one's own messages are those of messages that were there.
LEMMA OwnMessageTyped ==
  ASSUME Marks, Tries, NEW sent, OwnMessage(sent)
  PROVE  before' \subseteq Ids
  BY DEF Marks, Tries, OwnMessage, Ids

\* What a handler attempts is its message.
LEMMA HandlerTries ==
  ASSUME Locked, Marks, Tries, NEW h \in Handlers, Acquire(h) \/ Choose(h) \/ Fails(h)
  PROVE  Tries'
  <1>1. pc[h] \in Inside \cup {"lock_wait"} /\ h \in Procs
    BY Names DEF Acquire, Choose, Fails, Think, NoAnswer, CaptchaUnusable, CaptchaIsResult, Confirmed,
       PressAgain, Clicking, Unconfirmed, Decide, FellBack, FallbackUnconfirmed, Breaks,
           Inside, Effects
  <1>2. Msg(h) \in Versions
    BY <1>1, MsgTyped
  <1>3. before' = before \/ \E sent : OwnMessage(sent)
    BY Zenon DEF Acquire, Choose, Fails, Think, NoAnswer, CaptchaUnusable, CaptchaIsResult, Confirmed,
       PressAgain, Unconfirmed, Decide, FellBack, FallbackUnconfirmed, Breaks, FallThrough
  <1>4. attempted' \subseteq attempted \cup {Msg(h)}
    <2>1. CASE Acquire(h)
      BY <2>1 DEF Acquire, React, Begin
    <2>2. CASE Think(h) \/ NoAnswer(h) \/ CaptchaUnusable(h) \/ CaptchaIsResult(h)
      BY <2>2 DEF Think, NoAnswer, CaptchaUnusable, CaptchaIsResult, Kept
    <2>3. CASE Confirmed(h) \/ PressAgain(h) \/ Unconfirmed(h)
      BY <2>3 DEF Confirmed, PressAgain, Unconfirmed
    <2>4. CASE Decide(h)
      BY <2>4 DEF Decide
    <2>5. CASE FellBack(h) \/ FallbackUnconfirmed(h) \/ Breaks(h) \/ Fails(h)
      BY <2>5 DEF FellBack, FallbackUnconfirmed, Breaks, Fails, Kept
    <2> QED
      BY <2>1, <2>2, <2>3, <2>4, <2>5 DEF Choose
  <1> QED
    BY <1>2, <1>3, <1>4, OwnMessageTyped DEF Tries

\* Going on to what waits for no message marks nothing.
LEMMA DrainMarks ==
  ASSUME Locked, Marks, NEW p \in {Run, Retry}, Drain(p), pc[p] \in Inside \cup {"lock_wait"}
  PROVE  Marks' /\ born' = born /\ attempted' = attempted
  <1>1. CASE FollowUpNext(p, index)
    BY <1>1 DEF Drain, Marks, scanning
  <1>2. CASE ~FollowUpNext(p, index)
    <2>1. Leave(p, {}, FALSE) /\ {} \in SUBSET Versions /\ p \in Procs
      BY <1>2, Names DEF Drain
    <2>2. /\ processed' \subseteq Versions /\ stale' \subseteq Versions
          /\ tracked' \subseteq Ids /\ advanced' \in BOOLEAN
      BY <2>1, LeaveMarks
    <2> QED
      BY <1>2, <2>2 DEF Drain, Marks
  <1> QED
    BY <1>1, <1>2

\* Nor does going on to the next entry action.
LEMMA EntryMarks ==
  ASSUME Locked, Marks, NEW p \in {Run, Retry}, NEW n, EntryAt(p, n),
         pc[p] \in Inside \cup {"lock_wait"}
  PROVE  Marks' /\ born' = born /\ attempted' = attempted
  BY DrainMarks DEF EntryAt, Marks, marks, scanning

\* The follow-up and entry actions mark the message they follow.
LEMMA OtherMarks ==
  ASSUME Locked, Marks, Tries, NEW p \in Procs,
         \/ FollowedUp(p) \/ FollowUpFails(p)
         \/ p \in {Run, Retry} /\ (Enter(p) \/ EntryDone(p))
         \/ p = Retry /\ (RetryGoesOn \/ RetryBreaks)
  PROVE  Marks' /\ Tries' /\ born' = born
  <1>1. pc[p] \in Inside \cup {"lock_wait"}
    BY DEF FollowedUp, FollowUpFails, Enter, EntryDone, RetryGoesOn, RetryBreaks, Inside, Effects
  <1>2. ASSUME NEW marked \in {{}, Marked(p)}, NEW followed, Quit(p, marked, followed)
        PROVE  Marks' /\ born' = born
    <2>1. marked \in SUBSET Versions
      BY <1>1, MsgTyped
    <2> QED
      BY <1>1, <1>2, <2>1, QuitMarks
  <1>3. CASE FollowedUp(p)
    <2>1. Quit(p, Marked(p), TRUE) \/ Stay(p, "follow")
      BY <1>3, Zenon DEF FollowedUp
    <2>2. attempted' = attempted /\ \E sent : OwnMessage(sent)
      BY <1>3, Zenon DEF FollowedUp
    <2>3. Marks' /\ born' = born
      BY <1>2, <2>1, StayMarks
    <2> QED
      BY <2>2, <2>3, OwnMessageTyped DEF Tries
  <1>4. CASE FollowUpFails(p)
    BY <1>2, <1>4 DEF FollowUpFails, Tries, Kept
  <1>5. CASE p \in {Run, Retry} /\ Enter(p)
    BY <1>1, <1>5, EntryMarks DEF Enter, Tries
  <1>6. CASE p \in {Run, Retry} /\ EntryDone(p)
    <2>1. EntryAt(p, step + 1) /\ \E sent : OwnMessage(sent)
      BY <1>6, Zenon DEF EntryDone
    <2> QED
      BY <1>1, <1>6, <2>1, EntryMarks, OwnMessageTyped DEF Tries
  <1>7. CASE p = Retry /\ RetryGoesOn
    <2>1. CASE Stay(Retry, "entry") /\ attempted' = attempted
      BY <1>7, <2>1, StayMarks DEF RetryGoesOn, Tries
    <2>2. CASE Drain(Retry)
      BY <1>1, <1>7, <2>2, DrainMarks DEF RetryGoesOn, Tries
    <2> QED
      BY <1>7, <2>1, <2>2 DEF RetryGoesOn
  <1>8. CASE p = Retry /\ RetryBreaks
    BY <1>2, <1>8 DEF RetryBreaks, Tries
  <1> QED
    BY <1>3, <1>4, <1>5, <1>6, <1>7, <1>8

\* Neither do the steps beside the lock mark anything but messages.
LEMMA AsideMarks ==
  ASSUME Locked, Marks, Tries,
         \/ \E v \in Versions : Appear(v) \/ Deliver(v) \/ HandOver(v)
         \/ Rescue \/ Read \/ ReadFails \/ ScanOver \/ UNCHANGED vars
  PROVE  Marks' /\ Tries'
  <1> USE DEF Marks, Tries, attempt, marks, chat, scanning
  <1>1. ASSUME NEW v \in Versions, Appear(v) \/ Deliver(v) PROVE Marks' /\ Tries'
    BY <1>1 DEF Appear, Deliver
  <1>2. ASSUME NEW v \in Versions, HandOver(v) PROVE Marks' /\ Tries'
    BY <1>2 DEF HandOver
  <1>3. CASE Rescue \/ ScanOver
    BY <1>3 DEF Rescue, ScanOver
  <1>4. CASE Read
    <2>1. todo' \in SUBSET Latest(shown) \/ todo' = todo
      BY <1>4 DEF Read
    <2>2. Latest(shown) \subseteq shown
      BY DEF Latest
    <2>3. before' \subseteq Ids
      BY <1>4, OwnMessageTyped, Zenon DEF Read
    <2>4. /\ failures' = 0 /\ suspended' = FALSE
          /\ UNCHANGED <<processed, stale, attempted, tracked, shown, scanned, advanced>>
      BY <1>4 DEF Read
    <2>5. 0 \in 0..FailureThreshold
      BY SpecAssumption
    <2> QED
      BY <2>1, <2>2, <2>3, <2>4, <2>5
  <1>5. CASE ReadFails
    <2>1. failures' \in 0..FailureThreshold
      BY <1>5, SpecAssumption DEF ReadFails
    <2>2. suspended' \in BOOLEAN
      BY <1>5 DEF ReadFails
    <2> QED
      BY <1>5, <2>1, <2>2 DEF ReadFails
  <1>6. CASE UNCHANGED vars
    BY <1>6 DEF vars
  <1> QED
    BY <1>1, <1>2, <1>3, <1>4, <1>5, <1>6

\* The end of the run takes marks back only.
LEMMA OverMarks ==
  ASSUME Marks, Tries, NEW left, Over(left)
  PROVE  Marks' /\ Tries' /\ born' = born
  BY DEF Over, Marks, Tries, chat, scanning

\* p is where the chat's program says, after its step.
Placed(p) ==
    /\ index' \in Positions(Response)
    /\ pc'[p] = "follow" => index' \in DOMAIN Response

\* A step to another await is, when it leaves the index alone or resets it.
LEMMA MovedPlaced ==
  ASSUME Program, NEW p \in Procs, NEW point, Moved(p, point), point # "follow",
         index' \in {index, 1}
  PROVE  Placed(p)
  BY DEF Program, Placed, Moved, Positions

\* _schedule_retry resets the index or leaves it alone.
LEMMA ScheduleIndex ==
  ASSUME ScheduleRetry
  PROVE  index' \in {index, 1}
  BY DEF ScheduleRetry, attempt

\* Nobody follows anything once it has left the lock.
LEMMA QuitPlaced ==
  ASSUME Program, NEW p \in Procs, NEW marked, NEW followed,
         Quit(p, marked, followed) \/ Leave(p, marked, followed), index' \in {index, 1}
  PROVE  Placed(p)
  <1>1. Moved(p, Rest(p))
    BY DEF Quit, Leave
  <1>2. Rest(p) # "follow"
    BY RestOut DEF Inside, Effects
  <1> QED
    BY <1>1, <1>2, MovedPlaced

\* A handler that is through goes on from an action that is there.
LEMMA HandledPlaced ==
  ASSUME Inv, Program, NEW h \in Handlers, NEW r, NEW advance, Handled(h, r, advance),
         pc[h] \in {"thinking", "acting"}
  PROVE  Placed(h)
  <1>1. h \in Procs /\ index \in DOMAIN Response
    BY Names DEF Inv, HoldersSaw, HolderSaw, Inside, Effects
  <1>2. index' \in {index, index + 1}
    BY DEF Handled
  <1>3. index' \in Positions(Response)
    BY <1>1, <1>2 DEF Program, Positions
  <1>4. CASE Quit(h, {Msg(h)}, TRUE)
    <2>1. Moved(h, Rest(h)) /\ Rest(h) # "follow"
      BY <1>1, <1>4, RestOut DEF Quit, Leave, Inside, Effects
    <2> QED
      BY <1>1, <1>3, <2>1 DEF Placed, Moved
  <1>5. CASE index' \in DOMAIN Response
    BY <1>3, <1>5 DEF Placed
  <1> QED
    BY <1>4, <1>5 DEF Handled

\* Every step of a handler ends where the chat's program says.
LEMMA HandlerPlaced ==
  ASSUME Inv, Program, NEW h \in Handlers, Acquire(h) \/ Choose(h) \/ Fails(h)
  PROVE  Placed(h)
  <1>0. h \in Procs
    BY Names
  <1>1. ASSUME NEW marked, NEW followed, Quit(h, marked, followed) \/ Leave(h, marked, followed),
               index' \in {index, 1}
        PROVE  Placed(h)
    BY <1>0, <1>1, QuitPlaced
  <1>2. ASSUME NEW point, Moved(h, point), point # "follow", index' \in {index, 1}
        PROVE  Placed(h)
    BY <1>0, <1>2, MovedPlaced
  <1>3. ASSUME Unhandled(h), index' = index PROVE Placed(h)
    BY <1>1, <1>3 DEF Unhandled
  <1>4. CASE Acquire(h)
    <2>1. CASE Quit(h, {}, FALSE) \/ Quit(h, {Msg(h)}, FALSE)
      <3>1. index' = index
        BY <1>4 DEF Acquire, attempt
      <3> QED
        BY <1>1, <2>1, <3>1
    <2>2. CASE React(h, Msg(h)) /\ index' = index
      BY <1>2, <1>3, <2>2 DEF React, Begin
    <2> QED
      BY <1>4, <2>1, <2>2 DEF Acquire, attempt
  <1>5. ASSUME FallThrough(h) PROVE Placed(h)
    BY <1>2, <1>3, <1>5 DEF FallThrough, Stay, attempt
  <1>6. CASE Think(h)
    <2>1. CASE Handled(h, result, TRUE)
      BY <1>6, <2>1, HandledPlaced DEF Think
    <2>2. CASE Stay(h, "acting") /\ index' = index
      BY <1>2, <2>2 DEF Stay
    <2> QED
      BY <1>6, <2>1, <2>2 DEF Think, attempt
  <1>7. CASE NoAnswer(h) \/ Unconfirmed(h)
    BY <1>5, <1>7 DEF NoAnswer, Unconfirmed
  <1>8. CASE CaptchaUnusable(h) \/ Fails(h)
    <2>1. ScheduleRetry /\ \E marked : Quit(h, marked, TRUE) \/ Quit(h, marked, FALSE)
      BY <1>8, Zenon DEF CaptchaUnusable, Fails
    <2> QED
      BY <1>1, <2>1, ScheduleIndex
  <1>9. CASE CaptchaIsResult(h) \/ FellBack(h) \/ Breaks(h)
    <2>1. index' = index /\ \E marked : Quit(h, marked, TRUE) \/ Quit(h, marked, FALSE)
      BY <1>9, Zenon DEF CaptchaIsResult, FellBack, Breaks
    <2> QED
      BY <1>1, <2>1
  <1>10. CASE Confirmed(h)
    <2>1. \E r, advance : Handled(h, r, advance)
      BY <1>10, Zenon DEF Confirmed
    <2> QED
      BY <1>10, <2>1, HandledPlaced DEF Confirmed
  <1>11. CASE Decide(h)
    <2>1. index' = index
      BY <1>11 DEF Decide, attempt
    <2>2. Stay(h, "falling") \/ Quit(h, {Msg(h)}, FALSE) \/ Unhandled(h)
      BY <1>11 DEF Decide
    <2> QED
      BY <1>1, <1>2, <1>3, <2>1, <2>2 DEF Stay
  <1>12. CASE FallbackUnconfirmed(h)
    BY <1>3, <1>12 DEF FallbackUnconfirmed, attempt
  <1>13. CASE PressAgain(h)
    <2>1. index' = index /\ pc[h] # "follow" /\ Moved(h, pc[h])
      BY <1>13 DEF PressAgain, Clicking, Stay, attempt
    <2> QED
      BY <1>2, <2>1
  <1> QED
    BY <1>4, <1>6, <1>7, <1>8, <1>9, <1>10, <1>11, <1>12, <1>13 DEF Choose

\* A handler begins with the first press of a click, and goes on to the next.
LEMMA HandlerStep ==
  ASSUME Locked, NEW h \in Handlers, Acquire(h) \/ Choose(h) \/ Fails(h)
  PROVE  \/ step' = 1
         \/ step' = step /\ pc'[h] \notin {"acting", "falling"}
         \/ pc[h] \in {"acting", "falling"} /\ step < Presses /\ step' = step + 1
  <1> DEFINE Stepped ==
        \/ step' = 1
        \/ step' = step /\ pc'[h] \notin {"acting", "falling"}
        \/ pc[h] \in {"acting", "falling"} /\ step < Presses /\ step' = step + 1
  <1>0. h \in Procs
    BY Names
  <1>1. ASSUME NEW marked, NEW followed, Quit(h, marked, followed) PROVE Stepped
    BY <1>1 DEF Quit
  <1>2. ASSUME NEW point \in {"asking", "follow"}, Stay(h, point), step' = step PROVE Stepped
    BY <1>0, <1>2 DEF Stay, Moved
  <1>3. ASSUME Unhandled(h) PROVE Stepped
    BY <1>3 DEF Unhandled
  <1>4. ASSUME NEW r, NEW advance, Handled(h, r, advance) PROVE Stepped
    BY <1>1, <1>2, <1>4 DEF Handled
  <1>5. ASSUME FallThrough(h) PROVE Stepped
    BY <1>2, <1>3, <1>5 DEF FallThrough
  <1>6. CASE Acquire(h)
    <2>1. ASSUME NEW point, NEW guarded, Begin(h, point, guarded) PROVE Stepped
      BY <2>1 DEF Begin
    <2>2. \/ Unhandled(h) \/ Quit(h, {}, FALSE) \/ Quit(h, {Msg(h)}, FALSE)
          \/ \E point, guarded : Begin(h, point, guarded)
      BY <1>6, Zenon DEF Acquire, React
    <2> QED
      BY <1>1, <1>3, <2>1, <2>2
  <1>7. CASE Think(h)
    BY <1>4, <1>7 DEF Think
  <1>8. CASE NoAnswer(h) \/ Unconfirmed(h) \/ FallbackUnconfirmed(h)
    BY <1>3, <1>5, <1>8 DEF NoAnswer, Unconfirmed, FallbackUnconfirmed
  <1>9. CASE CaptchaUnusable(h) \/ CaptchaIsResult(h) \/ FellBack(h) \/ Breaks(h) \/ Fails(h)
    BY <1>1, <1>9 DEF CaptchaUnusable, CaptchaIsResult, FellBack, Breaks, Fails
  <1>10. CASE Confirmed(h)
    <2>1. \E r, advance : Handled(h, r, advance)
      BY <1>10, Zenon DEF Confirmed
    <2> QED
      BY <1>4, <2>1
  <1>11. CASE Decide(h)
    BY <1>1, <1>3, <1>11 DEF Decide
  <1>12. CASE PressAgain(h)
    BY <1>12 DEF PressAgain, Clicking
  <1> QED
    BY <1>6, <1>7, <1>8, <1>9, <1>10, <1>11, <1>12 DEF Choose

\* So are run and a retry, on their way through the entry actions.
OnTheWay(p) ==
    /\ Placed(p)
    /\ step' \in StepRange
    /\ p \in {Run, Retry} /\ pc'[p] \in {"entry", "retry_wait"} => step' \in DOMAIN Entry
    /\ p \in Handlers /\ pc'[p] \in {"acting", "falling"} => step' \in 1..Presses

\* A step to an await that belongs to no action is on the way.
LEMMA RestOnTheWay ==
  ASSUME Program, NEW p \in Procs, NEW marked, NEW followed,
         Quit(p, marked, followed) \/ Leave(p, marked, followed), index' \in {index, 1},
         step' \in StepRange
  PROVE  OnTheWay(p)
  <1>1. Moved(p, Rest(p))
    BY DEF Quit, Leave
  <1>2. Rest(p) \notin {"entry", "retry_wait", "acting", "falling"}
    BY RestOut DEF Inside, Effects
  <1> QED
    BY <1>1, <1>2, QuitPlaced DEF OnTheWay, Moved

\* What follows the entry actions is an action that waits for no message.
LEMMA DrainOnTheWay ==
  ASSUME Program, NEW p \in Procs, Drain(p), step' \in StepRange
  PROVE  OnTheWay(p)
  <1>1. CASE FollowUpNext(p, index)
    <2>1. index' = index /\ index \in DOMAIN Response /\ pc'[p] = "follow"
      BY <1>1 DEF Drain, FollowUpNext, Moved, attempt
    <2> QED
      BY <2>1 DEF OnTheWay, Placed, Program
  <1>2. CASE ~FollowUpNext(p, index)
    <2>1. Leave(p, {}, FALSE) /\ index' = index
      BY <1>2 DEF Drain
    <2> QED
      BY <2>1, RestOnTheWay
  <1> QED
    BY <1>1, <1>2

\* The next entry action is one of the program, or it is done.
LEMMA EntryOnTheWay ==
  ASSUME Program, NEW p \in Procs, NEW n \in Positions(Entry), EntryAt(p, n)
  PROVE  OnTheWay(p)
  <1>1. step' = n /\ n \in StepRange
    BY DEF EntryAt, StepRange
  <1>2. CASE n \in DOMAIN Entry /\ ~Finished
    <2>1. index' = index /\ pc'[p] \in {"entry", "retry_wait"}
      BY <1>2 DEF EntryAt, Drain, Moved, attempt
    <2> QED
      BY <1>1, <1>2, <2>1 DEF OnTheWay, Placed, Program
  <1>3. CASE Drain(p)
    BY <1>1, <1>3, DrainOnTheWay
  <1> QED
    BY <1>2, <1>3 DEF EntryAt

\* Run, a retry and whoever does follow-up actions stay on the way.
LEMMA OtherOnTheWay ==
  ASSUME Inv, Program, NEW p \in Procs,
         \/ FollowedUp(p) \/ FollowUpFails(p)
         \/ p \in {Run, Retry} /\ (Enter(p) \/ EntryDone(p))
         \/ p = Retry /\ (RetryGoesOn \/ RetryBreaks)
  PROVE  OnTheWay(p)
  <1>0. step \in StepRange /\ 1 \in StepRange /\ (pc[p] = "follow" => index \in DOMAIN Response)
    BY DEF Program, StepRange, Positions
  <1>1. CASE FollowedUp(p)
    <2>1. index \in DOMAIN Response /\ index' \in {index, index + 1} /\ step' \in {1, step}
      BY <1>0, <1>1 DEF FollowedUp, Quit
    <2>2. index' \in Positions(Response)
      BY <2>1 DEF Program, Positions
    <2>3. CASE Quit(p, Marked(p), TRUE)
      <3>1. pc'[p] = Rest(p) /\ Rest(p) \notin {"follow", "entry", "retry_wait", "acting", "falling"}
        BY <2>3, RestOut DEF Quit, Leave, Moved, Inside, Effects
      <3> QED
        BY <1>0, <2>1, <2>2, <3>1 DEF OnTheWay, Placed
    <2>4. CASE index' \in DOMAIN Response /\ Stay(p, "follow")
      <3>1. pc'[p] = "follow"
        BY <2>4 DEF Stay, Moved
      <3> QED
        BY <1>0, <2>1, <2>2, <2>4, <3>1 DEF OnTheWay, Placed
    <2> QED
      BY <1>1, <2>3, <2>4 DEF FollowedUp, FollowUpNext
  <1>2. CASE FollowUpFails(p)
    <2>1. Quit(p, Marked(p), TRUE) /\ step' = 1
      BY <1>2 DEF FollowUpFails, Quit
    <2>2. index' \in {index, 1}
      BY <1>2, ScheduleIndex DEF FollowUpFails
    <2> QED
      BY <1>0, <2>1, <2>2, RestOnTheWay
  <1>3. CASE p \in {Run, Retry} /\ Enter(p)
    <2>1. 1 \in Positions(Entry)
      BY DEF Positions
    <2> QED
      BY <1>3, <2>1, EntryOnTheWay DEF Enter
  <1>4. CASE p \in {Run, Retry} /\ EntryDone(p)
    <2>1. step \in DOMAIN Entry
      BY <1>4 DEF EntryDone, Program
    <2>2. step + 1 \in Positions(Entry)
      BY <2>1 DEF Positions
    <2> QED
      BY <1>4, <2>2, EntryOnTheWay DEF EntryDone
  <1>5. CASE p = Retry /\ RetryGoesOn
    <2>1. pc[p] = "retry_wait" /\ step' = step
      BY <1>5 DEF RetryGoesOn
    <2>2. CASE Stay(p, "entry") /\ index' = index
      <3>1. step \in DOMAIN Entry
        BY <1>5, <2>1 DEF Program
      <3>2. pc'[p] = "entry"
        BY <2>2 DEF Stay, Moved
      <3> QED
        BY <1>0, <2>1, <2>2, <3>1, <3>2 DEF OnTheWay, Placed, Program
    <2>3. CASE Drain(p)
      BY <1>0, <2>1, <2>3, DrainOnTheWay
    <2> QED
      BY <1>5, <2>2, <2>3 DEF RetryGoesOn, attempt
  <1>6. CASE p = Retry /\ RetryBreaks
    <2>1. Quit(p, {}, FALSE) /\ step' = 1 /\ index' = index
      BY <1>6 DEF RetryBreaks, Quit
    <2> QED
      BY <1>0, <2>1, RestOnTheWay
  <1> QED
    BY <1>1, <1>2, <1>3, <1>4, <1>5, <1>6

\* Whoever takes a step, the others are where they were.
LEMMA ShapeProgram ==
  ASSUME NEW p \in Procs, Shape(p), OnTheWay(p), actions' = actions
  PROVE  Program'
  <1>1. Response' = Response /\ Entry' = Entry
    BY DEF Response, Entry
  <1>2. \A q \in Procs \ {p} : pc'[q] \notin Inside
    BY DEF Shape, Released, Holds
  <1>3. {"follow", "entry", "retry_wait", "acting", "falling"} \subseteq Inside
    BY DEF Inside, Effects
  <1>4. StepRange' = StepRange
    BY <1>1 DEF StepRange, Positions
  <1> QED
    BY <1>1, <1>2, <1>3, <1>4, Names DEF OnTheWay, Placed, Program, Positions

\* What a step can do to the attempts.
Tallied ==
    \/ ScheduleRetry
    \/ epoch' = epoch /\ retryCount' = retryCount /\ result' \in {result, "success", "failed"}

\* Neither a retry nor a result takes a counter past its limit.
LEMMA CountersStep ==
  ASSUME Counters, Tallied, born' \in {born, epoch}
  PROVE  Counters'
  <1>1. MaxRetries \in Nat
    BY SpecAssumption
  <1>2. CASE ScheduleRetry
    <2>1. CASE UNCHANGED attempt
      BY <2>1 DEF Counters, attempt, Finished
    <2>2. CASE /\ ~Finished /\ retryCount' = retryCount + 1
               /\ retryCount < MaxRetries /\ epoch' = epoch + 1 /\ result' = result
      BY <1>1, <2>2 DEF Counters, Finished
    <2>3. CASE /\ ~Finished /\ retryCount' = retryCount + 1
               /\ ~(retryCount < MaxRetries) /\ epoch' = epoch /\ result' = "failed"
      BY <1>1, <2>3 DEF Counters, Finished
    <2> QED
      BY <1>2, <2>1, <2>2, <2>3 DEF ScheduleRetry
  <1>3. CASE epoch' = epoch /\ retryCount' = retryCount /\ result' \in {result, "success", "failed"}
    BY <1>1, <1>3 DEF Counters, Finished
  <1> QED
    BY <1>2, <1>3 DEF Tallied

\* A handler schedules a retry, takes a result, or does neither.
LEMMA HandlerTallied ==
  ASSUME NEW h \in Handlers, Acquire(h) \/ Choose(h) \/ Fails(h)
  PROVE  Tallied
  <1> USE DEF Tallied, attempt
  <1>1. CASE Acquire(h)
    BY <1>1 DEF Acquire, FinishAs
  <1>2. ASSUME NEW r \in {result, "success"}, NEW advance, Handled(h, r, advance) PROVE Tallied
    BY <1>2 DEF Handled
  <1>3. CASE Think(h)
    BY <1>2, <1>3 DEF Think
  <1>4. CASE NoAnswer(h) \/ Unconfirmed(h)
    BY <1>4 DEF NoAnswer, Unconfirmed, FallThrough
  <1>5. CASE CaptchaUnusable(h) \/ Fails(h)
    BY <1>5 DEF CaptchaUnusable, Fails
  <1>6. CASE CaptchaIsResult(h) \/ Breaks(h)
    BY <1>6 DEF CaptchaIsResult, Breaks, FinishAs
  <1>7. CASE Confirmed(h)
    <2>1. \E r \in {result, "success"} : \E advance : Handled(h, r, advance)
      BY <1>7 DEF Confirmed
    <2> QED
      BY <1>2, <2>1
  <1>8. CASE Decide(h) \/ FallbackUnconfirmed(h) \/ PressAgain(h)
    BY <1>8 DEF Decide, FallbackUnconfirmed, PressAgain
  <1>9. CASE FellBack(h)
    BY <1>9 DEF FellBack
  <1> QED
    BY <1>1, <1>3, <1>4, <1>5, <1>6, <1>7, <1>8, <1>9 DEF Choose

\* Going on to what follows may complete the program.
LEMMA DrainTallied ==
  ASSUME NEW p, Drain(p)
  PROVE  Tallied
  BY DEF Drain, Tallied, attempt

\* So may the follow-up and entry actions, which may also fail.
LEMMA OtherTallied ==
  ASSUME NEW p \in Procs,
         \/ FollowedUp(p) \/ FollowUpFails(p)
         \/ p \in {Run, Retry} /\ (Enter(p) \/ EntryDone(p))
         \/ p = Retry /\ (RetryGoesOn \/ RetryBreaks)
  PROVE  Tallied
  <1>1. CASE FollowedUp(p)
    BY <1>1 DEF FollowedUp, Tallied
  <1>2. CASE FollowUpFails(p)
    BY <1>2 DEF FollowUpFails, Tallied
  <1>3. ASSUME NEW n, EntryAt(p, n) PROVE Tallied
    BY <1>3, DrainTallied DEF EntryAt, Tallied, attempt
  <1>4. CASE Enter(p) \/ EntryDone(p)
    BY <1>3, <1>4 DEF Enter, EntryDone
  <1>5. CASE p = Retry /\ (RetryGoesOn \/ RetryBreaks)
    BY <1>5, DrainTallied DEF RetryGoesOn, RetryBreaks, FinishAs, Tallied, attempt
  <1> QED
    BY <1>1, <1>2, <1>4, <1>5

\* Beside the lock a result may be taken.
LEMMA AsideTallied ==
  ASSUME \/ \E v \in Versions : Appear(v) \/ Deliver(v) \/ HandOver(v)
         \/ Rescue \/ Read \/ ReadFails \/ ScanOver \/ UNCHANGED vars
  PROVE  Tallied
  BY DEF Tallied, attempt, vars, Appear, Deliver, FinishAs, HandOver, Rescue, Read, ReadFails, ScanOver

\* Every step preserves the types.
LEMMA TypesStep ==
  ASSUME Inv, Types, [Next]_vars
  PROVE  Types'
  <1> DEFINE Placing == {"follow", "entry", "retry_wait", "acting", "falling"}
  <1>0. Locked /\ Program /\ Counters /\ Marks /\ Tries
    BY DEF Inv, Types
  <1>1. ASSUME NEW h \in Handlers, Acquire(h) \/ Choose(h) \/ Fails(h) PROVE Types'
    <2>1. Marks' /\ born' \in {born, epoch} /\ Placed(h)
      BY <1>0, <1>1, HandlerMarks, HandlerPlaced
    <2>2. OnTheWay(h) /\ Shape(h) /\ actions' = actions
      <3>1. Shape(h) /\ actions' = actions /\ h \notin {Run, Retry}
        BY <1>0, <1>1, HandlerShape, Names DEF Frame
      <3>2. 1 \in StepRange /\ 1 \in 1..Presses /\ 1..Presses \subseteq StepRange
        BY SpecAssumption DEF StepRange, Positions
      <3>3. pc[h] \in {"acting", "falling"} => step \in 1..Presses
        BY <1>0 DEF Program
      <3>4. \/ step' \in 1..Presses
            \/ step' = step /\ pc'[h] \notin {"acting", "falling"}
        BY <1>0, <1>1, <3>2, <3>3, HandlerStep, SpecAssumption
      <3> QED
        BY <1>0, <2>1, <3>1, <3>2, <3>4 DEF OnTheWay, Program
    <2>3. Program' /\ Tries' /\ Counters'
      BY <1>0, <1>1, <2>1, <2>2, Names, ShapeProgram, HandlerTries, HandlerTallied, CountersStep
    <2> QED
      BY <2>1, <2>3 DEF Types
  <1>2. ASSUME NEW p \in Procs,
               \/ FollowedUp(p) \/ FollowUpFails(p)
               \/ p \in {Run, Retry} /\ (Enter(p) \/ EntryDone(p))
               \/ p = Retry /\ (RetryGoesOn \/ RetryBreaks)
        PROVE  Types'
    <2>1. Marks' /\ Tries' /\ born' = born
      BY <1>0, <1>2, OtherMarks
    <2>2. OnTheWay(p) /\ Shape(p) /\ actions' = actions
      BY <1>0, <1>2, OtherOnTheWay, OtherShape DEF Frame
    <2>3. Program' /\ Counters'
      BY <1>0, <1>2, <2>1, <2>2, ShapeProgram, OtherTallied, CountersStep
    <2> QED
      BY <2>1, <2>3 DEF Types
  <1>3. ASSUME \/ \E v \in Versions : Appear(v) \/ Deliver(v) \/ HandOver(v)
               \/ Rescue \/ Read \/ ReadFails \/ ScanOver \/ UNCHANGED vars
        PROVE  Types'
    <2>1. Aside /\ Undisturbed /\ Marks' /\ Tries' /\ Tallied
      BY <1>0, <1>3, AsideShape, AsideFrame, AsideMarks, AsideTallied
    <2>2. Response' = Response /\ Entry' = Entry
      BY <2>1 DEF Undisturbed, Response, Entry
    <2>3. \A q \in Procs : pc'[q] \in Placing => pc'[q] = pc[q]
      BY <2>1 DEF Aside, Inside, Effects
    <2>4. Program'
      BY <1>0, <2>1, <2>2, <2>3, Names DEF Program, Positions, StepRange, Undisturbed
    <2>5. Counters'
      BY <1>0, <2>1, CountersStep DEF Undisturbed
    <2> QED
      BY <2>1, <2>4, <2>5 DEF Types
  <1>4. ASSUME NEW left \in BOOLEAN, Over(left) PROVE Types'
    <2>1. Marks' /\ Tries' /\ born' = born
      BY <1>0, <1>4, OverMarks
    <2>2. \A q \in Procs : pc'[q] \in Placing => pc'[q] = pc[q]
      BY <1>0, <1>4, OverShape DEF Inside, Effects
    <2>3. step' = step /\ index' = index /\ actions' = actions /\ Tallied
      BY <1>4 DEF Over, attempt, chat, Tallied
    <2>4. Program'
      BY <1>0, <2>2, <2>3, Names DEF Program, Positions, StepRange, Response, Entry
    <2>5. Counters'
      BY <1>0, <2>1, <2>3, CountersStep
    <2> QED
      BY <2>1, <2>4, <2>5 DEF Types
  <1>5. CASE Complete \/ Abort
    <2>1. PICK left \in BOOLEAN : Over(left)
      BY <1>5, Zenon DEF Complete, Abort
    <2> QED
      BY <1>4, <2>1
  <1>6. CASE RetryGoesOn \/ RetryBreaks
    BY <1>2, <1>6, Names
  <1>7. ASSUME NEW p \in {Run, Retry}, Enter(p) \/ EntryDone(p) PROVE Types'
    BY <1>2, <1>7, Names
  <1> QED
    BY <1>1, <1>2, <1>3, <1>5, <1>6, <1>7 DEF Next

\* The types hold when run() comes to its first await.
LEMMA TypesInit == Init => Types
  <1> SUFFICES ASSUME Init PROVE Types
    OBVIOUS
  <1>1. Program
    BY Names, NamesAssumption DEF Init, Program, Positions, StepRange
  <1>2. Counters
    BY SpecAssumption DEF Init, Counters, Finished
  <1>3. Marks
    <2>1. shown \subseteq Versions
      BY DEF Init
    <2>2. scanned.version = 0 /\ 0 \in 0..FailureThreshold
      BY SpecAssumption DEF Init
    <2>3. processed = {} /\ stale = {} /\ tracked = {} /\ todo = {}
      BY DEF Init
    <2>4. advanced = FALSE /\ suspended = FALSE /\ failures = 0
      BY DEF Init
    <2> QED
      BY <2>1, <2>2, <2>3, <2>4 DEF Marks
  <1>4. Tries
    BY DEF Init, Tries
  <1> QED
    BY <1>1, <1>2, <1>3, <1>4 DEF Types

\* Of all the retries, scans and late messages none takes an index past the
\* chat's actions or a counter past its limit.
THEOREM TypeCorrect == Spec => []TypeOK
  <1>1. Inv /\ Types /\ [Next]_vars => Types'
    BY TypesStep
  <1>2. Spec => []Types
    BY InvHolds, TypesInit, <1>1, PTL DEF Spec
  <1>3. Inv /\ Types /\ Acts => TypeOK
    <2> SUFFICES ASSUME Inv, Types, Acts PROVE TypeOK
      OBVIOUS
    <2>1. actions \in Chats /\ pc \in [Procs -> Points] /\ lock \in Procs \cup {Free}
      BY DEF Inv, Locked, Typed
    <2>2. index \in Positions(Response) /\ step \in StepRange
      BY DEF Types, Program
    <2>3. /\ born \in 0..MaxRetries /\ epoch \in 0..MaxRetries
          /\ retryCount \in 0..(MaxRetries + 1) /\ result \in {"none", "success", "failed"}
      BY DEF Types, Counters
    <2>4. {processed, stale, attempted, shown, todo} \subseteq SUBSET Versions
      BY DEF Types, Marks, Tries
    <2>5. {before, tracked} \subseteq SUBSET Ids
      BY DEF Types, Marks, Tries
    <2>6. /\ scanned.version \in Versions \cup {0}
          /\ advanced \in BOOLEAN /\ suspended \in BOOLEAN /\ failures \in 0..FailureThreshold
      BY DEF Types, Marks
    <2>7. acted \in [Versions -> Nat]
      BY DEF Acts
    <2> QED
      BY <2>1, <2>2, <2>3, <2>4, <2>5, <2>6, <2>7 DEF TypeOK
  <1> QED
    BY InvHolds, ActsHold, <1>2, <1>3, PTL
=============================================================================
