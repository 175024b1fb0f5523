-------------------------- MODULE RunReportProofs --------------------------
(***************************************************************************)
(* What is told of a run is what happened in it, for every number of       *)
(* chats, attempts and mishaps, and wherever the log is cut.  The run's    *)
(* own state (its locks, its client, its engines and how it ended) is      *)
(* tied to the log it has written by an inductive invariant, Inv.          *)
(***************************************************************************)
EXTENDS RunReport, FiniteSetTheorems, FunctionTheorems, SequenceTheorems, NaturalsFacts, TLAPS

(***************************************************************************)
(* The inductive invariant.                                                *)
(***************************************************************************)
Started   == {"started"}
Locked    == {"account_lock_acquired"}
Unlocked  == {"account_lock_released"}
Slotted   == {"global_concurrency_acquired"}
Unslotted == {"global_concurrency_released"}
Failed    == {"task_failed"}
Completed == {"task_completed"}
TimedOut  == {"task_run_timeout"}
Closed    == {"client_cleanup_completed"}
Unclosed  == {"client_cleanup_failed"}
Unsaved   == {"task_run_info_save_failed"}
Trusted   == {"callback_timeout_trusted"}
Clicked   == {"button_clicked"}

\* What is logged while a run ends, before its client is closed ...
EndEvents == Unslotted \cup Failed \cup Completed \cup TimedOut

\* ... and with what follows.
LastEvents == EndEvents \cup Closed \cup Unclosed \cup Unlocked \cup Unsaved

IsLog(log) == log \in Seq(Range(log))

Signs   == Signing \cup {"backoff"}
Before  == {"queue", "ready", "slot"} \cup Signs
Closing == {"cleaning", "deferred", "lost"}

TypeOK ==
    /\ chats \in Nat /\ chat \in Nat /\ good \in Nat /\ engines \in Nat /\ attempt \in Nat
    /\ pc \in Before \cup Closing \cup {"done", "over"}
    /\ engine \in [result : {"-", "success", "failed"},
                   raised : {"-", "unasserted", "business", "os", "other"},
                   retries : Nat, unconfirmed : Nat]
    /\ held \subseteq Locks
    /\ client \in {"none", "open", "closed", "unclosed"}
    /\ late \in BOOLEAN /\ earned \in BOOLEAN /\ success \in BOOLEAN
    /\ cause \in {"-", "cancelled", "account_lock", "global_concurrency", "none", "outer_task"}
    /\ IsLog(items)
    /\ mishaps \in Nat

\* Whoever tells of a result has it from an engine that saw it.
Tells(x) == x.ev \in Matched \/ (x.ev \in {"final_state", "completed"} /\ x.tag \in Ends)
Sourced ==
    /\ engine.result = "success" => earned
    /\ \A i \in DOMAIN items : Tells(items[i]) => earned

\* The locks and the client in the log.
Locking ==
    /\ pc # "over" => ~Has(items, Unlocked) /\ ~Has(items, Unsaved)
    /\ Has(items, Closed) <=> client = "closed"
    /\ Has(items, Unclosed) <=> client = "unclosed"
    /\ client = "none" => ~Has(items, Started) /\ ~Has(items, Slotted)
    /\ \A i \in Hits(items, Started) : \E j \in Hits(items, Locked) : j < i
    /\ Has(items, Unslotted) => Has(items, Slotted)

\* How the run ended, or that it has not.
Story ==
    /\ cause \in {"-", "cancelled"} => ~Has(items, Failed)
    /\ cause \notin {"-", "cancelled"} =>
         /\ Has(items, Failed) /\ ~Has(items, Completed)
         /\ LastOf(items, Failed).tag = cause /\ LastOf(items, Failed).n = attempt
    /\ success <=> Has(items, Completed)
    /\ success => LastOf(items, Completed).n = attempt /\ attempt # 0
    /\ cause # "outer_task" => ~Has(items, TimedOut)
    /\ cause = "outer_task" => \E p \in DOMAIN items : Hits(items, TimedOut) = {p}

\* The engines: how the last one ended, and the counters of the only one.
Counted ==
    /\ attempt = 0 => engines = 0
    /\ engines = 0 => ~Has(items, Final) /\ engine = NoEngine
    /\ engines # 0 => Has(items, Started)
    /\ Has(items, {"timeout_state"}) => Has(items, Final)
    /\ engines = 1 /\ Has(items, Final) =>
         LastOf(items, Final).n = engine.retries /\ LastOf(items, Final).m = engine.unconfirmed
    /\ engines < 2 /\ ~Has(items, Final) =>
         /\ engine.retries = 0 \/ \E i \in Hits(items, RetryEvents) : items[i].n = engine.retries
         /\ \A i \in Hits(items, RetryEvents) : items[i].n \in 0..engine.retries
         /\ Unconfirmed(items) = engine.unconfirmed

\* What a success was preceded by.
Succeeded ==
    /\ success => Has(items, Final) /\ Has(items, Started)
    /\ ~Has(items, {"checked_matched"}) /\ ~Has(items, {"failed_matched"})
    /\ success /\ chats = 1 => LastOf(items, Final).tag = "success"
    /\ Has(items, Started) => Has(items, Slotted)
    /\ Has(items, Slotted) =>
         Has(items, {"task_runtime_config"}) /\ Has(items, {"worker_execution_contract"})
    /\ \A j \in Hits(items, Trusted) : j - 1 \in Hits(items, Clicked)

\* A run that never left the plain path.
PlainEvents == Locked \cup Unlocked \cup Slotted \cup Unslotted \cup Started \cup Final
    \cup Completed \cup Closed \cup
    {"task_started", "task_runtime_config", "task_retry_config", "worker_execution_contract",
     "success_matched", "completed_without_result_assertion", "completed",
     "client_cleanup_started", "task_run_info_save_failed"}
PlainItem(x) == /\ x.ev \in PlainEvents
                /\ x.ev = "final_state" => x.tag = "success"
                /\ x.ev = "client_cleanup_completed" => x.tag = "-"
Plainly ==
    mishaps = 0 =>
      /\ \A i \in DOMAIN items : PlainItem(items[i])
      /\ ~late /\ cause = "-" /\ engine.raised \in {"-", "unasserted"}
      /\ pc \notin {"deferred", "lost", "backoff", "reconnect"}

\* What is true of the log while the run waits somewhere.
Recent(d) == \A i \in Hits(items, EndEvents) : i > Len(items) - d
Reach     == (IF late THEN 4 ELSE 8) + (IF pc = "deferred" THEN 1 ELSE 0)
HoldsLocks ==
    /\ client = "none" <=> pc \in {"queue", "ready"}
    /\ client \in {"none", "open"}
    /\ "account_lock" \in held <=> Has(items, Locked)
    /\ "global_concurrency" \in held <=> Has(items, Slotted) /\ ~Has(items, Unslotted)
    /\ pc = "queue" => ~Has(items, Locked)
    /\ pc \in Signs \cup {"ready", "slot"} => "account_lock" \in held
    /\ pc \in {"queue", "ready", "slot"} => ~Has(items, Slotted) /\ attempt = 0
    /\ pc = "slot" => Has(items, {"task_runtime_config"})
    /\ pc \in Signs => "global_concurrency" \in held /\ attempt # 0
    /\ pc \in Closing \cup {"done"} => "global_concurrency" \notin held
Engines ==
    /\ pc \in {"engine", "matched", "drain", "reconnect", "backoff"} => engines # 0
    /\ pc \in {"engine", "matched"} /\ engines = 1 => ~Has(items, Final)
    /\ pc = "drain" => Has(items, Final) /\ LastOf(items, Final).tag = engine.result
    /\ chat \in 1..chats
    /\ chats = 1 => good = 0
    /\ late => /\ pc \in Closing \cup {"over"} /\ engines # 0 /\ ~success
               /\ pc # "over" /\ engines = 1 => ~Has(items, Final)
Phases ==
    /\ pc \in Before => cause = "-" /\ ~success /\ ~Has(items, EndEvents)
    /\ pc = "done" => cause = "-" /\ success /\ Recent(2)
    /\ pc \in Closing /\ cause = "-" => success
    /\ pc \in {"cleaning", "deferred"} => Recent(Reach)
Places == (pc # "over" => HoldsLocks /\ Phases) /\ Engines

\* The run is over and recorded.
Kept ==
    pc = "over" =>
      /\ \E w \in WindowLengths :
           /\ report.seen = Suffix(items, w)
           /\ report.saved => \E k \in KeptLengths : report.kept = Prefix(report.seen, k)
           /\ ~report.saved => report.kept = <<>>
      /\ report.saved \in BOOLEAN
      /\ report.saved <=> ~Has(items, Unsaved)
      /\ report.saved => \A i \in Hits(items, Unlocked) : i = Len(items)
      /\ Has(items, Unlocked) <=> Has(items, Locked)
      /\ Has(items, Slotted) => Has(items, Unslotted)
      /\ \A i \in Hits(items, Closed \cup Unclosed), j \in Hits(items, Unlocked) : i < j
      /\ \A i \in Hits(items, LastEvents) : i > Len(items) - 13
      /\ client # "open"
      /\ cause = "-" => success

Inv == TypeOK /\ Sourced /\ Locking /\ Story /\ Counted /\ Succeeded /\ Plainly /\ Places /\ Kept

(***************************************************************************)
(* Reading a log.                                                          *)
(***************************************************************************)
\* A log with an item of a kind has a last one of it.
LEMMA LastHit ==
    ASSUME NEW log, IsLog(log), NEW E, Has(log, E)
    PROVE  /\ Max(Hits(log, E)) \in Hits(log, E)
           /\ \A i \in Hits(log, E) : i <= Max(Hits(log, E))
           /\ Hits(log, E) \subseteq 1..Len(log)
           /\ LastOf(log, E) = log[Max(Hits(log, E))]
           /\ LastOf(log, E).ev \in E
<1> DEFINE H == Hits(log, E)
<1>1. H \subseteq 1..Len(log) /\ Len(log) \in Nat
  BY LenProperties DEF IsLog, Hits
<1>2. H \subseteq 0..Len(log) /\ H # {}
  BY <1>1 DEF Has
<1> HIDE DEF H
<1>3. PICK x \in H : \A y \in H : y <= x
  BY <1>1, <1>2, GreatestNumber
<1>4. x \in Nat /\ \A y \in H : y \in Nat
  BY <1>1
<1>5. Max(H) \in H /\ \A y \in H : Max(H) >= y
  BY <1>3, <1>4 DEF Max
<1>6. \A y \in H : y <= Max(H)
  BY <1>4, <1>5
<1>7. LastOf(log, E) = log[Max(H)] /\ log[Max(H)].ev \in E
  BY <1>5 DEF H, LastOf, Hits, Has
<1> QED BY <1>1, <1>5, <1>6, <1>7 DEF H

(***************************************************************************)
(* Reading a log that grows.                                               *)
(***************************************************************************)
\* The new item is the last one.
LEMMA AppendItem ==
    ASSUME NEW log, IsLog(log), NEW x
    PROVE  /\ IsLog(Append(log, x))
           /\ Len(log) \in Nat /\ Len(Append(log, x)) = Len(log) + 1
           /\ \A i \in 1..Len(log) : Append(log, x)[i] = log[i]
           /\ Append(log, x)[Len(log) + 1] = x
           /\ DOMAIN log = 1..Len(log) /\ DOMAIN Append(log, x) = 1..(Len(log) + 1)
<1> DEFINE S == Range(log) \cup {x}
<1>1. log \in Seq(S) /\ x \in S
  BY SeqMonotonic DEF IsLog
<1> HIDE DEF S
<1>2. /\ Append(log, x) \in Seq(S) /\ Len(Append(log, x)) = Len(log) + 1
      /\ \A i \in 1..Len(log) : Append(log, x)[i] = log[i]
      /\ Append(log, x)[Len(log) + 1] = x
      /\ Len(log) \in Nat /\ DOMAIN log = 1..Len(log)
      /\ DOMAIN Append(log, x) = 1..(Len(log) + 1)
  BY <1>1, AppendProperties, LenProperties
<1>3. IsLog(Append(log, x))
  BY <1>2, SeqOfRange DEF IsLog
<1> QED BY <1>2, <1>3

\* One more item is one more hit, at the end, if it is of the kind.
LEMMA HitsAppend ==
    ASSUME NEW log, IsLog(log), NEW x, NEW E
    PROVE  /\ x.ev \in E => Hits(Append(log, x), E) = Hits(log, E) \cup {Len(log) + 1}
           /\ x.ev \notin E => Hits(Append(log, x), E) = Hits(log, E)
           /\ \A i \in Hits(log, E) : i \in 1..Len(log) /\ Append(log, x)[i] = log[i]
BY AppendItem DEF Hits

\* An item is there when it was there, or is the new one.
LEMMA HasAppend ==
    ASSUME NEW log, IsLog(log), NEW x, NEW E
    PROVE  Has(Append(log, x), E) <=> (Has(log, E) \/ x.ev \in E)
BY HitsAppend DEF Has

\* The last item of a kind is the new one, if it is of the kind.
LEMMA LastAppend ==
    ASSUME NEW log, IsLog(log), NEW x, NEW E
    PROVE  LastOf(Append(log, x), E) = IF x.ev \in E THEN x ELSE LastOf(log, E)
<1>1. CASE x.ev \in E
  <2>1. /\ Len(log) + 1 \in Hits(Append(log, x), E)
        /\ \A i \in Hits(Append(log, x), E) : i \in Nat /\ i <= Len(log) + 1
        /\ Len(log) \in Nat
    BY <1>1, HitsAppend, AppendItem
  <2>2. Max(Hits(Append(log, x), E)) = Len(log) + 1
    <3> DEFINE H == Hits(Append(log, x), E)
    <3> HIDE DEF H
    <3>1. \A y \in H : Len(log) + 1 >= y
      BY <2>1 DEF H
    <3>2. Max(H) \in H /\ \A y \in H : Max(H) >= y
      BY <2>1, <3>1 DEF Max, H
    <3>3. Max(H) >= Len(log) + 1 /\ Len(log) + 1 >= Max(H) /\ Max(H) \in Nat
      BY <3>1, <3>2, <2>1 DEF H
    <3> QED BY <3>3, <2>1 DEF H
  <2> QED BY <1>1, <2>1, <2>2, AppendItem DEF LastOf, Has
<1>2. CASE x.ev \notin E
  <2>1. Hits(Append(log, x), E) = Hits(log, E)
    BY <1>2, HitsAppend
  <2>2. CASE Hits(log, E) = {}
    BY <1>2, <2>1, <2>2 DEF LastOf, Has
  <2>3. CASE Hits(log, E) # {}
    <3>1. Max(Hits(log, E)) \in Hits(log, E)
      BY <2>3, LastHit DEF Has
    <3> QED BY <1>2, <2>1, <2>3, <3>1, HitsAppend DEF LastOf, Has
  <2> QED BY <2>2, <2>3
<1> QED BY <1>1, <1>2


\* The hits of a burst follow those of the log it is added to.
LEMMA HitsConcat ==
    ASSUME NEW log, IsLog(log), NEW b, IsLog(b), NEW E
    PROVE  /\ IsLog(log \o b)
           /\ Len(log \o b) = Len(log) + Len(b)
           /\ Len(log) \in Nat /\ Len(b) \in Nat
           /\ \A i \in 1..Len(log) : (log \o b)[i] = log[i]
           /\ \A i \in 1..Len(b) : (log \o b)[Len(log) + i] = b[i]
           /\ \A i \in Hits(log, E) : i \in 1..Len(log) /\ i \in Hits(log \o b, E)
           /\ \A i \in Hits(b, E) : i \in 1..Len(b) /\ Len(log) + i \in Hits(log \o b, E)
           /\ \A i \in Hits(log \o b, E) :
                i \in Hits(log, E) \/ (i - Len(log) \in Hits(b, E) /\ i = Len(log) + (i - Len(log)))
<1> DEFINE S == Range(log) \cup Range(b)
<1>1. log \in Seq(S) /\ b \in Seq(S)
  BY SeqMonotonic DEF IsLog
<1> HIDE DEF S
<1>2. /\ log \o b \in Seq(S) /\ Len(log \o b) = Len(log) + Len(b)
      /\ \A i \in 1..Len(log) + Len(b) :
            (log \o b)[i] = IF i <= Len(log) THEN log[i] ELSE b[i - Len(log)]
      /\ Len(log) \in Nat /\ DOMAIN log = 1..Len(log)
      /\ Len(b) \in Nat /\ DOMAIN b = 1..Len(b)
      /\ DOMAIN (log \o b) = 1..(Len(log) + Len(b))
  BY <1>1, ConcatProperties, LenProperties
<1>3. IsLog(log \o b)
  BY <1>2, SeqOfRange DEF IsLog
<1> QED BY <1>2, <1>3 DEF Hits

\* What is there was there, or came with the burst.
LEMMA HasConcat ==
    ASSUME NEW log, IsLog(log), NEW b, IsLog(b), NEW E
    PROVE  Has(log \o b, E) <=> (Has(log, E) \/ Has(b, E))
BY HitsConcat DEF Has

\* A burst without items of a kind leaves them as they were.
LEMMA LastConcat ==
    ASSUME NEW log, IsLog(log), NEW b, IsLog(b), NEW E, ~Has(b, E)
    PROVE  /\ Hits(log \o b, E) = Hits(log, E)
           /\ LastOf(log \o b, E) = LastOf(log, E)
<1>1. Hits(log \o b, E) = Hits(log, E)
  <2>1. Hits(b, E) = {}
    BY DEF Has
  <2>2. Hits(log, E) \subseteq Hits(log \o b, E)
    BY HitsConcat
  <2>3. Hits(log \o b, E) \subseteq Hits(log, E)
    BY <2>1, HitsConcat
  <2> QED BY <2>2, <2>3
<1>2. CASE Has(log, E)
  <2>1. Max(Hits(log, E)) \in 1..Len(log)
    BY <1>2, LastHit
  <2> QED BY <1>1, <1>2, <2>1, HitsConcat DEF LastOf, Has
<1>3. CASE ~Has(log, E)
  BY <1>1, <1>3 DEF LastOf, Has
<1> QED BY <1>1, <1>2, <1>3

\* Short bursts, item by item.
LEMMA ConcatItems ==
    ASSUME NEW log, IsLog(log), NEW x, NEW y, NEW z
    PROVE  /\ log \o <<>> = log
           /\ log \o <<x>> = Append(log, x)
           /\ log \o <<x, y>> = Append(Append(log, x), y)
           /\ log \o <<x, y, z>> = Append(Append(Append(log, x), y), z)
<1> DEFINE S == Range(log) \cup {x, y, z}
<1>1. log \in Seq(S) /\ x \in S /\ y \in S /\ z \in S
  BY SeqMonotonic DEF IsLog
<1> HIDE DEF S
<1>2. log \o <<>> = log /\ log \o <<x>> = Append(log, x)
  BY <1>1, ConcatEmptySeq, AppendIsConcat
<1>3. /\ Append(log, x) \in Seq(S) /\ Append(Append(log, x), y) \in Seq(S)
      /\ <<x>> \in Seq(S) /\ <<y>> \in Seq(S) /\ <<z>> \in Seq(S) /\ <<x, y>> \in Seq(S)
  BY <1>1, AppendProperties
<1>4. log \o <<x, y>> = (log \o <<x>>) \o <<y>>
  <2>1. <<x, y>> = <<x>> \o <<y>>
    <3>1. <<x>> \o <<y>> \in Seq(S) /\ Len(<<x>> \o <<y>>) = 2
      BY <1>3, ConcatProperties
    <3>2. (<<x>> \o <<y>>)[1] = x /\ (<<x>> \o <<y>>)[2] = y
      BY <1>3, ConcatProperties
    <3>3. \A i \in 1..2 : <<x, y>>[i] = (<<x>> \o <<y>>)[i]
      BY <3>2
    <3> QED BY <1>3, <3>1, <3>3, SeqEqual
  <2> QED BY <1>1, <1>3, <2>1, ConcatAssociative
<1>5. log \o <<x, y, z>> = (log \o <<x, y>>) \o <<z>>
  <2>1. <<x, y, z>> = <<x, y>> \o <<z>>
    <3>1. <<x, y>> \o <<z>> \in Seq(S) /\ Len(<<x, y>> \o <<z>>) = 3
      BY <1>3, ConcatProperties
    <3>2. /\ (<<x, y>> \o <<z>>)[1] = x /\ (<<x, y>> \o <<z>>)[2] = y
          /\ (<<x, y>> \o <<z>>)[3] = z
      BY <1>3, ConcatProperties
    <3>3. \A i \in 1..3 : <<x, y, z>>[i] = (<<x, y>> \o <<z>>)[i]
      BY <3>2
    <3>4. <<x, y, z>> \in Seq(S)
      BY <1>1
    <3> QED BY <3>1, <3>3, <3>4, SeqEqual
  <2> QED BY <1>1, <1>3, <2>1, ConcatAssociative
<1> QED BY <1>1, <1>2, <1>3, <1>4, <1>5, AppendIsConcat

\* An item of the log is a record of its event, one text and two numbers.
LEMMA ItemParts ==
    ASSUME NEW e, NEW t, NEW n, NEW m
    PROVE  /\ Item(e, t, n, m).ev = e /\ Item(e, t, n, m).tag = t
           /\ Item(e, t, n, m).n = n /\ Item(e, t, n, m).m = m
           /\ I(e).ev = e /\ I(e).tag = "-" /\ I(e).n = 0 /\ I(e).m = 0
           /\ Tag(e, t).ev = e /\ Tag(e, t).tag = t /\ Tag(e, t).n = 0 /\ Tag(e, t).m = 0
           /\ Num(e, n).ev = e /\ Num(e, n).tag = "-" /\ Num(e, n).n = n /\ Num(e, n).m = 0
BY DEF Item, I, Tag, Num

(***************************************************************************)
(* What a step adds to the log: at most k items, all of them from X.       *)
(***************************************************************************)
Grows(old, new, X, k) ==
    /\ IsLog(old) /\ IsLog(new)
    /\ Len(old) \in Nat /\ Len(new) \in Len(old)..(Len(old) + k)
    /\ DOMAIN old = 1..Len(old) /\ DOMAIN new = 1..Len(new)
    /\ \A i \in 1..Len(old) : new[i] = old[i]
    /\ \A i \in (Len(old) + 1)..Len(new) : new[i] \in X

\* One item.
LEMMA GrowsAppend ==
    ASSUME NEW log, IsLog(log), NEW x
    PROVE  Grows(log, Append(log, x), {x}, 1)
BY AppendItem DEF Grows

\* A burst.
LEMMA GrowsConcat ==
    ASSUME NEW log, IsLog(log), NEW b, IsLog(b), NEW X, \A i \in DOMAIN b : b[i] \in X
    PROVE  Grows(log, log \o b, X, Len(b))
<1>1. /\ Len(log) \in Nat /\ DOMAIN log = 1..Len(log)
      /\ Len(b) \in Nat /\ DOMAIN b = 1..Len(b)
  BY LenProperties DEF IsLog
<1>2. /\ IsLog(log \o b) /\ Len(log \o b) = Len(log) + Len(b)
      /\ \A i \in 1..Len(log) : (log \o b)[i] = log[i]
      /\ \A i \in 1..Len(b) : (log \o b)[Len(log) + i] = b[i]
  BY HitsConcat
<1>3. DOMAIN (log \o b) = 1..Len(log \o b)
  BY <1>2, LenProperties DEF IsLog
<1>4. ASSUME NEW i \in (Len(log) + 1)..Len(log \o b) PROVE (log \o b)[i] \in X
  <2>1. i - Len(log) \in 1..Len(b) /\ i = Len(log) + (i - Len(log))
    BY <1>1, <1>2
  <2> QED BY <1>1, <1>2, <2>1
<1> QED BY <1>1, <1>2, <1>3, <1>4 DEF Grows

\* No item.
LEMMA GrowsSame ==
    ASSUME NEW log, IsLog(log), NEW X
    PROVE  Grows(log, log, X, 0)
BY LenProperties DEF IsLog, Grows

\* One step after another.
LEMMA GrowsThen ==
    ASSUME NEW a, NEW b, NEW c, NEW X, NEW Y, NEW k \in Nat, NEW l \in Nat,
           Grows(a, b, X, k), Grows(b, c, Y, l)
    PROVE  Grows(a, c, X \cup Y, k + l)
BY DEF Grows

\* The items that were there stay at their places.
LEMMA GrowsPlaces ==
    ASSUME NEW a, NEW b, NEW X, NEW k \in Nat, Grows(a, b, X, k)
    PROVE  /\ DOMAIN a \subseteq DOMAIN b
           /\ \A i \in DOMAIN a : b[i] = a[i] /\ i \in 1..Len(a)
           /\ \A i \in DOMAIN b : i \in DOMAIN a \/ (i > Len(a) /\ b[i] \in X)
           /\ \A i \in DOMAIN b : i \in 1..Len(b)
           /\ Len(a) \in Nat /\ Len(b) \in Nat /\ Len(b) <= Len(a) + k
           /\ IsLog(a) /\ IsLog(b)
<1>1. /\ Len(a) \in Nat /\ Len(b) \in Nat /\ Len(a) <= Len(b) /\ Len(b) <= Len(a) + k
      /\ DOMAIN a = 1..Len(a) /\ DOMAIN b = 1..Len(b)
      /\ \A i \in 1..Len(a) : b[i] = a[i]
      /\ \A i \in (Len(a) + 1)..Len(b) : b[i] \in X
      /\ IsLog(a) /\ IsLog(b)
  BY DEF Grows
<1> QED BY <1>1

\* An item that is there stays; a new one is one of those that were added.
LEMMA GrowsHas ==
    ASSUME NEW a, NEW b, NEW X, NEW k \in Nat, Grows(a, b, X, k), NEW E
    PROVE  /\ Hits(a, E) \subseteq Hits(b, E)
           /\ \A i \in Hits(b, E) : i \in Hits(a, E) \/ (i > Len(a) /\ b[i] \in X)
           /\ Has(a, E) => Has(b, E)
           /\ Has(b, E) => (Has(a, E) \/ \E x \in X : x.ev \in E)
<1>1. Hits(a, E) \subseteq Hits(b, E)
  BY DEF Grows, Hits
<1>2. \A i \in Hits(b, E) : i \in Hits(a, E) \/ (i > Len(a) /\ b[i] \in X /\ b[i].ev \in E)
  BY DEF Grows, Hits
<1> QED BY <1>1, <1>2 DEF Has

\* What is not of a kind leaves the items of the kind as they were.
LEMMA GrowsKeeps ==
    ASSUME NEW a, NEW b, NEW X, NEW k \in Nat, Grows(a, b, X, k), NEW E,
           \A x \in X : x.ev \notin E
    PROVE  /\ Hits(b, E) = Hits(a, E)
           /\ Has(b, E) <=> Has(a, E)
           /\ LastOf(b, E) = LastOf(a, E)
           /\ \A i \in Hits(a, E) : b[i] = a[i]
<1>1. Hits(b, E) = Hits(a, E) /\ \A i \in Hits(a, E) : b[i] = a[i]
  BY DEF Grows, Hits
<1>2. Has(b, E) <=> Has(a, E)
  BY <1>1 DEF Has
<1>3. CASE Has(a, E)
  <2>1. Max(Hits(a, E)) \in Hits(a, E)
    BY <1>3, LastHit DEF Grows
  <2> QED BY <1>1, <1>2, <1>3, <2>1 DEF LastOf
<1>4. CASE ~Has(a, E)
  BY <1>1, <1>2, <1>4 DEF LastOf
<1> QED BY <1>1, <1>2, <1>3, <1>4

\* So do the callbacks that were not confirmed.
LEMMA GrowsUnconfirmed ==
    ASSUME NEW a, NEW b, NEW X, NEW k \in Nat, Grows(a, b, X, k),
           \A x \in X : x.ev # "button_callback_result"
    PROVE  Unconfirmed(b) = Unconfirmed(a)
<1>1. /\ Hits(b, {"button_callback_result"}) = Hits(a, {"button_callback_result"})
      /\ \A i \in Hits(a, {"button_callback_result"}) : b[i] = a[i]
  BY GrowsKeeps
<1> QED BY <1>1 DEF Unconfirmed, With

(***************************************************************************)
(* Each part of the invariant under a step that does not touch it.         *)
(***************************************************************************)
\* Only who knows of a result tells of it.
LEMMA SourcedStep ==
    ASSUME Sourced, NEW X, NEW k \in Nat, Grows(items, items', X, k),
           earned => earned', engine'.result = "success" => earned',
           \A x \in X : Tells(x) => earned'
    PROVE  Sourced'
BY DEF Sourced, Grows

LockEvents == Locked \cup Unlocked \cup Slotted \cup Unslotted \cup Started \cup Closed
                 \cup Unclosed \cup Unsaved
\* A step that logs nothing of locks, engines or the client.
LEMMA LockingKept ==
    ASSUME Locking, NEW X, NEW k \in Nat, Grows(items, items', X, k),
           \A x \in X : x.ev \notin LockEvents,
           client' = client \/ (client = "none" /\ client' = "open"),
           pc # "over"
    PROVE  Locking'
<1>1. \A E \in {Locked, Unlocked, Slotted, Unslotted, Started, Closed, Unclosed, Unsaved} :
        /\ Hits(items', E) = Hits(items, E)
        /\ Has(items', E) <=> Has(items, E)
  <2>1. ASSUME NEW E \in {Locked, Unlocked, Slotted, Unslotted, Started, Closed, Unclosed, Unsaved}
        PROVE  \A x \in X : x.ev \notin E
    BY DEF LockEvents
  <2> QED BY <2>1, GrowsKeeps
<1> QED BY <1>1 DEF Locking

\* A step that logs nothing of how the run ends.
LEMMA StoryKept ==
    ASSUME Story, NEW X, NEW k \in Nat, Grows(items, items', X, k),
           \A x \in X : x.ev \notin Failed \cup Completed \cup TimedOut,
           cause' = cause, success' = success,
           attempt' = attempt \/ (cause = "-" /\ ~success)
    PROVE  Story'
<1>1. ASSUME NEW E, \A x \in X : x.ev \notin E
      PROVE  /\ Hits(items', E) = Hits(items, E)
             /\ Has(items', E) <=> Has(items, E)
             /\ LastOf(items', E) = LastOf(items, E)
  BY <1>1, GrowsKeeps
<1>2. DOMAIN items \subseteq DOMAIN items'
  BY GrowsPlaces
<1> QED BY <1>1, <1>2 DEF Story

CountEvents == Final \cup RetryEvents \cup {"button_callback_result", "timeout_state"}
\* A step that logs no counter.
LEMMA CountedKept ==
    ASSUME Counted, NEW X, NEW k \in Nat, Grows(items, items', X, k),
           \A x \in X : x.ev \notin CountEvents,
           engine' = engine, engines' = engines, attempt' = 0 => attempt = 0
    PROVE  Counted'
<1>1. \A E \in {Final, RetryEvents, {"timeout_state"}} :
        /\ Hits(items', E) = Hits(items, E)
        /\ Has(items', E) <=> Has(items, E)
        /\ LastOf(items', E) = LastOf(items, E)
        /\ \A i \in Hits(items, E) : items'[i] = items[i]
  <2>1. ASSUME NEW E \in {Final, RetryEvents, {"timeout_state"}} PROVE \A x \in X : x.ev \notin E
    BY DEF CountEvents
  <2> QED BY <2>1, GrowsKeeps
<1>2. Unconfirmed(items') = Unconfirmed(items)
  BY GrowsUnconfirmed DEF CountEvents
<1>3. Has(items, Started) => Has(items', Started)
  BY GrowsHas
<1> QED BY <1>1, <1>2, <1>3 DEF Counted

\* A step that is neither an engine's end nor a trusted callback.
LEMMA SucceededKept ==
    ASSUME Succeeded, NEW X, NEW k \in Nat, Grows(items, items', X, k),
           \A x \in X : x.ev \notin Trusted \cup {"checked_matched", "failed_matched"},
           \A x \in X : x.ev \in Started \cup Slotted => FALSE,
           success' = success, chats' = chats,
           success => \A x \in X : x.ev \notin Final
    PROVE  Succeeded'
<1>1. \A E \in {Trusted, {"checked_matched"}, {"failed_matched"}, Started, Slotted} :
        Hits(items', E) = Hits(items, E) /\ (Has(items', E) <=> Has(items, E))
  <2>1. ASSUME NEW E \in {Trusted, {"checked_matched"}, {"failed_matched"}, Started, Slotted}
        PROVE  \A x \in X : x.ev \notin E
    OBVIOUS
  <2> QED BY <2>1, GrowsKeeps
<1>2. \A E : Has(items, E) => Has(items', E)
  BY GrowsHas
<1>3. Hits(items, Clicked) \subseteq Hits(items', Clicked)
  BY GrowsHas
<1>4. success => LastOf(items', Final) = LastOf(items, Final)
  BY GrowsKeeps
<1> QED BY <1>1, <1>2, <1>3, <1>4 DEF Succeeded

\* A step off the plain path says nothing of the plain one ...
LEMMA PlainlyMishap ==
    ASSUME TypeOK, mishaps' # 0 PROVE Plainly'
BY DEF Plainly

\* ... and a step on it stays on it.
LEMMA PlainlyStep ==
    ASSUME Plainly, NEW X, NEW k \in Nat, Grows(items, items', X, k),
           mishaps' = mishaps, \A x \in X : PlainItem(x),
           mishaps = 0 => /\ ~late' /\ cause' = "-" /\ engine'.raised \in {"-", "unasserted"}
                          /\ pc' \notin {"deferred", "lost", "backoff", "reconnect"}
    PROVE  Plainly'
<1>1. ASSUME mishaps = 0, NEW i \in DOMAIN items' PROVE PlainItem(items'[i])
  <2>1. (i \in DOMAIN items /\ items'[i] = items[i]) \/ items'[i] \in X
    BY GrowsPlaces
  <2> QED BY <1>1, <2>1 DEF Plainly
<1> QED BY <1>1 DEF Plainly

\* The end of a run moves back in the log with every item.
LEMMA RecentStep ==
    ASSUME NEW d \in Nat, Recent(d), NEW X, NEW k \in Nat, Grows(items, items', X, k),
           \A x \in X : x.ev \notin EndEvents
    PROVE  \A i \in Hits(items', EndEvents) : i > Len(items') - (d + k)
<1>1. Hits(items', EndEvents) = Hits(items, EndEvents)
  BY GrowsKeeps
<1>2. Len(items) \in Nat /\ Len(items') \in Nat /\ Len(items') <= Len(items) + k
      /\ \A i \in Hits(items, EndEvents) : i \in Nat
  BY DEF Grows, Hits
<1> QED BY <1>1, <1>2 DEF Recent

(***************************************************************************)
(* The steps.                                                              *)
(***************************************************************************)
Same(E) == /\ Hits(items', E) = Hits(items, E)
           /\ Has(items', E) <=> Has(items, E)
           /\ LastOf(items', E) = LastOf(items, E)

KeyEvents == LockEvents \cup EndEvents \cup CountEvents \cup Trusted \cup Matched
                \cup {"checked_matched", "failed_matched", "completed"}

\* Places at which a run holds the same locks.
SameLocks == pc' = pc \/ (pc \in Signs /\ pc' \in Signs) \/ (pc \in Closing /\ pc' \in Closing)

\* A step of a run that logs nothing the invariant speaks of.
LEMMA QuietStep ==
    ASSUME Inv, NEW X, NEW k \in Nat, Grows(items, items', X, k),
           \A x \in X : x.ev \notin KeyEvents,
           UNCHANGED <<Task, engine, engines, attempt, late, earned, success, cause, held, client,
                       report>>,
           pc # "over", pc' # "over", SameLocks
    PROVE  /\ Sourced' /\ Locking' /\ Story' /\ Counted' /\ Succeeded' /\ HoldsLocks' /\ Kept'
           /\ Same(Final) /\ Same(EndEvents)
<1>1. Sourced'
  <2>1. \A x \in X : ~Tells(x)
    BY DEF Tells, KeyEvents, CountEvents, Final
  <2> QED BY <2>1, SourcedStep DEF Inv, Sourced
<1>2. Locking'
  BY LockingKept DEF Inv, KeyEvents
<1>3. Story'
  <2>1. \A x \in X : x.ev \notin Failed \cup Completed \cup TimedOut
    BY DEF KeyEvents, EndEvents
  <2> QED BY <2>1, StoryKept DEF Inv
<1>4. Counted'
  BY CountedKept DEF Inv, KeyEvents
<1>5. Succeeded'
  <2>1. /\ \A x \in X : x.ev \notin Trusted \cup {"checked_matched", "failed_matched"}
        /\ \A x \in X : x.ev \in Started \cup Slotted => FALSE
        /\ \A x \in X : x.ev \notin Final
    BY DEF KeyEvents, CountEvents, LockEvents
  <2> QED BY <2>1, SucceededKept DEF Inv, Task
<1>6. Same(Final) /\ Same(EndEvents) /\ Same(Locked) /\ Same(Slotted) /\ Same(Unslotted)
  <2>1. \A x \in X : x.ev \notin Final
    BY DEF KeyEvents, CountEvents
  <2>2. \A x \in X : x.ev \notin EndEvents
    BY DEF KeyEvents
  <2>3. \A x \in X : x.ev \notin Locked /\ x.ev \notin Slotted /\ x.ev \notin Unslotted
    BY DEF KeyEvents, LockEvents
  <2> QED BY <2>1, <2>2, <2>3, GrowsKeeps DEF Same
<1>7. HoldsLocks'
  <2>1. HoldsLocks
    BY DEF Inv, Places
  <2>2. Has(items, {"task_runtime_config"}) => Has(items', {"task_runtime_config"})
    BY GrowsHas
  <2> QED BY <1>6, <2>1, <2>2 DEF HoldsLocks, Same, SameLocks, Signs, Signing, Closing
<1>8. Kept'
  BY DEF Kept
<1> QED BY <1>1, <1>2, <1>3, <1>4, <1>5, <1>6, <1>7, <1>8

QuietEvents == {"account_lock_wait_started", "account_lock_wait_timeout", "task_started",
    "task_runtime_config", "task_retry_config", "global_concurrency_wait_started",
    "global_concurrency_wait_timeout", "client_rpc_hard_timeout", "client_startup_retry_scheduled",
    "session_retry", "captcha_recognized", "message_processing_cancelled", "task_retry_scheduled",
    "task_retry_started", "client_cleanup_started", "task_cancellation_deferred_for_cleanup",
    "worker_execution_contract", "completed_without_result_assertion",
    "task_run_late_cancelled", "task_run_late_completed", "task_run_late_exception",
    "client_cleanup_late_cancelled", "client_cleanup_late_completed",
    "client_cleanup_late_exception"}

\* These are among what the invariant does not speak of.
LEMMA Quiet == \A e \in QuietEvents : e \notin KeyEvents
BY DEF QuietEvents, KeyEvents, LockEvents, EndEvents, CountEvents, RetryEvents, RetryFailures,
   Final, Trusted, Matched, Locked, Unlocked, Slotted, Unslotted, Started, Closed, Unclosed,
   Unsaved, Failed, Completed, TimedOut

\* Waiting for the account's lock.
LEMMA LockIsBusyKeeps == ASSUME Inv, LockIsBusy PROVE Inv'
<1> DEFINE x == I("account_lock_wait_started")
<1>1. Grows(items, items', {x}, 1)
  <2>1. IsLog(items) /\ items' = Append(items, x)
    BY ConcatItems DEF Inv, TypeOK, LockIsBusy
  <2> QED BY <2>1, GrowsAppend
<1>2. x.ev = "account_lock_wait_started"
  BY ItemParts
<1>3. x.ev \notin KeyEvents
  BY <1>2, Quiet DEF QuietEvents
<1> HIDE DEF x
<1>4. /\ Sourced' /\ Locking' /\ Story' /\ Counted' /\ Succeeded' /\ HoldsLocks' /\ Kept'
      /\ Same(Final) /\ Same(EndEvents)
  BY <1>1, <1>3, QuietStep DEF LockIsBusy, Signer, Ending, SameLocks
<1>5. TypeOK'
  BY <1>1 DEF Inv, TypeOK, LockIsBusy, Mishap, Task, Signer, Ending, Grows
<1>6. Plainly'
  BY <1>5, PlainlyMishap DEF LockIsBusy, Mishap, Inv, TypeOK
<1>7. Engines' /\ Phases'
  BY <1>4 DEF LockIsBusy, Task, Signer, Ending, Inv, Places, Engines, Phases, Same, Before
<1> QED BY <1>4, <1>5, <1>6, <1>7 DEF Inv, Places

\* The client, about to start.
LEMMA ClientTroubleKeeps == ASSUME Inv, ClientTrouble PROVE Inv'
<1>0. PICK e \in {"client_rpc_hard_timeout", "client_startup_retry_scheduled"} :
        items' = Append(items, I(e))
  BY DEF ClientTrouble
<1> DEFINE x == I(e)
<1>1. Grows(items, items', {x}, 1)
  BY <1>0, GrowsAppend DEF Inv, TypeOK
<1>3. \A y \in {x} : y.ev \notin KeyEvents
  <2>1. e \in QuietEvents
    BY DEF QuietEvents
  <2> QED BY <2>1, ItemParts, Quiet
<1> HIDE DEF x
<1>4. /\ Sourced' /\ Locking' /\ Story' /\ Counted' /\ Succeeded' /\ HoldsLocks' /\ Kept'
      /\ Same(Final) /\ Same(EndEvents)
  BY <1>1, <1>3, QuietStep DEF ClientTrouble, Task, Signer, Ending, SameLocks, Signs, Signing, Closing
<1>5. TypeOK'
  BY <1>1 DEF Inv, TypeOK, ClientTrouble, Mishap, Plain, Task, Signer, Ending, Grows, Rewind, Signs, Signing,
     Before, Closing
<1>6. Plainly'
  BY <1>5, PlainlyMishap DEF ClientTrouble, Mishap, Inv, TypeOK
<1>7. Engines' /\ Phases'
  BY <1>4 DEF ClientTrouble, Task, Signer, Ending, Inv, Places, Engines, Phases, Same, Before, Signs, Signing,
     Closing, Rewind, TypeOK
<1> QED BY <1>4, <1>5, <1>6, <1>7 DEF Inv, Places

\* The signer starts again with the first chat.
LEMMA SessionRetryKeeps == ASSUME Inv, SessionRetry PROVE Inv'
<1> DEFINE x == I("session_retry")
<1>1. Grows(items, items', {x}, 1)
  <2>1. IsLog(items) /\ items' = Append(items, x)
    BY DEF Inv, TypeOK, SessionRetry
  <2> QED BY <2>1, GrowsAppend
<1>3. \A y \in {x} : y.ev \notin KeyEvents
  BY ItemParts, Quiet DEF QuietEvents
<1> HIDE DEF x
<1>4. /\ Sourced' /\ Locking' /\ Story' /\ Counted' /\ Succeeded' /\ HoldsLocks' /\ Kept'
      /\ Same(Final) /\ Same(EndEvents)
  BY <1>1, <1>3, QuietStep DEF SessionRetry, Task, Signer, Ending, SameLocks, Signs, Signing, Closing
<1>5. TypeOK'
  BY <1>1 DEF Inv, TypeOK, SessionRetry, Mishap, Plain, Task, Signer, Ending, Grows, Rewind, Signs, Signing,
     Before, Closing
<1>6. Plainly'
  BY <1>5, PlainlyMishap DEF SessionRetry, Mishap, Inv, TypeOK
<1>7. Engines' /\ Phases'
  BY <1>4 DEF SessionRetry, Task, Signer, Ending, Inv, Places, Engines, Phases, Same, Before, Signs, Signing,
     Closing, Rewind, TypeOK
<1> QED BY <1>4, <1>5, <1>6, <1>7 DEF Inv, Places

\* A picture is read after the result.
LEMMA LateOcrKeeps == ASSUME Inv, LateOcr PROVE Inv'
<1> DEFINE x == I("captcha_recognized")
<1>1. Grows(items, items', {x}, 1)
  <2>1. IsLog(items) /\ items' = Append(items, x)
    BY DEF Inv, TypeOK, LateOcr
  <2> QED BY <2>1, GrowsAppend
<1>3. \A y \in {x} : y.ev \notin KeyEvents
  BY ItemParts, Quiet DEF QuietEvents
<1> HIDE DEF x
<1>4. /\ Sourced' /\ Locking' /\ Story' /\ Counted' /\ Succeeded' /\ HoldsLocks' /\ Kept'
      /\ Same(Final) /\ Same(EndEvents)
  BY <1>1, <1>3, QuietStep DEF LateOcr, Task, Signer, Ending, SameLocks, Signs, Signing, Closing
<1>5. TypeOK'
  BY <1>1 DEF Inv, TypeOK, LateOcr, Mishap, Plain, Task, Signer, Ending, Grows, Rewind, Signs, Signing,
     Before, Closing
<1>6. Plainly'
  BY <1>5, PlainlyMishap DEF LateOcr, Mishap, Inv, TypeOK
<1>7. Engines' /\ Phases'
  BY <1>4 DEF LateOcr, Task, Signer, Ending, Inv, Places, Engines, Phases, Same, Before, Signs, Signing,
     Closing, Rewind, TypeOK
<1> QED BY <1>4, <1>5, <1>6, <1>7 DEF Inv, Places

\* The connection is lost.
LEMMA ConnectionLostKeeps == ASSUME Inv, ConnectionLost PROVE Inv'
<1>1. Grows(items, items', {}, 0)
  BY GrowsSame DEF Inv, TypeOK, ConnectionLost
<1>3. \A y \in {} : y.ev \notin KeyEvents
  OBVIOUS
<1>4. /\ Sourced' /\ Locking' /\ Story' /\ Counted' /\ Succeeded' /\ HoldsLocks' /\ Kept'
      /\ Same(Final) /\ Same(EndEvents)
  BY <1>1, <1>3, QuietStep DEF ConnectionLost, Task, Signer, Ending, SameLocks, Signs, Signing, Closing
<1>5. TypeOK'
  BY <1>1 DEF Inv, TypeOK, ConnectionLost, Mishap, Plain, Task, Signer, Ending, Grows, Rewind, Signs, Signing,
     Before, Closing
<1>6. Plainly'
  BY DEF ConnectionLost, Inv, Plainly, Plain, Signer
<1>7. Engines' /\ Phases'
  BY <1>4 DEF ConnectionLost, Task, Signer, Ending, Inv, Places, Engines, Phases, Same, Before, Signs, Signing,
     Closing, Rewind, TypeOK
<1> QED BY <1>4, <1>5, <1>6, <1>7 DEF Inv, Places

\* Half a minute later.
LEMMA ReconnectKeeps == ASSUME Inv, Reconnect PROVE Inv'
<1>1. Grows(items, items', {}, 0)
  BY GrowsSame DEF Inv, TypeOK, Reconnect
<1>3. \A y \in {} : y.ev \notin KeyEvents
  OBVIOUS
<1>4. /\ Sourced' /\ Locking' /\ Story' /\ Counted' /\ Succeeded' /\ HoldsLocks' /\ Kept'
      /\ Same(Final) /\ Same(EndEvents)
  BY <1>1, <1>3, QuietStep DEF Reconnect, Task, Signer, Ending, SameLocks, Signs, Signing, Closing
<1>5. TypeOK'
  BY <1>1 DEF Inv, TypeOK, Reconnect, Mishap, Plain, Task, Signer, Ending, Grows, Rewind, Signs, Signing,
     Before, Closing
<1>6. Plainly'
  BY DEF Reconnect, Inv, Plainly, Plain
<1>7. Engines' /\ Phases'
  BY <1>4 DEF Reconnect, Task, Signer, Ending, Inv, Places, Engines, Phases, Same, Before, Signs, Signing,
     Closing, Rewind, TypeOK
<1> QED BY <1>4, <1>5, <1>6, <1>7 DEF Inv, Places

\* A cancellation waits for the cleanup.
LEMMA DeferCancelKeeps == ASSUME Inv, DeferCancel PROVE Inv'
<1> DEFINE x == I("task_cancellation_deferred_for_cleanup")
<1>1. Grows(items, items', {x}, 1)
  <2>1. IsLog(items) /\ items' = Append(items, x)
    BY DEF Inv, TypeOK, DeferCancel
  <2> QED BY <2>1, GrowsAppend
<1>3. \A y \in {x} : y.ev \notin KeyEvents
  BY ItemParts, Quiet DEF QuietEvents
<1> HIDE DEF x
<1>4. /\ Sourced' /\ Locking' /\ Story' /\ Counted' /\ Succeeded' /\ HoldsLocks' /\ Kept'
      /\ Same(Final) /\ Same(EndEvents)
  BY <1>1, <1>3, QuietStep DEF DeferCancel, Task, Signer, Ending, SameLocks, Signs, Signing, Closing
<1>5. TypeOK'
  BY <1>1 DEF Inv, TypeOK, DeferCancel, Mishap, Plain, Task, Signer, Ending, Grows, Rewind, Signs, Signing,
     Before, Closing
<1>6. Plainly'
  BY <1>5, PlainlyMishap DEF DeferCancel, Mishap, Inv, TypeOK
<1>7. Engines' /\ Phases'
  <2>1. Engines'
    BY <1>4 DEF DeferCancel, Task, Signer, Ending, Inv, Places, Engines, Same, Closing
  <2>2. \A i \in Hits(items', EndEvents) : i > Len(items') - (Reach + 1)
    <3>1. Reach \in Nat /\ Recent(Reach)
      BY DEF DeferCancel, Inv, Places, Phases, Reach
    <3>2. \A y \in {x} : y.ev \notin EndEvents
      BY <1>3 DEF KeyEvents
    <3> QED BY <1>1, <3>1, <3>2, RecentStep
  <2>3. Reach' = Reach + 1
    BY DEF DeferCancel, Signer, Reach
  <2> QED BY <2>1, <2>2, <2>3 DEF DeferCancel, Signer, Ending, Inv, Places, Phases, Recent, Before, Signs,
          Signing, Closing
<1> QED BY <1>4, <1>5, <1>6, <1>7 DEF Inv, Places

\* A second cancellation does not wait.
LEMMA CancelAgainKeeps == ASSUME Inv, CancelAgain PROVE Inv'
<1>1. Grows(items, items', {}, 0)
  BY GrowsSame DEF Inv, TypeOK, CancelAgain
<1>3. \A y \in {} : y.ev \notin KeyEvents
  OBVIOUS
<1>4. /\ Sourced' /\ Locking' /\ Story' /\ Counted' /\ Succeeded' /\ HoldsLocks' /\ Kept'
      /\ Same(Final) /\ Same(EndEvents)
  BY <1>1, <1>3, QuietStep DEF CancelAgain, Task, Signer, Ending, SameLocks, Signs, Signing, Closing
<1>5. TypeOK'
  BY <1>1 DEF Inv, TypeOK, CancelAgain, Mishap, Plain, Task, Signer, Ending, Grows, Rewind, Signs, Signing,
     Before, Closing
<1>6. Plainly'
  BY <1>5, PlainlyMishap DEF CancelAgain, Mishap, Inv, TypeOK
<1>7. Engines' /\ Phases'
  BY <1>4 DEF CancelAgain, Task, Signer, Ending, Inv, Places, Engines, Phases, Same, Before, Signs,
     Signing, Closing
<1> QED BY <1>4, <1>5, <1>6, <1>7 DEF Inv, Places

\* The account's lock.
LEMMA AcquireAccountLockKeeps == ASSUME Inv, AcquireAccountLock PROVE Inv'
<1> DEFINE x == I("account_lock_acquired")
<1>0. IsLog(items) /\ items' = Append(items, x)
  BY DEF Inv, TypeOK, AcquireAccountLock
<1>1. Grows(items, items', {x}, 1)
  BY <1>0, GrowsAppend
<1>2. x.ev = "account_lock_acquired"
  BY ItemParts
<1>3. \A E : x.ev \notin E => Same(E)
  BY <1>1, GrowsKeeps DEF Same
<1>4. Has(items', Locked) /\ ~Has(items, Locked)
  BY <1>0, <1>2, HasAppend DEF Locked, AcquireAccountLock, Inv, Places, HoldsLocks
<1> HIDE DEF x
<1>5. ~Has(items, Started) /\ ~Has(items, Slotted) /\ client = "none"
  BY DEF Inv, Places, HoldsLocks, Locking, AcquireAccountLock
<1>a. TypeOK'
  BY <1>1 DEF Inv, TypeOK, AcquireAccountLock, Plain, Task, Signer, Ending, Grows, Signs, Signing,
     Before, Closing, Locks
<1>b. Sourced'
  BY <1>1, <1>2, SourcedStep DEF Inv, Sourced, AcquireAccountLock, Signer, Tells, Matched
<1>c. Locking'
  <2>1. /\ Same(Unlocked) /\ Same(Unsaved) /\ Same(Closed) /\ Same(Unclosed) /\ Same(Started)
        /\ Same(Slotted) /\ Same(Unslotted)
    BY <1>2, <1>3 DEF Unlocked, Unsaved, Closed, Unclosed, Started, Slotted, Unslotted
  <2> QED BY <1>4, <1>5, <2>1 DEF Inv, Locking, Same, AcquireAccountLock, Has
<1>d. Story'
  BY <1>1, <1>2, StoryKept DEF Inv, AcquireAccountLock, Signer, Ending, Failed, Completed, TimedOut
<1>e. Counted'
  BY <1>1, <1>2, CountedKept DEF Inv, AcquireAccountLock, Signer, CountEvents, Final, RetryEvents,
     RetryFailures
<1>f. Succeeded'
  BY <1>1, <1>2, SucceededKept DEF Inv, AcquireAccountLock, Task, Ending, Trusted, Started, Slotted,
     Final
<1>g. Plainly'
  <2>1. PlainItem(x)
    BY <1>2 DEF PlainItem, PlainEvents, Locked
  <2> QED BY <1>1, <2>1, PlainlyStep DEF Inv, Plainly, AcquireAccountLock, Plain, Signer, Ending
<1>h. Places'
  <2>1. Same(Final) /\ Same(EndEvents) /\ Same(Slotted) /\ Same(Unslotted)
    BY <1>2, <1>3 DEF Final, EndEvents, Unslotted, Failed, Completed, TimedOut, Slotted
  <2>2. HoldsLocks'
    BY <1>4, <1>5, <2>1 DEF AcquireAccountLock, Task, Signer, Ending, Inv, Places, HoldsLocks, Same,
       Signs, Signing, Closing
  <2>3. Engines' /\ Phases'
    BY <2>1 DEF AcquireAccountLock, Task, Signer, Ending, Inv, Places, Engines, Phases, Same, Before,
       Signs, Signing, Closing
  <2> QED BY <2>2, <2>3 DEF Places
<1>i. Kept'
  BY DEF Kept, AcquireAccountLock
<1> QED BY <1>a, <1>b, <1>c, <1>d, <1>e, <1>f, <1>g, <1>h, <1>i DEF Inv

\* The signer is made, and with it the client.
LEMMA MakeSignerKeeps == ASSUME Inv, NEW busy \in BOOLEAN, MakeSigner(busy) PROVE Inv'
<1> DEFINE x == I("task_started")
           y == I("task_runtime_config")
           z == Num("task_retry_config", Attempts - 1)
           w == I("global_concurrency_wait_started")
           X == {x, y, z} \cup {w}
<1>0. IsLog(items)
  BY DEF Inv, TypeOK
<1>1. Grows(items, items \o <<x, y, z>>, {x, y, z}, 3) /\ Has(items \o <<x, y, z>>, {"task_runtime_config"})
  <2>1. items \o <<x, y, z>> = Append(Append(Append(items, x), y), z)
    BY <1>0, ConcatItems
  <2>2. /\ Grows(items, Append(items, x), {x}, 1)
        /\ Grows(Append(items, x), Append(Append(items, x), y), {y}, 1)
        /\ Grows(Append(Append(items, x), y), Append(Append(Append(items, x), y), z), {z}, 1)
        /\ IsLog(Append(items, x)) /\ IsLog(Append(Append(items, x), y))
    BY <1>0, AppendItem, GrowsAppend
  <2>3. Grows(items, Append(Append(items, x), y), {x} \cup {y}, 1 + 1)
    BY <2>2, GrowsThen
  <2>4. Grows(items, Append(Append(Append(items, x), y), z), ({x} \cup {y}) \cup {z}, (1 + 1) + 1)
    BY <2>2, <2>3, GrowsThen
  <2>5. Has(Append(Append(Append(items, x), y), z), {"task_runtime_config"})
    BY <2>2, HasAppend, ItemParts
  <2>6. ({x} \cup {y}) \cup {z} = {x, y, z} /\ (1 + 1) + 1 = 3
    OBVIOUS
  <2> QED BY <2>1, <2>4, <2>5, <2>6
<1> HIDE DEF x, y, z, w
<1>2. Grows(items, items', X, 4) /\ Has(items', {"task_runtime_config"})
  <2> DEFINE log == items \o <<x, y, z>>
  <2>1. IsLog(log)
    BY <1>1 DEF Grows
  <2> HIDE DEF log
  <2>2. CASE busy
    <3>1. items' = Append(log, w)
      BY <2>1, <2>2, ConcatItems DEF MakeSigner, log, x, y, z, w
    <3>2. Grows(log, items', {w}, 1)
      BY <2>1, <3>1, GrowsAppend
    <3>3. Grows(items, items', X, 3 + 1)
      BY <1>1, <3>2, GrowsThen DEF log
    <3> QED BY <1>1, <3>2, <3>3, GrowsHas DEF log
  <2>3. CASE ~busy
    <3>1. items' = log
      BY <2>1, <2>3, ConcatItems DEF MakeSigner, log, x, y, z
    <3>2. Grows(log, items', {w}, 0)
      BY <2>1, <3>1, GrowsSame
    <3>3. Grows(items, items', X, 3 + 0)
      BY <1>1, <3>2, GrowsThen DEF log
    <3>4. Grows(items, items', X, 4)
      BY <3>3 DEF Grows
    <3> QED BY <1>1, <3>1, <3>4 DEF log
  <2> QED BY <2>2, <2>3
<1>3. \A u \in X : u.ev \in {"task_started", "task_runtime_config", "task_retry_config",
                            "global_concurrency_wait_started"}
  BY ItemParts DEF x, y, z, w
<1>4. \A u \in X : u.ev \notin KeyEvents
  BY <1>3, Quiet DEF QuietEvents
<1> HIDE DEF X
<1>5. /\ \A E \in {Final, EndEvents, Locked, Slotted, Unslotted} : Same(E)
  <2>1. \A E \in {Final, EndEvents, Locked, Slotted, Unslotted} : \A u \in X : u.ev \notin E
    BY <1>4 DEF KeyEvents, LockEvents, CountEvents
  <2> QED BY <1>2, <2>1, GrowsKeeps DEF Same
<1>a. TypeOK'
  BY <1>2 DEF Inv, TypeOK, MakeSigner, Mishap, Plain, Task, Signer, Ending, Grows, Signs, Signing,
     Before, Closing
<1>b. Sourced'
  <2>1. \A u \in X : ~Tells(u)
    BY <1>4 DEF Tells, KeyEvents, CountEvents, Final
  <2> QED BY <1>2, <2>1, SourcedStep DEF Inv, Sourced, MakeSigner, Signer
<1>c. Locking'
  BY <1>2, <1>4, LockingKept DEF Inv, MakeSigner, KeyEvents, Places, HoldsLocks
<1>d. Story'
  BY <1>2, <1>4, StoryKept DEF Inv, MakeSigner, Signer, Ending, KeyEvents, EndEvents
<1>e. Counted'
  BY <1>2, <1>4, CountedKept DEF Inv, MakeSigner, Signer, KeyEvents
<1>f. Succeeded'
  <2>1. /\ \A u \in X : u.ev \notin Trusted \cup {"checked_matched", "failed_matched"}
        /\ \A u \in X : u.ev \in Started \cup Slotted => FALSE
        /\ \A u \in X : u.ev \notin Final
    BY <1>4 DEF KeyEvents, CountEvents, LockEvents
  <2> QED BY <1>2, <2>1, SucceededKept DEF Inv, MakeSigner, Task, Ending
<1>g. Plainly'
  <2>1. CASE busy
    BY <1>a, <2>1, PlainlyMishap DEF MakeSigner, Mishap, Inv, TypeOK
  <2>2. CASE ~busy
    <3>1. items' = items \o <<x, y, z>>
      <4>1. IsLog(items \o <<x, y, z>>)
        BY <1>1 DEF Grows
      <4> QED BY <4>1, <2>2, ConcatItems DEF MakeSigner, x, y, z
    <3>2. PlainItem(x) /\ PlainItem(y) /\ PlainItem(z)
      BY ItemParts DEF PlainItem, PlainEvents, x, y, z
    <3>3. Grows(items, items', {x, y, z}, 3)
      BY <1>1, <3>1
    <3>4. \A u \in {x, y, z} : PlainItem(u)
      BY <3>2
    <3>5. mishaps' = mishaps
      BY <2>2 DEF MakeSigner, Plain
    <3>6. mishaps = 0 => /\ ~late' /\ cause' = "-" /\ engine'.raised \in {"-", "unasserted"}
                         /\ pc' \notin {"deferred", "lost", "backoff", "reconnect"}
      BY DEF Inv, Plainly, MakeSigner, Signer, Ending
    <3>7. Plainly
      BY DEF Inv
    <3> QED BY <3>3, <3>4, <3>5, <3>6, <3>7, PlainlyStep
  <2> QED BY <2>1, <2>2
<1>h. Places'
  <2>2. HoldsLocks'
    BY <1>2, <1>5 DEF MakeSigner, Task, Signer, Ending, Inv, Places, HoldsLocks, Same,
       Signs, Signing, Closing
  <2>3. Engines' /\ Phases'
    BY <1>5 DEF MakeSigner, Task, Signer, Ending, Inv, Places, Engines, Phases, Same, Before,
       Signs, Signing, Closing
  <2> QED BY <2>2, <2>3 DEF Places
<1>i. Kept'
  BY DEF Kept, MakeSigner
<1> QED BY <1>a, <1>b, <1>c, <1>d, <1>e, <1>f, <1>g, <1>h, <1>i DEF Inv

\* One or two items.
LEMMA GrowsItems ==
    ASSUME NEW log, IsLog(log), NEW x, NEW y
    PROVE  /\ Grows(log, log \o <<x>>, {x}, 1)
           /\ Grows(log, log \o <<x, y>>, {x, y}, 2)
           /\ Grows(log, Append(Append(log, x), y), {x, y}, 2)
<1>1. log \o <<x>> = Append(log, x) /\ log \o <<x, y>> = Append(Append(log, x), y)
  BY ConcatItems
<1>2. Grows(log, Append(log, x), {x}, 1)
  BY GrowsAppend
<1>3. Grows(Append(log, x), Append(Append(log, x), y), {y}, 1)
  BY AppendItem, GrowsAppend
<1>4. Grows(log, Append(Append(log, x), y), {x} \cup {y}, 1 + 1)
  BY <1>2, <1>3, GrowsThen
<1>5. {x} \cup {y} = {x, y} /\ 1 + 1 = 2
  OBVIOUS
<1> QED BY <1>1, <1>2, <1>4, <1>5

\* A step of the signer that does not end the run.
LEMMA SigningStep ==
    ASSUME Inv, NEW X, NEW k \in Nat, Grows(items, items', X, k),
           \A x \in X : x.ev \notin LockEvents \cup EndEvents,
           UNCHANGED <<Task, Ending, held, client>>, attempt' \in Nat \ {0},
           pc \in Signs, pc' \in Signs
    PROVE  /\ Locking' /\ Story' /\ HoldsLocks' /\ Phases' /\ Kept'
           /\ ~success /\ cause = "-" /\ attempt # 0 /\ ~late /\ Has(items, Slotted)
<1>0. /\ HoldsLocks /\ Phases /\ Engines /\ Locking /\ Story
      /\ pc # "over" /\ pc \in Before /\ pc' # "over" /\ pc' \notin Closing \cup {"done"}
  BY DEF Inv, Places, Signs, Signing, Before, Closing
<1>1. ~success /\ cause = "-" /\ attempt # 0 /\ ~late /\ Has(items, Slotted)
  BY <1>0 DEF HoldsLocks, Phases, Engines, Signs, Signing, Closing
<1>2. \A E \in {Locked, Slotted, Unslotted, EndEvents} : Same(E)
  <2>1. \A E \in {Locked, Slotted, Unslotted, EndEvents} : \A x \in X : x.ev \notin E
    BY DEF LockEvents
  <2> QED BY <2>1, GrowsKeeps DEF Same
<1>3. Locking'
  BY <1>0, LockingKept
<1>4. Story'
  BY <1>0, <1>1, StoryKept DEF Ending, EndEvents
<1>5. HoldsLocks'
  BY <1>0, <1>2 DEF HoldsLocks, Same, Signs, Signing, Closing
<1>6. Phases'
  BY <1>0, <1>1, <1>2 DEF Phases, Same, Ending, Signs, Signing, Closing
<1>7. Kept'
  BY <1>0 DEF Kept
<1> QED BY <1>1, <1>3, <1>4, <1>5, <1>6, <1>7

\* A slot is taken, and the first attempt begins.
LEMMA AcquireSlotKeeps == ASSUME Inv, AcquireSlot PROVE Inv'
<1> DEFINE x == I("global_concurrency_acquired")
           y == I("worker_execution_contract")
           X == {x, y}
<1>0. /\ IsLog(items) /\ IsLog(Append(items, x)) /\ items' = Append(Append(items, x), y)
      /\ pc = "slot" /\ pc' = "chat" /\ attempt' = 1 /\ mishaps' = mishaps
  BY ConcatItems, AppendItem DEF Inv, TypeOK, AcquireSlot, Plain
<1>1. Grows(items, items', X, 2)
  BY <1>0, GrowsItems
<1>2. x.ev = "global_concurrency_acquired" /\ y.ev = "worker_execution_contract"
  BY ItemParts
<1>3. Has(items', Slotted) /\ Has(items', {"worker_execution_contract"})
  BY <1>0, <1>2, HasAppend DEF Slotted
<1> HIDE DEF x, y
<1>4. \A u \in X : u.ev \in {"global_concurrency_acquired", "worker_execution_contract"}
  BY <1>2
<1> HIDE DEF X
<1>5. HoldsLocks /\ Phases /\ Engines /\ Locking
  BY <1>0 DEF Inv, Places
<1>6. /\ ~success /\ cause = "-" /\ ~Has(items, Slotted) /\ ~Has(items, Unslotted)
      /\ client = "open" /\ Has(items, {"task_runtime_config"})
  BY <1>0, <1>5 DEF HoldsLocks, Phases, Locking, Before
<1>7. /\ Same(Unlocked) /\ Same(Unsaved) /\ Same(Closed) /\ Same(Unclosed) /\ Same(Started)
      /\ Same(Unslotted) /\ Same(Locked) /\ Same(Final) /\ Same(EndEvents) /\ Same(Trusted)
      /\ Same({"checked_matched"}) /\ Same({"failed_matched"})
  <2>1. \A E \in {Unlocked, Unsaved, Closed, Unclosed, Started, Unslotted, Locked, Final, EndEvents,
                  Trusted, {"checked_matched"}, {"failed_matched"}} : \A u \in X : u.ev \notin E
    BY <1>4 DEF Unlocked, Unsaved, Closed, Unclosed, Started, Unslotted, Locked, Final, EndEvents,
       Failed, Completed, TimedOut, Trusted
  <2> QED BY <1>1, <2>1, GrowsKeeps DEF Same
<1>8. Has(items', {"task_runtime_config"}) /\ Hits(items, Clicked) \subseteq Hits(items', Clicked)
  BY <1>1, <1>6, GrowsHas
<1>a. TypeOK'
  BY <1>0, <1>1 DEF Inv, TypeOK, AcquireSlot, Task, Ending, Grows, Signs, Signing, Before, Locks
<1>b. Sourced'
  <2>1. \A u \in X : ~Tells(u)
    BY <1>4 DEF Tells, Matched
  <2> QED BY <1>1, <2>1, SourcedStep DEF Inv, Sourced, AcquireSlot
<1>c. Locking'
  <2>1. \A i \in Hits(items', Started) : \E j \in Hits(items', Locked) : j < i
    BY <1>5, <1>7 DEF Locking, Same
  <2> QED BY <1>0, <1>3, <1>5, <1>6, <1>7, <2>1 DEF Locking, Same, AcquireSlot
<1>d. Story'
  <2>1. \A u \in X : u.ev \notin Failed \cup Completed \cup TimedOut
    BY <1>4 DEF Failed, Completed, TimedOut
  <2> QED BY <1>1, <1>6, <2>1, StoryKept DEF Inv, AcquireSlot, Ending
<1>e. Counted'
  <2>1. \A u \in X : u.ev \notin CountEvents
    BY <1>4 DEF CountEvents, Final, RetryEvents, RetryFailures
  <2>2. engine' = engine /\ engines' = engines /\ attempt' # 0 /\ Counted
    BY <1>0 DEF Inv, AcquireSlot
  <2> QED BY <1>1, <2>1, <2>2, CountedKept
<1>f. Succeeded'
  BY <1>3, <1>6, <1>7, <1>8 DEF Inv, Succeeded, Same, AcquireSlot, Ending
<1>g. Plainly'
  <2>1. \A u \in X : PlainItem(u)
    BY <1>4 DEF PlainItem, PlainEvents, Slotted
  <2>2. mishaps = 0 => /\ ~late' /\ cause' = "-" /\ engine'.raised \in {"-", "unasserted"}
                       /\ pc' \notin {"deferred", "lost", "backoff", "reconnect"}
    BY DEF Inv, Plainly, AcquireSlot, Ending
  <2>3. Plainly
    BY DEF Inv
  <2> QED BY <1>0, <1>1, <2>1, <2>2, <2>3, PlainlyStep
<1>h. Places'
  <2>1. HoldsLocks'
    BY <1>0, <1>3, <1>5, <1>6, <1>7 DEF AcquireSlot, HoldsLocks, Same, Signs, Signing, Closing
  <2>2. Engines'
    BY <1>0, <1>5, <1>7 DEF AcquireSlot, Task, Engines, Same, Closing, Ending
  <2>3. Phases'
    BY <1>0, <1>5, <1>6, <1>7 DEF AcquireSlot, Ending, Phases, Same, Before, Closing
  <2> QED BY <2>1, <2>2, <2>3 DEF Places
<1>i. Kept'
  BY <1>0 DEF Kept
<1> QED BY <1>a, <1>b, <1>c, <1>d, <1>e, <1>f, <1>g, <1>h, <1>i DEF Inv

\* An engine is started.
LEMMA StartEngineKeeps == ASSUME Inv, StartEngine PROVE Inv'
<1> DEFINE x == I("started")
<1>0. /\ IsLog(items) /\ items' = Append(items, x)
      /\ pc = "chat" /\ pc' = "engine" /\ mishaps' = mishaps
      /\ engine' = NoEngine /\ engines' = engines + 1
      /\ UNCHANGED <<Task, Ending, held, client, chat, good, attempt, late, earned>>
  BY DEF Inv, TypeOK, StartEngine, Plain
<1>1. Grows(items, items', {x}, 1)
  BY <1>0, GrowsAppend
<1>2. x.ev = "started"
  BY ItemParts
<1>3. Has(items', Started) /\ Hits(items', Started) = Hits(items, Started) \cup {Len(items) + 1}
  BY <1>0, <1>2, HasAppend, HitsAppend DEF Started
<1> HIDE DEF x
<1>5. HoldsLocks /\ Phases /\ Engines /\ Locking
  BY <1>0 DEF Inv, Places
<1>6. /\ ~success /\ cause = "-" /\ Has(items, Slotted) /\ Has(items, Locked)
      /\ client = "open" /\ attempt # 0 /\ ~late
  BY <1>0, <1>5 DEF HoldsLocks, Phases, Before, Signs, Signing, Engines, Closing
<1>7. /\ \A E \in {Unlocked, Unsaved, Closed, Unclosed, Slotted, Unslotted, Locked, Final, EndEvents,
                  Trusted, {"checked_matched"}, {"failed_matched"}, RetryEvents,
                  {"timeout_state"}} : Same(E)
  <2>1. \A E \in {Unlocked, Unsaved, Closed, Unclosed, Slotted, Unslotted, Locked, Final, EndEvents,
                  Trusted, {"checked_matched"}, {"failed_matched"}, RetryEvents,
                  {"timeout_state"}} : x.ev \notin E
    BY <1>2 DEF Unlocked, Unsaved, Closed, Unclosed, Slotted, Unslotted, Locked, Final, EndEvents,
       Failed, Completed, TimedOut, Trusted, RetryEvents, RetryFailures
  <2> QED BY <1>1, <2>1, GrowsKeeps DEF Same
<1>8. \A E : Has(items, E) => Has(items', E)
  BY <1>1, GrowsHas
<1>9. /\ Hits(items, Clicked) \subseteq Hits(items', Clicked)
      /\ \A i \in DOMAIN items : items'[i] = items[i]
      /\ Len(items) \in Nat /\ \A E : Hits(items, E) \subseteq 1..Len(items)
  BY <1>1, GrowsHas DEF Grows, Hits
<1>a. TypeOK'
  BY <1>0, <1>1 DEF Inv, TypeOK, Task, Ending, Grows, Signs, Signing, Before, NoEngine
<1>b. Sourced'
  <2>1. ~Tells(x)
    BY <1>2 DEF Tells, Matched
  <2> QED BY <1>0, <1>1, <2>1, SourcedStep DEF Inv, NoEngine
<1>c. Locking'
  <2>1. \A i \in Hits(items', Started) : \E j \in Hits(items', Locked) : j < i
    <3>1. PICK j \in Hits(items, Locked) : TRUE
      BY <1>6 DEF Has
    <3>2. j < Len(items) + 1 /\ j \in Hits(items', Locked)
      BY <1>7, <1>9, <3>1 DEF Same
    <3> QED BY <1>3, <1>5, <1>7, <3>2 DEF Locking, Same
  <2> QED BY <1>0, <1>3, <1>5, <1>6, <1>7, <2>1 DEF Locking, Same
<1>d. Story'
  <2>1. x.ev \notin Failed \cup Completed \cup TimedOut
    BY <1>2 DEF Failed, Completed, TimedOut
  <2> QED BY <1>0, <1>1, <1>6, <2>1, StoryKept DEF Inv, Ending
<1>e. Counted'
  <2>1. engines \in Nat /\ Counted
    BY DEF Inv, TypeOK
  <2>2. engines' # 0 /\ attempt' # 0 /\ (engines' < 2 => engines = 0) /\ (engines' = 1 => engines = 0)
    BY <1>0, <1>6, <2>1
  <2>3. Unconfirmed(items') = Unconfirmed(items)
    BY <1>1, <1>2, GrowsUnconfirmed
  <2>4. Has(items', {"timeout_state"}) => Has(items', Final)
    BY <1>7, <2>1 DEF Counted, Same
  <2>5. ASSUME engines = 0
        PROVE  /\ ~Has(items', Final) /\ engine' = engine /\ Unconfirmed(items') = engine'.unconfirmed
               /\ \A i \in Hits(items', RetryEvents) : items'[i].n \in 0..engine'.retries
               /\ engine'.retries = 0
    <3>1. ~Has(items, Final) /\ engine = NoEngine
      BY <2>1, <2>5 DEF Counted
    <3>2. /\ Unconfirmed(items) = engine.unconfirmed
          /\ \A i \in Hits(items, RetryEvents) : items[i].n \in 0..engine.retries
      BY <2>1, <2>5, <3>1 DEF Counted
    <3>3. \A i \in Hits(items, RetryEvents) : items'[i] = items[i]
      BY <1>9 DEF Hits
    <3> QED BY <1>0, <1>7, <2>3, <3>1, <3>2, <3>3 DEF Same, NoEngine
  <2> QED BY <1>3, <2>2, <2>4, <2>5 DEF Counted
<1>f. Succeeded'
  BY <1>0, <1>6, <1>7, <1>8, <1>9 DEF Inv, Succeeded, Same, Ending
<1>g. Plainly'
  <2>1. PlainItem(x)
    BY <1>2 DEF PlainItem, PlainEvents, Started
  <2>2. mishaps = 0 => /\ ~late' /\ cause' = "-" /\ engine'.raised \in {"-", "unasserted"}
                       /\ pc' \notin {"deferred", "lost", "backoff", "reconnect"}
    BY <1>0, <1>6 DEF NoEngine, Ending
  <2>3. Plainly
    BY DEF Inv
  <2> QED BY <1>0, <1>1, <2>1, <2>2, <2>3, PlainlyStep
<1>h. Places'
  <2>1. HoldsLocks'
    BY <1>0, <1>5, <1>6, <1>7 DEF HoldsLocks, Same, Signs, Signing, Closing
  <2>2. Engines'
    <3>1. engines \in Nat /\ Counted
      BY DEF Inv, TypeOK
    <3>2. engines' # 0 /\ (engines' = 1 => ~Has(items', Final))
      BY <1>0, <1>7, <3>1 DEF Counted, Same
    <3> QED BY <1>0, <1>5, <1>6, <3>2 DEF Task, Engines
  <2>3. Phases'
    BY <1>0, <1>5, <1>6, <1>7 DEF Ending, Phases, Same, Before, Signs, Signing, Closing
  <2> QED BY <2>1, <2>2, <2>3 DEF Places
<1>i. Kept'
  BY <1>0 DEF Kept
<1> QED BY <1>a, <1>b, <1>c, <1>d, <1>e, <1>f, <1>g, <1>h, <1>i DEF Inv

\* A text tells that the sign-in succeeded.
LEMMA ResultMatchesKeeps == ASSUME Inv, ResultMatches PROVE Inv'
<1> DEFINE x == I("success_matched")
<1>0. /\ IsLog(items) /\ items' = Append(items, x)
      /\ pc = "engine" /\ pc' = "matched" /\ mishaps' = mishaps /\ earned' = TRUE
      /\ UNCHANGED <<Task, Ending, held, client, chat, good, engine, engines, attempt, late>>
  BY DEF Inv, TypeOK, ResultMatches, Plain
<1>1. Grows(items, items', {x}, 1)
  BY <1>0, GrowsAppend
<1>2. x.ev = "success_matched"
  BY ItemParts
<1> HIDE DEF x
<1>3. x.ev \notin LockEvents \cup EndEvents
  BY <1>2 DEF LockEvents, EndEvents, Locked, Unlocked, Slotted, Unslotted, Started, Closed, Unclosed,
     Unsaved, Failed, Completed, TimedOut
<1>4. HoldsLocks /\ Engines
  BY <1>0 DEF Inv, Places
<1>5. pc \in Signs /\ pc' \in Signs /\ attempt' \in Nat \ {0}
  BY <1>0, <1>4 DEF HoldsLocks, Signs, Signing, Inv, TypeOK
<1>6. /\ Locking' /\ Story' /\ HoldsLocks' /\ Phases' /\ Kept' /\ ~success /\ cause = "-" /\ ~late
  BY <1>0, <1>1, <1>3, <1>5, SigningStep
<1>a. TypeOK'
  BY <1>0, <1>1 DEF Inv, TypeOK, Task, Ending, Grows, Signs, Signing, Before
<1>b. Sourced'
  BY <1>0, <1>1, SourcedStep DEF Inv
<1>e. Counted'
  BY <1>0, <1>1, <1>2, CountedKept DEF Inv, CountEvents, Final, RetryEvents, RetryFailures
<1>f. Succeeded'
  BY <1>0, <1>1, <1>2, SucceededKept DEF Inv, Task, Ending, Trusted, Started, Slotted, Final
<1>g. Plainly'
  <2>1. PlainItem(x)
    BY <1>2 DEF PlainItem, PlainEvents
  <2>2. mishaps = 0 => /\ ~late' /\ cause' = "-" /\ engine'.raised \in {"-", "unasserted"}
                       /\ pc' \notin {"deferred", "lost", "backoff", "reconnect"}
    BY <1>0, <1>6 DEF Ending, Inv, Plainly
  <2>3. Plainly
    BY DEF Inv
  <2> QED BY <1>0, <1>1, <2>1, <2>2, <2>3, PlainlyStep
<1>h. Engines'
  <2>1. Same(Final)
    BY <1>1, <1>2, GrowsKeeps DEF Same, Final
  <2> QED BY <1>0, <1>4, <1>6, <2>1 DEF Task, Engines, Same
<1> QED BY <1>6, <1>a, <1>b, <1>e, <1>f, <1>g, <1>h DEF Inv, Places

\* The next attempt begins.
LEMMA RetryTaskKeeps == ASSUME Inv, RetryTask PROVE Inv'
<1> DEFINE x == Num("task_retry_started", attempt + 1)
<1>0. /\ IsLog(items) /\ items' = Append(items, x)
      /\ pc = "backoff" /\ pc' = "chat" /\ mishaps' = mishaps
      /\ attempt' = attempt + 1 /\ attempt \in Nat
      /\ UNCHANGED <<Task, Ending, held, client, engine, engines, late, earned>>
  BY DEF Inv, TypeOK, RetryTask, Plain
<1>1. Grows(items, items', {x}, 1)
  BY <1>0, GrowsAppend
<1>2. x.ev = "task_retry_started"
  BY ItemParts
<1> HIDE DEF x
<1>3. x.ev \notin KeyEvents /\ x.ev \notin LockEvents \cup EndEvents
  BY <1>2, Quiet DEF QuietEvents, KeyEvents
<1>4. HoldsLocks /\ Engines /\ Counted
  BY <1>0 DEF Inv, Places
<1>5. pc \in Signs /\ pc' \in Signs /\ attempt' \in Nat \ {0}
  BY <1>0 DEF Signs, Signing
<1>6. /\ Locking' /\ Story' /\ HoldsLocks' /\ Phases' /\ Kept' /\ ~success /\ cause = "-" /\ ~late
  BY <1>0, <1>1, <1>3, <1>5, SigningStep
<1>a. TypeOK'
  BY <1>0, <1>1 DEF Inv, TypeOK, RetryTask, Rewind, Task, Ending, Grows, Signs, Signing, Before
<1>b. Sourced'
  <2>1. ~Tells(x)
    BY <1>2 DEF Tells, Matched
  <2> QED BY <1>0, <1>1, <2>1, SourcedStep DEF Inv, Sourced
<1>e. Counted'
  <2>1. \A y \in {x} : y.ev \notin CountEvents
    BY <1>3 DEF KeyEvents
  <2>2. attempt' # 0
    BY <1>5
  <2> QED BY <1>0, <1>1, <1>4, <2>1, <2>2, CountedKept
<1>f. Succeeded'
  BY <1>0, <1>1, <1>2, SucceededKept DEF Inv, Task, Ending, Trusted, Started, Slotted, Final
<1>g. Plainly'
  <2>1. mishaps # 0
    BY <1>0 DEF Inv, Plainly
  <2> QED BY <1>0, <2>1 DEF Plainly
<1>h. Engines'
  <2>1. Same(Final)
    BY <1>1, <1>2, GrowsKeeps DEF Same, Final
  <2>2. chat' = 1 /\ good' = 0 /\ chats \in Nat
    BY DEF RetryTask, Rewind, Inv, TypeOK
  <2> QED BY <1>0, <1>4, <1>6, <2>1, <2>2 DEF Task, Engines, Same
<1> QED BY <1>6, <1>a, <1>b, <1>e, <1>f, <1>g, <1>h DEF Inv, Places

\* The task of an update is cancelled.
LEMMA DrainCancelsKeeps == ASSUME Inv, DrainCancels PROVE Inv'
<1>0. PICK x \in {I("message_processing_cancelled"), Num("retry_cancelled", engine.retries)} :
        items' = Append(items, x)
  BY DEF DrainCancels
<1>p. /\ IsLog(items) /\ pc = "drain" /\ pc' = pc
      /\ UNCHANGED <<Task, Signer, Ending, held, client>>
  BY DEF Inv, TypeOK, DrainCancels
<1>1. Grows(items, items', {x}, 1)
  BY <1>0, <1>p, GrowsAppend
<1>2. x.ev \in {"message_processing_cancelled", "retry_cancelled"}
  BY ItemParts
<1>3. x.ev \notin LockEvents \cup EndEvents
  BY <1>2 DEF LockEvents, EndEvents, Locked, Unlocked, Slotted, Unslotted, Started, Closed, Unclosed,
     Unsaved, Failed, Completed, TimedOut
<1>4. HoldsLocks /\ Engines /\ Counted
  BY <1>p DEF Inv, Places
<1>5. pc \in Signs /\ pc' \in Signs /\ attempt' \in Nat \ {0}
  BY <1>p, <1>4 DEF HoldsLocks, Signs, Signing, Inv, TypeOK, Signer
<1>6. /\ Locking' /\ Story' /\ HoldsLocks' /\ Phases' /\ Kept' /\ ~success /\ cause = "-" /\ ~late
  BY <1>p, <1>1, <1>3, <1>5, SigningStep
<1>7. Same(Final) /\ Same({"timeout_state"})
  BY <1>1, <1>2, GrowsKeeps DEF Same, Final
<1>a. TypeOK'
  <2>1. mishaps' \in Nat
    BY DEF Inv, TypeOK, DrainCancels, Mishap
  <2>2. IsLog(items')
    BY <1>1 DEF Grows
  <2> QED BY <1>p, <2>1, <2>2 DEF Inv, TypeOK, Task, Signer, Ending
<1>b. Sourced'
  <2>1. ~Tells(x)
    BY <1>2 DEF Tells, Matched
  <2> QED BY <1>p, <1>1, <2>1, SourcedStep DEF Inv, Sourced, Signer
<1>e. Counted'
  <2>1. Has(items, Final) /\ engines # 0
    BY <1>p, <1>4 DEF Engines
  <2>2. Has(items, Started) => Has(items', Started)
    BY <1>1, GrowsHas
  <2> QED BY <1>p, <1>4, <1>7, <2>1, <2>2 DEF Counted, Same, Signer
<1>f. Succeeded'
  BY <1>p, <1>1, <1>2, SucceededKept DEF Inv, Task, Ending, Trusted, Started, Slotted, Final
<1>g. Plainly'
  BY <1>a, PlainlyMishap DEF DrainCancels, Mishap, Inv, TypeOK
<1>h. Engines'
  BY <1>p, <1>4, <1>6, <1>7 DEF Task, Signer, Engines, Same
<1> QED BY <1>6, <1>a, <1>b, <1>e, <1>f, <1>g, <1>h DEF Inv, Places

(***************************************************************************)
(* What an engine logs at work.                                            *)
(***************************************************************************)
\* A set of numbers of items is finite.
LEMMA WithFinite ==
    ASSUME NEW log, IsLog(log), NEW E, NEW T
    PROVE  /\ With(log, E, T) \subseteq 1..Len(log) /\ Len(log) \in Nat
           /\ IsFiniteSet(With(log, E, T)) /\ Cardinality(With(log, E, T)) \in Nat
<1>1. With(log, E, T) \subseteq 1..Len(log) /\ Len(log) \in Nat
  BY LenProperties DEF IsLog, With, Hits
<1>2. IsFiniteSet(1..Len(log))
  BY <1>1, FS_Interval
<1> QED BY <1>1, <1>2, FS_Subset, FS_CardinalityType

\* The callbacks of a burst that were not confirmed add to those of the log.
LEMMA UnconfirmedConcat ==
    ASSUME NEW log, IsLog(log), NEW b, IsLog(b)
    PROVE  /\ Unconfirmed(log \o b) = Unconfirmed(log) + Unconfirmed(b)
           /\ Unconfirmed(log) \in Nat /\ Unconfirmed(b) \in Nat
<1> DEFINE E == {"button_callback_result"}
           T == {"unconfirmed", "timeout_failed"}
           A == With(log, E, T)
           B == With(b, E, T)
           n == Len(log)
           C == {i \in (n + 1)..(n + Len(b)) : i - n \in B}
<1>1. /\ IsLog(log \o b) /\ Len(log \o b) = n + Len(b) /\ n \in Nat /\ Len(b) \in Nat
      /\ \A i \in 1..n : (log \o b)[i] = log[i]
      /\ \A i \in 1..Len(b) : (log \o b)[n + i] = b[i]
  BY HitsConcat
<1>2. DOMAIN (log \o b) = 1..(n + Len(b)) /\ DOMAIN log = 1..n /\ DOMAIN b = 1..Len(b)
  BY <1>1, LenProperties DEF IsLog
<1>3. With(log \o b, E, T) = A \cup C
  <2>1. ASSUME NEW i \in 1..n PROVE i \in With(log \o b, E, T) <=> i \in A
    BY <1>1, <1>2, <2>1 DEF With, Hits
  <2>2. ASSUME NEW i \in (n + 1)..(n + Len(b)) PROVE i \in With(log \o b, E, T) <=> i \in C
    <3>1. i - n \in 1..Len(b) /\ i = n + (i - n) /\ i \in 1..(n + Len(b))
      BY <1>1
    <3>2. (log \o b)[i] = b[i - n]
      BY <1>1, <3>1
    <3> QED BY <1>2, <3>1, <3>2 DEF With, Hits
  <2>3. /\ A \subseteq 1..n /\ C \subseteq (n + 1)..(n + Len(b))
        /\ With(log \o b, E, T) \subseteq 1..n \cup (n + 1)..(n + Len(b))
    BY <1>1, <1>2 DEF With, Hits
  <2> QED BY <2>1, <2>2, <2>3
<1>4. A \cap C = {} /\ A \subseteq 1..n /\ B \subseteq 1..Len(b)
  BY <1>1, <1>2 DEF With, Hits
<1>5. IsFiniteSet(A) /\ IsFiniteSet(B) /\ Cardinality(A) \in Nat /\ Cardinality(B) \in Nat
  BY WithFinite
<1>6. IsFiniteSet(C) /\ Cardinality(C) = Cardinality(B)
  <2> DEFINE f == [i \in B |-> n + i]
  <2>1. f \in Bijection(B, C)
    <3>1. f \in [B -> C]
      BY <1>1, <1>4
    <3>2. \A i, j \in B : f[i] = f[j] => i = j
      BY <1>1, <1>4
    <3>3. \A c \in C : \E i \in B : f[i] = c
      <4> SUFFICES ASSUME NEW c \in C PROVE \E i \in B : f[i] = c
        OBVIOUS
      <4>1. c - n \in B /\ n + (c - n) = c
        BY <1>1
      <4> QED BY <4>1
    <3> QED BY <3>1, <3>2, <3>3, Fun_IsBij
  <2>2. ExistsBijection(B, C)
    BY <2>1 DEF ExistsBijection
  <2> QED BY <1>5, <2>2, FS_Bijection
<1>7. Cardinality(A \cup C) = Cardinality(A) + Cardinality(C) - Cardinality(A \cap C)
  BY <1>5, <1>6, FS_Union
<1>8. Cardinality(A \cap C) = 0
  BY <1>4, FS_EmptySet
<1>9. /\ Unconfirmed(log) = Cardinality(A) /\ Unconfirmed(b) = Cardinality(B)
      /\ Unconfirmed(log \o b) = Cardinality(A \cup C)
  BY <1>3 DEF Unconfirmed
<1> HIDE DEF A, B, C
<1> QED BY <1>5, <1>6, <1>7, <1>8, <1>9

\* What is true of a burst of an engine that has retried n times.
Burst(b, n) ==
    /\ IsLog(b)
    /\ \A i \in DOMAIN b :
         b[i].ev \notin LockEvents \cup EndEvents \cup Final \cup Matched
                         \cup {"checked_matched", "failed_matched", "completed", "timeout_state"}
    /\ \A j \in Hits(b, Trusted) : j - 1 \in Hits(b, Clicked)
    /\ \/ Count(b, {"retry_scheduled"}) = 0 /\ ~Has(b, RetryEvents)
       \/ /\ Count(b, {"retry_scheduled"}) = 1 /\ Has(b, RetryEvents)
          /\ \A i \in Hits(b, RetryEvents) : b[i].n = n + 1

\* Bursts of one, two, three and four items.
LEMMA OneItem ==
    ASSUME NEW x
    PROVE  IsLog(<<x>>) /\ DOMAIN <<x>> = {1} /\ <<x>>[1] = x
<1>1. <<x>> \in Seq({x}) /\ DOMAIN <<x>> = {1} /\ <<x>>[1] = x
  OBVIOUS
<1> QED BY <1>1, SeqOfRange DEF IsLog

\* See OneItem.
LEMMA TwoItems ==
    ASSUME NEW x, NEW y
    PROVE  IsLog(<<x, y>>) /\ DOMAIN <<x, y>> = {1, 2} /\ <<x, y>>[1] = x /\ <<x, y>>[2] = y
<1>1. <<x, y>> \in Seq({x, y}) /\ DOMAIN <<x, y>> = {1, 2} /\ <<x, y>>[1] = x /\ <<x, y>>[2] = y
  OBVIOUS
<1> QED BY <1>1, SeqOfRange DEF IsLog

\* See OneItem.
LEMMA ThreeItems ==
    ASSUME NEW x, NEW y, NEW z
    PROVE  /\ IsLog(<<x, y, z>>) /\ DOMAIN <<x, y, z>> = {1, 2, 3}
           /\ <<x, y, z>>[1] = x /\ <<x, y, z>>[2] = y /\ <<x, y, z>>[3] = z
<1>1. /\ <<x, y, z>> \in Seq({x, y, z}) /\ DOMAIN <<x, y, z>> = {1, 2, 3}
      /\ <<x, y, z>>[1] = x /\ <<x, y, z>>[2] = y /\ <<x, y, z>>[3] = z
  OBVIOUS
<1> QED BY <1>1, SeqOfRange DEF IsLog

\* See OneItem.
LEMMA FourItems ==
    ASSUME NEW x, NEW y, NEW z, NEW w
    PROVE  /\ IsLog(<<x>> \o <<y, z, w>>) /\ DOMAIN (<<x>> \o <<y, z, w>>) = {1, 2, 3, 4}
           /\ (<<x>> \o <<y, z, w>>)[1] = x /\ (<<x>> \o <<y, z, w>>)[2] = y
           /\ (<<x>> \o <<y, z, w>>)[3] = z /\ (<<x>> \o <<y, z, w>>)[4] = w
<1> DEFINE S == {x, y, z, w}
           a == <<x>>
           c == <<y, z, w>>
<1>1. a \in Seq(S) /\ c \in Seq(S)
  OBVIOUS
<1>2. Len(a) = 1 /\ Len(c) = 3 /\ a[1] = x /\ c[1] = y /\ c[2] = z /\ c[3] = w
  OBVIOUS
<1> HIDE DEF a, c
<1>3. /\ a \o c \in Seq(S) /\ Len(a \o c) = Len(a) + Len(c)
      /\ \A i \in 1..(Len(a) + Len(c)) : (a \o c)[i] = IF i <= Len(a) THEN a[i] ELSE c[i - Len(a)]
  BY <1>1, ConcatProperties
<1>4. /\ (a \o c)[1] = x /\ (a \o c)[2] = y /\ (a \o c)[3] = z /\ (a \o c)[4] = w
      /\ Len(a \o c) = 4
  BY <1>2, <1>3
<1>5. DOMAIN (a \o c) = {1, 2, 3, 4}
  <2>1. DOMAIN (a \o c) = 1..4
    BY <1>3, <1>4, LenProperties
  <2> QED BY <2>1
<1>6. IsLog(a \o c)
  BY <1>3, SeqOfRange DEF IsLog
<1> QED BY <1>4, <1>5, <1>6 DEF a, c

\* The events of a burst that the invariant does not speak of.
IdleEvents == {"button_clicked", "callback_timeout_trusted", "button_callback_result",
    "button_callback_unconfirmed", "button_callback_released_for_retry",
    "button_callback_outer_timeout", "image_option_selected", "captcha_recognized",
    "captcha_sent", "response_send_retryable_error", "message_retryable_error",
    "history_scan_completed", "history_failed", "history_scan_cancelled", "message_unhandled",
    "stale_callback_text_skipped", "response_action_timeout", "callback_text_received",
    "response_action_not_advanced", "message_skip_recorded", "client_rpc_hard_timeout",
    "client_rpc_late_completed"}
RetryingEvents == {"retry_scheduled", "retry_started", "retry_completed", "retry_suppressed"}

\* A burst of idle events is one, if a trusted callback follows its click.
LEMMA IdleBurst ==
    ASSUME NEW b, IsLog(b), NEW n, \A i \in DOMAIN b : b[i].ev \in IdleEvents,
           \A j \in Hits(b, Trusted) : j - 1 \in Hits(b, Clicked)
    PROVE  Burst(b, n)
<1>1. \A e \in IdleEvents :
        /\ e \notin LockEvents \cup EndEvents \cup Final \cup Matched
                      \cup {"checked_matched", "failed_matched", "completed", "timeout_state"}
        /\ e \notin RetryEvents
  BY DEF IdleEvents, LockEvents, EndEvents, Final, Matched, RetryEvents, RetryFailures, Locked,
     Unlocked, Slotted, Unslotted, Started, Closed, Unclosed, Unsaved, Failed, Completed, TimedOut
<1>2. Hits(b, {"retry_scheduled"}) = {} /\ Hits(b, RetryEvents) = {}
  BY <1>1 DEF Hits, RetryEvents
<1>3. Count(b, {"retry_scheduled"}) = 0 /\ ~Has(b, RetryEvents)
  BY <1>2, FS_EmptySet DEF Count, Has
<1> QED BY <1>1, <1>3 DEF Burst

\* A retry is a burst too.
LEMMA RetryBurst ==
    ASSUME NEW b, IsLog(b), NEW n, 1 \in DOMAIN b, b[1].ev = "retry_scheduled",
           \A i \in DOMAIN b : b[i].ev \in RetryingEvents /\ b[i].n = n + 1,
           \A i \in DOMAIN b : b[i].ev = "retry_scheduled" => i = 1
    PROVE  Burst(b, n)
<1>1. \A e \in RetryingEvents :
        /\ e \notin LockEvents \cup EndEvents \cup Final \cup Matched
                      \cup {"checked_matched", "failed_matched", "completed", "timeout_state"}
        /\ e \in RetryEvents /\ e \notin Trusted
  BY DEF RetryingEvents, LockEvents, EndEvents, Final, Matched, RetryEvents, Trusted, Locked,
     Unlocked, Slotted, Unslotted, Started, Closed, Unclosed, Unsaved, Failed, Completed, TimedOut
<1>2. Hits(b, {"retry_scheduled"}) = {1} /\ Has(b, RetryEvents)
  BY <1>1 DEF Hits, Has
<1>3. Count(b, {"retry_scheduled"}) = 1
  BY <1>2, FS_Singleton DEF Count
<1>4. Hits(b, Trusted) = {}
  BY <1>1 DEF Hits
<1>5. \A i \in Hits(b, RetryEvents) : b[i].n = n + 1
  BY DEF Hits
<1> QED BY <1>1, <1>2, <1>3, <1>4, <1>5 DEF Burst

\* A missed callback after its click or its option.
LEMMA MissedBurst ==
    ASSUME NEW e \in {"button_clicked", "image_option_selected"}, NEW s, NEW n
    PROVE  Burst(<<I(e)>> \o Missed(s), n)
<1> DEFINE x == I(e)
           y == Tag("button_callback_result", "unconfirmed")
           z == Tag("button_callback_unconfirmed", s)
           w == I("button_callback_released_for_retry")
           b == <<x>> \o <<y, z, w>>
<1>1. /\ x.ev = e /\ y.ev = "button_callback_result" /\ z.ev = "button_callback_unconfirmed"
      /\ w.ev = "button_callback_released_for_retry"
  BY ItemParts
<1>2. b = <<I(e)>> \o Missed(s)
  BY DEF Missed
<1> HIDE DEF x, y, z, w
<1>3. /\ IsLog(b) /\ DOMAIN b = {1, 2, 3, 4}
      /\ b[1] = x /\ b[2] = y /\ b[3] = z /\ b[4] = w
  BY FourItems
<1> HIDE DEF b
<1>4. \A i \in DOMAIN b : b[i].ev \in IdleEvents /\ b[i].ev # "callback_timeout_trusted"
  BY <1>1, <1>3 DEF IdleEvents
<1>5. Hits(b, Trusted) = {}
  BY <1>4 DEF Hits, Trusted
<1> QED BY <1>2, <1>3, <1>4, <1>5, IdleBurst

\* One idle item, other than a trusted callback, ...
LEMMA LoneBurst ==
    ASSUME NEW x, NEW n, x.ev \in IdleEvents \ Trusted
    PROVE  Burst(<<x>>, n)
<1> DEFINE b == <<x>>
<1>1. IsLog(b) /\ DOMAIN b = {1} /\ b[1] = x
  BY OneItem
<1> HIDE DEF b
<1>2. (\A i \in DOMAIN b : b[i].ev \in IdleEvents) /\ Hits(b, Trusted) = {}
  BY <1>1 DEF Hits
<1>3. Burst(b, n)
  BY <1>1, <1>2, IdleBurst
<1> QED BY <1>3 DEF b

\* ... or two of them.
LEMMA PairBurst ==
    ASSUME NEW x, NEW y, NEW n,
           x.ev \in IdleEvents \ Trusted, y.ev \in IdleEvents \ Trusted
    PROVE  Burst(<<x, y>>, n)
<1> DEFINE b == <<x, y>>
<1>1. IsLog(b) /\ DOMAIN b = {1, 2} /\ b[1] = x /\ b[2] = y
  BY TwoItems
<1> HIDE DEF b
<1>2. (\A i \in DOMAIN b : b[i].ev \in IdleEvents) /\ Hits(b, Trusted) = {}
  BY <1>1 DEF Hits
<1>3. Burst(b, n)
  BY <1>1, <1>2, IdleBurst
<1> QED BY <1>3 DEF b

\* Three idle items, of which only the second may be a trusted callback, and
\* only after a click.
LEMMA TrustedBurst ==
    ASSUME NEW x, NEW y, NEW z, NEW n,
           x.ev \in IdleEvents \ Trusted, y.ev \in IdleEvents, z.ev \in IdleEvents \ Trusted,
           y.ev \in Trusted => x.ev \in Clicked
    PROVE  Burst(<<x, y, z>>, n)
<1> DEFINE b == <<x, y, z>>
<1>1. IsLog(b) /\ DOMAIN b = {1, 2, 3} /\ b[1] = x /\ b[2] = y /\ b[3] = z
  BY ThreeItems
<1> HIDE DEF b
<1>2. \A i \in DOMAIN b : b[i].ev \in IdleEvents
  BY <1>1
<1>3. \A j \in Hits(b, Trusted) : j - 1 \in Hits(b, Clicked)
  BY <1>1 DEF Hits
<1>4. Burst(b, n)
  BY <1>1, <1>2, <1>3, IdleBurst
<1> QED BY <1>4 DEF b

\* Whatever an engine logs at work is a burst.
LEMMA AllBursts ==
    ASSUME NEW asks, NEW n \in Nat,
           NEW b \in ButtonBursts \cup OptionBursts \cup OtherBursts \cup RetryBursts(n + 1)
                       \cup CaptchaBursts(asks)
    PROVE  Burst(b, n)
<1>i. /\ \A e, t : Tag(e, t).ev = e
      /\ \A e : I(e).ev = e
      /\ \A e, m : Num(e, m).ev = e /\ Num(e, m).n = m
  BY ItemParts
<1>1. CASE b \in ButtonBursts
  <2>1. CASE b = <<I("button_clicked"), Tag("button_callback_result", "confirmed")>>
    BY <1>i, <2>1, PairBurst DEF IdleEvents, Trusted
  <2>2. CASE b = <<I("button_clicked"), I("callback_timeout_trusted"),
                   Tag("button_callback_result", "trusted_timeout")>>
    BY <1>i, <2>2, TrustedBurst DEF IdleEvents, Trusted, Clicked
  <2>3. CASE b = <<I("button_clicked"), Tag("button_callback_outer_timeout", "trusted"),
                   Tag("button_callback_result", "trusted_timeout")>>
    BY <1>i, <2>3, TrustedBurst DEF IdleEvents, Trusted, Clicked
  <2>4. CASE b = <<I("button_clicked")>> \o Missed("startup_history")
    BY <2>4, MissedBurst
  <2>5. CASE b = <<I("button_clicked")>> \o Missed("realtime")
    BY <2>5, MissedBurst
  <2> QED BY <1>1, <2>1, <2>2, <2>3, <2>4, <2>5 DEF ButtonBursts
<1>2. CASE b \in OptionBursts
  <2>1. CASE b = <<I("image_option_selected"), Tag("button_callback_result", "confirmed")>>
    BY <1>i, <2>1, PairBurst DEF IdleEvents, Trusted
  <2>2. CASE b = <<I("image_option_selected")>> \o Missed("realtime")
    BY <2>2, MissedBurst
  <2>3. CASE b = <<I("image_option_selected"), Tag("button_callback_outer_timeout", "-"),
                   Tag("button_callback_result", "timeout_failed")>>
    BY <1>i, <2>3, TrustedBurst DEF IdleEvents, Trusted, Clicked
  <2> QED BY <1>2, <2>1, <2>2, <2>3 DEF OptionBursts
<1>3. CASE b \in OtherBursts
  <2>1. CASE b \in {<<I(e)>> : e \in {"history_scan_completed", "history_failed",
                       "history_scan_cancelled", "message_unhandled", "stale_callback_text_skipped",
                       "response_action_timeout", "callback_text_received"}}
    <3>1. PICK e \in IdleEvents \ Trusted : b = <<I(e)>>
      BY <2>1 DEF IdleEvents, Trusted
    <3> QED BY <1>i, <3>1, LoneBurst
  <2>2. CASE b \in {<<Tag("response_action_not_advanced", r)>> : r \in {"finished", "unhandled"}}
    <3>1. PICK r \in {"finished", "unhandled"} : b = <<Tag("response_action_not_advanced", r)>>
      BY <2>2
    <3> QED BY <1>i, <3>1, LoneBurst DEF IdleEvents, Trusted
  <2>3. CASE b = <<Tag("message_skip_recorded", "duplicate")>>
    BY <1>i, <2>3, LoneBurst DEF IdleEvents, Trusted
  <2>4. CASE b = <<I("client_rpc_hard_timeout"), I("client_rpc_late_completed")>>
    BY <1>i, <2>4, PairBurst DEF IdleEvents, Trusted
  <2> QED BY <1>3, <2>1, <2>2, <2>3, <2>4 DEF OtherBursts
<1>4. CASE b \in RetryBursts(n + 1)
  <2> DEFINE x == Num("retry_scheduled", n + 1)
             y == Num("retry_started", n + 1)
             z == Num("retry_completed", n + 1)
             w == Num("retry_suppressed", n + 1)
  <2>0. /\ x.ev = "retry_scheduled" /\ y.ev = "retry_started" /\ z.ev = "retry_completed"
        /\ w.ev = "retry_suppressed" /\ x.n = n + 1 /\ y.n = n + 1 /\ z.n = n + 1 /\ w.n = n + 1
    BY <1>i
  <2>1. b = <<x, y, z>> \/ b = <<x, w>>
    BY <1>4 DEF RetryBursts
  <2> HIDE DEF x, y, z, w
  <2>2. CASE b = <<x, y, z>>
    <3>1. IsLog(b) /\ DOMAIN b = {1, 2, 3} /\ b[1] = x /\ b[2] = y /\ b[3] = z
      BY <2>2, ThreeItems
    <3>2. /\ \A i \in DOMAIN b : b[i].ev \in RetryingEvents /\ b[i].n = n + 1
          /\ \A i \in DOMAIN b : b[i].ev = "retry_scheduled" => i = 1
      BY <2>0, <3>1 DEF RetryingEvents
    <3> QED BY <2>0, <3>1, <3>2, RetryBurst
  <2>3. CASE b = <<x, w>>
    <3>1. IsLog(b) /\ DOMAIN b = {1, 2} /\ b[1] = x /\ b[2] = w
      BY <2>3, TwoItems
    <3>2. /\ \A i \in DOMAIN b : b[i].ev \in RetryingEvents /\ b[i].n = n + 1
          /\ \A i \in DOMAIN b : b[i].ev = "retry_scheduled" => i = 1
      BY <2>0, <3>1 DEF RetryingEvents
    <3> QED BY <2>0, <3>1, <3>2, RetryBurst
  <2> QED BY <2>1, <2>2, <2>3
<1>5. CASE b \in CaptchaBursts(asks)
  <2>1. PICK t : b \in {<<I("captcha_recognized"), Tag("captcha_sent", t)>>,
             <<I("captcha_recognized"), I("response_send_retryable_error"),
               I("message_retryable_error")>>}
    BY <1>5 DEF CaptchaBursts
  <2>2. CASE b = <<I("captcha_recognized"), Tag("captcha_sent", t)>>
    BY <1>i, <2>2, PairBurst DEF IdleEvents, Trusted
  <2>3. CASE b = <<I("captcha_recognized"), I("response_send_retryable_error"),
                   I("message_retryable_error")>>
    BY <1>i, <2>3, TrustedBurst DEF IdleEvents, Trusted, Clicked
  <2> QED BY <2>1, <2>2, <2>3
<1> QED BY <1>1, <1>2, <1>3, <1>4, <1>5

\* An engine at work.
LEMMA EngineWorksKeeps == ASSUME Inv, EngineWorks PROVE Inv'
<1>0. /\ IsLog(items) /\ pc = "engine" /\ pc' = pc /\ Mishap
      /\ UNCHANGED <<Task, Ending, pc, held, client, chat, good, engines, attempt, late, earned>>
      /\ engine.retries \in Nat /\ engine.unconfirmed \in Nat /\ engines \in Nat
  BY DEF Inv, TypeOK, EngineWorks
<1>1. PICK b : /\ Burst(b, engine.retries)
               /\ items' = items \o b
               /\ engine' = [engine EXCEPT !.retries = @ + Count(b, {"retry_scheduled"}),
                                           !.unconfirmed = @ + Unconfirmed(b)]
  <2>1. PICK b \in ButtonBursts \cup OptionBursts \cup OtherBursts \cup RetryBursts(engine.retries + 1)
                     \cup (IF "captcha" \in expects THEN CaptchaBursts(expects) ELSE {}) :
               /\ items' = items \o b
               /\ engine' = [engine EXCEPT !.retries = @ + Count(b, {"retry_scheduled"}),
                                           !.unconfirmed = @ + Unconfirmed(b)]
    BY DEF EngineWorks
  <2>2. b \in ButtonBursts \cup OptionBursts \cup OtherBursts \cup RetryBursts(engine.retries + 1)
                \cup CaptchaBursts(expects)
    BY <2>1
  <2>3. Burst(b, engine.retries)
    BY <1>0, <2>2, AllBursts
  <2> QED BY <2>1, <2>3
<1> DEFINE X == Range(b)
           c == Count(b, {"retry_scheduled"})
<1>2. /\ IsLog(b) /\ Len(b) \in Nat /\ Unconfirmed(b) \in Nat
      /\ Unconfirmed(items') = Unconfirmed(items) + Unconfirmed(b)
  BY <1>0, <1>1, LenProperties, UnconfirmedConcat DEF Burst, IsLog
<1>3. Grows(items, items', X, Len(b))
  <2>1. \A i \in DOMAIN b : b[i] \in X
    BY DEF Range
  <2> QED BY <1>0, <1>1, <1>2, <2>1, GrowsConcat
<1>4. \A x \in X : x.ev \notin LockEvents \cup EndEvents \cup Final \cup Matched
                         \cup {"checked_matched", "failed_matched", "completed", "timeout_state"}
  BY <1>1 DEF Burst, Range
<1>5. \/ c = 0 /\ \A x \in X : x.ev \notin RetryEvents
      \/ /\ c = 1 /\ Has(b, RetryEvents)
         /\ \A i \in Hits(b, RetryEvents) : b[i].n = engine.retries + 1
  BY <1>1 DEF Burst, Range, Has, Hits
<1>6. /\ engine'.retries = engine.retries + c
      /\ engine'.unconfirmed = engine.unconfirmed + Unconfirmed(b)
      /\ engine'.result = engine.result /\ engine'.raised = engine.raised
  BY <1>1 DEF Inv, TypeOK
<1> HIDE DEF X, c
<1>7. HoldsLocks /\ Engines /\ Counted /\ Succeeded
  BY <1>0 DEF Inv, Places
<1>8. pc \in Signs /\ pc' \in Signs /\ attempt' \in Nat \ {0}
  BY <1>0, <1>7 DEF HoldsLocks, Signs, Signing, Inv, TypeOK
<1>9. /\ Locking' /\ Story' /\ HoldsLocks' /\ Phases' /\ Kept' /\ ~success /\ cause = "-" /\ ~late
  BY <1>0, <1>2, <1>3, <1>4, <1>8, SigningStep
<1>s. /\ Same(Final) /\ Same({"timeout_state"}) /\ Same({"checked_matched"})
      /\ Same({"failed_matched"}) /\ Same(Started) /\ Same(Slotted)
  <2>1. \A E \in {Final, {"timeout_state"}, {"checked_matched"}, {"failed_matched"}, Started, Slotted} :
          \A x \in X : x.ev \notin E
    BY <1>4 DEF LockEvents
  <2> QED BY <1>2, <1>3, <2>1, GrowsKeeps DEF Same
<1>a. TypeOK'
  <2>1. engine' \in [result : {"-", "success", "failed"},
                     raised : {"-", "unasserted", "business", "os", "other"},
                     retries : Nat, unconfirmed : Nat]
    <3>1. engine' = [engine EXCEPT !.retries = @ + c, !.unconfirmed = @ + Unconfirmed(b)]
      BY <1>1 DEF c
    <3>2. c \in Nat
      BY <1>5
    <3>3. engine \in [result : {"-", "success", "failed"},
                      raised : {"-", "unasserted", "business", "os", "other"},
                      retries : Nat, unconfirmed : Nat]
      BY DEF Inv, TypeOK
    <3>4. engine.retries + c \in Nat /\ engine.unconfirmed + Unconfirmed(b) \in Nat
      BY <1>0, <1>2, <3>2
    <3> QED BY <3>1, <3>3, <3>4
  <2>2. IsLog(items') /\ mishaps' \in Nat
    BY <1>0, <1>3 DEF Grows, Mishap, Inv, TypeOK
  <2> QED BY <1>0, <2>1, <2>2 DEF Inv, TypeOK, Task, Ending
<1>b. Sourced'
  <2>1. \A x \in X : ~Tells(x)
    BY <1>4 DEF Tells, Final
  <2>2. engine'.result = "success" => earned'
    BY <1>0, <1>6 DEF Inv, Sourced
  <2>3. earned => earned'
    BY <1>0
  <2> QED BY <1>2, <1>3, <2>1, <2>2, <2>3, SourcedStep DEF Inv
<1>e. Counted'
  <2>1. engines # 0 /\ (engines = 1 => ~Has(items, Final))
    BY <1>0, <1>7 DEF Engines
  <2>2. Has(items, Started) => Has(items', Started)
    BY <1>s DEF Same
  <2>3. ASSUME engines < 2, ~Has(items, Final)
        PROVE  /\ engine'.retries = 0 \/ \E i \in Hits(items', RetryEvents) : items'[i].n = engine'.retries
               /\ \A i \in Hits(items', RetryEvents) : items'[i].n \in 0..engine'.retries
               /\ Unconfirmed(items') = engine'.unconfirmed
    <3>1. /\ engine.retries = 0 \/ \E i \in Hits(items, RetryEvents) : items[i].n = engine.retries
          /\ \A i \in Hits(items, RetryEvents) : items[i].n \in 0..engine.retries
          /\ Unconfirmed(items) = engine.unconfirmed
      BY <1>7, <2>3 DEF Counted
    <3>2. CASE c = 0 /\ \A x \in X : x.ev \notin RetryEvents
      <4>1. /\ Hits(items', RetryEvents) = Hits(items, RetryEvents)
            /\ \A i \in Hits(items, RetryEvents) : items'[i] = items[i]
        BY <1>2, <1>3, <3>2, GrowsKeeps
      <4>2. engine'.retries = engine.retries
        BY <1>0, <1>6, <3>2
      <4> QED BY <1>2, <1>6, <3>1, <4>1, <4>2
    <3>3. CASE /\ c = 1 /\ Has(b, RetryEvents)
               /\ \A i \in Hits(b, RetryEvents) : b[i].n = engine.retries + 1
      <4>1. engine'.retries = engine.retries + 1
        BY <1>6, <3>3
      <4>2. PICK i \in Hits(b, RetryEvents) : TRUE
        BY <3>3 DEF Has
      <4>3. \A j \in Hits(b, RetryEvents) :
                 /\ Len(items) + j \in Hits(items', RetryEvents)
                 /\ items'[Len(items) + j].n = engine.retries + 1
        <5> SUFFICES ASSUME NEW j \in Hits(b, RetryEvents)
                     PROVE  /\ Len(items) + j \in Hits(items', RetryEvents)
                            /\ items'[Len(items) + j].n = engine.retries + 1
          OBVIOUS
        <5>1. j \in 1..Len(b) /\ Len(items) + j \in Hits(items', RetryEvents)
          BY <1>0, <1>1, <1>2, HitsConcat
        <5>2. \A k \in 1..Len(b) : (items \o b)[Len(items) + k] = b[k]
          BY <1>0, <1>2, HitsConcat
        <5>3. items'[Len(items) + j] = b[j]
          BY <1>1, <5>1, <5>2
        <5> QED BY <3>3, <5>1, <5>3
      <4>4. \A j \in Hits(items', RetryEvents) :
                \/ j \in Hits(items, RetryEvents) /\ items'[j] = items[j]
                \/ items'[j].n = engine.retries + 1
        <5> SUFFICES ASSUME NEW j \in Hits(items', RetryEvents)
                     PROVE  \/ j \in Hits(items, RetryEvents) /\ items'[j] = items[j]
                            \/ items'[j].n = engine.retries + 1
          OBVIOUS
        <5>1. \/ j \in Hits(items, RetryEvents)
              \/ j - Len(items) \in Hits(b, RetryEvents) /\ j = Len(items) + (j - Len(items))
          BY <1>0, <1>1, <1>2, HitsConcat
        <5>2. CASE j \in Hits(items, RetryEvents)
          <6>1. j \in 1..Len(items)
            BY <1>0, <1>2, <5>2, HitsConcat
          <6> QED BY <1>0, <1>1, <1>2, <5>2, <6>1, HitsConcat
        <5>3. CASE j - Len(items) \in Hits(b, RetryEvents) /\ j = Len(items) + (j - Len(items))
          BY <4>3, <5>3
        <5> QED BY <5>1, <5>2, <5>3
      <4>5. \E j \in Hits(items', RetryEvents) : items'[j].n = engine'.retries
        BY <4>1, <4>2, <4>3
      <4>6. \A j \in Hits(items', RetryEvents) : items'[j].n \in 0..engine'.retries
        BY <1>0, <3>1, <4>1, <4>4
      <4> QED BY <1>2, <1>6, <3>1, <4>5, <4>6
    <3> QED BY <1>5, <3>2, <3>3
  <2> QED BY <1>0, <1>7, <1>s, <2>1, <2>2, <2>3 DEF Counted, Same
<1>f. Succeeded'
  <2>1. \A E : Has(items, E) => Has(items', E)
    BY <1>2, <1>3, GrowsHas
  <2>2. \A j \in Hits(items', Trusted) : j - 1 \in Hits(items', Clicked)
    <3> SUFFICES ASSUME NEW j \in Hits(items', Trusted) PROVE j - 1 \in Hits(items', Clicked)
      OBVIOUS
    <3>1. \/ j \in Hits(items, Trusted)
          \/ j - Len(items) \in Hits(b, Trusted) /\ j = Len(items) + (j - Len(items))
      BY <1>0, <1>1, <1>2, HitsConcat
    <3>2. CASE j \in Hits(items, Trusted)
      <4>1. j - 1 \in Hits(items, Clicked)
        BY <1>7, <3>2 DEF Succeeded
      <4> QED BY <1>2, <1>3, <4>1, GrowsHas
    <3>3. CASE j - Len(items) \in Hits(b, Trusted) /\ j = Len(items) + (j - Len(items))
      <4>1. (j - Len(items)) - 1 \in Hits(b, Clicked)
        BY <1>1, <3>3 DEF Burst
      <4>2. Len(items) \in Nat /\ j - Len(items) \in 1..Len(b)
        BY <1>0, <1>2, <3>3, HitsConcat
      <4>3. Len(items) + ((j - Len(items)) - 1) \in Hits(items', Clicked)
        BY <1>0, <1>1, <1>2, <4>1, HitsConcat
      <4>4. Len(items) + ((j - Len(items)) - 1) = j - 1
        BY <1>2, <3>3, <4>2
      <4> QED BY <4>3, <4>4
    <3> QED BY <3>1, <3>2, <3>3
  <2> QED BY <1>0, <1>7, <1>9, <1>s, <2>1, <2>2 DEF Succeeded, Same, Ending
<1>g. Plainly'
  <2>1. mishaps' # 0
    BY <1>0 DEF Mishap, Inv, TypeOK
  <2> QED BY <2>1 DEF Plainly
<1>h. Engines'
  BY <1>0, <1>7, <1>9, <1>s DEF Task, Engines, Same
<1> QED BY <1>9, <1>a, <1>b, <1>e, <1>f, <1>g, <1>h DEF Inv, Places

\* An engine ends, having logged the items of X last.
LEMMA EngineEndsKeeps ==
    ASSUME Inv, pc \in {"engine", "matched"}, NEW log, NEW X, NEW k \in Nat,
           Grows(items, log, X, k),
           \A x \in X : /\ x.ev \notin LockEvents \cup EndEvents \cup Trusted
                                       \cup {"checked_matched", "failed_matched", "final_state"}
                        /\ ~Tells(x),
           NEW result \in {"success", "failed"}, NEW raised \in {"-", "unasserted", "business", "os", "other"},
           NEW retries \in Nat, EngineEnds(log, result, raised, retries)
    PROVE  /\ Sourced' /\ Locking' /\ Story' /\ Counted' /\ Succeeded' /\ Places' /\ Kept'
           /\ mishaps' \in Nat => TypeOK'
           /\ Grows(items, items', X \cup {Item("final_state", result, retries, engine.unconfirmed)}, k + 1)
           /\ ~late /\ cause = "-"
<1> DEFINE x == Item("final_state", result, retries, engine.unconfirmed)
           Y == X \cup {x}
<1>0. /\ items' = Append(log, x) /\ pc' = "drain" /\ earned' = (earned \/ result = "success")
      /\ UNCHANGED <<Task, Ending, held, client, chat, good, engines, attempt, late>>
      /\ engine' = [engine EXCEPT !.result = result, !.raised = raised, !.retries = retries]
      /\ IsLog(log) /\ IsLog(items)
  BY DEF EngineEnds, Grows
<1>1. x.ev = "final_state" /\ x.tag = result /\ x.n = retries /\ x.m = engine.unconfirmed
  BY ItemParts
<1>2. engine'.result = result /\ engine'.retries = retries /\ engine'.unconfirmed = engine.unconfirmed
  BY <1>0 DEF Inv, TypeOK
<1> HIDE DEF x
<1>3. Grows(items, items', Y, k + 1)
  BY <1>0, GrowsAppend, GrowsThen
<1>4. Has(items', Final) /\ LastOf(items', Final) = x
  BY <1>0, <1>1, HasAppend, LastAppend DEF Final
<1>5. \A y \in Y : y.ev \notin LockEvents \cup EndEvents \cup Trusted
                                \cup {"checked_matched", "failed_matched"}
  BY <1>1 DEF LockEvents, EndEvents, Trusted, Locked, Unlocked, Slotted, Unslotted, Started, Closed,
     Unclosed, Unsaved, Failed, Completed, TimedOut
<1>6. \A y \in Y : Tells(y) => earned'
  BY <1>0, <1>1 DEF Tells, Matched, Ends
<1> HIDE DEF Y
<1>7. Engines /\ HoldsLocks /\ Counted
  BY DEF Inv, Places
<1>8. pc \in Signs /\ pc' \in Signs /\ attempt' \in Nat \ {0}
  BY <1>0, <1>7 DEF HoldsLocks, Signs, Signing, Inv, TypeOK
<1>9. /\ Locking' /\ Story' /\ HoldsLocks' /\ Phases' /\ Kept' /\ ~success /\ cause = "-" /\ ~late
  BY <1>0, <1>3, <1>5, <1>8, SigningStep
<1>a. ASSUME mishaps' \in Nat PROVE TypeOK'
  <2>1. engine' \in [result : {"-", "success", "failed"},
                     raised : {"-", "unasserted", "business", "os", "other"},
                     retries : Nat, unconfirmed : Nat]
    BY <1>0 DEF Inv, TypeOK
  <2>2. IsLog(items') /\ earned' \in BOOLEAN
    BY <1>0, <1>3 DEF Grows, Inv, TypeOK
  <2> QED BY <1>0, <1>a, <2>1, <2>2 DEF Inv, TypeOK, Task, Ending, Before, Signs, Signing
<1>b. Sourced'
  <2>1. engine'.result = "success" => earned'
    BY <1>0, <1>2
  <2>2. earned => earned'
    BY <1>0
  <2> QED BY <1>3, <1>6, <2>1, <2>2, SourcedStep DEF Inv
<1>e. Counted'
  <2>1. engines # 0
    BY <1>7 DEF Engines
  <2>2. Has(items', Started)
    BY <1>3, <1>7, <2>1, GrowsHas DEF Counted
  <2>3. engines' = engines /\ attempt' # 0
    BY <1>0, <1>8
  <2>4. LastOf(items', Final).n = engine'.retries /\ LastOf(items', Final).m = engine'.unconfirmed
    BY <1>1, <1>2, <1>4
  <2> QED BY <1>4, <2>1, <2>2, <2>3, <2>4 DEF Counted
<1>f. Succeeded'
  <2>1. /\ \A y \in Y : y.ev \notin Trusted \cup {"checked_matched", "failed_matched"}
        /\ \A y \in Y : y.ev \in Started \cup Slotted => FALSE
    BY <1>5 DEF LockEvents
  <2> QED BY <1>0, <1>3, <1>9, <2>1, SucceededKept DEF Inv, Task, Ending
<1>h. Engines'
  <2>1. engines # 0 /\ pc' = "drain" /\ ~late' /\ LastOf(items', Final).tag = engine'.result
    BY <1>0, <1>1, <1>2, <1>4, <1>7, <1>9 DEF Engines
  <2> QED BY <1>0, <1>4, <1>7, <2>1 DEF Engines, Task
<1> QED BY <1>3, <1>9, <1>a, <1>b, <1>e, <1>f, <1>h DEF Places, Y, x

\* What an engine may log of its end.
EndingNotes == {"completed_without_result_assertion", "retry_scheduled", "retry_started",
                "retry_initial_send_failed", "retry_limit_exceeded", "timeout_state"}

\* Those are notes the lemma about its end allows.
LEMMA EndingNote ==
    ASSUME NEW x, x.ev \in EndingNotes
    PROVE  /\ x.ev \notin LockEvents \cup EndEvents \cup Trusted
                            \cup {"checked_matched", "failed_matched", "final_state"}
           /\ ~Tells(x)
BY DEF EndingNotes, LockEvents, EndEvents, Trusted, Tells, Matched, Locked, Unlocked, Slotted,
   Unslotted, Started, Closed, Unclosed, Unsaved, Failed, Completed, TimedOut

\* An engine ends off the plain path, ...
LEMMA EngineFailsKeeps ==
    ASSUME Inv, pc \in {"engine", "matched"}, Mishap, NEW log, NEW X, NEW k \in Nat,
           Grows(items, log, X, k), \A x \in X : x.ev \in EndingNotes,
           NEW raised \in {"-", "business", "os", "other"}, NEW retries \in Nat,
           EngineEnds(log, "failed", raised, retries)
    PROVE  Inv'
<1>1. \A x \in X : /\ x.ev \notin LockEvents \cup EndEvents \cup Trusted
                                       \cup {"checked_matched", "failed_matched", "final_state"}
                   /\ ~Tells(x)
  BY EndingNote
<1>2. PICK r \in {"success", "failed"} : r = "failed"
  OBVIOUS
<1>3. raised \in {"-", "unasserted", "business", "os", "other"}
  OBVIOUS
<1>4. EngineEnds(log, r, raised, retries)
  BY <1>2
<1>5. mishaps' \in Nat /\ mishaps' # 0
  BY DEF Mishap, Inv, TypeOK
<1>6. /\ Sourced' /\ Locking' /\ Story' /\ Counted' /\ Succeeded' /\ Places' /\ Kept'
      /\ mishaps' \in Nat => TypeOK'
  BY <1>1, <1>3, <1>4, EngineEndsKeeps
<1> QED BY <1>5, <1>6 DEF Inv, Plainly

\* ... whichever it was that failed.
LEMMA EngineRaisesKeeps == ASSUME Inv, EngineRaises PROVE Inv'
<1>1. PICK e \in {"business", "os", "other"} : EngineEnds(items, "failed", e, engine.retries)
  BY DEF EngineRaises
<1>2. pc \in {"engine", "matched"} /\ Mishap /\ engine.retries \in Nat /\ IsLog(items)
  BY DEF EngineRaises, Inv, TypeOK
<1>3. Grows(items, items, {}, 0)
  BY <1>2, GrowsSame
<1>4. \A x \in {} : x.ev \in EndingNotes
  OBVIOUS
<1> QED BY <1>1, <1>2, <1>3, <1>4, EngineFailsKeeps

\* See EngineRaisesKeeps.
LEMMA EngineTimesOutKeeps == ASSUME Inv, EngineTimesOut PROVE Inv'
<1> DEFINE x == Item("timeout_state", "-", engine.retries, engine.unconfirmed)
<1>1. /\ EngineEnds(Append(items, x), "failed", "business", engine.retries)
      /\ pc \in {"engine", "matched"} /\ Mishap /\ engine.retries \in Nat /\ IsLog(items)
  BY DEF EngineTimesOut, Inv, TypeOK
<1>2. x.ev = "timeout_state"
  BY ItemParts
<1> HIDE DEF x
<1>3. Grows(items, Append(items, x), {x}, 1)
  BY <1>1, GrowsAppend
<1>4. \A y \in {x} : y.ev \in EndingNotes
  BY <1>2 DEF EndingNotes
<1> QED BY <1>1, <1>3, <1>4, EngineFailsKeeps

\* See EngineRaisesKeeps.
LEMMA EngineGivesUpKeeps == ASSUME Inv, EngineGivesUp PROVE Inv'
<1> DEFINE n == engine.retries + 1
           x == Num("retry_scheduled", n)
           y == Num("retry_started", n)
           z == Num("retry_initial_send_failed", n)
           w == Num("retry_limit_exceeded", n)
<1>1. /\ pc \in {"engine", "matched"} /\ Mishap /\ IsLog(items)
      /\ engine.retries \in Nat /\ n \in Nat
  BY DEF EngineGivesUp, Inv, TypeOK
<1>2. \/ EngineEnds(items, "failed", "-", engine.retries)
      \/ EngineEnds(items \o <<x, y, z>>, "failed", "-", n)
      \/ EngineEnds(Append(items, w), "failed", "-", n)
  BY DEF EngineGivesUp
<1>3. /\ x.ev = "retry_scheduled" /\ y.ev = "retry_started" /\ z.ev = "retry_initial_send_failed"
      /\ w.ev = "retry_limit_exceeded"
  BY ItemParts
<1> HIDE DEF x, y, z, w, n
<1>4. CASE EngineEnds(items, "failed", "-", engine.retries)
  <2>1. Grows(items, items, {}, 0)
    BY <1>1, GrowsSame
  <2>2. \A u \in {} : u.ev \in EndingNotes
    OBVIOUS
  <2> QED BY <1>1, <1>4, <2>1, <2>2, EngineFailsKeeps
<1>5. CASE EngineEnds(items \o <<x, y, z>>, "failed", "-", n)
  <2> DEFINE b == <<x, y, z>>
  <2>1. IsLog(b) /\ DOMAIN b = {1, 2, 3} /\ b[1] = x /\ b[2] = y /\ b[3] = z
    BY ThreeItems
  <2>2. EngineEnds(items \o b, "failed", "-", n)
    BY <1>5
  <2> HIDE DEF b
  <2>3. (\A i \in DOMAIN b : b[i] \in {x, y, z}) /\ Len(b) \in Nat
    BY <2>1, LenProperties DEF IsLog
  <2>4. Grows(items, items \o b, {x, y, z}, Len(b))
    BY <1>1, <2>1, <2>3, GrowsConcat
  <2>5. \A u \in {x, y, z} : u.ev \in EndingNotes
    BY <1>3 DEF EndingNotes
  <2> QED BY <1>1, <2>2, <2>3, <2>4, <2>5, EngineFailsKeeps
<1>6. CASE EngineEnds(Append(items, w), "failed", "-", n)
  <2>1. Grows(items, Append(items, w), {w}, 1)
    BY <1>1, GrowsAppend
  <2>2. \A u \in {w} : u.ev \in EndingNotes
    BY <1>3 DEF EndingNotes
  <2> QED BY <1>1, <1>6, <2>1, <2>2, EngineFailsKeeps
<1> QED BY <1>2, <1>4, <1>5, <1>6

\* An engine ends on the plain path, ...
LEMMA EngineFinishesKeeps ==
    ASSUME Inv, pc \in {"engine", "matched"}, Plain, NEW log, NEW X, NEW k \in Nat,
           Grows(items, log, X, k), \A x \in X : x.ev = "completed_without_result_assertion",
           NEW raised \in {"-", "unasserted"},
           EngineEnds(log, "success", raised, engine.retries)
    PROVE  Inv'
<1>1. \A x \in X : /\ x.ev \notin LockEvents \cup EndEvents \cup Trusted
                                       \cup {"checked_matched", "failed_matched", "final_state"}
                   /\ ~Tells(x)
  BY EndingNote DEF EndingNotes
<1>2. PICK r \in {"success", "failed"} : r = "success"
  OBVIOUS
<1> DEFINE y == Item("final_state", r, engine.retries, engine.unconfirmed)
<1>3. /\ raised \in {"-", "unasserted", "business", "os", "other"} /\ engine.retries \in Nat
      /\ EngineEnds(log, r, raised, engine.retries) /\ mishaps' = mishaps
  BY <1>2 DEF Inv, TypeOK, Plain
<1>4. /\ Sourced' /\ Locking' /\ Story' /\ Counted' /\ Succeeded' /\ Places' /\ Kept'
      /\ mishaps' \in Nat => TypeOK'
      /\ ~late /\ cause = "-"
  BY <1>1, <1>3, EngineEndsKeeps
<1>g. Grows(items, items', X \cup {y}, k + 1)
  BY <1>1, <1>3, EngineEndsKeeps
<1>5. Plainly'
  <2>1. \A x \in X \cup {y} : PlainItem(x)
    BY <1>2, ItemParts DEF PlainItem, PlainEvents, Final
  <2>2. /\ late' = late /\ cause' = cause /\ engine'.raised = raised /\ pc' = "drain"
    BY DEF EngineEnds, Ending, Inv, TypeOK
  <2>3. k + 1 \in Nat /\ Plainly
    BY DEF Inv
  <2> HIDE DEF y
  <2> QED BY <1>3, <1>4, <1>g, <2>1, <2>2, <2>3, PlainlyStep
<1> QED BY <1>3, <1>4, <1>5 DEF Inv, TypeOK

\* ... with a result or without any to wait for.
LEMMA EngineSucceedsKeeps == ASSUME Inv, EngineSucceeds PROVE Inv'
<1> DEFINE w == I("completed_without_result_assertion")
<1>1. /\ pc \in {"engine", "matched"} /\ Plain /\ IsLog(items)
      /\ \/ EngineEnds(items, "success", "-", engine.retries)
         \/ EngineEnds(Append(items, w), "success", "unasserted", engine.retries)
  BY DEF EngineSucceeds, Inv, TypeOK
<1>2. w.ev = "completed_without_result_assertion"
  BY ItemParts
<1> HIDE DEF w
<1>3. CASE EngineEnds(items, "success", "-", engine.retries)
  <2>1. Grows(items, items, {}, 0)
    BY <1>1, GrowsSame
  <2>2. \A x \in {} : x.ev = "completed_without_result_assertion"
    OBVIOUS
  <2> QED BY <1>1, <1>3, <2>1, <2>2, EngineFinishesKeeps
<1>4. CASE EngineEnds(Append(items, w), "success", "unasserted", engine.retries)
  <2>1. Grows(items, Append(items, w), {w}, 1)
    BY <1>1, GrowsAppend
  <2>2. \A x \in {w} : x.ev = "completed_without_result_assertion"
    BY <1>2
  <2> QED BY <1>1, <1>4, <2>1, <2>2, EngineFinishesKeeps
<1> QED BY <1>1, <1>3, <1>4

(***************************************************************************)
(* How a run that has a client ends.                                       *)
(***************************************************************************)
\* The slot is let go of, if the run has one.
LEMMA SlotReleasedGrows ==
    ASSUME NEW log, IsLog(log)
    PROVE  /\ Grows(log, SlotReleased(log), {I("global_concurrency_released")}, 1)
           /\ Has(SlotReleased(log), Unslotted) <=>
                Has(log, Unslotted) \/ "global_concurrency" \in held
<1> DEFINE r == I("global_concurrency_released")
<1>1. r.ev \in Unslotted
  BY ItemParts DEF Unslotted
<1>2. CASE "global_concurrency" \in held
  <2>1. SlotReleased(log) = Append(log, r)
    BY <1>2 DEF SlotReleased
  <2> HIDE DEF r
  <2> QED BY <1>1, <1>2, <2>1, GrowsAppend, HasAppend DEF r
<1>3. CASE "global_concurrency" \notin held
  <2>1. SlotReleased(log) = log
    BY <1>3 DEF SlotReleased
  <2>2. Grows(log, log, {r}, 0)
    BY GrowsSame
  <2>3. Grows(log, log, {r}, 1)
    BY <2>2 DEF Grows
  <2> QED BY <1>3, <2>1, <2>3
<1> QED BY <1>2, <1>3

\* Everything but what is told of the end, when the cleanup begins.
LEMMA CloseStep ==
    ASSUME Inv, pc \in {"slot", "done"} \cup Signs,
           NEW Y, NEW m \in 0..6, Grows(items, items', Y, m),
           \A y \in Y : /\ y.ev \notin (LockEvents \ Unslotted) \cup CountEvents \cup Trusted
                              \cup {"checked_matched", "failed_matched"}
                        /\ Tells(y) => earned,
           Has(items', Unslotted) <=> Has(items, Slotted),
           held' = held \ {"global_concurrency"}, pc' = "cleaning",
           UNCHANGED <<Task, client, report, success, chat, good, engine, engines, attempt, earned>>,
           late' \in BOOLEAN, late' => pc = "engine" /\ m <= 4, mishaps' \in Nat,
           cause' \in {"-", "cancelled", "account_lock", "global_concurrency", "none", "outer_task"}
    PROVE  /\ TypeOK' /\ Sourced' /\ Locking' /\ Counted' /\ Succeeded' /\ Engines' /\ HoldsLocks'
           /\ Kept'
           /\ \A i \in Hits(items', EndEvents) : i > Len(items') - Reach'
<1>0. /\ HoldsLocks /\ Phases /\ Engines /\ Locking /\ Counted /\ m \in Nat
      /\ pc \in Before \cup {"done"} /\ pc \notin {"queue", "ready", "over"} \cup Closing
  BY DEF Inv, Places, Signs, Signing, Before, Closing
<1>1. client = "open" /\ ~late /\ pc' # "over" /\ pc' \notin {"queue", "ready"}
  BY <1>0 DEF HoldsLocks, Engines
<1>2. \A E \in {Locked, Unlocked, Slotted, Started, Closed, Unclosed, Unsaved, Final} : Same(E)
  <2>1. ASSUME NEW E \in {Locked, Unlocked, Slotted, Started, Closed, Unclosed, Unsaved, Final}
        PROVE  \A y \in Y : y.ev \notin E
    <3>1. E \subseteq (LockEvents \ Unslotted) \cup CountEvents
      BY DEF LockEvents, CountEvents, Unslotted, Locked, Unlocked, Slotted, Started, Closed,
         Unclosed, Unsaved
    <3> QED BY <3>1
  <2> QED BY <1>0, <2>1, GrowsKeeps DEF Same
<1>a. TypeOK'
  <2>1. IsLog(items')
    BY DEF Grows
  <2> QED BY <2>1 DEF Inv, TypeOK, Task, Closing
<1>b. Sourced'
  BY <1>0, SourcedStep DEF Inv, Sourced
<1>c. Locking'
  BY <1>0, <1>1, <1>2 DEF Locking, Same
<1>e. Counted'
  BY <1>0, CountedKept
<1>f. Succeeded'
  <2>1. /\ \A y \in Y : y.ev \notin Trusted \cup {"checked_matched", "failed_matched"}
        /\ \A y \in Y : y.ev \in Started \cup Slotted => FALSE
        /\ \A y \in Y : y.ev \notin Final
    BY DEF LockEvents, CountEvents, Started, Slotted, Unslotted
  <2> QED BY <1>0, <2>1, SucceededKept DEF Inv, Task
<1>g. Engines'
  <2>1. late' => engines # 0 /\ ~success /\ (engines = 1 => ~Has(items, Final))
    BY <1>0 DEF Engines, Phases, Before, Signs, Signing
  <2> QED BY <1>0, <1>2, <2>1 DEF Engines, Same, Task, Closing
<1>h. HoldsLocks'
  BY <1>0, <1>1, <1>2 DEF HoldsLocks, Same, Signs, Signing, Closing
<1>i. Kept'
  BY DEF Kept
<1>j. \A i \in Hits(items', EndEvents) : i > Len(items') - Reach'
  <2> SUFFICES ASSUME NEW i \in Hits(items', EndEvents) PROVE i > Len(items') - Reach'
    OBVIOUS
  <2>1. /\ i \in Hits(items, EndEvents) \/ i > Len(items)
        /\ Len(items) \in Nat /\ Len(items') \in Nat /\ Len(items') <= Len(items) + m /\ i \in Nat
    BY <1>0, GrowsHas DEF Grows, Hits
  <2>2. i \in Hits(items, EndEvents) => i > Len(items) - 2 /\ ~late'
    BY <1>0 DEF Phases, Has, Recent, Signs, Signing, Before
  <2>3. Reach' = IF late' THEN 4 ELSE 8
    BY DEF Reach
  <2> QED BY <2>1, <2>2, <2>3
<1> QED BY <1>a, <1>b, <1>c, <1>e, <1>f, <1>g, <1>h, <1>i, <1>j

\* Only these events lead to the end of a run that fails.
FailNotes == {"global_concurrency_wait_timeout", "completed", "task_run_timeout",
              "task_run_late_cancelled", "task_run_late_completed", "task_run_late_exception"}

\* What a run logs when it fails is the release of its slot, the failure and
\* the start of the cleanup.
LEMMA FailKeeps ==
    ASSUME Inv, pc \in {"slot"} \cup Signs,
           NEW log, NEW X, NEW k \in 0..3, Grows(items, log, X, k),
           \A x \in X : x.ev \in FailNotes /\ (Tells(x) => earned),
           NEW scope \in {"none", "global_concurrency", "outer_task"}, Fail(log, scope),
           scope # "outer_task" => ~Has(log, TimedOut),
           scope = "outer_task" => \E p \in DOMAIN log : Hits(log, TimedOut) = {p},
           UNCHANGED <<Task, chat, good, engine, engines, attempt, earned>>,
           late' \in BOOLEAN, late' => pc = "engine" /\ k <= 1, mishaps' \in Nat \ {0}
    PROVE  Inv'
<1> DEFINE r == I("global_concurrency_released")
           f == Item("task_failed", scope, attempt, 0)
           s == I("client_cleanup_started")
           a == SlotReleased(log)
           b == Append(a, f)
           Y == ((X \cup {r}) \cup {f}) \cup {s}
<1>0. /\ HoldsLocks /\ Phases /\ Engines /\ Locking /\ Story /\ k \in Nat /\ k + 3 \in 0..6
      /\ pc \notin {"queue", "ready", "over"} \cup Closing /\ pc \in Before
      /\ pc \in {"slot", "done"} \cup Signs
  BY DEF Inv, Places, Signs, Signing, Before, Closing
<1>1. client = "open" /\ cause = "-" /\ ~success /\ ~Has(items, Failed) /\ ~Has(items, Completed)
  BY <1>0 DEF HoldsLocks, Phases, Story
<1>2. /\ items' = Append(b, s) /\ pc' = "cleaning" /\ held' = held \ {"global_concurrency"}
      /\ cause' = scope /\ UNCHANGED <<client, report, success>>
  BY <1>1 DEF Fail, Finally
<1>3. /\ f.ev = "task_failed" /\ f.tag = scope /\ f.n = attempt
      /\ r.ev = "global_concurrency_released" /\ s.ev = "client_cleanup_started"
  BY ItemParts
<1>4. /\ Grows(log, a, {r}, 1)
      /\ Has(a, Unslotted) <=> Has(log, Unslotted) \/ "global_concurrency" \in held
      /\ IsLog(log)
  BY SlotReleasedGrows DEF Grows
<1> HIDE DEF a, f, r, s
<1>5. IsLog(a) /\ IsLog(b) /\ Grows(a, b, {f}, 1) /\ Grows(b, items', {s}, 1) /\ IsLog(items')
  BY <1>2, <1>4, GrowsAppend DEF Grows
<1>6. Grows(items, items', Y, k + 3)
  <2>1. Grows(items, a, X \cup {r}, k + 1)
    BY <1>0, <1>4, GrowsThen
  <2>0. k + 1 \in Nat /\ (k + 1) + 1 \in Nat
    BY <1>0
  <2>2. Grows(items, b, (X \cup {r}) \cup {f}, (k + 1) + 1)
    BY <1>5, <2>0, <2>1, GrowsThen
  <2>3. Grows(items, items', Y, ((k + 1) + 1) + 1)
    BY <1>5, <2>0, <2>2, GrowsThen
  <2>4. ((k + 1) + 1) + 1 = k + 3
    BY <1>0
  <2> QED BY <2>3, <2>4
<1>7. /\ \A y \in Y : y.ev \in FailNotes \cup {"task_failed", "global_concurrency_released",
                                               "client_cleanup_started"}
      /\ \A y \in Y : Tells(y) => earned
  BY <1>3 DEF Tells, Matched
<1>8. Has(items', Unslotted) <=> Has(items, Slotted)
  <2>1. Has(items', Unslotted) <=> Has(a, Unslotted)
    BY <1>3, <1>5, GrowsKeeps DEF Unslotted
  <2>2. Has(log, Unslotted) <=> Has(items, Unslotted)
    BY <1>0, GrowsKeeps DEF Unslotted, FailNotes
  <2> QED BY <1>0, <1>4, <2>1, <2>2 DEF HoldsLocks, Locking
<1>9. \A E \in {Failed, TimedOut, Completed} :
        /\ s.ev \notin E /\ r.ev \notin E
        /\ E # Failed => f.ev \notin E /\ Hits(items', E) = Hits(log, E)
  <2>1. \A E \in {Failed, TimedOut, Completed} : s.ev \notin E /\ r.ev \notin E
    BY <1>3 DEF Failed, TimedOut, Completed
  <2>2. \A E \in {TimedOut, Completed} : f.ev \notin E
    BY <1>3 DEF Failed, TimedOut, Completed
  <2>3. \A E \in {TimedOut, Completed} :
          Hits(a, E) = Hits(log, E) /\ Hits(b, E) = Hits(a, E) /\ Hits(items', E) = Hits(b, E)
    BY <1>4, <1>5, <2>1, <2>2, GrowsKeeps
  <2> QED BY <2>1, <2>2, <2>3
<1> HIDE DEF b, Y
<1>a. /\ TypeOK' /\ Sourced' /\ Locking' /\ Counted' /\ Succeeded' /\ Engines' /\ HoldsLocks'
      /\ Kept'
      /\ \A i \in Hits(items', EndEvents) : i > Len(items') - Reach'
  <2>1. \A y \in Y : /\ y.ev \notin (LockEvents \ Unslotted) \cup CountEvents \cup Trusted
                              \cup {"checked_matched", "failed_matched"}
                     /\ Tells(y) => earned
    BY <1>7 DEF FailNotes, LockEvents, CountEvents, RetryEvents, RetryFailures, Trusted, Final,
       Unslotted, Locked, Unlocked, Slotted, Started, Closed, Unclosed, Unsaved
  <2>2. /\ late' => pc = "engine" /\ k + 3 <= 4
        /\ cause' \in {"-", "cancelled", "account_lock", "global_concurrency", "none", "outer_task"}
        /\ mishaps' \in Nat
    BY <1>0, <1>2
  <2>3. UNCHANGED <<Task, client, report, success, chat, good, engine, engines, attempt, earned>>
    BY <1>2
  <2> QED BY <1>0, <1>2, <1>6, <1>8, <2>1, <2>2, <2>3, CloseStep
<1>b. Story'
  <2>1. Has(items', Failed) /\ LastOf(items', Failed) = f
    <3>1. Has(b, Failed) /\ LastOf(b, Failed) = f
      BY <1>3, <1>5, HasAppend, LastAppend DEF Failed, b
    <3> QED BY <1>2, <1>5, <1>9, <3>1, HasAppend, LastAppend
  <2>2. ~Has(items', Completed)
    <3>1. ~Has(log, Completed)
      BY <1>0, <1>1, GrowsKeeps DEF Completed, FailNotes
    <3>2. Completed # Failed
      BY DEF Completed, Failed
    <3> QED BY <1>9, <3>1, <3>2 DEF Has
  <2>3. Hits(items', TimedOut) = Hits(log, TimedOut)
    BY <1>9 DEF Failed, TimedOut
  <2>4. DOMAIN log \subseteq DOMAIN items'
    BY <1>4, <1>5 DEF Grows
  <2>5. cause' # "outer_task" => ~Has(items', TimedOut)
    BY <1>2, <2>3 DEF Has
  <2>6. cause' = "outer_task" => \E p \in DOMAIN items' : Hits(items', TimedOut) = {p}
    BY <1>2, <2>3, <2>4
  <2>7. cause' \notin {"-", "cancelled"} /\ ~success' /\ attempt' = attempt
    BY <1>1, <1>2
  <2> QED BY <1>2, <1>3, <2>1, <2>2, <2>5, <2>6, <2>7 DEF Story
<1>c. Plainly'
  BY DEF Plainly
<1>d. Phases'
  <2>1. pc' \notin Before \cup {"done"} /\ cause' # "-"
    BY <1>2 DEF Before, Signs, Signing
  <2> QED BY <1>a, <2>1 DEF Phases, Recent
<1> QED BY <1>2, <1>a, <1>b, <1>c, <1>d DEF Inv, Places

\* The slot was not free in time.
LEMMA SlotWaitTimesOutKeeps == ASSUME Inv, SlotWaitTimesOut PROVE Inv'
<1> DEFINE x == I("global_concurrency_wait_timeout")
           log == Append(items, x)
<1>0. IsLog(items) /\ pc = "slot" /\ Fail(log, "global_concurrency") /\ mishaps' \in Nat \ {0}
      /\ UNCHANGED <<Task, Signer>> /\ Phases /\ Engines /\ late \in BOOLEAN
  BY DEF Inv, TypeOK, SlotWaitTimesOut, Mishap, Places
<1>1. x.ev = "global_concurrency_wait_timeout"
  BY ItemParts
<1> HIDE DEF x
<1>2. Grows(items, log, {x}, 1)
  BY <1>0, GrowsAppend
<1>3. ~Has(log, TimedOut)
  <2>1. ~Has(items, TimedOut)
    BY <1>0 DEF Phases, Before, Has, Hits, EndEvents
  <2> QED BY <1>0, <1>1, <2>1, HasAppend DEF TimedOut
<1>4. \A y \in {x} : y.ev \in FailNotes /\ (Tells(y) => earned)
  BY <1>1 DEF FailNotes, Tells, Matched
<1> HIDE DEF log
<1>5. PICK scope \in {"none", "global_concurrency", "outer_task"} : scope = "global_concurrency"
  OBVIOUS
<1>6. /\ Fail(log, scope) /\ scope # "outer_task" /\ 1 \in 0..3 /\ late' = late /\ ~late
      /\ pc \in {"slot"} \cup Signs
      /\ UNCHANGED <<Task, chat, good, engine, engines, attempt, earned>>
  BY <1>0, <1>5 DEF Signer, Engines, Closing
<1> QED BY <1>0, <1>2, <1>3, <1>4, <1>6, FailKeeps

\* The signer fails: nothing is logged of it but the failure.
LEMMA SignerStops ==
    ASSUME Inv, pc \in Signs, Fail(items, "none"), UNCHANGED <<Task, Signer>>,
           mishaps' \in Nat \ {0}
    PROVE  Inv'
<1>0. IsLog(items) /\ Phases /\ Engines /\ late \in BOOLEAN /\ pc # "over" /\ pc \in Before
      /\ pc \notin Closing
  BY DEF Inv, TypeOK, Places, Signs, Signing, Before, Closing
<1>2. Grows(items, items, {}, 0)
  BY <1>0, GrowsSame
<1>3. ~Has(items, TimedOut)
  BY <1>0 DEF Phases, Has, Hits, EndEvents
<1>4. \A y \in {} : y.ev \in FailNotes /\ (Tells(y) => earned)
  OBVIOUS
<1>5. PICK scope \in {"none", "global_concurrency", "outer_task"} : scope = "none"
  OBVIOUS
<1>6. /\ Fail(items, scope) /\ scope # "outer_task" /\ 0 \in 0..3 /\ late' = late /\ ~late
      /\ UNCHANGED <<Task, chat, good, engine, engines, attempt, earned>>
      /\ pc \in {"slot"} \cup Signs
  BY <1>0, <1>5 DEF Signer, Engines
<1> QED BY <1>0, <1>2, <1>3, <1>4, <1>6, FailKeeps

\* The client does not start.
LEMMA SignerFailsKeeps == ASSUME Inv, SignerFails PROVE Inv'
BY SignerStops DEF SignerFails, Mishap, Inv, TypeOK, Signs, Signing

\* The engine raised what nobody expects.
LEMMA SignerRaisesKeeps == ASSUME Inv, SignerRaises PROVE Inv'
<1>1. mishaps' \in Nat \ {0}
  BY DEF SignerRaises, Plain, Inv, TypeOK, Plainly
<1> QED BY <1>1, SignerStops DEF SignerRaises, Signs, Signing

\* What becomes of work that goes on after its timeout.
LEMMA LateNames ==
    /\ Late("task_run") = {"task_run_late_cancelled", "task_run_late_completed",
                           "task_run_late_exception"}
    /\ Late("client_rpc") = {"client_rpc_late_cancelled", "client_rpc_late_completed",
                             "client_rpc_late_exception"}
    /\ Late("hard_timeout") = {"hard_timeout_late_cancelled", "hard_timeout_late_completed",
                               "hard_timeout_late_exception"}
    /\ Late("client_cleanup") = {"client_cleanup_late_cancelled", "client_cleanup_late_completed",
                                 "client_cleanup_late_exception"}
<1>1. /\ LateCancelled["task_run"] = "task_run_late_cancelled"
      /\ LateCancelled["client_rpc"] = "client_rpc_late_cancelled"
      /\ LateCancelled["hard_timeout"] = "hard_timeout_late_cancelled"
      /\ LateCancelled["client_cleanup"] = "client_cleanup_late_cancelled"
  BY DEF LateCancelled
<1> QED BY <1>1 DEF Late

\* The run takes too long.
LEMMA RunTimesOutKeeps == ASSUME Inv, RunTimesOut PROVE Inv'
<1> DEFINE t == I("task_run_timeout")
<1>0. /\ IsLog(items) /\ mishaps' \in Nat \ {0} /\ Phases /\ pc \in Signing
      /\ UNCHANGED <<Task, chat, good, engine, engines, attempt, earned>>
  BY DEF Inv, TypeOK, RunTimesOut, Mishap, Places, Signing
<1>1. PICK e \in Late("task_run") \cup {"-"} :
        /\ Fail(items \o <<t>> \o (IF e = "-" THEN <<>> ELSE <<I(e)>>), "outer_task")
        /\ late' \in BOOLEAN /\ (late' => e = "-" /\ pc = "engine")
  BY DEF RunTimesOut
<1> DEFINE x == I(e)
           log == items \o <<t>> \o (IF e = "-" THEN <<>> ELSE <<x>>)
<1>2. t.ev = "task_run_timeout" /\ x.ev = e
  BY ItemParts
<1>3. Fail(log, "outer_task")
  BY <1>1
<1>4. ~Has(items, TimedOut) /\ pc \in {"slot"} \cup Signs
  BY <1>0 DEF Phases, Has, Hits, EndEvents, Before, Signs
<1>5. IsLog(Append(items, t)) /\ items \o <<t>> = Append(items, t)
  BY <1>0, AppendItem, ConcatItems
<1>6. Hits(Append(items, t), TimedOut) = {Len(items) + 1}
  BY <1>0, <1>2, <1>4, HitsAppend DEF TimedOut, Has
<1>7. Grows(items, Append(items, t), {t}, 1)
  BY <1>0, GrowsAppend
<1> HIDE DEF t, x, log
<1>8. PICK scope \in {"none", "global_concurrency", "outer_task"} : scope = "outer_task"
  OBVIOUS
<1>9. CASE e = "-"
  <2>1. log = Append(items, t)
    BY <1>5, <1>9, ConcatItems DEF log
  <2>2. Hits(log, TimedOut) = {Len(items) + 1} /\ Len(items) + 1 \in DOMAIN log
    BY <1>6, <2>1 DEF Hits
  <2>3. \A y \in {t} : y.ev \in FailNotes /\ (Tells(y) => earned)
    BY <1>2 DEF FailNotes, Tells, Matched
  <2>4. /\ Fail(log, scope) /\ (late' => pc = "engine" /\ 1 <= 1)
        /\ Grows(items, log, {t}, 1) /\ 1 \in 0..3
    BY <1>1, <1>3, <1>7, <1>8, <2>1
  <2>5. /\ scope # "outer_task" => ~Has(log, TimedOut)
        /\ scope = "outer_task" => \E p \in DOMAIN log : Hits(log, TimedOut) = {p}
    BY <1>8, <2>2
  <2> QED BY <1>0, <1>1, <1>4, <2>3, <2>4, <2>5, FailKeeps
<1>10. CASE e # "-"
  <2>1. log = Append(Append(items, t), x)
    BY <1>5, <1>10, ConcatItems DEF log
  <2>2. Grows(items, log, {t, x}, 2)
    BY <1>0, <2>1, GrowsItems
  <2>3. e \in {"task_run_late_cancelled", "task_run_late_completed", "task_run_late_exception"}
    BY <1>10, LateNames
  <2>4. Hits(log, TimedOut) = {Len(items) + 1} /\ Len(items) + 1 \in DOMAIN log
    <3>1. x.ev \notin TimedOut
      BY <1>2, <2>3 DEF TimedOut
    <3>2. Hits(log, TimedOut) = {Len(items) + 1}
      BY <1>5, <1>6, <2>1, <3>1, HitsAppend
    <3> QED BY <3>2 DEF Hits
  <2>5. \A y \in {t, x} : y.ev \in FailNotes /\ (Tells(y) => earned)
    BY <1>2, <2>3 DEF FailNotes, Tells, Matched
  <2>6. Fail(log, scope) /\ ~late' /\ 2 \in 0..3
    BY <1>1, <1>3, <1>8, <1>10
  <2>7. /\ scope # "outer_task" => ~Has(log, TimedOut)
        /\ scope = "outer_task" => \E p \in DOMAIN log : Hits(log, TimedOut) = {p}
    BY <1>8, <2>4
  <2>8. late' => pc = "engine" /\ 2 <= 1
    BY <2>6
  <2> QED BY <1>0, <1>1, <1>4, <2>2, <2>5, <2>6, <2>7, <2>8, FailKeeps
<1> QED BY <1>9, <1>10

\* A run that does not fail closes its client too: it is done, or it is
\* cancelled.
LEMMA CloseKeeps ==
    ASSUME Inv, pc \in {"slot", "done"} \cup Signs,
           items' = Append(SlotReleased(items), I("client_cleanup_started")),
           pc' = "cleaning", held' = held \ {"global_concurrency"},
           UNCHANGED <<Task, client, report, success, chat, good, engine, engines, attempt, earned>>,
           late' \in BOOLEAN, late' => pc = "engine", mishaps' \in Nat,
           \/ cause' = "cancelled" /\ mishaps' # 0
           \/ cause' = cause /\ pc = "done" /\ mishaps' = mishaps
    PROVE  Inv'
<1> DEFINE r == I("global_concurrency_released")
           s == I("client_cleanup_started")
           a == SlotReleased(items)
           Y == {r} \cup {s}
<1>0. /\ HoldsLocks /\ Phases /\ Engines /\ Locking /\ Story /\ IsLog(items)
      /\ cause = "-" /\ (pc = "done" => success)
  BY DEF Inv, TypeOK, Places, Phases, Before, Signs, Signing
<1>1. r.ev = "global_concurrency_released" /\ s.ev = "client_cleanup_started"
  BY ItemParts
<1>2. /\ Grows(items, a, {r}, 1) /\ IsLog(a)
      /\ Has(a, Unslotted) <=> Has(items, Unslotted) \/ "global_concurrency" \in held
  BY <1>0, SlotReleasedGrows DEF Grows
<1> HIDE DEF r, s, a
<1>3. Grows(a, items', {s}, 1)
  BY <1>2, GrowsAppend DEF a, s
<1>4. Grows(items, items', Y, 1 + 1)
  BY <1>2, <1>3, GrowsThen
<1>5. Grows(items, items', Y, 2) /\ 2 \in 0..6
  BY <1>4
<1>6. \A y \in Y : y.ev \in {"global_concurrency_released", "client_cleanup_started"}
  BY <1>1
<1> HIDE DEF Y
<1>7. Has(items', Unslotted) <=> Has(items, Slotted)
  <2>1. Has(items', Unslotted) <=> Has(a, Unslotted)
    BY <1>1, <1>3, GrowsKeeps DEF Unslotted
  <2> QED BY <1>0, <1>2, <2>1 DEF HoldsLocks, Locking, Signs, Signing, Closing
<1>8. \A y \in Y : /\ y.ev \notin (LockEvents \ Unslotted) \cup CountEvents \cup Trusted
                              \cup {"checked_matched", "failed_matched"}
                   /\ Tells(y) => earned
  BY <1>6 DEF LockEvents, CountEvents, RetryEvents, RetryFailures, Trusted, Final,
       Unslotted, Locked, Unlocked, Slotted, Started, Closed, Unclosed, Unsaved, Tells, Matched
<1>a. /\ TypeOK' /\ Sourced' /\ Locking' /\ Counted' /\ Succeeded' /\ Engines' /\ HoldsLocks'
      /\ Kept'
      /\ \A i \in Hits(items', EndEvents) : i > Len(items') - Reach'
  <2>1. /\ late' => pc = "engine" /\ 2 <= 4
        /\ cause' \in {"-", "cancelled", "account_lock", "global_concurrency", "none", "outer_task"}
    BY <1>0
  <2>2. UNCHANGED <<Task, client, report, success, chat, good, engine, engines, attempt, earned>>
    OBVIOUS
  <2>3. pc' = "cleaning" /\ held' = held \ {"global_concurrency"} /\ mishaps' \in Nat
    OBVIOUS
  <2>4. /\ TypeOK' /\ Sourced' /\ Locking' /\ Counted' /\ Succeeded' /\ Engines' /\ HoldsLocks'
        /\ Kept'
    BY <1>5, <1>7, <1>8, <2>1, <2>2, <2>3, CloseStep
  <2>5. \A i \in Hits(items', EndEvents) : i > Len(items') - Reach'
    BY <1>5, <1>7, <1>8, <2>1, <2>2, <2>3, CloseStep
  <2> QED BY <2>4, <2>5
<1>b. Story'
  <2>1. \A E \in {Failed, TimedOut, Completed} : Same(E)
    <3>1. \A E \in {Failed, TimedOut, Completed} : \A y \in Y : y.ev \notin E
      BY <1>6 DEF Failed, TimedOut, Completed
    <3> QED BY <1>5, <3>1, GrowsKeeps DEF Same
  <2> QED BY <1>0, <2>1 DEF Story, Same
<1>c. Plainly'
  <2>1. CASE mishaps' # 0
    BY <2>1 DEF Plainly
  <2>2. CASE cause' = cause /\ pc = "done" /\ mishaps' = mishaps
    <3>1. \A y \in Y : PlainItem(y)
      BY <1>6 DEF PlainItem, PlainEvents, Unslotted
    <3>2. mishaps = 0 => /\ ~late' /\ cause' = "-" /\ engine'.raised \in {"-", "unasserted"}
                         /\ pc' \notin {"deferred", "lost", "backoff", "reconnect"}
      BY <1>0, <2>2 DEF Inv, Plainly
    <3>3. Plainly
      BY DEF Inv
    <3> QED BY <1>5, <2>2, <3>1, <3>2, <3>3, PlainlyStep
  <2> QED BY <2>1, <2>2
<1>d. Phases'
  <2>1. pc' \notin Before \cup {"done"} /\ (cause' = "-" => success')
    BY <1>0 DEF Before, Signs, Signing
  <2> QED BY <1>a, <2>1 DEF Phases, Recent
<1> QED BY <1>a, <1>b, <1>c, <1>d DEF Inv, Places

\* The run is done.
LEMMA FinishKeeps == ASSUME Inv, Finish PROVE Inv'
<1>1. /\ pc = "done" /\ mishaps' = mishaps /\ mishaps \in Nat /\ Finally(items)
      /\ UNCHANGED <<Task, Signer, success, cause>> /\ HoldsLocks /\ Engines /\ late \in BOOLEAN
  BY DEF Inv, TypeOK, Finish, Plain, Places
<1>2. client = "open" /\ "global_concurrency" \notin held /\ ~late
  BY <1>1 DEF HoldsLocks, Engines, Closing
<1>3. SlotReleased(items) = items
  BY <1>2 DEF SlotReleased
<1>4. /\ items' = Append(SlotReleased(items), I("client_cleanup_started")) /\ pc' = "cleaning"
      /\ held' = held \ {"global_concurrency"} /\ UNCHANGED <<client, report>>
  BY <1>1, <1>2, <1>3 DEF Finally
<1>5. late' \in BOOLEAN /\ ~late'
  BY <1>1, <1>2 DEF Signer
<1> QED BY <1>1, <1>4, <1>5, CloseKeeps DEF Signer

\* Whoever waits for a run that has a client gives up.
LEMMA CancelClosesKeeps ==
    ASSUME Inv, Cancel, pc \in {"slot", "done"} \cup Signs PROVE Inv'
<1>0. late' \in BOOLEAN /\ (late' => pc = "engine")
  <2>1. late' = (pc = "engine")
    BY DEF Cancel
  <2> QED BY <2>1
<1>1. /\ mishaps' \in Nat \ {0} /\ Cancelled(items)
      /\ UNCHANGED <<Task, chat, good, engine, engines, attempt, earned>>
      /\ pc # "over" /\ pc \notin {"queue", "ready"} /\ HoldsLocks
  BY DEF Inv, TypeOK, Cancel, Mishap, Places, Signs, Signing
<1>2. client = "open"
  BY <1>1 DEF HoldsLocks
<1>3. /\ items' = Append(SlotReleased(items), I("client_cleanup_started")) /\ pc' = "cleaning"
      /\ held' = held \ {"global_concurrency"} /\ UNCHANGED <<client, report, success>>
      /\ cause' = "cancelled"
  BY <1>1, <1>2 DEF Cancelled, Finally
<1> QED BY <1>0, <1>1, <1>3, CloseKeeps

(***************************************************************************)
(* A chat is over.                                                         *)
(***************************************************************************)
\* What a chat that succeeded logs.
ChatNote == Tag("completed", IF engine.raised = "-" THEN "success" ELSE "-")

\* A chat is over, and not the run: the next chat, or the next attempt.
LEMMA ChatGoesOn ==
    ASSUME Inv, pc = "drain", NEW X, NEW k \in Nat, Grows(items, items', X, k),
           \A x \in X : /\ x.ev \in {"completed", "task_retry_scheduled"}
                        /\ Tells(x) => earned,
           UNCHANGED <<Task, Ending, held, client, engine, engines, attempt, late, earned, mishaps>>,
           chat' \in 1..chats, good' \in Nat, chats = 1 => good' = 0,
           \/ pc' = "chat" /\ \A x \in X : PlainItem(x)
           \/ pc' = "backoff" /\ mishaps # 0
    PROVE  Inv'
<1>0. /\ HoldsLocks /\ Engines /\ pc \in Signs /\ pc' \in Signs /\ attempt' \in Nat \ {0}
      /\ pc' \in {"chat", "backoff"} /\ chats \in Nat
  BY DEF Inv, TypeOK, Places, Signs, Signing, HoldsLocks
<1>1. \A x \in X : x.ev \notin LockEvents \cup EndEvents \cup CountEvents \cup Trusted
                       \cup {"checked_matched", "failed_matched"}
  BY DEF LockEvents, EndEvents, CountEvents, RetryEvents, RetryFailures, Trusted, Final,
     Unslotted, Locked, Unlocked, Slotted, Started, Closed, Unclosed, Unsaved, Failed, Completed,
     TimedOut
<1>2. /\ Locking' /\ Story' /\ HoldsLocks' /\ Phases' /\ Kept' /\ ~success /\ cause = "-" /\ ~late
  BY <1>0, <1>1, SigningStep
<1>a. TypeOK'
  <2>1. IsLog(items') /\ chat' \in Nat
    BY <1>0 DEF Grows
  <2> QED BY <1>0, <2>1 DEF Inv, TypeOK, Task, Ending, Before
<1>b. Sourced'
  <2>1. engine'.result = "success" => earned'
    BY DEF Inv, Sourced
  <2> QED BY <2>1, SourcedStep DEF Inv
<1>e. Counted'
  BY <1>1, CountedKept DEF Inv
<1>f. Succeeded'
  <2>1. /\ \A y \in X : y.ev \notin Trusted \cup {"checked_matched", "failed_matched"}
        /\ \A y \in X : y.ev \in Started \cup Slotted => FALSE
    BY <1>1 DEF LockEvents
  <2> QED BY <1>2, <2>1, SucceededKept DEF Inv, Task, Ending
<1>g. Plainly'
  <2>1. CASE mishaps # 0
    BY <2>1 DEF Plainly
  <2>2. CASE pc' = "chat" /\ \A x \in X : PlainItem(x)
    BY <2>2, PlainlyStep DEF Inv, Plainly, Ending
  <2> QED BY <2>1, <2>2
<1>h. Engines'
  <2>1. engines # 0
    BY <1>0 DEF Engines
  <2> QED BY <1>0, <1>2, <2>1 DEF Engines, Task
<1> QED BY <1>2, <1>a, <1>b, <1>e, <1>f, <1>g, <1>h DEF Inv, Places

\* The last chat is over, and some of them succeeded: so did the run.
LEMMA ChatSucceeds ==
    ASSUME Inv, pc = "drain", NEW log, NEW X, NEW k \in Nat, Grows(items, log, X, k),
           \A x \in X : x.ev = "completed" /\ (Tells(x) => earned),
           items' = SlotReleased(log) \o <<Num("task_completed", attempt)>>,
           held' = held \ {"global_concurrency"}, success' = TRUE, pc' = "done",
           UNCHANGED <<Task, chat, good, cause, report, client, engine, engines, attempt, late,
                       earned, mishaps>>,
           chats = 1 => engine.result = "success"
    PROVE  Inv'
<1> DEFINE r == I("global_concurrency_released")
           f == Num("task_completed", attempt)
           a == SlotReleased(log)
           Y == (X \cup {r}) \cup {f}
<1>0. /\ HoldsLocks /\ Phases /\ Engines /\ Locking /\ Story /\ Counted /\ Succeeded
      /\ pc \in Signs /\ pc \in Before /\ IsLog(log)
  BY DEF Inv, Places, Signs, Signing, Before, Grows
<1>1. /\ client = "open" /\ cause = "-" /\ ~success /\ ~late /\ attempt # 0 /\ engines # 0
      /\ "global_concurrency" \in held /\ Has(items, Slotted) /\ Has(items, Final)
      /\ LastOf(items, Final).tag = engine.result /\ Has(items, Started)
      /\ ~Has(items, EndEvents)
  BY <1>0 DEF HoldsLocks, Phases, Engines, Counted, Closing, Signs, Signing
<1>3. /\ f.ev = "task_completed" /\ f.n = attempt /\ r.ev = "global_concurrency_released"
  BY DEF Num, I, Item
<1>4. Grows(log, a, {r}, 1) /\ Has(a, Unslotted) /\ IsLog(a)
  BY <1>0, <1>1, SlotReleasedGrows DEF Grows
<1> HIDE DEF a, f, r
<1>5. items' = Append(a, f)
  BY <1>4, ConcatItems DEF a, f
<1>6. Grows(a, items', {f}, 1)
  BY <1>4, <1>5, GrowsAppend
<1>7. Grows(items, items', Y, (k + 1) + 1)
  <2>1. Grows(items, a, X \cup {r}, k + 1) /\ k + 1 \in Nat
    BY <1>4, GrowsThen
  <2> QED BY <1>6, <2>1, GrowsThen
<1>8. \A y \in Y : /\ y.ev \in {"completed", "global_concurrency_released", "task_completed"}
                   /\ Tells(y) => earned
  BY <1>3 DEF Tells, Matched
<1>9. Has(items', Completed) /\ LastOf(items', Completed) = f /\ Has(items', Unslotted)
  <2>1. f.ev \in Completed
    BY <1>3 DEF Completed
  <2>2. IsLog(a)
    BY <1>4
  <2>3. Has(Append(a, f), Completed) /\ LastOf(Append(a, f), Completed) = f
    BY <2>1, <2>2, HasAppend, LastAppend
  <2>4. Has(Append(a, f), Unslotted)
    BY <1>4, <2>2, HasAppend
  <2> QED BY <1>5, <2>3, <2>4
<1>10. /\ Recent(2)'
  <2>1. /\ Len(items) \in Nat /\ Len(log) \in Nat /\ Len(items) <= Len(log)
        /\ Len(items') \in Nat /\ Len(items') <= Len(log) + 2
    BY <1>4, <1>6 DEF Grows
  <2>2. ~Has(log, EndEvents)
    <3>1. \A x \in X : x.ev \notin EndEvents
      BY DEF EndEvents, Unslotted, Failed, Completed, TimedOut
    <3> QED BY <1>1, <3>1, GrowsKeeps
  <2>3. Grows(log, items', {r} \cup {f}, 1 + 1)
    BY <1>4, <1>6, GrowsThen
  <2>4. \A i \in Hits(items', EndEvents) : i > Len(log) /\ i \in Nat
    BY <2>1, <2>2, <2>3 DEF Has, Hits, Grows
  <2>5. \A i \in Hits(items', EndEvents) : i > Len(items') - 2
    BY <2>1, <2>4
  <2> QED BY <2>5 DEF Recent
<1> HIDE DEF Y
<1>11. k + 1 + 1 \in Nat
  OBVIOUS
<1>12. \A E \in {Locked, Unlocked, Slotted, Started, Closed, Unclosed, Unsaved, Final, Failed, TimedOut,
                 Trusted, {"checked_matched"}, {"failed_matched"}} : Same(E)
  <2>1. \A E \in {Locked, Unlocked, Slotted, Started, Closed, Unclosed, Unsaved, Final, Failed,
                  TimedOut, Trusted, {"checked_matched"}, {"failed_matched"}} :
          \A y \in Y : y.ev \notin E
    BY <1>8 DEF Locked, Unlocked, Slotted, Started, Closed, Unclosed, Unsaved, Final, Failed, TimedOut,
       Trusted
  <2> QED BY <1>7, <1>11, <2>1, GrowsKeeps DEF Same
<1>a. TypeOK'
  <2>1. IsLog(items')
    BY <1>7 DEF Grows
  <2> QED BY <2>1 DEF Inv, TypeOK, Task
<1>b. Sourced'
  <2>1. engine'.result = "success" => earned'
    BY DEF Inv, Sourced
  <2> QED BY <1>7, <1>8, <1>11, <2>1, SourcedStep DEF Inv
<1>c. Locking'
  BY <1>0, <1>1, <1>12 DEF Locking, Same
<1>d. Story'
  BY <1>0, <1>1, <1>3, <1>9, <1>12 DEF Story, Same
<1>e. Counted'
  <2>1. \A y \in Y : y.ev \notin CountEvents
    BY <1>8 DEF CountEvents, Final, RetryEvents, RetryFailures
  <2> QED BY <1>0, <1>7, <1>11, <2>1, CountedKept
<1>f. Succeeded'
  <2>1. \A E : Has(items, E) => Has(items', E)
    BY <1>7, <1>11, GrowsHas
  <2>2. Hits(items, Clicked) \subseteq Hits(items', Clicked)
    BY <1>7, <1>11, GrowsHas
  <2> QED BY <1>0, <1>1, <1>12, <2>1, <2>2 DEF Succeeded, Same, Task
<1>g. Plainly'
  <2>1. \A y \in Y : PlainItem(y)
    BY <1>8 DEF PlainItem, PlainEvents, Completed, Unslotted
  <2>2. mishaps = 0 => /\ ~late' /\ cause' = "-" /\ engine'.raised \in {"-", "unasserted"}
                       /\ pc' \notin {"deferred", "lost", "backoff", "reconnect"}
    BY DEF Inv, Plainly
  <2>3. Plainly /\ mishaps' = mishaps
    BY DEF Inv
  <2> QED BY <1>7, <1>11, <2>1, <2>2, <2>3, PlainlyStep
<1>h. HoldsLocks'
  BY <1>0, <1>1, <1>9, <1>12 DEF HoldsLocks, Same, Signs, Signing, Closing
<1>i. Engines'
  BY <1>0, <1>1 DEF Engines, Task
<1>j. Phases'
  BY <1>1, <1>10 DEF Phases, Before, Signs, Signing, Closing
<1>k. Kept'
  BY DEF Kept
<1> QED BY <1>a, <1>b, <1>c, <1>d, <1>e, <1>f, <1>g, <1>h, <1>i, <1>j, <1>k DEF Inv, Places

\* A chat is over, after so many that succeeded.
LEMMA SignedUpKeeps ==
    ASSUME Inv, pc = "drain", NEW log, NEW X, NEW signed \in Nat,
           Grows(items, log, X, 1),
           \A x \in X : x.ev = "completed" /\ PlainItem(x) /\ (Tells(x) => earned),
           SignedUp(log, signed), signed = 0 => mishaps # 0,
           chats = 1 /\ signed > 0 => engine.result = "success",
           UNCHANGED <<Task, engine, engines, attempt, late, earned, mishaps>>
    PROVE  Inv'
<1>0. /\ mishaps' = mishaps /\ mishaps \in Nat
      /\ UNCHANGED <<Task, engine, engines, attempt, late, earned>>
      /\ good \in Nat /\ chats \in Nat /\ Engines /\ chat \in 1..chats
  BY DEF Inv, TypeOK, Places, Engines
<1>3. /\ IsLog(log) /\ IsLog(items) /\ Grows(items, log, X, 1)
      /\ \A x \in X : x.ev = "completed" /\ PlainItem(x) /\ (Tells(x) => earned)
      /\ SignedUp(log, signed)
      /\ signed = 0 => mishaps # 0
      /\ chats = 1 /\ signed > 0 => engine.result = "success"
      /\ signed \in Nat
  BY DEF Grows
<1>4. CASE chat < chats
  <2>1. /\ items' = log /\ chat' = chat + 1 /\ good' = signed /\ pc' = "chat"
        /\ UNCHANGED <<Ending, held, client>>
    BY <1>3, <1>4 DEF SignedUp
  <2>2. chat' \in 1..chats /\ good' \in Nat /\ (chats = 1 => good' = 0)
    BY <1>0, <1>3, <1>4, <2>1
  <2>3. \A x \in X : x.ev \in {"completed", "task_retry_scheduled"} /\ (Tells(x) => earned)
    BY <1>3
  <2>4. pc' = "chat" /\ \A x \in X : PlainItem(x)
    BY <1>3, <2>1
  <2>5. Grows(items, items', X, 1) /\ 1 \in Nat
    BY <1>3, <2>1
  <2> QED BY <1>0, <2>1, <2>2, <2>3, <2>4, <2>5, ChatGoesOn
<1>5. CASE ~(chat < chats) /\ signed > 0
  <2>1. /\ items' = SlotReleased(log) \o <<Num("task_completed", attempt)>>
        /\ held' = held \ {"global_concurrency"} /\ success' = TRUE /\ pc' = "done"
        /\ UNCHANGED <<chat, good, cause, report, client>>
    BY <1>3, <1>5 DEF SignedUp
  <2>2. /\ UNCHANGED <<Task, chat, good, cause, report, client, engine, engines, attempt, late,
                       earned, mishaps>>
        /\ chats = 1 => engine.result = "success"
    BY <1>0, <1>3, <1>5, <2>1
  <2>3. Grows(items, log, X, 1) /\ 1 \in Nat /\ \A x \in X : x.ev = "completed" /\ (Tells(x) => earned)
    BY <1>3
  <2> QED BY <1>0, <2>1, <2>2, <2>3, ChatSucceeds
<1>6. CASE ~(chat < chats) /\ ~(signed > 0) /\ attempt < Attempts
  <2> DEFINE x == Num("task_retry_scheduled", attempt)
  <2>1. /\ items' = Append(log, x) /\ pc' = "backoff"
        /\ UNCHANGED <<chat, good, Ending, held, client>>
    BY <1>3, <1>6 DEF SignedUp
  <2>2. x.ev = "task_retry_scheduled"
    BY DEF Num, Item
  <2> HIDE DEF x
  <2>3. mishaps # 0 /\ (chats = 1 => good' = 0) /\ chat' \in 1..chats /\ good' \in Nat
    BY <1>0, <1>3, <1>6, <2>1 DEF Engines
  <2>4. Grows(log, items', {x}, 1)
    BY <1>3, <2>1, GrowsAppend
  <2>5. Grows(items, items', X \cup {x}, 1 + 1)
    BY <1>3, <2>4, GrowsThen
  <2>6. \A y \in X \cup {x} : /\ y.ev \in {"completed", "task_retry_scheduled"}
                              /\ Tells(y) => earned
    BY <1>3, <2>2 DEF Tells, Matched
  <2>7. UNCHANGED <<Task, Ending, held, client, engine, engines, attempt, late, earned, mishaps>>
    BY <1>0, <2>1
  <2>8. 1 + 1 \in Nat
    OBVIOUS
  <2> QED BY <1>0, <2>1, <2>3, <2>5, <2>6, <2>7, <2>8, ChatGoesOn
<1>7. CASE ~(chat < chats) /\ ~(signed > 0) /\ ~(attempt < Attempts)
  <2>1. Fail(log, "none") /\ UNCHANGED <<chat, good>>
    BY <1>3, <1>7 DEF SignedUp
  <2>2. mishaps' \in Nat \ {0} /\ Phases /\ ~late /\ pc \in {"slot"} \cup Signs
    BY <1>0, <1>3, <1>7 DEF Inv, Places, Engines, Closing, Signs, Signing
  <2>3. ~Has(log, TimedOut)
    <3>1. ~Has(items, TimedOut)
      BY <1>0, <2>2 DEF Phases, Before, Signs, Signing, Has, Hits, EndEvents
    <3> QED BY <1>3, <3>1, GrowsKeeps DEF TimedOut
  <2>4. \A x \in X : x.ev \in FailNotes /\ (Tells(x) => earned)
    BY <1>3 DEF FailNotes
  <2>5. PICK scope \in {"none", "global_concurrency", "outer_task"} : scope = "none"
    OBVIOUS
  <2>6. /\ Fail(log, scope) /\ scope # "outer_task" /\ 1 \in 0..3 /\ late' \in BOOLEAN /\ ~late'
        /\ UNCHANGED <<Task, chat, good, engine, engines, attempt, earned>>
    BY <1>0, <2>1, <2>2, <2>5 DEF Inv, TypeOK
  <2>7. Grows(items, log, X, 1)
    BY <1>3
  <2> QED BY <2>2, <2>3, <2>4, <2>6, <2>7, FailKeeps
<1> QED BY <1>4, <1>5, <1>6, <1>7

\* The chat whose engine has ended is over.
LEMMA ChatEndsKeeps == ASSUME Inv, ChatEnds PROVE Inv'
<1>0. /\ IsLog(items) /\ pc = "drain" /\ mishaps' = mishaps /\ mishaps \in Nat
      /\ UNCHANGED <<Task, engine, engines, attempt, late, earned, mishaps>>
      /\ good \in Nat /\ Engines
  BY DEF Inv, TypeOK, ChatEnds, Plain, Places
<1> DEFINE c == ChatNote
<1>1. c.ev = "completed"
  BY DEF ChatNote, Tag, Item
<1>2. CASE engine.result = "success"
  <2>1. SignedUp(Append(items, c), good + 1)
    BY <1>2 DEF ChatEnds, ChatNote
  <2>2. earned
    BY <1>2 DEF Inv, Sourced
  <2> HIDE DEF c
  <2>3. PlainItem(c)
    BY <1>1 DEF PlainItem, PlainEvents
  <2>4. \A x \in {c} : x.ev = "completed" /\ PlainItem(x) /\ (Tells(x) => earned)
    BY <1>1, <2>2, <2>3
  <2>5. Grows(items, Append(items, c), {c}, 1)
    BY <1>0, GrowsAppend
  <2>6. good + 1 \in Nat /\ good + 1 # 0
    BY <1>0
  <2> QED BY <1>0, <1>2, <2>1, <2>4, <2>5, <2>6, SignedUpKeeps
<1>3. CASE engine.result # "success"
  <2>1. SignedUp(items, good)
    BY <1>3 DEF ChatEnds
  <2>2. Grows(items, items, {}, 0)
    BY <1>0, GrowsSame
  <2>3. Grows(items, items, {}, 1)
    BY <2>2 DEF Grows
  <2>4. ~(chats = 1 /\ good > 0)
    BY <1>0 DEF Engines
  <2>5. mishaps # 0
    <3>1. Has(items, Final) /\ LastOf(items, Final).tag = engine.result
      BY <1>0 DEF Engines
    <3>2. ASSUME mishaps = 0 PROVE FALSE
      <4>1. LastOf(items, Final).ev \in Final
        BY <1>0, <3>1, LastHit
      <4>2. Max(Hits(items, Final)) \in DOMAIN items
            /\ LastOf(items, Final) = items[Max(Hits(items, Final))]
        BY <1>0, <3>1, LastHit DEF Hits
      <4>3. PlainItem(LastOf(items, Final))
        BY <3>2, <4>2 DEF Inv, Plainly
      <4> QED BY <1>3, <3>1, <4>1, <4>3 DEF PlainItem, Final
    <3> QED BY <3>2
  <2>6. \A x \in {} : x.ev = "completed" /\ PlainItem(x) /\ (Tells(x) => earned)
    OBVIOUS
  <2> QED BY <1>0, <2>1, <2>3, <2>4, <2>5, <2>6, SignedUpKeeps
<1> QED BY <1>2, <1>3

\* The signer nobody waits for comes to an end during the cleanup.
LEMMA LateSignerKeeps == ASSUME Inv, LateSigner PROVE Inv'
<1> DEFINE x == I("success_matched")
           y == Item("final_state", "success", engine.retries, engine.unconfirmed)
           z == Tag("completed", "success")
           w == I("task_run_late_completed")
           b == <<x, y, z>>
           X == {x, y, z, w}
<1>0. /\ IsLog(items) /\ late /\ pc \in {"cleaning", "deferred"} /\ mishaps' = mishaps
      /\ engine' = [engine EXCEPT !.result = "success"] /\ earned' = TRUE /\ late' = FALSE
      /\ UNCHANGED <<Task, Ending, pc, held, client, chat, good, engines, attempt>>
      /\ HoldsLocks /\ Phases /\ Engines /\ Locking /\ Story /\ Counted
  BY DEF Inv, TypeOK, LateSigner, Plain, Places
<1>1. /\ x.ev = "success_matched" /\ y.ev = "final_state" /\ y.tag = "success"
      /\ y.n = engine.retries /\ y.m = engine.unconfirmed
      /\ z.ev = "completed" /\ w.ev = "task_run_late_completed"
  BY DEF I, Tag, Item
<1>2. /\ engine'.result = "success" /\ engine'.raised = engine.raised
      /\ engine'.retries = engine.retries /\ engine'.unconfirmed = engine.unconfirmed
  BY <1>0 DEF Inv, TypeOK
<1>3. /\ items' = items \o b \o (IF cause = "outer_task" THEN <<w>> ELSE <<>>)
  BY DEF LateSigner
<1> HIDE DEF x, y, z, w
<1>4. IsLog(b) /\ DOMAIN b = {1, 2, 3} /\ b[1] = x /\ b[2] = y /\ b[3] = z /\ Len(b) = 3
  BY ThreeItems
<1>5. items \o b = Append(Append(Append(items, x), y), z)
  BY <1>0, ConcatItems
<1> HIDE DEF b
<1>6. Grows(items, items \o b, X, 3) /\ IsLog(items \o b)
  <2>1. \A i \in DOMAIN b : b[i] \in X
    BY <1>4
  <2>2. Grows(items, items \o b, X, 3)
    BY <1>0, <1>4, <2>1, GrowsConcat
  <2> QED BY <2>2 DEF Grows
<1>7. items' = Append(items \o b, w) \/ items' = items \o b
  BY <1>3, <1>6, ConcatItems
<1>8. Grows(items, items', X, 4) /\ Grows(items \o b, items', {w}, 1)
  <2>1. CASE items' = items \o b
    <3>1. Grows(items \o b, items', {w}, 0)
      BY <1>6, <2>1, GrowsSame
    <3>2. Grows(items \o b, items', {w}, 1) /\ Grows(items, items', X, 4)
      BY <1>6, <2>1, <3>1 DEF Grows
    <3> QED BY <3>2
  <2>2. CASE items' = Append(items \o b, w)
    <3>1. Grows(items \o b, items', {w}, 1)
      BY <1>6, <2>2, GrowsAppend
    <3>2. Grows(items, items', X \cup {w}, 3 + 1)
      BY <1>6, <3>1, GrowsThen
    <3>3. X \cup {w} = X /\ 3 + 1 = 4
      OBVIOUS
    <3> QED BY <3>1, <3>2, <3>3
  <2> QED BY <1>7, <2>1, <2>2
<1>9. Has(items', Final) /\ LastOf(items', Final) = y
  <2> DEFINE l == Append(Append(items, x), y)
  <2>1. IsLog(Append(items, x)) /\ IsLog(l)
    BY <1>0, AppendItem
  <2>2. Has(l, Final) /\ LastOf(l, Final) = y
    BY <1>1, <2>1, HasAppend, LastAppend DEF Final
  <2> HIDE DEF l
  <2>3. Has(Append(l, z), Final) /\ LastOf(Append(l, z), Final) = y
    BY <1>1, <2>1, <2>2, HasAppend, LastAppend DEF Final
  <2>4. items \o b = Append(l, z)
    BY <1>5 DEF l
  <2>5. \A u \in {w} : u.ev \notin Final
    BY <1>1 DEF Final
  <2> QED BY <1>8, <2>3, <2>4, <2>5, GrowsKeeps
<1>10. \A u \in X : u.ev \in {"success_matched", "final_state", "completed", "task_run_late_completed"}
  BY <1>1
<1> HIDE DEF X
<1>11. \A E \in {Locked, Slotted, Unslotted, EndEvents, {"timeout_state"}} : Same(E)
  <2>1. \A E \in {Locked, Slotted, Unslotted, EndEvents, {"timeout_state"}} : \A u \in X : u.ev \notin E
    BY <1>10 DEF Locked, Slotted, Unslotted, EndEvents, Failed, Completed, TimedOut
  <2> QED BY <1>8, <2>1, GrowsKeeps DEF Same
<1>12. engines # 0 /\ ~success /\ pc # "over"
  BY <1>0 DEF Engines
<1>a. TypeOK'
  <2>1. engine' \in [result : {"-", "success", "failed"},
                     raised : {"-", "unasserted", "business", "os", "other"},
                     retries : Nat, unconfirmed : Nat]
    BY <1>0 DEF Inv, TypeOK
  <2>2. IsLog(items') /\ mishaps' \in Nat
    BY <1>0, <1>8 DEF Grows, Inv, TypeOK
  <2> QED BY <1>0, <2>1, <2>2 DEF Inv, TypeOK, Task, Ending
<1>b. Sourced'
  BY <1>0, <1>8, SourcedStep DEF Inv
<1>c. Locking'
  <2>1. \A u \in X : u.ev \notin LockEvents
    BY <1>10 DEF LockEvents, Locked, Unlocked, Slotted, Unslotted, Started, Closed, Unclosed, Unsaved
  <2> QED BY <1>0, <1>8, <1>12, <2>1, LockingKept
<1>d. Story'
  <2>1. \A u \in X : u.ev \notin Failed \cup Completed \cup TimedOut
    BY <1>10 DEF Failed, Completed, TimedOut
  <2> QED BY <1>0, <1>8, <2>1, StoryKept DEF Ending
<1>e. Counted'
  <2>1. Has(items', Started)
    BY <1>0, <1>8, <1>12, GrowsHas DEF Counted
  <2>2. attempt' = 0 => engines' = 0
    BY <1>0 DEF Counted
  <2> QED BY <1>0, <1>1, <1>2, <1>9, <1>12, <2>1, <2>2 DEF Counted
<1>f. Succeeded'
  <2>1. /\ \A u \in X : u.ev \notin Trusted \cup {"checked_matched", "failed_matched"}
        /\ \A u \in X : u.ev \in Started \cup Slotted => FALSE
    BY <1>10 DEF Trusted, Started, Slotted
  <2> QED BY <1>0, <1>8, <1>12, <2>1, SucceededKept DEF Inv, Task, Ending
<1>g. Plainly'
  <2>1. mishaps # 0
    BY <1>0 DEF Inv, Plainly
  <2> QED BY <1>0, <2>1 DEF Plainly
<1>h. HoldsLocks'
  BY <1>0, <1>11 DEF HoldsLocks, Same, Signs, Signing, Closing
<1>i. Engines'
  BY <1>0, <1>12 DEF Engines, Task
<1>j. Phases'
  <2>1. \A i \in Hits(items', EndEvents) : i > Len(items') - (Reach + 4)
    <3>1. Reach \in Nat /\ Recent(Reach)
      BY <1>0 DEF Phases, Reach
    <3>2. \A u \in X : u.ev \notin EndEvents
      BY <1>10 DEF EndEvents, Unslotted, Failed, Completed, TimedOut
    <3> QED BY <1>8, <3>1, <3>2, RecentStep
  <2>2. Reach' = Reach + 4
    BY <1>0 DEF Reach
  <2> QED BY <1>0, <2>1, <2>2 DEF Phases, Recent, Before, Signs, Signing, Ending
<1>k. Kept'
  BY <1>0 DEF Kept
<1> QED BY <1>a, <1>b, <1>c, <1>d, <1>e, <1>f, <1>g, <1>h, <1>i, <1>j, <1>k DEF Inv, Places

(***************************************************************************)
(* The end of a run.                                                       *)
(***************************************************************************)
\* The lock is let go of, the run is recorded or its recording fails, and that
\* is all.
LEMMA OverStep ==
    ASSUME Inv, pc \in {"queue", "ready", "cleaning", "deferred"},
           NEW log, NEW Y, NEW m \in 0..2, Grows(items, log, Y, m), Over(log),
           \A y \in Y : /\ y.ev \notin Locked \cup Unlocked \cup Slotted \cup Unslotted \cup Started
                              \cup Unsaved \cup CountEvents \cup Trusted \cup Completed
                              \cup {"checked_matched", "failed_matched"}
                        /\ ~Tells(y),
           client' \in {"none", "closed", "unclosed"}, client' = "none" => client = "none",
           Has(log, Closed) <=> client' = "closed", Has(log, Unclosed) <=> client' = "unclosed",
           UNCHANGED <<Task, success, chat, good, engine, engines, attempt, earned>>,
           late' = late, mishaps' \in Nat, cause' = "-" => success,
           cause' \in {"-", "cancelled", "account_lock", "global_concurrency", "none", "outer_task"}
    PROVE  /\ TypeOK' /\ Sourced' /\ Locking' /\ Counted' /\ Succeeded' /\ Places' /\ Kept'
           /\ Grows(log, items', {I("account_lock_released"), I("task_run_info_save_failed")}, 2)
<1> DEFINE u == I("account_lock_released")
           v == I("task_run_info_save_failed")
           Z == {u, v}
           l == log \o (IF "account_lock" \in held THEN <<u>> ELSE <<>>)
<1>0. /\ HoldsLocks /\ Phases /\ Engines /\ Locking /\ Counted /\ IsLog(log) /\ IsLog(items)
      /\ pc # "over" /\ m \in Nat /\ m <= 2 /\ Succeeded
      /\ Len(log) \in Nat /\ Len(items) \in Nat /\ Len(log) <= Len(items) + m /\ Len(items) <= Len(log)
  BY DEF Inv, Places, Grows
<1>1. u.ev = "account_lock_released" /\ v.ev = "task_run_info_save_failed"
  BY DEF I, Item
<1>2. held' = {} /\ pc' = "over" /\ SaveRunInfo(l)
  BY DEF Over
<1> HIDE DEF u, v
<1>3. /\ "account_lock" \in held => l = Append(log, u)
      /\ "account_lock" \notin held => l = log
  BY <1>0, ConcatItems
<1> HIDE DEF l
<1>4. Grows(log, l, {u}, 1) /\ IsLog(l)
  <2>1. CASE "account_lock" \in held
    <3>1. IsLog(log) /\ l = Append(log, u)
      BY <1>0, <1>3, <2>1
    <3>2. Grows(log, Append(log, u), {u}, 1)
      BY <3>1, GrowsAppend
    <3>3. Grows(log, l, {u}, 1)
      BY <3>1, <3>2
    <3> QED BY <3>3 DEF Grows
  <2>2. CASE "account_lock" \notin held
    <3>1. Grows(log, l, {u}, 0)
      BY <1>0, <1>3, <2>2, GrowsSame
    <3> QED BY <3>1 DEF Grows
  <2> QED BY <2>1, <2>2
<1>5. \/ items' = l /\ report'.saved = TRUE
         /\ \E w \in WindowLengths : /\ report'.seen = Suffix(items', w)
                                     /\ \E k \in KeptLengths : report'.kept = Prefix(report'.seen, k)
      \/ items' = Append(l, v) /\ report'.saved = FALSE /\ report'.kept = <<>>
         /\ \E w \in WindowLengths : report'.seen = Suffix(items', w)
  <2> DEFINE retold == Append(l, v)
  <2>1. PICK w \in WindowLengths :
          \/ /\ \E k \in KeptLengths :
                  report' = [saved |-> TRUE, seen |-> Suffix(l, w), kept |-> Prefix(Suffix(l, w), k)]
             /\ items' = l
          \/ /\ report' = [saved |-> FALSE, seen |-> Suffix(retold, w), kept |-> <<>>]
             /\ items' = retold
    BY <1>2 DEF SaveRunInfo, v
  <2> HIDE DEF retold
  <2>2. CASE /\ \E k \in KeptLengths :
                  report' = [saved |-> TRUE, seen |-> Suffix(l, w), kept |-> Prefix(Suffix(l, w), k)]
             /\ items' = l
    <3>1. PICK k \in KeptLengths :
            report' = [saved |-> TRUE, seen |-> Suffix(l, w), kept |-> Prefix(Suffix(l, w), k)]
      BY <2>2
    <3>2. /\ report'.saved = TRUE /\ report'.seen = Suffix(l, w)
          /\ report'.kept = Prefix(report'.seen, k)
      BY <3>1
    <3> QED BY <2>2, <3>2
  <2>3. CASE /\ report' = [saved |-> FALSE, seen |-> Suffix(retold, w), kept |-> <<>>]
             /\ items' = retold
    <3>1. report'.saved = FALSE /\ report'.seen = Suffix(items', w) /\ report'.kept = <<>>
      BY <2>3
    <3> QED BY <2>3, <3>1 DEF retold
  <2> QED BY <2>1, <2>2, <2>3
<1>6. Grows(l, items', {v}, 1)
  <2>1. CASE items' = l
    <3>1. Grows(l, items', {v}, 0)
      BY <1>4, <2>1, GrowsSame
    <3> QED BY <3>1 DEF Grows
  <2>2. CASE items' = Append(l, v)
    BY <1>4, <2>2, GrowsAppend
  <2> QED BY <1>5, <2>1, <2>2
<1>7. Grows(log, items', {u} \cup {v}, 1 + 1)
  BY <1>4, <1>6, GrowsThen
<1>8. Grows(log, items', Z, 2)
  <2>1. {u} \cup {v} = Z /\ 1 + 1 = 2
    OBVIOUS
  <2> QED BY <1>7, <2>1
<1> DEFINE W == Y \cup ({u} \cup {v})
<1>9. Grows(items, items', W, m + (1 + 1)) /\ m + (1 + 1) \in Nat
  BY <1>0, <1>7, GrowsThen
<1>10. \A y \in W : /\ y.ev \notin Locked \cup Slotted \cup Unslotted \cup Started
                              \cup CountEvents \cup Trusted \cup Completed
                              \cup {"checked_matched", "failed_matched"}
                    /\ ~Tells(y)
  BY <1>1 DEF Locked, Slotted, Unslotted, Started, CountEvents, RetryEvents, RetryFailures, Final,
     Trusted, Completed, Tells, Matched
<1> HIDE DEF W, Z
<1>11. \A E \in {Locked, Slotted, Unslotted, Started, Final} : Same(E)
  <2>1. \A E \in {Locked, Slotted, Unslotted, Started, Final} : \A y \in W : y.ev \notin E
    BY <1>10 DEF CountEvents
  <2> QED BY <1>9, <2>1, GrowsKeeps DEF Same
<1>12. \A E \in {Closed, Unclosed, EndEvents} :
        Hits(items', E) = Hits(log, E) /\ (Has(items', E) <=> Has(log, E))
  <2>1. \A E \in {Closed, Unclosed, EndEvents} : \A y \in {u} \cup {v} : y.ev \notin E
    BY <1>1 DEF Closed, Unclosed, EndEvents, Unslotted, Failed, Completed, TimedOut
  <2>2. 1 + 1 \in Nat
    OBVIOUS
  <2> QED BY <1>7, <2>1, <2>2, GrowsKeeps
<1>13. ~Has(log, Unlocked) /\ ~Has(log, Unsaved)
  <2>1. /\ \A y \in Y : y.ev \notin Unlocked
        /\ \A y \in Y : y.ev \notin Unsaved
    OBVIOUS
  <2> QED BY <1>0, <2>1, GrowsKeeps DEF Locking
<1>14. /\ Hits(l, Unlocked) = IF "account_lock" \in held THEN {Len(l)} ELSE {}
       /\ "account_lock" \in held => Len(l) = Len(log) + 1
       /\ Hits(items', Unlocked) = Hits(l, Unlocked)
  <2>1. Hits(log, Unlocked) = {}
    BY <1>13 DEF Has
  <2>2. u.ev \in Unlocked /\ v.ev \notin Unlocked
    BY <1>1 DEF Unlocked
  <2>3. CASE "account_lock" \in held
    <3>0. IsLog(log) /\ l = Append(log, u)
      BY <1>0, <1>3, <2>3
    <3>01. Hits(Append(log, u), Unlocked) = Hits(log, Unlocked) \cup {Len(log) + 1}
      BY <2>2, <3>0, HitsAppend
    <3>1. Hits(l, Unlocked) = {Len(log) + 1}
      BY <2>1, <3>0, <3>01
    <3>2. Len(l) = Len(log) + 1
      BY <1>0, <1>3, <2>3, AppendItem
    <3>3. Hits(items', Unlocked) = Hits(l, Unlocked)
      BY <1>6, <2>2, GrowsKeeps
    <3> QED BY <2>3, <3>1, <3>2, <3>3
  <2>4. CASE "account_lock" \notin held
    <3>1. Hits(items', Unlocked) = Hits(l, Unlocked)
      BY <1>6, <2>2, GrowsKeeps
    <3> QED BY <1>3, <2>1, <2>4, <3>1
  <2> QED BY <2>3, <2>4
<1>15. Has(items', Unsaved) <=> ~report'.saved
  <2>1. ~Has(l, Unsaved)
    BY <1>1, <1>4, <1>13, GrowsKeeps DEF Unsaved
  <2>2. Has(Append(l, v), Unsaved)
    BY <1>1, <1>4, HasAppend DEF Unsaved
  <2> QED BY <1>5, <2>1, <2>2
<1>a. TypeOK'
  <2>1. IsLog(items') /\ held' \subseteq Locks
    BY <1>2, <1>9 DEF Grows
  <2> QED BY <1>2, <2>1 DEF Inv, TypeOK, Task
<1>b. Sourced'
  <2>1. engine'.result = "success" => earned'
    BY DEF Inv, Sourced
  <2> QED BY <1>9, <1>10, <2>1, SourcedStep DEF Inv
<1>c. Locking'
  BY <1>0, <1>2, <1>11, <1>12 DEF Locking, Same
<1>e. Counted'
  BY <1>0, <1>9, <1>10, CountedKept
<1>f. Succeeded'
  <2>1. /\ \A y \in W : y.ev \notin Trusted \cup {"checked_matched", "failed_matched"}
        /\ \A y \in W : y.ev \in Started \cup Slotted => FALSE
        /\ \A y \in W : y.ev \notin Final
    BY <1>10 DEF CountEvents
  <2> QED BY <1>0, <1>9, <2>1, SucceededKept DEF Task
<1>g. Places'
  <2>1. late' => engines # 0 /\ ~success
    BY <1>0 DEF Engines
  <2> QED BY <1>0, <1>2, <2>1 DEF Places, Engines, Task
<1>i. Kept'
  <2>1. \E w \in WindowLengths :
           /\ report'.seen = Suffix(items', w)
           /\ report'.saved => \E k \in KeptLengths : report'.kept = Prefix(report'.seen, k)
           /\ ~report'.saved => report'.kept = <<>>
    BY <1>5
  <2>2. report'.saved \in BOOLEAN
    BY <1>5
  <2>3. report'.saved => \A i \in Hits(items', Unlocked) : i = Len(items')
    BY <1>5, <1>14
  <2>4. Has(items', Unlocked) <=> Has(items', Locked)
    <3>1. Has(items', Unlocked) <=> "account_lock" \in held
      BY <1>14 DEF Has
    <3> QED BY <1>0, <1>11, <3>1 DEF HoldsLocks, Same
  <2>5. Has(items', Slotted) => Has(items', Unslotted)
    BY <1>0, <1>11 DEF HoldsLocks, Same, Closing
  <2>6. \A i \in Hits(items', Closed \cup Unclosed), j \in Hits(items', Unlocked) : i < j
    <3>1. ASSUME NEW i \in Hits(items', Closed \cup Unclosed) PROVE i \in 1..Len(log)
      <4>1. i \in Hits(items', Closed) \/ i \in Hits(items', Unclosed)
        BY DEF Hits
      <4>2. i \in Hits(log, Closed) \/ i \in Hits(log, Unclosed)
        BY <1>12, <4>1
      <4> QED BY <1>8, <4>2 DEF Hits, Grows
    <3>2. \A j \in Hits(items', Unlocked) : j = Len(log) + 1
      BY <1>14
    <3> QED BY <1>0, <3>1, <3>2
  <2>7. \A i \in Hits(items', LastEvents) : i > Len(items') - 13
    <3> SUFFICES ASSUME NEW i \in Hits(items', LastEvents) PROVE i > Len(items') - 13
      OBVIOUS
    <3>1. /\ Len(items') \in Nat /\ Len(items') <= Len(items) + m + 2 /\ i \in Nat
          /\ i \in Hits(items, LastEvents) \/ i > Len(items)
      BY <1>9, GrowsHas DEF Grows, Hits
    <3>2. CASE i > Len(items)
      BY <1>0, <3>1, <3>2
    <3>3. CASE i \in Hits(items, LastEvents)
      <4>1. ~Has(items, Closed) /\ ~Has(items, Unclosed) /\ ~Has(items, Unlocked) /\ ~Has(items, Unsaved)
        BY <1>0 DEF Locking, HoldsLocks
      <4>2. i \in Hits(items, EndEvents)
        BY <3>3, <4>1 DEF LastEvents, Has, Hits
      <4>3. pc \in {"cleaning", "deferred"} /\ Recent(Reach)
        BY <1>0, <4>2 DEF Phases, Before, Has
      <4>4. Reach \in Nat /\ Reach <= 9
        BY DEF Reach
      <4>5. i > Len(items) - Reach
        BY <4>2, <4>3 DEF Recent
      <4> QED BY <1>0, <3>1, <4>4, <4>5
    <3> QED BY <3>1, <3>2, <3>3
  <2>8. client' # "open" /\ (cause' = "-" => success')
    OBVIOUS
  <2> QED BY <1>15, <2>1, <2>2, <2>3, <2>4, <2>5, <2>6, <2>7, <2>8 DEF Kept
<1> QED BY <1>8, <1>a, <1>b, <1>c, <1>e, <1>f, <1>g, <1>i DEF Z, u, v

\* A run that has no client yet is over at once when it fails.
LEMMA FailsEarly ==
    ASSUME Inv, pc \in {"queue", "ready"},
           NEW x, x.ev \in {"account_lock_wait_timeout", "task_started"},
           NEW scope \in {"none", "account_lock"}, Fail(Append(items, x), scope),
           UNCHANGED <<Task, Signer>>, mishaps' \in Nat \ {0}
    PROVE  Inv'
<1> DEFINE f == Item("task_failed", scope, attempt, 0)
           u == I("account_lock_released")
           v == I("task_run_info_save_failed")
           a == Append(items, x)
           log == Append(a, f)
           Y == {x, f}
<1>0. /\ HoldsLocks /\ Phases /\ Engines /\ Locking /\ Story /\ IsLog(items) /\ late \in BOOLEAN
      /\ pc \in Before /\ pc # "over"
  BY DEF Inv, Places, Before, TypeOK
<1>1. /\ client = "none" /\ "global_concurrency" \notin held /\ cause = "-" /\ ~success
      /\ ~Has(items, Completed) /\ ~Has(items, TimedOut)
      /\ ~Has(items, Closed) /\ ~Has(items, Unclosed)
  BY <1>0 DEF HoldsLocks, Phases, Story, Locking
<1>2. SlotReleased(a) = a
  BY <1>1 DEF SlotReleased
<1>3. Over(log) /\ client' = client /\ cause' = scope /\ success' = success
  BY <1>1, <1>2 DEF Fail, Finally
<1>4. /\ f.ev = "task_failed" /\ f.tag = scope /\ f.n = attempt
      /\ u.ev = "account_lock_released" /\ v.ev = "task_run_info_save_failed"
  BY ItemParts
<1> HIDE DEF f, u, v
<1>5. Grows(items, log, Y, 2)
  BY <1>0, GrowsItems
<1>6. \A y \in Y : y.ev \in {"account_lock_wait_timeout", "task_started", "task_failed"}
  BY <1>4
<1>7. IsLog(a) /\ IsLog(log)
  BY <1>0, AppendItem
<1>8. Has(log, Failed) /\ LastOf(log, Failed) = f
  BY <1>4, <1>7, HasAppend, LastAppend DEF Failed
<1> HIDE DEF a, log, Y
<1>9. ~Has(log, Completed) /\ ~Has(log, TimedOut) /\ ~Has(log, Closed) /\ ~Has(log, Unclosed)
  <2>1. \A E \in {Completed, TimedOut, Closed, Unclosed} : \A y \in Y : y.ev \notin E
    BY <1>6 DEF Completed, TimedOut, Closed, Unclosed
  <2> QED BY <1>1, <1>5, <2>1, GrowsKeeps
<1>10. \A y \in Y : /\ y.ev \notin Locked \cup Unlocked \cup Slotted \cup Unslotted \cup Started
                              \cup Unsaved \cup CountEvents \cup Trusted \cup Completed
                              \cup {"checked_matched", "failed_matched"}
                    /\ ~Tells(y)
  BY <1>6 DEF Locked, Unlocked, Slotted, Unslotted, Started, Unsaved, CountEvents, RetryEvents,
     RetryFailures, Final, Trusted, Completed, Tells, Matched
<1>11. /\ client' \in {"none", "closed", "unclosed"} /\ (client' = "none" => client = "none")
       /\ Has(log, Closed) <=> client' = "closed"
       /\ Has(log, Unclosed) <=> client' = "unclosed"
       /\ UNCHANGED <<Task, success, chat, good, engine, engines, attempt, earned>>
       /\ late' = late /\ mishaps' \in Nat /\ (cause' = "-" => success)
       /\ cause' \in {"-", "cancelled", "account_lock", "global_concurrency", "none", "outer_task"}
  BY <1>1, <1>3, <1>9 DEF Signer
<1>12. pc \in {"queue", "ready", "cleaning", "deferred"} /\ 2 \in 0..2
  OBVIOUS
<1>13. /\ TypeOK' /\ Sourced' /\ Locking' /\ Counted' /\ Succeeded' /\ Places' /\ Kept'
       /\ Grows(log, items', {u, v}, 2)
  BY <1>3, <1>5, <1>10, <1>11, <1>12, OverStep DEF u, v
<1>14. Story'
  <2>1. \A E \in {Failed, Completed, TimedOut} : \A y \in {u, v} : y.ev \notin E
    BY <1>4 DEF Failed, Completed, TimedOut
  <2>2. /\ Has(items', Failed) /\ LastOf(items', Failed) = f
        /\ ~Has(items', Completed) /\ ~Has(items', TimedOut)
    BY <1>8, <1>9, <1>13, <2>1, GrowsKeeps
  <2>3. cause' \notin {"-", "cancelled", "outer_task"} /\ ~success' /\ attempt' = attempt
    BY <1>1, <1>3 DEF Signer
  <2> QED BY <1>3, <1>4, <2>2, <2>3 DEF Story
<1>15. Plainly'
  BY DEF Plainly
<1> QED BY <1>13, <1>14, <1>15 DEF Inv

\* The account's lock was not free in time.
LEMMA LockWaitTimesOutKeeps == ASSUME Inv, LockWaitTimesOut PROVE Inv'
<1> DEFINE x == I("account_lock_wait_timeout")
<1>1. x.ev \in {"account_lock_wait_timeout", "task_started"}
  BY ItemParts
<1>2. Fail(Append(items, x), "account_lock")
  BY DEF LockWaitTimesOut
<1> HIDE DEF x
<1>3. PICK scope \in {"none", "account_lock"} : scope = "account_lock"
  OBVIOUS
<1>4. Fail(Append(items, x), scope)
  BY <1>2, <1>3
<1>5. pc \in {"queue", "ready"} /\ UNCHANGED <<Task, Signer>> /\ mishaps' \in Nat \ {0}
  BY DEF LockWaitTimesOut, Mishap, Inv, TypeOK
<1> QED BY <1>1, <1>4, <1>5, FailsEarly

\* The account or the API is not configured.
LEMMA ConfigurationFailsKeeps == ASSUME Inv, ConfigurationFails PROVE Inv'
<1> DEFINE x == I("task_started")
<1>1. x.ev \in {"account_lock_wait_timeout", "task_started"}
  BY ItemParts
<1>2. Fail(Append(items, x), "none")
  BY DEF ConfigurationFails
<1> HIDE DEF x
<1>3. PICK scope \in {"none", "account_lock"} : scope = "none"
  OBVIOUS
<1>4. Fail(Append(items, x), scope)
  BY <1>2, <1>3
<1>5. pc \in {"queue", "ready"} /\ UNCHANGED <<Task, Signer>> /\ mishaps' \in Nat \ {0}
  BY DEF ConfigurationFails, Mishap, Inv, TypeOK
<1> QED BY <1>1, <1>4, <1>5, FailsEarly

\* A run that has no client yet is over at once when it is given up.
LEMMA CancelEarlyKeeps == ASSUME Inv, Cancel, pc \in {"queue", "ready"} PROVE Inv'
<1> DEFINE u == I("account_lock_released")
           v == I("task_run_info_save_failed")
<1>0. /\ HoldsLocks /\ Phases /\ Engines /\ Locking /\ Story /\ IsLog(items) /\ late \in BOOLEAN
      /\ pc \in Before /\ pc \notin {"over", "engine"} \cup Closing /\ mishaps' \in Nat \ {0}
  BY DEF Inv, Places, Before, Closing, TypeOK, Cancel, Mishap
<1>1. /\ client = "none" /\ "global_concurrency" \notin held /\ cause = "-" /\ ~success /\ ~late
      /\ ~Has(items, Closed) /\ ~Has(items, Unclosed)
  BY <1>0 DEF HoldsLocks, Phases, Engines, Locking
<1>2. SlotReleased(items) = items
  BY <1>1 DEF SlotReleased
<1>3. Over(items) /\ client' = client /\ cause' = "cancelled" /\ success' = success
  BY <1>1, <1>2 DEF Cancel, Cancelled, Finally
<1>4. ~late' /\ late' \in BOOLEAN
  BY <1>0 DEF Cancel
<1>5. Grows(items, items, {}, 0)
  BY <1>0, GrowsSame
<1>6. u.ev = "account_lock_released" /\ v.ev = "task_run_info_save_failed"
  BY ItemParts
<1> HIDE DEF u, v
<1>10. \A y \in {} : /\ y.ev \notin Locked \cup Unlocked \cup Slotted \cup Unslotted \cup Started
                              \cup Unsaved \cup CountEvents \cup Trusted \cup Completed
                              \cup {"checked_matched", "failed_matched"}
                     /\ ~Tells(y)
  OBVIOUS
<1>11. /\ client' \in {"none", "closed", "unclosed"} /\ (client' = "none" => client = "none")
       /\ Has(items, Closed) <=> client' = "closed"
       /\ Has(items, Unclosed) <=> client' = "unclosed"
       /\ UNCHANGED <<Task, success, chat, good, engine, engines, attempt, earned>>
       /\ late' = late /\ mishaps' \in Nat /\ (cause' = "-" => success)
       /\ cause' \in {"-", "cancelled", "account_lock", "global_concurrency", "none", "outer_task"}
  BY <1>0, <1>1, <1>3, <1>4 DEF Cancel
<1>12. pc \in {"queue", "ready", "cleaning", "deferred"} /\ 0 \in 0..2
  OBVIOUS
<1>13. /\ TypeOK' /\ Sourced' /\ Locking' /\ Counted' /\ Succeeded' /\ Places' /\ Kept'
       /\ Grows(items, items', {u, v}, 2)
  BY <1>3, <1>5, <1>10, <1>11, <1>12, OverStep DEF u, v
<1>14. Story'
  <2>1. \A E \in {Failed, Completed, TimedOut} : \A y \in {u, v} : y.ev \notin E
    BY <1>6 DEF Failed, Completed, TimedOut
  <2>2. \A E \in {Failed, Completed, TimedOut} : Has(items', E) <=> Has(items, E)
    BY <1>13, <2>1, GrowsKeeps
  <2> QED BY <1>0, <1>1, <1>3, <2>2 DEF Story
<1>15. Plainly'
  BY <1>0 DEF Plainly
<1> QED BY <1>13, <1>14, <1>15 DEF Inv

CleanupNotes == {"client_cleanup_completed", "client_cleanup_failed",
                 "client_cleanup_late_cancelled", "client_cleanup_late_completed",
                 "client_cleanup_late_exception"}

\* The client is closed, or it could not be.
LEMMA CleanupOver ==
    ASSUME Inv, pc \in {"cleaning", "deferred"}, NEW log, NEW X, NEW m \in 0..2,
           Grows(items, log, X, m), Over(log), \A x \in X : x.ev \in CleanupNotes,
           client' \in {"closed", "unclosed"},
           Has(log, Closed) <=> client' = "closed", Has(log, Unclosed) <=> client' = "unclosed",
           UNCHANGED <<Task, Signer, success, cause>>, mishaps' \in Nat,
           mishaps' # 0 \/ (mishaps' = mishaps /\ \A x \in X : PlainItem(x))
    PROVE  Inv'
<1> DEFINE u == I("account_lock_released")
           v == I("task_run_info_save_failed")
           W == X \cup {u, v}
<1>0. /\ HoldsLocks /\ Phases /\ Engines /\ Locking /\ Story /\ late \in BOOLEAN
      /\ pc \in Closing /\ pc # "over" /\ m \in Nat /\ m + 2 \in Nat
      /\ cause \in {"-", "cancelled", "account_lock", "global_concurrency", "none", "outer_task"}
  BY DEF Inv, Places, Closing, TypeOK
<1>6. /\ u.ev = "account_lock_released" /\ v.ev = "task_run_info_save_failed"
  BY ItemParts
<1> HIDE DEF u, v
<1>10. \A y \in X : /\ y.ev \notin Locked \cup Unlocked \cup Slotted \cup Unslotted \cup Started
                              \cup Unsaved \cup CountEvents \cup Trusted \cup Completed
                              \cup {"checked_matched", "failed_matched"}
                    /\ ~Tells(y)
  BY DEF CleanupNotes, Locked, Unlocked, Slotted, Unslotted, Started, Unsaved, CountEvents,
     RetryEvents, RetryFailures, Final, Trusted, Completed, Tells, Matched
<1>11. /\ client' \in {"none", "closed", "unclosed"} /\ (client' = "none" => client = "none")
       /\ UNCHANGED <<Task, success, chat, good, engine, engines, attempt, earned>>
       /\ late' = late /\ (cause' = "-" => success)
       /\ cause' \in {"-", "cancelled", "account_lock", "global_concurrency", "none", "outer_task"}
  BY <1>0 DEF Signer, Phases
<1>12. pc \in {"queue", "ready", "cleaning", "deferred"}
  OBVIOUS
<1>13. /\ TypeOK' /\ Sourced' /\ Locking' /\ Counted' /\ Succeeded' /\ Places' /\ Kept'
       /\ Grows(log, items', {u, v}, 2)
  BY <1>10, <1>11, <1>12, OverStep DEF u, v
<1>14. Grows(items, items', W, m + 2)
  BY <1>0, <1>13, GrowsThen
<1>15. \A y \in W : y.ev \notin Failed \cup Completed \cup TimedOut
  BY <1>6 DEF Failed, Completed, TimedOut, CleanupNotes
<1>16. mishaps' = mishaps /\ (\A x \in X : PlainItem(x)) => \A x \in W : PlainItem(x)
  <2>1. PlainItem(u) /\ PlainItem(v)
    BY <1>6 DEF PlainItem, PlainEvents, Unlocked
  <2> QED BY <2>1
<1> HIDE DEF W
<1>17. Story'
  BY <1>0, <1>14, <1>15, StoryKept DEF Signer
<1>18. Plainly'
  <2>1. CASE mishaps' # 0
    BY <2>1 DEF Plainly
  <2>2. CASE mishaps' = mishaps /\ \A x \in X : PlainItem(x)
    <3>1. \A x \in W : PlainItem(x)
      BY <1>16, <2>2
    <3>2. pc' = "over" /\ engine' = engine /\ Plainly
      BY <1>11 DEF Over, Inv
    <3>3. mishaps = 0 => /\ ~late' /\ cause' = "-" /\ engine'.raised \in {"-", "unasserted"}
                         /\ pc' \notin {"deferred", "lost", "backoff", "reconnect"}
      BY <1>0, <1>11, <3>2 DEF Plainly
    <3> QED BY <1>0, <1>14, <2>2, <3>1, <3>2, <3>3, PlainlyStep
  <2> QED BY <2>1, <2>2
<1> QED BY <1>13, <1>17, <1>18 DEF Inv

\* The client is closed, as it should be or by force, or it is not.
LEMMA CleanupEndsKeeps == ASSUME Inv, CleanupEnds PROVE Inv'
<1> DEFINE c == I("client_cleanup_completed")
           d == Tag("client_cleanup_completed", "forced")
           f == I("client_cleanup_failed")
<1>0. /\ IsLog(items) /\ pc \in {"cleaning", "deferred"} /\ UNCHANGED <<Task, Signer, success, cause>>
      /\ mishaps \in Nat /\ ~Has(items, Closed) /\ ~Has(items, Unclosed)
  BY DEF Inv, TypeOK, Places, HoldsLocks, Locking, CleanupEnds
<1>1. /\ c.ev = "client_cleanup_completed" /\ c.tag = "-" /\ d.ev = "client_cleanup_completed"
      /\ f.ev = "client_cleanup_failed"
  BY ItemParts
<1>2. ASSUME NEW x, x.ev = "client_cleanup_completed", client' = "closed", Over(Append(items, x)),
             mishaps' \in Nat, mishaps' # 0 \/ (mishaps' = mishaps /\ x.tag = "-")
      PROVE  Inv'
  <2> DEFINE log == Append(items, x)
  <2>1. Grows(items, log, {x}, 1)
    BY <1>0, GrowsAppend
  <2>2. Has(log, Closed) /\ ~Has(log, Unclosed)
    BY <1>0, <1>2, HasAppend DEF Closed, Unclosed
  <2>3. \A y \in {x} : y.ev \in CleanupNotes
    BY <1>2 DEF CleanupNotes
  <2>4. mishaps' # 0 \/ (mishaps' = mishaps /\ \A y \in {x} : PlainItem(y))
    BY <1>2 DEF PlainItem, PlainEvents, Closed
  <2> HIDE DEF log
  <2>5. 1 \in 0..2 /\ Over(log) /\ client' \in {"closed", "unclosed"}
        /\ (Has(log, Closed) <=> client' = "closed") /\ (Has(log, Unclosed) <=> client' = "unclosed")
    BY <1>2, <2>2 DEF log
  <2> QED BY <1>0, <1>2, <2>1, <2>3, <2>4, <2>5, CleanupOver
<1>3. ASSUME client' = "unclosed", mishaps' \in Nat \ {0}, NEW e \in Late("client_cleanup") \cup {"-"},
             Over(items \o (IF e = "-" THEN <<>> ELSE <<I(e)>>) \o <<f>>)
      PROVE  Inv'
  <2> DEFINE x == I(e)
             a == items \o (IF e = "-" THEN <<>> ELSE <<x>>)
             log == a \o <<f>>
             X == {x} \cup {f}
  <2>1. /\ e # "-" => e \in {"client_cleanup_late_cancelled", "client_cleanup_late_completed",
                              "client_cleanup_late_exception"}
        /\ x.ev = e
    BY <1>3, LateNames, ItemParts
  <2>2. Over(log)
    BY <1>3
  <2> HIDE DEF x
  <2>3. IsLog(a) /\ Grows(items, a, {x}, 1) /\ ~Has(a, Closed) /\ (e = "-" => a = items)
    <3>1. CASE e = "-"
      <4>1. a = items
        BY <1>0, <3>1, ConcatItems
      <4>2. Grows(items, items, {x}, 0)
        BY <1>0, GrowsSame
      <4>3. Grows(items, items, {x}, 1)
        BY <4>2 DEF Grows
      <4> QED BY <1>0, <4>1, <4>3
    <3>2. CASE e # "-"
      <4>1. a = Append(items, x)
        BY <1>0, <3>2, ConcatItems
      <4>2. IsLog(Append(items, x)) /\ Grows(items, Append(items, x), {x}, 1)
        BY <1>0, AppendItem, GrowsAppend
      <4>3. ~Has(Append(items, x), Closed)
        BY <1>0, <2>1, <3>2, HasAppend DEF Closed
      <4> QED BY <3>2, <4>1, <4>2, <4>3
    <3> QED BY <3>1, <3>2
  <2> HIDE DEF a
  <2>4. log = Append(a, f)
    BY <2>3, ConcatItems
  <2>5. Grows(a, log, {f}, 1) /\ ~Has(log, Closed) /\ Has(log, Unclosed)
    <3>1. Grows(a, Append(a, f), {f}, 1)
      BY <2>3, GrowsAppend
    <3>2. ~Has(Append(a, f), Closed) /\ Has(Append(a, f), Unclosed)
      BY <1>1, <2>3, HasAppend DEF Closed, Unclosed
    <3> QED BY <2>4, <3>1, <3>2
  <2> HIDE DEF log
  <2>6. CASE e = "-"
    <3>1. Grows(items, log, {f}, 1)
      BY <2>3, <2>5, <2>6
    <3>2. \A y \in {f} : y.ev \in CleanupNotes
      BY <1>1 DEF CleanupNotes
    <3>3. 1 \in 0..2 /\ client' \in {"closed", "unclosed"} /\ mishaps' \in Nat /\ mishaps' # 0
          /\ (Has(log, Closed) <=> client' = "closed") /\ (Has(log, Unclosed) <=> client' = "unclosed")
      BY <1>3, <2>5
    <3> QED BY <1>0, <2>2, <3>1, <3>2, <3>3, CleanupOver
  <2>7. CASE e # "-"
    <3>1. Grows(items, log, X, 2)
      <4>1. Grows(items, log, X, 1 + 1)
        BY <2>3, <2>5, GrowsThen
      <4> QED BY <4>1
    <3>2. \A y \in X : y.ev \in CleanupNotes
      BY <1>1, <2>1, <2>7 DEF CleanupNotes
    <3>3. 2 \in 0..2 /\ client' \in {"closed", "unclosed"} /\ mishaps' \in Nat /\ mishaps' # 0
          /\ (Has(log, Closed) <=> client' = "closed") /\ (Has(log, Unclosed) <=> client' = "unclosed")
      BY <1>3, <2>5
    <3> QED BY <1>0, <2>2, <3>1, <3>2, <3>3, CleanupOver
  <2> QED BY <2>6, <2>7
<1> HIDE DEF c, d, f
<1>4. CASE Plain /\ client' = "closed" /\ Over(Append(items, c))
  BY <1>0, <1>1, <1>2, <1>4 DEF Plain
<1>5. CASE Mishap /\ client' = "closed" /\ Over(Append(items, d))
  <2>1. mishaps' \in Nat /\ mishaps' # 0
    BY <1>0, <1>5 DEF Mishap
  <2> QED BY <1>1, <1>2, <1>5, <2>1
<1>6. CASE /\ Mishap /\ client' = "unclosed"
           /\ \E e \in Late("client_cleanup") \cup {"-"} :
                Over(items \o (IF e = "-" THEN <<>> ELSE <<I(e)>>) \o <<f>>)
  <2>1. mishaps' \in Nat \ {0}
    BY <1>0, <1>6 DEF Mishap
  <2> QED BY <1>3, <1>6, <2>1
<1> QED BY <1>4, <1>5, <1>6 DEF CleanupEnds, c, d, f

\* How a run begins.
LEMMA InitHolds == Init => Inv
<1> SUFFICES ASSUME Init PROVE Inv
  OBVIOUS
<1>1. /\ IsLog(items) /\ DOMAIN items = {} /\ \A E : Hits(items, E) = {} /\ ~Has(items, E)
  BY DEF Init, IsLog, Hits, Has
<1>2. /\ NoEngine.result = "-" /\ NoEngine.retries = 0 /\ NoEngine.unconfirmed = 0
      /\ NoEngine.raised = "-"
      /\ NoEngine \in [result : {"-", "success", "failed"},
                       raised : {"-", "unasserted", "business", "os", "other"},
                       retries : Nat, unconfirmed : Nat]
  BY DEF NoEngine
<1>3. Unconfirmed(items) = 0
  <2>1. With(items, {"button_callback_result"}, {"unconfirmed", "timeout_failed"}) = {}
    BY <1>1 DEF With
  <2> QED BY <2>1, FS_EmptySet DEF Unconfirmed
<1>a. TypeOK
  <2>1. chats \in Nat /\ mishaps \in Nat
    BY ReportAssumption DEF Init
  <2>2. engine \in [result : {"-", "success", "failed"},
                    raised : {"-", "unasserted", "business", "os", "other"},
                    retries : Nat, unconfirmed : Nat]
    BY <1>2 DEF Init
  <2>3. held \subseteq Locks /\ pc \in Before \cup Closing \cup {"done", "over"}
    BY DEF Init, Before
  <2> QED BY <1>1, <2>1, <2>2, <2>3 DEF Init, TypeOK
<1>b. Sourced /\ Locking /\ Plainly
  BY <1>1, <1>2 DEF Init, Sourced, Locking, Plainly
<1>c. Story /\ Succeeded
  BY <1>1 DEF Init, Story, Succeeded
<1>d. Counted
  BY <1>1, <1>2, <1>3 DEF Init, Counted
<1>e. Places
  BY <1>1, <1>2, <1>a DEF TypeOK, Init, Places, HoldsLocks, Phases, Engines, Signs, Signing,
     Closing, Before
<1>f. Kept
  BY DEF Init, Kept
<1> QED BY <1>a, <1>b, <1>c, <1>d, <1>e, <1>f DEF Inv

\* A step of anything else.
LEMMA StutterKeeps == ASSUME Inv, UNCHANGED vars PROVE Inv'
<1>1. UNCHANGED <<expects, chats, pc, chat, good, engine, engines, attempt, held, client, late,
                  earned, success, cause, items, report, mishaps>>
  BY DEF vars
<1>2. TypeOK' /\ Sourced' /\ Locking' /\ Story' /\ Counted'
  BY <1>1 DEF Inv, TypeOK, Sourced, Locking, Story, Counted
<1>3. Succeeded' /\ Plainly'
  BY <1>1 DEF Inv, Succeeded, Plainly
<1>4. Places'
  BY <1>1 DEF Inv, Places, HoldsLocks, Phases, Engines, Recent, Reach
<1>5. Kept'
  BY <1>1 DEF Inv, Kept
<1> QED BY <1>2, <1>3, <1>4, <1>5 DEF Inv

\* Every step keeps the invariant.
LEMMA NextKeeps == ASSUME Inv, [Next]_vars PROVE Inv'
<1>1. CASE LockIsBusy \/ LockWaitTimesOut \/ AcquireAccountLock \/ ConfigurationFails
  BY <1>1, LockIsBusyKeeps, LockWaitTimesOutKeeps, AcquireAccountLockKeeps, ConfigurationFailsKeeps
<1>2. CASE \E busy \in BOOLEAN : MakeSigner(busy)
  BY <1>2, MakeSignerKeeps
<1>3. CASE SlotWaitTimesOut \/ AcquireSlot \/ ClientTrouble \/ SignerFails \/ SessionRetry
  BY <1>3, SlotWaitTimesOutKeeps, AcquireSlotKeeps, ClientTroubleKeeps, SignerFailsKeeps,
     SessionRetryKeeps
<1>4. CASE StartEngine \/ EngineWorks \/ ResultMatches \/ LateOcr
  BY <1>4, StartEngineKeeps, EngineWorksKeeps, ResultMatchesKeeps, LateOcrKeeps
<1>5. CASE EngineSucceeds \/ EngineGivesUp \/ EngineTimesOut \/ EngineRaises
  BY <1>5, EngineSucceedsKeeps, EngineGivesUpKeeps, EngineTimesOutKeeps, EngineRaisesKeeps
<1>6. CASE ChatEnds \/ DrainCancels \/ ConnectionLost \/ Reconnect \/ SignerRaises \/ RetryTask
  BY <1>6, ChatEndsKeeps, DrainCancelsKeeps, ConnectionLostKeeps, ReconnectKeeps,
     SignerRaisesKeeps, RetryTaskKeeps
<1>7. CASE Cancel
  <2>1. pc \in {"queue", "ready"} \/ pc \in {"slot", "done"} \cup Signs
    BY <1>7 DEF Cancel, Signs
  <2> QED BY <1>7, <2>1, CancelEarlyKeeps, CancelClosesKeeps
<1>8. CASE RunTimesOut \/ LateSigner \/ Finish \/ DeferCancel \/ CancelAgain \/ CleanupEnds
  BY <1>8, RunTimesOutKeeps, LateSignerKeeps, FinishKeeps, DeferCancelKeeps, CancelAgainKeeps,
     CleanupEndsKeeps
<1>9. CASE UNCHANGED vars
  BY <1>9, StutterKeeps
<1> QED BY <1>1, <1>2, <1>3, <1>4, <1>5, <1>6, <1>7, <1>8, <1>9 DEF Next

\* What a run knows of itself and what its log says agree, at every moment.
THEOREM ReportInvariant == Spec => []Inv
<1>1. Init => Inv
  BY InitHolds
<1>2. Inv /\ [Next]_vars => Inv'
  BY NextKeeps
<1> QED BY <1>1, <1>2, PTL DEF Spec

(***************************************************************************)
(* What is cut off the log.                                                *)
(***************************************************************************)
\* s is what is left of a log that lost its d oldest items.
Shifted(s, log, d) ==
    /\ IsLog(s) /\ IsLog(log) /\ d \in Nat
    /\ Len(s) \in Nat /\ Len(log) = Len(s) + d
    /\ DOMAIN s = 1..Len(s) /\ DOMAIN log = 1..Len(log)
    /\ \A i \in 1..Len(s) : s[i] = log[i + d]

\* The log in memory keeps the last w items.
LEMMA SuffixShifts ==
    ASSUME NEW log, IsLog(log), NEW w \in Nat
    PROVE  \E d \in Nat : Shifted(Suffix(log, w), log, d) /\ (d = 0 \/ Len(log) = w + d)
                          /\ (d = 0 => Suffix(log, w) = log)
<1> DEFINE S == Range(log)
<1>1. log \in Seq(S) /\ Len(log) \in Nat /\ DOMAIN log = 1..Len(log)
  BY LenProperties DEF IsLog
<1>2. CASE Len(log) <= w
  <2>1. Suffix(log, w) = log
    BY <1>2 DEF Suffix
  <2>2. Shifted(log, log, 0)
    BY <1>1 DEF Shifted, IsLog
  <2> QED BY <2>1, <2>2
<1>3. CASE ~(Len(log) <= w)
  <2> DEFINE d == Len(log) - w
             s == SubSeq(log, d + 1, Len(log))
  <2> HIDE DEF S
  <2>1. Suffix(log, w) = s
    BY <1>3 DEF Suffix
  <2>0. d \in Nat \ {0} /\ Len(log) = w + d
    <3>1. Len(log) \in Nat
      BY <1>1
    <3> QED BY <1>3, <3>1
  <2> HIDE DEF d
  <2>2. /\ s \in Seq(S) /\ Len(s) = w
        /\ \A i \in 1..w : s[i] = log[(d + 1) + i - 1]
    <3>1. d + 1 \in Int /\ Len(log) \in Int /\ Len(log) - (d + 1) + 1 = w
      BY <1>1, <2>0
    <3>2. \A i \in (d + 1)..Len(log) : log[i] \in S
      BY <1>1, <2>0 DEF S, Range
    <3>3. /\ s \in Seq(S) /\ Len(s) = IF d + 1 <= Len(log) THEN Len(log) - (d + 1) + 1 ELSE 0
          /\ \A i \in 1..(Len(log) - (d + 1) + 1) : s[i] = log[(d + 1) + i - 1]
      BY <3>1, <3>2, SubSeqProperties
    <3> QED BY <1>1, <2>0, <3>1, <3>3
  <2> HIDE DEF s
  <2>3. \A i \in 1..w : s[i] = log[i + d]
    BY <2>0, <2>2
  <2>4. IsLog(s) /\ DOMAIN s = 1..w
    BY <2>2, LenProperties, SeqOfRange DEF IsLog
  <2>5. Shifted(s, log, d)
    BY <1>1, <2>0, <2>2, <2>3, <2>4 DEF Shifted, IsLog, S
  <2> QED BY <2>0, <2>1, <2>5
<1> QED BY <1>2, <1>3

\* The history keeps the first k of those.
LEMMA PrefixBegins ==
    ASSUME NEW log, IsLog(log), NEW k \in Nat
    PROVE  /\ IsLog(Prefix(log, k)) /\ Len(Prefix(log, k)) \in Nat
           /\ DOMAIN Prefix(log, k) = 1..Len(Prefix(log, k))
           /\ Len(Prefix(log, k)) <= Len(log)
           /\ \A i \in 1..Len(Prefix(log, k)) : Prefix(log, k)[i] = log[i]
           /\ Len(Prefix(log, k)) = Len(log) => Prefix(log, k) = log
<1> DEFINE S == Range(log)
<1>1. log \in Seq(S) /\ Len(log) \in Nat /\ DOMAIN log = 1..Len(log)
  BY LenProperties DEF IsLog
<1>2. CASE Len(log) <= k
  BY <1>1, <1>2 DEF Prefix
<1>3. CASE ~(Len(log) <= k)
  <2> DEFINE s == SubSeq(log, 1, k)
  <2> HIDE DEF S
  <2>1. Prefix(log, k) = s
    BY <1>1, <1>3 DEF Prefix
  <2>2. s \in Seq(S) /\ Len(s) = k /\ \A i \in 1..k : s[i] = log[1 + i - 1]
    <3>1. 1 \in Int /\ k \in Int /\ k - 1 + 1 = k
      BY <1>1
    <3>2. \A i \in 1..k : log[i] \in S
      BY <1>1, <1>3 DEF S, Range
    <3>3. /\ s \in Seq(S) /\ Len(s) = IF 1 <= k THEN k - 1 + 1 ELSE 0
          /\ \A i \in 1..(k - 1 + 1) : s[i] = log[1 + i - 1]
      BY <3>1, <3>2, SubSeqProperties
    <3> QED BY <3>1, <3>3
  <2> HIDE DEF s
  <2>3. IsLog(s) /\ DOMAIN s = 1..k
    BY <2>2, LenProperties, SeqOfRange DEF IsLog
  <2>4. \A i \in 1..k : s[i] = log[i]
    BY <2>2
  <2>5. k <= Len(log) /\ k # Len(log)
    <3>1. Len(log) \in Nat
      BY <1>1
    <3> QED BY <1>3, <3>1
  <2> QED BY <2>1, <2>2, <2>3, <2>4, <2>5
<1> QED BY <1>2, <1>3

\* What is left is told as it was, and what of a kind was not cut off is told whole.
LEMMA ShiftedHas ==
    ASSUME NEW s, NEW log, NEW d, Shifted(s, log, d), NEW E
    PROVE  /\ \A i \in Hits(s, E) : i + d \in Hits(log, E)
           /\ \A i \in Hits(log, E) : i > d => i - d \in Hits(s, E)
           /\ Has(s, E) => Has(log, E)
<1>1. \A i \in Hits(s, E) : i + d \in Hits(log, E)
  BY DEF Shifted, Hits
<1>2. \A i \in Hits(log, E) : i > d => i - d \in Hits(s, E)
  <2> SUFFICES ASSUME NEW i \in Hits(log, E), i > d PROVE i - d \in Hits(s, E)
    OBVIOUS
  <2>1. i \in 1..Len(log) /\ log[i].ev \in E
    BY DEF Shifted, Hits
  <2>2. i - d \in 1..Len(s) /\ (i - d) + d = i
    BY <2>1 DEF Shifted
  <2> QED BY <2>1, <2>2 DEF Shifted, Hits
<1> QED BY <1>1, <1>2 DEF Has

(***************************************************************************)
(* A run that is over.                                                     *)
(***************************************************************************)
\* The diagnosis judges a part of what was logged.
LEMMA KeptItems ==
    ASSUME Inv, pc = "over", report.saved
    PROVE  /\ IsLog(report.kept) /\ DOMAIN report.kept = 1..Len(report.kept)
           /\ Len(report.kept) \in Nat
           /\ \A i \in DOMAIN report.kept : \E j \in DOMAIN items : report.kept[i] = items[j]
           /\ Whole => /\ Len(report.kept) <= Len(items)
                       /\ \A i \in 1..Len(report.kept) : report.kept[i] = items[i]
                       /\ Len(report.kept) = Len(items) => report.kept = items
<1>0. PICK w \in WindowLengths, k \in KeptLengths :
        report.seen = Suffix(items, w) /\ report.kept = Prefix(report.seen, k)
  BY DEF Inv, Kept
<1>1. w \in Nat /\ k \in Nat /\ IsLog(items)
  BY ReportAssumption DEF Inv, TypeOK
<1>2. PICK d \in Nat : Shifted(report.seen, items, d)
  BY <1>0, <1>1, SuffixShifts
<1>3. IsLog(report.seen)
  BY <1>2 DEF Shifted
<1>4. /\ IsLog(report.kept) /\ Len(report.kept) \in Nat
      /\ DOMAIN report.kept = 1..Len(report.kept)
      /\ Len(report.kept) <= Len(report.seen)
      /\ \A i \in 1..Len(report.kept) : report.kept[i] = report.seen[i]
      /\ Len(report.kept) = Len(report.seen) => report.kept = report.seen
  BY <1>0, <1>1, <1>3, PrefixBegins
<1>5. ASSUME NEW i \in DOMAIN report.kept PROVE \E j \in DOMAIN items : report.kept[i] = items[j]
  <2>0. i \in 1..Len(report.kept) /\ Len(report.seen) \in Nat
    BY <1>2, <1>4 DEF Shifted
  <2>2. i \in 1..Len(report.seen) /\ report.kept[i] = report.seen[i]
    BY <1>4, <2>0
  <2>1. i + d \in DOMAIN items /\ report.kept[i] = items[i + d]
    BY <1>2, <2>2 DEF Shifted
  <2> QED BY <2>1
<1> QED BY <1>4, <1>5 DEF Whole

(***************************************************************************)
(* The diagnosis.                                                          *)
(***************************************************************************)
\* A run passes when no check warns or fails.
LEMMA PassMeans ==
    ASSUME NEW log, NEW asks, NEW ok, Diagnose(log, asks, ok) = "pass"
    PROVE  "fail" \notin Checks(log, asks, ok) /\ "warn" \notin Checks(log, asks, ok)
BY DEF Diagnose

\* Some of the checks.
LEMMA ChecksInclude ==
    ASSUME NEW log, NEW asks, NEW ok
    PROVE  /\ EventEngineStarted(log) \subseteq Checks(log, asks, ok)
           /\ ResultCheck(log, ok) \subseteq Checks(log, asks, ok)
           /\ AccountLock(log, ok) \subseteq Checks(log, asks, ok)
           /\ ClientCleanup(log, ok) \subseteq Checks(log, asks, ok)
BY DEF Checks

\* A log with a result has an item that tells of it.
LEMMA ResultIsTold ==
    ASSUME NEW log, IsLog(log), HasResult(log)
    PROVE  \E i \in DOMAIN log : Tells(log[i])
<1>1. CASE Has(log, Matched)
  BY <1>1 DEF Has, Hits, Tells
<1>2. CASE LastOf(log, Final).tag # "-" /\ LastOf(log, Final).tag \in Ends
  <2>1. Has(log, Final)
    BY <1>2, ItemParts DEF LastOf, Nothing
  <2>2. Max(Hits(log, Final)) \in Hits(log, Final) /\ LastOf(log, Final) = log[Max(Hits(log, Final))]
    BY <2>1, LastHit
  <2> QED BY <1>2, <2>2 DEF Hits, Tells, Final
<1>3. CASE With(log, {"completed"}, Ends) # {}
  <2>1. PICK i \in With(log, {"completed"}, Ends) : TRUE
    BY <1>3
  <2> QED BY <2>1 DEF With, Hits, Tells
<1> QED BY <1>1, <1>2, <1>3 DEF HasResult, ResultStatus, Ends

\* A pass is earned.
LEMMA PassEarned == Inv => PassIsEarned
<1> DEFINE kept == report.kept
<1> SUFFICES ASSUME Inv, pc = "over", report.saved, Diagnose(kept, expects, success) = "pass"
             PROVE  earned /\ (Whole => client = "closed")
  BY DEF PassIsEarned, Recorded
<1>1. \A v \in {"fail", "warn"} : /\ v \notin EventEngineStarted(kept) /\ v \notin ResultCheck(kept, success)
                                  /\ v \notin AccountLock(kept, success)
                                  /\ v \notin ClientCleanup(kept, success)
  BY PassMeans, ChecksInclude
<1>2. /\ IsLog(kept) /\ DOMAIN kept = 1..Len(kept) /\ Len(kept) \in Nat
      /\ \A i \in DOMAIN kept : \E j \in DOMAIN items : kept[i] = items[j]
      /\ Whole => /\ Len(kept) <= Len(items)
                  /\ \A i \in 1..Len(kept) : kept[i] = items[i]
                  /\ Len(kept) = Len(items) => kept = items
  BY KeptItems
<1> HIDE DEF kept
<1>4. earned
  <2>1. HasResult(kept)
    BY <1>1 DEF ResultCheck, Graded, Bad
  <2>2. PICK i \in DOMAIN kept : Tells(kept[i])
    BY <1>2, <2>1, ResultIsTold
  <2>3. PICK j \in DOMAIN items : kept[i] = items[j]
    BY <1>2
  <2> QED BY <2>2, <2>3 DEF Inv, Sourced
<1>5. ASSUME Whole PROVE client = "closed"
  <2>0. IsLog(items) /\ Len(items) \in Nat /\ DOMAIN items = 1..Len(items)
        /\ client \in {"none", "open", "closed", "unclosed"}
    BY LenProperties DEF Inv, TypeOK, IsLog
  <2>a. /\ Len(kept) <= Len(items) /\ \A i \in 1..Len(kept) : kept[i] = items[i]
        /\ Len(kept) = Len(items) => kept = items
    BY <1>2, <1>5
  <2>c. Len(kept) \in Nat /\ Len(items) \in Nat /\ Len(kept) <= Len(items)
    <3>1. Len(kept) \in Nat
      BY <1>2
    <3>2. Len(items) \in Nat
      BY <2>0
    <3>3. Len(kept) <= Len(items)
      BY <2>a
    <3> QED BY <3>1, <3>2, <3>3
  <2>b. \A i \in 1..Len(kept) : i \in DOMAIN items
    <3>1. Len(kept) \in Nat /\ Len(items) \in Nat /\ Len(kept) <= Len(items)
      BY <2>c
    <3>2. \A i \in 1..Len(kept) : i \in 1..Len(items)
      BY <3>1
    <3> QED BY <2>0, <3>2
  <2>1. PICK i \in 1..Len(kept) : kept[i].ev = "started"
    BY <1>1, <1>2 DEF EventEngineStarted, Has, Hits
  <2>2. i \in Hits(items, Started)
    BY <2>1, <2>a, <2>b DEF Hits, Started
  <2>3. PICK j \in Hits(items, Locked) : j < i
    BY <2>2 DEF Inv, Locking
  <2>4. j \in Hits(kept, Locked)
    <3>1. j \in 1..Len(items) /\ items[j].ev \in Locked
      BY <2>0, <2>3 DEF Hits
    <3>2. j \in 1..Len(kept)
      BY <1>2, <2>1, <2>3, <3>1
    <3> QED BY <1>2, <2>a, <3>1, <3>2 DEF Hits
  <2>5. Has(kept, Unlocked)
    <3>1. /\ GateEvent("account_lock").acquired = "account_lock_acquired"
          /\ GateEvent("account_lock").released = "account_lock_released"
      BY DEF GateEvent
    <3>2. GateSummary(kept, "account_lock").acquired
      BY <2>4, <3>1 DEF GateSummary, Has, Locked
    <3>3. GateSummary(kept, "account_lock").released
      BY <1>1, <3>2 DEF AccountLock, Gate, Graded, Bad
    <3> QED BY <3>1, <3>3 DEF GateSummary, Unlocked
  <2>6. PICK l \in Hits(kept, Unlocked) : TRUE
    BY <2>5 DEF Has
  <2>7. l \in Hits(items, Unlocked) /\ l \in 1..Len(kept)
    BY <1>2, <2>6, <2>a, <2>b DEF Hits
  <2>8. kept = items
    <3>1. l = Len(items)
      BY <2>7 DEF Inv, Kept
    <3>2. Len(kept) \in Nat /\ Len(items) \in Nat /\ Len(kept) <= Len(items)
      BY <2>c
    <3>3. Len(kept) = Len(items)
      BY <2>7, <3>1, <3>2
    <3> QED BY <2>a, <3>3
  <2>9. client # "none" /\ client # "open"
    BY <2>2 DEF Inv, Locking, Kept, Has
  <2>10. ~Has(items, Unclosed)
    BY <1>1, <2>8 DEF ClientCleanup, Seen, Graded, Bad, Unclosed, Has, Hits
  <2> QED BY <2>0, <2>9, <2>10 DEF Inv, Locking
<1> QED BY <1>4, <1>5

\* Whoever opens a run that the diagnosis passes may rely on it (PassIsEarned).
THEOREM DiagnosisIsEarned == Spec => []PassIsEarned
BY ReportInvariant, PassEarned, PTL

(***************************************************************************)
(* The summary.                                                            *)
(***************************************************************************)
\* The last item of a kind is the same, if one of the kind is left.
LEMMA ShiftedLast ==
    ASSUME NEW s, NEW log, NEW d, Shifted(s, log, d), NEW E, Has(s, E)
    PROVE  LastOf(s, E) = LastOf(log, E)
<1> DEFINE m == Max(Hits(s, E))
           M == Max(Hits(log, E))
<1>0. IsLog(s) /\ IsLog(log) /\ d \in Nat /\ Has(log, E)
  BY ShiftedHas DEF Shifted
<1>1. /\ m \in Hits(s, E) /\ (\A i \in Hits(s, E) : i <= m) /\ LastOf(s, E) = s[m]
      /\ Hits(s, E) \subseteq 1..Len(s)
  BY <1>0, LastHit
<1>2. /\ M \in Hits(log, E) /\ (\A i \in Hits(log, E) : i <= M) /\ LastOf(log, E) = log[M]
      /\ Hits(log, E) \subseteq 1..Len(log)
  BY <1>0, LastHit
<1> HIDE DEF m, M
<1>3. m + d \in Hits(log, E) /\ (M > d => M - d \in Hits(s, E))
  BY <1>1, <1>2, ShiftedHas
<1>4. m \in 1..Len(s) /\ M \in 1..Len(log) /\ Len(s) \in Nat /\ Len(log) \in Nat
  BY <1>1, <1>2 DEF Shifted
<1>5. m + d <= M /\ M > d
  BY <1>0, <1>2, <1>3, <1>4
<1>6. M - d <= m
  BY <1>1, <1>3, <1>5
<1>7. M = m + d
  BY <1>0, <1>4, <1>5, <1>6
<1>8. s[m] = log[m + d]
  BY <1>4 DEF Shifted
<1> QED BY <1>1, <1>2, <1>7, <1>8

\* The end of a run is never cut off a log that keeps thirteen items.
LEMMA SeenEnd ==
    ASSUME Inv, pc = "over", \A w \in WindowLengths : w >= 13
    PROVE  \E d \in Nat : /\ Shifted(report.seen, items, d)
                          /\ \A i \in Hits(items, LastEvents) : i > d
<1>1. PICK w \in WindowLengths : report.seen = Suffix(items, w)
  BY DEF Inv, Kept
<1>2. w \in Nat /\ w >= 13 /\ IsLog(items)
  BY <1>1, ReportAssumption DEF Inv, TypeOK
<1>3. PICK d \in Nat : Shifted(report.seen, items, d) /\ (d = 0 \/ Len(items) = w + d)
  BY <1>1, <1>2, SuffixShifts
<1>4. ASSUME NEW i \in Hits(items, LastEvents) PROVE i > d
  <2>1. i > Len(items) - 13
    BY DEF Inv, Kept
  <2>2. i \in 1..Len(items) /\ Len(items) \in Nat
    BY <1>3 DEF Shifted, Hits
  <2> QED BY <1>2, <1>3, <2>1, <2>2
<1> QED BY <1>3, <1>4

\* What of a kind is not cut off is told as it was.
LEMMA SeenKind ==
    ASSUME NEW s, NEW log, NEW d, Shifted(s, log, d), NEW E, \A i \in Hits(log, E) : i > d
    PROVE  /\ Has(s, E) <=> Has(log, E)
           /\ LastOf(s, E) = LastOf(log, E)
<1>1. Has(s, E) <=> Has(log, E)
  BY ShiftedHas DEF Has
<1>2. LastOf(s, E) = LastOf(log, E)
  <2>1. CASE Has(s, E)
    BY <2>1, ShiftedLast
  <2>2. CASE ~Has(s, E)
    BY <1>1, <2>2 DEF LastOf
  <2> QED BY <2>1, <2>2
<1> QED BY <1>1, <1>2

\* The parts of a summary.
LEMMA SummaryParts ==
    ASSUME NEW log, NEW ok
    PROVE  /\ BuildRunSummary(log, ok).status = SummaryStatus(log, ok)
           /\ BuildRunSummary(log, ok).attempt = SummaryAttempt(log)
           /\ BuildRunSummary(log, ok).retry_count
                = SnapshotOr(log, Snapshot(log).n, Highest(log, RetryEvents))
           /\ BuildRunSummary(log, ok).callbacks.unconfirmed
                = SnapshotOr(log, Snapshot(log).m, Unconfirmed(log))
           /\ BuildRunSummary(log, ok).timeouts.task_run = Count(log, TimedOut)
           /\ BuildRunSummary(log, ok).scope = LastOf(log, Failed).tag
           /\ BuildRunSummary(log, ok).save_failed = Has(log, Unsaved)
           /\ BuildRunSummary(log, ok).cleanup.completed = Has(log, Closed)
           /\ BuildRunSummary(log, ok).cleanup.failed = Has(log, Unclosed)
           /\ \A l \in Locks : BuildRunSummary(log, ok).gates[l].released
                                 = Has(log, {GateEvent(l).released})
<1> DEFINE s == BuildRunSummary(log, ok)
<1>1. /\ s.status = SummaryStatus(log, ok) /\ s.attempt = SummaryAttempt(log)
      /\ s.retry_count = SnapshotOr(log, Snapshot(log).n, Highest(log, RetryEvents))
      /\ s.callbacks = CallbacksSummary(log) /\ s.timeouts = TimeoutsSummary(log)
      /\ s.cleanup = CleanupSummary(log) /\ s.save_failed = Has(log, Unsaved)
      /\ s.scope = LastOf(log, Failed).tag
      /\ \A l \in Locks : s.gates[l] = GateSummary(log, l)
  BY DEF BuildRunSummary, Unsaved, Failed
<1> HIDE DEF s
<1>2. s.callbacks.unconfirmed = SnapshotOr(log, Snapshot(log).m, Unconfirmed(log))
  BY <1>1 DEF CallbacksSummary
<1>3. s.timeouts.task_run = Count(log, TimedOut)
  BY <1>1 DEF TimeoutsSummary, TimedOut
<1>4. s.cleanup.completed = Has(log, Closed) /\ s.cleanup.failed = Has(log, Unclosed)
  BY <1>1 DEF CleanupSummary, Closed, Unclosed
<1>5. \A l \in Locks : s.gates[l].released = Has(log, {GateEvent(l).released})
  <2> SUFFICES ASSUME NEW l \in Locks
               PROVE  s.gates[l].released = Has(log, {GateEvent(l).released})
    OBVIOUS
  <2>1. GateSummary(log, l).released = Has(log, {GateEvent(l).released})
    BY DEF GateSummary
  <2>2. s.gates[l] = GateSummary(log, l)
    BY <1>1
  <2> QED BY <2>1, <2>2
<1> QED BY <1>1, <1>2, <1>3, <1>4, <1>5 DEF s

\* How the run ended, in its summary.
LEMMA EndingIsTold ==
    ASSUME Inv, pc = "over", \A w \in WindowLengths : w >= 13
    PROVE  EndingTold(BuildRunSummary(report.seen, success))
<1> DEFINE s == BuildRunSummary(report.seen, success)
           seen == report.seen
<1>0. /\ Locking /\ Story /\ Counted /\ Kept /\ report.saved \in BOOLEAN
  BY DEF Inv, Kept
<1>1. PICK d \in Nat : Shifted(seen, items, d) /\ \A i \in Hits(items, LastEvents) : i > d
  BY SeenEnd
<1> HIDE DEF seen
<1>2. \A E \in {Unlocked, Unslotted, Failed, Completed, TimedOut, Closed, Unclosed, Unsaved} :
        Hits(items, E) \subseteq Hits(items, LastEvents)
  BY DEF Hits, LastEvents, EndEvents
<1>3. \A E \in {Unlocked, Unslotted, Failed, Completed, TimedOut, Closed, Unclosed, Unsaved} :
        (Has(seen, E) <=> Has(items, E)) /\ LastOf(seen, E) = LastOf(items, E)
  BY <1>1, <1>2, SeenKind
<1>4. /\ s.attempt = SummaryAttempt(seen) /\ s.timeouts.task_run = Count(seen, TimedOut)
      /\ s.scope = LastOf(seen, Failed).tag /\ s.save_failed = Has(seen, Unsaved)
      /\ s.cleanup.completed = Has(seen, Closed) /\ s.cleanup.failed = Has(seen, Unclosed)
      /\ \A l \in Locks : s.gates[l].released = Has(seen, {GateEvent(l).released})
  BY SummaryParts DEF seen
<1> HIDE DEF s
<1>5. \A l \in Locks : s.gates[l].released = Has(items, {GateEvent(l).acquired})
  <2>1. /\ {GateEvent("account_lock").acquired} = Locked
        /\ {GateEvent("account_lock").released} = Unlocked
        /\ {GateEvent("global_concurrency").acquired} = Slotted
        /\ {GateEvent("global_concurrency").released} = Unslotted
    BY DEF GateEvent, Locked, Unlocked, Slotted, Unslotted
  <2>2. Has(seen, Unlocked) = Has(items, Locked)
    BY <1>0, <1>3 DEF Kept, Has
  <2>3. Has(seen, Unslotted) = Has(items, Slotted)
    BY <1>0, <1>3 DEF Kept, Locking, Has
  <2>4. s.gates["account_lock"].released = Has(items, {GateEvent("account_lock").acquired})
    BY <1>4, <2>1, <2>2 DEF Locks
  <2>5. s.gates["global_concurrency"].released
          = Has(items, {GateEvent("global_concurrency").acquired})
    BY <1>4, <2>1, <2>3 DEF Locks
  <2> QED BY <2>4, <2>5 DEF Locks
<1>6. s.cleanup.completed = (client = "closed") /\ s.cleanup.failed = (client = "unclosed")
  BY <1>0, <1>3, <1>4 DEF Locking, Has
<1>7. s.scope = (IF cause = "cancelled" THEN "-" ELSE cause)
  <2>1. CASE cause \in {"-", "cancelled"}
    <3>1. LastOf(seen, Failed) = Nothing
      BY <1>0, <1>3, <2>1 DEF Story, LastOf
    <3> QED BY <1>4, <2>1, <3>1, ItemParts DEF Nothing
  <2>2. CASE cause \notin {"-", "cancelled"}
    BY <1>0, <1>3, <1>4, <2>2 DEF Story
  <2> QED BY <2>1, <2>2
<1>8. ASSUME cause # "cancelled" PROVE s.attempt = attempt
  <2>0. /\ LastOf(seen, Completed) = LastOf(items, Completed)
        /\ LastOf(seen, Failed) = LastOf(items, Failed)
    BY <1>3
  <2>1. CASE cause = "-"
    <3>1. success
      BY <1>0, <2>1 DEF Kept
    <3>2. LastOf(seen, Completed).n = attempt /\ attempt # 0
      BY <1>0, <2>0, <3>1 DEF Story
    <3> QED BY <1>4, <3>2 DEF SummaryAttempt, Completed
  <2>2. CASE cause # "-"
    <3>1. ~Has(items, Completed) /\ LastOf(items, Failed).n = attempt
      BY <1>0, <1>8, <2>2 DEF Story
    <3>2. LastOf(seen, Completed).n = 0
      BY <2>0, <3>1, ItemParts DEF LastOf, Nothing
    <3>3. attempt = 0 => LastOf(seen, Final).n = 0
      <4>1. attempt = 0 => ~Has(items, Final)
        BY <1>0 DEF Counted
      <4>2. attempt = 0 => ~Has(seen, Final)
        BY <1>1, <4>1, ShiftedHas
      <4> QED BY <4>2, ItemParts DEF LastOf, Nothing
    <3> QED BY <1>4, <2>0, <3>1, <3>2, <3>3 DEF SummaryAttempt, Completed, Failed, Final
  <2> QED BY <2>1, <2>2
<1>9. s.save_failed = ~report.saved
  BY <1>0, <1>3, <1>4 DEF Kept, Has
<1>10. s.timeouts.task_run = (IF cause = "outer_task" THEN 1 ELSE 0)
  <2>1. CASE cause # "outer_task"
    <3>1. Hits(seen, TimedOut) = {}
      BY <1>0, <1>3, <2>1 DEF Story, Has
    <3> QED BY <1>4, <2>1, <3>1, FS_EmptySet DEF Count
  <2>2. CASE cause = "outer_task"
    <3>1. PICK p \in DOMAIN items : Hits(items, TimedOut) = {p}
      BY <1>0, <2>2 DEF Story
    <3>2. \A i \in Hits(seen, TimedOut) : i + d = p /\ i \in Nat
      BY <1>1, <3>1, ShiftedHas DEF Shifted, Hits
    <3>3. p \in Nat /\ d \in Nat /\ \A i \in Hits(seen, TimedOut) : i = p - d
      BY <1>1, <3>1, <3>2 DEF Shifted
    <3>4. Hits(seen, TimedOut) # {}
      BY <1>3, <3>1 DEF Has
    <3>5. Hits(seen, TimedOut) = {p - d}
      BY <3>3, <3>4
    <3> QED BY <1>4, <2>2, <3>5, FS_Singleton DEF Count
  <2> QED BY <2>1, <2>2
<1> QED BY <1>5, <1>6, <1>7, <1>8, <1>9, <1>10 DEF EndingTold, s, seen

\* The only chat and the only engine of a run, in its summary.
LEMMA OneChatIsTold ==
    ASSUME Inv, pc = "over"
    PROVE  OneChatTold(BuildRunSummary(report.seen, success))
<1> DEFINE s == BuildRunSummary(report.seen, success)
           seen == report.seen
<1>0. Story /\ Counted /\ Succeeded /\ engine.retries \in Nat
  BY DEF Inv, TypeOK
<1>1. PICK d \in Nat : Shifted(seen, items, d)
  <2>1. PICK w \in WindowLengths : seen = Suffix(items, w)
    BY DEF Inv, Kept
  <2> QED BY <2>1, SuffixShifts, ReportAssumption DEF Inv, TypeOK
<1>2. /\ s.status = SummaryStatus(seen, success)
      /\ s.retry_count = SnapshotOr(seen, Snapshot(seen).n, Highest(seen, RetryEvents))
      /\ s.callbacks.unconfirmed = SnapshotOr(seen, Snapshot(seen).m, Unconfirmed(seen))
  BY SummaryParts
<1>3. Whole => seen = items
  BY DEF Whole
<1> HIDE DEF s, seen
<1>4. Has(seen, Final) => LastOf(seen, Final) = LastOf(items, Final) /\ Has(items, Final)
  BY <1>1, ShiftedLast, ShiftedHas
<1>5. ASSUME chats = 1, success PROVE s.status = "success"
  <2>1. Has(items, Completed) /\ ~Has(items, Failed) /\ LastOf(items, Final).tag = "success"
    BY <1>0, <1>5 DEF Story, Succeeded
  <2>2. ~Has(items, {"checked_matched"}) /\ ~Has(items, {"failed_matched"})
    BY <1>0 DEF Succeeded
  <2>3. ~Has(seen, {"checked_matched"}) /\ ~Has(seen, {"failed_matched", "task_failed"})
    <3>1. ~Has(items, {"failed_matched", "task_failed"})
      BY <2>1, <2>2 DEF Has, Hits, Failed
    <3> QED BY <1>1, <2>2, <3>1, ShiftedHas
  <2>4. CASE LastOf(seen, Final).tag # "-"
    <3>1. Has(seen, Final)
      BY <2>4, ItemParts DEF LastOf, Nothing
    <3> QED BY <1>2, <1>4, <2>1, <2>4, <3>1 DEF SummaryStatus
  <2>5. CASE LastOf(seen, Final).tag = "-"
    BY <1>2, <1>5, <2>3, <2>5 DEF SummaryStatus
  <2> QED BY <2>4, <2>5
<1>6. ASSUME engines = 1, Has(seen, Final)
      PROVE  s.retry_count = engine.retries /\ s.callbacks.unconfirmed = engine.unconfirmed
  <2>1. LastOf(seen, Final).n = engine.retries /\ LastOf(seen, Final).m = engine.unconfirmed
    BY <1>0, <1>4, <1>6 DEF Counted
  <2>2. Has(seen, Final \cup {"timeout_state"})
    BY <1>6 DEF Has, Hits
  <2> QED BY <1>2, <1>6, <2>1, <2>2 DEF SnapshotOr, Snapshot
<1>7. ASSUME engines = 1, Whole, ~Has(seen, Final)
      PROVE  s.retry_count = engine.retries /\ s.callbacks.unconfirmed = engine.unconfirmed
  <2>1. seen = items /\ ~Has(items, Final) /\ ~Has(items, {"timeout_state"})
    BY <1>0, <1>3, <1>7 DEF Counted
  <2>2. ~Has(seen, Final \cup {"timeout_state"})
    BY <2>1 DEF Has, Hits
  <2>3. s.retry_count = Highest(items, RetryEvents) /\ s.callbacks.unconfirmed = Unconfirmed(items)
    BY <1>2, <2>1, <2>2 DEF SnapshotOr
  <2>4. /\ engine.retries = 0 \/ \E i \in Hits(items, RetryEvents) : items[i].n = engine.retries
        /\ \A i \in Hits(items, RetryEvents) : items[i].n \in 0..engine.retries
        /\ Unconfirmed(items) = engine.unconfirmed
    BY <1>0, <1>7, <2>1 DEF Counted
  <2> DEFINE R == {0} \cup {items[i].n : i \in Hits(items, RetryEvents)}
  <2>5. engine.retries \in R /\ \A x \in R : x \in 0..engine.retries
    BY <1>0, <2>4
  <2>6. Highest(items, RetryEvents) = Max(R)
    BY DEF Highest
  <2> HIDE DEF R
  <2>7. Max(R) = engine.retries
    <3>1. \A x \in R : engine.retries >= x
      BY <1>0, <2>5
    <3>2. Max(R) \in R /\ \A x \in R : Max(R) >= x
      BY <2>5, <3>1 DEF Max
    <3> QED BY <1>0, <2>5, <3>2
  <2> QED BY <2>3, <2>4, <2>6, <2>7
<1> QED BY <1>5, <1>6, <1>7 DEF OneChatTold, s, seen

\* The summary tells how the run really ended, though the log dropped its oldest
\* items, as long as it keeps thirteen (SummaryTold).
THEOREM SummaryIsTold ==
    ASSUME \A w \in WindowLengths : w >= 13 PROVE Spec => []SummaryTold
<1>1. Inv => SummaryTold
  BY EndingIsTold, OneChatIsTold DEF SummaryTold, Recorded
<1> QED BY <1>1, ReportInvariant, PTL

(***************************************************************************)
(* A successful run.                                                       *)
(***************************************************************************)
\* With success nothing is graded worse than a warning.
LEMMA NothingFails ==
    ASSUME NEW ok, ok
    PROVE  "fail" \notin Bad(ok) /\ \A good_ : "fail" \notin Graded(good_, ok)
BY DEF Bad, Graded

\* A verdict comes from one of the checks.
LEMMA ChecksSplit ==
    ASSUME NEW log, NEW asks, NEW ok, NEW v, v \in Checks(log, asks, ok)
    PROVE \/ v \in EventEngineStarted(log)
           \/ v \in ExpectedButtons(log, asks, ok)
           \/ v \in CaptchaPath(log, asks, ok)
           \/ v \in ResultCheck(log, ok)
           \/ v \in Timeouts(log, ok)
           \/ v \in TaskRunLateResults(log)
           \/ v \in ClientRpcLateResults(log)
           \/ v \in HardTimeoutLateResults(log)
           \/ v \in CallbackTextProgress(log, ok)
           \/ v \in CallbackResult(log, ok)
           \/ v \in CallbackOuterTimeout(log, ok)
           \/ v \in CallbackRecovery(log, ok)
           \/ v \in StrictImageChoice(log)
           \/ v \in ButtonCallbackUnconfirmed(log, ok)
           \/ v \in ResponseActionNotAdvanced(log, ok)
           \/ v \in NoOcrAfterResult(log)
           \/ v \in Noted(log)
           \/ v \in NotedOfFailure(log, ok)
           \/ v \in HistoryRescue(log, ok)
           \/ v \in HistoryScan(log, ok)
           \/ v \in FinalState(log)
           \/ v \in RetryBudget(log, ok)
           \/ v \in RuntimeConfig(log)
           \/ v \in WorkerContract(log)
           \/ v \in AccountLock(log, ok)
           \/ v \in GlobalConcurrency(log, ok)
           \/ v \in ClientCleanup(log, ok)
           \/ v \in ManagerReport(log)
           \/ v \in DeferredCancellation(log)
           \/ v \in CleanupLateResults(log)
           \/ v \in CleanupLockCoverage(log, ok)
           \/ v \in TaskFailureContext(log)
<1> DEFINE all == {EventEngineStarted(log), ExpectedButtons(log, asks, ok), CaptchaPath(log, asks, ok),
                   ResultCheck(log, ok), Timeouts(log, ok), TaskRunLateResults(log),
                   ClientRpcLateResults(log), HardTimeoutLateResults(log), CallbackTextProgress(log, ok),
                   CallbackResult(log, ok), CallbackOuterTimeout(log, ok), CallbackRecovery(log, ok),
                   StrictImageChoice(log), ButtonCallbackUnconfirmed(log, ok), ResponseActionNotAdvanced(log, ok),
                   NoOcrAfterResult(log), Noted(log), NotedOfFailure(log, ok),
                   HistoryRescue(log, ok), HistoryScan(log, ok), FinalState(log),
                   RetryBudget(log, ok), RuntimeConfig(log), WorkerContract(log),
                   AccountLock(log, ok), GlobalConcurrency(log, ok), ClientCleanup(log, ok),
                   ManagerReport(log), DeferredCancellation(log), CleanupLateResults(log),
                   CleanupLockCoverage(log, ok), TaskFailureContext(log)}
<1>1. PICK c \in all : v \in c
  BY DEF Checks
<1> QED BY <1>1

\* Of a successful run only four checks can fail.
LEMMA FailingChecks ==
    ASSUME NEW log, NEW asks, NEW ok, ok, "fail" \in Checks(log, asks, ok)
    PROVE  \/ "fail" \in EventEngineStarted(log)
           \/ "fail" \in CaptchaReply(log, asks)
           \/ "fail" \in StrictImageChoice(log)
           \/ "fail" \in NoOcrAfterResult(log)
<1>0. "fail" \notin Bad(ok) /\ \A good_ : "fail" \notin Graded(good_, ok)
  BY NothingFails
<1>1. ASSUME NEW E, NEW v, "fail" \notin v PROVE "fail" \notin Seen(log, E, v)
  BY <1>1 DEF Seen
<1>2. "fail" \notin ExpectedButtons(log, asks, ok)
  BY <1>0 DEF ExpectedButtons
<1>3. "fail" \in CaptchaPath(log, asks, ok) => "fail" \in CaptchaReply(log, asks)
  BY <1>0 DEF CaptchaPath, CaptchaSent
<1>4. "fail" \notin ResultCheck(log, ok)
  BY <1>0 DEF ResultCheck
<1>5. "fail" \notin Timeouts(log, ok)
  <2> DEFINE Kinds == {{"response_action_timeout"}, SendTimeouts, {"task_run_timeout"},
                       {"media_download_retryable_error"}, {"ai_retryable_error"},
                       {"message_retryable_error"}, {"client_rpc_hard_timeout"}}
                         \cup {{e} : e \in LockTimeouts}
             outer == Seen(log, {"button_callback_outer_timeout"},
                           Graded(LastOf(log, {"button_callback_outer_timeout"}).tag = "trusted", ok))
             rare == Seen(log, {"client_startup_retry_scheduled"}, {"warn"})
             all  == UNION {Seen(log, E, Bad(ok)) : E \in Kinds}
             state == Graded(~Has(log, {"timeout_state"}), ok)
  <2>1. \A E : "fail" \notin Seen(log, E, Bad(ok))
    BY <1>0, <1>1
  <2>2. "fail" \notin outer /\ "fail" \notin rare /\ "fail" \notin state
    BY DEF Seen, Graded, Bad
  <2>3. Timeouts(log, ok) = ((state \cup all) \cup rare) \cup outer
    BY DEF Timeouts
  <2> HIDE DEF outer, rare, state, Kinds
  <2>4. "fail" \notin all
    BY <2>1
  <2> QED BY <2>2, <2>3, <2>4
<1>6. \A s : "fail" \notin LateResults(log, s)
  BY <1>1 DEF LateResults
<1>7. /\ "fail" \notin TaskRunLateResults(log) /\ "fail" \notin ClientRpcLateResults(log)
      /\ "fail" \notin HardTimeoutLateResults(log) /\ "fail" \notin CleanupLateResults(log)
  BY <1>6 DEF TaskRunLateResults, ClientRpcLateResults, HardTimeoutLateResults, CleanupLateResults
<1>8. "fail" \notin CallbackTextProgress(log, ok)
  BY <1>0 DEF CallbackTextProgress, Seen
<1>9. "fail" \notin CallbackResult(log, ok)
  BY <1>0 DEF CallbackResult, Seen
<1>10. "fail" \notin CallbackOuterTimeout(log, ok)
  BY <1>0 DEF CallbackOuterTimeout, Seen
<1>11. "fail" \notin CallbackRecovery(log, ok)
  BY <1>0 DEF CallbackRecovery, Seen
<1>12. "fail" \notin ButtonCallbackUnconfirmed(log, ok)
  BY <1>0 DEF ButtonCallbackUnconfirmed, Seen
<1>13. "fail" \notin ResponseActionNotAdvanced(log, ok)
  BY <1>0 DEF ResponseActionNotAdvanced, Seen
<1>14. "fail" \notin Noted(log) /\ "fail" \notin NotedOfFailure(log, ok)
  BY DEF Noted, NotedOfFailure, Seen
<1>15. "fail" \notin HistoryRescue(log, ok) /\ "fail" \notin HistoryScan(log, ok)
  BY <1>0 DEF HistoryRescue, HistoryScan, Seen
<1>16. "fail" \notin FinalState(log) /\ "fail" \notin RetryBudget(log, ok)
  BY <1>0 DEF FinalState, RetryBudget, Seen
<1>17. "fail" \notin RuntimeConfig(log) /\ "fail" \notin WorkerContract(log)
  BY DEF RuntimeConfig, WorkerContract, Seen
<1>18. \A l : "fail" \notin Gate(log, ok, l)
  BY <1>0 DEF Gate
<1>19. "fail" \notin AccountLock(log, ok) /\ "fail" \notin GlobalConcurrency(log, ok)
  BY <1>18 DEF AccountLock, GlobalConcurrency
<1>20. "fail" \notin ClientCleanup(log, ok) /\ "fail" \notin ManagerReport(log)
  BY <1>0 DEF ClientCleanup, ManagerReport, Seen
<1>21. "fail" \notin DeferredCancellation(log) /\ "fail" \notin CleanupLockCoverage(log, ok)
  BY <1>0 DEF DeferredCancellation, CleanupLockCoverage
<1>22. "fail" \notin TaskFailureContext(log)
  BY DEF TaskFailureContext, Seen
<1> QED BY <1>2, <1>3, <1>4, <1>5, <1>7, <1>8, <1>9, <1>10, <1>11, <1>12, <1>13, <1>14, <1>15,
           <1>16, <1>17, <1>19, <1>20, <1>21, <1>22, ChecksSplit

\* A trusted timeout follows its own click, never a picture's option.
LEMMA NoOptionIsTrusted == ASSUME Inv PROVE "fail" \notin StrictImageChoice(items)
<1> SUFFICES ASSUME NEW i \in Hits(items, {"image_option_selected"}),
                    NEW j \in Hits(items, {"callback_timeout_trusted"}),
                    i < j, \A k \in (i + 1)..(j - 1) : items[k].ev \notin Boundary
             PROVE  FALSE
  BY DEF StrictImageChoice, Seen
<1>1. j - 1 \in Hits(items, Clicked)
  BY DEF Inv, Succeeded, Trusted
<1>2. items[i].ev = "image_option_selected" /\ items[j - 1].ev = "button_clicked"
  BY <1>1 DEF Hits, Clicked
<1>3. i \in Nat /\ j \in Nat
  BY LenProperties DEF Hits, Inv, TypeOK, IsLog
<1>4. i # j - 1
  BY <1>2
<1>5. j - 1 \in (i + 1)..(j - 1)
  BY <1>3, <1>4
<1> QED BY <1>2, <1>5 DEF Boundary

\* A successful run that was kept whole logged what a run logs on its way.
LEMMA SuccessLogged ==
    ASSUME Inv, pc = "over", success, report.kept = items
    PROVE  /\ Has(items, Final) /\ Has(items, Started) /\ Has(items, Locked) /\ Has(items, Unlocked)
           /\ Has(items, Slotted) /\ Has(items, Unslotted)
           /\ Has(items, {"task_runtime_config"}) /\ Has(items, {"worker_execution_contract"})
           /\ client \in {"closed", "unclosed"}
<1>1. Has(items, Final) /\ Has(items, Started) /\ Has(items, Slotted)
      /\ Has(items, {"task_runtime_config"}) /\ Has(items, {"worker_execution_contract"})
  BY DEF Inv, Succeeded
<1>2. Has(items, Locked)
  BY <1>1 DEF Inv, Locking, Has
<1>3. Has(items, Unlocked) /\ Has(items, Unslotted) /\ client # "open"
  BY <1>1, <1>2 DEF Inv, Kept
<1>4. client # "none"
  BY <1>1 DEF Inv, Locking
<1> QED BY <1>1, <1>2, <1>3, <1>4 DEF Inv, TypeOK

\* A run that never left the plain path has nothing that is not plain in its log.
LEMMA OnlyPlain ==
    ASSUME Inv, mishaps = 0, NEW E, \A e \in E : e \notin PlainEvents
    PROVE  ~Has(items, E)
BY DEF Inv, Plainly, PlainItem, Has, Hits

\* The events of the plain path, by name.
LEMMA PlainNames ==
    PlainEvents = {"account_lock_acquired", "account_lock_released", "global_concurrency_acquired",
        "global_concurrency_released", "started", "final_state", "task_completed",
        "client_cleanup_completed", "task_started", "task_runtime_config", "task_retry_config",
        "worker_execution_contract", "success_matched", "completed_without_result_assertion",
        "completed", "client_cleanup_started", "task_run_info_save_failed"}
BY DEF PlainEvents, Locked, Unlocked, Slotted, Unslotted, Started, Final, Completed, Closed

\* On the plain path no check has anything to say but that all is well.
LEMMA PlainPasses ==
    ASSUME Inv, pc = "over", success, report.kept = items, mishaps = 0, NEW v \in {"fail", "warn"}
    PROVE  v \notin Checks(items, expects, success)
<1> DEFINE log == items
<1>0. /\ IsLog(log) /\ \A i \in DOMAIN log : PlainItem(log[i])
      /\ Locking /\ Kept
  BY DEF Inv, TypeOK, Plainly
<1>1. /\ Has(log, Final) /\ Has(log, Started) /\ Has(log, Locked) /\ Has(log, Unlocked)
      /\ Has(log, Slotted) /\ Has(log, Unslotted)
      /\ Has(log, {"task_runtime_config"}) /\ Has(log, {"worker_execution_contract"})
      /\ client \in {"closed", "unclosed"}
  BY SuccessLogged
<1>2. \A E : (\A e \in E : e \notin PlainEvents) => Hits(log, E) = {} /\ ~Has(log, E)
  BY OnlyPlain DEF Has
<1>3. LastOf(log, Final).tag = "success"
  <2>1. Max(Hits(log, Final)) \in Hits(log, Final) /\ LastOf(log, Final) = log[Max(Hits(log, Final))]
    BY <1>0, <1>1, LastHit
  <2> QED BY <1>0, <2>1 DEF Hits, PlainItem, Final
<1>4. ResultStatus(log) = "success" /\ HasResult(log)
  BY <1>3 DEF ResultStatus, HasResult, Ends
<1>5. Has(log, Closed) /\ ~Has(log, Unclosed) /\ Hits(log, Unclosed) = {}
  <2>1. ~Has(log, Unclosed) /\ Hits(log, Unclosed) = {}
    BY <1>2, PlainNames DEF Unclosed
  <2> QED BY <1>0, <1>1, <2>1 DEF Locking
<1>6. ASSUME NEW E, \A e \in E : e \notin PlainEvents, NEW u PROVE v \notin Seen(log, E, u)
  BY <1>2, <1>6 DEF Seen
<1>7. ASSUME NEW good_, good_ PROVE Graded(good_, success) = {"pass"}
  BY <1>7 DEF Graded
<1> HIDE DEF log
<1>a1. v \notin EventEngineStarted(log)
  BY <1>1 DEF EventEngineStarted, Started
<1>a2. v \notin ExpectedButtons(log, expects, success)
  BY <1>4 DEF ExpectedButtons, Ends
<1>a3. v \notin CaptchaPath(log, expects, success)
  <2>1. ~Has(log, {"captcha_result_text_preempted", "captcha_recognized"})
    BY <1>2, PlainNames
  <2> QED BY <1>4, <2>1 DEF CaptchaPath
<1>a4. v \notin ResultCheck(log, success)
  BY <1>4 DEF ResultCheck, Graded
<1>a5. v \notin Timeouts(log, success)
  <2> DEFINE Kinds == {{"response_action_timeout"}, SendTimeouts, {"task_run_timeout"},
                       {"media_download_retryable_error"}, {"ai_retryable_error"},
                       {"message_retryable_error"}, {"client_rpc_hard_timeout"}}
                         \cup {{e} : e \in LockTimeouts}
             outer  == Seen(log, {"button_callback_outer_timeout"},
                          Graded(LastOf(log, {"button_callback_outer_timeout"}).tag = "trusted",
                                 success))
             rare == Seen(log, {"client_startup_retry_scheduled"}, {"warn"})
             all  == UNION {Seen(log, E, Bad(success)) : E \in Kinds}
             state == Graded(~Has(log, {"timeout_state"}), success)
  <2>1. \A E \in Kinds : \A e \in E : e \notin PlainEvents
    BY PlainNames DEF SendTimeouts, LockTimeouts
  <2>2. Timeouts(log, success) = ((state \cup all) \cup rare) \cup outer
    BY DEF Timeouts
  <2>3. v \notin state
    <3>1. ~Has(log, {"timeout_state"})
      BY <1>2, PlainNames
    <3> QED BY <3>1 DEF Graded
  <2>4. v \notin rare /\ v \notin outer
    BY <1>6, PlainNames
  <2> HIDE DEF outer, rare, state, Kinds
  <2>5. v \notin all
    BY <1>6, <2>1
  <2> QED BY <2>2, <2>3, <2>4, <2>5
<1>a6. /\ v \notin TaskRunLateResults(log) /\ v \notin ClientRpcLateResults(log)
       /\ v \notin HardTimeoutLateResults(log) /\ v \notin CleanupLateResults(log)
  <2>1. \A s \in {"task_run", "client_rpc", "hard_timeout", "client_cleanup"} :
          \A e \in Late(s) : e \notin PlainEvents
    BY LateNames, PlainNames
  <2>2. \A s \in {"task_run", "client_rpc", "hard_timeout", "client_cleanup"} :
          v \notin LateResults(log, s)
    BY <1>6, <2>1 DEF LateResults
  <2> QED BY <2>2 DEF TaskRunLateResults, ClientRpcLateResults, HardTimeoutLateResults,
                      CleanupLateResults
<1>a7. v \notin CallbackTextProgress(log, success) /\ v \notin CallbackResult(log, success)
  <2>1. ~Has(log, {"callback_text_received"}) /\ ~Has(log, {"button_callback_result"})
    BY <1>2, PlainNames
  <2> QED BY <2>1 DEF CallbackTextProgress, CallbackResult, Seen
<1>a8. v \notin CallbackOuterTimeout(log, success) /\ v \notin CallbackRecovery(log, success)
  <2>1. /\ ~Has(log, {"button_callback_exception"}) /\ ~Has(log, {"button_callback_outer_timeout"})
        /\ ~Has(log, {"callback_timeout_trusted"})
    BY <1>2, PlainNames
  <2> QED BY <2>1 DEF CallbackOuterTimeout, CallbackRecovery, Seen
<1>a9. v \notin StrictImageChoice(log) /\ v \notin ButtonCallbackUnconfirmed(log, success)
  <2>1. ~Has(log, {"image_option_selected"}) /\ ~Has(log, {"button_callback_unconfirmed"})
    BY <1>2, PlainNames
  <2> QED BY <2>1 DEF StrictImageChoice, ButtonCallbackUnconfirmed, Seen
<1>b1. v \notin ResponseActionNotAdvanced(log, success) /\ v \notin NoOcrAfterResult(log)
  <2>1. ~Has(log, {"response_action_not_advanced"}) /\ Hits(log, {"captcha_recognized"}) = {}
    BY <1>2, PlainNames
  <2> QED BY <2>1 DEF ResponseActionNotAdvanced, NoOcrAfterResult, Seen
<1>b2. v \notin Noted(log) /\ v \notin NotedOfFailure(log, success)
  BY DEF Noted, NotedOfFailure, Seen
<1>b3. v \notin HistoryRescue(log, success) /\ v \notin HistoryScan(log, success)
  <2>1. /\ ~Has(log, {"history_failed"}) /\ ~Has(log, {"history_failed", "history_rescue_suspended"})
    BY <1>2, PlainNames
  <2> QED BY <2>1 DEF HistoryRescue, HistoryScan, Seen
<1>b4. v \notin FinalState(log) /\ v \notin RetryBudget(log, success)
  <2>1. ~Has(log, RetryFailures)
    BY <1>2, PlainNames DEF RetryFailures
  <2> QED BY <1>1, <2>1 DEF FinalState, RetryBudget, Seen
<1>b5. v \notin RuntimeConfig(log) /\ v \notin WorkerContract(log)
  BY <1>1 DEF RuntimeConfig, WorkerContract
<1>b6. v \notin AccountLock(log, success) /\ v \notin GlobalConcurrency(log, success)
  <2>1. /\ GateSummary(log, "account_lock").acquired /\ GateSummary(log, "account_lock").released
        /\ GateSummary(log, "global_concurrency").acquired
        /\ GateSummary(log, "global_concurrency").released
    BY <1>1 DEF GateSummary, GateEvent, Locked, Unlocked, Slotted, Unslotted
  <2> QED BY <2>1 DEF AccountLock, GlobalConcurrency, Gate, Graded
<1>b7. v \notin ClientCleanup(log, success)
  BY <1>5 DEF ClientCleanup, Seen, Graded, Closed, Unclosed
<1>b8. v \notin ManagerReport(log)
  <2>1. Max(Hits(log, Closed)) \in Hits(log, Closed) /\ LastOf(log, Closed) = log[Max(Hits(log, Closed))]
    BY <1>0, <1>5, LastHit DEF log
  <2>2. LastOf(log, Closed).tag = "-"
    BY <1>0, <2>1 DEF Hits, PlainItem, Closed, log
  <2> QED BY <2>2 DEF ManagerReport, Closed
<1>b9. v \notin DeferredCancellation(log)
  <2>1. Hits(log, {"task_cancellation_deferred_for_cleanup"}) = {}
    BY <1>2, PlainNames
  <2> QED BY <2>1 DEF DeferredCancellation
<1>c1. v \notin CleanupLockCoverage(log, success)
  <2> DEFINE cleaned  == Hits(log, {"client_cleanup_completed", "client_cleanup_failed"})
             released == Hits(log, {"account_lock_released"})
  <2>1. cleaned = Hits(items, Closed \cup Unclosed) /\ released = Hits(items, Unlocked)
    BY DEF Hits, Closed, Unclosed, Unlocked, log
  <2>2. \A i \in cleaned, j \in released : i < j
    BY <1>0, <2>1 DEF Kept
  <2>3. cleaned # {} /\ released # {} => Max(cleaned) \in cleaned /\ Max(released) \in released
    BY <1>0, LastHit DEF Has, log
  <2> HIDE DEF cleaned, released
  <2>4. cleaned # {} /\ released # {} => Max(cleaned) < Max(released)
    BY <2>2, <2>3
  <2>5. cleaned = {} \/ released = {} => CleanupLockCoverage(log, success) = {}
    BY DEF CleanupLockCoverage, cleaned, released
  <2>6. ~(cleaned = {} \/ released = {}) =>
          CleanupLockCoverage(log, success) = Graded(Max(cleaned) < Max(released), success)
    BY DEF CleanupLockCoverage, cleaned, released
  <2> QED BY <2>4, <2>5, <2>6 DEF Graded
<1>c2. v \notin TaskFailureContext(log)
  BY DEF TaskFailureContext, Seen
<1> QED BY <1>a1, <1>a2, <1>a3, <1>a4, <1>a5, <1>a6, <1>a7, <1>a8, <1>a9, <1>b1, <1>b2, <1>b3, <1>b4,
           <1>b5, <1>b6, <1>b7, <1>b8, <1>b9, <1>c1, <1>c2, ChecksSplit DEF log

\* The diagnosis does not cry wolf (NoFalseAlarm).
THEOREM AlarmsAreTrue == Spec => []NoFalseAlarm
<1>1. Inv => NoFalseAlarm
  <2> SUFFICES ASSUME Inv, pc = "over", success, report.kept = items
               PROVE  /\ Diagnose(items, expects, success) = "fail"
                           => "fail" \in NoOcrAfterResult(items) \cup CaptchaReply(items, expects)
                      /\ mishaps = 0 => Diagnose(items, expects, success) = "pass"
    BY DEF NoFalseAlarm, Recorded
  <2>1. ASSUME Diagnose(items, expects, success) = "fail"
        PROVE  "fail" \in NoOcrAfterResult(items) \cup CaptchaReply(items, expects)
    <3>1. "fail" \in Checks(items, expects, success)
      BY <2>1 DEF Diagnose
    <3>2. "fail" \notin EventEngineStarted(items)
      BY SuccessLogged DEF EventEngineStarted, Started
    <3>3. "fail" \notin StrictImageChoice(items)
      BY NoOptionIsTrusted
    <3> QED BY <3>1, <3>2, <3>3, FailingChecks
  <2>2. ASSUME mishaps = 0 PROVE Diagnose(items, expects, success) = "pass"
    <3>1. /\ "fail" \notin Checks(items, expects, success)
          /\ "warn" \notin Checks(items, expects, success)
      BY <2>2, PlainPasses
    <3> QED BY <3>1 DEF Diagnose
  <2> QED BY <2>1, <2>2
<1> QED BY <1>1, ReportInvariant, PTL
=============================================================================
