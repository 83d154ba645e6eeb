---------------------------- MODULE SiemDelivery ----------------------------
(***************************************************************************)
(* framework/siem.py and the jobs of services/scheduler.py: an alert is     *)
(* handed to the thread pool of the process that detected it, POSTed with   *)
(* retries, and the outcome is recorded in siem_events; replay_failed        *)
(* dispatches the recorded failures again.                                  *)
(*                                                                         *)
(* The pool lives in memory, one per process.  The SIEM may answer or fail  *)
(* as it likes; faults of our own side (a crash, a database error, a reply   *)
(* lost after the SIEM took the alert, unreadable settings, a pool that      *)
(* refuses work) share the budget MaxFaults.                                *)
(***************************************************************************)
EXTENDS Naturals, Sequences, SequencesExt, FiniteSets

CONSTANTS
  Alerts,       \* alerts the ingest transaction exports
  Procs,        \* processes with a pool: API workers and the watcher's
  Api,          \* the process that serves POST /v1/siem-events/replay
  Admins,       \* callers of that endpoint
  Scheduler,    \* the caller services/scheduler.py would be
  Workers,      \* SIEM_WORKERS
  SIEM_RETRIES,
  MaxReplays,   \* bound: replay calls in a behaviour
  MaxFaults     \* bound: faults in a behaviour

ASSUME SiemAssumption ==
  /\ Api \in Procs
  /\ Scheduler \notin Admins
  /\ Workers \in Nat \ {0} /\ SIEM_RETRIES \in Nat \ {0}
  /\ MaxReplays \in Nat /\ MaxFaults \in Nat

VARIABLES
  pool,         \* process -> alerts submitted to its executor, in order
  worker,       \* process -> thread -> the delivery it runs
  rows,         \* siem_events, in order of id
  replay,       \* caller -> its call of replay_failed
  received,     \* history: alert -> times the SIEM took it
  dispatched,   \* history: alert -> deliveries submitted
  refused,      \* history: alert -> submissions a pool refused
  lost,         \* history: alert -> deliveries that left no row
  replays,
  faults

vars == <<pool, worker, rows, replay, received, dispatched, refused, lost, replays, faults>>

\* Jobs start_scheduler adds; next_run_time=None adds a job paused, and nothing
\* resumes it.
NextRunTime == [phishing_campaign_job |-> "in 24 hours", siem_replay_job |-> "None"]

\* Whoever runs replay_failed.
Replayers == Admins \cup (IF NextRunTime.siem_replay_job = "None" THEN {} ELSE {Scheduler})

Delivery == [alert : Alerts, tries : 0..SIEM_RETRIES, status : {"new", "sent", "failed", "skipped"}]
Row      == [alert : Alerts, status : {"sent", "failed", "skipped", "replayed"}]

\* A thread or a caller that is idle holds the empty sequence, else one record.
Idle == <<>>

TypeOK ==
  /\ pool \in [Procs -> Seq(Alerts)]
  /\ worker \in [Procs -> [1..Workers -> {Idle} \cup {<<d>> : d \in Delivery}]]
  /\ rows \in Seq(Row)
  /\ \A c \in Replayers : replay[c] # Idle =>
       replay[c][1].marks \cup ToSet(replay[c][1].todo) \subseteq DOMAIN rows
  /\ received \in [Alerts -> Nat] /\ lost \in [Alerts -> Nat]
  /\ dispatched \in [Alerts -> Nat] /\ refused \in [Alerts -> Nat]
  /\ replays \in 0..MaxReplays /\ faults \in 0..MaxFaults

Init ==
  /\ pool = [p \in Procs |-> <<>>]
  /\ worker = [p \in Procs |-> [w \in 1..Workers |-> Idle]]
  /\ rows = <<>>
  /\ replay = [c \in Replayers |-> Idle]
  /\ received = [a \in Alerts |-> 0]
  /\ dispatched = [a \in Alerts |-> 0]
  /\ refused = [a \in Alerts |-> 0]
  /\ lost = [a \in Alerts |-> 0]
  /\ replays = 0
  /\ faults = 0

Fault == faults < MaxFaults /\ faults' = faults + 1
NoFault == UNCHANGED faults

\* export_siem_event: the pool of the calling process takes the delivery ...
Submit(p, a) ==
  /\ pool' = [pool EXCEPT ![p] = Append(@, a)]
  /\ dispatched' = [dispatched EXCEPT ![a] = @ + 1]
  /\ UNCHANGED refused
  /\ NoFault

\* ... or executor.submit raises: the caller gets "failed" and there is no delivery.
Refuse(a) ==
  /\ UNCHANGED <<pool, dispatched>>
  /\ refused' = [refused EXCEPT ![a] = @ + 1]
  /\ Fault

Asked(a) == dispatched[a] + refused[a]

----------------------------------------------------------------------------
(* An alert is raised once, by the ingest of its email, which ignores the result. *)

Export(p, a) ==
  /\ Asked(a) = 0
  /\ Submit(p, a) \/ Refuse(a)
  /\ UNCHANGED <<worker, rows, replay, received, lost, replays>>

----------------------------------------------------------------------------
(* _deliver_with_retry in a thread of the pool. *)

Busy(p, w) == worker[p][w] # Idle
Job(p, w)  == worker[p][w][1]

\* The thread takes the oldest submission and reads the settings; without a
\* webhook, or with settings it cannot read, the outcome is "skipped".
Take(p, w) ==
  /\ ~Busy(p, w) /\ pool[p] # <<>>
  /\ pool' = [pool EXCEPT ![p] = Tail(@)]
  /\ \E s \in {"new", "skipped"} :
       /\ worker' = [worker EXCEPT ![p][w] = <<[alert |-> Head(pool[p]), tries |-> 0, status |-> s]>>]
       /\ s = "skipped" => Fault
       /\ s = "new" => NoFault
  /\ UNCHANGED <<rows, replay, received, dispatched, refused, lost, replays>>

\* Mutation: one attempt too many.
LateOutcome(n) == IF n > SIEM_RETRIES THEN "failed" ELSE "new"

\* Mutation: the loop ends and its last answer is not looked at.
CarelessOutcome(n) == IF n = SIEM_RETRIES THEN "sent" ELSE "new"

\* What the n-th refused attempt leaves.
OutcomeOfRefusal(n) == IF n = SIEM_RETRIES THEN "failed" ELSE "new"

\* Mutation: the count starts over instead of reaching its end.
RestartedAttempt(n) == (n + 1) % SIEM_RETRIES

NextAttempt(n) == n + 1

\* One POST: acknowledged, refused, or taken by the SIEM without a reply.
Post(p, w) ==
  /\ Busy(p, w) /\ Job(p, w).status = "new"
  /\ LET d == Job(p, w)
         after(s) == worker' = [worker EXCEPT ![p][w] =
                                  <<[alert |-> d.alert, tries |-> NextAttempt(d.tries), status |-> s]>>]
         taken == received' = [received EXCEPT ![d.alert] = @ + 1]
     IN \/ after("sent") /\ taken /\ NoFault
        \/ after(OutcomeOfRefusal(NextAttempt(d.tries))) /\ UNCHANGED received /\ NoFault
        \/ after(OutcomeOfRefusal(NextAttempt(d.tries))) /\ taken /\ Fault
  /\ UNCHANGED <<pool, rows, replay, dispatched, refused, lost, replays>>

\* Mutation: a delivery that was not attempted leaves no row.
RowsIfAttempted(d) ==
  IF d.status = "skipped" THEN rows ELSE Append(rows, [alert |-> d.alert, status |-> d.status])

RowsWith(d) == Append(rows, [alert |-> d.alert, status |-> d.status])

\* The outcome becomes a row; a database error is logged and swallowed.
Record(p, w) ==
  /\ Busy(p, w) /\ Job(p, w).status # "new"
  /\ \/ rows' = RowsWith(Job(p, w)) /\ UNCHANGED lost /\ NoFault
     \/ UNCHANGED rows /\ lost' = [lost EXCEPT ![Job(p, w).alert] = @ + 1] /\ Fault
  /\ worker' = [worker EXCEPT ![p][w] = Idle]
  /\ UNCHANGED <<pool, replay, received, dispatched, refused, replays>>

----------------------------------------------------------------------------
(* replay_failed *)

RowsOf(a, Stats) == {i \in DOMAIN rows : rows[i].alert = a /\ rows[i].status \in Stats}

\* Mutation: everything that did not get through is replayed.
UnsentRows == {i \in DOMAIN rows : rows[i].status \in {"failed", "skipped"}}

FailedRows == {i \in DOMAIN rows : rows[i].status = "failed"}

\* The newest n of the given row ids, newest first.
NewestFirst(ids, n) ==
  {s \in [1..n -> ids] : /\ \A i, j \in 1..n : i < j => s[i] > s[j]
                         /\ \A id \in ids : id \in ToSet(s) \/ \A i \in 1..n : id < s[i]}

\* The newest `limit` failed rows, newest first; nothing locks them.
StartReplay(c) ==
  /\ replay[c] = Idle /\ replays < MaxReplays
  /\ FailedRows # {}
  /\ \E limit \in 1..Cardinality(FailedRows) :
       \E todo \in NewestFirst(FailedRows, limit) :
         replay' = [replay EXCEPT ![c] = <<[todo |-> todo, submitted |-> FALSE, marks |-> {}]>>]
  /\ replays' = replays + 1
  /\ UNCHANGED <<pool, worker, rows, received, dispatched, refused, lost, faults>>

Running(c) == replay[c] # Idle

\* export_siem_event for the next row, whatever it returns ...
Resend(c) ==
  /\ Running(c) /\ replay[c][1].todo # <<>> /\ ~replay[c][1].submitted
  /\ LET a == rows[Head(replay[c][1].todo)].alert IN Submit(Api, a) \/ Refuse(a)
  /\ replay' = [replay EXCEPT ![c] = <<[@[1] EXCEPT !.submitted = TRUE]>>]
  /\ UNCHANGED <<worker, rows, received, lost, replays>>

\* ... then its UPDATE, which waits for another caller's uncommitted one.
Mark(c) ==
  /\ Running(c) /\ replay[c][1].submitted
  /\ LET id == Head(replay[c][1].todo)
     IN /\ \A o \in Replayers \ {c} : Running(o) => id \notin replay[o][1].marks
        /\ replay' = [replay EXCEPT ![c] = <<[todo |-> Tail(@[1].todo), submitted |-> FALSE,
                                              marks |-> @[1].marks \cup {id}]>>]
  /\ UNCHANGED <<pool, worker, rows, received, dispatched, refused, lost, replays, faults>>

\* Mutation: one UPDATE after the loop marks whatever has failed by then.
AllFailedMarks(c) == FailedRows

Marks(c) == replay[c][1].marks

\* COMMIT; its failure is swallowed and the rows stay as they were.
FinishReplay(c) ==
  /\ Running(c) /\ replay[c][1].todo = <<>>
  /\ \/ /\ rows' = [i \in DOMAIN rows |->
                     IF i \in Marks(c) THEN [rows[i] EXCEPT !.status = "replayed"] ELSE rows[i]]
        /\ NoFault
     \/ UNCHANGED rows /\ Fault
  /\ replay' = [replay EXCEPT ![c] = Idle]
  /\ UNCHANGED <<pool, worker, received, dispatched, refused, lost, replays>>

\* An UPDATE raises: the call ends and its transaction is rolled back.
ReplayError(c) ==
  /\ Running(c) /\ replay[c][1].submitted
  /\ Fault
  /\ replay' = [replay EXCEPT ![c] = Idle]
  /\ UNCHANGED <<pool, worker, rows, received, dispatched, refused, lost, replays>>

----------------------------------------------------------------------------
\* The deliveries of an alert a process has: places in its queue and threads.
Queued(p, a) == {<<p, "pool", i>> : i \in {j \in DOMAIN pool[p] : pool[p][j] = a}}
Held(p, a)   == {<<p, "thread", w>> : w \in {v \in 1..Workers : Busy(p, v) /\ Job(p, v).alert = a}}

InFlight(p, a) == Cardinality(Queued(p, a) \cup Held(p, a))

\* A process is killed: its pool, its threads and, in the API, the replay calls.
Crash(p) ==
  /\ Fault
  /\ pool' = [pool EXCEPT ![p] = <<>>]
  /\ worker' = [worker EXCEPT ![p] = [w \in 1..Workers |-> Idle]]
  /\ lost' = [a \in Alerts |-> lost[a] + InFlight(p, a)]
  /\ replay' = IF p = Api THEN [c \in Replayers |-> Idle] ELSE replay
  /\ UNCHANGED <<rows, received, dispatched, refused, replays>>

\* Every alert was raised and nothing is in flight.
Quiet ==
  /\ \A a \in Alerts : Asked(a) > 0 /\ \A p \in Procs : InFlight(p, a) = 0
  /\ \A c \in Replayers : ~Running(c)
  /\ UNCHANGED vars

Thread(p, w)  == Take(p, w) \/ Post(p, w) \/ Record(p, w)
Replaying(c)  == Resend(c) \/ Mark(c) \/ FinishReplay(c)

Next ==
  \/ \E p \in Procs : \/ \E a \in Alerts : Export(p, a)
                      \/ \E w \in 1..Workers : Thread(p, w)
                      \/ Crash(p)
  \/ \E c \in Replayers : StartReplay(c) \/ Replaying(c) \/ ReplayError(c)
  \/ Quiet

Spec == Init /\ [][Next]_vars

\* Threads and requests in progress go on, and so would the scheduler's job;
\* nobody makes an administrator call the endpoint.
FairSpec ==
  /\ Spec
  /\ \A p \in Procs, w \in 1..Workers : WF_vars(Thread(p, w))
  /\ \A c \in Replayers : WF_vars(Replaying(c))
  /\ \A c \in Replayers \cap {Scheduler} : WF_vars(StartReplay(c))

----------------------------------------------------------------------------
(* Properties. *)

AllInFlight(a) == UNION {Queued(p, a) \cup Held(p, a) : p \in Procs}

\* Every delivery that was submitted is in flight, recorded as one row, or was
\* lost to a crash or a database error: none is dropped or recorded twice,
\* however threads, replays and crashes interleave (siem.py:113-140, 163-169).
DeliveriesAddUp ==
  \A a \in Alerts :
    dispatched[a] = Cardinality(RowsOf(a, {"sent", "failed", "skipped", "replayed"}))
                    + lost[a] + Cardinality(AllInFlight(a))

\* The panel does not say "sent" of an alert the SIEM did not take that often,
\* retries and replays included (siem.py:93-99, 119-137).
SentMeansReceived ==
  \A a \in Alerts : Cardinality(RowsOf(a, {"sent"})) <= received[a]

\* A row is marked "replayed" only if the pool was asked for a further delivery
\* of its alert, one for each such row, also when rows fail while a replay runs
\* or two replays overlap (siem.py:163-170).
ReplayedIsAskedFor ==
  \A a \in Alerts : RowsOf(a, {"replayed"}) # {} =>
    Cardinality(RowsOf(a, {"replayed"})) < Asked(a)

\* Rows are final: the only change is that a failed one becomes "replayed"; in
\* particular what was skipped or sent is not sent again (siem.py:153-157, 170).
RowsAreFinal ==
  [][\A i \in DOMAIN rows :
       i \in DOMAIN rows' /\ (rows'[i] # rows[i] =>
         rows[i].status = "failed" /\ rows'[i] = [rows[i] EXCEPT !.status = "replayed"])]_vars

\* A SIEM that is down does not hold the pool for ever: every submitted
\* delivery ends (siem.py:120-126).
PoolsDrain == \A p \in Procs, a \in Alerts : InFlight(p, a) > 0 ~> InFlight(p, a) = 0

\* siem.py:147-149: replayed rows are marked so a second call does not send
\* them twice.  Each failed row gives rise to at most one further delivery.
SecondCallSendsNothing ==
  \A a \in Alerts : dispatched[a] <= 1 + Cardinality(RowsOf(a, {"failed", "replayed"}))

\* scheduler.py:23-25: alerts that failed to reach the SIEM are re-sent, so no
\* alert is silently lost.
FailedIsResent ==
  \A i \in 1..(Cardinality(Alerts) + MaxReplays) :
    (i \in DOMAIN rows /\ rows[i].status = "failed") ~> (i \in DOMAIN rows /\ rows[i].status = "replayed")

=============================================================================
