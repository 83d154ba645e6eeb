----------------------------- MODULE SiemProofs -----------------------------
(***************************************************************************)
(* Proofs about SiemDelivery: for any number of alerts, processes, threads, *)
(* callers, replays and faults, deliveries add up, rows are final, what is  *)
(* recorded as sent was received, and for what is recorded as replayed a     *)
(* pool was asked for a further delivery.                                   *)
(***************************************************************************)
EXTENDS SiemDelivery, CountingLemmas

----------------------------------------------------------------------------
(* The inductive invariant. *)

\* A delivery that is still to be attempted has an attempt left.
JobsAreSound ==
  \A p \in Procs, w \in 1..Workers :
    Busy(p, w) /\ Job(p, w).status = "new" => Job(p, w).tries < SIEM_RETRIES

\* The rows that failed, replayed or not.
Chosen == {i \in DOMAIN rows : rows[i].status \in {"failed", "replayed"}}

\* A call of replay_failed only ever has to do with rows that failed, and has
\* submitted only the next of the rows it still has to mark.
Call == [todo : Seq(Nat), submitted : BOOLEAN, marks : SUBSET Nat]
Todo(c) == replay[c][1].todo
Submitted(c) == replay[c][1].submitted

CallsAreTyped == replay \in [Replayers -> {Idle} \cup {<<k>> : k \in Call}]
CallIsSound(c) ==
  /\ Marks(c) \subseteq Chosen
  /\ \A i \in DOMAIN Todo(c) : Todo(c)[i] \in Chosen
  /\ Submitted(c) => Todo(c) # <<>>
CallsAreSound == \A c \in Replayers : Running(c) => CallIsSound(c)

\* Every delivery is in one place; those places are finitely many.
DeliveriesAreFinite == \A a \in Alerts : IsFiniteSet(AllInFlight(a))

\* The threads that have to record that the SIEM took an alert.
SentJobs(a) == {t \in Procs \X (1..Workers) :
                  Busy(t[1], t[2]) /\ Job(t[1], t[2]).alert = a /\ Job(t[1], t[2]).status = "sent"}

\* Each "sent", recorded or about to be, is a delivery of its own that the SIEM took.
SentIsAccountedFor ==
  \A a \in Alerts : /\ IsFiniteSet(SentJobs(a))
                    /\ Cardinality(RowsOf(a, {"sent"})) + Cardinality(SentJobs(a)) <= received[a]

\* The rows of an alert that are, or are about to be, marked as replayed, and
\* the calls that asked for a delivery whose row they have not marked yet.
Marked(a)  == {i \in DOMAIN rows : /\ rows[i].alert = a
                                   /\ \/ rows[i].status = "replayed"
                                      \/ \E c \in Replayers : Running(c) /\ i \in Marks(c)}
Pending(a) == {c \in Replayers : Running(c) /\ Submitted(c) /\ rows[Head(Todo(c))].alert = a}

\* Besides the one that raised the alert there was a submission for each of them.
ReplaysAreAccountedFor ==
  \A a \in Alerts : /\ IsFiniteSet(Pending(a))
                    /\ Asked(a) > 0 =>
                         1 + Cardinality(Marked(a)) + Cardinality(Pending(a)) <= Asked(a)

SiemInvariant ==
  /\ TypeOK /\ JobsAreSound /\ CallsAreTyped /\ CallsAreSound
  /\ DeliveriesAreFinite /\ DeliveriesAddUp
  /\ SentIsAccountedFor /\ ReplaysAreAccountedFor

----------------------------------------------------------------------------
(* Jobs, rows and calls: how a step sees them. *)

\* The budget of faults is kept.
LEMMA FaultType == ASSUME TypeOK, Fault \/ NoFault PROVE faults' \in 0..MaxFaults
BY SiemAssumption DEF TypeOK, Fault, NoFault

\* Asking a pool for a delivery is counted, whether it is taken or refused.
LEMMA AskedStep ==
  ASSUME TypeOK, NEW p \in Procs, NEW b \in Alerts, Submit(p, b) \/ Refuse(b)
  PROVE  /\ \A a \in Alerts : /\ Asked(a) \in Nat
                             /\ Asked(a)' = Asked(a) + (IF a = b THEN 1 ELSE 0)
         /\ dispatched' \in [Alerts -> Nat] /\ refused' \in [Alerts -> Nat]
         /\ faults' \in 0..MaxFaults
<1>1. dispatched \in [Alerts -> Nat] /\ refused \in [Alerts -> Nat]
  BY DEF TypeOK
<1>2. faults' \in 0..MaxFaults
  BY FaultType DEF Submit, Refuse
<1>3. CASE Submit(p, b)
  <2>1. dispatched' = [dispatched EXCEPT ![b] = @ + 1] /\ refused' = refused
    BY <1>3 DEF Submit
  <2> QED
    BY <1>1, <1>2, <2>1 DEF Asked
<1>4. CASE Refuse(b)
  <2>1. dispatched' = dispatched /\ refused' = [refused EXCEPT ![b] = @ + 1]
    BY <1>4 DEF Refuse
  <2> QED
    BY <1>1, <1>2, <2>1 DEF Asked
<1> QED
  BY <1>3, <1>4

\* A busy thread runs one delivery, an idle one none.
LEMMA JobType ==
  ASSUME TypeOK, NEW p \in Procs, NEW w \in 1..Workers, Busy(p, w)
  PROVE  Job(p, w) \in Delivery /\ worker[p][w] = <<Job(p, w)>>
<1>1. worker[p][w] \in {Idle} \cup {<<d>> : d \in Delivery}
  BY DEF TypeOK
<1>2. PICK d \in Delivery : worker[p][w] = <<d>>
  BY <1>1 DEF Busy
<1> QED
  BY <1>2 DEF Job

\* A running call has rows to do and rows to mark.
LEMMA CallType ==
  ASSUME CallsAreTyped, NEW c \in Replayers, Running(c)
  PROVE  /\ replay[c] = <<replay[c][1]>> /\ replay[c][1] \in Call
         /\ Todo(c) \in Seq(Nat) /\ Submitted(c) \in BOOLEAN /\ Marks(c) \in SUBSET Nat
<1>1. PICK k \in Call : replay[c] = <<k>>
  BY DEF CallsAreTyped, Running
<1>2. replay[c][1] = k
  BY <1>1
<1> QED
  BY <1>1, <1>2 DEF Call, Todo, Submitted, Marks

\* The thread that changed is idle, or runs the delivery d.
LEMMA ThreadStep ==
  ASSUME TypeOK, NEW p \in Procs, NEW w \in 1..Workers, NEW d,
         worker' = [worker EXCEPT ![p][w] = <<d>>]
  PROVE  /\ Busy(p, w)' /\ Job(p, w)' = d
         /\ \A q \in Procs, v \in 1..Workers : <<q, v>> # <<p, w>> =>
              (Busy(q, v)' <=> Busy(q, v)) /\ Job(q, v)' = Job(q, v)
<1>1. /\ worker'[p][w] = <<d>>
      /\ \A q \in Procs, v \in 1..Workers : <<q, v>> # <<p, w>> => worker'[q][v] = worker[q][v]
  BY DEF TypeOK
<1>2. <<d>> # Idle /\ <<d>>[1] = d
  BY DEF Idle
<1> QED
  BY <1>1, <1>2 DEF Busy, Job

\* A thread that ends its delivery leaves the others alone.
LEMMA ThreadIdle ==
  ASSUME TypeOK, NEW p \in Procs, NEW w \in 1..Workers,
         worker' = [worker EXCEPT ![p][w] = Idle]
  PROVE  /\ ~Busy(p, w)'
         /\ \A q \in Procs, v \in 1..Workers : <<q, v>> # <<p, w>> =>
              (Busy(q, v)' <=> Busy(q, v)) /\ Job(q, v)' = Job(q, v)
<1>1. /\ worker'[p][w] = Idle
      /\ \A q \in Procs, v \in 1..Workers : <<q, v>> # <<p, w>> => worker'[q][v] = worker[q][v]
  BY DEF TypeOK
<1> QED
  BY <1>1 DEF Busy, Job

\* What the calls are after a step that changes one call.
LEMMA CallStep ==
  ASSUME CallsAreTyped, NEW c \in Replayers, NEW k, replay' = [replay EXCEPT ![c] = <<k>>]
  PROVE  /\ Running(c)' /\ Todo(c)' = k.todo /\ Submitted(c)' = k.submitted /\ Marks(c)' = k.marks
         /\ \A o \in Replayers \ {c} : /\ Running(o)' <=> Running(o)
                                       /\ Todo(o)' = Todo(o) /\ Submitted(o)' = Submitted(o)
                                       /\ Marks(o)' = Marks(o)
<1>1. replay'[c] = <<k>> /\ \A o \in Replayers \ {c} : replay'[o] = replay[o]
  BY DEF CallsAreTyped
<1>2. <<k>> # Idle /\ <<k>>[1] = k
  BY DEF Idle
<1> QED
  BY <1>1, <1>2 DEF Running, Todo, Submitted, Marks

\* A call that ends leaves the others alone.
LEMMA CallEnds ==
  ASSUME CallsAreTyped, NEW c \in Replayers, replay' = [replay EXCEPT ![c] = Idle]
  PROVE  /\ ~Running(c)'
         /\ \A o \in Replayers \ {c} : /\ Running(o)' <=> Running(o)
                                       /\ Todo(o)' = Todo(o) /\ Submitted(o)' = Submitted(o)
                                       /\ Marks(o)' = Marks(o)
BY DEF CallsAreTyped, Running, Todo, Submitted, Marks

\* The next row of a sequence of rows, and those after it.
LEMMA NextRow ==
  ASSUME NEW s \in Seq(Nat), s # <<>>
  PROVE  /\ 1 \in DOMAIN s /\ Head(s) = s[1] /\ Head(s) \in Nat
         /\ Tail(s) \in Seq(Nat)
         /\ \A i \in DOMAIN Tail(s) : i + 1 \in DOMAIN s /\ Tail(s)[i] = s[i + 1]
<1>1. Len(s) \in Nat /\ Len(s) > 0 /\ DOMAIN s = 1..Len(s)
  BY LenProperties, EmptySeq
<1>2. /\ Tail(s) \in Seq(Nat) /\ Len(Tail(s)) = Len(s) - 1
      /\ DOMAIN Tail(s) = 1..(Len(s) - 1)
      /\ \A i \in 1..(Len(s) - 1) : Tail(s)[i] = s[i + 1]
  BY <1>1, HeadTailProperties, LenProperties
<1> QED
  BY <1>1, <1>2

\* The row a call deals with next is one of those that failed.
LEMMA HeadIsChosen ==
  ASSUME CallsAreTyped, CallsAreSound, NEW c \in Replayers, Running(c), Todo(c) # <<>>
  PROVE  Head(Todo(c)) \in Chosen
BY CallType, NextRow DEF CallsAreSound, CallIsSound

\* ... and its alert is one of the alerts.
LEMMA NextAlert ==
  ASSUME TypeOK, CallsAreTyped, CallsAreSound, NEW c \in Replayers, Running(c), Todo(c) # <<>>
  PROVE  Head(Todo(c)) \in DOMAIN rows /\ rows[Head(Todo(c))].alert \in Alerts
<1>1. Head(Todo(c)) \in DOMAIN rows
  BY HeadIsChosen DEF Chosen
<1>2. rows[Head(Todo(c))] \in Row
  BY <1>1 DEF TypeOK
<1> QED
  BY <1>1, <1>2 DEF Row

----------------------------------------------------------------------------
(* Rows are final. *)

RowIsFinal(i) ==
  /\ i \in DOMAIN rows'
  /\ \/ rows'[i] = rows[i]
     \/ rows[i].status = "failed" /\ rows'[i] = [rows[i] EXCEPT !.status = "replayed"]

\* A new row changes no other one.
LEMMA AppendRow ==
  ASSUME TypeOK, NEW r \in Row, rows' = Append(rows, r)
  PROVE  /\ rows' \in Seq(Row)
         /\ Len(rows) \in Nat /\ DOMAIN rows = 1..Len(rows) /\ DOMAIN rows' = 1..(Len(rows) + 1)
         /\ rows'[Len(rows) + 1] = r
         /\ \A i \in DOMAIN rows : i \in DOMAIN rows' /\ rows'[i] = rows[i]
BY LenProperties DEF TypeOK

\* A commit of replay_failed changes only rows that failed.
LEMMA CommitRows ==
  ASSUME TypeOK, CallsAreSound, NEW c \in Replayers, Running(c),
         rows' = [i \in DOMAIN rows |->
                    IF i \in Marks(c) THEN [rows[i] EXCEPT !.status = "replayed"] ELSE rows[i]]
  PROVE  /\ rows' \in Seq(Row) /\ DOMAIN rows' = DOMAIN rows
         /\ \A i \in DOMAIN rows : /\ RowIsFinal(i)
                                   /\ i \in Marks(c) => rows'[i].status = "replayed"
                                   /\ i \notin Marks(c) => rows'[i] = rows[i]
<1>1. rows \in Seq(Row) /\ Len(rows) \in Nat /\ DOMAIN rows = 1..Len(rows)
  BY LenProperties DEF TypeOK
<1>2. ASSUME NEW i \in DOMAIN rows PROVE rows[i] \in Row
  BY <1>1, <1>2
<1>3. ASSUME NEW i \in DOMAIN rows
      PROVE  /\ rows'[i] \in Row
             /\ RowIsFinal(i)
             /\ i \in Marks(c) => rows'[i].status = "replayed"
             /\ i \notin Marks(c) => rows'[i] = rows[i]
  <2>1. CASE i \notin Marks(c)
    BY <1>2, <2>1 DEF RowIsFinal
  <2>2. CASE i \in Marks(c)
    <3>1. rows'[i] = [rows[i] EXCEPT !.status = "replayed"] /\ i \in DOMAIN rows'
      BY <2>2
    <3>2. rows[i] \in Row /\ rows[i].status \in {"failed", "replayed"}
      BY <1>2, <2>2 DEF CallsAreSound, CallIsSound, Chosen
    <3>3. rows'[i] \in Row /\ rows'[i].status = "replayed"
      BY <3>1, <3>2 DEF Row
    <3>4. rows[i].status = "replayed" => rows'[i] = rows[i]
      BY <3>1, <3>2 DEF Row
    <3> QED
      BY <2>2, <3>1, <3>2, <3>3, <3>4 DEF RowIsFinal
  <2> QED
    BY <2>1, <2>2
<1>4. rows' \in [1..Len(rows) -> Row]
  BY <1>1, <1>3
<1>5. rows' \in Seq(Row)
  BY <1>1, <1>4, SeqDef
<1> QED
  BY <1>3, <1>5

\* Every step leaves the rows there are as they are, or marks a failed one.
LEMMA RowsStep ==
  ASSUME TypeOK, CallsAreSound, [Next]_vars
  PROVE  rows' \in Seq(Row) /\ \A i \in DOMAIN rows : RowIsFinal(i)
<1>1. ASSUME rows' = rows PROVE rows' \in Seq(Row) /\ \A i \in DOMAIN rows : RowIsFinal(i)
  BY <1>1 DEF TypeOK, RowIsFinal
<1>2. ASSUME NEW p \in Procs, NEW w \in 1..Workers, Record(p, w)
      PROVE  rows' \in Seq(Row) /\ \A i \in DOMAIN rows : RowIsFinal(i)
  <2>1. Job(p, w) \in Delivery /\ Job(p, w).status # "new"
    BY <1>2, JobType DEF Record
  <2>2. [alert |-> Job(p, w).alert, status |-> Job(p, w).status] \in Row
    BY <2>1 DEF Delivery, Row
  <2>3. rows' = rows \/ rows' = Append(rows, [alert |-> Job(p, w).alert, status |-> Job(p, w).status])
    BY <1>2 DEF Record, RowsWith
  <2> QED
    BY <1>1, <2>2, <2>3, AppendRow DEF RowIsFinal
<1>3. ASSUME NEW c \in Replayers, FinishReplay(c)
      PROVE  rows' \in Seq(Row) /\ \A i \in DOMAIN rows : RowIsFinal(i)
  <2>1. Running(c)
    BY <1>3 DEF FinishReplay
  <2> QED
    BY <1>1, <1>3, <2>1, CommitRows DEF FinishReplay
<1>4. ASSUME NEW p \in Procs, NEW a \in Alerts, Export(p, a) PROVE rows' = rows
  BY <1>4 DEF Export
<1>5. ASSUME NEW p \in Procs, NEW w \in 1..Workers, Take(p, w) \/ Post(p, w) PROVE rows' = rows
  BY <1>5 DEF Take, Post
<1>6. ASSUME NEW p \in Procs, Crash(p) PROVE rows' = rows
  BY <1>6 DEF Crash
<1>7. ASSUME NEW c \in Replayers, StartReplay(c) \/ Resend(c) \/ Mark(c) \/ ReplayError(c)
      PROVE  rows' = rows
  BY <1>7 DEF StartReplay, Resend, Mark, ReplayError
<1>8. CASE UNCHANGED vars
  BY <1>1, <1>8 DEF vars
<1> QED
  BY <1>1, <1>2, <1>3, <1>4, <1>5, <1>6, <1>7, <1>8 DEF Next, Thread, Replaying, Quiet

\* A row that failed remains one, and no row changes its alert.
LEMMA ChosenStep ==
  ASSUME TypeOK, CallsAreSound, [Next]_vars
  PROVE  /\ Chosen \subseteq Chosen'
         /\ \A i \in DOMAIN rows : i \in DOMAIN rows' /\ rows'[i].alert = rows[i].alert
<1>1. ASSUME NEW i \in DOMAIN rows
      PROVE  /\ i \in DOMAIN rows' /\ rows'[i].alert = rows[i].alert
             /\ i \in Chosen => i \in Chosen'
  <2>1. RowIsFinal(i)
    BY RowsStep
  <2>2. rows[i] \in Row
    BY LenProperties DEF TypeOK
  <2> QED
    BY <2>1, <2>2 DEF RowIsFinal, Chosen, Row
<1> QED
  BY <1>1 DEF Chosen


----------------------------------------------------------------------------
(* Deliveries in flight, by process. *)

\* The threads of p that run a delivery of a.
Holders(p, a) == {w \in 1..Workers : Busy(p, w) /\ Job(p, w).alert = a}

\* Tagging the elements of a set does not change how many there are.
Tagged(p, t, S) == {<<p, t, i>> : i \in S}

\* Tagged places are as many as the places.
LEMMA TaggedCount ==
  ASSUME NEW p, NEW t, NEW S, IsFiniteSet(S)
  PROVE  IsFiniteSet(Tagged(p, t, S)) /\ Cardinality(Tagged(p, t, S)) = Cardinality(S)
<1> DEFINE f == [i \in S |-> <<p, t, i>>]
<1>1. f \in [S -> Tagged(p, t, S)] /\ \A i, j \in S : f[i] = f[j] => i = j
  BY DEF Tagged
<1>2. \A y \in Tagged(p, t, S) : \E i \in S : f[i] = y
  BY DEF Tagged
<1>3. f \in Bijection(S, Tagged(p, t, S))
  BY <1>1, <1>2 DEF Bijection, Injection, Surjection, IsInjective
<1>4. ExistsBijection(S, Tagged(p, t, S))
  BY <1>3 DEF ExistsBijection
<1> QED
  BY <1>4, FS_Bijection

\* What a process has in flight is what its queue and its threads hold.
LEMMA InFlightCount ==
  ASSUME TypeOK, NEW p \in Procs, NEW a
  PROVE  /\ IsFiniteSet(Queued(p, a) \cup Held(p, a))
         /\ IsFiniteSet(Holders(p, a))
         /\ Cardinality(Positions(pool[p], a)) \in Nat
         /\ Cardinality(Holders(p, a)) \in Nat
         /\ InFlight(p, a) = Cardinality(Positions(pool[p], a)) + Cardinality(Holders(p, a))
<1>1. pool[p] \in Seq(Alerts)
  BY DEF TypeOK
<1>2. IsFiniteSet(Positions(pool[p], a)) /\ Cardinality(Positions(pool[p], a)) \in Nat
  BY <1>1, PositionsFinite
<1>3. IsFiniteSet(1..Workers)
  BY SiemAssumption, FS_Interval
<1>4. Holders(p, a) \in SUBSET (1..Workers)
  BY DEF Holders
<1>5. IsFiniteSet(Holders(p, a)) /\ Cardinality(Holders(p, a)) \in Nat
  BY <1>3, <1>4, FS_Subset, FS_CardinalityType
<1>6. Queued(p, a) = Tagged(p, "pool", Positions(pool[p], a))
  BY DEF Tagged, Queued, Positions
<1>7. Held(p, a) = Tagged(p, "thread", Holders(p, a))
  BY DEF Tagged, Held, Holders
<1>8. /\ IsFiniteSet(Queued(p, a)) /\ Cardinality(Queued(p, a)) = Cardinality(Positions(pool[p], a))
      /\ IsFiniteSet(Held(p, a)) /\ Cardinality(Held(p, a)) = Cardinality(Holders(p, a))
  BY <1>2, <1>5, <1>6, <1>7, TaggedCount
<1>9. Queued(p, a) \cap Held(p, a) = {}
  BY <1>6, <1>7 DEF Tagged
<1>10. /\ IsFiniteSet(Queued(p, a) \cup Held(p, a))
       /\ Cardinality(Queued(p, a) \cup Held(p, a)) = Cardinality(Queued(p, a)) + Cardinality(Held(p, a))
  BY <1>8, <1>9, CountDisjoint
<1> QED
  BY <1>2, <1>5, <1>8, <1>10 DEF InFlight

\* The same after a step.
FlightIsCounted ==
  \A p \in Procs, a \in Alerts :
    /\ IsFiniteSet(Queued(p, a) \cup Held(p, a))
    /\ IsFiniteSet(Holders(p, a))
    /\ Cardinality(Positions(pool[p], a)) \in Nat
    /\ Cardinality(Holders(p, a)) \in Nat
    /\ InFlight(p, a) = Cardinality(Positions(pool[p], a)) + Cardinality(Holders(p, a))

\* What a process has in flight is its queue and its busy threads.
LEMMA FlightCounted == TypeOK => FlightIsCounted
BY InFlightCount DEF FlightIsCounted

\* The same of the next state.
LEMMA FlightCountedNext == TypeOK' => FlightIsCounted'
BY FlightCounted, PTL

----------------------------------------------------------------------------
(* Types. *)

\* The newest rows chosen for a replay are a sequence of rows that failed.
LEMMA NewestType ==
  ASSUME TypeOK, NEW n \in 1..Cardinality(FailedRows), NEW s \in NewestFirst(FailedRows, n)
  PROVE  s \in Seq(Nat) /\ \A i \in DOMAIN s : s[i] \in Chosen
<1>1. rows \in Seq(Row) /\ Len(rows) \in Nat /\ DOMAIN rows = 1..Len(rows)
  BY LenProperties DEF TypeOK
<1>2. FailedRows \in SUBSET (1..Len(rows)) /\ IsFiniteSet(1..Len(rows))
  BY <1>1, FS_Interval DEF FailedRows
<1>3. Cardinality(FailedRows) \in Nat
  BY <1>2, FS_Subset, FS_CardinalityType
<1>4. n \in Nat
  BY <1>3
<1>5. s \in [1..n -> FailedRows]
  BY DEF NewestFirst
<1>6. s \in [1..n -> Nat]
  <2>1. \A i \in FailedRows : i \in Nat
    BY <1>1, <1>2
  <2> QED
    BY <1>5, <2>1
<1>7. s \in Seq(Nat)
  BY <1>4, <1>6, SeqDef
<1>8. \A i \in DOMAIN s : s[i] \in FailedRows
  BY <1>5
<1>9. FailedRows \subseteq Chosen
  BY DEF FailedRows, Chosen
<1> QED
  BY <1>7, <1>8, <1>9

\* A call of which a step changes nothing stays sound.
LEMMA CallKept ==
  ASSUME Chosen \subseteq Chosen', NEW c, CallIsSound(c),
         Marks(c)' = Marks(c), Todo(c)' = Todo(c), Submitted(c)' = Submitted(c)
  PROVE  CallIsSound(c)'
BY DEF CallIsSound

\* Every step keeps the calls sound, also when a commit replaces rows under a
\* call of another administrator.
LEMMA CallsStep ==
  ASSUME TypeOK, CallsAreTyped, CallsAreSound, [Next]_vars
  PROVE  CallsAreTyped' /\ CallsAreSound'
<1>1. Chosen \subseteq Chosen'
  BY ChosenStep
<1>2. ASSUME replay' = replay PROVE CallsAreTyped' /\ CallsAreSound'
  <2>1. CallsAreTyped'
    BY <1>2 DEF CallsAreTyped
  <2>2. ASSUME NEW c \in Replayers PROVE Running(c)' => CallIsSound(c)'
    <3>1. /\ Running(c)' <=> Running(c)
          /\ Marks(c)' = Marks(c) /\ Todo(c)' = Todo(c) /\ Submitted(c)' = Submitted(c)
      BY <1>2 DEF Running, Marks, Todo, Submitted
    <3> QED
      BY <1>1, <3>1, CallKept DEF CallsAreSound
  <2> QED
    BY <2>1, <2>2 DEF CallsAreSound
<1>3. ASSUME NEW c \in Replayers, NEW k \in Call, replay' = [replay EXCEPT ![c] = <<k>>],
             k.marks \subseteq Chosen, \A i \in DOMAIN k.todo : k.todo[i] \in Chosen,
             k.submitted => k.todo # <<>>
      PROVE  CallsAreTyped' /\ CallsAreSound'
  <2>1. CallsAreTyped'
    BY <1>3 DEF CallsAreTyped
  <2>2. ASSUME NEW o \in Replayers PROVE Running(o)' => CallIsSound(o)'
    <3>1. CASE o = c
      <4>1. Todo(o)' = k.todo /\ Submitted(o)' = k.submitted /\ Marks(o)' = k.marks
        BY <1>3, <3>1, CallStep
      <4> QED
        BY <1>1, <1>3, <4>1 DEF CallIsSound
    <3>2. CASE o # c
      <4>1. /\ Running(o)' <=> Running(o)
            /\ Marks(o)' = Marks(o) /\ Todo(o)' = Todo(o) /\ Submitted(o)' = Submitted(o)
        BY <1>3, <3>2, CallStep
      <4> QED
        BY <1>1, <4>1, CallKept DEF CallsAreSound
    <3> QED
      BY <3>1, <3>2
  <2> QED
    BY <2>1, <2>2 DEF CallsAreSound
<1>4. ASSUME NEW c \in Replayers, replay' = [replay EXCEPT ![c] = Idle]
      PROVE  CallsAreTyped' /\ CallsAreSound'
  <2>1. CallsAreTyped'
    BY <1>4 DEF CallsAreTyped
  <2>2. ASSUME NEW o \in Replayers PROVE Running(o)' => CallIsSound(o)'
    <3>1. CASE o = c
      BY <1>4, <3>1, CallEnds
    <3>2. CASE o # c
      <4>1. /\ Running(o)' <=> Running(o)
            /\ Marks(o)' = Marks(o) /\ Todo(o)' = Todo(o) /\ Submitted(o)' = Submitted(o)
        BY <1>4, <3>2, CallEnds
      <4> QED
        BY <1>1, <4>1, CallKept DEF CallsAreSound
    <3> QED
      BY <3>1, <3>2
  <2> QED
    BY <2>1, <2>2 DEF CallsAreSound
<1>5. ASSUME NEW c \in Replayers, StartReplay(c) PROVE CallsAreTyped' /\ CallsAreSound'
  <2>1. PICK n \in 1..Cardinality(FailedRows) : \E s \in NewestFirst(FailedRows, n) :
          replay' = [replay EXCEPT ![c] = <<[todo |-> s, submitted |-> FALSE, marks |-> {}]>>]
    BY <1>5 DEF StartReplay
  <2>2. PICK s \in NewestFirst(FailedRows, n) :
          replay' = [replay EXCEPT ![c] = <<[todo |-> s, submitted |-> FALSE, marks |-> {}]>>]
    BY <2>1
  <2>3. s \in Seq(Nat) /\ \A i \in DOMAIN s : s[i] \in Chosen
    BY NewestType
  <2>4. [todo |-> s, submitted |-> FALSE, marks |-> {}] \in Call
    BY <2>3 DEF Call
  <2> QED
    BY <1>3, <2>2, <2>3, <2>4
<1>6. ASSUME NEW c \in Replayers, Resend(c) PROVE CallsAreTyped' /\ CallsAreSound'
  <2> DEFINE k == [replay[c][1] EXCEPT !.submitted = TRUE]
  <2>1. Running(c) /\ Todo(c) # <<>> /\ replay' = [replay EXCEPT ![c] = <<k>>]
    BY <1>6 DEF Resend, Todo, CallsAreTyped
  <2>2. replay[c][1] \in Call /\ CallIsSound(c)
    BY <2>1, CallType DEF CallsAreSound
  <2>3. k \in Call /\ k.todo = Todo(c) /\ k.marks = Marks(c) /\ k.submitted = TRUE
    BY <2>2 DEF Call, Todo, Marks
  <2> HIDE DEF k
  <2> QED
    BY <1>3, <2>1, <2>2, <2>3 DEF CallIsSound
<1>7. ASSUME NEW c \in Replayers, Mark(c) PROVE CallsAreTyped' /\ CallsAreSound'
  <2> DEFINE k == [todo |-> Tail(Todo(c)), submitted |-> FALSE, marks |-> Marks(c) \cup {Head(Todo(c))}]
  <2>1. Running(c) /\ Submitted(c) /\ replay' = [replay EXCEPT ![c] = <<k>>]
    BY <1>7 DEF Mark, Todo, Marks, Submitted, CallsAreTyped
  <2>2. /\ Todo(c) \in Seq(Nat) /\ Marks(c) \in SUBSET Nat
        /\ CallIsSound(c) /\ Todo(c) # <<>>
    BY <2>1, CallType DEF CallsAreSound, CallIsSound
  <2>3. /\ Head(Todo(c)) \in Chosen /\ Head(Todo(c)) \in Nat
        /\ Tail(Todo(c)) \in Seq(Nat) /\ \A i \in DOMAIN Tail(Todo(c)) : Tail(Todo(c))[i] \in Chosen
    BY <2>2, NextRow DEF CallIsSound
  <2>4. k \in Call
    BY <2>2, <2>3 DEF Call
  <2>5. /\ k.marks \subseteq Chosen /\ \A i \in DOMAIN k.todo : k.todo[i] \in Chosen
        /\ k.submitted => k.todo # <<>>
    BY <2>2, <2>3 DEF CallIsSound
  <2> HIDE DEF k
  <2> QED
    BY <1>3, <2>1, <2>4, <2>5
<1>8. ASSUME NEW c \in Replayers, FinishReplay(c) \/ ReplayError(c)
      PROVE  CallsAreTyped' /\ CallsAreSound'
  BY <1>4, <1>8 DEF FinishReplay, ReplayError
<1>9. ASSUME NEW p \in Procs, Crash(p) PROVE CallsAreTyped' /\ CallsAreSound'
  <2>1. CASE replay' = replay
    BY <1>2, <2>1
  <2>2. CASE replay' = [c \in Replayers |-> Idle]
    BY <2>2 DEF CallsAreTyped, CallsAreSound, Running
  <2> QED
    BY <1>9, <2>1, <2>2 DEF Crash
<1>10. ASSUME NEW p \in Procs, NEW a \in Alerts, Export(p, a) PROVE replay' = replay
  BY <1>10 DEF Export
<1>11. ASSUME NEW p \in Procs, NEW w \in 1..Workers, Thread(p, w) PROVE replay' = replay
  BY <1>11 DEF Thread, Take, Post, Record
<1>12. CASE UNCHANGED vars
  BY <1>2, <1>12 DEF vars
<1> QED
  BY <1>2, <1>5, <1>6, <1>7, <1>8, <1>9, <1>10, <1>11, <1>12 DEF Next, Replaying, Quiet

\* Every step keeps the types of queues and threads; a delivery that is not
\* finished has an attempt left, so no delivery makes one too many.
LEMMA JobsStep ==
  ASSUME TypeOK, JobsAreSound, CallsAreTyped, CallsAreSound, [Next]_vars
  PROVE  /\ pool' \in [Procs -> Seq(Alerts)]
         /\ worker' \in [Procs -> [1..Workers -> {Idle} \cup {<<d>> : d \in Delivery}]]
         /\ JobsAreSound'
<1> DEFINE Goal == /\ pool' \in [Procs -> Seq(Alerts)]
                   /\ worker' \in [Procs -> [1..Workers -> {Idle} \cup {<<d>> : d \in Delivery}]]
                   /\ JobsAreSound'
<1>1. ASSUME NEW p \in Procs, NEW a \in Alerts, pool' = [pool EXCEPT ![p] = Append(@, a)]
      PROVE  pool' \in [Procs -> Seq(Alerts)]
  <2>1. Append(pool[p], a) \in Seq(Alerts)
    BY AppendProperties DEF TypeOK
  <2> QED
    BY <1>1, <2>1 DEF TypeOK
<1>2. ASSUME worker' = worker
      PROVE  /\ worker' \in [Procs -> [1..Workers -> {Idle} \cup {<<d>> : d \in Delivery}]]
             /\ JobsAreSound'
  BY <1>2 DEF TypeOK, JobsAreSound, Busy, Job
<1>3. ASSUME NEW p \in Procs, NEW w \in 1..Workers, NEW d \in Delivery,
             worker' = [worker EXCEPT ![p][w] = <<d>>],
             d.status = "new" => d.tries < SIEM_RETRIES
      PROVE  /\ worker' \in [Procs -> [1..Workers -> {Idle} \cup {<<e>> : e \in Delivery}]]
             /\ JobsAreSound'
  <2>1. <<d>> \in {Idle} \cup {<<e>> : e \in Delivery}
    OBVIOUS
  <2>2. worker' \in [Procs -> [1..Workers -> {Idle} \cup {<<e>> : e \in Delivery}]]
    BY <1>3, <2>1 DEF TypeOK
  <2>3. ASSUME NEW q \in Procs, NEW v \in 1..Workers, Busy(q, v)', (Job(q, v).status)' = "new"
        PROVE  (Job(q, v).tries)' < SIEM_RETRIES
    <3>1. CASE <<q, v>> = <<p, w>>
      <4>1. Job(q, v)' = d
        BY <1>3, <3>1, ThreadStep
      <4> QED
        BY <1>3, <2>3, <4>1
    <3>2. CASE <<q, v>> # <<p, w>>
      <4>1. (Busy(q, v)' <=> Busy(q, v)) /\ Job(q, v)' = Job(q, v)
        BY <1>3, <3>2, ThreadStep
      <4> QED
        BY <2>3, <4>1 DEF JobsAreSound
    <3> QED
      BY <3>1, <3>2
  <2> QED
    BY <2>2, <2>3 DEF JobsAreSound
<1>4. ASSUME NEW p \in Procs, NEW a \in Alerts, Export(p, a) PROVE Goal
  <2>1. worker' = worker
    BY <1>4 DEF Export
  <2>2. CASE Submit(p, a)
    BY <1>1, <1>2, <2>1, <2>2 DEF Submit
  <2>3. CASE Refuse(a)
    BY <1>2, <2>1, <2>3 DEF Refuse, TypeOK
  <2> QED
    BY <1>4, <2>2, <2>3 DEF Export
<1>5. ASSUME NEW p \in Procs, NEW w \in 1..Workers, Take(p, w) PROVE Goal
  <2>1. pool[p] \in Seq(Alerts) /\ pool[p] # <<>>
    BY <1>5 DEF TypeOK, Take
  <2>2. Head(pool[p]) \in Alerts /\ Tail(pool[p]) \in Seq(Alerts)
    BY <2>1, HeadTailProperties
  <2>3. pool' \in [Procs -> Seq(Alerts)]
    BY <1>5, <2>2 DEF TypeOK, Take
  <2>4. PICK s \in {"new", "skipped"} :
          worker' = [worker EXCEPT ![p][w] = <<[alert |-> Head(pool[p]), tries |-> 0, status |-> s]>>]
    BY <1>5 DEF Take
  <2>5. [alert |-> Head(pool[p]), tries |-> 0, status |-> s] \in Delivery
    BY <2>2, SiemAssumption DEF Delivery
  <2>6. 0 < SIEM_RETRIES
    BY SiemAssumption
  <2> QED
    BY <1>3, <2>3, <2>4, <2>5, <2>6
<1>6. ASSUME NEW p \in Procs, NEW w \in 1..Workers, Post(p, w) PROVE Goal
  <2>1. /\ Job(p, w) \in Delivery /\ Job(p, w).tries < SIEM_RETRIES
        /\ pool' \in [Procs -> Seq(Alerts)]
    BY <1>6, JobType DEF Post, JobsAreSound, TypeOK
  <2> DEFINE d(s) == [alert |-> Job(p, w).alert, tries |-> NextAttempt(Job(p, w).tries), status |-> s]
  <2>2. \/ worker' = [worker EXCEPT ![p][w] = <<d("sent")>>]
        \/ worker' = [worker EXCEPT ![p][w] = <<d(OutcomeOfRefusal(NextAttempt(Job(p, w).tries)))>>]
    BY <1>6 DEF Post
  <2>3. /\ NextAttempt(Job(p, w).tries) \in 0..SIEM_RETRIES
        /\ OutcomeOfRefusal(NextAttempt(Job(p, w).tries)) = "new" => NextAttempt(Job(p, w).tries) < SIEM_RETRIES
        /\ OutcomeOfRefusal(NextAttempt(Job(p, w).tries)) \in {"new", "failed"}
    BY <2>1, SiemAssumption DEF Delivery, NextAttempt, OutcomeOfRefusal
  <2>4. \A s \in {"new", "sent", "failed"} : d(s) \in Delivery
    BY <2>1, <2>3 DEF Delivery
  <2>5. CASE worker' = [worker EXCEPT ![p][w] = <<d("sent")>>]
    BY <1>3, <2>1, <2>4, <2>5
  <2>6. CASE worker' = [worker EXCEPT ![p][w] = <<d(OutcomeOfRefusal(NextAttempt(Job(p, w).tries)))>>]
    BY <1>3, <2>1, <2>3, <2>4, <2>6
  <2> QED
    BY <2>2, <2>5, <2>6
<1>7. ASSUME NEW p \in Procs, NEW w \in 1..Workers, Record(p, w) PROVE Goal
  <2>1. pool' = pool /\ worker' = [worker EXCEPT ![p][w] = Idle]
    BY <1>7 DEF Record
  <2>2. worker' \in [Procs -> [1..Workers -> {Idle} \cup {<<d>> : d \in Delivery}]]
    BY <2>1 DEF TypeOK
  <2>3. ASSUME NEW q \in Procs, NEW v \in 1..Workers, Busy(q, v)'
        PROVE  Busy(q, v) /\ Job(q, v)' = Job(q, v)
    BY <2>1, <2>3, ThreadIdle
  <2> QED
    BY <2>1, <2>2, <2>3 DEF TypeOK, JobsAreSound
<1>8. ASSUME NEW p \in Procs, Crash(p) PROVE Goal
  <2>1. /\ pool' = [pool EXCEPT ![p] = <<>>]
        /\ worker' = [worker EXCEPT ![p] = [w \in 1..Workers |-> Idle]]
    BY <1>8 DEF Crash
  <2>2. <<>> \in Seq(Alerts)
    BY EmptySeq
  <2>3. pool' \in [Procs -> Seq(Alerts)]
    BY <2>1, <2>2 DEF TypeOK
  <2>4. [w \in 1..Workers |-> Idle] \in [1..Workers -> {Idle} \cup {<<d>> : d \in Delivery}]
    OBVIOUS
  <2>5. worker' \in [Procs -> [1..Workers -> {Idle} \cup {<<d>> : d \in Delivery}]]
    BY <2>1, <2>4 DEF TypeOK
  <2>6. ASSUME NEW q \in Procs, NEW v \in 1..Workers, Busy(q, v)'
        PROVE  Busy(q, v) /\ Job(q, v)' = Job(q, v)
    BY <2>1, <2>6 DEF TypeOK, Busy, Job
  <2> QED
    BY <2>3, <2>5, <2>6 DEF JobsAreSound
<1>9. ASSUME NEW c \in Replayers, Resend(c) PROVE Goal
  <2>1. rows[Head(Todo(c))].alert \in Alerts
    BY <1>9, NextAlert DEF Resend, Todo
  <2>2. worker' = worker /\ (Submit(Api, rows[Head(Todo(c))].alert) \/ Refuse(rows[Head(Todo(c))].alert))
    BY <1>9 DEF Resend, Todo
  <2>3. CASE Submit(Api, rows[Head(Todo(c))].alert)
    BY <1>1, <1>2, <2>1, <2>2, <2>3, SiemAssumption DEF Submit
  <2>4. CASE Refuse(rows[Head(Todo(c))].alert)
    BY <1>2, <2>2, <2>4 DEF Refuse, TypeOK
  <2> QED
    BY <2>2, <2>3, <2>4
<1>10. ASSUME pool' = pool, worker' = worker PROVE Goal
  BY <1>2, <1>10 DEF TypeOK
<1>11. ASSUME NEW c \in Replayers, StartReplay(c) \/ Mark(c) \/ FinishReplay(c) \/ ReplayError(c) PROVE Goal
  BY <1>10, <1>11 DEF StartReplay, Mark, FinishReplay, ReplayError
<1>12. ASSUME UNCHANGED vars PROVE Goal
  BY <1>10, <1>12 DEF vars
<1> HIDE DEF Goal
<1>13. Goal
  BY <1>4, <1>5, <1>6, <1>7, <1>8, <1>9, <1>11, <1>12 DEF Next, Thread, Replaying, Quiet
<1> QED
  BY <1>13 DEF Goal

\* Every step keeps the types of the histories and of the counters.
LEMMA CountersStep ==
  ASSUME TypeOK, CallsAreTyped, CallsAreSound, [Next]_vars
  PROVE  /\ received' \in [Alerts -> Nat] /\ lost' \in [Alerts -> Nat]
         /\ dispatched' \in [Alerts -> Nat] /\ refused' \in [Alerts -> Nat]
         /\ replays' \in 0..MaxReplays /\ faults' \in 0..MaxFaults
<1> DEFINE Goal ==
      /\ received' \in [Alerts -> Nat] /\ lost' \in [Alerts -> Nat]
      /\ dispatched' \in [Alerts -> Nat] /\ refused' \in [Alerts -> Nat]
      /\ replays' \in 0..MaxReplays /\ faults' \in 0..MaxFaults
<1>2. ASSUME NEW p \in Procs, NEW a \in Alerts, Export(p, a) PROVE Goal
  BY <1>2, AskedStep DEF TypeOK, Export
<1>3. ASSUME NEW p \in Procs, NEW w \in 1..Workers, Take(p, w) PROVE Goal
  BY <1>3, FaultType DEF TypeOK, Take
<1>4. ASSUME NEW p \in Procs, NEW w \in 1..Workers, Post(p, w) PROVE Goal
  <2>1. Job(p, w).alert \in Alerts
    BY <1>4, JobType DEF Post, Delivery
  <2>2. received' = received \/ received' = [received EXCEPT ![Job(p, w).alert] = @ + 1]
    BY <1>4 DEF Post
  <2>3. received' \in [Alerts -> Nat]
    <3>1. PICK a \in Alerts : a = Job(p, w).alert
      BY <2>1
    <3>2. received \in [Alerts -> Nat]
      BY DEF TypeOK
    <3> QED
      BY <2>2, <3>1, <3>2
  <2>4. faults' \in 0..MaxFaults
    BY <1>4, FaultType DEF Post
  <2> QED
    BY <1>4, <2>3, <2>4 DEF TypeOK, Post
<1>5. ASSUME NEW p \in Procs, NEW w \in 1..Workers, Record(p, w) PROVE Goal
  <2>1. Job(p, w).alert \in Alerts
    BY <1>5, JobType DEF Record, Delivery
  <2>2. lost' = lost \/ lost' = [lost EXCEPT ![Job(p, w).alert] = @ + 1]
    BY <1>5 DEF Record
  <2>3. lost' \in [Alerts -> Nat]
    <3>1. PICK a \in Alerts : a = Job(p, w).alert
      BY <2>1
    <3>2. lost \in [Alerts -> Nat]
      BY DEF TypeOK
    <3> QED
      BY <2>2, <3>1, <3>2
  <2>4. faults' \in 0..MaxFaults
    BY <1>5, FaultType DEF Record
  <2> QED
    BY <1>5, <2>3, <2>4 DEF TypeOK, Record
<1>6. ASSUME NEW p \in Procs, Crash(p) PROVE Goal
  <2>1. ASSUME NEW a \in Alerts PROVE InFlight(p, a) \in Nat
    <3>1. /\ Cardinality(Positions(pool[p], a)) \in Nat
          /\ Cardinality(Holders(p, a)) \in Nat
          /\ InFlight(p, a) = Cardinality(Positions(pool[p], a)) + Cardinality(Holders(p, a))
      BY InFlightCount
    <3> QED
      BY <3>1
  <2>2. lost' \in [Alerts -> Nat]
    BY <1>6, <2>1 DEF Crash, TypeOK
  <2> QED
    BY <1>6, <2>2, FaultType DEF TypeOK, Crash
<1>7. ASSUME NEW c \in Replayers, StartReplay(c) PROVE Goal
  BY <1>7, SiemAssumption DEF TypeOK, StartReplay
<1>8. ASSUME NEW c \in Replayers, Resend(c) PROVE Goal
  <2>1. rows[Head(Todo(c))].alert \in Alerts
    BY <1>8, NextAlert DEF Resend, Todo
  <2>2. /\ dispatched' \in [Alerts -> Nat] /\ refused' \in [Alerts -> Nat]
        /\ faults' \in 0..MaxFaults
    <3>1. Submit(Api, rows[Head(Todo(c))].alert) \/ Refuse(rows[Head(Todo(c))].alert)
      BY <1>8 DEF Resend, Todo
    <3> QED
      BY <2>1, <3>1, AskedStep, SiemAssumption
  <2> QED
    BY <1>8, <2>2 DEF Resend, TypeOK
<1>9. ASSUME NEW c \in Replayers, Mark(c) \/ FinishReplay(c) \/ ReplayError(c) PROVE Goal
  BY <1>9, FaultType DEF TypeOK, Mark, FinishReplay, ReplayError
<1>10. ASSUME UNCHANGED vars PROVE Goal
  BY <1>10 DEF TypeOK, vars
<1> HIDE DEF Goal
<1>11. Goal
  BY <1>2, <1>3, <1>4, <1>5, <1>6, <1>7, <1>8, <1>9, <1>10 DEF Next, Thread, Replaying, Quiet
<1> QED
  BY <1>11 DEF Goal

\* Together: every step keeps the types, and the jobs and calls sound.
LEMMA SiemTyping ==
  ASSUME TypeOK, JobsAreSound, CallsAreTyped, CallsAreSound, [Next]_vars
  PROVE  TypeOK' /\ JobsAreSound' /\ CallsAreTyped' /\ CallsAreSound'
<1>1. CallsAreTyped' /\ CallsAreSound'
  BY CallsStep
<1>2. /\ pool' \in [Procs -> Seq(Alerts)]
      /\ worker' \in [Procs -> [1..Workers -> {Idle} \cup {<<d>> : d \in Delivery}]]
      /\ JobsAreSound'
  BY JobsStep
<1>3. rows' \in Seq(Row)
  BY RowsStep
<1>4. ASSUME NEW c \in Replayers, replay'[c] # Idle
      PROVE  replay'[c][1].marks \cup ToSet(replay'[c][1].todo) \subseteq DOMAIN rows'
  <2>1. CallIsSound(c)'
    BY <1>1, <1>4 DEF CallsAreSound, Running
  <2>2. /\ replay'[c][1].marks \subseteq DOMAIN rows'
        /\ \A i \in DOMAIN replay'[c][1].todo : replay'[c][1].todo[i] \in DOMAIN rows'
    BY <2>1 DEF CallIsSound, Chosen, Marks, Todo
  <2>3. ToSet(replay'[c][1].todo) = {replay'[c][1].todo[i] : i \in DOMAIN replay'[c][1].todo}
    BY DEF ToSet
  <2> QED
    BY <2>2, <2>3
<1>5. /\ received' \in [Alerts -> Nat] /\ lost' \in [Alerts -> Nat]
      /\ dispatched' \in [Alerts -> Nat] /\ refused' \in [Alerts -> Nat]
      /\ replays' \in 0..MaxReplays /\ faults' \in 0..MaxFaults
  BY CountersStep
<1>6. TypeOK'
  BY <1>2, <1>3, <1>4, <1>5 DEF TypeOK
<1> QED
  BY <1>1, <1>2, <1>6

----------------------------------------------------------------------------
(* Deliveries add up. *)

\* The deliveries of a in the other processes than p.
Elsewhere(p, a) == UNION {Queued(q, a) \cup Held(q, a) : q \in Procs \ {p}}

\* The deliveries in flight are those of one process and those elsewhere.
FlightIsSplit ==
  \A p \in Procs, a \in Alerts :
    /\ IsFiniteSet(AllInFlight(a)) <=> IsFiniteSet(Elsewhere(p, a))
    /\ IsFiniteSet(AllInFlight(a)) =>
         /\ Cardinality(Elsewhere(p, a)) \in Nat
         /\ Cardinality(AllInFlight(a)) = Cardinality(Elsewhere(p, a)) + InFlight(p, a)

\* What is in flight is in one process or elsewhere.
LEMMA FlightSplit == TypeOK => FlightIsSplit
<1> SUFFICES ASSUME TypeOK, NEW p \in Procs, NEW a \in Alerts
             PROVE  /\ IsFiniteSet(AllInFlight(a)) <=> IsFiniteSet(Elsewhere(p, a))
                    /\ IsFiniteSet(AllInFlight(a)) =>
                         /\ Cardinality(Elsewhere(p, a)) \in Nat
                         /\ Cardinality(AllInFlight(a)) = Cardinality(Elsewhere(p, a)) + InFlight(p, a)
  BY DEF FlightIsSplit
<1> DEFINE here == Queued(p, a) \cup Held(p, a)
<1>1. AllInFlight(a) = Elsewhere(p, a) \cup here
  BY DEF AllInFlight, Elsewhere
<1>2. Elsewhere(p, a) \cap here = {}
  BY DEF Elsewhere, Queued, Held
<1>3. IsFiniteSet(here) /\ InFlight(p, a) = Cardinality(here)
  BY InFlightCount DEF InFlight
<1> HIDE DEF here
<1>4. IsFiniteSet(AllInFlight(a)) => IsFiniteSet(Elsewhere(p, a))
  BY <1>1, FS_Subset
<1>5. IsFiniteSet(Elsewhere(p, a)) =>
        /\ IsFiniteSet(AllInFlight(a))
        /\ Cardinality(AllInFlight(a)) = Cardinality(Elsewhere(p, a)) + Cardinality(here)
        /\ Cardinality(Elsewhere(p, a)) \in Nat
  BY <1>1, <1>2, <1>3, CountDisjoint, FS_CardinalityType
<1> QED
  BY <1>3, <1>4, <1>5

\* The same of the next state.
LEMMA FlightSplitNext == TypeOK' => FlightIsSplit'
BY FlightSplit, PTL

\* What a step of one process changes of the deliveries in flight it changes there.
LEMMA FlightStep ==
  ASSUME TypeOK, TypeOK', NEW p \in Procs, NEW a \in Alerts, IsFiniteSet(AllInFlight(a)),
         \A q \in Procs \ {p} : pool'[q] = pool[q] /\ worker'[q] = worker[q]
  PROVE  /\ IsFiniteSet(AllInFlight(a)')
         /\ Cardinality(AllInFlight(a)) \in Nat /\ Cardinality(AllInFlight(a)') \in Nat
         /\ InFlight(p, a) \in Nat /\ InFlight(p, a)' \in Nat
         /\ Cardinality(AllInFlight(a)') = Cardinality(AllInFlight(a)) - InFlight(p, a) + InFlight(p, a)'
<1>1. Elsewhere(p, a)' = Elsewhere(p, a)
  BY DEF Elsewhere, Queued, Held, Busy, Job
<1>2. /\ IsFiniteSet(Elsewhere(p, a)) /\ Cardinality(Elsewhere(p, a)) \in Nat
      /\ Cardinality(AllInFlight(a)) = Cardinality(Elsewhere(p, a)) + InFlight(p, a)
  BY FlightSplit DEF FlightIsSplit
<1>3. /\ IsFiniteSet(AllInFlight(a)')
      /\ Cardinality(AllInFlight(a)') = Cardinality(Elsewhere(p, a)') + InFlight(p, a)'
  BY <1>1, <1>2, FlightSplitNext DEF FlightIsSplit
<1>4. InFlight(p, a) \in Nat
  <2>1. /\ Cardinality(Positions(pool[p], a)) \in Nat /\ Cardinality(Holders(p, a)) \in Nat
        /\ InFlight(p, a) = Cardinality(Positions(pool[p], a)) + Cardinality(Holders(p, a))
    BY InFlightCount
  <2> QED
    BY <2>1
<1>5. InFlight(p, a)' \in Nat
  <2>1. /\ Cardinality(Positions(pool'[p], a)) \in Nat /\ Cardinality(Holders(p, a)') \in Nat
        /\ InFlight(p, a)' = Cardinality(Positions(pool'[p], a)) + Cardinality(Holders(p, a)')
    BY FlightCountedNext DEF FlightIsCounted
  <2> QED
    BY <2>1
<1> QED
  BY <1>1, <1>2, <1>3, <1>4, <1>5

\* The same in terms of the queue and the threads.
LEMMA FlightSum ==
  ASSUME TypeOK, TypeOK', NEW p \in Procs, NEW a \in Alerts
  PROVE  /\ Cardinality(Positions(pool[p], a)) \in Nat /\ Cardinality(Holders(p, a)) \in Nat
         /\ Cardinality(Positions(pool'[p], a)) \in Nat /\ Cardinality(Holders(p, a)') \in Nat
         /\ InFlight(p, a) = Cardinality(Positions(pool[p], a)) + Cardinality(Holders(p, a))
         /\ InFlight(p, a)' = Cardinality(Positions(pool'[p], a)) + Cardinality(Holders(p, a)')
<1>1. /\ Cardinality(Positions(pool'[p], a)) \in Nat /\ Cardinality(Holders(p, a)') \in Nat
      /\ InFlight(p, a)' = Cardinality(Positions(pool'[p], a)) + Cardinality(Holders(p, a)')
  BY FlightCountedNext DEF FlightIsCounted
<1> QED
  BY <1>1, InFlightCount

\* A submission puts one more delivery in flight.
LEMMA SubmitFlight ==
  ASSUME TypeOK, TypeOK', NEW p \in Procs, NEW b \in Alerts, Submit(p, b), worker' = worker,
         NEW a \in Alerts, IsFiniteSet(AllInFlight(a))
  PROVE  /\ IsFiniteSet(AllInFlight(a)')
         /\ Cardinality(AllInFlight(a)) \in Nat
         /\ Cardinality(AllInFlight(a)') = Cardinality(AllInFlight(a)) + (IF a = b THEN 1 ELSE 0)
         /\ dispatched'[a] = dispatched[a] + (IF a = b THEN 1 ELSE 0)
<1>1. /\ pool[p] \in Seq(Alerts) /\ pool'[p] = Append(pool[p], b)
      /\ \A q \in Procs \ {p} : pool'[q] = pool[q] /\ worker'[q] = worker[q]
  BY DEF Submit, TypeOK
<1>2. Cardinality(Positions(pool'[p], a)) = Cardinality(Positions(pool[p], a)) + (IF a = b THEN 1 ELSE 0)
  BY <1>1, CountAppend
<1>3. Holders(p, a)' = Holders(p, a)
  BY DEF Holders, Busy, Job
<1>4. InFlight(p, a)' = InFlight(p, a) + (IF a = b THEN 1 ELSE 0)
  BY <1>2, <1>3, FlightSum
<1>5. dispatched'[a] = dispatched[a] + (IF a = b THEN 1 ELSE 0)
  <2>1. dispatched \in [Alerts -> Nat] /\ dispatched' = [dispatched EXCEPT ![b] = @ + 1]
    BY DEF Submit, TypeOK
  <2> QED
    BY <2>1
<1> QED
  BY <1>1, <1>4, <1>5, FlightStep

\* A thread that takes a delivery moves it, and one that attempts it keeps it.
LEMMA TakeFlight ==
  ASSUME TypeOK, TypeOK', NEW p \in Procs, NEW w \in 1..Workers, Take(p, w) \/ Post(p, w),
         NEW a \in Alerts, IsFiniteSet(AllInFlight(a))
  PROVE  /\ IsFiniteSet(AllInFlight(a)')
         /\ Cardinality(AllInFlight(a)') = Cardinality(AllInFlight(a))
<1>1. CASE Take(p, w)
  <2>1. PICK s \in {"new", "skipped"} :
          worker' = [worker EXCEPT ![p][w] = <<[alert |-> Head(pool[p]), tries |-> 0, status |-> s]>>]
    BY <1>1 DEF Take
  <2> DEFINE d == [alert |-> Head(pool[p]), tries |-> 0, status |-> s]
  <2>2. /\ pool[p] \in Seq(Alerts) /\ pool[p] # <<>> /\ ~Busy(p, w) /\ pool'[p] = Tail(pool[p])
        /\ \A q \in Procs \ {p} : pool'[q] = pool[q] /\ worker'[q] = worker[q]
    BY <1>1, <2>1 DEF Take, TypeOK
  <2>3. Cardinality(Positions(pool[p], a))
          = Cardinality(Positions(pool'[p], a)) + (IF Head(pool[p]) = a THEN 1 ELSE 0)
    BY <2>2, CountTail
  <2>4. worker' = [worker EXCEPT ![p][w] = <<d>>] /\ d.alert = Head(pool[p])
    BY <2>1
  <2> HIDE DEF d
  <2>5. /\ Busy(p, w)' /\ Job(p, w)' = d
        /\ \A v \in 1..Workers \ {w} : (Busy(p, v)' <=> Busy(p, v)) /\ Job(p, v)' = Job(p, v)
    BY <2>4, ThreadStep
  <2>6. Holders(p, a)' = IF Head(pool[p]) = a THEN Holders(p, a) \cup {w} ELSE Holders(p, a)
    BY <2>2, <2>4, <2>5 DEF Holders
  <2>7. w \notin Holders(p, a) /\ IsFiniteSet(Holders(p, a))
    BY <2>2, InFlightCount DEF Holders
  <2>8. Cardinality(Holders(p, a)')
          = Cardinality(Holders(p, a)) + (IF Head(pool[p]) = a THEN 1 ELSE 0)
    <3>1. Cardinality(Holders(p, a) \cup {w}) = Cardinality(Holders(p, a)) + 1
      BY <2>7, FS_AddElement
    <3>2. Cardinality(Holders(p, a)) \in Nat
      BY <2>7, FS_CardinalityType
    <3> QED
      BY <2>6, <3>1, <3>2
  <2>9. InFlight(p, a)' = InFlight(p, a)
    BY <2>3, <2>8, FlightSum
  <2> QED
    BY <2>2, <2>9, FlightStep
<1>2. CASE Post(p, w)
  <2>1. PICK s : worker' = [worker EXCEPT ![p][w] =
                   <<[alert |-> Job(p, w).alert, tries |-> NextAttempt(Job(p, w).tries), status |-> s]>>]
    BY <1>2 DEF Post
  <2> DEFINE d == [alert |-> Job(p, w).alert, tries |-> NextAttempt(Job(p, w).tries), status |-> s]
  <2>2. /\ pool' = pool /\ Busy(p, w)
        /\ \A q \in Procs \ {p} : pool'[q] = pool[q] /\ worker'[q] = worker[q]
    BY <1>2, <2>1 DEF Post, TypeOK
  <2>3. worker' = [worker EXCEPT ![p][w] = <<d>>] /\ d.alert = Job(p, w).alert
    BY <2>1
  <2> HIDE DEF d
  <2>4. /\ Busy(p, w)' /\ Job(p, w)' = d
        /\ \A v \in 1..Workers \ {w} : (Busy(p, v)' <=> Busy(p, v)) /\ Job(p, v)' = Job(p, v)
    BY <2>3, ThreadStep
  <2>5. Holders(p, a)' = Holders(p, a)
    BY <2>2, <2>3, <2>4 DEF Holders
  <2>6. InFlight(p, a)' = InFlight(p, a)
    BY <2>2, <2>5, FlightSum
  <2> QED
    BY <2>2, <2>6, FlightStep
<1> QED
  BY <1>1, <1>2

\* Recording the outcome of a delivery takes it out of flight.
LEMMA RecordFlight ==
  ASSUME TypeOK, TypeOK', NEW p \in Procs, NEW w \in 1..Workers, Record(p, w),
         NEW a \in Alerts, IsFiniteSet(AllInFlight(a))
  PROVE  /\ IsFiniteSet(AllInFlight(a)')
         /\ Cardinality(AllInFlight(a)') \in Nat
         /\ Cardinality(AllInFlight(a))
              = Cardinality(AllInFlight(a)') + (IF Job(p, w).alert = a THEN 1 ELSE 0)
<1>1. /\ pool' = pool /\ worker' = [worker EXCEPT ![p][w] = Idle] /\ Busy(p, w)
      /\ \A q \in Procs \ {p} : pool'[q] = pool[q] /\ worker'[q] = worker[q]
  BY DEF Record, TypeOK
<1>2. /\ ~Busy(p, w)'
      /\ \A v \in 1..Workers \ {w} : (Busy(p, v)' <=> Busy(p, v)) /\ Job(p, v)' = Job(p, v)
  BY <1>1, ThreadIdle
<1>3. Holders(p, a)' = Holders(p, a) \ {w}
  BY <1>2 DEF Holders
<1>4. w \in Holders(p, a) <=> Job(p, w).alert = a
  BY <1>1 DEF Holders
<1>5. IsFiniteSet(Holders(p, a))
  BY InFlightCount
<1>6. Cardinality(Holders(p, a))
        = Cardinality(Holders(p, a)') + (IF Job(p, w).alert = a THEN 1 ELSE 0)
  <2>1. Cardinality(Holders(p, a) \ {w}) =
          IF w \in Holders(p, a) THEN Cardinality(Holders(p, a)) - 1 ELSE Cardinality(Holders(p, a))
    BY <1>5, FS_RemoveElement
  <2>2. Cardinality(Holders(p, a)) \in Nat
    BY <1>5, FS_CardinalityType
  <2> QED
    BY <1>3, <1>4, <2>1, <2>2
<1>7. InFlight(p, a) = InFlight(p, a)' + (IF Job(p, w).alert = a THEN 1 ELSE 0)
  BY <1>1, <1>6, FlightSum
<1> QED
  BY <1>1, <1>7, FlightStep

\* A crash takes all the deliveries of its process out of flight.
LEMMA CrashFlight ==
  ASSUME TypeOK, TypeOK', NEW p \in Procs, Crash(p),
         NEW a \in Alerts, IsFiniteSet(AllInFlight(a))
  PROVE  /\ IsFiniteSet(AllInFlight(a)')
         /\ Cardinality(AllInFlight(a)') \in Nat /\ InFlight(p, a) \in Nat
         /\ Cardinality(AllInFlight(a)) = Cardinality(AllInFlight(a)') + InFlight(p, a)
<1>1. /\ pool'[p] = <<>> /\ worker'[p] = [w \in 1..Workers |-> Idle]
      /\ \A q \in Procs \ {p} : pool'[q] = pool[q] /\ worker'[q] = worker[q]
  BY DEF Crash, TypeOK
<1>2. Positions(pool'[p], a) = {}
  BY <1>1, PositionsEmpty
<1>3. Holders(p, a)' = {}
  BY <1>1 DEF Holders, Busy
<1>4. InFlight(p, a)' = 0
  <2>1. Cardinality(Positions(pool'[p], a)) = 0 /\ Cardinality(Holders(p, a)') = 0
    BY <1>2, <1>3, FS_EmptySet
  <2>2. InFlight(p, a)' = Cardinality(Positions(pool'[p], a)) + Cardinality(Holders(p, a)')
    BY FlightSum
  <2> QED
    BY <2>1, <2>2
<1> QED
  BY <1>1, <1>4, FlightStep

\* How many rows an alert has with given statuses.
LEMMA RowsOfFinite ==
  ASSUME TypeOK, NEW a, NEW Stats
  PROVE  IsFiniteSet(RowsOf(a, Stats)) /\ Cardinality(RowsOf(a, Stats)) \in Nat
<1>1. Len(rows) \in Nat /\ DOMAIN rows = 1..Len(rows)
  BY LenProperties DEF TypeOK
<1>2. IsFiniteSet(1..Len(rows)) /\ RowsOf(a, Stats) \in SUBSET (1..Len(rows))
  BY <1>1, FS_Interval DEF RowsOf
<1> QED
  BY <1>2, FS_Subset, FS_CardinalityType

\* A row that is appended counts where it belongs.
LEMMA RowsOfAppend ==
  ASSUME TypeOK, NEW r \in Row, rows' = Append(rows, r), NEW a, NEW Stats
  PROVE  Cardinality(RowsOf(a, Stats)')
           = Cardinality(RowsOf(a, Stats)) + (IF r.alert = a /\ r.status \in Stats THEN 1 ELSE 0)
<1>1. /\ Len(rows) \in Nat /\ DOMAIN rows = 1..Len(rows) /\ DOMAIN rows' = 1..(Len(rows) + 1)
      /\ rows'[Len(rows) + 1] = r
      /\ \A i \in DOMAIN rows : rows'[i] = rows[i]
  BY AppendRow
<1>2. RowsOf(a, Stats)' = IF r.alert = a /\ r.status \in Stats
                          THEN RowsOf(a, Stats) \cup {Len(rows) + 1} ELSE RowsOf(a, Stats)
  BY <1>1 DEF RowsOf
<1>3. Len(rows) + 1 \notin RowsOf(a, Stats)
  BY <1>1 DEF RowsOf
<1>4. Cardinality(RowsOf(a, Stats) \cup {Len(rows) + 1}) = Cardinality(RowsOf(a, Stats)) + 1
  BY <1>3, RowsOfFinite, FS_AddElement
<1>5. Cardinality(RowsOf(a, Stats)) \in Nat
  BY RowsOfFinite
<1> QED
  BY <1>2, <1>4, <1>5

\* Rows that stay count as before.
LEMMA RowsOfKept == ASSUME rows' = rows, NEW a, NEW Stats PROVE RowsOf(a, Stats)' = RowsOf(a, Stats)
BY DEF RowsOf

\* A commit of replay_failed neither adds nor removes rows, and has to do with
\* none that was sent or skipped.
LEMMA RowsOfCommit ==
  ASSUME TypeOK, CallsAreSound, NEW c \in Replayers, FinishReplay(c), NEW a
  PROVE  /\ RowsOf(a, {"sent", "failed", "skipped", "replayed"})'
              = RowsOf(a, {"sent", "failed", "skipped", "replayed"})
         /\ RowsOf(a, {"sent"})' = RowsOf(a, {"sent"})
<1>1. CASE rows' = rows
  BY <1>1, RowsOfKept
<1>2. CASE rows' = [i \in DOMAIN rows |->
                      IF i \in Marks(c) THEN [rows[i] EXCEPT !.status = "replayed"] ELSE rows[i]]
  <2>1. /\ DOMAIN rows' = DOMAIN rows
        /\ \A i \in DOMAIN rows : RowIsFinal(i)
    BY <1>2, CommitRows DEF FinishReplay
  <2>2. ASSUME NEW i \in DOMAIN rows
        PROVE  /\ rows'[i].alert = rows[i].alert
               /\ rows'[i].status \in {"sent", "failed", "skipped", "replayed"}
               /\ rows[i].status \in {"sent", "failed", "skipped", "replayed"}
               /\ rows'[i].status = "sent" <=> rows[i].status = "sent"
    <3>1. rows[i] \in Row
      BY LenProperties DEF TypeOK
    <3> QED
      BY <2>1, <3>1 DEF RowIsFinal, Row
  <2> QED
    BY <2>1, <2>2 DEF RowsOf
<1> QED
  BY <1>1, <1>2 DEF FinishReplay

\* Every step keeps the sum: a submission adds to both sides, an outcome moves
\* a delivery from the pools to the rows or to the lost ones, a crash to the
\* lost ones.
LEMMA DeliveriesStep ==
  ASSUME TypeOK, TypeOK', CallsAreTyped, CallsAreSound, DeliveriesAreFinite, DeliveriesAddUp, [Next]_vars
  PROVE  DeliveriesAreFinite' /\ DeliveriesAddUp'
<1> DEFINE All == {"sent", "failed", "skipped", "replayed"}
           AddsUp(a) == /\ IsFiniteSet(AllInFlight(a)')
                        /\ dispatched'[a] = Cardinality(RowsOf(a, All)') + lost'[a]
                                            + Cardinality(AllInFlight(a)')
<1>0. ASSUME NEW a \in Alerts
      PROVE  /\ IsFiniteSet(AllInFlight(a)) /\ Cardinality(AllInFlight(a)) \in Nat
             /\ Cardinality(RowsOf(a, All)) \in Nat /\ lost[a] \in Nat /\ dispatched[a] \in Nat
             /\ dispatched[a] = Cardinality(RowsOf(a, All)) + lost[a] + Cardinality(AllInFlight(a))
  <2>1. IsFiniteSet(AllInFlight(a))
    BY DEF DeliveriesAreFinite
  <2>2. Cardinality(AllInFlight(a)) \in Nat
    BY <2>1, FS_CardinalityType
  <2> QED
    BY <2>1, <2>2, RowsOfFinite DEF TypeOK, DeliveriesAddUp
<1> HIDE DEF All
<1>1. ASSUME NEW p \in Procs, NEW b \in Alerts, Submit(p, b), worker' = worker, rows' = rows, lost' = lost,
             NEW a \in Alerts
      PROVE  AddsUp(a)
  <2>1. /\ IsFiniteSet(AllInFlight(a)')
        /\ Cardinality(AllInFlight(a)') = Cardinality(AllInFlight(a)) + (IF a = b THEN 1 ELSE 0)
        /\ dispatched'[a] = dispatched[a] + (IF a = b THEN 1 ELSE 0)
    BY <1>0, <1>1, SubmitFlight
  <2>2. RowsOf(a, All)' = RowsOf(a, All)
    BY <1>1, RowsOfKept
  <2> QED
    BY <1>0, <1>1, <2>1, <2>2
<1>7. ASSUME pool' = pool, worker' = worker, lost' = lost, dispatched' = dispatched, NEW a \in Alerts,
             RowsOf(a, All)' = RowsOf(a, All)
      PROVE  AddsUp(a)
  <2>1. AllInFlight(a)' = AllInFlight(a)
    BY <1>7 DEF AllInFlight, Queued, Held, Busy, Job
  <2> QED
    BY <1>0, <1>7, <2>1
<1>2. ASSUME NEW p \in Procs, NEW b \in Alerts, Export(p, b), NEW a \in Alerts PROVE AddsUp(a)
  <2>1. worker' = worker /\ rows' = rows /\ lost' = lost
    BY <1>2 DEF Export
  <2>2. CASE Submit(p, b)
    BY <1>1, <2>1, <2>2
  <2>3. CASE Refuse(b)
    BY <1>7, <2>1, <2>3, RowsOfKept DEF Refuse
  <2> QED
    BY <1>2, <2>2, <2>3 DEF Export
<1>3. ASSUME NEW c \in Replayers, Resend(c), NEW a \in Alerts PROVE AddsUp(a)
  <2>1. rows[Head(Todo(c))].alert \in Alerts
    BY <1>3, NextAlert DEF Resend, Todo
  <2>2. worker' = worker /\ rows' = rows /\ lost' = lost
    BY <1>3 DEF Resend
  <2>3. CASE Submit(Api, rows[Head(Todo(c))].alert)
    BY <1>1, <2>1, <2>2, <2>3, SiemAssumption
  <2>4. CASE Refuse(rows[Head(Todo(c))].alert)
    BY <1>7, <2>2, <2>4, RowsOfKept DEF Refuse
  <2> QED
    BY <1>3, <2>3, <2>4 DEF Resend, Todo
<1>4. ASSUME NEW p \in Procs, NEW w \in 1..Workers, Take(p, w) \/ Post(p, w), NEW a \in Alerts
      PROVE  AddsUp(a)
  <2>1. IsFiniteSet(AllInFlight(a)') /\ Cardinality(AllInFlight(a)') = Cardinality(AllInFlight(a))
    BY <1>0, <1>4, TakeFlight
  <2>2. rows' = rows /\ lost' = lost /\ dispatched' = dispatched
    BY <1>4 DEF Take, Post
  <2>3. RowsOf(a, All)' = RowsOf(a, All)
    BY <2>2, RowsOfKept
  <2> QED
    BY <1>0, <2>1, <2>2, <2>3
<1>5. ASSUME NEW p \in Procs, NEW w \in 1..Workers, Record(p, w), NEW a \in Alerts PROVE AddsUp(a)
  <2> DEFINE one == IF Job(p, w).alert = a THEN 1 ELSE 0
  <2>1. /\ IsFiniteSet(AllInFlight(a)')
        /\ Cardinality(AllInFlight(a)') \in Nat
        /\ Cardinality(AllInFlight(a)) = Cardinality(AllInFlight(a)') + one
    BY <1>0, <1>5, RecordFlight
  <2>2. /\ dispatched' = dispatched /\ one \in 0..1
        /\ Job(p, w) \in Delivery /\ Job(p, w).status # "new"
    BY <1>5, JobType DEF Record
  <2>3. CASE rows' = RowsWith(Job(p, w)) /\ lost' = lost
    <3> DEFINE r == [alert |-> Job(p, w).alert, status |-> Job(p, w).status]
    <3>1. r \in Row /\ rows' = Append(rows, r) /\ r.alert = Job(p, w).alert /\ r.status \in All
      BY <2>2, <2>3 DEF RowsWith, Row, Delivery, All
    <3> HIDE DEF r
    <3>2. Cardinality(RowsOf(a, All)')
            = Cardinality(RowsOf(a, All)) + (IF r.alert = a /\ r.status \in All THEN 1 ELSE 0)
      BY <3>1, RowsOfAppend
    <3>3. Cardinality(RowsOf(a, All)') = Cardinality(RowsOf(a, All)) + one
      BY <3>1, <3>2
    <3> HIDE DEF one
    <3> QED
      BY <1>0, <2>1, <2>2, <2>3, <3>3
  <2>4. CASE rows' = rows /\ lost' = [lost EXCEPT ![Job(p, w).alert] = @ + 1]
    <3>1. RowsOf(a, All)' = RowsOf(a, All)
      BY <2>4, RowsOfKept
    <3>2. lost'[a] = lost[a] + one
      <4>1. lost \in [Alerts -> Nat]
        BY DEF TypeOK
      <4> QED
        BY <2>4, <4>1
    <3> HIDE DEF one
    <3> QED
      BY <1>0, <2>1, <2>2, <3>1, <3>2
  <2> QED
    BY <1>5, <2>3, <2>4 DEF Record
<1>6. ASSUME NEW p \in Procs, Crash(p), NEW a \in Alerts PROVE AddsUp(a)
  <2>1. /\ IsFiniteSet(AllInFlight(a)')
        /\ Cardinality(AllInFlight(a)') \in Nat /\ InFlight(p, a) \in Nat
        /\ Cardinality(AllInFlight(a)) = Cardinality(AllInFlight(a)') + InFlight(p, a)
    BY <1>0, <1>6, CrashFlight
  <2>2. rows' = rows /\ dispatched' = dispatched /\ lost'[a] = lost[a] + InFlight(p, a)
    BY <1>6 DEF Crash
  <2>3. RowsOf(a, All)' = RowsOf(a, All)
    BY <2>2, RowsOfKept
  <2> QED
    BY <1>0, <2>1, <2>2, <2>3
<1>8. ASSUME NEW c \in Replayers, StartReplay(c) \/ Mark(c) \/ ReplayError(c), NEW a \in Alerts
      PROVE  AddsUp(a)
  BY <1>7, <1>8, RowsOfKept DEF StartReplay, Mark, ReplayError
<1>9. ASSUME NEW c \in Replayers, FinishReplay(c), NEW a \in Alerts PROVE AddsUp(a)
  <2>1. RowsOf(a, All)' = RowsOf(a, All)
    BY <1>9, RowsOfCommit DEF All
  <2> QED
    BY <1>7, <1>9, <2>1 DEF FinishReplay
<1>10. ASSUME UNCHANGED vars, NEW a \in Alerts PROVE AddsUp(a)
  BY <1>7, <1>10, RowsOfKept DEF vars
<1> HIDE DEF AddsUp
<1>11. ASSUME NEW a \in Alerts PROVE AddsUp(a)
  BY <1>2, <1>3, <1>4, <1>5, <1>6, <1>8, <1>9, <1>10 DEF Next, Thread, Replaying, Quiet
<1> QED
  BY <1>11 DEF AddsUp, All, DeliveriesAreFinite, DeliveriesAddUp

----------------------------------------------------------------------------
(* What is recorded as sent was received. *)

\* What one thread does to the threads that have a "sent" to record.
LEMMA SentJobsStep ==
  ASSUME TypeOK, NEW p \in Procs, NEW w \in 1..Workers, NEW d,
         worker' = [worker EXCEPT ![p][w] = <<d>>], NEW a
  PROVE  SentJobs(a)' = IF d.alert = a /\ d.status = "sent"
                        THEN SentJobs(a) \cup {<<p, w>>} ELSE SentJobs(a) \ {<<p, w>>}
<1>1. /\ Busy(p, w)' /\ Job(p, w)' = d
      /\ \A q \in Procs, v \in 1..Workers : <<q, v>> # <<p, w>> =>
           (Busy(q, v)' <=> Busy(q, v)) /\ Job(q, v)' = Job(q, v)
  BY ThreadStep
<1>2. ASSUME NEW q \in Procs, NEW v \in 1..Workers, <<q, v>> # <<p, w>>
      PROVE  <<q, v>> \in SentJobs(a)' <=> <<q, v>> \in SentJobs(a)
  BY <1>1, <1>2 DEF SentJobs
<1>3. <<p, w>> \in SentJobs(a)' <=> d.alert = a /\ d.status = "sent"
  BY <1>1 DEF SentJobs
<1>4. SentJobs(a) \subseteq Procs \X (1..Workers) /\ SentJobs(a)' \subseteq Procs \X (1..Workers)
  BY DEF SentJobs
<1> QED
  BY <1>2, <1>3, <1>4

\* A thread that ends its delivery no longer has a "sent" to record.
LEMMA SentJobsIdle ==
  ASSUME TypeOK, NEW p \in Procs, NEW w \in 1..Workers,
         worker' = [worker EXCEPT ![p][w] = Idle], NEW a
  PROVE  SentJobs(a)' = SentJobs(a) \ {<<p, w>>}
<1>1. /\ ~Busy(p, w)'
      /\ \A q \in Procs, v \in 1..Workers : <<q, v>> # <<p, w>> =>
           (Busy(q, v)' <=> Busy(q, v)) /\ Job(q, v)' = Job(q, v)
  BY ThreadIdle
<1>2. ASSUME NEW q \in Procs, NEW v \in 1..Workers, <<q, v>> # <<p, w>>
      PROVE  <<q, v>> \in SentJobs(a)' <=> <<q, v>> \in SentJobs(a)
  BY <1>1, <1>2 DEF SentJobs
<1>3. <<p, w>> \notin SentJobs(a)'
  BY <1>1 DEF SentJobs
<1>4. SentJobs(a) \subseteq Procs \X (1..Workers) /\ SentJobs(a)' \subseteq Procs \X (1..Workers)
  BY DEF SentJobs
<1> QED
  BY <1>2, <1>3, <1>4

\* Every step keeps the account of what the SIEM took.
LEMMA SentStep ==
  ASSUME TypeOK, TypeOK', CallsAreTyped, CallsAreSound, SentIsAccountedFor, [Next]_vars
  PROVE  SentIsAccountedFor'
<1> DEFINE Sent == {"sent"}
           Goal(a) == /\ IsFiniteSet(SentJobs(a)')
                      /\ Cardinality(RowsOf(a, Sent)') + Cardinality(SentJobs(a)') <= received'[a]
<1>0. ASSUME NEW a \in Alerts
      PROVE  /\ IsFiniteSet(SentJobs(a)) /\ Cardinality(SentJobs(a)) \in Nat
             /\ Cardinality(RowsOf(a, Sent)) \in Nat /\ received[a] \in Nat
             /\ Cardinality(RowsOf(a, Sent)) + Cardinality(SentJobs(a)) <= received[a]
  <2>1. IsFiniteSet(SentJobs(a))
    BY DEF SentIsAccountedFor
  <2>2. Cardinality(SentJobs(a)) \in Nat
    BY <2>1, FS_CardinalityType
  <2> QED
    BY <2>1, <2>2, RowsOfFinite DEF TypeOK, SentIsAccountedFor
<1>1. ASSUME NEW a \in Alerts, SentJobs(a)' \subseteq SentJobs(a), RowsOf(a, Sent)' = RowsOf(a, Sent),
             received'[a] \in Nat, received[a] <= received'[a]
      PROVE  Goal(a)
  <2>1. /\ IsFiniteSet(SentJobs(a)') /\ Cardinality(SentJobs(a)') <= Cardinality(SentJobs(a))
        /\ Cardinality(SentJobs(a)') \in Nat
    BY <1>0, <1>1, FS_Subset, FS_CardinalityType
  <2> QED
    BY <1>0, <1>1, <2>1
<1>2. ASSUME NEW a \in Alerts, worker' = worker, RowsOf(a, Sent)' = RowsOf(a, Sent), received' = received
      PROVE  Goal(a)
  <2>1. SentJobs(a)' = SentJobs(a)
    BY <1>2 DEF SentJobs, Busy, Job
  <2> QED
    BY <1>0, <1>1, <1>2, <2>1
<1>3. ASSUME NEW a \in Alerts, NEW p \in Procs, NEW b \in Alerts, Export(p, b) PROVE Goal(a)
  BY <1>2, <1>3, RowsOfKept DEF Export
<1>4. ASSUME NEW a \in Alerts, NEW c \in Replayers,
             StartReplay(c) \/ Resend(c) \/ Mark(c) \/ ReplayError(c)
      PROVE  Goal(a)
  BY <1>2, <1>4, RowsOfKept DEF StartReplay, Resend, Mark, ReplayError
<1>5. ASSUME NEW a \in Alerts, NEW c \in Replayers, FinishReplay(c) PROVE Goal(a)
  BY <1>2, <1>5, RowsOfCommit DEF FinishReplay
<1>6. ASSUME NEW a \in Alerts, NEW p \in Procs, NEW w \in 1..Workers, Take(p, w) PROVE Goal(a)
  <2>1. PICK s \in {"new", "skipped"} :
          worker' = [worker EXCEPT ![p][w] = <<[alert |-> Head(pool[p]), tries |-> 0, status |-> s]>>]
    BY <1>6 DEF Take
  <2>2. SentJobs(a)' \subseteq SentJobs(a)
    <3> DEFINE d == [alert |-> Head(pool[p]), tries |-> 0, status |-> s]
    <3>1. worker' = [worker EXCEPT ![p][w] = <<d>>] /\ d.status # "sent"
      BY <2>1
    <3> HIDE DEF d
    <3>2. SentJobs(a)' = SentJobs(a) \ {<<p, w>>}
      BY <3>1, SentJobsStep
    <3> QED
      BY <3>2
  <2>3. rows' = rows /\ received' = received
    BY <1>6 DEF Take
  <2> QED
    BY <1>0, <1>1, <2>2, <2>3, RowsOfKept
<1>7. ASSUME NEW a \in Alerts, NEW p \in Procs, NEW w \in 1..Workers, Post(p, w) PROVE Goal(a)
  <2> DEFINE b == Job(p, w).alert
             d(s) == [alert |-> b, tries |-> NextAttempt(Job(p, w).tries), status |-> s]
             refusal == OutcomeOfRefusal(NextAttempt(Job(p, w).tries))
  <2>1. /\ b \in Alerts /\ Busy(p, w) /\ Job(p, w).status = "new" /\ rows' = rows
        /\ received \in [Alerts -> Nat]
    BY <1>7, JobType DEF Post, Delivery, TypeOK
  <2>2. \/ worker' = [worker EXCEPT ![p][w] = <<d("sent")>>] /\ received' = [received EXCEPT ![b] = @ + 1]
        \/ worker' = [worker EXCEPT ![p][w] = <<d(refusal)>>] /\ received' = received
        \/ worker' = [worker EXCEPT ![p][w] = <<d(refusal)>>] /\ received' = [received EXCEPT ![b] = @ + 1]
    BY <1>7 DEF Post
  <2>3. RowsOf(a, Sent)' = RowsOf(a, Sent)
    BY <2>1, RowsOfKept
  <2>4. CASE worker' = [worker EXCEPT ![p][w] = <<d("sent")>>] /\ received' = [received EXCEPT ![b] = @ + 1]
    <3>1. \A x : x = d("sent") => x.alert = b /\ x.status = "sent"
      OBVIOUS
    <3>2. PICK x : x = d("sent") /\ worker' = [worker EXCEPT ![p][w] = <<x>>]
      BY <2>4
    <3>3. SentJobs(a)' = IF b = a THEN SentJobs(a) \cup {<<p, w>>} ELSE SentJobs(a) \ {<<p, w>>}
      BY <3>1, <3>2, SentJobsStep, ZenonT(60)
    <3>4. CASE b = a
      <4>1. received'[a] = received[a] + 1
        BY <2>1, <2>4, <3>4
      <4>2. <<p, w>> \notin SentJobs(a)
        BY <2>1 DEF SentJobs
      <4>3. /\ IsFiniteSet(SentJobs(a) \cup {<<p, w>>})
            /\ Cardinality(SentJobs(a) \cup {<<p, w>>}) = Cardinality(SentJobs(a)) + 1
        BY <1>0, <4>2, FS_AddElement
      <4>4. SentJobs(a)' = SentJobs(a) \cup {<<p, w>>}
        BY <3>3, <3>4
      <4> QED
        BY <1>0, <2>3, <4>1, <4>3, <4>4
    <3>5. CASE b # a
      <4>1. received'[a] = received[a]
        BY <2>1, <2>4, <3>5
      <4>2. SentJobs(a)' \subseteq SentJobs(a)
        BY <3>3, <3>5
      <4> QED
        BY <1>0, <1>1, <2>3, <4>1, <4>2
    <3> QED
      BY <3>4, <3>5
  <2>5. CASE /\ worker' = [worker EXCEPT ![p][w] = <<d(refusal)>>]
             /\ received' = received \/ received' = [received EXCEPT ![b] = @ + 1]
    <3>1. refusal # "sent"
      BY DEF OutcomeOfRefusal
    <3>2. \A x : x = d(refusal) => x.status # "sent"
      BY <3>1
    <3>3. PICK x : x = d(refusal) /\ worker' = [worker EXCEPT ![p][w] = <<x>>]
      BY <2>5
    <3>4. SentJobs(a)' = SentJobs(a) \ {<<p, w>>}
      BY <3>2, <3>3, SentJobsStep
    <3>5. received'[a] \in Nat /\ received[a] <= received'[a]
      BY <1>0, <2>1, <2>5
    <3> QED
      BY <1>1, <2>3, <3>4, <3>5
  <2> QED
    BY <2>2, <2>4, <2>5
<1>8. ASSUME NEW a \in Alerts, NEW p \in Procs, NEW w \in 1..Workers, Record(p, w) PROVE Goal(a)
  <2>1. /\ Busy(p, w) /\ Job(p, w) \in Delivery /\ Job(p, w).status # "new"
        /\ worker' = [worker EXCEPT ![p][w] = Idle] /\ received' = received
    BY <1>8, JobType DEF Record
  <2>2. SentJobs(a)' = SentJobs(a) \ {<<p, w>>}
    BY <2>1, SentJobsIdle
  <2>3. CASE rows' = rows
    <3>1. RowsOf(a, Sent)' = RowsOf(a, Sent)
      BY <2>3, RowsOfKept
    <3>2. SentJobs(a)' \subseteq SentJobs(a)
      BY <2>2
    <3>3. received'[a] \in Nat /\ received[a] <= received'[a]
      BY <1>0, <2>1
    <3> QED
      BY <1>1, <3>1, <3>2, <3>3
  <2>4. CASE rows' = RowsWith(Job(p, w))
    <3> DEFINE r == [alert |-> Job(p, w).alert, status |-> Job(p, w).status]
               one == IF Job(p, w).alert = a /\ Job(p, w).status = "sent" THEN 1 ELSE 0
    <3>1. r \in Row /\ rows' = Append(rows, r) /\ r.alert = Job(p, w).alert /\ r.status = Job(p, w).status
      BY <2>1, <2>4 DEF RowsWith, Row, Delivery
    <3> HIDE DEF r
    <3>2. Cardinality(RowsOf(a, Sent)')
            = Cardinality(RowsOf(a, Sent)) + (IF r.alert = a /\ r.status \in Sent THEN 1 ELSE 0)
      BY <3>1, RowsOfAppend
    <3>3. Cardinality(RowsOf(a, Sent)') = Cardinality(RowsOf(a, Sent)) + one
      BY <3>1, <3>2
    <3>4. <<p, w>> \in SentJobs(a) <=> Job(p, w).alert = a /\ Job(p, w).status = "sent"
      BY <2>1 DEF SentJobs
    <3>5. /\ IsFiniteSet(SentJobs(a)')
          /\ Cardinality(SentJobs(a)') = IF <<p, w>> \in SentJobs(a) THEN Cardinality(SentJobs(a)) - 1
                                                                   ELSE Cardinality(SentJobs(a))
      <4>1. IsFiniteSet(SentJobs(a))
        BY <1>0
      <4>2. \A t : /\ IsFiniteSet(SentJobs(a) \ {t})
                   /\ Cardinality(SentJobs(a) \ {t}) = IF t \in SentJobs(a) THEN Cardinality(SentJobs(a)) - 1
                                                                           ELSE Cardinality(SentJobs(a))
        BY <4>1, FS_RemoveElement
      <4> QED
        BY <2>2, <4>2
    <3>6. Cardinality(SentJobs(a)') = Cardinality(SentJobs(a)) - one
      BY <1>0, <3>4, <3>5
    <3>7. one \in 0..1
      OBVIOUS
    <3> HIDE DEF one
    <3> QED
      BY <1>0, <2>1, <3>3, <3>5, <3>6, <3>7
  <2> QED
    BY <1>8, <2>3, <2>4 DEF Record
<1>9. ASSUME NEW a \in Alerts, NEW p \in Procs, Crash(p) PROVE Goal(a)
  <2>1. worker' = [worker EXCEPT ![p] = [w \in 1..Workers |-> Idle]] /\ rows' = rows /\ received' = received
    BY <1>9 DEF Crash
  <2>2. ASSUME NEW q \in Procs, NEW v \in 1..Workers, Busy(q, v)'
        PROVE  Busy(q, v) /\ Job(q, v)' = Job(q, v)
    BY <2>1, <2>2 DEF TypeOK, Busy, Job
  <2>3. SentJobs(a)' \subseteq SentJobs(a)
    BY <2>2 DEF SentJobs
  <2> QED
    BY <1>0, <1>1, <2>1, <2>3, RowsOfKept
<1>10. ASSUME NEW a \in Alerts, UNCHANGED vars PROVE Goal(a)
  BY <1>2, <1>10, RowsOfKept DEF vars
<1> HIDE DEF Goal
<1>11. ASSUME NEW a \in Alerts PROVE Goal(a)
  BY <1>3, <1>4, <1>5, <1>6, <1>7, <1>8, <1>9, <1>10 DEF Next, Thread, Replaying, Quiet
<1> QED
  BY <1>11 DEF Goal, SentIsAccountedFor

----------------------------------------------------------------------------
(* What is recorded as replayed was sent again. *)

\* An alert that has a row was dispatched.
LEMMA RowMeansDispatched ==
  ASSUME TypeOK, DeliveriesAreFinite, DeliveriesAddUp, NEW a \in Alerts, NEW i \in DOMAIN rows,
         rows[i].alert = a
  PROVE  dispatched[a] > 0
<1> DEFINE mine == RowsOf(a, {"sent", "failed", "skipped", "replayed"})
<1>1. i \in mine
  <2>1. rows[i] \in Row
    BY LenProperties DEF TypeOK
  <2> QED
    BY <2>1 DEF RowsOf, Row
<1>2. IsFiniteSet(mine) /\ Cardinality(mine) \in Nat
  BY RowsOfFinite
<1>3. Cardinality(mine) # 0
  BY <1>1, <1>2, FS_EmptySet
<1>4. Cardinality(AllInFlight(a)) \in Nat
  BY FS_CardinalityType DEF DeliveriesAreFinite
<1>5. /\ dispatched[a] = Cardinality(mine) + lost[a] + Cardinality(AllInFlight(a))
      /\ lost[a] \in Nat
  BY DEF DeliveriesAddUp, TypeOK
<1> HIDE DEF mine
<1> QED
  BY <1>2, <1>3, <1>4, <1>5

\* The rows marked, or about to be, are finitely many.
LEMMA MarkedFinite ==
  ASSUME TypeOK, NEW a PROVE IsFiniteSet(Marked(a)) /\ Cardinality(Marked(a)) \in Nat
<1>1. Len(rows) \in Nat /\ DOMAIN rows = 1..Len(rows)
  BY LenProperties DEF TypeOK
<1>2. IsFiniteSet(1..Len(rows)) /\ Marked(a) \in SUBSET (1..Len(rows))
  BY <1>1, FS_Interval DEF Marked
<1> QED
  BY <1>2, FS_Subset, FS_CardinalityType

\* A call that submitted a delivery did so for a row.
LEMMA PendingRow ==
  ASSUME TypeOK, CallsAreTyped, CallsAreSound, NEW c \in Replayers, Running(c), Submitted(c)
  PROVE  Head(Todo(c)) \in DOMAIN rows /\ Todo(c) # <<>>
<1>1. Todo(c) # <<>>
  BY DEF CallsAreSound, CallIsSound
<1> QED
  BY <1>1, NextAlert

\* A step that starts no call, and goes on with none, marks and submits nothing.
LEMMA ReplaysShrink ==
  ASSUME TypeOK, CallsAreTyped, CallsAreSound, NEW a,
         \A o \in Replayers : Running(o)' =>
           Running(o) /\ Marks(o)' = Marks(o) /\ Todo(o)' = Todo(o) /\ Submitted(o)' = Submitted(o),
         \A i \in DOMAIN rows : rows'[i].alert = rows[i].alert,
         \A i \in DOMAIN rows' : rows'[i].status = "replayed" =>
           /\ i \in DOMAIN rows
           /\ rows[i].status = "replayed" \/ \E o \in Replayers : Running(o) /\ i \in Marks(o)
  PROVE  Marked(a)' \subseteq Marked(a) /\ Pending(a)' \subseteq Pending(a)
<1>1. ASSUME NEW i \in Marked(a)' PROVE i \in Marked(a)
  <2>1. i \in DOMAIN rows' /\ rows'[i].alert = a
    BY <1>1 DEF Marked
  <2>2. CASE rows'[i].status = "replayed"
    BY <2>1, <2>2 DEF Marked
  <2>3. CASE \E o \in Replayers : Running(o)' /\ i \in Marks(o)'
    <3>1. PICK o \in Replayers : Running(o)' /\ i \in Marks(o)'
      BY <2>3
    <3>2. Running(o) /\ i \in Marks(o)
      BY <3>1
    <3>3. i \in DOMAIN rows
      BY <3>2 DEF CallsAreSound, CallIsSound, Chosen
    <3> QED
      BY <2>1, <3>2, <3>3 DEF Marked
  <2> QED
    BY <1>1, <2>2, <2>3 DEF Marked
<1>2. ASSUME NEW c \in Pending(a)' PROVE c \in Pending(a)
  <2>1. c \in Replayers /\ Running(c)' /\ Submitted(c)' /\ rows'[Head(Todo(c)')].alert = a
    BY <1>2 DEF Pending
  <2>2. Running(c) /\ Submitted(c) /\ Todo(c)' = Todo(c)
    BY <2>1
  <2>3. Head(Todo(c)) \in DOMAIN rows
    BY <2>1, <2>2, PendingRow
  <2> QED
    BY <2>1, <2>2, <2>3 DEF Pending
<1> QED
  BY <1>1, <1>2

\* Every step keeps the account of the replays.  A caller that resends and one
\* that marks each hold their own share of it, so two callers that replay the
\* same row at the same time do no harm to it.
LEMMA ReplaysStep ==
  ASSUME TypeOK, TypeOK', CallsAreTyped, CallsAreSound, DeliveriesAreFinite, DeliveriesAddUp,
         ReplaysAreAccountedFor, [Next]_vars
  PROVE  ReplaysAreAccountedFor'
<1> DEFINE Goal(a) ==
      /\ IsFiniteSet(Pending(a)')
      /\ Asked(a)' > 0 =>
           1 + Cardinality(Marked(a)') + Cardinality(Pending(a)') <= Asked(a)'
<1>0. ASSUME NEW a \in Alerts
      PROVE  /\ IsFiniteSet(Pending(a)) /\ Cardinality(Pending(a)) \in Nat
             /\ IsFiniteSet(Marked(a)) /\ Cardinality(Marked(a)) \in Nat
             /\ Asked(a) \in Nat
             /\ Asked(a) > 0 =>
                  1 + Cardinality(Marked(a)) + Cardinality(Pending(a)) <= Asked(a)
  <2>1. IsFiniteSet(Pending(a))
    BY DEF ReplaysAreAccountedFor
  <2>2. Cardinality(Pending(a)) \in Nat
    BY <2>1, FS_CardinalityType
  <2> QED
    BY <2>1, <2>2, MarkedFinite DEF TypeOK, Asked, ReplaysAreAccountedFor
<1>1. ASSUME NEW a \in Alerts, Marked(a)' \subseteq Marked(a), Pending(a)' \subseteq Pending(a),
             Asked(a)' = Asked(a)
      PROVE  Goal(a)
  <2>1. /\ IsFiniteSet(Pending(a)') /\ Cardinality(Pending(a)') <= Cardinality(Pending(a))
        /\ Cardinality(Pending(a)') \in Nat
    BY <1>0, <1>1, FS_Subset, FS_CardinalityType
  <2>2. Cardinality(Marked(a)') <= Cardinality(Marked(a)) /\ Cardinality(Marked(a)') \in Nat
    BY <1>0, <1>1, FS_Subset, FS_CardinalityType
  <2> QED
    BY <1>0, <1>1, <2>1, <2>2
<1>2. ASSUME NEW a \in Alerts, rows' = rows, replay' = replay
      PROVE  Marked(a)' = Marked(a) /\ Pending(a)' = Pending(a)
  BY <1>2 DEF Marked, Pending, Running, Marks, Todo, Submitted
<1>3. ASSUME NEW a \in Alerts, NEW p \in Procs, NEW b \in Alerts, Export(p, b) PROVE Goal(a)
  <2>1. /\ Marked(a)' = Marked(a) /\ Pending(a)' = Pending(a)
        /\ Asked(b) = 0 /\ (Submit(p, b) \/ Refuse(b))
    BY <1>2, <1>3 DEF Export
  <2>2. CASE a = b
    <3>1. \A i \in DOMAIN rows : rows[i].alert # a
      <4>1. dispatched[a] \in Nat /\ refused[a] \in Nat
        BY DEF TypeOK
      <4>2. ~(dispatched[a] > 0)
        BY <2>1, <2>2, <4>1 DEF Asked
      <4> QED
        BY <4>2, RowMeansDispatched
    <3>2. Marked(a) = {}
      BY <3>1 DEF Marked
    <3>3. Pending(a) = {}
      BY <3>1, PendingRow DEF Pending
    <3>4. Asked(a)' = 1
      BY <2>1, <2>2, AskedStep
    <3>5. IsFiniteSet({}) /\ Cardinality({}) = 0
      BY FS_EmptySet
    <3> QED
      BY <2>1, <3>2, <3>3, <3>4, <3>5
  <2>3. CASE a # b
    <3>1. Asked(a)' = Asked(a)
      BY <1>0, <2>1, <2>3, AskedStep
    <3> QED
      BY <1>1, <2>1, <3>1
  <2> QED
    BY <2>2, <2>3
<1>4. ASSUME NEW a \in Alerts, NEW p \in Procs, NEW w \in 1..Workers, Take(p, w) \/ Post(p, w)
      PROVE  Goal(a)
  <2>1. rows' = rows /\ replay' = replay /\ (\A x : Asked(x)' = Asked(x))
    BY <1>4 DEF Take, Post, Asked
  <2> QED
    BY <1>1, <1>2, <2>1
<1>5. ASSUME NEW a \in Alerts, NEW p \in Procs, NEW w \in 1..Workers, Record(p, w) PROVE Goal(a)
  <2>1. /\ Job(p, w) \in Delivery /\ Job(p, w).status # "new"
        /\ replay' = replay /\ (\A x : Asked(x)' = Asked(x))
    BY <1>5, JobType DEF Record, Asked
  <2>2. CASE rows' = rows
    BY <1>1, <1>2, <2>1, <2>2
  <2>3. CASE rows' = RowsWith(Job(p, w))
    <3> DEFINE r == [alert |-> Job(p, w).alert, status |-> Job(p, w).status]
    <3>1. r \in Row /\ rows' = Append(rows, r) /\ r.status # "replayed"
      BY <2>1, <2>3 DEF RowsWith, Row, Delivery
    <3> HIDE DEF r
    <3>2. /\ Len(rows) \in Nat /\ DOMAIN rows = 1..Len(rows) /\ DOMAIN rows' = 1..(Len(rows) + 1)
          /\ rows'[Len(rows) + 1] = r
          /\ \A i \in DOMAIN rows : i \in DOMAIN rows' /\ rows'[i] = rows[i]
      BY <3>1, AppendRow
    <3>3. \A o \in Replayers : /\ Running(o)' <=> Running(o)
                               /\ Marks(o)' = Marks(o) /\ Todo(o)' = Todo(o)
                               /\ Submitted(o)' = Submitted(o)
      BY <2>1 DEF Running, Marks, Todo, Submitted
    <3>4. \A i \in DOMAIN rows' : rows'[i].status = "replayed" =>
            i \in DOMAIN rows /\ rows[i].status = "replayed"
      BY <3>1, <3>2
    <3>5. Marked(a)' \subseteq Marked(a) /\ Pending(a)' \subseteq Pending(a)
      BY <3>2, <3>3, <3>4, ReplaysShrink
    <3> QED
      BY <1>1, <2>1, <3>5
  <2> QED
    BY <1>5, <2>2, <2>3 DEF Record
<1>6. ASSUME NEW a \in Alerts, NEW c \in Replayers, StartReplay(c) PROVE Goal(a)
  <2>1. PICK s : replay' = [replay EXCEPT ![c] = <<[todo |-> s, submitted |-> FALSE, marks |-> {}]>>]
    BY <1>6 DEF StartReplay
  <2>2. /\ Running(c)' /\ ~Submitted(c)' /\ Marks(c)' = {}
        /\ \A o \in Replayers \ {c} : /\ Running(o)' <=> Running(o)
                                      /\ Todo(o)' = Todo(o) /\ Submitted(o)' = Submitted(o)
                                      /\ Marks(o)' = Marks(o)
    <3>1. \A k : k = [todo |-> s, submitted |-> FALSE, marks |-> {}] => ~k.submitted /\ k.marks = {}
      OBVIOUS
    <3>2. PICK k : /\ k = [todo |-> s, submitted |-> FALSE, marks |-> {}]
                   /\ replay' = [replay EXCEPT ![c] = <<k>>]
      BY <2>1
    <3> QED
      BY <3>1, <3>2, CallStep
  <2>3. rows' = rows /\ (\A x : Asked(x)' = Asked(x))
    BY <1>6 DEF StartReplay, Asked
  <2>4. Marked(a)' \subseteq Marked(a)
    BY <2>2, <2>3 DEF Marked
  <2>5. Pending(a)' \subseteq Pending(a)
    BY <2>2, <2>3 DEF Pending
  <2> QED
    BY <1>1, <2>3, <2>4, <2>5
<1>7. ASSUME NEW a \in Alerts, NEW c \in Replayers, Resend(c) PROVE Goal(a)
  <2> DEFINE b == rows[Head(Todo(c))].alert
             k == [replay[c][1] EXCEPT !.submitted = TRUE]
  <2>1. /\ Running(c) /\ Todo(c) # <<>> /\ ~Submitted(c) /\ rows' = rows
        /\ replay' = [replay EXCEPT ![c] = <<k>>]
        /\ Submit(Api, b) \/ Refuse(b)
    BY <1>7 DEF Resend, Todo, Submitted, CallsAreTyped
  <2>2. b \in Alerts /\ Head(Todo(c)) \in DOMAIN rows
    BY <2>1, NextAlert
  <2>3. k.todo = Todo(c) /\ k.marks = Marks(c) /\ k.submitted = TRUE
    BY <2>1, CallType DEF Call, Todo, Marks
  <2> HIDE DEF k
  <2>4. /\ Running(c)' /\ Todo(c)' = Todo(c) /\ Submitted(c)' /\ Marks(c)' = Marks(c)
        /\ \A o \in Replayers \ {c} : /\ Running(o)' <=> Running(o)
                                      /\ Todo(o)' = Todo(o) /\ Submitted(o)' = Submitted(o)
                                      /\ Marks(o)' = Marks(o)
    BY <2>1, <2>3, CallStep
  <2>5. Marked(a)' = Marked(a)
    BY <2>1, <2>4 DEF Marked
  <2>6. Pending(a)' = IF a = b THEN Pending(a) \cup {c} ELSE Pending(a)
    BY <2>1, <2>4 DEF Pending
  <2>7. c \notin Pending(a)
    BY <2>1 DEF Pending
  <2>8. CASE a = b
    <3>1. Asked(a) > 0
      <4>1. dispatched[a] > 0
        BY <2>2, <2>8, RowMeansDispatched
      <4>2. dispatched[a] \in Nat /\ refused[a] \in Nat
        BY DEF TypeOK
      <4> QED
        BY <4>1, <4>2 DEF Asked
    <3>2. Asked(a)' = Asked(a) + 1
      <4> HIDE DEF b
      <4> QED
        BY <2>1, <2>2, <2>8, AskedStep, SiemAssumption
    <3>3. /\ IsFiniteSet(Pending(a) \cup {c})
          /\ Cardinality(Pending(a) \cup {c}) = Cardinality(Pending(a)) + 1
      BY <1>0, <2>7, FS_AddElement
    <3>4. Pending(a)' = Pending(a) \cup {c}
      BY <2>6, <2>8
    <3> QED
      BY <1>0, <2>5, <3>1, <3>2, <3>3, <3>4
  <2>9. CASE a # b
    <3>1. Asked(a)' = Asked(a)
      <4> HIDE DEF b
      <4> QED
        BY <1>0, <2>1, <2>2, <2>9, AskedStep, SiemAssumption
    <3>2. Pending(a)' = Pending(a)
      BY <2>6, <2>9
    <3> QED
      BY <1>1, <2>5, <3>1, <3>2
  <2> QED
    BY <2>8, <2>9
<1>8. ASSUME NEW a \in Alerts, NEW c \in Replayers, Mark(c) PROVE Goal(a)
  <2> DEFINE id == Head(Todo(c))
             k == [todo |-> Tail(Todo(c)), submitted |-> FALSE, marks |-> Marks(c) \cup {id}]
  <2>1. /\ Running(c) /\ Submitted(c) /\ rows' = rows /\ (\A x : Asked(x)' = Asked(x))
        /\ replay' = [replay EXCEPT ![c] = <<k>>]
    BY <1>8 DEF Mark, Todo, Marks, Submitted, CallsAreTyped, Asked
  <2>2. id \in DOMAIN rows
    BY <2>1, PendingRow
  <2>3. k.marks = Marks(c) \cup {id} /\ k.submitted = FALSE
    OBVIOUS
  <2> HIDE DEF k
  <2>4. /\ Running(c)' /\ ~Submitted(c)' /\ Marks(c)' = Marks(c) \cup {id}
        /\ \A o \in Replayers \ {c} : /\ Running(o)' <=> Running(o)
                                      /\ Todo(o)' = Todo(o) /\ Submitted(o)' = Submitted(o)
                                      /\ Marks(o)' = Marks(o)
    BY <2>1, <2>3, CallStep
  <2>5. Pending(a)' = Pending(a) \ {c}
    BY <2>1, <2>4 DEF Pending
  <2>6. CASE rows[id].alert = a
    <3>1. Marked(a)' \subseteq Marked(a) \cup {id}
      BY <2>1, <2>4 DEF Marked
    <3>2. c \in Pending(a)
      BY <2>1, <2>6 DEF Pending
    <3>3. /\ IsFiniteSet(Pending(a) \ {c})
          /\ Cardinality(Pending(a) \ {c}) = Cardinality(Pending(a)) - 1
      BY <1>0, <3>2, FS_RemoveElement
    <3>4. /\ IsFiniteSet(Marked(a) \cup {id})
          /\ Cardinality(Marked(a) \cup {id}) \in Nat
          /\ Cardinality(Marked(a) \cup {id}) <= Cardinality(Marked(a)) + 1
      <4> HIDE DEF id
      <4>1. /\ IsFiniteSet(Marked(a) \cup {id})
            /\ Cardinality(Marked(a) \cup {id}) = IF id \in Marked(a) THEN Cardinality(Marked(a))
                                                  ELSE Cardinality(Marked(a)) + 1
        BY <1>0, FS_AddElement
      <4>2. Cardinality(Marked(a)) \in Nat
        BY <1>0
      <4> QED
        BY <4>1, <4>2
    <3>5. /\ Cardinality(Marked(a)') <= Cardinality(Marked(a) \cup {id})
          /\ Cardinality(Marked(a)') \in Nat
      BY <3>1, <3>4, FS_Subset, FS_CardinalityType
    <3> HIDE DEF id
    <3> QED
      BY <1>0, <2>1, <2>5, <3>3, <3>4, <3>5
  <2>7. CASE rows[id].alert # a
    <3>1. Marked(a)' \subseteq Marked(a)
      BY <2>1, <2>4, <2>7 DEF Marked
    <3>2. Pending(a)' \subseteq Pending(a)
      BY <2>5
    <3> QED
      BY <1>1, <2>1, <3>1, <3>2
  <2> QED
    BY <2>6, <2>7
<1>9. ASSUME NEW a \in Alerts, NEW c \in Replayers, FinishReplay(c) \/ ReplayError(c) PROVE Goal(a)
  <2>1. Running(c) /\ replay' = [replay EXCEPT ![c] = Idle] /\ (\A x : Asked(x)' = Asked(x))
    BY <1>9 DEF FinishReplay, ReplayError, Asked
  <2>2. \A o \in Replayers : Running(o)' =>
          Running(o) /\ Marks(o)' = Marks(o) /\ Todo(o)' = Todo(o) /\ Submitted(o)' = Submitted(o)
    BY <2>1, CallEnds
  <2>3. CASE rows' = rows
    <3>1. Marked(a)' \subseteq Marked(a) /\ Pending(a)' \subseteq Pending(a)
      BY <2>2, <2>3, ReplaysShrink
    <3> QED
      BY <1>1, <2>1, <3>1
  <2>4. CASE rows' = [i \in DOMAIN rows |->
                        IF i \in Marks(c) THEN [rows[i] EXCEPT !.status = "replayed"] ELSE rows[i]]
    <3>1. /\ DOMAIN rows' = DOMAIN rows
          /\ \A i \in DOMAIN rows : RowIsFinal(i) /\ (i \notin Marks(c) => rows'[i] = rows[i])
      BY <2>1, <2>4, CommitRows
    <3>2. ASSUME NEW i \in DOMAIN rows PROVE rows'[i].alert = rows[i].alert
      <4>1. rows[i] \in Row
        BY LenProperties DEF TypeOK
      <4> QED
        BY <3>1, <4>1 DEF RowIsFinal, Row
    <3>3. \A i \in DOMAIN rows' : rows'[i].status = "replayed" =>
            /\ i \in DOMAIN rows
            /\ rows[i].status = "replayed" \/ \E o \in Replayers : Running(o) /\ i \in Marks(o)
      BY <2>1, <3>1
    <3>4. Marked(a)' \subseteq Marked(a) /\ Pending(a)' \subseteq Pending(a)
      BY <2>2, <3>2, <3>3, ReplaysShrink
    <3> QED
      BY <1>1, <2>1, <3>4
  <2> QED
    BY <1>9, <2>3, <2>4 DEF FinishReplay, ReplayError
<1>10. ASSUME NEW a \in Alerts, NEW p \in Procs, Crash(p) PROVE Goal(a)
  <2>1. rows' = rows /\ (\A x : Asked(x)' = Asked(x))
    BY <1>10 DEF Crash, Asked
  <2>2. CASE replay' = replay
    BY <1>1, <1>2, <2>1, <2>2
  <2>3. CASE replay' = [c \in Replayers |-> Idle]
    <3>1. \A o \in Replayers : ~Running(o)'
      BY <2>3 DEF Running
    <3>2. Marked(a)' \subseteq Marked(a) /\ Pending(a)' \subseteq Pending(a)
      BY <2>1, <3>1 DEF Marked, Pending
    <3> QED
      BY <1>1, <2>1, <3>2
  <2> QED
    BY <1>10, <2>2, <2>3 DEF Crash
<1>11. ASSUME NEW a \in Alerts, UNCHANGED vars PROVE Goal(a)
  BY <1>1, <1>2, <1>11 DEF vars, Asked
<1> HIDE DEF Goal
<1>12. ASSUME NEW a \in Alerts PROVE Goal(a)
  BY <1>3, <1>4, <1>5, <1>6, <1>7, <1>8, <1>9, <1>10, <1>11 DEF Next, Thread, Replaying, Quiet
<1> QED
  BY <1>12 DEF Goal, ReplaysAreAccountedFor

----------------------------------------------------------------------------
(* The theorems. *)

\* The inductive invariant holds at the start.
LEMMA SiemInitially == Init => SiemInvariant
<1> SUFFICES ASSUME Init PROVE SiemInvariant
  OBVIOUS
<1>1. TypeOK
  <2>1. <<>> \in Seq(Alerts) /\ rows = <<>> /\ <<>> \in Seq(Row)
    BY EmptySeq DEF Init
  <2>2. \A c \in Replayers : replay[c] = Idle
    BY DEF Init
  <2>3. worker \in [Procs -> [1..Workers -> {Idle} \cup {<<d>> : d \in Delivery}]]
    BY DEF Init
  <2> QED
    BY <2>1, <2>2, <2>3, SiemAssumption DEF Init, TypeOK
<1>2. JobsAreSound /\ \A p \in Procs, w \in 1..Workers : ~Busy(p, w)
  BY DEF Init, JobsAreSound, Busy
<1>3. \A c \in Replayers : ~Running(c)
  BY DEF Init, Running
<1>4. CallsAreTyped /\ CallsAreSound
  BY <1>3 DEF Init, CallsAreTyped, CallsAreSound
<1>5. DOMAIN rows = {}
  BY DEF Init
<1>6. IsFiniteSet({}) /\ Cardinality({}) = 0
  BY FS_EmptySet
<1>7. ASSUME NEW a \in Alerts
      PROVE  /\ AllInFlight(a) = {} /\ SentJobs(a) = {} /\ Pending(a) = {}
             /\ \A Stats : RowsOf(a, Stats) = {}
  <2>1. ASSUME NEW p \in Procs PROVE Queued(p, a) = {} /\ Held(p, a) = {}
    BY <1>2 DEF Init, Queued, Held
  <2>2. AllInFlight(a) = {}
    BY <2>1 DEF AllInFlight
  <2> QED
    BY <1>2, <1>3, <1>5, <2>2 DEF SentJobs, Pending, RowsOf
<1>8. \A a \in Alerts : dispatched[a] = 0 /\ Asked(a) = 0 /\ lost[a] = 0 /\ received[a] = 0
  BY DEF Init, Asked
<1>9. DeliveriesAreFinite /\ DeliveriesAddUp
  BY <1>6, <1>7, <1>8 DEF DeliveriesAreFinite, DeliveriesAddUp
<1>10. SentIsAccountedFor /\ ReplaysAreAccountedFor
  BY <1>6, <1>7, <1>8 DEF SentIsAccountedFor, ReplaysAreAccountedFor
<1> QED
  BY <1>1, <1>2, <1>4, <1>9, <1>10 DEF SiemInvariant

\* Every step of a process, a thread or a caller keeps the invariant.
THEOREM SiemInductive == SiemInvariant /\ [Next]_vars => SiemInvariant'
<1> SUFFICES ASSUME SiemInvariant, [Next]_vars PROVE SiemInvariant'
  OBVIOUS
<1>1. TypeOK' /\ JobsAreSound' /\ CallsAreTyped' /\ CallsAreSound'
  BY SiemTyping DEF SiemInvariant
<1>2. DeliveriesAreFinite' /\ DeliveriesAddUp'
  BY <1>1, DeliveriesStep DEF SiemInvariant
<1>3. SentIsAccountedFor'
  BY <1>1, SentStep DEF SiemInvariant
<1>4. ReplaysAreAccountedFor'
  BY <1>1, ReplaysStep DEF SiemInvariant
<1> QED
  BY <1>1, <1>2, <1>3, <1>4 DEF SiemInvariant

\* In every reachable state each delivery, each "sent" and each replayed row is
\* accounted for (siem.py).
THEOREM SiemSafety == Spec => []SiemInvariant
BY SiemInitially, SiemInductive, PTL DEF Spec

\* The types, among them that no delivery makes more than SIEM_RETRIES attempts
\* (siem.py:120-126).
THEOREM SiemTypes == Spec => []TypeOK
<1>1. SiemInvariant => TypeOK
  BY DEF SiemInvariant
<1> QED
  BY <1>1, SiemSafety, PTL

\* Every delivery submitted is in flight, recorded as one row, or lost to a
\* crash or a database error (siem.py:113-140, 163-169).
THEOREM DeliveriesAlwaysAddUp == Spec => []DeliveriesAddUp
<1>1. SiemInvariant => DeliveriesAddUp
  BY DEF SiemInvariant
<1> QED
  BY <1>1, SiemSafety, PTL

\* The panel says "sent" of an alert at most as often as the SIEM took it
\* (siem.py:93-99, 119-137).
THEOREM SentWasReceived == Spec => []SentMeansReceived
<1>1. SiemInvariant => SentMeansReceived
  <2> SUFFICES ASSUME SiemInvariant, NEW a \in Alerts
               PROVE  Cardinality(RowsOf(a, {"sent"})) <= received[a]
    BY DEF SentMeansReceived
  <2>1. /\ IsFiniteSet(SentJobs(a))
        /\ Cardinality(RowsOf(a, {"sent"})) + Cardinality(SentJobs(a)) <= received[a]
    BY DEF SiemInvariant, SentIsAccountedFor
  <2>2. Cardinality(SentJobs(a)) \in Nat
    BY <2>1, FS_CardinalityType
  <2>3. Cardinality(RowsOf(a, {"sent"})) \in Nat /\ received[a] \in Nat
    BY RowsOfFinite DEF SiemInvariant, TypeOK
  <2> QED
    BY <2>1, <2>2, <2>3
<1> QED
  BY <1>1, SiemSafety, PTL

\* A row is marked as replayed only if a pool was asked for a further delivery of
\* its alert on its account, whatever rows fail meanwhile and whoever replays at
\* the same time (siem.py:163-170).  The pool may have refused: replay_failed does
\* not look at the answer.
THEOREM ReplayedWasAskedFor == Spec => []ReplayedIsAskedFor
<1>1. SiemInvariant => ReplayedIsAskedFor
  <2> SUFFICES ASSUME SiemInvariant, NEW a \in Alerts, RowsOf(a, {"replayed"}) # {}
               PROVE  Cardinality(RowsOf(a, {"replayed"})) < Asked(a)
    BY DEF ReplayedIsAskedFor
  <2>1. RowsOf(a, {"replayed"}) \subseteq Marked(a)
    BY DEF RowsOf, Marked
  <2>2. IsFiniteSet(Marked(a)) /\ Cardinality(Marked(a)) \in Nat
    BY MarkedFinite DEF SiemInvariant
  <2>3. /\ Cardinality(RowsOf(a, {"replayed"})) <= Cardinality(Marked(a))
        /\ Cardinality(RowsOf(a, {"replayed"})) \in Nat
    BY <2>1, <2>2, RowsOfFinite, FS_Subset DEF SiemInvariant
  <2>4. Asked(a) > 0
    <3>1. PICK i \in DOMAIN rows : rows[i].alert = a
      BY DEF RowsOf
    <3>2. dispatched[a] \in Nat /\ refused[a] \in Nat
      BY DEF SiemInvariant, TypeOK
    <3> QED
      BY <3>1, <3>2, RowMeansDispatched DEF SiemInvariant, Asked
  <2>5. /\ IsFiniteSet(Pending(a))
        /\ 1 + Cardinality(Marked(a)) + Cardinality(Pending(a)) <= Asked(a)
    BY <2>4 DEF SiemInvariant, ReplaysAreAccountedFor
  <2>6. Cardinality(Pending(a)) \in Nat /\ Asked(a) \in Nat
    BY <2>5, FS_CardinalityType DEF SiemInvariant, TypeOK, Asked
  <2> QED
    BY <2>2, <2>3, <2>5, <2>6
<1> QED
  BY <1>1, SiemSafety, PTL

\* Rows are final: a commit of replay_failed marks rows that failed and touches
\* no other, however the rows grew since it chose them (siem.py:153-157, 170).
THEOREM RowsStayFinal == Spec => RowsAreFinal
<1>1. SiemInvariant /\ [Next]_vars =>
        [\A i \in DOMAIN rows :
           i \in DOMAIN rows' /\ (rows'[i] # rows[i] =>
             rows[i].status = "failed" /\ rows'[i] = [rows[i] EXCEPT !.status = "replayed"])]_vars
  BY RowsStep DEF SiemInvariant, RowIsFinal
<1> QED
  BY <1>1, SiemSafety, PTL DEF Spec, RowsAreFinal

=============================================================================
