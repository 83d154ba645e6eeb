---------------------------- MODULE QueueProofs ----------------------------
(***************************************************************************)
(* Proofs about IngestQueue: for any number of requests, consumers and      *)
(* faults, the queue implements the promise of IngestPromise, and a final   *)
(* status sticks.                                                          *)
(***************************************************************************)
EXTENDS IngestQueue, CountingLemmas

----------------------------------------------------------------------------
(* The inductive invariant. *)

\* The consumers that hold a job, and those among them that have still to end it.
Hands(r)  == {c \in Consumers : hand[c] = r}
AtWork(r) == {c \in Consumers : hand[c] = r /\ consumer[c] \in {"popped", "working"}}

\* A consumer holds a job except while it waits for one.
HandsAreSound == \A c \in Consumers : hand[c] = None <=> consumer[c] = "wait"

\* Every copy of a job that was pushed is in one place at most: on the list, in
\* a consumer's hand, or behind the final status.
HasEnded(r) == IF result[r] \in Final THEN 1 ELSE 0
CopiesAddUp ==
  \A r \in Reqs : /\ IsFiniteSet(Hands(r))
                  /\ Copies(r) + Cardinality(Hands(r)) + HasEnded(r) <= pushes[r]

\* A handler that has not started pushed nothing; one that has not ended told
\* its caller nothing.
StagesAreSound ==
  \A r \in Reqs : /\ api[r] = "new" => pushes[r] = 0
                  /\ api[r] # "done" => told[r] = "nothing"

\* "success", published or about to be, is said of stored emails.
SuccessIsStored ==
  /\ \A r \in Reqs : result[r] = "success" => stored[r] > 0
  /\ \A c \in Consumers : consumer[c] = "report" /\ ok[c] => stored[hand[c]] > 0

QueueInvariant ==
  TypeOK /\ HandsAreSound /\ CopiesAddUp /\ StagesAreSound /\ SuccessIsStored

----------------------------------------------------------------------------
(* Types. *)

\* A consumer that does not wait has one of the jobs.
LEMMA HandType ==
  ASSUME TypeOK, HandsAreSound, NEW c \in Consumers, consumer[c] # "wait" PROVE hand[c] \in Reqs
BY DEF TypeOK, HandsAreSound

\* The budget of faults is kept.
LEMMA FaultType == ASSUME TypeOK, Fault \/ NoFault PROVE faults' \in 0..MaxFaults
BY QueueAssumption DEF TypeOK, Fault, NoFault

\* Every step keeps the types, and hands and places of consumers in agreement.
LEMMA QueueTyping ==
  ASSUME TypeOK, HandsAreSound, [Next]_vars PROVE TypeOK' /\ HandsAreSound'
<1> USE QueueAssumption DEF TypeOK, HandsAreSound, Statuses, Final
<1>1. ASSUME NEW r \in Reqs, Push(r) PROVE TypeOK' /\ HandsAreSound'
  <2>1. PICK n \in 0..2 : /\ queue' = queue \o [i \in 1..n |-> r]
                          /\ pushes' = [pushes EXCEPT ![r] = n]
                          /\ \/ api' = [api EXCEPT ![r] = "pushed"]
                             \/ api' = [api EXCEPT ![r] = "sync"]
                          /\ Fault \/ NoFault
    BY <1>1 DEF Push
  <2>2. queue' \in Seq(Reqs)
    BY <2>1
  <2>3. pushes' \in [Reqs -> 0..2] /\ api' \in [Reqs -> {"new", "pushed", "sync", "done"}]
    BY <2>1
  <2>4. UNCHANGED <<result, consumer, hand, ok, stored, told>> /\ faults' \in 0..MaxFaults
    BY <1>1, <2>1, FaultType DEF Push
  <2> QED
    BY <2>2, <2>3, <2>4
<1>2. ASSUME NEW r \in Reqs, SetQueued(r) PROVE TypeOK' /\ HandsAreSound'
  <2>1. /\ api' = [api EXCEPT ![r] = "done"] \/ api' = [api EXCEPT ![r] = "sync"]
        /\ result' = result \/ result' = [result EXCEPT ![r] = "queued"]
        /\ told' = told \/ told' = [told EXCEPT ![r] = "accepted"]
        /\ Fault \/ NoFault
    BY <1>2 DEF SetQueued
  <2>2. UNCHANGED <<queue, consumer, hand, ok, stored, pushes>> /\ faults' \in 0..MaxFaults
    BY <1>2, <2>1, FaultType DEF SetQueued
  <2> QED
    BY <2>1, <2>2
<1>3. ASSUME NEW r \in Reqs, ProcessSync(r) PROVE TypeOK' /\ HandsAreSound'
  <2>1. /\ api' = [api EXCEPT ![r] = "done"]
        /\ stored' = stored \/ stored' = [stored EXCEPT ![r] = @ + 1]
        /\ told' = [told EXCEPT ![r] = "verdict"] \/ told' = [told EXCEPT ![r] = "error"]
        /\ Fault \/ NoFault
    BY <1>3 DEF ProcessSync
  <2>2. UNCHANGED <<queue, result, consumer, hand, ok, pushes>> /\ faults' \in 0..MaxFaults
    BY <1>3, <2>1, FaultType DEF ProcessSync
  <2>3. api' \in [Reqs -> {"new", "pushed", "sync", "done"}]
    BY <2>1
  <2>4. stored' \in [Reqs -> Nat]
    BY <2>1
  <2>5. told' \in [Reqs -> {"nothing", "accepted", "verdict", "error"}]
    BY <2>1
  <2> QED
    BY <2>2, <2>3, <2>4, <2>5
<1>4. ASSUME NEW r \in Reqs, ApiCrash(r) PROVE TypeOK' /\ HandsAreSound'
  BY <1>4, FaultType DEF ApiCrash
<1>5. ASSUME NEW r \in Reqs, Poll(r) \/ Expire(r) PROVE TypeOK' /\ HandsAreSound'
  BY <1>5 DEF Poll, Expire
<1>6. ASSUME NEW c \in Consumers, Pop(c) PROVE TypeOK' /\ HandsAreSound'
  <2>1. queue' \in Seq(Reqs) /\ Head(queue) \in Reqs
    BY <1>6, HeadTailProperties DEF Pop, QueueAfterPop
  <2>2. \/ /\ hand' = [hand EXCEPT ![c] = Head(queue)]
           /\ consumer' = [consumer EXCEPT ![c] = "popped"]
        \/ UNCHANGED <<hand, consumer>>
    BY <1>6 DEF Pop
  <2>3. UNCHANGED <<api, result, ok, stored, told, pushes>> /\ faults' \in 0..MaxFaults
    BY <1>6, FaultType DEF Pop
  <2>4. hand' \in [Consumers -> Reqs \cup {None}]
    <3>1. CASE hand' = [hand EXCEPT ![c] = Head(queue)]
      BY <2>1, <3>1, Zenon
    <3>2. CASE UNCHANGED hand
      BY <3>2
    <3> QED
      BY <2>2, <3>1, <3>2
  <2>5. consumer' \in [Consumers -> {"wait", "popped", "working", "report"}]
    BY <2>2
  <2>6. \A d \in Consumers : hand'[d] = None <=> consumer'[d] = "wait"
    BY <2>1, <2>2
  <2> QED
    BY <2>1, <2>3, <2>4, <2>5, <2>6
<1>7. ASSUME NEW c \in Consumers, MarkProcessing(c) PROVE TypeOK' /\ HandsAreSound'
  <2>1. /\ result' = result \/ result' = [result EXCEPT ![hand[c]] = "processing"]
        /\ consumer' = [consumer EXCEPT ![c] = "working"] /\ consumer[c] = "popped"
    BY <1>7 DEF MarkProcessing
  <2>2. UNCHANGED <<api, queue, hand, ok, stored, told, pushes>> /\ faults' \in 0..MaxFaults
    BY <1>7, FaultType DEF MarkProcessing
  <2> QED
    BY <2>1, <2>2
<1>8. ASSUME NEW c \in Consumers, Process(c) PROVE TypeOK' /\ HandsAreSound'
  <2>1. /\ ok' = [ok EXCEPT ![c] = TRUE] \/ ok' = [ok EXCEPT ![c] = FALSE]
        /\ consumer' = [consumer EXCEPT ![c] = "report"] /\ consumer[c] = "working"
        /\ stored' = stored \/ stored' = [stored EXCEPT ![hand[c]] = @ + 1]
    BY <1>8 DEF Process, AfterWork
  <2>2. UNCHANGED <<api, queue, result, hand, told, pushes>> /\ faults' \in 0..MaxFaults
    BY <1>8, FaultType DEF Process, QueueAfterWork
  <2>3. ok' \in [Consumers -> BOOLEAN]
    BY <2>1
  <2>4. stored' \in [Reqs -> Nat]
    BY <2>1, HandType
  <2>5. consumer' \in [Consumers -> {"wait", "popped", "working", "report"}]
    BY <2>1
  <2>6. \A d \in Consumers : hand[d] = None <=> consumer'[d] = "wait"
    BY <2>1
  <2> QED
    BY <2>2, <2>3, <2>4, <2>5, <2>6
<1>9. ASSUME NEW c \in Consumers, Report(c) PROVE TypeOK' /\ HandsAreSound'
  <2>1. \/ result' = result
        \/ result' = [result EXCEPT ![hand[c]] = ReportedStatus(c)]
    BY <1>9 DEF Report
  <2>2. UNCHANGED <<api, queue, stored, told, pushes>> /\ faults' \in 0..MaxFaults
    BY <1>9, FaultType DEF Report
  <2> QED
    BY <1>9, <2>1, <2>2 DEF Report, ReportedStatus
<1>10. ASSUME NEW c \in Consumers, ConsumerCrash(c) PROVE TypeOK' /\ HandsAreSound'
  BY <1>10, FaultType DEF ConsumerCrash
<1>11. CASE RedisRestart
  BY <1>11, FaultType DEF RedisRestart
<1>12. CASE UNCHANGED vars
  BY <1>12 DEF vars
<1> HIDE DEF TypeOK, HandsAreSound
<1> QED
  BY <1>1, <1>2, <1>3, <1>4, <1>5, <1>6, <1>7, <1>8, <1>9, <1>10, <1>11, <1>12
     DEF Next, Handler, Consume, Quiet

----------------------------------------------------------------------------
(* What the steps do to the copies of a job. *)

\* The number of copies on the list is a natural number.
LEMMA CopiesType ==
  ASSUME TypeOK, NEW r PROVE Copies(r) = Cardinality(Positions(queue, r)) /\ Copies(r) \in Nat
<1>1. Copies(r) = Cardinality(Positions(queue, r))
  BY DEF Copies, Positions
<1> QED
  BY <1>1, PositionsFinite DEF TypeOK

\* RPUSH adds the copies it appended.
LEMMA PushEffect ==
  ASSUME TypeOK, NEW r \in Reqs, Push(r)
  PROVE  /\ pushes'[r] \in 0..2
         /\ \A q \in Reqs : /\ pushes'[q] = IF q = r THEN pushes'[r] ELSE pushes[q]
                            /\ Copies(q)' = Copies(q) + (IF q = r THEN pushes'[r] ELSE 0)
<1>1. PICK n \in 0..2 : /\ queue' = queue \o [i \in 1..n |-> r]
                        /\ pushes' = [pushes EXCEPT ![r] = n]
  BY DEF Push
<1>2. pushes'[r] = n /\ \A q \in Reqs : q # r => pushes'[q] = pushes[q]
  BY <1>1 DEF TypeOK
<1>3. ASSUME NEW q \in Reqs
      PROVE  Cardinality(Positions(queue', q)) = Cardinality(Positions(queue, q)) + (IF q = r THEN n ELSE 0)
  <2> DEFINE more == [i \in 1..n |-> r]
  <2>1. queue \in Seq(Reqs) /\ queue' = queue \o more
    BY <1>1 DEF TypeOK
  <2>2. more \in Seq(Reqs) /\ DOMAIN more = 1..n /\ \A i \in 1..n : more[i] = r
    OBVIOUS
  <2>3. Positions(more, q) = IF q = r THEN 1..n ELSE {}
    BY <2>2 DEF Positions
  <2>4. Cardinality(1..n) = n /\ Cardinality({}) = 0
    <3>1. 1 \in Int /\ n \in Int
      OBVIOUS
    <3>2. Cardinality(1..n) = IF 1 > n THEN 0 ELSE n - 1 + 1
      BY <3>1, FS_Interval
    <3> QED
      BY <3>2, FS_EmptySet
  <2> HIDE DEF more
  <2>5. Cardinality(Positions(queue \o more, q))
          = Cardinality(Positions(queue, q)) + Cardinality(Positions(more, q))
    BY <2>1, <2>2, CountConcat
  <2> QED
    BY <2>1, <2>3, <2>4, <2>5
<1>4. ASSUME NEW q \in Reqs PROVE Copies(q)' = Copies(q) + (IF q = r THEN n ELSE 0)
  BY <1>3 DEF Copies, Positions
<1> QED
  BY <1>2, <1>4

\* BLPOP takes one copy of the oldest job.
LEMMA PopEffect ==
  ASSUME TypeOK, NEW c \in Consumers, Pop(c)
  PROVE  /\ Head(queue) \in Reqs
         /\ \A q \in Reqs : Copies(q) = Copies(q)' + (IF q = Head(queue) THEN 1 ELSE 0)
<1>1. queue # <<>> /\ queue' = Tail(queue) /\ queue \in Seq(Reqs)
  BY DEF Pop, QueueAfterPop, TypeOK
<1>2. ASSUME NEW q \in Reqs
      PROVE  Cardinality(Positions(queue, q)) = Cardinality(Positions(queue', q))
                                                + (IF q = Head(queue) THEN 1 ELSE 0)
  BY <1>1, CountTail
<1>3. ASSUME NEW q \in Reqs PROVE Copies(q) = Copies(q)' + (IF q = Head(queue) THEN 1 ELSE 0)
  BY <1>2 DEF Copies, Positions
<1> QED
  BY <1>1, <1>3, HeadTailProperties

\* The other steps of handlers and consumers leave the list alone.
LEMMA CopiesKept == ASSUME queue' = queue, NEW q PROVE Copies(q)' = Copies(q)
BY DEF Copies

\* Redis loses its list.
LEMMA CopiesLost == ASSUME queue' = <<>>, NEW q PROVE Copies(q)' = 0
<1>1. {i \in DOMAIN queue' : queue'[i] = q} = {}
  BY PositionsEmpty DEF Positions
<1> QED
  BY <1>1, FS_EmptySet DEF Copies

----------------------------------------------------------------------------
(* What the steps do to the hands that hold a job. *)

\* A waiting consumer takes a job: one more hand holds it.
LEMMA TakeEffect ==
  ASSUME TypeOK, HandsAreSound, NEW c \in Consumers, consumer[c] = "wait", NEW r \in Reqs,
         hand' = [hand EXCEPT ![c] = r], NEW q \in Reqs, IsFiniteSet(Hands(q))
  PROVE  /\ IsFiniteSet(Hands(q)')
         /\ Cardinality(Hands(q)') = Cardinality(Hands(q)) + (IF q = r THEN 1 ELSE 0)
<1>1. hand[c] = None /\ None # q
  BY QueueAssumption DEF HandsAreSound
<1>2. c \notin Hands(q)
  BY <1>1 DEF Hands
<1>3. Hands(q)' = IF q = r THEN Hands(q) \cup {c} ELSE Hands(q)
  BY <1>1 DEF Hands, TypeOK
<1>4. Cardinality(Hands(q)) \in Nat
  BY FS_CardinalityType
<1>5. /\ IsFiniteSet(Hands(q) \cup {c})
      /\ Cardinality(Hands(q) \cup {c}) = IF c \in Hands(q) THEN Cardinality(Hands(q))
                                                            ELSE Cardinality(Hands(q)) + 1
  BY FS_AddElement
<1> QED
  BY <1>2, <1>3, <1>4, <1>5

\* A consumer lets its job go: one hand less holds it.
LEMMA ReleaseEffect ==
  ASSUME TypeOK, HandsAreSound, NEW c \in Consumers, consumer[c] # "wait",
         hand' = [hand EXCEPT ![c] = None], NEW q \in Reqs, IsFiniteSet(Hands(q))
  PROVE  /\ IsFiniteSet(Hands(q)')
         /\ Cardinality(Hands(q)') = Cardinality(Hands(q)) - (IF q = hand[c] THEN 1 ELSE 0)
<1>1. None # q
  BY QueueAssumption
<1>2. Hands(q)' = Hands(q) \ {c}
  BY <1>1 DEF Hands, TypeOK
<1>3. c \in Hands(q) <=> q = hand[c]
  BY DEF Hands
<1>4. Cardinality(Hands(q)) \in Nat
  BY FS_CardinalityType
<1>5. /\ IsFiniteSet(Hands(q) \ {c})
      /\ Cardinality(Hands(q) \ {c}) = IF c \in Hands(q) THEN Cardinality(Hands(q)) - 1
                                                         ELSE Cardinality(Hands(q))
  BY FS_RemoveElement
<1> QED
  BY <1>2, <1>3, <1>4, <1>5

\* The other steps leave the hands as they are.
LEMMA HandsKept == ASSUME hand' = hand, NEW q PROVE Hands(q)' = Hands(q)
BY DEF Hands

\* Only Report gives a job a final status.
LEMMA EndedDrops ==
  ASSUME TypeOK, NEW q \in Reqs, NEW r \in Reqs,
         \/ result' = result
         \/ \E s \in Statuses \ Final : result' = [result EXCEPT ![r] = s]
  PROVE  HasEnded(q)' <= HasEnded(q) /\ HasEnded(q) \in 0..1 /\ HasEnded(q)' \in 0..1
<1>1. result'[q] \in Final => result[q] \in Final
  BY DEF TypeOK
<1> QED
  BY <1>1 DEF HasEnded

----------------------------------------------------------------------------
(* No copy of a job is in two places. *)

\* One request's part of CopiesAddUp, before and after a step.
LEMMA AddUpNumbers ==
  ASSUME TypeOK, CopiesAddUp, NEW q \in Reqs
  PROVE  /\ IsFiniteSet(Hands(q)) /\ Cardinality(Hands(q)) \in Nat
         /\ Copies(q) \in Nat /\ HasEnded(q) \in 0..1 /\ pushes[q] \in 0..2
         /\ Copies(q) + Cardinality(Hands(q)) + HasEnded(q) <= pushes[q]
BY CopiesType, FS_CardinalityType DEF CopiesAddUp, HasEnded, TypeOK

\* No step makes copies of a job: it moves them, ends them or loses them.
LEMMA AddUpStep ==
  ASSUME TypeOK, HandsAreSound, CopiesAddUp, StagesAreSound, [Next]_vars
  PROVE  CopiesAddUp'
<1> DEFINE Kept(q) == /\ IsFiniteSet(Hands(q)')
                      /\ Copies(q)' + Cardinality(Hands(q)') + HasEnded(q)' <= pushes'[q]
<1> SUFFICES ASSUME NEW q \in Reqs PROVE Kept(q)
  BY DEF CopiesAddUp
<1>0. /\ IsFiniteSet(Hands(q)) /\ Cardinality(Hands(q)) \in Nat
      /\ Copies(q) \in Nat /\ HasEnded(q) \in 0..1 /\ pushes[q] \in 0..2
      /\ Copies(q) + Cardinality(Hands(q)) + HasEnded(q) <= pushes[q]
  BY AddUpNumbers
<1>1. ASSUME NEW r \in Reqs, Push(r) PROVE Kept(q)
  <2>1. /\ pushes'[r] \in 0..2
        /\ pushes'[q] = IF q = r THEN pushes'[r] ELSE pushes[q]
        /\ Copies(q)' = Copies(q) + (IF q = r THEN pushes'[r] ELSE 0)
    BY <1>1, PushEffect
  <2>2. Hands(q)' = Hands(q) /\ HasEnded(q)' = HasEnded(q)
    BY <1>1, HandsKept DEF Push, HasEnded
  <2>3. pushes[r] = 0
    BY <1>1 DEF Push, StagesAreSound
  <2> QED
    BY <1>0, <2>1, <2>2, <2>3
<1>2. ASSUME NEW r \in Reqs, SetQueued(r) \/ Expire(r) PROVE Kept(q)
  <2>1. Hands(q)' = Hands(q) /\ Copies(q)' = Copies(q) /\ pushes' = pushes
    BY <1>2, HandsKept, CopiesKept DEF SetQueued, Expire
  <2>2. \/ result' = result
        \/ \E s \in Statuses \ Final : result' = [result EXCEPT ![r] = s]
    BY <1>2 DEF SetQueued, Expire, Statuses, Final
  <2>3. HasEnded(q)' <= HasEnded(q) /\ HasEnded(q)' \in 0..1
    BY <2>2, EndedDrops
  <2> QED
    BY <1>0, <2>1, <2>3
<1>3. ASSUME NEW r \in Reqs, ProcessSync(r) \/ ApiCrash(r) \/ Poll(r) PROVE Kept(q)
  <2>1. UNCHANGED <<queue, hand, result, pushes>>
    BY <1>3 DEF ProcessSync, ApiCrash, Poll
  <2>2. Hands(q)' = Hands(q) /\ Copies(q)' = Copies(q) /\ HasEnded(q)' = HasEnded(q)
    BY <2>1, HandsKept, CopiesKept DEF HasEnded
  <2> QED
    BY <1>0, <2>1, <2>2
<1>4. ASSUME NEW c \in Consumers, Pop(c) PROVE Kept(q)
  <2>1. /\ Head(queue) \in Reqs
        /\ Copies(q) = Copies(q)' + (IF q = Head(queue) THEN 1 ELSE 0)
    BY <1>4, PopEffect
  <2>2. HasEnded(q)' = HasEnded(q) /\ pushes' = pushes /\ consumer[c] = "wait"
    BY <1>4 DEF Pop, HasEnded
  <2>3. /\ IsFiniteSet(Hands(q)')
        /\ \/ Cardinality(Hands(q)') = Cardinality(Hands(q)) + (IF q = Head(queue) THEN 1 ELSE 0)
           \/ Cardinality(Hands(q)') = Cardinality(Hands(q))
    <3>1. CASE hand' = [hand EXCEPT ![c] = Head(queue)]
      BY <1>0, <2>1, <2>2, <3>1, TakeEffect
    <3>2. CASE hand' = hand
      BY <1>0, <3>2, HandsKept
    <3> QED
      BY <1>4, <3>1, <3>2 DEF Pop
  <2>4. Copies(q)' \in Nat
    <3>1. queue' \in Seq(Reqs)
      BY <1>4, QueueTyping DEF TypeOK, Next, Consume
    <3> QED
      BY <3>1, PositionsFinite DEF Copies, Positions
  <2> QED
    BY <1>0, <2>1, <2>2, <2>3, <2>4
<1>5. ASSUME NEW c \in Consumers, MarkProcessing(c) \/ Process(c) PROVE Kept(q)
  <2>1. hand[c] \in Reqs
    BY <1>5, HandType DEF MarkProcessing, Process
  <2>2. Hands(q)' = Hands(q) /\ Copies(q)' = Copies(q) /\ pushes' = pushes
    BY <1>5, HandsKept, CopiesKept DEF MarkProcessing, Process, QueueAfterWork
  <2>3. \/ result' = result
        \/ \E s \in Statuses \ Final : result' = [result EXCEPT ![hand[c]] = s]
    BY <1>5 DEF MarkProcessing, Process, Statuses, Final
  <2>4. HasEnded(q)' <= HasEnded(q) /\ HasEnded(q)' \in 0..1
    BY <2>1, <2>3, EndedDrops
  <2> QED
    BY <1>0, <2>2, <2>4
<1>6. ASSUME NEW c \in Consumers, Report(c) PROVE Kept(q)
  <2>1. /\ IsFiniteSet(Hands(q)')
        /\ Cardinality(Hands(q)') = Cardinality(Hands(q)) - (IF q = hand[c] THEN 1 ELSE 0)
    BY <1>0, <1>6, ReleaseEffect DEF Report
  <2>2. Copies(q)' = Copies(q) /\ pushes' = pushes
    BY <1>6, CopiesKept DEF Report
  <2>3. q # hand[c] => HasEnded(q)' = HasEnded(q)
    BY <1>6 DEF Report, HasEnded, TypeOK
  <2>4. HasEnded(q)' \in 0..1
    BY DEF HasEnded
  <2> QED
    BY <1>0, <2>1, <2>2, <2>3, <2>4
<1>7. ASSUME NEW c \in Consumers, ConsumerCrash(c) PROVE Kept(q)
  <2>1. /\ IsFiniteSet(Hands(q)')
        /\ Cardinality(Hands(q)') = Cardinality(Hands(q)) - (IF q = hand[c] THEN 1 ELSE 0)
    BY <1>0, <1>7, ReleaseEffect DEF ConsumerCrash
  <2>2. Copies(q)' = Copies(q) /\ pushes' = pushes /\ HasEnded(q)' = HasEnded(q)
    BY <1>7, CopiesKept DEF ConsumerCrash, HasEnded
  <2> QED
    BY <1>0, <2>1, <2>2
<1>8. CASE RedisRestart
  <2>1. Copies(q)' = 0 /\ Hands(q)' = Hands(q) /\ pushes' = pushes /\ HasEnded(q)' = 0
    BY <1>8, CopiesLost, HandsKept DEF RedisRestart, HasEnded, Final
  <2> QED
    BY <1>0, <2>1
<1>9. CASE UNCHANGED vars
  <2>1. Copies(q)' = Copies(q) /\ Hands(q)' = Hands(q) /\ pushes' = pushes /\ HasEnded(q)' = HasEnded(q)
    BY <1>9, CopiesKept, HandsKept DEF vars, HasEnded
  <2> QED
    BY <1>0, <2>1
<1> HIDE DEF Kept
<1> QED
  BY <1>1, <1>2, <1>3, <1>4, <1>5, <1>6, <1>7, <1>8, <1>9 DEF Next, Handler, Consume, Quiet

----------------------------------------------------------------------------
(* Callers are told what is so. *)

\* A handler pushes and answers only in its own order.
LEMMA StagesStep ==
  ASSUME TypeOK, HandsAreSound, StagesAreSound, [Next]_vars PROVE StagesAreSound'
<1> USE DEF TypeOK, StagesAreSound
<1>1. ASSUME NEW r \in Reqs, Push(r) PROVE StagesAreSound'
  <2>1. /\ \A q \in Reqs : q # r => pushes'[q] = pushes[q] /\ api'[q] = api[q]
        /\ api'[r] # "new" /\ told' = told
    BY <1>1 DEF Push
  <2> QED
    BY <1>1, <2>1 DEF Push
<1>2. ASSUME NEW r \in Reqs, SetQueued(r) PROVE StagesAreSound'
  BY <1>2 DEF SetQueued
<1>3. ASSUME NEW r \in Reqs, ProcessSync(r) \/ ApiCrash(r) PROVE StagesAreSound'
  BY <1>3 DEF ProcessSync, ApiCrash
<1>4. ASSUME NEW r \in Reqs, Poll(r) \/ Expire(r) PROVE StagesAreSound'
  BY <1>4 DEF Poll, Expire
<1>5. ASSUME NEW c \in Consumers, Pop(c) \/ MarkProcessing(c) \/ Process(c) \/ Report(c)
      PROVE  StagesAreSound'
  BY <1>5 DEF Pop, MarkProcessing, Process, Report
<1>6. ASSUME NEW c \in Consumers, ConsumerCrash(c) PROVE StagesAreSound'
  BY <1>6 DEF ConsumerCrash
<1>7. CASE RedisRestart \/ UNCHANGED vars
  BY <1>7 DEF RedisRestart, vars
<1> HIDE DEF TypeOK, StagesAreSound
<1> QED
  BY <1>1, <1>2, <1>3, <1>4, <1>5, <1>6, <1>7 DEF Next, Handler, Consume, Quiet

\* Rows are only added.
LEMMA StoredGrows ==
  ASSUME TypeOK, HandsAreSound, [Next]_vars, NEW r \in Reqs
  PROVE  stored'[r] >= stored[r] /\ stored[r] \in Nat /\ stored'[r] \in Nat
<1> USE DEF TypeOK
<1>1. ASSUME NEW q \in Reqs, ProcessSync(q) PROVE stored'[r] >= stored[r]
  <2>1. stored' = stored \/ stored' = [stored EXCEPT ![q] = @ + 1]
    BY <1>1 DEF ProcessSync
  <2>2. stored[r] \in Nat /\ (stored'[r] = stored[r] \/ stored'[r] = stored[r] + 1)
    BY <2>1
  <2> QED
    BY <2>2
<1>2. ASSUME NEW c \in Consumers, Process(c) PROVE stored'[r] >= stored[r]
  <2>1. stored' = stored \/ stored' = [stored EXCEPT ![hand[c]] = @ + 1]
    BY <1>2 DEF Process
  <2>2. hand[c] \in Reqs
    BY <1>2, HandType DEF Process
  <2>3. stored[r] \in Nat /\ (stored'[r] = stored[r] \/ stored'[r] = stored[r] + 1)
    BY <2>1, <2>2
  <2> QED
    BY <2>3
<1>3. ASSUME NEW q \in Reqs, Push(q) \/ SetQueued(q) \/ ApiCrash(q) \/ Poll(q) \/ Expire(q)
      PROVE  stored' = stored
  BY <1>3 DEF Push, SetQueued, ApiCrash, Poll, Expire
<1>4. ASSUME NEW c \in Consumers, Pop(c) \/ MarkProcessing(c) \/ Report(c) \/ ConsumerCrash(c)
      PROVE  stored' = stored
  BY <1>4 DEF Pop, MarkProcessing, Report, ConsumerCrash
<1>5. CASE RedisRestart \/ UNCHANGED vars
  BY <1>5 DEF RedisRestart, vars
<1>6. stored'[r] >= stored[r]
  BY <1>1, <1>2, <1>3, <1>4, <1>5 DEF Next, Handler, Consume, Quiet
<1>7. stored'[r] \in Nat
  BY QueueTyping
<1> QED
  BY <1>6, <1>7

\* Success is published only by a consumer that stored the email.
LEMMA SuccessStep ==
  ASSUME TypeOK, HandsAreSound, SuccessIsStored, [Next]_vars PROVE SuccessIsStored'
<1>0. \A r \in Reqs : stored[r] > 0 => stored'[r] > 0
  BY StoredGrows
<1>1. ASSUME NEW r \in Reqs, result'[r] = "success" PROVE stored'[r] > 0
  <2>1. CASE result[r] = "success"
    BY <1>0, <2>1 DEF SuccessIsStored
  <2>2. CASE result[r] # "success"
    <3>1. ASSUME NEW c \in Consumers, Report(c) PROVE stored'[r] > 0
      <4>1. r = hand[c] /\ ok[c] /\ consumer[c] = "report"
        BY <1>1, <2>2, <3>1 DEF Report, ReportedStatus, TypeOK
      <4> QED
        BY <1>0, <4>1 DEF SuccessIsStored
    <3>2. ASSUME NEW q \in Reqs, SetQueued(q) \/ Expire(q) PROVE FALSE
      BY <1>1, <2>2, <3>2 DEF SetQueued, Expire, TypeOK
    <3>3. ASSUME NEW q \in Reqs, Push(q) \/ ProcessSync(q) \/ ApiCrash(q) \/ Poll(q) PROVE FALSE
      BY <1>1, <2>2, <3>3 DEF Push, ProcessSync, ApiCrash, Poll
    <3>4. ASSUME NEW c \in Consumers, MarkProcessing(c) PROVE FALSE
      BY <1>1, <2>2, <3>4 DEF MarkProcessing, TypeOK
    <3>5. ASSUME NEW c \in Consumers, Pop(c) \/ Process(c) \/ ConsumerCrash(c) PROVE FALSE
      BY <1>1, <2>2, <3>5 DEF Pop, Process, ConsumerCrash
    <3>6. ~RedisRestart /\ ~UNCHANGED vars
      BY <1>1, <2>2 DEF RedisRestart, vars
    <3> QED
      BY <3>1, <3>2, <3>3, <3>4, <3>5, <3>6 DEF Next, Handler, Consume, Quiet
  <2> QED
    BY <2>1, <2>2
<1>2. ASSUME NEW c \in Consumers, consumer'[c] = "report", ok'[c] PROVE stored'[hand'[c]] > 0
  <2>1. CASE consumer[c] = "report" /\ ok'[c] = ok[c] /\ hand'[c] = hand[c]
    <3>1. hand[c] \in Reqs
      BY <2>1, HandType
    <3> QED
      BY <1>0, <1>2, <2>1, <3>1 DEF SuccessIsStored
  <2>2. CASE ~(consumer[c] = "report" /\ ok'[c] = ok[c] /\ hand'[c] = hand[c])
    <3>1. ASSUME NEW d \in Consumers, Process(d) PROVE stored'[hand'[c]] > 0
      <4>1. hand[d] \in Reqs /\ hand' = hand
        BY <3>1, HandType DEF Process
      <4>2. c = d
        BY <1>2, <2>2, <3>1 DEF Process, TypeOK
      <4>3. PICK good \in BOOLEAN :
              /\ ok' = [ok EXCEPT ![d] = good]
              /\ good => stored' = [stored EXCEPT ![hand[d]] = @ + 1]
        BY <3>1 DEF Process
      <4>4. good
        BY <1>2, <4>2, <4>3 DEF TypeOK
      <4>5. stored'[hand[d]] = stored[hand[d]] + 1 /\ stored[hand[d]] \in Nat
        BY <4>1, <4>3, <4>4 DEF TypeOK
      <4> QED
        BY <4>1, <4>2, <4>5
    <3>2. ASSUME NEW d \in Consumers, Pop(d) PROVE FALSE
      BY <1>2, <2>2, <3>2 DEF Pop, TypeOK
    <3>3. ASSUME NEW d \in Consumers, MarkProcessing(d) PROVE FALSE
      BY <1>2, <2>2, <3>3 DEF MarkProcessing, TypeOK
    <3>4. ASSUME NEW d \in Consumers, Report(d) \/ ConsumerCrash(d) PROVE FALSE
      BY <1>2, <2>2, <3>4 DEF Report, ConsumerCrash, TypeOK
    <3>5. ASSUME NEW q \in Reqs, Push(q) \/ SetQueued(q) \/ ProcessSync(q) PROVE FALSE
      BY <1>2, <2>2, <3>5 DEF Push, SetQueued, ProcessSync
    <3>6. ASSUME NEW q \in Reqs, ApiCrash(q) \/ Poll(q) \/ Expire(q) PROVE FALSE
      BY <1>2, <2>2, <3>6 DEF ApiCrash, Poll, Expire
    <3>7. ~RedisRestart /\ ~UNCHANGED vars
      BY <1>2, <2>2 DEF RedisRestart, vars
    <3> QED
      BY <3>1, <3>2, <3>3, <3>4, <3>5, <3>6, <3>7 DEF Next, Handler, Consume, Quiet
  <2> QED
    BY <2>1, <2>2
<1> QED
  BY <1>1, <1>2 DEF SuccessIsStored

----------------------------------------------------------------------------
(* The theorems about the queue itself. *)

\* In the initial states no job exists.
LEMMA QueueInitially == Init => QueueInvariant
<1> SUFFICES ASSUME Init PROVE QueueInvariant
  OBVIOUS
<1>1. TypeOK /\ HandsAreSound
  BY QueueAssumption DEF Init, TypeOK, HandsAreSound, Statuses
<1>2. ASSUME NEW r \in Reqs PROVE Hands(r) = {} /\ Copies(r) = 0 /\ HasEnded(r) = 0
  <2>1. Hands(r) = {}
    BY QueueAssumption DEF Init, Hands
  <2>2. HasEnded(r) = 0
    BY DEF Init, HasEnded, Final
  <2>3. {i \in DOMAIN queue : queue[i] = r} = {}
    BY PositionsEmpty DEF Init, Positions
  <2> QED
    BY <2>1, <2>2, <2>3, FS_EmptySet DEF Copies
<1>3. CopiesAddUp
  <2>1. ASSUME NEW r \in Reqs
        PROVE  /\ IsFiniteSet(Hands(r)) /\ Cardinality(Hands(r)) = 0
               /\ Copies(r) = 0 /\ HasEnded(r) = 0 /\ pushes[r] = 0
    BY <1>2, FS_EmptySet DEF Init
  <2> QED
    BY <2>1 DEF CopiesAddUp
<1>4. StagesAreSound /\ SuccessIsStored
  BY DEF Init, StagesAreSound, SuccessIsStored
<1> QED
  BY <1>1, <1>3, <1>4 DEF QueueInvariant

\* The invariant is inductive: every step of handlers, consumers and Redis, and
\* every fault of framework/jobqueue.py keeps it.
THEOREM QueueInductive == QueueInvariant /\ [Next]_vars => QueueInvariant'
<1> SUFFICES ASSUME QueueInvariant, [Next]_vars PROVE QueueInvariant'
  OBVIOUS
<1> USE DEF QueueInvariant
<1>1. TypeOK' /\ HandsAreSound'
  BY QueueTyping
<1>2. CopiesAddUp'
  BY AddUpStep
<1>3. StagesAreSound' /\ SuccessIsStored'
  BY StagesStep, SuccessStep
<1> QED
  BY <1>1, <1>2, <1>3

\* The queue keeps its inductive invariant: a copy of a job is on the list, or
\* in the hand of one consumer, or has its final status.
THEOREM QueueSafety == Spec => []QueueInvariant
BY QueueInitially, QueueInductive, PTL DEF Spec

\* The state of handlers, consumers and Redis keeps its types (jobqueue.py).
THEOREM QueueTypes == Spec => []TypeOK
<1>1. QueueInvariant => TypeOK
  BY DEF QueueInvariant
<1> QED
  BY <1>1, QueueSafety, PTL

\* One step does not take a final status back, when the job was pushed once and
\* its handler is through: whoever writes the status key then holds a copy of
\* the job, and there is none left.
LEMMA FinalStep ==
  ASSUME QueueInvariant, [Next]_vars, NEW r \in Reqs, result[r] \in Final, result'[r] # result[r]
  PROVE  result'[r] = "none" \/ api[r] = "pushed" \/ pushes[r] > 1
<1> USE DEF QueueInvariant
<1>1. ASSUME NEW c \in Consumers, hand[c] = r PROVE pushes[r] > 1
  <2>1. /\ IsFiniteSet(Hands(r)) /\ Cardinality(Hands(r)) \in Nat
        /\ Copies(r) \in Nat /\ pushes[r] \in 0..2
        /\ Copies(r) + Cardinality(Hands(r)) + 1 <= pushes[r]
    BY AddUpNumbers DEF HasEnded
  <2>2. c \in Hands(r)
    BY <1>1 DEF Hands
  <2>3. Cardinality(Hands(r)) # 0
    BY <2>1, <2>2, FS_EmptySet
  <2> QED
    BY <2>1, <2>3
<1>2. ASSUME NEW c \in Consumers, MarkProcessing(c) \/ Report(c) PROVE hand[c] = r
  BY <1>2 DEF MarkProcessing, Report, TypeOK
<1>3. ASSUME NEW q \in Reqs, SetQueued(q) PROVE api[r] = "pushed"
  BY <1>3 DEF SetQueued, TypeOK
<1>4. ASSUME NEW q \in Reqs, Expire(q) PROVE result'[r] = "none"
  BY <1>4 DEF Expire, TypeOK
<1>5. RedisRestart => result'[r] = "none"
  BY DEF RedisRestart
<1>6. ASSUME NEW q \in Reqs, Push(q) \/ ProcessSync(q) \/ ApiCrash(q) \/ Poll(q) PROVE FALSE
  BY <1>6 DEF Push, ProcessSync, ApiCrash, Poll
<1>7. ASSUME NEW c \in Consumers, Pop(c) \/ Process(c) \/ ConsumerCrash(c) PROVE FALSE
  BY <1>7 DEF Pop, Process, ConsumerCrash
<1>8. ~UNCHANGED vars
  BY DEF vars
<1> HIDE DEF QueueInvariant
<1> QED
  BY <1>1, <1>2, <1>3, <1>4, <1>5, <1>6, <1>7, <1>8 DEF Next, Handler, Consume, Quiet

\* The final status of a job that was pushed once is not taken back, whatever
\* consumers and Redis do (jobqueue.py:49-50, 135 and 144 write the same key).
THEOREM FinalStatusHolds == Spec => FinalStatusSticks
<1>1. QueueInvariant /\ [Next]_vars =>
        [\A r \in Reqs :
           (result[r] \in Final /\ result'[r] # result[r]) =>
             result'[r] = "none" \/ api[r] = "pushed" \/ pushes[r] > 1]_vars
  BY FinalStep
<1> QED
  BY <1>1, QueueSafety, PTL DEF Spec, FinalStatusSticks

----------------------------------------------------------------------------
(* The queue implements the promise. *)

\* What a request is owed, by the mapping of Promise.
Owed == [r \in Reqs |-> Due(r)]
SyncOwed(r) == IF api[r] = "sync" THEN 1 ELSE 0

\* Nobody is ever owed more than the copies pushed and one attempt in the
\* handler.
DueIsBounded ==
  \A r \in Reqs :
    /\ IsFiniteSet(AtWork(r)) /\ Cardinality(AtWork(r)) \in Nat /\ Copies(r) \in Nat
    /\ Due(r) = Copies(r) + Cardinality(AtWork(r)) + SyncOwed(r)
    /\ Due(r) \in 0..3

\* In every reachable state what is owed is a small number.
LEMMA DueType == QueueInvariant => DueIsBounded
<1> SUFFICES ASSUME QueueInvariant, NEW r \in Reqs
             PROVE  /\ IsFiniteSet(AtWork(r)) /\ Cardinality(AtWork(r)) \in Nat /\ Copies(r) \in Nat
                    /\ Due(r) = Copies(r) + Cardinality(AtWork(r)) + SyncOwed(r)
                    /\ Due(r) \in 0..3
  BY DEF DueIsBounded
<1> USE DEF QueueInvariant
<1>1. /\ IsFiniteSet(Hands(r)) /\ Cardinality(Hands(r)) \in Nat
      /\ Copies(r) \in Nat /\ HasEnded(r) \in 0..1 /\ pushes[r] \in 0..2
      /\ Copies(r) + Cardinality(Hands(r)) + HasEnded(r) <= pushes[r]
  BY AddUpNumbers
<1>2. AtWork(r) \in SUBSET Hands(r)
  BY DEF AtWork, Hands
<1>3. IsFiniteSet(AtWork(r)) /\ Cardinality(AtWork(r)) <= Cardinality(Hands(r))
  BY <1>1, <1>2, FS_Subset
<1>4. Cardinality(AtWork(r)) \in Nat
  BY <1>3, FS_CardinalityType
<1>5. Due(r) = Copies(r) + Cardinality(AtWork(r)) + SyncOwed(r)
  BY DEF Due, AtWork, SyncOwed
<1>6. SyncOwed(r) \in 0..1
  BY DEF SyncOwed
<1> QED
  BY <1>1, <1>3, <1>4, <1>5, <1>6

\* The same after a step.
LEMMA DueTypeNext == QueueInvariant' => DueIsBounded'
BY DueType, PTL

\* Ways a step of the queue is an attempt's end or beginning in the promise.
LEMMA IsDrop ==
  ASSUME QueueInvariant, QueueInvariant', stored' = stored,
         \A q \in Reqs : Due(q)' <= Due(q)
  PROVE  Promise!Attempts
<1>1. \A q \in Reqs : Owed[q] = Due(q) /\ Owed'[q] = Due(q)'
  BY DEF Owed
<1>2. Owed' \in [Reqs -> 0..3]
  BY DueTypeNext DEF Owed, DueIsBounded
<1>3. Promise!Drop
  BY <1>1, <1>2 DEF Promise!Drop, Owed
<1> QED
  BY <1>3 DEF Promise!Attempts

\* A step that ends one attempt and stores its email is Store of the promise.
LEMMA IsStore ==
  ASSUME QueueInvariant, QueueInvariant', NEW r \in Reqs, Due(r)' = Due(r) - 1,
         \A q \in Reqs \ {r} : Due(q)' = Due(q),
         stored' = [stored EXCEPT ![r] = @ + 1]
  PROVE  Promise!Attempts
<1>1. \A q \in Reqs : Owed[q] = Due(q) /\ Owed'[q] = Due(q)'
  BY DEF Owed
<1>2. Due(r) \in 0..3 /\ Due(r)' \in 0..3
  BY DueType, DueTypeNext DEF DueIsBounded
<1>3. Owed[r] > 0
  BY <1>1, <1>2
<1>4. Owed' = [Owed EXCEPT ![r] = @ - 1]
  BY <1>1 DEF Owed
<1>5. Promise!Store(r)
  BY <1>3, <1>4 DEF Promise!Store, Owed
<1> QED
  BY <1>5 DEF Promise!Attempts

\* A step that adds attempts before the caller was told anything is Owe.
LEMMA IsOwe ==
  ASSUME QueueInvariant, QueueInvariant', NEW r \in Reqs, NEW n \in 1..3, Due(r)' = Due(r) + n,
         \A q \in Reqs \ {r} : Due(q)' = Due(q),
         stored' = stored, told[r] = "nothing"
  PROVE  Promise!Attempts
<1>1. \A q \in Reqs : Owed[q] = Due(q) /\ Owed'[q] = Due(q)'
  BY DEF Owed
<1>2. Due(r) \in 0..3 /\ Due(r)' \in 0..3
  BY DueType, DueTypeNext DEF DueIsBounded
<1>3. Owed[r] + n <= 3
  BY <1>1, <1>2
<1>4. Owed' = [Owed EXCEPT ![r] = @ + n]
  BY <1>1 DEF Owed
<1>5. Promise!Owe(r, n)
  BY <1>3, <1>4 DEF Promise!Owe, Owed
<1> QED
  BY <1>5 DEF Promise!Attempts

\* Ways a step tells a caller something.
LEMMA IsTell ==
  ASSUME NEW r \in Reqs, NEW a \in {"accepted", "verdict", "error"},
         a = "accepted" => told[r] = "nothing",
         a = "verdict" => stored'[r] > 0,
         told' = [told EXCEPT ![r] = a]
  PROVE  Promise!Telling
<1>1. Promise!Tell(r, a)
  BY DEF Promise!Tell
<1>2. a \in Promise!Answers \ {"nothing"}
  BY DEF Promise!Answers
<1> QED
  BY <1>1, <1>2 DEF Promise!Telling

\* A step that tells nobody anything.
LEMMA IsSilent == ASSUME told' = told PROVE Promise!Telling
BY DEF Promise!Telling

\* What the steps of a consumer do to the jobs being worked on.
LEMMA WorkTaken ==
  ASSUME TypeOK, HandsAreSound, NEW c \in Consumers, consumer[c] = "wait", NEW r \in Reqs,
         hand' = [hand EXCEPT ![c] = r], consumer' = [consumer EXCEPT ![c] = "popped"],
         NEW q \in Reqs, IsFiniteSet(AtWork(q))
  PROVE  Cardinality(AtWork(q)') = Cardinality(AtWork(q)) + (IF q = r THEN 1 ELSE 0)
<1>1. c \notin AtWork(q)
  BY DEF AtWork
<1>2. AtWork(q)' = IF q = r THEN AtWork(q) \cup {c} ELSE AtWork(q)
  BY DEF AtWork, TypeOK
<1>3. Cardinality(AtWork(q)) \in Nat
  BY FS_CardinalityType
<1>4. Cardinality(AtWork(q) \cup {c}) = IF c \in AtWork(q) THEN Cardinality(AtWork(q))
                                                          ELSE Cardinality(AtWork(q)) + 1
  BY FS_AddElement
<1> QED
  BY <1>1, <1>2, <1>3, <1>4

\* A consumer that reports or gives up is no longer at work.
LEMMA WorkEnded ==
  ASSUME TypeOK, HandsAreSound, NEW c \in Consumers,
         \/ hand' = hand /\ consumer' = [consumer EXCEPT ![c] = "report"]
         \/ hand' = [hand EXCEPT ![c] = None] /\ consumer' = [consumer EXCEPT ![c] = "wait"],
         NEW q \in Reqs, IsFiniteSet(AtWork(q))
  PROVE  Cardinality(AtWork(q)') = Cardinality(AtWork(q)) - (IF c \in AtWork(q) THEN 1 ELSE 0)
<1>1. AtWork(q)' = AtWork(q) \ {c}
  BY QueueAssumption DEF AtWork, TypeOK
<1>2. Cardinality(AtWork(q)) \in Nat
  BY FS_CardinalityType
<1>3. Cardinality(AtWork(q) \ {c}) = IF c \in AtWork(q) THEN Cardinality(AtWork(q)) - 1
                                                       ELSE Cardinality(AtWork(q))
  BY FS_RemoveElement
<1> QED
  BY <1>1, <1>2, <1>3

\* One that starts on the job in its hand still is.
LEMMA WorkKept ==
  ASSUME TypeOK, hand' = hand,
         \/ consumer' = consumer
         \/ \E c \in Consumers : consumer[c] = "popped" /\ consumer' = [consumer EXCEPT ![c] = "working"],
         NEW q \in Reqs
  PROVE  AtWork(q)' = AtWork(q)
BY DEF AtWork, TypeOK

\* Every step of the queue is a step of the promise: it begins attempts, ends
\* one, or drops some, and tells a caller what it may.
LEMMA PromiseStep ==
  ASSUME QueueInvariant, QueueInvariant', [Next]_vars
  PROVE  Promise!Attempts /\ Promise!Telling
<1> USE DEF QueueInvariant
<1>0. ASSUME NEW q \in Reqs
      PROVE  /\ IsFiniteSet(AtWork(q)) /\ Cardinality(AtWork(q)) \in Nat /\ Copies(q) \in Nat
             /\ Due(q) = Copies(q) + Cardinality(AtWork(q)) + SyncOwed(q)
             /\ Cardinality(AtWork(q)') \in Nat /\ Copies(q)' \in Nat
             /\ Due(q)' = Copies(q)' + Cardinality(AtWork(q)') + SyncOwed(q)'
             /\ SyncOwed(q) \in 0..1 /\ SyncOwed(q)' \in 0..1
  <2>1. SyncOwed(q) \in 0..1 /\ SyncOwed(q)' \in 0..1
    BY DEF SyncOwed
  <2> HIDE DEF QueueInvariant
  <2> QED
    BY <2>1, DueType, DueTypeNext DEF DueIsBounded
<1>1. ASSUME NEW r \in Reqs, Push(r) PROVE Promise!Attempts /\ Promise!Telling
  <2>1. api[r] = "new" /\ UNCHANGED <<hand, consumer, stored, told>>
    BY <1>1 DEF Push
  <2>2. told[r] = "nothing"
    BY <2>1 DEF StagesAreSound
  <2>3. /\ pushes'[r] \in 0..2
        /\ \A q \in Reqs : Copies(q)' = Copies(q) + (IF q = r THEN pushes'[r] ELSE 0)
    BY <1>1, PushEffect
  <2>4. \/ api' = [api EXCEPT ![r] = "pushed"] /\ pushes'[r] \in 1..2
        \/ api' = [api EXCEPT ![r] = "sync"] /\ pushes'[r] \in 0..1
    <3>1. PICK n \in 0..2 :
            /\ pushes' = [pushes EXCEPT ![r] = n]
            /\ \/ n = 1 /\ api' = [api EXCEPT ![r] = "pushed"]
               \/ n = 2 /\ api' = [api EXCEPT ![r] = "pushed"]
               \/ n < 2 /\ api' = [api EXCEPT ![r] = "sync"]
      BY <1>1 DEF Push
    <3>2. pushes'[r] = n
      BY <3>1 DEF TypeOK
    <3> QED
      BY <3>1, <3>2
  <2>5. /\ SyncOwed(r) = 0
        /\ pushes'[r] + SyncOwed(r)' \in 1..3
        /\ \A q \in Reqs \ {r} : SyncOwed(q)' = SyncOwed(q)
    BY <2>1, <2>4 DEF SyncOwed, TypeOK
  <2>6. \A q \in Reqs : AtWork(q)' = AtWork(q)
    BY <2>1, WorkKept
  <2>7. Due(r)' = Due(r) + (pushes'[r] + SyncOwed(r)')
    BY <1>0, <2>3, <2>5, <2>6
  <2>8. \A q \in Reqs \ {r} : Due(q)' = Due(q)
    BY <1>0, <2>3, <2>5, <2>6
  <2> QED
    BY <2>1, <2>2, <2>5, <2>7, <2>8, IsOwe, IsSilent
<1>2. ASSUME NEW r \in Reqs, SetQueued(r) PROVE Promise!Attempts /\ Promise!Telling
  <2>1. api[r] = "pushed" /\ UNCHANGED <<queue, hand, consumer, stored>>
    BY <1>2 DEF SetQueued
  <2>2. told[r] = "nothing"
    BY <2>1 DEF StagesAreSound
  <2>3. \A q \in Reqs : Copies(q)' = Copies(q) /\ AtWork(q)' = AtWork(q)
    BY <2>1, CopiesKept, WorkKept
  <2>4. CASE api' = [api EXCEPT ![r] = "done"] /\ told' = [told EXCEPT ![r] = "accepted"]
    <3>1. \A q \in Reqs : SyncOwed(q)' = SyncOwed(q)
      BY <2>1, <2>4 DEF SyncOwed, TypeOK
    <3>2. \A q \in Reqs : Due(q)' <= Due(q)
      BY <1>0, <2>3, <3>1
    <3> QED
      BY <2>1, <2>2, <2>4, <3>2, IsDrop, IsTell
  <2>5. CASE api' = [api EXCEPT ![r] = "sync"] /\ told' = told
    <3>1. /\ SyncOwed(r) = 0 /\ SyncOwed(r)' = 1
          /\ \A q \in Reqs \ {r} : SyncOwed(q)' = SyncOwed(q)
      BY <2>1, <2>5 DEF SyncOwed, TypeOK
    <3>2. Due(r)' = Due(r) + 1 /\ \A q \in Reqs \ {r} : Due(q)' = Due(q)
      BY <1>0, <2>3, <3>1
    <3>3. 1 \in 1..3
      OBVIOUS
    <3> QED
      BY <2>1, <2>2, <2>5, <3>2, <3>3, IsOwe, IsSilent
  <2> QED
    BY <1>2, <2>4, <2>5 DEF SetQueued
<1>3. ASSUME NEW r \in Reqs, ProcessSync(r) PROVE Promise!Attempts /\ Promise!Telling
  <2>1. api[r] = "sync" /\ api' = [api EXCEPT ![r] = "done"] /\ UNCHANGED <<queue, hand, consumer>>
    BY <1>3 DEF ProcessSync
  <2>2. \A q \in Reqs : Copies(q)' = Copies(q) /\ AtWork(q)' = AtWork(q)
    BY <2>1, CopiesKept, WorkKept
  <2>3. /\ SyncOwed(r) = 1 /\ SyncOwed(r)' = 0
        /\ \A q \in Reqs \ {r} : SyncOwed(q)' = SyncOwed(q)
    BY <2>1 DEF SyncOwed, TypeOK
  <2>4. Due(r)' = Due(r) - 1 /\ \A q \in Reqs \ {r} : Due(q)' = Due(q)
    BY <1>0, <2>2, <2>3
  <2>5. \A q \in Reqs : Due(q)' <= Due(q)
    BY <1>0, <2>2, <2>3
  <2>6. CASE stored' = [stored EXCEPT ![r] = @ + 1] /\ told' = [told EXCEPT ![r] = "verdict"]
    <3>1. stored'[r] > 0
      BY <2>6 DEF TypeOK
    <3> QED
      BY <2>4, <2>6, <3>1, IsStore, IsTell
  <2>7. CASE stored' \in {stored, [stored EXCEPT ![r] = @ + 1]} /\ told' = [told EXCEPT ![r] = "error"]
    BY <2>4, <2>5, <2>7, IsStore, IsDrop, IsTell
  <2> QED
    BY <1>3, <2>6, <2>7 DEF ProcessSync
<1>4. ASSUME NEW r \in Reqs, ApiCrash(r) PROVE Promise!Attempts /\ Promise!Telling
  <2>1. /\ api' = [api EXCEPT ![r] = "done"] /\ told' = [told EXCEPT ![r] = "error"]
        /\ UNCHANGED <<queue, hand, consumer, stored>>
    BY <1>4 DEF ApiCrash
  <2>2. \A q \in Reqs : Copies(q)' = Copies(q) /\ AtWork(q)' = AtWork(q)
    BY <2>1, CopiesKept, WorkKept
  <2>3. \A q \in Reqs : SyncOwed(q)' <= SyncOwed(q)
    BY <2>1 DEF SyncOwed, TypeOK
  <2>4. \A q \in Reqs : Due(q)' <= Due(q)
    BY <1>0, <2>2, <2>3
  <2> QED
    BY <2>1, <2>4, IsDrop, IsTell
<1>5. ASSUME NEW r \in Reqs, Poll(r) PROVE Promise!Attempts /\ Promise!Telling
  <2>1. /\ UNCHANGED <<api, queue, hand, consumer, stored>> /\ result[r] \in Final
        /\ told' = [told EXCEPT ![r] = IF result[r] = "success" THEN "verdict" ELSE "error"]
    BY <1>5 DEF Poll
  <2>2. \A q \in Reqs : Copies(q)' = Copies(q) /\ AtWork(q)' = AtWork(q) /\ SyncOwed(q)' = SyncOwed(q)
    BY <2>1, CopiesKept, WorkKept DEF SyncOwed
  <2>3. \A q \in Reqs : Due(q)' <= Due(q)
    BY <1>0, <2>2
  <2>4. CASE result[r] = "success"
    <3>1. stored'[r] > 0
      BY <2>1, <2>4 DEF SuccessIsStored
    <3> QED
      BY <2>1, <2>3, <2>4, <3>1, IsDrop, IsTell
  <2>5. CASE result[r] # "success"
    BY <2>1, <2>3, <2>5, IsDrop, IsTell
  <2> QED
    BY <2>4, <2>5
<1>6. ASSUME NEW c \in Consumers, Pop(c) PROVE Promise!Attempts /\ Promise!Telling
  <2>1. UNCHANGED <<api, stored, told>> /\ consumer[c] = "wait"
    BY <1>6 DEF Pop
  <2>2. /\ Head(queue) \in Reqs
        /\ \A q \in Reqs : Copies(q) = Copies(q)' + (IF q = Head(queue) THEN 1 ELSE 0)
    BY <1>6, PopEffect
  <2>3. ASSUME NEW q \in Reqs PROVE Due(q)' <= Due(q)
    <3>1. SyncOwed(q)' = SyncOwed(q)
      BY <2>1 DEF SyncOwed
    <3>2. CASE hand' = [hand EXCEPT ![c] = Head(queue)] /\ consumer' = [consumer EXCEPT ![c] = "popped"]
      <4>1. Cardinality(AtWork(q)') = Cardinality(AtWork(q)) + (IF q = Head(queue) THEN 1 ELSE 0)
        BY <1>0, <2>1, <2>2, <3>2, WorkTaken
      <4> QED
        BY <1>0, <2>2, <3>1, <4>1
    <3>3. CASE hand' = hand /\ consumer' = consumer
      BY <1>0, <2>2, <3>1, <3>3, WorkKept
    <3> QED
      BY <1>6, <3>2, <3>3 DEF Pop
  <2> QED
    BY <2>1, <2>3, IsDrop, IsSilent
<1>7. ASSUME NEW c \in Consumers, MarkProcessing(c) PROVE Promise!Attempts /\ Promise!Telling
  <2>1. /\ UNCHANGED <<api, queue, hand, stored, told>>
        /\ consumer[c] = "popped" /\ consumer' = [consumer EXCEPT ![c] = "working"]
    BY <1>7 DEF MarkProcessing
  <2>2. \A q \in Reqs : Copies(q)' = Copies(q) /\ AtWork(q)' = AtWork(q) /\ SyncOwed(q)' = SyncOwed(q)
    BY <2>1, CopiesKept, WorkKept DEF SyncOwed
  <2>3. \A q \in Reqs : Due(q)' <= Due(q)
    BY <1>0, <2>2
  <2> QED
    BY <2>1, <2>3, IsDrop, IsSilent
<1>8. ASSUME NEW c \in Consumers, Process(c) PROVE Promise!Attempts /\ Promise!Telling
  <2>1. /\ UNCHANGED <<api, queue, hand, told>>
        /\ consumer[c] = "working" /\ consumer' = [consumer EXCEPT ![c] = "report"]
    BY <1>8 DEF Process, AfterWork, QueueAfterWork
  <2>2. hand[c] \in Reqs
    BY <2>1, HandType
  <2>3. \A q \in Reqs : Copies(q)' = Copies(q) /\ SyncOwed(q)' = SyncOwed(q)
    BY <2>1, CopiesKept DEF SyncOwed
  <2>4. \A q \in Reqs : c \in AtWork(q) <=> q = hand[c]
    BY <2>1 DEF AtWork
  <2>5. \A q \in Reqs : Cardinality(AtWork(q)') = Cardinality(AtWork(q)) - (IF q = hand[c] THEN 1 ELSE 0)
    BY <1>0, <2>1, <2>4, WorkEnded
  <2>6. PICK h \in Reqs : h = hand[c]
    BY <2>2
  <2>7. Due(h)' = Due(h) - 1 /\ \A q \in Reqs \ {h} : Due(q)' = Due(q)
    BY <1>0, <2>3, <2>5, <2>6
  <2>8. \A q \in Reqs : Due(q)' <= Due(q)
    BY <1>0, <2>3, <2>5, <2>6
  <2>9. stored' = stored \/ stored' = [stored EXCEPT ![h] = @ + 1]
    BY <1>8, <2>6 DEF Process
  <2>10. CASE stored' = [stored EXCEPT ![h] = @ + 1]
    BY <2>1, <2>7, <2>10, IsStore, IsSilent
  <2>11. CASE stored' = stored
    BY <2>1, <2>8, <2>11, IsDrop, IsSilent
  <2> QED
    BY <2>9, <2>10, <2>11
<1>9. ASSUME NEW c \in Consumers, Report(c) \/ ConsumerCrash(c)
      PROVE  Promise!Attempts /\ Promise!Telling
  <2>1. /\ UNCHANGED <<api, queue, stored, told>>
        /\ hand' = [hand EXCEPT ![c] = None] /\ consumer' = [consumer EXCEPT ![c] = "wait"]
    BY <1>9 DEF Report, ConsumerCrash
  <2>2. \A q \in Reqs : Copies(q)' = Copies(q) /\ SyncOwed(q)' = SyncOwed(q)
    BY <2>1, CopiesKept DEF SyncOwed
  <2>3. \A q \in Reqs : Cardinality(AtWork(q)') = Cardinality(AtWork(q)) - (IF c \in AtWork(q) THEN 1 ELSE 0)
    BY <1>0, <2>1, WorkEnded
  <2>4. \A q \in Reqs : Due(q)' <= Due(q)
    BY <1>0, <2>2, <2>3
  <2> QED
    BY <2>1, <2>4, IsDrop, IsSilent
<1>10. CASE RedisRestart
  <2>1. UNCHANGED <<api, hand, consumer, stored, told>> /\ queue' = <<>>
    BY <1>10 DEF RedisRestart
  <2>2. \A q \in Reqs : Copies(q)' = 0 /\ AtWork(q)' = AtWork(q) /\ SyncOwed(q)' = SyncOwed(q)
    BY <2>1, CopiesLost, WorkKept DEF SyncOwed
  <2>3. \A q \in Reqs : Due(q)' <= Due(q)
    BY <1>0, <2>2
  <2> QED
    BY <2>1, <2>3, IsDrop, IsSilent
<1>11. ASSUME UNCHANGED <<api, queue, hand, consumer, stored, told>>
       PROVE  Promise!Attempts /\ Promise!Telling
  <2>1. \A q \in Reqs : Copies(q)' = Copies(q) /\ AtWork(q)' = AtWork(q) /\ SyncOwed(q)' = SyncOwed(q)
    BY <1>11, CopiesKept, WorkKept DEF SyncOwed
  <2>2. \A q \in Reqs : Due(q)' <= Due(q)
    BY <1>0, <2>1
  <2> QED
    BY <1>11, <2>2, IsDrop, IsSilent
<1>12. ASSUME NEW r \in Reqs, Expire(r) PROVE Promise!Attempts /\ Promise!Telling
  BY <1>11, <1>12 DEF Expire
<1> HIDE DEF QueueInvariant
<1> QED
  BY <1>1, <1>2, <1>3, <1>4, <1>5, <1>6, <1>7, <1>8, <1>9, <1>10, <1>11, <1>12
     DEF Next, Handler, Consume, Quiet, vars

\* The queue, its handlers and its consumers implement IngestPromise: each
\* attempt a request gave rise to is settled at most once and stores at most
\* one row, and a verdict is told only of a stored email, whatever consumers,
\* Redis and API workers do and whichever of them fail (jobqueue.py, POST
\* /v1/emails of router.py).
THEOREM QueueKeepsPromise == Spec => ImplementsPromise
<1>1. Init => Promise!Init
  <2> SUFFICES ASSUME Init PROVE Promise!Init
    OBVIOUS
  <2>1. QueueInvariant
    BY QueueInitially
  <2>2. ASSUME NEW r \in Reqs PROVE Due(r) = 0
    <3>1. {c \in Consumers : hand[c] = r /\ consumer[c] \in {"popped", "working"}} = {}
      BY DEF Init
    <3>2. {i \in DOMAIN queue : queue[i] = r} = {}
      BY PositionsEmpty DEF Init, Positions
    <3>3. api[r] # "sync"
      BY DEF Init
    <3> QED
      BY <3>1, <3>2, <3>3, FS_EmptySet DEF Due, Copies
  <2> QED
    BY <2>2 DEF Init, Promise!Init
<1>2. QueueInvariant /\ QueueInvariant' /\ [Next]_vars => [Promise!Next]_<<Owed, stored, told>>
  BY PromiseStep DEF Promise!Next
<1> QED
  BY <1>1, <1>2, QueueSafety, PTL DEF Spec, ImplementsPromise, Promise!Spec, Owed

=============================================================================
