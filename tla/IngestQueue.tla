---------------------------- MODULE IngestQueue ----------------------------
(***************************************************************************)
(* framework/jobqueue.py and its caller POST /v1/emails in api/router.py:   *)
(* a request is pushed on a Redis list and answered 202; the consumer of    *)
(* the watcher process pops it, runs detection and stores a status the      *)
(* client polls.  When enqueueing fails the request is processed in the     *)
(* API worker instead.                                                      *)
(*                                                                         *)
(* Every Redis call and every COMMIT may fail after taking effect: the      *)
(* reply is lost.  The client library re-sends a command whose reply timed  *)
(* out, so one RPUSH may append twice.  These outcomes, crashes and Redis   *)
(* restarts share the budget MaxFaults.                                     *)
(***************************************************************************)
EXTENDS Naturals, Sequences, SequencesExt, FiniteSets

CONSTANTS
  Reqs,        \* requests (one job id each)
  Consumers,   \* processes that run the consumer, one after the other or, when
               \* the watcher slot changes hands too early, together
  None,        \* no job
  MaxFaults    \* bound: faults in a behaviour

ASSUME QueueAssumption == None \notin Reqs /\ MaxFaults \in Nat

VARIABLES
  api,         \* request -> where its handler is
  queue,       \* the Redis list
  result,      \* request -> the status key of its job
  consumer,    \* consumer -> where it is in its loop
  hand,        \* consumer -> the job it popped
  ok,          \* consumer -> process_email_payload returned without raising
  stored,      \* request -> rows stored for it
  told,        \* request -> what the client knows
  pushes,      \* history: request -> copies appended to the list by RPUSH
  faults

vars == <<api, queue, result, consumer, hand, ok, stored, told, pushes, faults>>

Statuses == {"none", "queued", "processing", "success", "failed"}
Final    == {"success", "failed"}

TypeOK ==
  /\ api \in [Reqs -> {"new", "pushed", "sync", "done"}]
  /\ queue \in Seq(Reqs)
  /\ result \in [Reqs -> Statuses]
  /\ consumer \in [Consumers -> {"wait", "popped", "working", "report"}]
  /\ hand \in [Consumers -> Reqs \cup {None}]
  /\ ok \in [Consumers -> BOOLEAN]
  /\ stored \in [Reqs -> Nat]
  /\ told \in [Reqs -> {"nothing", "accepted", "verdict", "error"}]
  /\ pushes \in [Reqs -> 0..2]
  /\ faults \in 0..MaxFaults

Init ==
  /\ api = [r \in Reqs |-> "new"]
  /\ queue = <<>>
  /\ result = [r \in Reqs |-> "none"]
  /\ consumer = [c \in Consumers |-> "wait"]
  /\ hand = [c \in Consumers |-> None]
  /\ ok = [c \in Consumers |-> FALSE]
  /\ stored = [r \in Reqs |-> 0]
  /\ told = [r \in Reqs |-> "nothing"]
  /\ pushes = [r \in Reqs |-> 0]
  /\ faults = 0

Fault == faults < MaxFaults /\ faults' = faults + 1
NoFault == UNCHANGED faults

----------------------------------------------------------------------------
(* POST /v1/emails: enqueue_email, then the fallback. *)

\* RPUSH.  Pushed (possibly twice, after a re-send), or raised without or
\* after taking effect; raising makes enqueue_email return None.
Push(r) ==
  /\ api[r] = "new"
  /\ \E n \in 0..2 :
       /\ queue' = queue \o [i \in 1..n |-> r]
       /\ pushes' = [pushes EXCEPT ![r] = n]
       /\ \/ n = 1 /\ NoFault /\ api' = [api EXCEPT ![r] = "pushed"]
          \/ n = 2 /\ Fault   /\ api' = [api EXCEPT ![r] = "pushed"]
          \/ n < 2 /\ Fault   /\ api' = [api EXCEPT ![r] = "sync"]
  /\ UNCHANGED <<result, consumer, hand, ok, stored, told>>

\* SETEX "queued", after the push: the job id is returned (202), or the call
\* raises and the handler falls through to synchronous processing.
SetQueued(r) ==
  /\ api[r] = "pushed"
  /\ \/ /\ result' = [result EXCEPT ![r] = "queued"]
        /\ api' = [api EXCEPT ![r] = "done"]
        /\ told' = [told EXCEPT ![r] = "accepted"]
        /\ NoFault
     \/ /\ result' \in {result, [result EXCEPT ![r] = "queued"]}
        /\ api' = [api EXCEPT ![r] = "sync"]
        /\ UNCHANGED told
        /\ Fault
  /\ UNCHANGED <<queue, consumer, hand, ok, stored, pushes>>

\* process_email_payload in the handler: the verdict, or 500.  The COMMIT may
\* have taken effect when it raises.
ProcessSync(r) ==
  /\ api[r] = "sync"
  /\ api' = [api EXCEPT ![r] = "done"]
  /\ \/ /\ stored' = [stored EXCEPT ![r] = @ + 1]
        /\ told' = [told EXCEPT ![r] = "verdict"]
        /\ NoFault
     \/ /\ stored' \in {stored, [stored EXCEPT ![r] = @ + 1]}
        /\ told' = [told EXCEPT ![r] = "error"]
        /\ Fault
  /\ UNCHANGED <<queue, result, consumer, hand, ok, pushes>>

\* The worker dies in the middle of the request.
ApiCrash(r) ==
  /\ api[r] \in {"pushed", "sync"}
  /\ Fault
  /\ api' = [api EXCEPT ![r] = "done"]
  /\ told' = [told EXCEPT ![r] = "error"]
  /\ UNCHANGED <<queue, result, consumer, hand, ok, stored, pushes>>

\* GET /v1/emails/jobs/{job_id} by a client that holds a job id.
Poll(r) ==
  /\ told[r] = "accepted"
  /\ result[r] \in Final
  /\ told' = [told EXCEPT ![r] = IF result[r] = "success" THEN "verdict" ELSE "error"]
  /\ UNCHANGED <<api, queue, result, consumer, hand, ok, stored, pushes, faults>>

----------------------------------------------------------------------------
(* consume_ingest_queue *)

\* Mutation: the job is read but stays on the list.
QueueAfterPeek == queue

QueueAfterPop == Tail(queue)

\* BLPOP; a lost reply loses the job.
Pop(c) ==
  /\ consumer[c] = "wait" /\ queue # <<>>
  /\ queue' = QueueAfterPop
  /\ \/ /\ hand' = [hand EXCEPT ![c] = Head(queue)]
        /\ consumer' = [consumer EXCEPT ![c] = "popped"]
        /\ NoFault
     \/ /\ UNCHANGED <<hand, consumer>>
        /\ Fault
  /\ UNCHANGED <<api, result, ok, stored, told, pushes>>

\* SETEX "processing"; its failure is ignored.
MarkProcessing(c) ==
  /\ consumer[c] = "popped"
  /\ \/ /\ result' = [result EXCEPT ![hand[c]] = "processing"] /\ NoFault
     \/ /\ UNCHANGED result /\ Fault
  /\ consumer' = [consumer EXCEPT ![c] = "working"]
  /\ UNCHANGED <<api, queue, hand, ok, stored, told, pushes>>

\* Mutation: a job that failed is put back on the list.
QueueIfRequeued(c, good) == IF good THEN queue ELSE Append(queue, hand[c])

QueueAfterWork(c, good) == queue

\* Mutation: the consumer ends after one job.
StopAfterJob(good) == "stopped"

AfterWork(good) == "report"

\* process_email_payload; an exception is caught and becomes "failed".
Process(c) ==
  /\ consumer[c] = "working"
  /\ \E good \in BOOLEAN :
       /\ ok' = [ok EXCEPT ![c] = good]
       /\ consumer' = [consumer EXCEPT ![c] = AfterWork(good)]
       /\ queue' = QueueAfterWork(c, good)
       /\ \/ /\ good /\ NoFault
             /\ stored' = [stored EXCEPT ![hand[c]] = @ + 1]
          \/ /\ ~good /\ Fault
             /\ stored' \in {stored, [stored EXCEPT ![hand[c]] = @ + 1]}
  /\ UNCHANGED <<api, result, hand, told, pushes>>

\* Mutation: the outcome of the processing is not looked at.
OptimisticStatus(c) == "success"

\* Mutation: a status the polling endpoint does not document.
UndocumentedStatus(c) == IF ok[c] THEN "success" ELSE "error"

ReportedStatus(c) == IF ok[c] THEN "success" ELSE "failed"

\* SETEX of the result; its failure is ignored.
Report(c) ==
  /\ consumer[c] = "report"
  /\ \/ /\ result' = [result EXCEPT ![hand[c]] = ReportedStatus(c)] /\ NoFault
     \/ /\ UNCHANGED result /\ Fault
  /\ consumer' = [consumer EXCEPT ![c] = "wait"]
  /\ hand' = [hand EXCEPT ![c] = None]
  /\ ok' = [ok EXCEPT ![c] = FALSE]
  /\ UNCHANGED <<api, queue, stored, told, pushes>>

----------------------------------------------------------------------------
(* Failures of the parts. *)

\* The consumer's process dies; its successor starts at the top of the loop.
ConsumerCrash(c) ==
  /\ consumer[c] # "wait"
  /\ Fault
  /\ consumer' = [consumer EXCEPT ![c] = "wait"]
  /\ hand' = [hand EXCEPT ![c] = None]
  /\ ok' = [ok EXCEPT ![c] = FALSE]
  /\ UNCHANGED <<api, queue, result, stored, told, pushes>>

\* Redis restarts empty (it is run without persistence).
RedisRestart ==
  /\ Fault
  /\ queue' = <<>>
  /\ result' = [r \in Reqs |-> "none"]
  /\ UNCHANGED <<api, consumer, hand, ok, stored, told, pushes>>

\* RESULT_TTL passes.
Expire(r) ==
  /\ result[r] # "none"
  /\ result' = [result EXCEPT ![r] = "none"]
  /\ UNCHANGED <<api, queue, consumer, hand, ok, stored, told, pushes, faults>>

----------------------------------------------------------------------------
Handler(r)  == Push(r) \/ SetQueued(r) \/ ProcessSync(r)
Consume(c)  == Pop(c) \/ MarkProcessing(c) \/ Process(c) \/ Report(c)

\* Nothing is left to do: every handler and every consumer is idle.
Quiet ==
  /\ \A r \in Reqs : api[r] = "done" /\ result[r] = "none"
  /\ queue = <<>> /\ \A c \in Consumers : consumer[c] = "wait"
  /\ UNCHANGED vars

Next ==
  \/ \E r \in Reqs : Handler(r) \/ ApiCrash(r) \/ Poll(r) \/ Expire(r)
  \/ \E c \in Consumers : Consume(c) \/ ConsumerCrash(c)
  \/ RedisRestart
  \/ Quiet

Spec == Init /\ [][Next]_vars

\* Handlers and consumer threads keep running.
FairSpec ==
  Spec /\ (\A r \in Reqs : WF_vars(Handler(r))) /\ (\A c \in Consumers : WF_vars(Consume(c)))

----------------------------------------------------------------------------
(* Properties. *)

Copies(r) == Cardinality({i \in DOMAIN queue : queue[i] = r})

\* Attempts at r that are still to be settled.
Due(r) == Copies(r)
          + Cardinality({c \in Consumers : hand[c] = r /\ consumer[c] \in {"popped", "working"}})
          + (IF api[r] = "sync" THEN 1 ELSE 0)

\* The queue implements the API's promise: each job copy is settled at most
\* once, also with two consumers, and nobody is told a verdict for an email
\* that is not stored.
Promise == INSTANCE IngestPromise WITH due <- [r \in Reqs |-> Due(r)], MaxAttempts <- 3
ImplementsPromise == Promise!Spec

\* The final status of a job that was pushed once is not taken back, whatever
\* the consumers do: it only expires or is lost with Redis, except that the
\* handler's own "queued" may still be on its way (jobqueue.py:49-50, 135 and
\* 144 all write the same key).
FinalStatusSticks ==
  [][\A r \in Reqs :
       (result[r] \in Final /\ result'[r] # result[r]) =>
         result'[r] = "none" \/ api[r] = "pushed" \/ pushes[r] > 1]_vars

\* An accepted job does not stay owed for ever, whoever crashes.
AcceptedIsSettled ==
  \A r \in Reqs : told[r] = "accepted" ~> Due(r) = 0

=============================================================================
